SPECIFICATION Spec
CONSTANTS
    alice = alice
    bob = bob
    n1 = n1
    n2 = n2
    n3 = n3
    e1 = e1
    e2 = e2
    MaxTime = 1
    PolicyIds = {p1}
    Contracts = {escrow}
    Purposes = {"ESCROW_ROLE"}
    CredentialClasses = {class}
    PolicyWindows <- MCOneWindow
    Commitments <- MCCommitments
    Nullifiers <- MCTwoNullifiers
    Lifetimes = {2}
    MaxReceipts = 0
    ComputePolicyIds = {}
    ComputeAudiences = {escrow}
    Programs = {}
    RequiredScores = {}
    Scores = {}
    ComputeWindows <- MCOneWindow
    ResultExpiries = {4}
    MaxProofs = 0
    EscrowIds <- MCOneEscrow
    EscrowContract = escrow
    Tokens = {token}
    Amounts = {1}
    Deliveries = {d1}
    Notes = {note1}
    NoPayload = NoPayload
    MaxDonation = 1
INVARIANT ExcessStaysUnaccounted
CHECK_DEADLOCK FALSE
