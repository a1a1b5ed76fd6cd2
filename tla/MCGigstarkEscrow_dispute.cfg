SPECIFICATION FairSpec
CONSTANTS
    alice = alice
    bob = bob
    n1 = n1
    n2 = n2
    n3 = n3
    e1 = e1
    e2 = e2
    MaxTime = 2
    PolicyIds = {p1}
    Contracts = {escrow}
    Purposes = {"ESCROW_ROLE"}
    CredentialClasses = {class}
    PolicyWindows <- MCOneWindow
    Commitments <- MCCommitments
    Nullifiers <- MCTwoNullifiers
    Lifetimes = {2}
    MaxReceipts = 2
    ComputePolicyIds = {cp1}
    ComputeAudiences = {escrow}
    Programs = {g1}
    RequiredScores = {30, 50}
    Scores = {40}
    ComputeWindows <- MCOneWindow
    ResultExpiries = {4}
    MaxProofs = 1
    EscrowIds <- MCOneEscrow
    EscrowContract = escrow
    Tokens = {token}
    Amounts = {1}
    Deliveries = {d1}
    Notes = {note1}
    NoPayload = NoPayload
    MaxDonation = 0
INVARIANT DisputesDecidedByProof
PROPERTIES ImplementsLedger OpenEscrowsAreDecided
CHECK_DEADLOCK FALSE
