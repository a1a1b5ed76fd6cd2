SPECIFICATION Spec
CONSTANTS
    alice = alice
    bob = bob
    n1 = n1
    n2 = n2
    n3 = n3
    e1 = e1
    e2 = e2
    MaxTime = 2
    PolicyIds = {p1}
    Contracts = {escrow}
    Purposes = {"ESCROW_ROLE"}
    CredentialClasses = {class}
    PolicyWindows <- MCOneWindow
    Commitments <- MCCommitments
    Nullifiers <- MCThreeNullifiers
    Lifetimes = {2}
    MaxReceipts = 3
    ComputePolicyIds = {}
    ComputeAudiences = {escrow}
    Programs = {}
    RequiredScores = {}
    Scores = {}
    ComputeWindows <- MCOneWindow
    ResultExpiries = {4}
    MaxProofs = 0
    EscrowIds <- MCOneEscrow
    EscrowContract = escrow
    Tokens = {token}
    Amounts = {1}
    Deliveries = {d1}
    Notes = {note1}
    NoPayload = NoPayload
    MaxDonation = 0
SYMMETRY MCSymmetry
INVARIANTS TypeOK PaidOnceToTheWinner NonceSerializesActions OneActionPerNullifier PerformedAsSigned
PROPERTY DecisionsAreFinal
CHECK_DEADLOCK FALSE
