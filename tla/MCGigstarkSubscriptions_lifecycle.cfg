SPECIFICATION Spec
CONSTANTS
    alice = alice
    bob = bob
    n1 = n1
    n2 = n2
    n3 = n3
    s1 = s1
    s2 = s2
    MaxTime = 2
    PolicyIds = {p1}
    Contracts = {subscriptions}
    Purposes = {"SUBSCRIPTION_ROLE"}
    CredentialClasses = {class}
    PolicyWindows <- MCOneWindow
    Commitments <- MCCommitments
    Nullifiers <- MCThreeNullifiers
    Lifetimes = {2}
    MaxReceipts = 3
    SubscriptionIds <- MCOneSubscription
    SubscriptionContract = subscriptions
    Tokens = {token}
    Amounts = {1}
    Notes = {note1}
    MaxDonation = 0
SYMMETRY MCSymmetry
INVARIANTS TypeOK OneNotePerPaidPeriod ActionsSignedInTurn PaidTimeIsGiven
PROPERTY EndsAreFinal
CHECK_DEADLOCK FALSE
