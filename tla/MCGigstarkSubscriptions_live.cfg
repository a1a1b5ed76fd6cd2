SPECIFICATION FairSpec
CONSTANTS
    alice = alice
    bob = bob
    n1 = n1
    n2 = n2
    n3 = n3
    s1 = s1
    s2 = s2
    MaxTime = 3
    PolicyIds = {p1}
    Contracts = {subscriptions}
    Purposes = {"SUBSCRIPTION_ROLE"}
    CredentialClasses = {class}
    PolicyWindows <- MCOneWindow
    Commitments <- MCCommitments
    Nullifiers <- MCTwoNullifiers
    Lifetimes = {2}
    MaxReceipts = 2
    SubscriptionIds <- MCOneSubscription
    SubscriptionContract = subscriptions
    Tokens = {token}
    Amounts = {1}
    Notes = {note1}
    MaxDonation = 1
INVARIANTS AccountedIsUnclaimed Solvent
PROPERTY SubscriptionsEnd
CHECK_DEADLOCK FALSE
