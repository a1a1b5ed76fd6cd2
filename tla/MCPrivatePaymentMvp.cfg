SPECIFICATION Spec
CONSTANTS
    alice = alice
    bob = bob
    Base = 10
    Decimals = 0
    AmountBound = 5
    HistoryLimit = 2
    Accounts = {alice}
    AmountTexts <- MCOneAmount
    Recipients = {alias, x}
    Addresses = {x, y}
    ForeignReceipts <- MCForeign
    MaxRevision = 4
    MaxCalls = 3
INVARIANTS SignedAsReviewed LockedFormHasACall MemoOfItsPayment AnnouncedHashesKept
CHECK_DEADLOCK FALSE
