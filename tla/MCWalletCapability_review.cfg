SPECIFICATION Spec
CONSTANTS
    FeltBound = 6
    MaxU8 = 2
    MaxU64 = 3
    MaxU128 = 4
    Wallets = {"wallet"}
    MinimumVersion <- MCMinimum
    Versions <- MCVersions
    Accounts = {1}
    DepositFields <- MCDepositFields
    ClaimFields <- MCClaimFields
    EscrowRecords <- MCEscrowRecords
    MaxCalls = 4
INVARIANTS OneRequestPerDryRun BusyPanelHasACall AmountShownWithItsClaim
CHECK_DEADLOCK FALSE
