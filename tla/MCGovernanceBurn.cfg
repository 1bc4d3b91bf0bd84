SPECIFICATION Spec
CONSTANTS
    Users = {1, 2}
    Amounts = {0, 1}
    Initials = {0, 1}
    Ballots <- MCBallots
    Shares = {0, 3}
    Delegators = {1}
    BondedTokens = {0, 9}
    Unit = 1000
    ParamChoices <- MCParams
    other = other
    Other = other
    Contents <- MCContents
    InitShares <- MCShares
    DefaultDeposit = 1
    Funds = 1
    MaxProposals = 2
    LastSubmit = 0
    MaxTime = 6
INVARIANTS
    BurnsOwnDeposit
