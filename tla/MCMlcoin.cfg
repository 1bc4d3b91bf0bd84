SPECIFICATION MCSpec
CONSTANTS
    founder = founder
    user = user
    Users = {founder, user}
    Spenders = {contract}
    Genesis <- MCGenesis
    Indexed = {founder}
    GenesisKes <- MCKes
    Circulating = 2
    TotalSupply = 5
    DailyLimit = 2
    DailyLimits = {1, 2}
    BurnRate = 1
    BurnUnit = 2
    FeeRate = 1
    FeeUnit = 4
    TradeUnit = 1
    PriceUnit = 4
    FirstPrices <- MCPrices
    Adjustments <- MCAdjustments
    KesCap = 8
    MinStake = 2
    RewardDivisor = 1
    LockBlocks = 1
    BonusBlocks = 2
    BonusUnit = 2
    MaxAge = 2
    Ratio = 3
    Scale = 4
    PointsCap = 2
    WordSize = 5
    Amounts = {2}
    MaxPrice = 4
    MaxMsgs = 4
    MaxImports = 1
INVARIANTS
    TypeOK
    Backed
    CapCoversBuys
PROPERTIES
    TreasuryPaid
    PrincipalReturns
