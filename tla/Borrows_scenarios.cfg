SPECIFICATION MCSpec
CONSTANTS
    MaxTag = 5
    Scenarios <- MCScenarios
    Loc = {1}
    ImplicitWrites = TRUE
    CacheLen = 3
CHECK_DEADLOCK FALSE
INVARIANTS TbVerdictsAgree SbVerdictsAgree CachesExact
