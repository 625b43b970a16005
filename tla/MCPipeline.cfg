SPECIFICATION FairSpec
CONSTANTS
  Slots = {s1}
  Users = {alice, bob}
  Nobody = Nobody
  Blank = Blank
  Foreign = Foreign
  Attrs = {"a1", "a2"}
  MaxAttrs = 2
  Paths <- SomePaths
  Healthz <- HealthzPath
  Metrics <- MetricsPath
  Configs <- AllConfigs
  NoRequest = NoRequest
  Abstain = Abstain
  Error = Error
  Modulus = 3
  Arrivals <- OneClaim
INVARIANTS TypeOK OnlyAuthorizedIsForwarded StatusIsEarned HeadersAreVouched
PROPERTIES CountedOnce EveryRequestEnds
