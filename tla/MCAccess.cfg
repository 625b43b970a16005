SPECIFICATION FairAccessSpec
CONSTANTS
  Slots = {s1}
  Users = {alice}
  Nobody = Nobody
  Blank = Blank
  Foreign = Foreign
  Attrs = {"pod", "log", "svc"}
  MaxAttrs = 2
  Paths <- SomePaths
  Healthz <- HealthzPath
  Metrics <- MetricsPath
  Configs <- SomeConfigs
  NoRequest = NoRequest
  Abstain = Abstain
  Error = Error
  Modulus = 1
  Bearer = Bearer
  CacheKey <- OneKeyForLog
  Stale = 2
  Arrivals <- SomeArrivals
INVARIANT RevokedIsRefused
PROPERTY AccessSettles
