SPECIFICATION Spec
CONSTANTS
  Slots = {s1}
  Users = {alice}
  Nobody = Nobody
  Blank = Blank
  Foreign = Foreign
  Attrs = {"a1", "a2"}
  MaxAttrs = 2
  Paths <- SomePaths
  Healthz <- HealthzPath
  Metrics <- MetricsPath
  Configs <- FullConfigs
  NoRequest = NoRequest
  Abstain = Abstain
  Error = Error
  Modulus = 2
  Arrivals <- FewArrivals
INVARIANT CertificateNamesAreVerified
