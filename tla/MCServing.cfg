SPECIFICATION FairSpec
CONSTANTS
  Tls12 <- OldSuites
  Tls13 <- NewSuites
  Words = {"word"}
  Files = {"file"}
  Tokens = {"t1", "t2", "t3"}
  Servers = {"s1", "s2", "s3"}
  InCluster = "s3"
  Names = {"a", "b", "c"}
  CommandLines <- SomeCommandLines
  Absent = Absent
  Unusable = Unusable
  NoClient = NoClient
  Pairs = {g1, g2}
  Torn = Torn
  Made = Made
  Offers <- SomeOffers
INVARIANTS TypeOK RestrictionsHold TlsClientsAreVerified StartedAsAsked ServedFromDisk OnlyTrustedClients
PROPERTY ReplacementTakesEffect
CHECK_DEADLOCK FALSE
