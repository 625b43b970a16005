SPECIFICATION Spec
CONSTANTS
  k1 = k1
  e1 = e1
  Tasks = {t1, t2}
  Kids = {k1, e1}
  Rsa = {k1}
  Tokens <- MixedTokens
  NoToken = NoToken
  NoKeys = NoKeys
  Failed = Failed
  TTL = 2
  Latency = 1
  Stale = 3
SYMMETRY TaskSymmetry
INVARIANTS TypeOK KeysFaithful
PROPERTIES OnlyPublishedKeys RotationIsSeen RefreshBudget
