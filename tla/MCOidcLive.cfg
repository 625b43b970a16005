SPECIFICATION FairSpec
CONSTANTS
  k1 = k1
  e1 = e1
  Tasks = {t1, t2}
  Kids = {k1}
  Rsa = {k1}
  Tokens <- OneToken
  NoToken = NoToken
  NoKeys = NoKeys
  Failed = Failed
  TTL = 2
  Latency = 1
  Stale = 3
PROPERTIES EveryTokenEnds WithdrawnKeysFade
