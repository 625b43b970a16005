SPECIFICATION Spec
CONSTANTS
  Tasks = {t1, t2}
  Tokens = {tok1, tok2}
  Questions = {tok1, tok2}
  Keys = {tok1, tok2}
  Bodies = {tok1, tok2}
  Body <- TokenOf
  Key <- TokenOf
  Answers = {alice, none}
  NoQuestion = NoQuestion
  Failed = Failed
  Retryable = Retryable
  Absent = Absent
  TTL = 2
  Latency = 1
  Stale = 3
SYMMETRY Symmetry
INVARIANTS TypeOK CacheFaithful
PROPERTIES OwnAnswer RetryBudget
