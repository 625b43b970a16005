SPECIFICATION FairSpec
CONSTANTS
  Tasks = {t1, t2}
  Tokens = {tok1}
  Questions = {tok1}
  Keys = {tok1}
  Bodies = {tok1}
  Body <- TokenOf
  Key <- TokenOf
  Answers = {alice, none}
  NoQuestion = NoQuestion
  Failed = Failed
  Retryable = Retryable
  Absent = Absent
  TTL = 2
  Latency = 1
  Stale = 3
PROPERTIES ImplementsService Convergence
