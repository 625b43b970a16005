SPECIFICATION Spec
CONSTANTS
  Tasks = {t1}
  Questions <- NamedQuestions
  Keys <- NamedKeys
  Bodies <- NamedBodies
  Body <- NamedBody
  Key <- NamedKey
  Answers = {allowed, denied}
  NoQuestion = NoQuestion
  Failed = Failed
  Retryable = Retryable
  Absent = Absent
  TTL = 2
  Latency = 1
  Stale = 3
PROPERTY OwnAnswer
