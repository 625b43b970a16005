SPECIFICATION FairSpec
CONSTANTS
  Callers = {c1, c2, c3}
  Unit = 3
  Rates = {0, 2, 4}
  Burst = 2
  Window = 5
  Horizon = 6
INVARIANTS TypeOK RateBound NoIdleToken
PROPERTIES SomeoneProceeds EveryoneProceeds
