-------------------------- MODULE RateLimiterProofs --------------------------
(***************************************************************************)
(* Theorems about RateLimiter for any number of callers and any rate and   *)
(* burst.                                                                  *)
(***************************************************************************)
EXTENDS RateLimiter, TLAPS

USE LimiterAssumption

IInv == TypeOK /\ Budget /\ Punctual

-----------------------------------------------------------------------------
(* Arithmetic. *)

LEMMA FullIsPositive == Full \in Nat /\ Full >= Unit
<1>1. \A m, n \in Nat \ {0} : m * n \in Nat /\ m * n >= m
  BY SMT
<1> QED BY <1>1 DEF Full

LEMMA TimesMonotone ==
  ASSUME TypeOK
  PROVE  qps \in Nat /\ \A m, n \in Int : m <= n => qps * m <= qps * n
<1>1. qps \in Nat
  BY DEF TypeOK
<1> QED BY <1>1, SMT

\* The sleep computed for a missing amount is long enough to refill it, and
\* one tick less is too short.
LEMMA CeilingBounds ==
  ASSUME NEW m \in Nat, NEW n \in Nat \ {0}
  PROVE  /\ Ceiling(m, n) \in Nat
         /\ n * Ceiling(m, n) >= m
         /\ m > 0 => Ceiling(m, n) > 0 /\ n * (Ceiling(m, n) - 1) < m
<1> DEFINE d == (-m) \div n
<1>1. d \in Int /\ n * d <= -m /\ -m < n * d + n
  BY SMT
<1>2. n * (-d) = -(n * d) /\ n * (-d - 1) = -(n * d) - n
  BY <1>1, SMT
<1>3. d <= 0
  BY <1>1, SMT
<1>4. m > 0 => d < 0
  BY <1>1, SMT
<1> HIDE DEF d
<1>5. Ceiling(m, n) = -d
  BY DEF Ceiling, d
<1> QED BY <1>1, <1>2, <1>3, <1>4, <1>5

\* A smaller amount is not refilled in more ticks than a larger one.
LEMMA CeilingMonotone ==
  ASSUME NEW m \in Nat, NEW k \in Nat, m <= k, NEW n \in Nat \ {0}
  PROVE  Ceiling(m, n) <= Ceiling(k, n)
<1>1. CASE m = 0
  <2>1. Ceiling(0, n) = 0
    BY SMT DEF Ceiling
  <2> QED BY <1>1, <2>1, CeilingBounds
<1>2. CASE m > 0
  <2>1. Ceiling(m, n) \in Nat /\ n * (Ceiling(m, n) - 1) < m
    BY <1>2, CeilingBounds
  <2>2. Ceiling(k, n) \in Nat /\ n * Ceiling(k, n) >= k
    BY CeilingBounds
  <2>3. n * (Ceiling(m, n) - 1) < n * Ceiling(k, n)
    <3>1. n * (Ceiling(m, n) - 1) \in Int /\ n * Ceiling(k, n) \in Int
      BY <2>1, <2>2
    <3> QED BY <2>1, <2>2, <3>1
  <2>4. \A a, b \in Int : n * a < n * b => a < b
    BY SMT
  <2>5. Ceiling(m, n) - 1 < Ceiling(k, n)
    BY <2>1, <2>2, <2>3, <2>4
  <2> QED BY <2>1, <2>2, <2>5
<1> QED BY <1>1, <1>2

-----------------------------------------------------------------------------
(* What the operators of the model return. *)

LEMMA BoundsAreNatural ==
  ASSUME qps \in Rates
  PROVE  qps \in Nat /\ RefillTime \in Nat /\ LongestSleep \in Nat
  BY FullIsPositive, CeilingBounds DEF RefillTime, LongestSleep

LEMMA RefilledBounds ==
  ASSUME TypeOK
  PROVE  /\ Refilled \in 0 .. Full
         /\ Refilled <= tokens + qps * since
         /\ qps * since \in Nat
<1>1. \A m, n \in Nat : m * n \in Nat
  BY SMT
<1>2. qps \in Nat /\ tokens \in Nat /\ since \in Nat /\ Full \in Nat /\ tokens <= Full
  BY FullIsPositive, BoundsAreNatural DEF TypeOK
<1>3. qps * since \in Nat
  BY <1>1, <1>2
<1> QED BY <1>2, <1>3 DEF Refilled, Smaller

LEMMA SleepTimeBounds ==
  ASSUME TypeOK, qps > 0, ~TokenThere
  PROVE  /\ SleepTime \in 0 .. LongestSleep
         /\ qps * (SleepTime - 1) < Unit - Refilled
<1>0. qps \in Nat \ {0}
  BY DEF TypeOK
<1>1. Refilled \in Nat /\ Unit - Refilled \in Nat /\ Unit - Refilled > 0
  BY RefilledBounds, FullIsPositive DEF TokenThere
<1>2. Ceiling(Unit - Refilled, qps) <= Ceiling(Unit, qps)
  BY <1>0, <1>1, CeilingMonotone
<1>3. /\ Ceiling(Unit - Refilled, qps) \in Nat
      /\ qps * (Ceiling(Unit - Refilled, qps) - 1) < Unit - Refilled
  BY <1>0, <1>1, CeilingBounds
<1>4. LongestSleep = Ceiling(Unit, qps) /\ LongestSleep \in Nat
  BY <1>0, BoundsAreNatural DEF LongestSleep, TypeOK
<1> QED BY <1>2, <1>3, <1>4 DEF SleepTime

-----------------------------------------------------------------------------
(* The invariants. *)

LEMMA InitIInv == Init => IInv
<1> SUFFICES ASSUME Init PROVE IInv
  OBVIOUS
<1> USE DEF Init
<1>1. TypeOK
  BY FullIsPositive, BoundsAreNatural DEF TypeOK
<1>2. Budget
  BY DEF Budget
<1>3. Punctual
  BY DEF Punctual
<1> QED BY <1>1, <1>2, <1>3 DEF IInv

\* The limit stays the one of the command line, and so do its bounds.
LEMMA QpsStays ==
  [Next]_vars => qps' = qps /\ RefillTime' = RefillTime /\ LongestSleep' = LongestSleep
<1> SUFFICES ASSUME [Next]_vars
             PROVE  qps' = qps /\ RefillTime' = RefillTime /\ LongestSleep' = LongestSleep
  OBVIOUS
<1>1. qps' = qps
  BY DEF Next, Acquire, Unlimited, Grant, Sleep, Wake, Call, Tick, vars
<1> QED BY <1>1 DEF RefillTime, LongestSleep, Ceiling, Full

LEMMA TypeStep == TypeOK /\ [Next]_vars => TypeOK'
<1> SUFFICES ASSUME TypeOK, [Next]_vars PROVE TypeOK'
  OBVIOUS
<1>0. /\ qps' = qps /\ RefillTime' = RefillTime /\ LongestSleep' = LongestSleep
      /\ RefillTime \in Nat /\ LongestSleep \in Nat /\ Full' = Full
  BY QpsStays, BoundsAreNatural DEF TypeOK, Full
<1> USE FullIsPositive, <1>0
<1>1. ASSUME NEW c \in Callers, Unlimited(c) PROVE TypeOK'
  BY <1>1 DEF Unlimited, Record, TypeOK
<1>2. ASSUME NEW c \in Callers, Grant(c) PROVE TypeOK'
  <2>1. Refilled - Unit \in 0 .. Full
    BY <1>2, RefilledBounds DEF Grant, TokenThere
  <2> QED BY <1>2, <2>1 DEF Grant, Record, TypeOK
<1>3. ASSUME NEW c \in Callers, Sleep(c) PROVE TypeOK'
  <2>1. SleepTime \in 0 .. LongestSleep /\ Refilled \in 0 .. Full
    BY <1>3, RefilledBounds, SleepTimeBounds DEF Sleep
  <2> QED BY <1>3, <2>1 DEF Sleep, TypeOK
<1>4. ASSUME NEW c \in Callers, Wake(c) \/ Call(c) PROVE TypeOK'
  BY <1>4 DEF Wake, Call, TypeOK
<1>5. CASE Tick
  BY <1>5 DEF Tick, Smaller, TypeOK
<1>6. CASE UNCHANGED vars
  BY <1>6 DEF vars, TypeOK
<1> QED BY <1>1, <1>2, <1>3, <1>4, <1>5, <1>6 DEF Next, Acquire

LEMMA BudgetStep == TypeOK /\ Budget /\ [Next]_vars => Budget'
<1> SUFFICES ASSUME TypeOK, Budget, [Next]_vars, qps > 0,
                    NEW i \in 1 .. Window, recent'[i] < Horizon
             PROVE  Unit * i + tokens' + qps * since' <= Full + qps * recent'[i]
  BY QpsStays DEF Budget, Full
<1> DEFINE Bounded(t, s, r, k) == Unit * k + t + qps * s <= Full + qps * r
<1>0. /\ qps \in Nat /\ tokens \in Nat /\ since \in Nat /\ Full \in Nat /\ Refilled \in Nat
      /\ Refilled <= Full /\ Refilled <= tokens + qps * since
      /\ \A k \in 1 .. Window : recent[k] \in Nat
      /\ RefillTime \in Nat /\ qps * since \in Nat
  BY FullIsPositive, BoundsAreNatural, RefilledBounds DEF TypeOK
<1>1. ASSUME NEW c \in Callers, Grant(c) PROVE Bounded(tokens', since', recent'[i], i)
  <2>1. tokens' = Refilled - Unit /\ since' = 0
    BY <1>1 DEF Grant
  <2>2. CASE i = 1
    <3>1. recent'[i] = 0
      BY <1>1, <2>2 DEF Grant, Record
    <3> QED BY <1>0, <2>1, <2>2, <3>1
  <2>3. CASE i # 1
    <3>1. i - 1 \in 1 .. Window /\ recent'[i] = recent[i - 1]
      BY <1>1, <2>3 DEF Grant, Record
    <3>2. Bounded(tokens, since, recent[i - 1], i - 1)
      BY <3>1 DEF Budget
    <3>3. Unit * i = Unit * (i - 1) + Unit
      OBVIOUS
    <3> QED BY <1>0, <2>1, <3>1, <3>2, <3>3
  <2> QED BY <2>2, <2>3
<1>2. ASSUME NEW c \in Callers, Sleep(c) PROVE Bounded(tokens', since', recent'[i], i)
  <2>1. tokens' = Refilled /\ since' = 0 /\ recent' = recent
    BY <1>2 DEF Sleep
  <2>2. Bounded(tokens, since, recent[i], i)
    BY <2>1 DEF Budget
  <2> QED BY <1>0, <2>1, <2>2
<1>3. CASE Tick
  <2>1. /\ tokens' = tokens /\ recent'[i] = recent[i] + 1 /\ recent[i] < Horizon
        /\ since' \in Nat /\ since' <= since + 1
    BY <1>0, <1>3 DEF Tick, Smaller
  <2>2. Bounded(tokens, since, recent[i], i)
    BY <2>1 DEF Budget
  <2>3. qps * since' <= qps * (since + 1)
    <3>1. since' \in Int /\ since + 1 \in Int /\ since' <= since + 1
      BY <1>0, <2>1
    <3> QED BY <3>1, TimesMonotone
  <2>4. qps * (since + 1) = qps * since + qps
    BY <1>0
  <2>5. qps * (recent[i] + 1) = qps * recent[i] + qps
    BY <1>0
  <2>6. Unit * i \in Int /\ qps * since' \in Int /\ qps * recent[i] \in Int
    BY <1>0, <2>1
  <2>7. Unit * i + tokens + qps * (since + 1) <= Full + qps * (recent[i] + 1)
    BY <1>0, <2>2, <2>4, <2>5, <2>6
  <2>8. Unit * i + tokens + qps * since' <= Unit * i + tokens + qps * (since + 1)
    BY <1>0, <2>3, <2>4, <2>6
  <2>9. qps * (since + 1) \in Int /\ qps * (recent[i] + 1) \in Int
    BY <1>0
  <2> HIDE DEF Bounded
  <2>10. Unit * i + tokens + qps * since' <= Full + qps * (recent[i] + 1)
    BY <1>0, <2>6, <2>7, <2>8, <2>9
  <2> QED BY <2>1, <2>10 DEF Bounded
<1>4. CASE UNCHANGED <<tokens, since, recent>>
  BY <1>4 DEF Budget
<1> QED
  BY <1>1, <1>2, <1>3, <1>4 DEF Next, Acquire, Unlimited, Wake, Call, vars

LEMMA PunctualStep == TypeOK /\ Punctual /\ [Next]_vars => Punctual'
<1> SUFFICES ASSUME TypeOK, Punctual, [Next]_vars,
                    NEW c \in Callers, pc'[c] = "asleep", due'[c] > 0
             PROVE  tokens' + qps * (since' + due'[c] - 1) < Unit
  BY QpsStays DEF Punctual
<1>0. /\ qps \in Nat /\ tokens \in Nat /\ since \in Nat /\ Refilled \in Nat
      /\ Refilled <= tokens + qps * since /\ due[c] \in Nat
      /\ RefillTime \in Nat /\ since <= RefillTime
  BY FullIsPositive, BoundsAreNatural, RefilledBounds DEF TypeOK
<1>1. ASSUME pc[c] = "asleep", due[c] > 0
      PROVE  tokens + qps * since + qps * (due[c] - 1) < Unit
  <2>1. qps * (since + due[c] - 1) = qps * since + qps * (due[c] - 1)
    BY <1>0, <1>1
  <2>2. qps * (due[c] - 1) \in Int /\ qps * since \in Int
    BY <1>0
  <2>3. tokens + qps * (since + due[c] - 1) < Unit
    BY <1>1 DEF Punctual
  <2> QED BY <1>0, <2>1, <2>2, <2>3
<1>2. ASSUME NEW d \in Callers, Grant(d)
      PROVE  tokens' + qps * (since' + due'[c] - 1) < Unit
  <2>1. pc[c] = "asleep" /\ due'[c] = due[c] /\ since' = 0 /\ tokens' = Refilled - Unit
    BY <1>2 DEF Grant, TypeOK
  <2>2. qps * (0 + due[c] - 1) = qps * (due[c] - 1) /\ qps * (due[c] - 1) \in Int
    BY <1>0
  <2> QED BY <1>0, <1>1, <2>1, <2>2
<1>3. ASSUME NEW d \in Callers, Sleep(d)
      PROVE  tokens' + qps * (since' + due'[c] - 1) < Unit
  <2>1. tokens' = Refilled /\ since' = 0 /\ qps > 0 /\ ~TokenThere
    BY <1>3 DEF Sleep
  <2>2. CASE c = d
    <3>1. due'[c] = SleepTime
      BY <1>3, <2>2 DEF Sleep, TypeOK
    <3>2. qps * (SleepTime - 1) < Unit - Refilled /\ SleepTime \in Nat
      BY <2>1, SleepTimeBounds, BoundsAreNatural DEF TypeOK
    <3> QED BY <1>0, <2>1, <3>1, <3>2
  <2>3. CASE c # d
    <3>1. pc[c] = "asleep" /\ due'[c] = due[c]
      BY <1>3, <2>3 DEF Sleep, TypeOK
    <3>2. qps * (0 + due[c] - 1) = qps * (due[c] - 1) /\ qps * (due[c] - 1) \in Int
      BY <1>0
    <3> QED BY <1>0, <1>1, <2>1, <3>1, <3>2
  <2> QED BY <2>2, <2>3
<1>4. CASE Tick
  <2>1. /\ pc[c] = "asleep" /\ due[c] > 0 /\ due'[c] = due[c] - 1 /\ tokens' = tokens
        /\ since' \in Nat /\ since' <= since + 1
    BY <1>0, <1>4 DEF Tick, Smaller
  <2>2. since' + due'[c] - 1 <= since + due[c] - 1
    BY <1>0, <2>1
  <2>3. since' + due'[c] - 1 \in Int /\ since + due[c] - 1 \in Int
    BY <1>0, <2>1
  <2>4. qps * (since' + due'[c] - 1) <= qps * (since + due[c] - 1)
    BY <2>2, <2>3, TimesMonotone
  <2>5. tokens + qps * (since + due[c] - 1) < Unit
    BY <2>1 DEF Punctual
  <2>6. qps * (since' + due'[c] - 1) \in Int /\ qps * (since + due[c] - 1) \in Int
    BY <1>0, <2>3
  <2> QED BY <1>0, <2>1, <2>4, <2>5, <2>6
<1>5. CASE UNCHANGED <<tokens, since, due>> /\ pc[c] = "asleep"
  BY <1>5 DEF Punctual
<1> QED
  BY <1>2, <1>3, <1>4, <1>5 DEF Next, Acquire, Unlimited, Wake, Call, vars, TypeOK

LEMMA IInvStep == IInv /\ [Next]_vars => IInv'
  BY TypeStep, BudgetStep, PunctualStep DEF IInv

-----------------------------------------------------------------------------
(* The theorems. *)

\* The bucket stays within its bounds: it never owes a token and never holds
\* more than the burst.
THEOREM TypeCorrect == Spec => []TypeOK
<1>1. IInv => TypeOK
  BY DEF IInv
<1> QED BY <1>1, InitIInv, IInvStep, PTL DEF Spec

\* However many callers compete, the API server receives no more requests in
\* any stretch of time than the configured burst and rate allow.
THEOREM RateIsBounded == Spec => []RateBound
<1>1. IInv => RateBound
  <2> SUFFICES ASSUME IInv, qps > 0, NEW i \in 1 .. Window, recent[i] < Horizon
               PROVE  Unit * i <= Full + qps * recent[i]
    BY DEF RateBound
  <2>1. Unit * i + tokens + qps * since <= Full + qps * recent[i]
    BY DEF IInv, Budget
  <2>2. qps \in Nat /\ tokens \in Nat /\ qps * since \in Nat /\ recent[i] \in Nat /\ Full \in Nat
    BY RefilledBounds, FullIsPositive, BoundsAreNatural DEF IInv, TypeOK
  <2> QED BY <2>1, <2>2
<1> QED BY <1>1, InitIInv, IInvStep, PTL DEF Spec

\* A caller that sleeps never sleeps past the token it could have taken.
THEOREM NoTokenIsIdle == Spec => []NoIdleToken
<1>1. IInv => NoIdleToken
  <2> SUFFICES ASSUME IInv, NEW c \in Callers, pc[c] = "asleep", due[c] > 0
               PROVE  Refilled < Unit
    BY DEF NoIdleToken
  <2>1. tokens + qps * (since + due[c] - 1) < Unit
    BY DEF IInv, Punctual
  <2>2. /\ qps \in Nat /\ tokens \in Nat /\ since \in Nat /\ due[c] \in Nat
        /\ Refilled \in Nat /\ Refilled <= tokens + qps * since
    BY RefilledBounds, FullIsPositive, BoundsAreNatural DEF IInv, TypeOK
  <2>3. qps * (since + due[c] - 1) = qps * since + qps * (due[c] - 1)
    BY <2>2
  <2>4. qps * (due[c] - 1) \in Nat /\ qps * since \in Nat
    <3>1. \A m, n \in Nat : m * n \in Nat
      BY SMT
    <3> QED BY <2>2, <3>1
  <2> QED BY <2>1, <2>2, <2>3, <2>4
<1> QED BY <1>1, InitIInv, IInvStep, PTL DEF Spec
=============================================================================
