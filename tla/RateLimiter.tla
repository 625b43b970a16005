----------------------------- MODULE RateLimiter -----------------------------
(***************************************************************************)
(* KubernetesClientInner::acquire: the token bucket that every request to  *)
(* the API server passes.  A caller that finds no token computes when one  *)
(* will be there if nobody else takes it, sleeps until then and tries      *)
(* again: there is no queue, and a caller that arrives in between may take *)
(* the token.                                                              *)
(*                                                                         *)
(* Time is a sequence of ticks; a token is Unit units and one tick refills *)
(* qps units; qps is the command line's, chosen at start.  The bucket kept *)
(* is the code's: the level at the last update, and the time since.        *)
(***************************************************************************)
EXTENDS Integers, FiniteSets

CONSTANTS
  Callers,  \* tasks that may have a request to send
  Unit,     \* units in a token
  Rates,    \* values of --kube-api-qps, in units refilled per tick
  Burst,    \* burst.max(1), tokens the bucket holds
  Window,   \* number of grants the history remembers
  Horizon   \* ticks after which the history stops counting

ASSUME LimiterAssumption ==
  /\ Unit \in Nat \ {0}
  /\ Rates \subseteq Nat
  /\ Burst \in Nat \ {0}
  /\ Window \in Nat \ {0}
  /\ Horizon \in Nat \ {0}

VARIABLES
  qps,     \* --kube-api-qps; 0 for no limit, never changed
  pc,      \* pc[c]: "idle", "trying" (about to lock rate) or "asleep"
  tokens,  \* rate.1, in units
  since,   \* now - rate.0, in ticks
  due,     \* due[c]: ticks until c's sleep ends
  recent   \* recent[i]: ticks since the i-th latest grant (history)

vars == <<qps, pc, tokens, since, due, recent>>

Full == Unit * Burst

Smaller(m, n) == IF m < n THEN m ELSE n
Ceiling(m, n) == -((-m) \div n)

\* Ticks after which even an empty bucket is full.
RefillTime == IF qps = 0 THEN 0 ELSE Ceiling(Full, qps)
LongestSleep == IF qps = 0 THEN 0 ELSE Ceiling(Unit, qps)

TypeOK ==
  /\ qps \in Rates
  /\ pc \in [Callers -> {"idle", "trying", "asleep"}]
  /\ tokens \in 0 .. Full
  /\ since \in 0 .. RefillTime
  /\ due \in [Callers -> 0 .. LongestSleep]
  /\ recent \in [1 .. Window -> 0 .. Horizon]

Init ==
  /\ qps \in Rates
  /\ pc = [c \in Callers |-> "idle"]
  /\ tokens = Full
  /\ since = 0
  /\ due = [c \in Callers |-> 0]
  /\ recent = [i \in 1 .. Window |-> Horizon]

-----------------------------------------------------------------------------
\* Mutants: the refill is not capped at burst, or not added at all.
Uncapped == tokens + qps * since
RefillForgotten == Smaller(tokens, Full)

\* (tokens + elapsed * qps).min(burst)
Refilled == Smaller(tokens + qps * since, Full)

\* A request leaves for the API server.
Record == recent' = [i \in 1 .. Window |-> IF i = 1 THEN 0 ELSE recent[i - 1]]

\* Mutant: qps < 0 where the code says qps <= 0.
UnlimitedBelowZero(c) ==
  /\ qps < 0
  /\ pc[c] = "trying"
  /\ pc' = [pc EXCEPT ![c] = "idle"]
  /\ Record
  /\ UNCHANGED <<qps, tokens, since, due>>

\* if self.inner.qps <= 0.0 { return; }
Unlimited(c) ==
  /\ qps = 0
  /\ pc[c] = "trying"
  /\ pc' = [pc EXCEPT ![c] = "idle"]
  /\ Record
  /\ UNCHANGED <<qps, tokens, since, due>>

Call(c) ==
  /\ pc[c] = "idle"
  /\ pc' = [pc EXCEPT ![c] = "trying"]
  /\ UNCHANGED <<qps, tokens, since, due, recent>>

\* Mutant: part of a token is enough.
PartialTokenIsEnough == Refilled > 0

\* if rate.1 >= 1.0
TokenThere == Refilled >= Unit

Grant(c) ==
  /\ qps > 0
  /\ pc[c] = "trying"
  /\ TokenThere
  /\ pc' = [pc EXCEPT ![c] = "idle"]
  /\ tokens' = Refilled - Unit
  /\ since' = 0
  /\ Record
  /\ UNCHANGED <<qps, due>>

\* Mutant: sleep for a whole token, whatever the bucket holds.
WholeToken == Ceiling(Unit, qps)

\* (1.0 - rate.1) / qps
SleepTime == Ceiling(Unit - Refilled, qps)

\* Sleep until the missing part of a token is refilled; a timer fires on a tick, never before.
Sleep(c) ==
  /\ qps > 0
  /\ pc[c] = "trying"
  /\ ~TokenThere
  /\ pc' = [pc EXCEPT ![c] = "asleep"]
  /\ tokens' = Refilled
  /\ since' = 0
  /\ due' = [due EXCEPT ![c] = SleepTime]
  /\ UNCHANGED <<qps, recent>>

Wake(c) ==
  /\ pc[c] = "asleep"
  /\ due[c] = 0
  /\ pc' = [pc EXCEPT ![c] = "trying"]
  /\ UNCHANGED <<qps, tokens, since, due, recent>>

Acquire(c) == Unlimited(c) \/ Grant(c) \/ Sleep(c) \/ Wake(c)

Tick ==
  /\ since' = Smaller(since + 1, RefillTime)
  /\ due' = [c \in Callers |-> IF due[c] > 0 THEN due[c] - 1 ELSE 0]
  /\ recent' = [i \in 1 .. Window |-> Smaller(recent[i] + 1, Horizon)]
  /\ UNCHANGED <<qps, pc, tokens>>

Next == (\E c \in Callers : Call(c) \/ Acquire(c)) \/ Tick

Spec == Init /\ [][Next]_vars

\* A task that is ready runs, a timer that is due fires, time passes.
Fairness == WF_vars(Tick) /\ \A c \in Callers : WF_vars(Acquire(c))

FairSpec == Spec /\ Fairness

-----------------------------------------------------------------------------
(* Properties. *)

\* What --kube-api-qps and --kube-api-burst promise the API server: any i
\* consecutive requests that began a ticks ago are at most Burst more than
\* the refill of those a ticks, in whichever order callers come, sleep and
\* wake.
RateBound ==
  qps > 0 =>
    \A i \in 1 .. Window : recent[i] < Horizon =>
      Unit * i <= Full + qps * recent[i]

\* No caller is left asleep while a token is there for it: one wakes up no
\* later than the token it waits for arrives, also when others took the ones
\* before (kube.rs 176).
NoIdleToken ==
  \A c \in Callers : pc[c] = "asleep" /\ due[c] > 0 => Refilled < Unit

\* While callers are waiting the API server keeps receiving requests.
SomeoneProceeds == (\E c \in Callers : pc[c] # "idle") ~> (recent[1] = 0)

\* With --kube-api-qps 0 nobody waits forever, competitors or not; with a limit
\* no caller is promised this, because acquire keeps no queue.
EveryoneProceeds ==
  \A c \in Callers : qps = 0 /\ pc[c] # "idle" ~> pc[c] = "idle"

-----------------------------------------------------------------------------
(* The inductive invariants behind RateBound and NoIdleToken. *)

\* What was granted since the i-th latest grant, what is left and what is
\* still to be refilled never exceed the bucket and the refill of that time.
Budget ==
  qps > 0 =>
    \A i \in 1 .. Window : recent[i] < Horizon =>
      Unit * i + tokens + qps * since <= Full + qps * recent[i]

\* A sleeper's token does not arrive before its last tick of sleep.
Punctual ==
  \A c \in Callers : pc[c] = "asleep" /\ due[c] > 0 =>
    tokens + qps * (since + due[c] - 1) < Unit
=============================================================================
