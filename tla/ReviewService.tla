---------------------------- MODULE ReviewService ----------------------------
(***************************************************************************)
(* What the Kubernetes client promises the request pipeline, with no cache *)
(* and no network: a review that was asked is eventually answered once,    *)
(* with a failure or with an answer the API server really gave, less than  *)
(* Stale ticks ago, to a review with the same cache key.  ReviewClient is  *)
(* shown to implement this specification.                                  *)
(***************************************************************************)
EXTENDS ApiServer

CONSTANTS
  Tasks,       \* requests being filtered concurrently
  Questions,   \* what a task can ask: a bearer token, an attribute record
  Body,        \* Body[q]: the part of q the review carries
  Key,         \* Key[q]: the key q is cached under
  NoQuestion,  \* a task that asks nothing
  Failed       \* the outcome of a review that did not get an answer

VARIABLES
  phase,     \* phase[t]: "idle", "asked" or "answered"
  question,  \* question[t]: what t asked, NoQuestion when idle
  outcome    \* outcome[t]: what t was told, Failed until it is

serviceVars == <<truth, lastTrue, phase, question, outcome>>

ServiceInit ==
  /\ ApiInit
  /\ phase = [t \in Tasks |-> "idle"]
  /\ question = [t \in Tasks |-> NoQuestion]
  /\ outcome = [t \in Tasks |-> Failed]

ServiceAsk(t, q) ==
  /\ phase[t] = "idle"
  /\ phase' = [phase EXCEPT ![t] = "asked"]
  /\ question' = [question EXCEPT ![t] = q]
  /\ UNCHANGED <<truth, lastTrue, outcome>>

\* The answer need not be the current one, and need not be an answer to this
\* question: sharing the cache key is enough.
ServiceAnswer(t, q, a) ==
  /\ phase[t] = "asked"
  /\ Key[q] = Key[question[t]]
  /\ Fresh(Body[q], a)
  /\ phase' = [phase EXCEPT ![t] = "answered"]
  /\ outcome' = [outcome EXCEPT ![t] = a]
  /\ UNCHANGED <<truth, lastTrue, question>>

ServiceFail(t) ==
  /\ phase[t] = "asked"
  /\ phase' = [phase EXCEPT ![t] = "answered"]
  /\ UNCHANGED <<truth, lastTrue, question, outcome>>

ServiceReturn(t) ==
  /\ phase[t] = "answered"
  /\ phase' = [phase EXCEPT ![t] = "idle"]
  /\ question' = [question EXCEPT ![t] = NoQuestion]
  /\ outcome' = [outcome EXCEPT ![t] = Failed]
  /\ UNCHANGED <<truth, lastTrue>>

ServiceEnvironment ==
  /\ \/ \E b \in Bodies, a \in Answers : Revise(b, a)
     \/ ApiAge
  /\ UNCHANGED <<phase, question, outcome>>

ServiceNext ==
  \/ \E t \in Tasks, q \in Questions : ServiceAsk(t, q)
  \/ \E t \in Tasks, q \in Questions, a \in Answers : ServiceAnswer(t, q, a)
  \/ \E t \in Tasks : ServiceFail(t) \/ ServiceReturn(t)
  \/ ServiceEnvironment

ServiceSafety == ServiceInit /\ [][ServiceNext]_serviceVars

ServiceSpec ==
  /\ ServiceSafety
  /\ \A t \in Tasks : WF_serviceVars(ServiceReturn(t))
                   /\ WF_serviceVars(ServiceFail(t)
                        \/ \E q \in Questions, a \in Answers : ServiceAnswer(t, q, a))
==============================================================================
