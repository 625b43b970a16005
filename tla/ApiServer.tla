------------------------------ MODULE ApiServer ------------------------------
(***************************************************************************)
(* The Kubernetes API server as the proxy sees it: an authority that       *)
(* answers reviews (TokenReview, SubjectAccessReview) and whose answers    *)
(* change while the proxy runs - a token expires, a RoleBinding is         *)
(* deleted.  It is external to the repository; src/kube.rs is the only     *)
(* code that talks to it.                                                  *)
(*                                                                         *)
(* Time is a sequence of ticks.  Nothing records absolute instants: what   *)
(* matters is how long ago an answer was last the right one, so lastTrue   *)
(* counts ticks and stops counting at Stale, which reads "Stale ticks ago  *)
(* or earlier, or never".                                                  *)
(***************************************************************************)
EXTENDS Integers

CONSTANTS
  Bodies,   \* what a review can ask about
  Answers,  \* what a review can answer
  Stale     \* ticks after which an outdated answer counts as stale

ASSUME StaleAssumption == Stale \in Nat \ {0}

VARIABLES
  truth,    \* truth[b]: the answer the API server gives to b now
  lastTrue  \* lastTrue[b][a]: ticks since a was last the answer to b

apiVars == <<truth, lastTrue>>

\* A counter of elapsed ticks that stops at its bound.
Older(age, bound) == IF age < bound THEN age + 1 ELSE bound

ApiTypeOK ==
  /\ truth \in [Bodies -> Answers]
  /\ lastTrue \in [Bodies -> [Answers -> 0 .. Stale]]

\* The answer given now is not outdated at all.
TruthIsCurrent == \A b \in Bodies : lastTrue[b][truth[b]] = 0

ApiInit ==
  /\ truth \in [Bodies -> Answers]
  /\ lastTrue = [b \in Bodies |-> [a \in Answers |->
                    IF a = truth[b] THEN 0 ELSE Stale]]

\* The cluster changes its mind about b: the old answer ages from 0 on.
Revise(b, a) ==
  /\ a # truth[b]
  /\ truth' = [truth EXCEPT ![b] = a]
  /\ lastTrue' = [lastTrue EXCEPT ![b][a] = 0]

\* One tick passes for every answer that is not the current one.
ApiAge ==
  /\ lastTrue' = [b \in Bodies |-> [a \in Answers |->
                     IF a = truth[b] THEN 0 ELSE Older(lastTrue[b][a], Stale)]]
  /\ UNCHANGED truth

\* a was the API server's answer to b less than Stale ticks ago.
Fresh(b, a) == lastTrue[b][a] < Stale
==============================================================================
