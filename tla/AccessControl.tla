---------------------------- MODULE AccessControl -----------------------------
(***************************************************************************)
(* RequestPipeline with the Kubernetes API behind it: TokenReviews and     *)
(* SubjectAccessReviews are answered as ReviewService promises, which      *)
(* ReviewClient implements with its caches, retries and rate limit, while  *)
(* tokens expire and role bindings come and go under the requests.         *)
(*                                                                         *)
(* A decision is cached under a key that does not tell all records apart   *)
(* (SubjectAccessReview), so what it promises is about the records of one  *)
(* key: one of them was decided this way.                                  *)
(***************************************************************************)
EXTENDS RequestPipeline

CONSTANTS
  Bearer,    \* the token that requests with an Authorization header carry
  CacheKey,  \* CacheKey[u, a]: the key of authz_cache for user u and record a
  Stale      \* ticks after which an outdated answer is not given any more

ASSUME AccessAssumption == Stale \in Nat \ {0}

VARIABLES
  named,        \* named[Bearer]: whom a TokenReview would name
  lastNamed,    \* see ApiServer
  granted,      \* granted[u, a]: what a SubjectAccessReview would say
  lastGranted,  \* see ApiServer
  known         \* known[s]: what the API server says or has said since
                \* Stale ticks before request[s] arrived (history)

clusterVars == <<named, lastNamed, granted, lastGranted>>
accessVars == <<vars, clusterVars, known>>

TokenReviews == INSTANCE ApiServer WITH
  Bodies <- {Bearer}, Answers <- Users \cup {Abstain}, truth <- named, lastTrue <- lastNamed

AccessReviews == INSTANCE ApiServer WITH
  Bodies <- Users \X Attrs, Answers <- BOOLEAN, truth <- granted, lastTrue <- lastGranted

Nothing == [users |-> {}, access |-> {}]

\* What a review may say now for access.
FreshFacts ==
  [users |-> {u \in Users : TokenReviews!Fresh(Bearer, u)},
   access |-> {b \in Users \X Attrs : AccessReviews!Fresh(b, TRUE)}]

AccessInit ==
  /\ Init
  /\ TokenReviews!ApiInit
  /\ AccessReviews!ApiInit
  /\ known = [s \in Slots |-> Nothing]

-----------------------------------------------------------------------------
\* Mutant: cache entries do not expire.
WithoutExpiry(s) == TRUE

\* authenticate returns what review() does: an answer that is fresh, or an error.
HonestVerdict(s) ==
  Len(verdicts'[s]) > Len(verdicts[s])
    /\ Chain[Len(verdicts'[s])] = "kube" /\ request[s].bearer /\ Last(verdicts'[s]) # Error
    => TokenReviews!Fresh(Bearer, Last(verdicts'[s]))

\* The user and record that authorize is asked about next.
Asked(s) == <<Last(verdicts[s]), attrs[s][Len(decisions'[s])]>>

\* The questions that share their entry in authz_cache with b.
OfOneKey(b) == {q \in Users \X Attrs : CacheKey[q] = CacheKey[b]}

\* authorize returns a fresh answer too, but one to any question with the key of
\* the one asked; who has no client is denied without being reviewed.
HonestDecision(s) ==
  Len(decisions'[s]) > Len(decisions[s])
    /\ KubeClient /\ Last(decisions'[s]) \in {"allowed", "denied"}
    => \E q \in OfOneKey(Asked(s)) : AccessReviews!Fresh(q, Last(decisions'[s]) = "allowed")

AccessArrive(s, r) ==
  /\ Arrive(s, r)
  /\ known' = [known EXCEPT ![s] = FreshFacts]
  /\ UNCHANGED clusterVars

AccessStep(s) ==
  /\ Step(s)
  /\ HonestVerdict(s)
  /\ HonestDecision(s)
  /\ known' = IF pc'[s] = "idle" THEN [known EXCEPT ![s] = Nothing] ELSE known
  /\ UNCHANGED clusterVars

\* A token expires or is given to another user.
Reissue(u) ==
  /\ TokenReviews!Revise(Bearer, u)
  /\ known' = [s \in Slots |->
       IF pc[s] = "idle" THEN Nothing ELSE [known[s] EXCEPT !.users = @ \cup ({u} \cap Users)]]
  /\ UNCHANGED <<vars, granted, lastGranted>>

\* A role or a role binding is created or deleted.
Rebind(b) ==
  /\ AccessReviews!Revise(b, ~granted[b])
  /\ known' = [s \in Slots |->
       IF pc[s] = "idle" THEN Nothing
       ELSE [known[s] EXCEPT !.access = @ \cup (IF granted[b] THEN {} ELSE {b})]]
  /\ UNCHANGED <<vars, named, lastNamed>>

Tick ==
  /\ TokenReviews!ApiAge
  /\ AccessReviews!ApiAge
  /\ UNCHANGED <<vars, known>>

AccessNext ==
  \/ \E s \in Slots, r \in Arrivals : AccessArrive(s, r)
  \/ \E s \in Slots : AccessStep(s)
  \/ \E u \in Users \cup {Abstain} : Reissue(u)
  \/ \E b \in Users \X Attrs : Rebind(b)
  \/ Tick

AccessSpec == AccessInit /\ [][AccessNext]_accessVars

\* Every await ends and time passes.
FairAccessSpec ==
  AccessSpec /\ WF_accessVars(Tick) /\ \A s \in Slots : WF_accessVars(AccessStep(s))

-----------------------------------------------------------------------------
(* Properties. *)

\* The authenticator that named the user was the API server.
Reviewed(s) == verdicts[s] # <<>> /\ Chain[Len(verdicts[s])] = "kube"

\* A token that was revoked Stale ticks before a request arrived opens the
\* upstream for it no more, nor does a permission that was withdrawn as long ago
\* from all questions with its cache key, whatever the other requests ask and the
\* cluster does meanwhile (kube.rs 291-305, 350-354, 523-534).
RevokedIsRefused ==
  \A s \in Slots : pc[s] = "forwarded" /\ ~Ignored(request[s].path) =>
    /\ Reviewed(s) => identity[s] \in known[s].users
    /\ \A i \in 1 .. Len(attrs[s]) :
         \/ attrs[s][i] \in config.static
         \/ OfOneKey(<<identity[s], attrs[s][i]>>) \cap known[s].access # {}

\* Once the cluster stops changing, from some point on the upstream is opened
\* only to whom the API server names, and for records of whose cache key it
\* grants at least one.
AccessSettles ==
  <>[][UNCHANGED <<named, granted>>]_accessVars =>
    <>[][\A s \in Slots :
           pc[s] = "peer" /\ pc'[s] = "forwarded" /\ identity[s] # Nobody =>
             /\ Reviewed(s) => named[Bearer] = identity[s]
             /\ \A i \in 1 .. Len(attrs[s]) :
                  \/ attrs[s][i] \in config.static
                  \/ \E q \in OfOneKey(<<identity[s], attrs[s][i]>>) : granted[q]]_accessVars
===============================================================================
