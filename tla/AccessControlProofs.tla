------------------------- MODULE AccessControlProofs --------------------------
(***************************************************************************)
(* Theorems about AccessControl for any number of connections, users and   *)
(* attribute records, any configuration and any age at which answers are   *)
(* no longer given.                                                        *)
(*                                                                         *)
(* It is a RequestPipeline, so the theorems about that hold of it; what    *)
(* the API server has to do with a request is proved slot by slot, on top  *)
(* of the pipeline's invariant.                                            *)
(***************************************************************************)
EXTENDS AccessControl, RequestPipelineProofs

USE PipelineAssumption, AccessAssumption

-----------------------------------------------------------------------------
(* The pipeline inside. *)

LEMMA AccessStepsArePipelineSteps == [AccessNext]_accessVars => [Next]_vars
BY DEF AccessNext, accessVars, AccessArrive, AccessStep, Reissue, Rebind, Tick, Next

-----------------------------------------------------------------------------
(* The cluster. *)

ClusterOK ==
  /\ TokenReviews!ApiTypeOK /\ TokenReviews!TruthIsCurrent
  /\ AccessReviews!ApiTypeOK /\ AccessReviews!TruthIsCurrent

\* What a review may say of access is known for every request under way.
KnownIsFresh(s) ==
  pc[s] # "idle" =>
    /\ FreshFacts.users \subseteq known[s].users
    /\ FreshFacts.access \subseteq known[s].access

\* Who was named by the API server is known to have the token.
NamedIsKnown(s) ==
  \A i \in 1 .. Len(verdicts[s]) :
    Chain[i] = "kube" /\ verdicts[s][i] \in Users => verdicts[s][i] \in known[s].users

\* What was allowed is known to be granted for its cache key.
AllowedIsKnown(s) ==
  \A i \in 1 .. Len(decisions[s]) :
    decisions[s][i] = "allowed" =>
      OfOneKey(<<Last(verdicts[s]), attrs[s][i]>>) \cap known[s].access # {}

Facts == [users : SUBSET Users, access : SUBSET (Users \X Attrs)]

Vetted(s) == KnownIsFresh(s) /\ NamedIsKnown(s) /\ AllowedIsKnown(s)

AccessInv ==
  /\ ClusterOK
  /\ known \in [Slots -> Facts]
  /\ \A s \in Slots : Vetted(s)

LEMMA FreshIsFacts == FreshFacts \in Facts
BY DEF FreshFacts, Facts

LEMMA AccessInitInv == AccessInit => AccessInv
<1> SUFFICES ASSUME AccessInit PROVE AccessInv
  OBVIOUS
<1>1. ClusterOK
  BY DEF ClusterOK, AccessInit, TokenReviews!ApiInit, AccessReviews!ApiInit,
     TokenReviews!ApiTypeOK, AccessReviews!ApiTypeOK, TokenReviews!TruthIsCurrent,
     AccessReviews!TruthIsCurrent
<1>2. known \in [Slots -> Facts]
  BY DEF AccessInit, Nothing, Facts
<1>3. \A s \in Slots : Vetted(s)
  BY DEF AccessInit, Init, Vetted, KnownIsFresh, NamedIsKnown, AllowedIsKnown
<1> QED BY <1>1, <1>2, <1>3 DEF AccessInv

\* The cluster changes its mind about a user or a permission, or time passes:
\* what may be said afterwards could be said before, or is the new answer.
LEMMA ReissueFresh ==
  ASSUME ClusterOK, NEW u \in Users \cup {Abstain}, Reissue(u)
  PROVE  /\ ClusterOK'
         /\ FreshFacts'.users \subseteq FreshFacts.users \cup ({u} \cap Users)
         /\ FreshFacts'.access = FreshFacts.access
<1> USE DEF ClusterOK, Reissue, TokenReviews!Revise, TokenReviews!ApiTypeOK,
            AccessReviews!ApiTypeOK
<1>1. TokenReviews!ApiTypeOK' /\ AccessReviews!ApiTypeOK'
  OBVIOUS
<1>2. TokenReviews!TruthIsCurrent' /\ AccessReviews!TruthIsCurrent'
  BY DEF TokenReviews!TruthIsCurrent, AccessReviews!TruthIsCurrent
<1>3. ASSUME NEW v \in Users, TokenReviews!Fresh(Bearer, v)'
      PROVE  TokenReviews!Fresh(Bearer, v) \/ v = u
  BY <1>3 DEF TokenReviews!Fresh
<1>4. FreshFacts'.users \subseteq FreshFacts.users \cup ({u} \cap Users)
  BY <1>3 DEF FreshFacts
<1>5. FreshFacts'.access = FreshFacts.access
  BY DEF FreshFacts, AccessReviews!Fresh
<1> QED BY <1>1, <1>2, <1>4, <1>5

LEMMA RebindFresh ==
  ASSUME ClusterOK, NEW b \in Users \X Attrs, Rebind(b)
  PROVE  /\ ClusterOK'
         /\ FreshFacts'.users = FreshFacts.users
         /\ FreshFacts'.access \subseteq
              FreshFacts.access \cup (IF granted[b] THEN {} ELSE {b})
<1> USE DEF ClusterOK, Rebind, AccessReviews!Revise, TokenReviews!ApiTypeOK,
            AccessReviews!ApiTypeOK
<1>1. TokenReviews!ApiTypeOK' /\ AccessReviews!ApiTypeOK'
  OBVIOUS
<1>2. TokenReviews!TruthIsCurrent'
  BY DEF TokenReviews!TruthIsCurrent
<1>3. ASSUME NEW c \in Users \X Attrs PROVE lastGranted'[c][granted'[c]] = 0
  <2>1. CASE c = b
    <3>1. granted'[c] = ~granted[b] /\ granted[b] \in BOOLEAN
      BY <2>1
    <3>2. \A d \in BOOLEAN : d = ~granted[b] => lastGranted'[b][d] = 0
      OBVIOUS
    <3> QED BY <2>1, <3>1, <3>2
  <2>2. CASE c # b
    BY <2>2 DEF AccessReviews!TruthIsCurrent
  <2> QED BY <2>1, <2>2
<1>4. ASSUME NEW c \in Users \X Attrs, AccessReviews!Fresh(c, TRUE)'
      PROVE  AccessReviews!Fresh(c, TRUE) \/ (c = b /\ ~granted[b])
  BY <1>4 DEF AccessReviews!Fresh
<1>5. FreshFacts'.users = FreshFacts.users
  BY DEF FreshFacts, TokenReviews!Fresh
<1>6. FreshFacts'.access \subseteq FreshFacts.access \cup (IF granted[b] THEN {} ELSE {b})
  BY <1>4 DEF FreshFacts
<1> QED BY <1>1, <1>2, <1>3, <1>5, <1>6 DEF AccessReviews!TruthIsCurrent

LEMMA TickFresh ==
  ASSUME ClusterOK, Tick
  PROVE  /\ ClusterOK'
         /\ FreshFacts'.users \subseteq FreshFacts.users
         /\ FreshFacts'.access \subseteq FreshFacts.access
<1> USE DEF ClusterOK, Tick, TokenReviews!ApiAge, AccessReviews!ApiAge,
            TokenReviews!ApiTypeOK, AccessReviews!ApiTypeOK,
            TokenReviews!Older, AccessReviews!Older
<1>1. TokenReviews!ApiTypeOK' /\ AccessReviews!ApiTypeOK'
  OBVIOUS
<1>2. TokenReviews!TruthIsCurrent' /\ AccessReviews!TruthIsCurrent'
  BY DEF TokenReviews!TruthIsCurrent, AccessReviews!TruthIsCurrent
<1>3. ASSUME NEW v \in Users, TokenReviews!Fresh(Bearer, v)'
      PROVE  TokenReviews!Fresh(Bearer, v)
  BY <1>3 DEF TokenReviews!Fresh, TokenReviews!TruthIsCurrent
<1>4. ASSUME NEW c \in Users \X Attrs, AccessReviews!Fresh(c, TRUE)'
      PROVE  AccessReviews!Fresh(c, TRUE)
  <2>1. CASE granted[c]
    <3>1. granted[c] = TRUE /\ lastGranted[c][granted[c]] = 0
      BY <2>1 DEF AccessReviews!TruthIsCurrent
    <3>2. lastGranted[c][TRUE] = 0
      BY <3>1, Zenon
    <3> QED BY <3>2 DEF AccessReviews!Fresh
  <2>2. CASE ~granted[c]
    <3>1. ASSUME NEW a \in BOOLEAN, a # granted[c], lastGranted'[c][a] < Stale
          PROVE  lastGranted[c][a] < Stale
      BY <3>1
    <3>2. TRUE # granted[c] /\ TRUE \in BOOLEAN
      BY <2>2, Zenon
    <3>3. lastGranted'[c][TRUE] < Stale
      BY <1>4, Zenon DEF AccessReviews!Fresh
    <3> QED BY <3>1, <3>2, <3>3, Zenon DEF AccessReviews!Fresh
  <2> QED BY <2>1, <2>2
<1>5. FreshFacts'.users \subseteq FreshFacts.users
  BY <1>3 DEF FreshFacts
<1>6. FreshFacts'.access \subseteq FreshFacts.access
  BY <1>4 DEF FreshFacts
<1> QED BY <1>1, <1>2, <1>5, <1>6

-----------------------------------------------------------------------------
(* The requests. *)

LEMMA IdleDoesNotStep == ASSUME NEW s \in Slots, Step(s) PROVE pc[s] # "idle"
BY DEF Step, Filter, AnswerOperational, RefusePath, Bypass, Authenticate, Panic,
   NeedsIdentity, PassOn,
   AuthnError, Unauthenticated, Vouch, Consult, Decide, Admit, Forward, ForwardFails, Finish

\* A step that does not end the request is one answer of an authenticator, one
\* decision, or neither.
LEMMA StepEffect ==
  ASSUME NEW s \in Slots, TypeOK, Progress(s), Step(s), pc'[s] # "idle"
  PROVE  \/ verdicts' = verdicts /\ attrs' = attrs /\ decisions' = decisions
         \/ /\ \E v \in Users \cup {Abstain, Error} : Consult(s, v)
            /\ decisions' = decisions /\ decisions[s] = <<>>
         \/ /\ \E d \in Decisions : Decide(s, d)
            /\ verdicts' = verdicts /\ attrs' = attrs
<1> USE DEF progress
<1>1. CASE AnswerOperational(s) \/ RefusePath(s) \/ Bypass(s) \/ Authenticate(s) \/ Panic(s)
  BY <1>1 DEF AnswerOperational, RefusePath, Bypass, Authenticate, Panic
<1>2. ASSUME NEW v \in Users \cup {Abstain, Error}, Consult(s, v) PROVE decisions[s] = <<>>
  BY <1>2 DEF Consult, Progress, NoVerdictYet
<1>3. CASE PassOn(s) \/ AuthnError(s)
  BY <1>2, <1>3 DEF PassOn, AuthnError
<1>4. CASE \E user \in Users, as \in BoundedSeq(Attrs, MaxAttrs) \cup {Error} : Vouch(s, user, as)
  BY <1>2, <1>4 DEF Vouch
<1>5. CASE \E d \in Decisions : Decide(s, d)
  BY <1>5 DEF Decide
<1>6. CASE Unauthenticated(s) \/ Admit(s) \/ Forward(s) \/ ForwardFails(s)
  BY <1>6 DEF Unauthenticated, Admit, Forward, ForwardFails
<1>7. ~Finish(s)
  BY DEF Finish, TypeOK
<1> QED BY <1>1, <1>3, <1>4, <1>5, <1>6, <1>7 DEF Step, Filter

\* A slot that is not touched stays vetted, whatever is learnt about it.
LEMMA OthersStayVetted ==
  ASSUME NEW r \in Slots, config' = config, Same(r), Vetted(r), KnownIsFresh(r)',
         known[r].users \subseteq known'[r].users,
         known[r].access \subseteq known'[r].access
  PROVE  Vetted(r)'
BY DEF Vetted, NamedIsKnown, AllowedIsKnown, Same, Chain, Last

\* Nothing is known and nothing is needed where nothing has been asked.
LEMMA UnaskedIsVetted ==
  ASSUME NEW s \in Slots, TypeOK', Unasked(s)', KnownIsFresh(s)'
  PROVE  Vetted(s)'
BY DEF Vetted, NamedIsKnown, AllowedIsKnown, Unasked

\* What the API server names is one of the facts that are fresh.
LEMMA NamedStep ==
  ASSUME NEW s \in Slots, TypeOK, Progress(s), Vetted(s), HonestVerdict(s),
         config' = config, known' = known, pc[s] # "idle",
         NEW v \in Users \cup {Abstain, Error}, Consult(s, v)
  PROVE  NamedIsKnown(s)'
<1> DEFINE n == Len(verdicts[s])
<1>1. /\ n \in Nat /\ Len(verdicts'[s]) = n + 1 /\ verdicts'[s] # <<>>
      /\ Last(verdicts'[s]) = v /\ verdicts'[s][n + 1] = v
      /\ \A i \in 1 .. n : verdicts'[s][i] = verdicts[s][i]
  BY ConsultKeeps DEF Last
<1>2. Chain' = Chain
  BY DEF Chain
<1> SUFFICES ASSUME NEW i \in 1 .. n + 1, Chain[i] = "kube", verdicts'[s][i] \in Users
             PROVE  verdicts'[s][i] \in known[s].users
  BY <1>1, <1>2 DEF NamedIsKnown
<1>3. CASE i \in 1 .. n
  BY <1>1, <1>3 DEF Vetted, NamedIsKnown
<1>4. CASE i = n + 1
  <2>1. v \in Users /\ v \in Verdicts("kube", request[s])
    <3>1. Chain[Consulted(s) + 1] = "kube" /\ v \in Users
      BY <1>1, <1>4 DEF Consulted
    <3>2. v \in Verdicts(Chain[Consulted(s) + 1], request[s])
      BY DEF Consult
    <3> QED BY <3>1, <3>2
  <2>2. request[s].bearer
    <3>1. ~request[s].bearer => Verdicts("kube", request[s]) = {Abstain}
      BY DEF Verdicts
    <3> QED BY <2>1, <3>1
  <2>3. TokenReviews!Fresh(Bearer, v)
    BY <1>1, <1>4, <2>1, <2>2 DEF HonestVerdict
  <2>4. v \in FreshFacts.users
    BY <2>1, <2>3 DEF FreshFacts
  <2> QED BY <1>1, <1>4, <2>4 DEF Vetted, KnownIsFresh
<1> QED BY <1>1, <1>3, <1>4

\* What the API server allows is one of the facts that are fresh.
LEMMA AllowedStep ==
  ASSUME NEW s \in Slots, TypeOK, Progress(s), Vetted(s), HonestDecision(s),
         config' = config, known' = known,
         verdicts' = verdicts, attrs' = attrs,
         NEW d \in Decisions, Decide(s, d)
  PROVE  AllowedIsKnown(s)'
<1> DEFINE n == Len(decisions[s])
<1>1. pc[s] = "authz" /\ SoFarSoGood(s) /\ n < Len(attrs[s])
  BY DEF Decide, Progress, Decided
<1>2. decisions[s] \in Seq(Decisions) /\ attrs[s] \in Seq(Attrs)
  BY <1>1 DEF TypeOK, SoFarSoGood
<1>3. decisions'[s] = Append(decisions[s], d)
  BY <1>2 DEF Decide, TypeOK
<1>4. /\ n \in Nat /\ Len(decisions'[s]) = n + 1
      /\ decisions'[s][n + 1] = d /\ Last(decisions'[s]) = d
      /\ \A i \in 1 .. n : decisions'[s][i] = decisions[s][i]
  BY <1>2, <1>3 DEF Last
<1> SUFFICES ASSUME NEW i \in 1 .. n + 1, decisions'[s][i] = "allowed"
             PROVE  OfOneKey(<<Last(verdicts[s]), attrs[s][i]>>) \cap known[s].access # {}
  BY <1>4 DEF AllowedIsKnown
<1>5. CASE i \in 1 .. n
  BY <1>4, <1>5 DEF Vetted, AllowedIsKnown
<1>6. CASE i = n + 1
  <2>1. d = "allowed"
    BY <1>4, <1>6
  <2>2. KubeClient
    BY <2>1 DEF Decide, Outcomes
  <2>3. Asked(s) = <<Last(verdicts[s]), attrs[s][i]>>
    BY <1>4, <1>6 DEF Asked
  <2>4. PICK q \in OfOneKey(Asked(s)) : AccessReviews!Fresh(q, Last(decisions'[s]) = "allowed")
    BY <1>4, <2>1, <2>2 DEF HonestDecision
  <2>5. (Last(decisions'[s]) = "allowed") = TRUE
    BY <1>4, <2>1
  <2>6. AccessReviews!Fresh(q, TRUE)
    BY <2>4, <2>5, Zenon
  <2>7. q \in FreshFacts.access
    BY <2>4, <2>6 DEF FreshFacts, OfOneKey
  <2> QED BY <1>1, <2>3, <2>4, <2>7 DEF Vetted, KnownIsFresh
<1> QED BY <1>4, <1>5, <1>6

-----------------------------------------------------------------------------
(* Every step keeps the invariant. *)

LEMMA ClusterKeeps ==
  ASSUME ClusterOK, UNCHANGED clusterVars PROVE ClusterOK' /\ FreshFacts' = FreshFacts
BY DEF ClusterOK, clusterVars, FreshFacts, TokenReviews!ApiTypeOK, AccessReviews!ApiTypeOK,
   TokenReviews!TruthIsCurrent, AccessReviews!TruthIsCurrent, TokenReviews!Fresh,
   AccessReviews!Fresh

LEMMA ArriveKeepsAccess ==
  ASSUME IInv, AccessInv, NEW s \in Slots, NEW r \in Arrivals, AccessArrive(s, r)
  PROVE  AccessInv'
<1>1. TypeOK' /\ Progress(s)' /\ Frame(s)
  BY SlotKeeps DEF AccessArrive, IInv
<1>2. ClusterOK' /\ FreshFacts' = FreshFacts
  BY ClusterKeeps DEF AccessArrive, AccessInv
<1>3. known' = [known EXCEPT ![s] = FreshFacts] /\ known' \in [Slots -> Facts]
  BY FreshIsFacts DEF AccessArrive, AccessInv
<1>4. Vetted(s)'
  <2>1. Unasked(s)'
    BY <1>1 DEF AccessArrive, Arrive, Progress, TypeOK
  <2>2. KnownIsFresh(s)'
    BY <1>2, <1>3 DEF AccessInv, KnownIsFresh
  <2> QED BY <1>1, <2>1, <2>2, UnaskedIsVetted
<1>5. ASSUME NEW q \in Slots \ {s} PROVE Vetted(q)'
  <2>1. Same(q) /\ config' = config /\ known'[q] = known[q] /\ Vetted(q)
    BY <1>1, <1>3 DEF Frame, AccessInv
  <2>2. KnownIsFresh(q)'
    BY <1>2, <2>1 DEF Vetted, KnownIsFresh, Same
  <2> QED BY <2>1, <2>2, OthersStayVetted
<1> QED BY <1>2, <1>3, <1>4, <1>5 DEF AccessInv

LEMMA StepKeepsAccess ==
  ASSUME IInv, AccessInv, NEW s \in Slots, AccessStep(s)
  PROVE  AccessInv'
<1>1. /\ TypeOK' /\ Progress(s)' /\ Frame(s) /\ config' = config
      /\ TypeOK /\ Progress(s) /\ pc[s] # "idle"
  BY SlotKeeps, IdleDoesNotStep DEF AccessStep, IInv, Frame
<1>2. ClusterOK' /\ FreshFacts' = FreshFacts
  BY ClusterKeeps DEF AccessStep, AccessInv
<1>3. /\ known' \in [Slots -> Facts]
      /\ \A q \in Slots \ {s} : known'[q] = known[q]
      /\ pc'[s] # "idle" => known' = known
  BY DEF AccessStep, AccessInv, Nothing, Facts
<1>4. Vetted(s)
  BY DEF AccessInv
<1>5. Vetted(s)'
  <2>1. CASE pc'[s] = "idle"
    <3>1. Unasked(s)' /\ KnownIsFresh(s)'
      BY <1>1, <2>1 DEF Progress, KnownIsFresh
    <3> QED BY <1>1, <3>1, UnaskedIsVetted
  <2>2. CASE pc'[s] # "idle"
    <3>1. known' = known /\ KnownIsFresh(s)' /\ Chain' = Chain
      BY <1>1, <1>2, <1>3, <1>4, <2>2 DEF Vetted, KnownIsFresh, Chain
    <3>2. CASE verdicts' = verdicts /\ attrs' = attrs /\ decisions' = decisions
      BY <1>4, <3>1, <3>2 DEF Vetted, NamedIsKnown, AllowedIsKnown
    <3>3. ASSUME NEW v \in Users \cup {Abstain, Error}, Consult(s, v),
                 decisions' = decisions, decisions[s] = <<>>
          PROVE  Vetted(s)'
      <4>1. NamedIsKnown(s)'
        BY <1>1, <1>4, <3>1, <3>3, NamedStep DEF AccessStep
      <4>2. AllowedIsKnown(s)'
        BY <3>3 DEF AllowedIsKnown
      <4> QED BY <3>1, <4>1, <4>2 DEF Vetted
    <3>4. ASSUME NEW d \in Decisions, Decide(s, d), verdicts' = verdicts, attrs' = attrs
          PROVE  Vetted(s)'
      <4>1. AllowedIsKnown(s)'
        BY <1>1, <1>4, <3>1, <3>4, AllowedStep DEF AccessStep
      <4>2. NamedIsKnown(s)'
        BY <1>4, <3>1, <3>4 DEF Vetted, NamedIsKnown
      <4> QED BY <3>1, <4>1, <4>2 DEF Vetted
    <3> QED BY <1>1, <2>2, <3>2, <3>3, <3>4, StepEffect DEF AccessStep
  <2> QED BY <2>1, <2>2
<1>6. ASSUME NEW q \in Slots \ {s} PROVE Vetted(q)'
  <2>1. Same(q) /\ known'[q] = known[q] /\ Vetted(q)
    BY <1>1, <1>3 DEF Frame, AccessInv
  <2>2. KnownIsFresh(q)'
    BY <1>2, <2>1 DEF Vetted, KnownIsFresh, Same
  <2> QED BY <1>1, <2>1, <2>2, OthersStayVetted
<1> QED BY <1>2, <1>3, <1>5, <1>6 DEF AccessInv

\* What the cluster or the clock does leaves the requests alone and adds to
\* what is known about those under way.
LEMMA ClusterStepKeepsAccess ==
  ASSUME IInv, AccessInv, UNCHANGED vars, ClusterOK', known' \in [Slots -> Facts],
         \A s \in Slots : pc[s] # "idle" =>
           /\ known[s].users \cup FreshFacts'.users \subseteq known'[s].users
           /\ known[s].access \cup FreshFacts'.access \subseteq known'[s].access
  PROVE  AccessInv'
<1> SUFFICES ASSUME NEW s \in Slots PROVE Vetted(s)'
  BY DEF AccessInv
<1>1. config' = config /\ Same(s) /\ Vetted(s)
  BY DEF Same, vars, progress, results, AccessInv
<1>2. CASE pc[s] = "idle"
  <2>1. Unasked(s)' /\ KnownIsFresh(s)' /\ TypeOK'
    BY <1>2 DEF IInv, TypeOK, Progress, Unasked, KnownIsFresh, vars, progress, results
  <2> QED BY <2>1, UnaskedIsVetted
<1>3. CASE pc[s] # "idle"
  <2>1. KnownIsFresh(s)'
    BY <1>3 DEF KnownIsFresh
  <2> QED BY <1>1, <1>3, <2>1, OthersStayVetted
<1> QED BY <1>2, <1>3

LEMMA AccessNextInv == IInv /\ AccessInv /\ [AccessNext]_accessVars => AccessInv'
<1> SUFFICES ASSUME IInv, AccessInv, [AccessNext]_accessVars PROVE AccessInv'
  OBVIOUS
<1>1. ASSUME NEW s \in Slots, NEW r \in Arrivals, AccessArrive(s, r) PROVE AccessInv'
  BY <1>1, ArriveKeepsAccess
<1>2. ASSUME NEW s \in Slots, AccessStep(s) PROVE AccessInv'
  BY <1>2, StepKeepsAccess
<1>3. ASSUME NEW u \in Users \cup {Abstain}, Reissue(u) PROVE AccessInv'
  <2>1. /\ ClusterOK' /\ UNCHANGED vars
        /\ FreshFacts'.users \subseteq FreshFacts.users \cup ({u} \cap Users)
        /\ FreshFacts'.access = FreshFacts.access
    BY <1>3, ReissueFresh DEF AccessInv, Reissue
  <2>2. known' \in [Slots -> Facts]
    BY <1>3 DEF AccessInv, Reissue, Nothing, Facts
  <2>3. ASSUME NEW s \in Slots, pc[s] # "idle"
        PROVE  /\ known'[s].users = known[s].users \cup ({u} \cap Users)
               /\ known'[s].access = known[s].access
    BY <1>3, <2>3 DEF AccessInv, Reissue, Facts
  <2>4. ASSUME NEW s \in Slots, pc[s] # "idle"
        PROVE  /\ FreshFacts.users \subseteq known[s].users
               /\ FreshFacts.access \subseteq known[s].access
    BY <2>4 DEF AccessInv, Vetted, KnownIsFresh
  <2> QED BY <2>1, <2>2, <2>3, <2>4, ClusterStepKeepsAccess
<1>4. ASSUME NEW b \in Users \X Attrs, Rebind(b) PROVE AccessInv'
  <2> DEFINE New == IF granted[b] THEN {} ELSE {b}
  <2>1. /\ ClusterOK' /\ UNCHANGED vars
        /\ FreshFacts'.users = FreshFacts.users
        /\ FreshFacts'.access \subseteq FreshFacts.access \cup New
    BY <1>4, RebindFresh DEF AccessInv, Rebind
  <2>2. known' \in [Slots -> Facts]
    BY <1>4 DEF AccessInv, Rebind, Nothing, Facts
  <2>3. ASSUME NEW s \in Slots, pc[s] # "idle"
        PROVE  /\ known'[s].users = known[s].users
               /\ known'[s].access = known[s].access \cup New
    BY <1>4, <2>3 DEF AccessInv, Rebind, Facts
  <2>4. ASSUME NEW s \in Slots, pc[s] # "idle"
        PROVE  /\ FreshFacts.users \subseteq known[s].users
               /\ FreshFacts.access \subseteq known[s].access
    BY <2>4 DEF AccessInv, Vetted, KnownIsFresh
  <2> HIDE DEF New
  <2> QED BY <2>1, <2>2, <2>3, <2>4, ClusterStepKeepsAccess
<1>5. CASE Tick
  <2>1. /\ ClusterOK' /\ UNCHANGED <<vars, known>>
        /\ FreshFacts'.users \subseteq FreshFacts.users
        /\ FreshFacts'.access \subseteq FreshFacts.access
    BY <1>5, TickFresh DEF AccessInv, Tick
  <2>2. \A s \in Slots : pc[s] # "idle" =>
          /\ FreshFacts.users \subseteq known[s].users
          /\ FreshFacts.access \subseteq known[s].access
    BY DEF AccessInv, Vetted, KnownIsFresh
  <2>3. known' = known /\ known' \in [Slots -> Facts]
    BY <2>1 DEF AccessInv
  <2> QED BY <2>1, <2>2, <2>3, ClusterStepKeepsAccess
<1>6. CASE UNCHANGED accessVars
  <2>1. UNCHANGED vars /\ UNCHANGED clusterVars /\ known' = known
    BY <1>6 DEF accessVars
  <2>2. ClusterOK' /\ FreshFacts' = FreshFacts
    BY <2>1, ClusterKeeps DEF AccessInv
  <2>3. \A s \in Slots : pc[s] # "idle" =>
          /\ FreshFacts.users \subseteq known[s].users
          /\ FreshFacts.access \subseteq known[s].access
    BY DEF AccessInv, Vetted, KnownIsFresh
  <2>4. known' \in [Slots -> Facts]
    BY <2>1 DEF AccessInv
  <2> QED BY <2>1, <2>2, <2>3, <2>4, ClusterStepKeepsAccess
<1> QED BY <1>1, <1>2, <1>3, <1>4, <1>5, <1>6 DEF AccessNext

LEMMA AccessInvariance == AccessSpec => [](IInv /\ AccessInv)
<1>1. AccessInit => IInv /\ AccessInv
  BY AccessInitInv, InitInv DEF AccessInit
<1>2. IInv /\ AccessInv /\ [AccessNext]_accessVars => (IInv /\ AccessInv)'
  BY AccessNextInv, NextInv, AccessStepsArePipelineSteps
<1> QED BY <1>1, <1>2, PTL DEF AccessSpec

-----------------------------------------------------------------------------
(* The theorem. *)

\* A token revoked Stale ticks before a request arrived gives it no access, nor
\* does a permission withdrawn as long ago from all questions of one cache key,
\* for any number of connections, users and attribute records, any cache key,
\* and whatever reviews, caches and the cluster do meanwhile.
THEOREM RevocationIsEffective == AccessSpec => []RevokedIsRefused
<1>1. IInv /\ AccessInv => RevokedIsRefused
  <2> SUFFICES ASSUME IInv, AccessInv, NEW s \in Slots,
                      pc[s] = "forwarded", ~Ignored(request[s].path)
               PROVE  /\ Reviewed(s) => identity[s] \in known[s].users
                      /\ \A i \in 1 .. Len(attrs[s]) :
                           \/ attrs[s][i] \in config.static
                           \/ OfOneKey(<<identity[s], attrs[s][i]>>) \cap known[s].access # {}
    BY DEF RevokedIsRefused
  <2>1. VouchedFor(s, identity[s]) /\ identity[s] \in Users /\ Authorized(s)
    BY DEF IInv, Progress
  <2>2. verdicts[s] \in Seq(Users \cup {Abstain, Error})
    BY DEF IInv, TypeOK
  <2>3. /\ Len(verdicts[s]) \in 1 .. Len(verdicts[s])
        /\ verdicts[s][Len(verdicts[s])] = identity[s]
    BY <2>1, <2>2 DEF VouchedFor, Last
  <2>4. Reviewed(s) => identity[s] \in known[s].users
    BY <2>1, <2>3 DEF Reviewed, AccessInv, Vetted, NamedIsKnown
  <2>5. ASSUME NEW i \in 1 .. Len(attrs[s]), attrs[s][i] \notin config.static
        PROVE  OfOneKey(<<identity[s], attrs[s][i]>>) \cap known[s].access # {}
    <3>1. decisions[s][i] = "allowed" /\ i \in 1 .. Len(decisions[s])
      BY <2>1, <2>5 DEF Authorized, Grants
    <3> QED BY <2>1, <3>1 DEF VouchedFor, AccessInv, Vetted, AllowedIsKnown
  <2> QED BY <2>4, <2>5
<1> QED BY <1>1, AccessInvariance, PTL
===============================================================================
