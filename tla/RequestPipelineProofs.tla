------------------------ MODULE RequestPipelineProofs ------------------------
(***************************************************************************)
(* Theorems about RequestPipeline for any number of connections, any       *)
(* configuration and any requests.                                         *)
(*                                                                         *)
(* An action belongs to one slot and leaves the others alone, so the       *)
(* invariant is proved slot by slot: Frame says that the rest stays, one   *)
(* lemma per action says what it does to its own slot.                     *)
(***************************************************************************)
EXTENDS RequestPipeline, SequenceTheorems, TLAPS

USE PipelineAssumption

-----------------------------------------------------------------------------
(* Frames. *)

\* Nothing of slot r that the invariant is about changes.
Same(r) ==
  /\ pc'[r] = pc[r] /\ request'[r] = request[r] /\ identity'[r] = identity[r]
  /\ attrs'[r] = attrs[r] /\ verdicts'[r] = verdicts[r]
  /\ decisions'[r] = decisions[r] /\ status'[r] = status[r]
  /\ upstream'[r] = upstream[r]

Frame(s) == config' = config /\ \A r \in Slots \ {s} : Same(r)

LEMMA SameProgress ==
  ASSUME NEW r \in Slots, config' = config, Same(r), Progress(r)
  PROVE  Progress(r)'
BY DEF Same, Progress, InService, Operational, Unasked, NoVerdictYet, SoFarSoGood,
       Earned, Chain, Grants, VouchedFor, Evidence, AskedLast, Authorized, Permitted, Ignored, Last,
       InjectsHeaders

\* What attributes() generates is a sequence of attribute records.
LEMMA GeneratedIsSequence == BoundedSeq(Attrs, MaxAttrs) \subseteq Seq(Attrs)
BY DEF BoundedSeq, SeqOf

-----------------------------------------------------------------------------
(* The actions, one by one. *)

LEMMA ArriveKeeps ==
  ASSUME NEW s \in Slots, NEW r \in Requests, TypeOK, Progress(s), Arrive(s, r)
  PROVE  TypeOK' /\ Progress(s)' /\ Frame(s)
<1> USE DEF TypeOK, Arrive, NewCtx, progress, results
<1>1. TypeOK'
  BY DEF PCs
<1>2. Progress(s)'
  BY DEF Progress, InService, Unasked, PCs
<1>3. Frame(s)
  BY DEF Frame, Same
<1> QED BY <1>1, <1>2, <1>3

\* What the invariant says of a request that is refused.
LEMMA RefusedProgress ==
  ASSUME NEW s \in Slots, pc'[s] \in {"refused", "broken"}, InService(s)', Earned(s)'
  PROVE  Progress(s)'
BY DEF Progress

\* Only four statuses have to be earned.
LEMMA OthersAreEarned ==
  ASSUME NEW s \in Slots, status'[s] \in {0, 200, 502}
  PROVE  Earned(s)'
BY DEF Earned

\* No response is written before the request is refused.
LEMMA NoStatusYet ==
  ASSUME NEW s \in Slots, Progress(s), pc[s] \in {"idle", "filter", "authn", "authz", "peer"}
  PROVE  status[s] = 0
BY DEF Progress, Unasked, NoVerdictYet, SoFarSoGood

LEMMA RespondKeeps ==
  ASSUME NEW s \in Slots, NEW code \in Statuses, TypeOK, Respond(s, code)
  PROVE  /\ pc' \in [Slots -> PCs] /\ status' \in [Slots -> Statuses]
         /\ upstream' \in [Slots -> Users \cup {Nobody}]
         /\ pc'[s] \in {"refused", "broken"} /\ status'[s] \in {status[s], code}
         /\ \A r \in Slots \ {s} : pc'[r] = pc[r] /\ status'[r] = status[r]
         /\ upstream' = upstream
BY DEF TypeOK, Respond, PCs

LEMMA FailKeeps ==
  ASSUME NEW s \in Slots, NEW code \in Statuses, TypeOK, Fail(s, code)
  PROVE  /\ pc' \in [Slots -> PCs] /\ status' \in [Slots -> Statuses]
         /\ upstream' \in [Slots -> Users \cup {Nobody}]
         /\ pc'[s] \in {"refused", "broken"} /\ status'[s] = code
         /\ \A r \in Slots \ {s} : pc'[r] = pc[r] /\ status'[r] = status[r]
         /\ upstream' = upstream
BY DEF TypeOK, Fail, PCs

\* requests_total wraps.
LEMMA CountKeeps ==
  ASSUME TypeOK, CountRequest
  PROVE  total' \in 0 .. Modulus - 1
<1>1. (total + 1) % Modulus \in 0 .. Modulus - 1
  BY DEF TypeOK
<1> QED BY <1>1 DEF CountRequest

LEMMA AnswerOperationalKeeps ==
  ASSUME NEW s \in Slots, TypeOK, Progress(s), AnswerOperational(s)
  PROVE  TypeOK' /\ Progress(s)' /\ Frame(s)
<1>1. Respond(s, 200) /\ 200 \in Statuses
  BY DEF AnswerOperational, Statuses
<1> USE <1>1, RespondKeeps DEF AnswerOperational, progress
<1>2. TypeOK'
  BY DEF TypeOK
<1>3. InService(s)'
  BY DEF Progress, InService, Operational
<1>4. Earned(s)'
  BY NoStatusYet, OthersAreEarned
<1>5. Frame(s)
  BY DEF Frame, Same
<1> QED BY <1>2, <1>3, <1>4, <1>5, RefusedProgress

LEMMA RefusePathKeeps ==
  ASSUME NEW s \in Slots, TypeOK, Progress(s), RefusePath(s)
  PROVE  TypeOK' /\ Progress(s)' /\ Frame(s)
<1>1. Respond(s, 404) /\ 404 \in Statuses
  BY DEF RefusePath, Statuses
<1>2. CountRequest
  BY DEF RefusePath
<1>3. total' \in 0 .. Modulus - 1
  BY <1>2, CountKeeps
<1> USE <1>1, RespondKeeps DEF RefusePath, progress
<1>4. TypeOK'
  BY <1>3 DEF TypeOK
<1>5. InService(s)'
  <2>1. pc'[s] \in {"refused", "broken"} /\ ~Operational(s) /\ request' = request
    OBVIOUS
  <2>3. request[s] # NoRequest
    BY DEF Progress, InService
  <2> QED BY <2>1, <2>3 DEF InService
<1>6. Earned(s)'
  <2>1. status'[s] \in {0, 404}
    BY NoStatusYet
  <2>2. ~Permitted(request[s].path)'
    BY DEF Permitted
  <2> QED BY <2>1, <2>2 DEF Earned
<1>7. Frame(s)
  <2>1. \A r \in Slots \ {s} : pc'[r] = pc[r] /\ status'[r] = status[r]
    OBVIOUS
  <2>2. /\ config' = config /\ upstream' = upstream /\ request' = request
        /\ identity' = identity /\ attrs' = attrs /\ verdicts' = verdicts
        /\ decisions' = decisions
    OBVIOUS
  <2> QED BY <2>1, <2>2 DEF Frame, Same
<1> QED BY <1>4, <1>5, <1>6, <1>7, RefusedProgress

LEMMA BypassKeeps ==
  ASSUME NEW s \in Slots, TypeOK, Progress(s), Bypass(s)
  PROVE  TypeOK' /\ Progress(s)' /\ Frame(s)
<1>1. CountRequest
  BY DEF Bypass
<1>2. total' \in 0 .. Modulus - 1
  BY <1>1, CountKeeps
<1> USE DEF Bypass, progress, results
<1>3. TypeOK'
  BY <1>2 DEF TypeOK, PCs
<1>4. InService(s)'
  BY <1>1 DEF Progress, InService, Operational, CountRequest, TypeOK
<1>5. Progress(s)'
  BY <1>4 DEF Progress, Unasked, Permitted, Ignored, TypeOK
<1>6. Frame(s)
  BY DEF Frame, Same, CountRequest, TypeOK
<1> QED BY <1>3, <1>5, <1>6

LEMMA AuthenticateKeeps ==
  ASSUME NEW s \in Slots, TypeOK, Progress(s), Authenticate(s)
  PROVE  TypeOK' /\ Progress(s)' /\ Frame(s)
<1>1. total' \in 0 .. Modulus - 1
  BY CountKeeps DEF Authenticate
<1> USE DEF Authenticate, NeedsIdentity, progress, results
<1>2. TypeOK'
  BY <1>1 DEF TypeOK, PCs
<1>3. InService(s)'
  BY DEF Progress, InService, TypeOK
<1>4. Progress(s)'
  BY <1>3 DEF Progress, Unasked, NoVerdictYet, Permitted, Ignored, TypeOK
<1>5. Frame(s)
  BY DEF Frame, Same, TypeOK
<1> QED BY <1>2, <1>4, <1>5

LEMMA PanicKeeps ==
  ASSUME NEW s \in Slots, TypeOK, Progress(s), Panic(s)
  PROVE  TypeOK' /\ Progress(s)' /\ Frame(s)
<1>1. total' \in 0 .. Modulus - 1
  BY CountKeeps DEF Panic
<1> USE DEF Panic, NeedsIdentity, progress, results
<1>2. TypeOK'
  BY <1>1 DEF TypeOK, PCs
<1>3. InService(s)'
  BY DEF Progress, InService, TypeOK
<1>4. Earned(s)'
  BY NoStatusYet, OthersAreEarned
<1>5. pc'[s] \in {"refused", "broken"}
  BY DEF TypeOK
<1>6. Frame(s)
  BY DEF Frame, Same, TypeOK
<1> QED BY <1>2, <1>3, <1>4, <1>5, <1>6, RefusedProgress

-----------------------------------------------------------------------------
(* The authenticators. *)

\* One more verdict at the end, the earlier ones as they were.
LEMMA ConsultKeeps ==
  ASSUME NEW s \in Slots, NEW v \in Users \cup {Abstain, Error}, TypeOK, Consult(s, v)
  PROVE  /\ verdicts' \in [Slots -> Seq(Users \cup {Abstain, Error})]
         /\ verdicts'[s] # <<>> /\ Len(verdicts'[s]) = Len(verdicts[s]) + 1
         /\ Len(verdicts[s]) \in Nat
         /\ Last(verdicts'[s]) = v
         /\ \A i \in 1 .. Len(verdicts[s]) : verdicts'[s][i] = verdicts[s][i]
         /\ \A r \in Slots \ {s} : verdicts'[r] = verdicts[r]
<1>1. verdicts[s] \in Seq(Users \cup {Abstain, Error})
  BY DEF TypeOK
<1>2. verdicts'[s] = Append(verdicts[s], v)
  BY DEF Consult, TypeOK
<1>3. /\ Append(verdicts[s], v) \in Seq(Users \cup {Abstain, Error})
      /\ Append(verdicts[s], v) # <<>>
      /\ Len(Append(verdicts[s], v)) = Len(verdicts[s]) + 1
      /\ Append(verdicts[s], v)[Len(verdicts[s]) + 1] = v
      /\ \A i \in 1 .. Len(verdicts[s]) : Append(verdicts[s], v)[i] = verdicts[s][i]
  BY <1>1, AppendProperties
<1> QED BY <1>1, <1>2, <1>3 DEF Consult, TypeOK, Last

LEMMA PassOnKeeps ==
  ASSUME NEW s \in Slots, TypeOK, Progress(s), PassOn(s)
  PROVE  TypeOK' /\ Progress(s)' /\ Frame(s)
<1>1. Consult(s, Abstain)
  BY DEF PassOn
<1> USE <1>1, ConsultKeeps DEF PassOn, results
<1>2. TypeOK'
  BY DEF TypeOK
<1>3. pc[s] = "authn" /\ NoVerdictYet(s)
  BY DEF Consult, Progress
<1>4. NoVerdictYet(s)'
  <2>1. ASSUME NEW i \in 1 .. Len(verdicts'[s])
        PROVE  verdicts'[s][i] = Abstain
    BY <1>3 DEF NoVerdictYet, Last
  <2> QED BY <2>1, <1>3 DEF NoVerdictYet
<1>5. Progress(s)'
  BY <1>3, <1>4 DEF Progress, InService, Operational, Permitted, Ignored
<1>6. Frame(s)
  BY DEF Frame, Same
<1> QED BY <1>2, <1>5, <1>6

LEMMA AuthnErrorKeeps ==
  ASSUME NEW s \in Slots, TypeOK, Progress(s), AuthnError(s)
  PROVE  TypeOK' /\ Progress(s)' /\ Frame(s)
<1>1. Consult(s, Error) /\ Fail(s, 500) /\ 500 \in Statuses
  BY DEF AuthnError, Statuses
<1>2. /\ verdicts' \in [Slots -> Seq(Users \cup {Abstain, Error})]
      /\ verdicts'[s] # <<>> /\ Last(verdicts'[s]) = Error
      /\ \A r \in Slots \ {s} : verdicts'[r] = verdicts[r]
  BY <1>1, ConsultKeeps
<1>3. /\ pc' \in [Slots -> PCs] /\ status' \in [Slots -> Statuses]
      /\ upstream' = upstream
      /\ pc'[s] \in {"refused", "broken"} /\ status'[s] = 500
      /\ \A r \in Slots \ {s} : pc'[r] = pc[r] /\ status'[r] = status[r]
  BY <1>1, FailKeeps
<1> USE DEF AuthnError
<1>4. TypeOK'
  BY <1>2, <1>3 DEF TypeOK
<1>5. InService(s)'
  BY <1>1, <1>3 DEF Progress, InService, Operational, Consult
<1>6. Earned(s)'
  BY <1>2, <1>3 DEF Earned, Last
<1>7. Frame(s)
  BY <1>2, <1>3 DEF Frame, Same
<1> QED BY <1>3, <1>4, <1>5, <1>6, <1>7, RefusedProgress

LEMMA UnauthenticatedKeeps ==
  ASSUME NEW s \in Slots, TypeOK, Progress(s), Unauthenticated(s)
  PROVE  TypeOK' /\ Progress(s)' /\ Frame(s)
<1>1. Respond(s, 401) /\ 401 \in Statuses
  BY DEF Unauthenticated, Statuses
<1> USE <1>1, RespondKeeps DEF Unauthenticated, progress
<1>2. TypeOK'
  BY DEF TypeOK
<1>3. InService(s)'
  BY DEF Progress, InService, Operational
<1>4. Earned(s)'
  <2>1. status'[s] \in {0, 401}
    BY NoStatusYet
  <2>2. verdicts[s] = [i \in 1 .. Len(Chain) |-> Abstain]
    <3>1. verdicts[s] = [i \in 1 .. Len(verdicts[s]) |-> verdicts[s][i]]
      BY DEF TypeOK
    <3>2. \A i \in 1 .. Len(verdicts[s]) : verdicts[s][i] = Abstain
      BY DEF Progress, NoVerdictYet
    <3>3. Len(verdicts[s]) = Len(Chain)
      BY DEF Consulted
    <3> QED BY <3>1, <3>2, <3>3, Zenon
  <2>3. verdicts'[s] = [i \in 1 .. Len(Chain') |-> Abstain]
    BY <2>2 DEF Chain
  <2> QED BY <2>1, <2>3 DEF Earned
<1>5. Frame(s)
  BY DEF Frame, Same
<1> QED BY <1>2, <1>3, <1>4, <1>5, RefusedProgress

\* Who names a user has seen a certificate, a header or a token.
LEMMA NamingHasEvidence ==
  ASSUME NEW a, NEW r, NEW user \in Users, user \in Verdicts(a, r)
  PROVE  \/ a # "certificate" /\ r.bearer
         \/ a = "certificate" /\ r.certificate = user
         \/ a = "certificate" /\ r.certificate = Nobody /\ r.certHeader = user
<1>1. user # Abstain
  <2>1. Abstain \notin Users
    BY DEF PipelineAssumption
  <2> QED BY <2>1
<1>2. CASE a = "certificate"
  <2>1. user = CertHeader(r)
    <3>1. Verdicts(a, r) = OfCertificate(r)
      BY <1>2 DEF Verdicts
    <3> QED BY <1>1, <3>1 DEF OfCertificate
  <2> QED BY <1>2, <2>1 DEF CertHeader
<1>3. CASE a # "certificate"
  <2>1. r.bearer
    <3> SUFFICES ASSUME ~r.bearer PROVE FALSE
      OBVIOUS
    <3>1. Verdicts(a, r) = {Abstain}
      BY <1>3, Zenon DEF Verdicts
    <3> QED BY <1>1, <3>1
  <2> QED BY <1>3, <2>1, Zenon
<1> QED BY <1>2, <1>3, Zenon

LEMMA VouchKeeps ==
  ASSUME NEW s \in Slots, NEW user \in Users,
         NEW as \in BoundedSeq(Attrs, MaxAttrs) \cup {Error},
         TypeOK, Progress(s), Vouch(s, user, as)
  PROVE  TypeOK' /\ Progress(s)' /\ Frame(s)
<1>1. Consult(s, user) /\ pc[s] = "authn" /\ NoVerdictYet(s)
  BY DEF Vouch, Consult, Progress
<1>2. /\ verdicts' \in [Slots -> Seq(Users \cup {Abstain, Error})]
      /\ \A r \in Slots \ {s} : verdicts'[r] = verdicts[r]
  BY <1>1, ConsultKeeps
<1>3. VouchedFor(s, user)'
  <2>1. /\ verdicts'[s] # <<>> /\ Len(verdicts'[s]) = Len(verdicts[s]) + 1
        /\ Len(verdicts[s]) \in Nat
        /\ Last(verdicts'[s]) = user
        /\ \A i \in 1 .. Len(verdicts[s]) : verdicts'[s][i] = verdicts[s][i]
    BY <1>1, ConsultKeeps
  <2>2. Evidence(s, user)'
    <3>1. AskedLast(s)' = Chain[Len(verdicts[s]) + 1]
      BY <2>1 DEF AskedLast, Chain, Vouch
    <3>2. user \in Verdicts(Chain[Len(verdicts[s]) + 1], request[s])
      BY <1>1 DEF Consult, Consulted
    <3>3. request' = request
      BY DEF Vouch
    <3> QED BY <3>1, <3>2, <3>3, NamingHasEvidence DEF Evidence
  <2> QED BY <1>1, <2>1, <2>2 DEF VouchedFor, NoVerdictYet, Last
<1>4. attrs' = [attrs EXCEPT ![s] = as] /\ as \in {Error} \cup Seq(Attrs)
  BY GeneratedIsSequence DEF Vouch
<1>5. UNCHANGED <<config, request, identity, decisions, total>>
  BY DEF Vouch
<1>6. CASE as \in {Error, <<>>}
  <2>1. PICK code \in Statuses :
          /\ Fail(s, code) \/ Respond(s, code)
          /\ (as = Error /\ code = 500) \/ (as = <<>> /\ code = 403)
    <3>1. CASE as = Error /\ Fail(s, 500)
      BY <3>1 DEF Statuses
    <3>2. CASE as = <<>> /\ Respond(s, 403)
      BY <3>2 DEF Statuses
    <3> QED BY <1>6, <3>1, <3>2 DEF Vouch
  <2>2. /\ pc' \in [Slots -> PCs] /\ status' \in [Slots -> Statuses]
        /\ upstream' = upstream
        /\ pc'[s] \in {"refused", "broken"} /\ status'[s] \in {status[s], code}
        /\ \A r \in Slots \ {s} : pc'[r] = pc[r] /\ status'[r] = status[r]
    BY <2>1, FailKeeps, RespondKeeps
  <2>3. TypeOK'
    BY <1>2, <1>4, <1>5, <2>2 DEF TypeOK
  <2>4. InService(s)'
    BY <1>1, <1>5, <2>2 DEF Progress, InService, Operational
  <2>5. Earned(s)'
    <3>1. status'[s] \in {0, code}
      BY <1>1, <2>2, NoStatusYet
    <3>2. attrs'[s] = as
      BY <1>4 DEF TypeOK
    <3>3. (\E u \in Users : VouchedFor(s, u))'
      BY <1>3
    <3>4. CASE as = Error /\ code = 500
      BY <3>1, <3>2, <3>4 DEF Earned
    <3>5. CASE as = <<>> /\ code = 403
      <4>1. attrs'[s] = <<>>
        BY <3>2, <3>5
      <4> QED BY <3>1, <3>3, <3>5, <4>1 DEF Earned
    <3> QED BY <2>1, <3>4, <3>5
  <2>6. Frame(s)
    BY <1>2, <1>4, <1>5, <2>2 DEF Frame, Same, TypeOK
  <2> QED BY <2>2, <2>3, <2>4, <2>5, <2>6, RefusedProgress
<1>7. CASE as \notin {Error, <<>>}
  <2>1. pc' = [pc EXCEPT ![s] = "authz"] /\ UNCHANGED <<status, upstream>>
    BY <1>7 DEF Vouch, results
  <2>2. TypeOK'
    BY <1>2, <1>4, <1>5, <2>1 DEF TypeOK, PCs
  <2>3. pc'[s] = "authz" /\ attrs'[s] = as /\ decisions'[s] = <<>> /\ status'[s] = 0
    BY <1>1, <1>4, <1>5, <2>1 DEF TypeOK, NoVerdictYet
  <2>4. SoFarSoGood(s)'
    <3>1. as \in Seq(Attrs) /\ Len(as) \in Nat
      <4>1. as \in Seq(Attrs)
        BY <1>4, <1>7, Zenon
      <4> QED BY <4>1, LenProperties
    <3>2. Len(decisions'[s]) = 0
      BY <2>3
    <3>3. Len(decisions'[s]) <= Len(attrs'[s])
      <4>1. Len(attrs'[s]) \in Nat
        BY <2>3, <3>1
      <4> QED BY <3>2, <4>1
    <3>4. \A i \in 1 .. Len(decisions'[s]) : Grants(decisions[s][i], attrs[s][i])'
      BY <3>2
    <3>5. attrs'[s] \notin {Error, <<>>}
      BY <1>7, <2>3
    <3>6. (\E u \in Users : VouchedFor(s, u))'
      BY <1>3
    <3> QED BY <2>3, <3>3, <3>4, <3>5, <3>6 DEF SoFarSoGood
  <2>5. Progress(s)'
    BY <1>1, <1>5, <2>3, <2>4 DEF Progress, InService, Operational, Permitted, Ignored
  <2>6. Frame(s)
    BY <1>2, <1>4, <1>5, <2>1 DEF Frame, Same, TypeOK
  <2> QED BY <2>2, <2>5, <2>6
<1> QED BY <1>6, <1>7

-----------------------------------------------------------------------------
(* Authorization. *)

LEMMA DecideKeeps ==
  ASSUME NEW s \in Slots, NEW d \in Decisions, TypeOK, Progress(s), Decide(s, d)
  PROVE  TypeOK' /\ Progress(s)' /\ Frame(s)
<1>1. pc[s] = "authz" /\ SoFarSoGood(s) /\ Len(decisions[s]) < Len(attrs[s])
  BY DEF Decide, Progress, Decided
<1>2. decisions[s] \in Seq(Decisions) /\ attrs[s] \in Seq(Attrs)
  BY <1>1 DEF TypeOK, SoFarSoGood
<1>3. decisions' = [decisions EXCEPT ![s] = Append(decisions[s], d)]
  BY DEF Decide
<1>4. /\ decisions'[s] \in Seq(Decisions)
      /\ Len(decisions'[s]) = Len(decisions[s]) + 1
      /\ decisions'[s][Len(decisions[s]) + 1] = d
      /\ \A i \in 1 .. Len(decisions[s]) : decisions'[s][i] = decisions[s][i]
  BY <1>2, <1>3, AppendProperties DEF TypeOK
<1>5. decisions' \in [Slots -> Seq(Decisions)]
  BY <1>3, <1>4 DEF TypeOK
<1>6. UNCHANGED <<config, request, identity, attrs, verdicts, total>>
  BY DEF Decide
<1>7. CASE d \in {Error, "denied"}
  <2>1. PICK code \in Statuses :
          /\ Fail(s, code) \/ Respond(s, code)
          /\ (d = Error /\ code = 500) \/ (d = "denied" /\ code = 403)
    <3>1. (d = Error /\ Fail(s, 500)) \/ (d = "denied" /\ Respond(s, 403))
      BY <1>7 DEF Decide
    <3> QED BY <3>1 DEF Statuses
  <2>2. /\ pc' \in [Slots -> PCs] /\ status' \in [Slots -> Statuses]
        /\ upstream' = upstream
        /\ pc'[s] \in {"refused", "broken"} /\ status'[s] \in {status[s], code}
        /\ \A r \in Slots \ {s} : pc'[r] = pc[r] /\ status'[r] = status[r]
    BY <2>1, FailKeeps, RespondKeeps
  <2>3. TypeOK'
    BY <1>5, <1>6, <2>2 DEF TypeOK
  <2>4. InService(s)'
    BY <1>1, <1>6, <2>2 DEF Progress, InService, Operational
  <2>5. Earned(s)'
    <3>1. status'[s] \in {0, code}
      BY <1>1, <2>2, NoStatusYet
    <3>2. decisions'[s] # <<>> /\ Last(decisions'[s]) = d
      BY <1>2, <1>4 DEF Last
    <3>3. (\E user \in Users : VouchedFor(s, user))'
      BY <1>1, <1>6 DEF SoFarSoGood, VouchedFor, Evidence, AskedLast, Chain, Last
    <3> QED BY <2>1, <3>1, <3>2, <3>3 DEF Earned, Last
  <2>6. Frame(s)
    BY <1>3, <1>6, <2>2 DEF Frame, Same, TypeOK
  <2> QED BY <2>2, <2>3, <2>4, <2>5, <2>6, RefusedProgress
<1>8. CASE d \notin {Error, "denied"}
  <2>1. UNCHANGED <<pc, status, upstream>>
    BY <1>8 DEF Decide, results
  <2>2. TypeOK'
    BY <1>5, <1>6, <2>1 DEF TypeOK
  <2>3. Grants(d, attrs[s][Len(decisions[s]) + 1])
    BY <1>8 DEF Decide, Outcomes, Grants, Decided
  <2>4. SoFarSoGood(s)'
    <3>1. \E user \in Users : VouchedFor(s, user)'
      BY <1>1, <1>6 DEF SoFarSoGood, VouchedFor, Evidence, AskedLast, Chain, Last
    <3>2. Len(decisions[s]) \in Nat /\ Len(attrs[s]) \in Nat
      BY <1>2
    <3>3. ASSUME NEW i \in 1 .. Len(decisions'[s])
          PROVE  Grants(decisions[s][i], attrs[s][i])'
      <4>1. CASE i = Len(decisions[s]) + 1
        BY <4>1, <1>4, <1>6, <2>3 DEF Grants
      <4>2. CASE i \in 1 .. Len(decisions[s])
        BY <4>2, <1>1, <1>4, <1>6 DEF SoFarSoGood, Grants
      <4> QED BY <4>1, <4>2, <1>4, <3>2
    <3>4. Len(decisions'[s]) <= Len(attrs'[s]) /\ attrs'[s] \notin {Error, <<>>} /\ status'[s] = 0
      BY <1>1, <1>4, <1>6, <2>1, <3>2 DEF SoFarSoGood
    <3> QED BY <3>1, <3>3, <3>4 DEF SoFarSoGood, Grants
  <2>5. Progress(s)'
    BY <1>1, <1>6, <2>1, <2>4 DEF Progress, InService, Operational, Permitted, Ignored
  <2>6. Frame(s)
    BY <1>3, <1>6, <2>1 DEF Frame, Same, TypeOK
  <2> QED BY <2>2, <2>5, <2>6
<1> QED BY <1>7, <1>8

LEMMA AdmitKeeps ==
  ASSUME NEW s \in Slots, TypeOK, Progress(s), Admit(s)
  PROVE  TypeOK' /\ Progress(s)' /\ Frame(s)
<1>1. pc[s] = "authz" /\ SoFarSoGood(s) /\ Len(decisions[s]) = Len(attrs[s])
  BY DEF Admit, Progress, AllDecided, Decided
<1>2. PICK user \in Users : VouchedFor(s, user)
  BY <1>1 DEF SoFarSoGood
<1>3. user = Last(verdicts[s])
  BY <1>2 DEF VouchedFor
<1>4. /\ identity' = [identity EXCEPT ![s] = user]
      /\ pc' = [pc EXCEPT ![s] = "peer"]
      /\ UNCHANGED <<config, request, progress, results, total>>
  BY <1>3 DEF Admit
<1>5. TypeOK'
  BY <1>4 DEF TypeOK, PCs, progress, results
<1>6. pc'[s] = "peer" /\ identity'[s] = user
  BY <1>4 DEF TypeOK
<1>7. VouchedFor(s, user)'
  BY <1>2, <1>4 DEF VouchedFor, Evidence, AskedLast, Chain, Last, progress
<1>8. Authorized(s)'
  BY <1>1, <1>4 DEF SoFarSoGood, Authorized, Grants, progress
<1>9. Progress(s)'
  <2>1. InService(s)' /\ Permitted(request[s].path)' /\ status'[s] = 0
    BY <1>1, <1>4, <1>6 DEF Progress, InService, Operational, Permitted, SoFarSoGood, results
  <2>2. VouchedFor(s, identity[s])' /\ identity'[s] \in Users
    BY <1>6, <1>7 DEF VouchedFor
  <2> QED BY <1>6, <1>8, <2>1, <2>2 DEF Progress
<1>10. Frame(s)
  BY <1>4 DEF Frame, Same, TypeOK, progress, results
<1> QED BY <1>5, <1>9, <1>10

-----------------------------------------------------------------------------
(* The upstream side. *)

LEMMA ForwardKeeps ==
  ASSUME NEW s \in Slots, TypeOK, Progress(s), Forward(s)
  PROVE  TypeOK' /\ Progress(s)' /\ Frame(s)
<1>1. /\ pc[s] = "peer"
      /\ pc' = [pc EXCEPT ![s] = "forwarded"]
      /\ UNCHANGED <<config, request, identity, progress, status, total>>
  BY DEF Forward
<1>2. upstream' \in [Slots -> Users \cup {Nobody}]
  <2>1. request[s] \in Requests
    BY <1>1 DEF TypeOK, Progress, InService
  <2>2. request[s].userHeader \in Users \cup {Nobody} /\ identity[s] \in Users \cup {Nobody}
    BY <2>1 DEF TypeOK, Requests
  <2> QED BY <2>2 DEF TypeOK, Forward
<1>3. TypeOK'
  BY <1>1, <1>2 DEF TypeOK, PCs, progress
<1>4. Progress(s)'
  <2>1. upstream'[s] = IF InjectsHeaders(s) THEN identity[s] ELSE request[s].userHeader
    BY DEF Forward, TypeOK
  <2>2. InjectsHeaders(s)' <=> InjectsHeaders(s)
    BY <1>1 DEF InjectsHeaders
  <2>3. pc'[s] = "forwarded"
    BY <1>1 DEF TypeOK
  <2> QED
    BY <1>1, <2>1, <2>2, <2>3
    DEF Progress, InService, Unasked, VouchedFor, Evidence, AskedLast, Chain, Authorized,
        Grants, Permitted, Ignored, Last, progress
<1>5. Frame(s)
  BY <1>1 DEF Frame, Same, TypeOK, Forward, progress
<1> QED BY <1>3, <1>4, <1>5

LEMMA ForwardFailsKeeps ==
  ASSUME NEW s \in Slots, TypeOK, Progress(s), ForwardFails(s)
  PROVE  TypeOK' /\ Progress(s)' /\ Frame(s)
<1>1. PICK code \in Statuses :
        Fail(s, code) /\ (code = 502 \/ (code = 500 /\ InjectsHeaders(s)))
  BY DEF ForwardFails, Statuses
<1>2. /\ pc' \in [Slots -> PCs] /\ status' \in [Slots -> Statuses]
      /\ upstream' = upstream
      /\ pc'[s] \in {"refused", "broken"} /\ status'[s] = code
      /\ \A r \in Slots \ {s} : pc'[r] = pc[r] /\ status'[r] = status[r]
  BY <1>1, FailKeeps
<1> USE DEF ForwardFails, progress
<1>3. TypeOK'
  BY <1>2 DEF TypeOK
<1>4. InService(s)'
  BY <1>2 DEF Progress, InService, Operational
<1>5. Earned(s)'
  <2>1. CASE code = 502
    BY <2>1, <1>2, OthersAreEarned
  <2>2. CASE code = 500 /\ InjectsHeaders(s)
    <3>1. Authorized(s) /\ config.authHeaders
      BY <2>2 DEF Progress, InjectsHeaders
    <3>2. Authorized(s)' /\ config'.authHeaders
      BY <3>1 DEF Authorized, Grants
    <3> QED BY <2>2, <1>2, <3>2 DEF Earned
  <2> QED BY <1>1, <2>1, <2>2
<1>6. Frame(s)
  BY <1>2 DEF Frame, Same
<1> QED BY <1>2, <1>3, <1>4, <1>5, <1>6, RefusedProgress

LEMMA FinishKeeps ==
  ASSUME NEW s \in Slots, TypeOK, Progress(s), Finish(s)
  PROVE  TypeOK' /\ Progress(s)' /\ Frame(s)
<1> USE DEF Finish
<1>1. <<>> \in Seq(Attrs) /\ <<>> \in Seq(Users \cup {Abstain, Error}) /\ <<>> \in Seq(Decisions)
  OBVIOUS
<1>2. TypeOK'
  BY <1>1 DEF TypeOK, PCs, Statuses
<1>3. Progress(s)'
  BY DEF TypeOK, Progress, InService, Unasked
<1>4. Frame(s)
  BY DEF Frame, Same, TypeOK
<1> QED BY <1>2, <1>3, <1>4

-----------------------------------------------------------------------------
(* The invariant. *)

LEMMA InitInv == Init => IInv
<1> SUFFICES ASSUME Init PROVE IInv
  OBVIOUS
<1>1. <<>> \in Seq(Attrs) /\ <<>> \in Seq(Users \cup {Abstain, Error}) /\ <<>> \in Seq(Decisions)
  OBVIOUS
<1>2. TypeOK
  BY <1>1 DEF Init, TypeOK, PCs, Statuses
<1>3. ASSUME NEW s \in Slots PROVE Progress(s)
  BY DEF Init, Progress, InService, Unasked
<1> QED BY <1>2, <1>3 DEF IInv

\* Whatever a slot does keeps the invariant for itself and leaves the others.
LEMMA SlotKeeps ==
  ASSUME NEW s \in Slots, TypeOK, Progress(s),
         (\E r \in Arrivals : Arrive(s, r)) \/ Step(s)
  PROVE  TypeOK' /\ Progress(s)' /\ Frame(s)
<1>1. CASE \E r \in Arrivals : Arrive(s, r)
  BY <1>1, ArriveKeeps
<1>2. CASE AnswerOperational(s)
  BY <1>2, AnswerOperationalKeeps
<1>3. CASE RefusePath(s)
  BY <1>3, RefusePathKeeps
<1>4. CASE Bypass(s)
  BY <1>4, BypassKeeps
<1>5. CASE Authenticate(s)
  BY <1>5, AuthenticateKeeps
<1>15. CASE Panic(s)
  BY <1>15, PanicKeeps
<1>6. CASE PassOn(s)
  BY <1>6, PassOnKeeps
<1>7. CASE AuthnError(s)
  BY <1>7, AuthnErrorKeeps
<1>8. CASE Unauthenticated(s)
  BY <1>8, UnauthenticatedKeeps
<1>9. CASE \E user \in Users, as \in BoundedSeq(Attrs, MaxAttrs) \cup {Error} : Vouch(s, user, as)
  BY <1>9, VouchKeeps
<1>10. CASE \E d \in Decisions : Decide(s, d)
  BY <1>10, DecideKeeps
<1>11. CASE Admit(s)
  BY <1>11, AdmitKeeps
<1>12. CASE Forward(s)
  BY <1>12, ForwardKeeps
<1>13. CASE ForwardFails(s)
  BY <1>13, ForwardFailsKeeps
<1>14. CASE Finish(s)
  BY <1>14, FinishKeeps
<1> QED BY <1>1, <1>2, <1>3, <1>4, <1>5, <1>6, <1>7, <1>8, <1>9, <1>10, <1>11,
           <1>12, <1>13, <1>14, <1>15 DEF Step, Filter

LEMMA NextInv == IInv /\ [Next]_vars => IInv'
<1> SUFFICES ASSUME IInv, [Next]_vars PROVE IInv'
  OBVIOUS
<1>1. CASE UNCHANGED vars
  <2> USE <1>1 DEF vars, progress, results
  <2>1. TypeOK'
    BY DEF IInv, TypeOK
  <2>2. ASSUME NEW s \in Slots PROVE Progress(s)'
    BY SameProgress DEF IInv, Same
  <2> QED BY <2>1, <2>2 DEF IInv
<1>2. CASE Next
  <2>1. PICK s \in Slots : (\E r \in Arrivals : Arrive(s, r)) \/ Step(s)
    BY <1>2 DEF Next
  <2>2. TypeOK' /\ Progress(s)' /\ Frame(s)
    BY <2>1, SlotKeeps DEF IInv
  <2>3. ASSUME NEW r \in Slots \ {s} PROVE Progress(r)'
    BY <2>2, SameProgress DEF IInv, Frame
  <2> QED BY <2>2, <2>3 DEF IInv
<1> QED BY <1>1, <1>2

LEMMA Invariance == Spec => []IInv
BY InitInv, NextInv, PTL DEF Spec

\* The types of the pipeline's state; the counter never leaves the range of
\* the AtomicU64.
THEOREM TypeCorrect == Spec => []TypeOK
<1>1. IInv => TypeOK
  BY DEF IInv
<1> QED BY <1>1, Invariance, PTL

\* Whatever the authenticators and the API server answer or fail to answer,
\* in whatever order the connections run: a request reaches the upstream only
\* when --ignore-paths exempts it, or when the first authenticator that did not
\* abstain named a user from the connection's certificate, a bearer token or,
\* without a certificate, the client's own x-pingora-client-cert-identity, and
\* every attribute record generated for it was decided for access
\* (pingora_proxy.rs 53-68, 76-135; cert_auth.rs 38-51).
THEOREM ForwardingIsAuthorized == Spec => []OnlyAuthorizedIsForwarded
<1>1. IInv => OnlyAuthorizedIsForwarded
  BY DEF IInv, Progress, OnlyAuthorizedIsForwarded
<1> QED BY <1>1, Invariance, PTL

\* A step moves one slot; the counter goes up when it takes a request out of the
\* filter's first state.
LEMMA CountingStep ==
  ASSUME TypeOK, NEW s \in Slots, (\E r \in Arrivals : Arrive(s, r)) \/ Step(s), Frame(s)
  PROVE  total' = IF \E r \in Slots : EntersFilter(r) THEN (total + 1) % Modulus ELSE total
<1>1. (\E r \in Slots : EntersFilter(r))
        <=> pc[s] = "filter" /\ pc'[s] # "filter" /\ ~Operational(s)
  BY DEF Frame, Same, EntersFilter
<1>2. CASE \E r \in Arrivals : Arrive(s, r)
  BY <1>1, <1>2 DEF Arrive
<1>3. CASE AnswerOperational(s)
  BY <1>1, <1>3 DEF AnswerOperational
<1>4. CASE RefusePath(s) \/ Bypass(s) \/ Authenticate(s) \/ Panic(s)
  <2>1. pc[s] = "filter" /\ ~Operational(s) /\ CountRequest
    BY <1>4 DEF RefusePath, Bypass, Authenticate, Panic, NeedsIdentity
  <2>2. pc'[s] # "filter"
    BY <1>4 DEF RefusePath, Bypass, Authenticate, Panic, Respond, TypeOK
  <2> QED BY <1>1, <2>1, <2>2 DEF CountRequest
<1>5. CASE PassOn(s) \/ AuthnError(s)
           \/ \E user \in Users, as \in BoundedSeq(Attrs, MaxAttrs) \cup {Error} : Vouch(s, user, as)
  BY <1>1, <1>5 DEF PassOn, AuthnError, Vouch, Consult
<1>6. CASE Unauthenticated(s) \/ (\E d \in Decisions : Decide(s, d)) \/ Admit(s)
  BY <1>1, <1>6 DEF Unauthenticated, Decide, Admit
<1>7. CASE Forward(s) \/ ForwardFails(s) \/ Finish(s)
  BY <1>1, <1>7 DEF Forward, ForwardFails, Finish
<1> QED BY <1>2, <1>3, <1>4, <1>5, <1>6, <1>7 DEF Step, Filter

\* requests_total goes up once for every request that is not operational,
\* whatever becomes of it and whatever the other connections do
\* (pingora_proxy.rs 78-94).
THEOREM RequestsAreCountedOnce == Spec => CountedOnce
<1> DEFINE Counts == total' = IF \E s \in Slots : EntersFilter(s) THEN (total + 1) % Modulus
                              ELSE total
<1>1. IInv /\ [Next]_vars => [Counts]_vars
  <2> SUFFICES ASSUME IInv, Next PROVE Counts
    OBVIOUS
  <2>1. PICK s \in Slots : (\E r \in Arrivals : Arrive(s, r)) \/ Step(s)
    BY DEF Next
  <2>2. Frame(s)
    BY <2>1, SlotKeeps DEF IInv
  <2> QED BY <2>1, <2>2, CountingStep DEF IInv
<1> QED BY <1>1, Invariance, PTL DEF Spec, CountedOnce

\* 401, 403, 404 and 500 are sent for the reason they name, and a failing
\* authenticator is never taken for one that abstains (pingora_proxy.rs 95-126).
THEOREM RefusalsAreEarned == Spec => []StatusIsEarned
<1>1. IInv => StatusIsEarned
  <2> SUFFICES ASSUME IInv, NEW s \in Slots PROVE Earned(s)
    BY DEF StatusIsEarned
  <2>1. CASE pc[s] \in {"refused", "broken"}
    BY <2>1 DEF IInv, Progress
  <2>2. CASE pc[s] \notin {"refused", "broken"}
    <3>1. status[s] = 0
      BY <2>2 DEF IInv, TypeOK, PCs, Progress, Unasked, NoVerdictYet, SoFarSoGood
    <3> QED BY <3>1 DEF Earned
  <2> QED BY <2>1, <2>2
<1> QED BY <1>1, Invariance, PTL

\* The identity the upstream is told is the one found for this request - in the
\* connection's certificate, for its bearer token or, without a certificate, in
\* x-pingora-client-cert-identity as the client sent it - on a connection that
\* serves any number of requests of different users.
THEOREM IdentityIsVouched == Spec => []HeadersAreVouched
<1>1. IInv => HeadersAreVouched
  <2> SUFFICES ASSUME IInv, NEW s \in Slots, pc[s] = "forwarded"
               PROVE  IF config.authHeaders /\ Authorized(s)
                        THEN VouchedFor(s, upstream[s])
                        ELSE upstream[s] = request[s].userHeader
    BY DEF HeadersAreVouched
  <2>1. upstream[s] = IF InjectsHeaders(s) THEN identity[s] ELSE request[s].userHeader
    BY DEF IInv, Progress
  <2>2. CASE Authorized(s)
    <3>1. VouchedFor(s, identity[s]) /\ identity[s] # Nobody
      BY <2>2 DEF IInv, Progress, Unasked, Authorized
    <3> QED BY <2>1, <2>2, <3>1 DEF InjectsHeaders
  <2>3. CASE ~Authorized(s)
    <3>1. identity[s] = Nobody
      BY <2>3 DEF IInv, Progress
    <3> QED BY <2>1, <2>3, <3>1 DEF InjectsHeaders
  <2> QED BY <2>2, <2>3
<1> QED BY <1>1, Invariance, PTL
==============================================================================
