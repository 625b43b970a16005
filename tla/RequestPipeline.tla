--------------------------- MODULE RequestPipeline ---------------------------
(***************************************************************************)
(* The request filter of src/pingora_proxy.rs with the authenticator chain *)
(* of src/authn.rs: from the arrival of a request to its refusal or its    *)
(* forwarding to the upstream.                                             *)
(*                                                                         *)
(* A slot is a connection (or an HTTP/2 stream) that serves one request    *)
(* after another.  Each .await of the filter is a step boundary, at which  *)
(* the other slots run; what an authenticator or the SubjectAccessReview   *)
(* says at such a point is chosen freely here, because it is ReviewClient  *)
(* or the OIDC provider that decides it.  The certificate authenticator    *)
(* reads a header: request_from_session puts the name of the TLS digest in *)
(* it when there is one, and leaves it as the client sent it when not.     *)
(***************************************************************************)
EXTENDS PathFilter

CONSTANTS
  Slots,      \* connections
  Users,      \* identities
  Nobody,     \* no identity
  Blank,      \* the common name ""
  Foreign,    \* a common name with characters outside ASCII
  Attrs,      \* attribute records
  MaxAttrs,   \* most attribute records one request generates
  Paths,      \* request paths other than the operational ones
  Healthz,    \* the path /healthz
  Metrics,    \* the path /metrics
  Configs,    \* command lines and configuration files that pass validation
  NoRequest,  \* an idle slot serves none
  Abstain,    \* Ok(None) of an authenticator
  Error,      \* Err(_) of an authenticator, of attributes() or of a review
  Modulus,    \* 2^64, the range of the AtomicU64
  Arrivals    \* the requests that arrive: a bound on Requests

\* certificate is the common name in the TLS digest, Nobody over plaintext and
\* without a certificate; certHeader is x-pingora-client-cert-identity as the
\* client sent it, Nobody when it did not or it names nobody (empty, opaque).
Requests ==
  [path : Paths \cup {Healthz, Metrics},
   operational : BOOLEAN,           \* arrived at --proxy-endpoints-port
   certificate : Users \cup {Nobody, Blank, Foreign},
   certHeader : Users \cup {Nobody},
   bearer : BOOLEAN,                \* carries an Authorization: Bearer header
   userHeader : Users \cup {Nobody}]   \* x-remote-user as the client sent it

ASSUME PipelineAssumption ==
  /\ {Nobody, Blank, Foreign, Abstain, Error} \cap Users = {}
  /\ Nobody # Blank /\ Nobody # Foreign /\ Blank # Foreign /\ Abstain # Error
  /\ NoRequest \notin Requests /\ Arrivals \subseteq Requests
  /\ MaxAttrs \in Nat
  /\ Modulus \in Nat \ {0}

VARIABLES
  config,     \* chosen at start, never changed
  pc,         \* pc[s]: where slot s is
  request,    \* request[s]: the request s serves
  identity,   \* identity[s]: ctx.identity
  attrs,      \* attrs[s]: what attributes() generated
  verdicts,   \* verdicts[s]: what the authenticators said so far
  decisions,  \* decisions[s]: what was decided on attrs[s] so far
  status,     \* status[s]: the response's status, 0 when there is none
  upstream,   \* upstream[s]: x-remote-user as the upstream receives it
  total       \* requests_total

results == <<status, upstream>>
progress == <<attrs, verdicts, decisions>>
vars == <<config, pc, request, identity, progress, results, total>>

PCs == {"idle", "filter", "authn", "authz", "peer", "refused", "forwarded", "broken"}
Statuses == {0, 200, 401, 403, 404, 500, 502}
Decisions == {"static", "allowed", "denied", Error}

TypeOK ==
  /\ config \in Configs
  /\ pc \in [Slots -> PCs]
  /\ request \in [Slots -> Requests \cup {NoRequest}]
  /\ identity \in [Slots -> Users \cup {Nobody}]
  /\ attrs \in [Slots -> {Error} \cup Seq(Attrs)]
  /\ verdicts \in [Slots -> Seq(Users \cup {Abstain, Error})]
  /\ decisions \in [Slots -> Seq(Decisions)]
  /\ status \in [Slots -> Statuses]
  /\ upstream \in [Slots -> Users \cup {Nobody}]
  /\ total \in 0 .. Modulus - 1

Init ==
  /\ config \in Configs
  /\ pc = [s \in Slots |-> "idle"]
  /\ request = [s \in Slots |-> NoRequest]
  /\ identity = [s \in Slots |-> Nobody]
  /\ attrs = [s \in Slots |-> <<>>]
  /\ verdicts = [s \in Slots |-> <<>>]
  /\ decisions = [s \in Slots |-> <<>>]
  /\ status = [s \in Slots |-> 0]
  /\ upstream = [s \in Slots |-> Nobody]
  /\ total = 0

-----------------------------------------------------------------------------
(* What the configuration says (main.rs 223-247, pingora_proxy.rs 95-101). *)

\* Client certificate, then OIDC, then TokenReview, each when configured.
InOrder(authenticators) ==
  SelectSeq(<<"certificate", "oidc", "kube">>, LAMBDA a : a \in authenticators)

Chain == InOrder(config.authenticators)

KubeClient == "kube" \in config.authenticators

Permitted(path) ==
  config.allow = {} \/ \E pattern \in config.allow : Matches(pattern, path)

Ignored(path) == \E pattern \in config.ignore : Matches(pattern, path)

\* A connection has a certificate only where clients are asked for one.
MayArrive(r) == r.certificate # Nobody => "certificate" \in config.authenticators

\* Mutant: a header of the client's own goes before the certificate's name.
ClientsHeaderFirst(r) == IF r.certHeader = Nobody THEN r.certificate ELSE r.certHeader

\* request_from_session: the name in the digest replaces what the client sent,
\* and without a name the header goes on as it came.
CertHeader(r) == IF r.certificate = Nobody THEN r.certHeader ELSE r.certificate

\* ClientCertificateAuthenticator takes the header for the client's name.
OfCertificate(r) == IF CertHeader(r) \in Users THEN {CertHeader(r)} ELSE {Abstain}

\* What authenticator a may say of request r.  The other two read the bearer
\* token and ask somebody else.
Verdicts(a, r) ==
  CASE a = "certificate" -> OfCertificate(r)
    [] a # "certificate" /\ r.bearer -> Users \cup {Abstain, Error}
    [] OTHER -> {Abstain}

\* static_allows, then client.authorize, then no client at all.
Outcomes(a) ==
  IF a \in config.static THEN {"static"}
  ELSE {"denied"} \cup IF KubeClient THEN {"allowed", Error} ELSE {}

-----------------------------------------------------------------------------
(* The filter. *)

\* new_ctx: the context does not outlive its request.
NewCtx(s) == identity' = [identity EXCEPT ![s] = Nobody]

Arrive(s, r) ==
  /\ pc[s] = "idle"
  /\ MayArrive(r)
  /\ pc' = [pc EXCEPT ![s] = "filter"]
  /\ request' = [request EXCEPT ![s] = r]
  /\ NewCtx(s)
  /\ UNCHANGED <<config, progress, results, total>>

\* respond_error(code).await?: the response is written, or the connection is
\* gone and the filter ends with an error.
Respond(s, code) ==
  /\ \/ /\ pc' = [pc EXCEPT ![s] = "refused"]
        /\ status' = [status EXCEPT ![s] = code]
     \/ /\ pc' = [pc EXCEPT ![s] = "broken"]
        /\ UNCHANGED status
  /\ UNCHANGED upstream

\* Err(_) out of a filter: Pingora answers with code.
Fail(s, code) ==
  /\ pc' = [pc EXCEPT ![s] = "refused"]
  /\ status' = [status EXCEPT ![s] = code]
  /\ UNCHANGED upstream

\* requests_total.fetch_add(1)
CountRequest == total' = (total + 1) % Modulus

Operational(s) == request[s].operational /\ request[s].path \in {Healthz, Metrics}

AnswerOperational(s) ==
  /\ pc[s] = "filter"
  /\ Operational(s)
  /\ Respond(s, 200)
  /\ UNCHANGED <<config, request, identity, progress, total>>

\* Mutant: requests are counted after the path check.
RefusePathUncounted(s) ==
  /\ pc[s] = "filter"
  /\ ~Operational(s)
  /\ ~Permitted(request[s].path)
  /\ Respond(s, 404)
  /\ UNCHANGED <<config, request, identity, progress, total>>

RefusePath(s) ==
  /\ pc[s] = "filter"
  /\ ~Operational(s)
  /\ ~Permitted(request[s].path)
  /\ CountRequest
  /\ Respond(s, 404)
  /\ UNCHANGED <<config, request, identity, progress>>

Bypass(s) ==
  /\ pc[s] = "filter"
  /\ ~Operational(s)
  /\ Permitted(request[s].path)
  /\ Ignored(request[s].path)
  /\ CountRequest
  /\ pc' = [pc EXCEPT ![s] = "peer"]
  /\ UNCHANGED <<config, request, identity, progress, results>>

NeedsIdentity(s) ==
  /\ pc[s] = "filter"
  /\ ~Operational(s)
  /\ Permitted(request[s].path)
  /\ ~Ignored(request[s].path)

Authenticate(s) ==
  /\ NeedsIdentity(s)
  /\ request[s].certificate # Foreign
  /\ CountRequest
  /\ pc' = [pc EXCEPT ![s] = "authn"]
  /\ UNCHANGED <<config, request, identity, progress, results>>

\* expect("certificate identity is valid ASCII"): the task panics and takes its
\* connection along.
Panic(s) ==
  /\ NeedsIdentity(s)
  /\ request[s].certificate = Foreign
  /\ CountRequest
  /\ pc' = [pc EXCEPT ![s] = "broken"]
  /\ UNCHANGED <<config, request, identity, progress, results>>

Consulted(s) == Len(verdicts[s])

\* The next authenticator of the chain returns v.
Consult(s, v) ==
  /\ pc[s] = "authn"
  /\ Consulted(s) < Len(Chain)
  /\ v \in Verdicts(Chain[Consulted(s) + 1], request[s])
  /\ verdicts' = [verdicts EXCEPT ![s] = Append(@, v)]

\* Mutant: the chain asks the same authenticator again.
PassOnToItself(s) ==
  /\ pc[s] = "authn"
  /\ Consulted(s) < Len(Chain)
  /\ Abstain \in Verdicts(Chain[Consulted(s) + 1], request[s])
  /\ UNCHANGED vars

\* Mutant: an authenticator that fails is passed over like one that abstains.
PassOnErrors(s) ==
  /\ Consult(s, Abstain) \/ Consult(s, Error)
  /\ UNCHANGED <<config, pc, request, identity, attrs, decisions, results, total>>

PassOn(s) ==
  /\ Consult(s, Abstain)
  /\ UNCHANGED <<config, pc, request, identity, attrs, decisions, results, total>>

\* `?`: an authenticator that fails is not passed over.
AuthnError(s) ==
  /\ Consult(s, Error)
  /\ Fail(s, 500)
  /\ UNCHANGED <<config, request, identity, attrs, decisions, total>>

\* Mutant: whom nobody knows is told that the request is malformed.
Malformed(s) ==
  /\ pc[s] = "authn"
  /\ Consulted(s) = Len(Chain)
  /\ Respond(s, 400)
  /\ UNCHANGED <<config, request, identity, progress, total>>

Unauthenticated(s) ==
  /\ pc[s] = "authn"
  /\ Consulted(s) = Len(Chain)
  /\ Respond(s, 401)
  /\ UNCHANGED <<config, request, identity, progress, total>>

\* The first identity ends the chain; attributes() generates as from it.
Vouch(s, user, as) ==
  /\ Consult(s, user)
  /\ attrs' = [attrs EXCEPT ![s] = as]
  /\ \/ as = Error /\ Fail(s, 500)
     \/ as = <<>> /\ Respond(s, 403)
     \/ /\ as \notin {Error, <<>>}
        /\ pc' = [pc EXCEPT ![s] = "authz"]
        /\ UNCHANGED results
  /\ UNCHANGED <<config, request, identity, decisions, total>>

Decided(s) == Len(decisions[s])

\* One round of `for attr in &attrs` comes out as d.
Decide(s, d) ==
  /\ pc[s] = "authz"
  /\ Decided(s) < Len(attrs[s])
  /\ d \in Outcomes(attrs[s][Decided(s) + 1])
  /\ decisions' = [decisions EXCEPT ![s] = Append(@, d)]
  /\ \/ d = Error /\ Fail(s, 500)
     \/ d = "denied" /\ Respond(s, 403)
     \/ d \notin {Error, "denied"} /\ UNCHANGED <<pc, results>>
  /\ UNCHANGED <<config, request, identity, attrs, verdicts, total>>

\* Mutant: one allowed attribute record is enough.
AnyDecided(s) == Decided(s) > 0

AllDecided(s) == Decided(s) = Len(attrs[s])

\* ctx.identity = Some(user)
Admit(s) ==
  /\ pc[s] = "authz"
  /\ AllDecided(s)
  /\ identity' = [identity EXCEPT ![s] = Last(verdicts[s])]
  /\ pc' = [pc EXCEPT ![s] = "peer"]
  /\ UNCHANGED <<config, request, progress, results, total>>

-----------------------------------------------------------------------------
(* The upstream side. *)

InjectsHeaders(s) == config.authHeaders /\ identity[s] # Nobody

\* upstream_peer and upstream_request_filter: insert_header replaces what the
\* client sent, and without an identity the request goes on as it came.
Forward(s) ==
  /\ pc[s] = "peer"
  /\ upstream' = [upstream EXCEPT ![s] =
                    IF InjectsHeaders(s) THEN identity[s] ELSE request[s].userHeader]
  /\ pc' = [pc EXCEPT ![s] = "forwarded"]
  /\ UNCHANGED <<config, request, identity, progress, status, total>>

\* No connection to the upstream, or insert_header(..)? refuses a value.
ForwardFails(s) ==
  /\ pc[s] = "peer"
  /\ \/ Fail(s, 502)
     \/ InjectsHeaders(s) /\ Fail(s, 500)
  /\ UNCHANGED <<config, request, identity, progress, total>>

\* The exchange is over; the connection takes the next request.
Finish(s) ==
  /\ pc[s] \in {"refused", "forwarded", "broken"}
  /\ pc' = [pc EXCEPT ![s] = "idle"]
  /\ request' = [request EXCEPT ![s] = NoRequest]
  /\ attrs' = [attrs EXCEPT ![s] = <<>>]
  /\ verdicts' = [verdicts EXCEPT ![s] = <<>>]
  /\ decisions' = [decisions EXCEPT ![s] = <<>>]
  /\ status' = [status EXCEPT ![s] = 0]
  /\ upstream' = [upstream EXCEPT ![s] = Nobody]
  /\ UNCHANGED <<config, identity, total>>

Filter(s) ==
  \/ AnswerOperational(s) \/ RefusePath(s) \/ Bypass(s) \/ Authenticate(s) \/ Panic(s)
  \/ PassOn(s) \/ AuthnError(s) \/ Unauthenticated(s)
  \/ \E user \in Users, as \in BoundedSeq(Attrs, MaxAttrs) \cup {Error} : Vouch(s, user, as)
  \/ \E d \in Decisions : Decide(s, d)
  \/ Admit(s)

Step(s) == Filter(s) \/ Forward(s) \/ ForwardFails(s) \/ Finish(s)

Next == \E s \in Slots : (\E r \in Arrivals : Arrive(s, r)) \/ Step(s)

Spec == Init /\ [][Next]_vars

\* Every await ends (ReviewClient for the reviews; a premise for the rest)
\* and tokio then runs the task.
FairSpec == Spec /\ \A s \in Slots : WF_vars(Step(s))

-----------------------------------------------------------------------------
(* Properties. *)

\* The authenticator that gave the last verdict.
AskedLast(s) == Chain[Len(verdicts[s])]

\* What the last authenticator goes by says user: the name of the connection's
\* certificate, or without one the client's own header, or a bearer token.
Evidence(s, user) ==
  \/ AskedLast(s) # "certificate" /\ request[s].bearer
  \/ AskedLast(s) = "certificate" /\ request[s].certificate = user
  \/ /\ AskedLast(s) = "certificate"
     /\ request[s].certificate = Nobody /\ request[s].certHeader = user

\* The configured authenticators, asked in order, abstained up to the last
\* one asked, and that one named user, having reason to.
VouchedFor(s, user) ==
  /\ verdicts[s] # <<>>
  /\ Last(verdicts[s]) = user
  /\ \A i \in 1 .. Len(verdicts[s]) - 1 : verdicts[s][i] = Abstain
  /\ Evidence(s, user)

\* d is a decision for access to the attribute record a.
Grants(d, a) == d = IF a \in config.static THEN "static" ELSE "allowed"

\* Every attribute record has been decided, every one of them for access.
Authorized(s) ==
  /\ attrs[s] \notin {Error, <<>>}
  /\ Len(decisions[s]) = Len(attrs[s])
  /\ \A i \in 1 .. Len(attrs[s]) : Grants(decisions[s][i], attrs[s][i])

Earned(s) ==
  /\ status[s] = 401 => verdicts[s] = [i \in 1 .. Len(Chain) |-> Abstain]
  /\ status[s] = 403 => /\ \E user \in Users : VouchedFor(s, user)
                        /\ \/ attrs[s] = <<>>
                           \/ decisions[s] # <<>> /\ Last(decisions[s]) = "denied"
  /\ status[s] = 404 => ~Permitted(request[s].path)
  /\ status[s] = 500 => \/ verdicts[s] # <<>> /\ Last(verdicts[s]) = Error
                        \/ attrs[s] = Error
                        \/ decisions[s] # <<>> /\ Last(decisions[s]) = Error
                        \/ config.authHeaders /\ Authorized(s)

\* Nothing reaches the upstream but what --ignore-paths exempts and what the
\* first authenticator that did not abstain named a user for and every
\* generated attribute is allowed for (PLAN.md 113, 141; pingora_proxy.rs
\* 76-135).  What an authenticator goes by is Evidence: for the certificate
\* authenticator that may be a header of the client's own.
OnlyAuthorizedIsForwarded ==
  \A s \in Slots : pc[s] \in {"peer", "forwarded"} =>
    /\ Permitted(request[s].path)
    /\ \/ Ignored(request[s].path) /\ identity[s] = Nobody
       \/ VouchedFor(s, identity[s]) /\ identity[s] \in Users /\ Authorized(s)

\* Each refusal has the cause the code gives it: 401 is sent only when all
\* abstained and none failed, 403 only to a known identity that was denied an
\* attribute or has none, 404 only for a path that is not allowed, 500 only
\* after an error (pingora_proxy.rs 95-126).  These are the causes the code
\* has; PLAN.md 95 and 114 would answer a missing value otherwise.
StatusIsEarned == \A s \in Slots : Earned(s)

\* The upstream is told an identity only after this very request was
\* authorized, and then the one found for it as Evidence says; x-remote-user
\* of the client or an earlier request of the connection never decide it
\* (MIGRATION.md 14-16; pingora_proxy.rs 174-183).
HeadersAreVouched ==
  \A s \in Slots : pc[s] = "forwarded" =>
    IF config.authHeaders /\ Authorized(s)
    THEN VouchedFor(s, upstream[s])
    ELSE upstream[s] = request[s].userHeader

\* What cert_auth.rs 29-30 and SECURITY.md 3-5 say: whom the certificate
\* authenticator admits is whom the connection's TLS digest names.
CertificateNamesAreVerified ==
  \A s \in Slots :
    /\ pc[s] \in {"peer", "forwarded"} /\ identity[s] # Nobody
    /\ AskedLast(s) = "certificate"
    => identity[s] = request[s].certificate

\* The request of s gets past the operational endpoints.
EntersFilter(s) == pc[s] = "filter" /\ pc'[s] # "filter" /\ ~Operational(s)

\* kube_rbac_proxy_requests_total goes up by one for every request on leaving
\* the operational endpoints, the refused and the bypassed ones too, and for
\* nothing else, whatever the other connections do (pingora_proxy.rs 78-94).
CountedOnce ==
  [][total' = IF \E s \in Slots : EntersFilter(s) THEN (total + 1) % Modulus
              ELSE total]_vars

\* Every request is answered, forwarded or dropped with its connection.
EveryRequestEnds == \A s \in Slots : pc[s] = "filter" ~> pc[s] = "idle"

-----------------------------------------------------------------------------
(* The inductive invariant behind the theorems: what each place of the     *)
(* filter has established, for this request and under this configuration.  *)

\* Nobody has been asked anything.
Unasked(s) ==
  /\ verdicts[s] = <<>> /\ attrs[s] = <<>> /\ decisions[s] = <<>>
  /\ status[s] = 0

\* Everybody who was asked abstained.
NoVerdictYet(s) ==
  /\ \A i \in 1 .. Len(verdicts[s]) : verdicts[s][i] = Abstain
  /\ attrs[s] = <<>> /\ decisions[s] = <<>>
  /\ status[s] = 0

\* The first Len(decisions[s]) records are decided, for access.
SoFarSoGood(s) ==
  /\ \E user \in Users : VouchedFor(s, user)
  /\ attrs[s] \notin {Error, <<>>}
  /\ Len(decisions[s]) <= Len(attrs[s])
  /\ \A i \in 1 .. Len(decisions[s]) : Grants(decisions[s][i], attrs[s][i])
  /\ status[s] = 0

\* A slot that is not idle serves a request.
InService(s) == pc[s] # "idle" => request[s] # NoRequest

Progress(s) ==
  /\ InService(s)
  /\ pc[s] \in {"idle", "filter"} => Unasked(s)
  /\ pc[s] \in {"filter", "authn"} => identity[s] = Nobody
  /\ pc[s] \in {"authn", "authz"} =>
       Permitted(request[s].path) /\ ~Ignored(request[s].path)
  /\ pc[s] = "authn" => NoVerdictYet(s)
  /\ pc[s] = "authz" => SoFarSoGood(s)
  /\ pc[s] \in {"peer", "forwarded"} =>
       /\ Permitted(request[s].path)
       /\ \/ Ignored(request[s].path) /\ identity[s] = Nobody /\ Unasked(s)
          \/ /\ VouchedFor(s, identity[s]) /\ identity[s] \in Users
             /\ Authorized(s)
             /\ status[s] = 0
  /\ pc[s] \in {"refused", "broken"} => Earned(s)
  /\ pc[s] = "forwarded" =>
       upstream[s] = IF InjectsHeaders(s) THEN identity[s] ELSE request[s].userHeader

IInv == TypeOK /\ \A s \in Slots : Progress(s)
=============================================================================
