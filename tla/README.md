# kube-rbac-proxy (Rust): a formal model

TLA+ modules of the authenticating, authorizing reverse proxy in `src/`, the
TLC configurations that check them on small instances, and machine-checked
proofs of the theorems that should hold for every instance. Paths are relative
to the repository; the Rust code is in `src/src/`, and file names without a
directory (`kube.rs`, `oidc.rs`, ...) are files there.

    tlc -config MCTokenReview.cfg MCTokenReview     # a run: module MC*, cfg of section 4
    tlapm ReviewClientProofs.tla                    # a proof module

## 1. Inventory

A request arrives at a Pingora listener, passes `request_filter`, and is either
answered by the proxy or forwarded to the one upstream. The filter asks a chain
of authenticators who sends the request, generates attribute records from the
configuration, and asks for every record whether the user may do it. Two of
those questions go to the Kubernetes API server, through one shared client with
one rate limiter; a third goes to an OIDC provider. tokio runs the tasks on
several threads; every `.await` is a point where all others make progress.

| Component (source) | State it keeps | Operations | Talks to |
| --- | --- | --- | --- |
| Request pipeline (`pingora_proxy.rs`, `authn.rs`, `cert_auth.rs`) | per request `RequestContext.identity`; shared `requests_total` | `new_ctx`, `request_filter`, `upstream_peer`, `upstream_request_filter`; `AuthenticatorChain::authenticate` | authenticators (await), attribute generation (call), Kubernetes client (await), upstream |
| Path filters (`pingora_proxy.rs` 46) | none | `matches` | - |
| Kubernetes client (`kube.rs`) | `token_cache`, `authz_cache`, each behind its Mutex | `authenticate`/`token_review`, `authorize`, `request_with_retry` | rate limiter (await), API server (await) |
| Rate limiter (`kube.rs` 163) | `rate`: instant and level of the bucket | `acquire` | the clock, tokio timers |
| OIDC authenticator (`oidc.rs`) | `cache`: instant and key set | `authenticate_token`, `jwks` | provider (two awaits) |
| Attribute generation (`authorization.rs`) | none | `attributes`, `endpoint_match`, `static_allows`, `validate_authorization_config` | - |
| Command line and wiring (`main.rs`) | what `main` has built so far: TLS suites, client, chain, resolver, verifier, listeners | `validate`, `main` | everything it calls, in order |
| Configuration file, kubeconfig (`config.rs`, `kube.rs`) | read once at start | `load`, `from_configuration` | file system, environment |
| TLS serving (`tls.rs`, `cert_auth.rs`) | certificate and key on disk, the process's cipher suites | `install_provider`; per handshake `resolve`, `handshake_complete_callback` | file system, rustls |
| `proxy.rs` | - | dead: `lib.rs` does not declare it | - |

### What is hard, and what makes each part correct

* **Request pipeline.** Five early returns and two loops between a request and
  the upstream; `?` (an error) and `if let Some` (an abstention) lie one
  character apart; a connection serves many requests of different users; the name
  of a client certificate travels in a request header, which clients can send too;
  the listeners share one counter. Correct: nothing is forwarded that was not
  exempted or authorized for every record; every refusal has its cause; what the
  upstream is told about the user belongs to this request; each request is
  counted once; each request ends.
* **Kubernetes client.** The cache is read under a lock, the review is awaited
  without it, the answer is stored under the lock again: concurrent misses each
  make a review, replies overtake each other, the cluster changes while a reply
  is on its way. Correct: an answer is the API server's, to this question, and
  not older than an entry may be plus the time a reply travels; three requests at
  most; a failure stores nothing; when the cluster has settled, so does the proxy.
* **Rate limiter.** No queue: sleepers, newcomers and fractions of a token.
  Correct: the API server never sees more than burst plus refill; no token waits
  for a sleeper; requests keep leaving.
* **OIDC authenticator.** A refresh is two requests and is not exclusive; a
  missing key forces another. Correct: the cached set is one the provider
  published, also after refreshes that overtook each other or failed; withdrawn
  keys age out; a new key is seen at once; a token costs at most two refreshes.
* **Attribute generation.** Segment-wise matching of cleaned paths, captures,
  templates filled by one replacement after another, three different treatments of
  a missing rewrite value. Correct: the first endpoint and mapping decide; a value
  that is asked for and missing is an error, and one that is given is what the
  record has.
* **TLS serving.** Certificate and key are two reads, against a writer that
  replaces both, byte by byte if it likes. Correct: a completed handshake used a
  certificate with its key; who connects without a certificate of the client CA
  does not get in, on either port; once the files are stable every handshake uses
  the pair, whatever failed before.
* **Start.** Eight steps that each may end the program, some with an error and
  some with a panic; what is checked at the beginning is relied on at the end
  (`expect("TLS resolver exists for TLS service")`); the certificate
  authenticator is put in the chain long before the verifier it relies on is
  built. Correct: the proxy runs as it was asked to or not at all.
* **Pipeline and cluster together.** Two reviews of one request read two caches
  at different times, while tokens and bindings change. Correct: what was revoked
  long enough before a request arrived does not open the upstream for it.

`PROJECT.json` lists these hazards line by line with the properties that cover
them.

## 2. Modules

| Module | Models | Extends / instantiates |
| --- | --- | --- |
| `ApiServer` | (external) an authority whose answers change, and how long ago each was last right | - |
| `ReviewService` | abstract specification: a review is answered once, by a failure or by a fresh answer to a question with the same cache key | `ApiServer` |
| `ReviewClient` | `authenticate`/`authorize` with cache and `request_with_retry` | `ApiServer`; `ReviewService` by refinement mapping |
| `SubjectAccessReview` | the body and the cache key `authorize` builds from an attribute record | - |
| `RateLimiter` | `acquire` | - |
| `PathFilter` | `matches` | - |
| `RequestPipeline` | `request_filter`, the authenticator chain, the upstream filters | `PathFilter` |
| `OidcKeys` | `authenticate_token` and `jwks` | `ApiServer` (as the provider) |
| `Authorization` | `load`'s validation, `attributes`, `endpoint_match`, the rewrites, `static_allows` | - |
| `AccessControl` | the pipeline with the API server behind it, as `ReviewService` promises it to be, and a cluster that changes | `RequestPipeline`, `ApiServer` twice |
| `Startup` | `main` from the command line to the listeners, with `from_configuration` and `install_provider` | - |
| `Serving` | TLS handshakes of the running proxy, and who replaces its certificate | `Startup` |
| `ReviewClientProofs`, `RateLimiterProofs`, `RequestPipelineProofs`, `AuthorizationProofs`, `OidcKeysProofs`, `AccessControlProofs`, `ServingProofs` | theorems | the module each is named after; `ReviewClientProofs` also `SubjectAccessReview` |
| `PathProofs` | lemmas on cleaning a path and on matching it against a pattern, for `AuthorizationProofs` | `Authorization` |
| `MCTokenReview`, `MCSar`, `MCRateLimiter`, `MCPipeline`, `MCAccess`, `MCOidcKeys`, `MCAuthorization`, `MCServing` | instances for TLC | the module each instantiates |

Definitions named in a comment as *Mutant* are plausible bugs of the definition
below them; no specification uses them. Each is there to show that a property
can fail.

### How state and actions correspond to the code

**ReviewClient.** `pc` is the await a task is at: `lookup` (about to lock the
cache), `acquire` (waiting for the limiter), `sent`, `backoff`, `done`. `Hit`,
`Miss`, `Send`, `Store`, `Backoff`, `Retry`, `GiveUp` are the code between two
awaits. `cached[k]`/`elapsed[k]` are the map entry and the time since its
`Instant`; `elapsed` saturates at `TTL`, from where on the code does not look at
it. TokenReviews and SubjectAccessReviews have the same control, so both callers
are one module with `Questions`, `Body` and `Key` as constants; `MCTokenReview`
puts in tokens (the token is body and key), `MCSar` attribute records with the
bodies and keys of `SubjectAccessReview`. `Evaluate`, `Change` and `Tick` are the
environment.

**RateLimiter.** `tokens`/`since` are the pair behind the Mutex. The code's
`f64` level is an integer number of units: a token is `Unit`, a tick refills `qps`,
which is the command line's, chosen at start from `Rates` and never changed.
Rounding of floating point is not modelled. `Grant`, `Sleep` and
`Unlimited` are the three ways out of the critical section, `Wake` is the timer.

**RequestPipeline.** A slot is a connection or an HTTP/2 stream; `pc` says how
far its request is. `verdicts`, `attrs` and `decisions` record what the
authenticators, `attributes()` and the reviews answered; these answers are
chosen freely, because other components give them. `config` is chosen at start
from the configurations that pass validation. A request has the common name in
its TLS digest (`certificate`, `Nobody` over plaintext or without one) and
`x-pingora-client-cert-identity` as the client sent it (`certHeader`).
`CertHeader` is `request_from_session`: the digest's name replaces the header, and
without a name the header goes on as it came; `OfCertificate` is the certificate
authenticator, which believes it. A name outside ASCII (`Foreign`) is the `expect`
there, `Panic`. `respond_error` can fail with its connection (`broken`). An empty
record set is 403, as the code has it.

**OidcKeys.** `keys`/`elapsed` are the cache. `Miss` is `jwks(false)` finding
nothing usable or lacking the key (then `jwks(true)`); `Discovered` and `Load`
are the arrivals of the two responses; `Load` replaces the cache and either
validates, refreshes once more or abstains. A token is its header's fate
(`invalid`, `unsupported`, `keyless`, `keyed`), its kid, and whether the
`jsonwebtoken` crate accepts it with that key.

**Authorization.** Nearly all of it is operators, one per function of
`authorization.rs`; the variables are the configuration and the request being
answered. `Load` validates once and serves or stops; `Generate` is a call of
`attributes`. A text is a string, a path or pattern is split at its slashes, the
character classes of `{name}` segments are sets (`Braced`, `Enclosed`,
`Captures`), percent-decoding and lower-casing are functions. A text is one
placeholder (`HoleOf` says which) or none: what surrounds a placeholder is left
out. Templates are texts and so are the values of a request, placeholders
included. `Filled` is the chain of `replace` calls, each applied to what the ones
before it left; `EndpointOrder` is their order, in which the captures come as the
`HashMap` has them (`CaptureOrders`: any order, chosen per call). Header names and
parameter names are taken as already normalised.

**AccessControl.** Every action of `RequestPipeline` is there, conjoined with what
the caller of the review client may rely on: a verdict of the Kubernetes
authenticator and a decision of `authorize` are an error or an answer that was
true less than `Stale` ticks ago (`HonestVerdict`, `HonestDecision`); a decision
was true of *some* record with the cache key of the one asked (`OfOneKey`), not
necessarily of that one. That is the promise `ReviewService` makes and
`ReviewClient` keeps, with `Stale` = `TTL` + `Latency`. `Reissue` and `Rebind` are
the cluster: a token expires or is given to somebody else, a role binding comes or
goes. `known[s]` collects what a review may have said since the request arrived.

**Startup.** `phase` is the statement `main` is at, `args` the command line and
what the files it names hold: an option for a file is `Absent`, a usable file or
`Unusable`. One action per step of `main`: `Validate`, `InstallProvider`,
`LoadConfig`, `CreateClient`, `BuildChain`, `BuildProxy`, `BuildTls`, `Listen`;
`failed` is a `?`, `panicked` an `expect`. `InKubeconfig` and `InAccount` are the
lookups of `from_configuration`; the set they give is empty where the code returns
an error. `"reparsed"` stands for an `--upstream` that `url::Url`, which `validate`
uses, accepts and `http::Uri`, which `main` parses it with, refuses.

**Serving.** `disk` is the two files, `Replace` the process that writes them,
`Torn` a file that is being written. `pc` is where a handshake is: `Hello`, then
`Present` (generated certificate) or the two reads of `load`, `ReadCertificate` and
`ReadKey`, then `Complete` with the callback, or `Abort`. A torn certificate file
gives the certificates before the tear or an error, so it may be served with a key
that is not its own; then the client's check of the signature fails
(`ClientAccepts`). Handshakes write nothing they share, so one at a time is
followed: any other handshake is the same one with another history.

## 3. Time and environment

Time is counted in ticks. Ages are kept instead of instants and saturate where
the code stops telling them apart, so runs of any length have finitely many
states and liveness needs no state constraint. `TTL` is 30 s in `ReviewClient`
and 3600 s in `OidcKeys`, in ticks of any length. `Latency` bounds how long a
reply may be on its way: reqwest is built without a timeout, so this is an
assumption about the network, and every freshness property is stated relative
to it. Histories (`sends`, `recent`, `fetches`, `steady`, `lastTrue`, `known`,
`quiet`) are read by no guard; `lastTrue` is, in `AccessControl`, what
bounds the answers of the abstract API server.

## 4. Runs

| Run (cfg) | Instance | Shows |
| --- | --- | --- |
| `token_review` (`MCTokenReview`) | 2 tasks, 2 tokens, 2 answers, TTL 2, Latency 1 | `CacheFaithful`, `OwnAnswer`, `RetryBudget`: the cache and every answer are as fresh as an entry's life and the network allow; the retry loop's budget |
| `token_review_live` (`MCTokenReviewLive`) | 2 tasks, 1 token | `ImplementsService` (the refinement, with fairness), `Convergence` |
| `sar_same_key` (`MCSarNamed`) | 1 task, 2 records that differ in `name` | *violates* `OwnAnswer`: see section 7 |
| `limiter` (`MCRateLimiter`) | 3 callers, token 3 units, 0 (no limit), 2 or 4 refilled a tick, burst 2 | `RateBound`, `NoIdleToken`, `SomeoneProceeds`; `EveryoneProceeds` where there is no limit |
| `pipeline` (`MCPipeline`) | 1 slot, 2 users, 2 records, every configuration, certificates with and without a usable name, the client's own identity headers, counter modulo 3 | `OnlyAuthorizedIsForwarded`, `StatusIsEarned`, `HeadersAreVouched`, `CountedOnce`, `EveryRequestEnds` |
| `certificate_names` (`MCPipelineNames`) | 1 slot, 6 requests, certificate and token authenticator | *violates* `CertificateNamesAreVerified`: section 7 |
| `access` (`MCAccess`) | 1 slot, a user, a token, 3 records of which 2 share a cache key, up to 2 records a request, `Stale` 2, requests to 3 kinds of path, an ignore list | `RevokedIsRefused`, `AccessSettles`: the composition, on a connection that interleaves with the cluster |
| `oidc_keys` (`MCOidcKeys`) | 2 tasks, an RSA key and one that is filtered out, 5 kinds of token, TTL 2, Latency 1 | `KeysFaithful`, `OnlyPublishedKeys`, `RotationIsSeen`, `RefreshBudget` |
| `oidc_live` (`MCOidcLive`) | 2 tasks, 1 key | `EveryTokenEnds`, `WithdrawnKeysFade` |
| `serving` (`MCServing`) | a minimal command line with up to two of its 29 values changed, a full one with up to one; 3 suites, 2 certificates, 2 offers, 4 kinds of client | `RestrictionsHold`, `TlsClientsAreVerified`, `StartedAsAsked`: the start; `ServedFromDisk`, `OnlyTrustedClients`, `ReplacementTakesEffect`: every handshake after it |
| `authorization` (`MCAuthorization`) | paths of up to 3 segments, patterns of up to 2 and some longer, up to 2 values per header and parameter, placeholders among values and captures, 140 configurations | `DecidedByFirstMatch`, `FieldsAreGiven`, `EveryValueIsAsked`, `StaticIsExact` |
| `template_values` (`MCAuthorizationHoles`) | the same | *violates* `NoHoles`: section 7 |

The first run of each state machine also checks its `TypeOK`; every action of
`access` conjoins one of the pipeline, whose types are checked there. No run needs
a state constraint. The runs of `Authorization` and `Serving` turn deadlock checking
off: a configuration or a command line that is refused ends the program.

`DecidedByFirstMatch` and `EveryValueIsAsked` do not use the operators that compute
a match: their reference (`Kept`, `PathFits`) says of each segment of a path whether
it is left, where the code cleans from left to right with a stack, and the deciding
mapping is the one with the method that has none with it before it (`Decides`).

**Why the bounds are enough.** Two tasks suffice for every race of the caches: a
race is between the task that stores and the one that reads or stores after it,
and a third only adds another writer. Two questions distinguish "another
question's answer" from "my own old answer"; two answers distinguish true from
outdated. TTL 2 and Latency 1 make an entry pass through fresh, ageing and
expired, and let a reply be older than the entry it overwrites. The retry loop has
its real bound, 3. A token of 3 units refilled 2 or 4 a tick leaves every fraction
in the bucket; three callers put a sleeper, a second sleeper and a newcomer in the
same tick; `Window` 5 exceeds what burst and refill admit within `Horizon`. Two
attribute records separate "one allowed" from "all allowed". Three path segments
hold a name, a `..` that takes it along and a `..` or name after that; two
endpoints tell the first match from a later one; two values per name tell the
first from all, and an opaque or empty one from none. Modulo 3 no count, one and
two in one step differ, and `requests_total` wraps; each action counts by itself,
so one connection shows what its filter adds, and `RequestsAreCountedOnce` proves
it for any number of them. In `access` one connection suffices, because filters
share nothing but the counter: what other connections do to a cache is in what a
review may answer. `Stale` 2 lets an answer be current, outdated and still given,
and gone; of three records two share a key, so that a decision can be another
record's, and one has a key of its own. Each check of `main` looks at one option
or at two, so the pairs of changed options reach every error, each from a command
line that is otherwise good; the kubeconfigs have a context whose name is there
twice, a user that is not there, and each lookup that fails. Two certificates tell
the old pair, the new pair and both mixtures; three suites leave a version with
one suite and one with two. The theorems of section 6 remove the bounds where they
apply.

## 5. Fairness

* **tokio runs a task that is ready; timers fire; time passes.** Weak fairness of
  `Review(t)`, `Acquire(c)`, `Step(s)`, `AccessStep(s)`, `Authenticate(t)` and
  `Tick`. A tick waits for no task, except that a reply is not held back beyond
  `Latency`.
* **Exchanges end.** Weak fairness of `Evaluate` and `Serve` is a *premise*: the
  code sets no timeout, so only the server or the connection can end one.
* **A handshake goes on or is given up.** Weak fairness of `Handshake` is a premise
  about the peer: the server's part is one synchronous call of `load`.
  `ReplacementTakesEffect` speaks of handshakes that go on.
* **`acquire` returns.** Weak fairness of `Send` assumes it. `SomeoneProceeds`
  shows that while callers compete requests keep leaving; a single caller is
  promised a turn only without competitors or with the limiter off, because
  nothing keeps the order of arrival.
* Nobody has to ask, the cluster and the provider do not have to change, and no
  strong fairness is used. `Convergence`, `AccessSettles`, `WithdrawnKeysFade` and
  `ReplacementTakesEffect` suppose that the answers, the cluster, the published
  keys, or the files stop changing.
* The liveness runs have `Latency` 1: with 0 a reply on the wire stops the clock,
  and a client that always has one out would stop it for good.

## 6. Theorems

All are proved for every value of the constants that satisfies the module's
named assumption.

**ReviewClientProofs.** The inductive invariant `IInv` is `TypeOK`, `Counted`
(the loop variable counts the requests sent), `TruthIsCurrent` (the current
answer is not outdated), `ReplyFaithful` (a reply on the wire is no more outdated
than it has travelled) and `CacheFaithful`. `CacheFaithful` alone is not
inductive: a `Store` makes an entry from a reply, so the reply's age must be
bounded first, and a reply is fresh only because the server's current answer is.
From it: `TypeCorrect`; `CacheIsFaithful`; `RetriesAreBounded`; `AnswersAreOwn`,
under the assumption that questions with the same key have the same body, which
tokens satisfy; and `ClientImplementsServiceSafety`, that every step of the client
is a step or a stutter of `ReviewService`. For attribute records there is
`KeyTellsItsFields`: if user, verb, namespace, group, version and resource have no
`|` of their own, the key is the same just when these and the path are (the
concatenation is regrouped to the right, then each first bar ends a field). What is
true without any condition on keys is `AnswersAreShared` (`SharedAnswer`): an answer
is a fresh one to a question with the key of the one asked. Both together give
`DecisionsAreOfTheKeysFields`: a decision is the API server's about a record that
agrees with the one asked in the fields of the key. That it is about the very record
cannot be proved, because it is not so: section 7.

**RateLimiterProofs.** `TypeCorrect`; `RateIsBounded` from `Budget` (what was
granted since the i-th latest grant, plus what is left, plus what is still to be
refilled, fits the bucket and the refill of that time - `RateBound` forgets the
middle terms and is not inductive); `NoTokenIsIdle` from `Punctual` (a sleeper's
last tick comes before its token: other callers can only delay the token).

**RequestPipelineProofs.** `IInv` is `TypeOK` and, for each slot, `Progress`: what
each place of the filter has established - nothing asked yet, everybody asked
abstained, somebody vouched and the records decided so far are all granted,
exempt or fully authorized, refused for a reason. "Vouched" means that the first
authenticator that did not abstain named the user and had something to go by
(`Evidence`): a bearer token, the name in the TLS digest or, where that has none, the
client's header. An action belongs to one slot
and leaves the others alone, so there is one lemma per action about its own slot
and one frame lemma (`SameProgress`). From it: `TypeCorrect` (the counter stays
in the range of its 64 bits), `ForwardingIsAuthorized`, `RequestsAreCountedOnce`,
`RefusalsAreEarned` and `IdentityIsVouched`, for any number of connections, any
configuration and any number of attribute records.

**AuthorizationProofs.** The invariant `IInv` says that what is served was validated
and that what is answered is what `attributes` returns for the request at hand;
everything else is about what
`attributes` computes, for configurations, paths, patterns and value lists of every
length. From it:

* `TypeCorrect`: an answer is an error or records of the request's user, path and
  texts. `StaticRulesAreExact` (`StaticIsExact`): what validation refuses and what
  `static_allows` compares fit each other.
* `FirstMatchDecides` (`DecidedByFirstMatch`) rests on `MatchedIsPathFits` of
  `PathProofs`: `endpoint_match`, which cleans path and pattern from left to right
  with a stack, matches just when `PathFits` holds, which asks of each segment
  whether a later `..` takes it along. The argument is an invariant of the stack
  (`Stacked`): after any number of segments it holds those that are still
  `Kept` there, in order.
* `GivenValuesAreKept` (`FieldsAreGiven`): where a rule asks for the value of a
  template, `attributes` is an error if it is missing; if it is given and is no
  placeholder, no replacement after it changes it, whatever the order of the captures.
* `ValuesAreAsked` (`EveryValueIsAsked`) counts: the records ask about a value as
  often as header and parameter give it. The lemmas are about the number of
  places of a value in a sequence and in a concatenation.

Where a statement needs induction over the segments or the values, it is over a set
of natural numbers that has a least element, not by the library's induction
theorems, which take an operator. The folds of the module are therefore recursive
functions (`Left`). Assumed are the three named assumptions of `Authorization`:
`AuthorizationAssumption` (what the classes of segments, `Decode` and the texts have
to do with each other), `RecordAssumption` (requests and configurations are records
as serde and `http` make them) and `HoleAssumption` (the holes have different names,
`None` is no text, and neither a verb nor the empty text is a placeholder).

**OidcKeysProofs.** `IInv` is `TypeOK`, `TruthIsCurrent`, `ReplyFaithful` (for each key,
what a key set on the wire says of it was true at most as long ago as the set has
travelled), `KeysFaithful`, `SteadyIsPublished` (a key published throughout an
authentication is in every set sent since it began) and `Counted` (who has
refreshed twice is in the forced refresh). As for the reviews, the cache is
faithful only because replies are, however many overtake each other. From it:
`TypeCorrect`, `KeysAreFaithful`, `OnlyPublishedKeysAreHonoured`, `RotationsAreSeen`,
`RefreshesAreBounded`; the last three are properties of steps.

**AccessControlProofs.** `RevocationIsEffective` (`RevokedIsRefused`), for any
assignment of cache keys: a permission counts as withdrawn when it is withdrawn from
all records of its key. The proof adds to the pipeline's invariant that
everything a review may say now is in `known` (`KnownIsFresh`) and that what was
said so far came from there (`NamedIsKnown`, `AllowedIsKnown`); the upstream is
opened only after every record was decided, which is the pipeline's `Progress`.

**ServingProofs.** `PhaseInv` lists what each phase of `main` has settled for those
after it: accepted options, the suites of the options, a usable configuration,
credentials of one context, a chain that trusts certificates just when a client
CA is given, and resolver and verifier that fit. It gives
`RestrictionsAreInstalled`, `VerificationIsConsistent` and `StartsAreAsAsked`, for
kubeconfigs of any length. `HandshakeInv` adds what a handshake has read
(`ReadIsOnDisk`) and how it may have ended (`EndIsDeserved`); with `PhaseInv` it
gives `TypeCorrect`, `ServedPairIsOnDisk` and `ServedClientsAreTrusted`.

**Only model-checked.** Liveness (`Convergence`, `SomeoneProceeds`,
`EveryoneProceeds`, `EveryRequestEnds`, `AccessSettles`, `EveryTokenEnds`,
`WithdrawnKeysFade`, `ReplacementTakesEffect` and the fairness part of
`ImplementsService`) is beyond the prover. Every invariant and every property of
steps that a passing run checks is proved.

## 7. Findings and observations

**Finding (`sar_same_key`).** `authorize` caches a decision under user, verb,
namespace, group, version, resource and path (`kube.rs` 291-300), but the review
it sends also has the subresource, the object's name and the user's groups
(306-328). Two attribute records that differ only in `name`, for example a
`byQueryParameter` rewrite of `name` with the parameter given twice, share the
entry: the second is answered with the first one's decision. `PLAN.md` 132 asks
for a "SubjectAccessReview authorization for every generated attribute", 141
that "Multiple generated attributes require all checks to allow".

**Finding (`certificate_names`).** `request_from_session` (`pingora_proxy.rs` 53-68)
copies the client's headers and replaces `x-pingora-client-cert-identity` only when
the TLS digest has a name. The certificate authenticator believes the header
(`cert_auth.rs` 38-51), so where the digest has none - over plaintext, or with a
certificate without a common name - it admits the client under the name the client
sent. `cert_auth.rs` 29-30: "The internal header is inserted only from Pingora's TLS
connection digest."; `SECURITY.md` 3-5: "Identity headers supplied by callers are not
trusted." `PLAN.md` 112 asks to "Remove reliance on untrusted identity headers for
authentication". `OnlyAuthorizedIsForwarded` and `HeadersAreVouched` hold because they
count that header among what an authenticator may go by.

The way there: `--client-ca-file` puts the certificate authenticator in the one chain
of the proxy (`main.rs` 224-227), only the TLS listeners verify clients (304-306), and
`--insecure-listen-address` opens a plaintext listener to the same service (315-317).
`TlsClientsAreVerified` says both: every TLS listener verifies its clients, and a
listener in front of that authenticator that verifies nobody is there just when
`--insecure-listen-address` asks for one.

**Finding (`template_values`).** `endpoint_value` (`authorization.rs` 46-61) replaces one
placeholder after another in the text the ones before it left. A header value that
reads `{{.FromQueryString}}` is replaced again, by the empty text when the rule asks
for no query parameter, and the record's field is empty although the request gave the
value; a review reads an empty name as all names. `PLAN.md` 92 asks for "required
rewrite values". `FieldsAreGiven` is what holds: other values are kept. Captures are
replaced in the order of a `HashMap`, so what a decoded segment that reads like another
capture's placeholder becomes may differ between requests.

Observations:

* `PLAN.md` 95 asks for the "status mapping for malformed requests, missing rewrite
  values, and matched-path method denial", 114 to "Match 401/403/400/500 behavior". The
  code never sends 400: where a top-level rewrite finds no value there is no record and
  the answer is 403 (`pingora_proxy.rs` 114-117); a value that an endpoint's rewrite
  misses, or a method that it does not list, is an error of `attributes` and so a 500
  (112-113). `StatusIsEarned` takes these as the code has them.
* Entries of both review caches are overwritten but never removed; the maps
  grow with every token and record seen. No bound exists for a property to state.
* The sleep in `acquire` is computed for one caller; several sleepers wake for
  the same token and all but one sleep again. There is no order of arrival.
* `oidc.rs` 146: when `jwks(false)` has just fetched a set and it lacks the key,
  `jwks(true)` fetches it again at once.
* A common name with characters outside visible ASCII makes `request_from_session`
  panic at its `expect` (`pingora_proxy.rs` 62-65): the connection ends, the request
  was counted (`Panic`).
* Validation of an endpoint asks that a header name of a rewrite is there, not that
  it can be one (`authorization.rs` 260-264): where it cannot, `HeaderMap` never has
  it and every request the endpoint matches is answered with an error. Nor does it
  ask that a literal segment or a method is one a request can have.
* Where `resourceAttributes` has a rewrite (no endpoint), an empty query value
  makes a record with an empty field, which a review reads as "all"; an endpoint
  rule would answer with an error (`EveryValueIsAsked`, `FieldsAreGiven`). A template
  `{{.FromHeader}}` without `byHttpHeader` is replaced by nothing.
* An endpoint rule uses the first value of a header or parameter only, and
  `{{ .Value }}` is the header's where both are configured. The pattern `/{x}`
  matches `/` with an empty capture.
* Endpoints match the cleaned path; the record's `path`, static rules and the
  upstream have it as it came. Static rules look at neither groups
  (`UserRule.groups`) nor API version.
* `examples/static-auth/authorization.yaml` writes `user: alice`, while
  `StaticRule.user` is a map (`config.rs` 49-58): the example does not load.
* ES256 and ES384 are accepted as signing algorithms (`oidc.rs` 70), but the key
  set keeps RSA keys only (123): such tokens always end as "not mine", after two
  refreshes at most.
* `--tls-reload-interval` is parsed (`main.rs`) and never used: files are read at
  every handshake. While they are being replaced the server may present one pair's
  certificate with the other's key; the client then breaks off.
* What is read at start stays: the service account's token and a kubeconfig's
  `tokenFile` are not read again when they are rotated (`kube.rs` 105-130).
* A certificate, key or CA for the upstream that cannot be read is a panic
  (`pingora_proxy.rs` 225-252), every other unusable file an error.
* `--kube-api-qps NaN` passes validation and limits nothing. `--upstream` is
  validated with `url::Url` and parsed with `http::Uri`.
* OIDC options without `--oidc-issuer` are ignored.
* The listener of `--proxy-endpoints-port` is a clone of the proxy: what is neither
  `/healthz` nor `/metrics` is authenticated, authorized and forwarded there too
  (`PLAN.md` 241 speaks of endpoints "isolated from the protected upstream").
* A bearer token that is no JWT makes the OIDC authenticator fail (`oidc.rs` 138)
  rather than abstain, so with OIDC configured an opaque token is a 500 and
  TokenReview is not asked; `StatusIsEarned` takes this as the code has it.

## 8. Plan

Done: every component that keeps state or decides something is modelled, the
pipeline is composed with the review service and the cluster, the handshakes with
the start. What would come next, in this order:

1. `Authorization` inside `AccessControl`, so that the records of a request come
   from its path and configuration; this needs a small set of requests to stay
   within TLC's reach.
2. `AccessControl` over `ReviewClient` itself instead of over its abstract
   specification. Today the two meet in the promise: `ClientImplementsServiceSafety`
   proves that the client keeps it, `AccessControl` assumes it.
3. `AttributesAreDecided`: with both, that a request is forwarded only if the
   records of the first match of its path were each allowed less than
   `TTL` + `Latency` ago - today a conclusion of theorems of three modules.

## 9. Not modelled, and why

* **Signature and claim validation**: the `jsonwebtoken` crate's; one outcome per
  token. **Messages of a TLS handshake, certificate verification**: rustls's and
  Pingora's, reduced to what each side accepts. **Parsing** of flags, YAML, PEM and
  URLs: the outcome is part of `args`.
* **Growth of the caches, an API server that never answers**: nothing in the code
  bounds either (`kube.rs` 25, 371), so there is no property of the code to state.
* **Upstream connections, HTTP/2, streaming**: Pingora's. The model keeps whether
  the upstream was reached and the header it was given.
* **Logging and metrics text, `proxy.rs`, benchmarks, container image, end-to-end
  scripts**: no program state, or not part of the program.
