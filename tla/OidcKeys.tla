------------------------------- MODULE OidcKeys -------------------------------
(***************************************************************************)
(* The OIDC authenticator of src/oidc.rs: one cached set of signing keys,  *)
(* read on every bearer token, refreshed from the provider when it is an   *)
(* hour old or when it lacks the token's key.  A refresh is two requests,  *)
(* discovery and key set, with an await after each; tasks do not wait for  *)
(* each other's refresh, and each replaces the cache with what it fetched. *)
(*                                                                         *)
(* A key is what a kid names.  Tokens carry only what the control depends  *)
(* on: how far their header gets, the kid, and whether the rest of the     *)
(* validation (signature, issuer, audience, expiry, username claim, all of *)
(* it the work of the jsonwebtoken crate) succeeds with that key.          *)
(***************************************************************************)
EXTENDS Integers

CONSTANTS
  Tasks,     \* requests being authenticated concurrently
  Kids,      \* key ids
  Rsa,       \* those whose kty is RSA; jwks() drops all others
  Tokens,    \* bearer tokens
  NoToken,   \* a task that authenticates nothing
  NoKeys,    \* the cache before the first refresh; no reply to this task
  Failed,    \* a send error, a status that is not a success, unusable JSON
  TTL,       \* ticks a key set is used for (3600 s)
  Latency,   \* most ticks a key set is on its way from the provider
  Stale      \* ticks after which a withdrawn key counts as long gone

\* What decode_header and the two checks after it make of a token.
Headers == {"invalid", "unsupported", "keyless", "keyed"}

ASSUME OidcAssumption ==
  /\ Rsa \subseteq Kids
  /\ Tokens \subseteq [header : Headers, kid : Kids, valid : BOOLEAN]
  /\ NoToken \notin Tokens
  /\ \A S \in SUBSET Kids : S # NoKeys /\ S # Failed
  /\ NoKeys # Failed
  /\ TTL \in Nat \ {0} /\ Latency \in Nat /\ Stale = TTL + Latency

VARIABLES
  published,      \* published[k]: the provider's key set holds k
  lastPublished,  \* lastPublished[k][b]: ticks since published[k] was last b
  pc,             \* pc[t]: where t is between two awaits
  token,          \* token[t]: the token t authenticates
  forced,         \* forced[t]: the argument of the jwks() t is in
  reply,          \* reply[t]: the key set on its way to t
  replyAge,       \* replyAge[t]: ticks since the provider sent it
  result,         \* result[t]: what authenticate_token returned
  keys,           \* cache: the key set
  elapsed,        \* cache: ticks since it was stored
  fetches,        \* fetches[t]: refreshes begun for this token (history)
  steady          \* steady[t]: the key of t's token has been published
                  \* without interruption since t began (history)

providerVars == <<published, lastPublished>>
taskVars == <<pc, token, forced, result, fetches>>
wireVars == <<reply, replyAge>>
cacheVars == <<keys, elapsed>>
vars == <<providerVars, taskVars, wireVars, cacheVars, steady>>

\* The provider is an authority that says of each kid whether it is a key.
Provider == INSTANCE ApiServer WITH
  Bodies <- Kids, Answers <- BOOLEAN, truth <- published, lastTrue <- lastPublished

KeySets == SUBSET Kids

\* The history counts refreshes up to one more than the code makes.
Enough == 3

TypeOK ==
  /\ Provider!ApiTypeOK
  /\ pc \in [Tasks -> {"idle", "header", "discovery", "jwks", "done"}]
  /\ token \in [Tasks -> Tokens \cup {NoToken}]
  /\ \A t \in Tasks : pc[t] = "idle" <=> token[t] = NoToken
  /\ \A t \in Tasks : pc[t] \in {"discovery", "jwks"} => token[t].header = "keyed"
  /\ forced \in [Tasks -> BOOLEAN]
  /\ reply \in [Tasks -> {NoKeys, Failed} \cup KeySets]
  /\ \A t \in Tasks : pc[t] # "jwks" => reply[t] = NoKeys
  /\ replyAge \in [Tasks -> 0 .. Latency]
  /\ result \in [Tasks -> {"none", "identity", "error"}]
  /\ keys \in {NoKeys} \cup SUBSET Rsa
  /\ elapsed \in 0 .. TTL
  /\ fetches \in [Tasks -> 0 .. Enough]
  /\ steady \in [Tasks -> BOOLEAN]

Init ==
  /\ Provider!ApiInit
  /\ pc = [t \in Tasks |-> "idle"]
  /\ token = [t \in Tasks |-> NoToken]
  /\ forced = [t \in Tasks |-> FALSE]
  /\ reply = [t \in Tasks |-> NoKeys]
  /\ replyAge = [t \in Tasks |-> 0]
  /\ result = [t \in Tasks |-> "none"]
  /\ keys = NoKeys
  /\ elapsed = 0
  /\ fetches = [t \in Tasks |-> 0]
  /\ steady = [t \in Tasks |-> FALSE]

-----------------------------------------------------------------------------
(* authenticate_token. *)

Begin(t, tok) ==
  /\ pc[t] = "idle"
  /\ pc' = [pc EXCEPT ![t] = "header"]
  /\ token' = [token EXCEPT ![t] = tok]
  /\ steady' = [steady EXCEPT ![t] = published[tok.kid]]
  /\ UNCHANGED <<providerVars, forced, result, fetches, wireVars, cacheVars>>

Answer(t, r) ==
  /\ pc' = [pc EXCEPT ![t] = "done"]
  /\ result' = [result EXCEPT ![t] = r]

\* A header that does not decode or names no key is an error; an algorithm
\* that is not configured leaves the token to the next authenticator.
Dismiss(t) ==
  /\ pc[t] = "header"
  /\ token[t].header # "keyed"
  /\ Answer(t, IF token[t].header = "unsupported" THEN "none" ELSE "error")
  /\ UNCHANGED <<providerVars, token, forced, fetches, wireVars, cacheVars, steady>>

\* decode() and the username claim.
Validate(t) == Answer(t, IF token[t].valid THEN "identity" ELSE "error")

\* jwks(force) goes to the provider.
Refresh(t, force) ==
  /\ pc' = [pc EXCEPT ![t] = "discovery"]
  /\ forced' = [forced EXCEPT ![t] = force]
  /\ fetches' = [fetches EXCEPT ![t] = IF @ < Enough THEN @ + 1 ELSE Enough]

\* Mutant: a key set never gets old.
UsableForever == keys # NoKeys

\* at.elapsed() < 3600 s, under the lock
Usable == keys # NoKeys /\ elapsed < TTL

\* Mutant: a usable set that lacks the key decides the token.
HitWithoutKey(t) ==
  /\ pc[t] = "header"
  /\ token[t].header = "keyed"
  /\ Usable
  /\ IF token[t].kid \in keys THEN Validate(t) ELSE Answer(t, "none")
  /\ UNCHANGED <<providerVars, token, forced, fetches, wireVars, cacheVars, steady>>

\* The cached set has the token's key.
Hit(t) ==
  /\ pc[t] = "header"
  /\ token[t].header = "keyed"
  /\ Usable /\ token[t].kid \in keys
  /\ Validate(t)
  /\ UNCHANGED <<providerVars, token, forced, fetches, wireVars, cacheVars, steady>>

\* jwks(false) finds no usable set, or one that lacks the key: jwks(true).
Miss(t) ==
  /\ pc[t] = "header"
  /\ token[t].header = "keyed"
  /\ ~(Usable /\ token[t].kid \in keys)
  /\ Refresh(t, Usable)
  /\ UNCHANGED <<providerVars, token, result, wireVars, cacheVars, steady>>

\* The discovery document has arrived, the key set is asked for.
Discovered(t) ==
  /\ pc[t] = "discovery"
  /\ pc' = [pc EXCEPT ![t] = "jwks"]
  /\ UNCHANGED <<providerVars, token, forced, result, fetches, wireVars, cacheVars, steady>>

DiscoveryFails(t) ==
  /\ pc[t] = "discovery"
  /\ Answer(t, "error")
  /\ UNCHANGED <<providerVars, token, forced, fetches, wireVars, cacheVars, steady>>

\* The provider sends the keys it publishes at that instant, or fails.
Serve(t, r) ==
  /\ pc[t] = "jwks"
  /\ reply[t] = NoKeys
  /\ r \in {{k \in Kids : published[k]}, Failed}
  /\ reply' = [reply EXCEPT ![t] = r]
  /\ replyAge' = [replyAge EXCEPT ![t] = 0]
  /\ UNCHANGED <<providerVars, taskVars, cacheVars, steady>>

TakeReply(t) ==
  /\ reply' = [reply EXCEPT ![t] = NoKeys]
  /\ replyAge' = [replyAge EXCEPT ![t] = 0]

\* Mutant: the filter keeps keys of every type.
AllKeys(t) == reply[t]

\* filter_map: RSA keys that have a kid
NewKeys(t) == reply[t] \cap Rsa

\* Mutant: what was fetched is added to what was there.
AddKeys(t) ==
  /\ keys' = NewKeys(t) \cup (IF keys = NoKeys THEN {} ELSE keys)
  /\ elapsed' = 0

\* *cache = Some((Instant::now(), result))
StoreKeys(t) ==
  /\ keys' = NewKeys(t)
  /\ elapsed' = 0

\* Mutant: a token of an unknown key is looked up again and again.
AlwaysTriesAgain(t) == TRUE

\* contains_key was false after jwks(false): one more refresh, jwks(true).
TriesAgain(t) == ~forced[t]

\* The key set has arrived and replaces the cached one.
Load(t) ==
  /\ pc[t] = "jwks"
  /\ reply[t] \notin {NoKeys, Failed}
  /\ StoreKeys(t)
  /\ TakeReply(t)
  /\ \/ /\ token[t].kid \in NewKeys(t)
        /\ Validate(t)
        /\ UNCHANGED <<forced, fetches>>
     \/ /\ token[t].kid \notin NewKeys(t)
        /\ TriesAgain(t)
        /\ Refresh(t, TRUE)
        /\ UNCHANGED result
     \/ /\ token[t].kid \notin NewKeys(t)
        /\ ~TriesAgain(t)
        /\ Answer(t, "none")
        /\ UNCHANGED <<forced, fetches>>
  /\ UNCHANGED <<providerVars, token, steady>>

\* `?`: the token is not judged, the cache stays as it was.
LoadFails(t) ==
  /\ pc[t] = "jwks"
  /\ reply[t] = Failed
  /\ Answer(t, "error")
  /\ TakeReply(t)
  /\ UNCHANGED <<providerVars, token, forced, fetches, cacheVars, steady>>

\* The chain takes the result; the task can authenticate another token.
Return(t) ==
  /\ pc[t] = "done"
  /\ pc' = [pc EXCEPT ![t] = "idle"]
  /\ token' = [token EXCEPT ![t] = NoToken]
  /\ forced' = [forced EXCEPT ![t] = FALSE]
  /\ result' = [result EXCEPT ![t] = "none"]
  /\ fetches' = [fetches EXCEPT ![t] = 0]
  /\ steady' = [steady EXCEPT ![t] = FALSE]
  /\ UNCHANGED <<providerVars, wireVars, cacheVars>>

Authenticate(t) ==
  \/ Dismiss(t) \/ Hit(t) \/ Miss(t) \/ Discovered(t) \/ DiscoveryFails(t)
  \/ Load(t) \/ LoadFails(t) \/ Return(t)

-----------------------------------------------------------------------------
(* The environment. *)

\* The provider publishes a key or withdraws one.
Rotate(k) ==
  /\ Provider!Revise(k, ~published[k])
  /\ steady' = [t \in Tasks |->
                  steady[t] /\ (token[t] # NoToken => token[t].kid # k)]
  /\ UNCHANGED <<taskVars, wireVars, cacheVars>>

InFlight(t) == reply[t] # NoKeys

Tick ==
  /\ \A t \in Tasks : InFlight(t) => replyAge[t] < Latency
  /\ Provider!ApiAge
  /\ elapsed' = IF keys = NoKeys THEN 0 ELSE Provider!Older(elapsed, TTL)
  /\ replyAge' = [t \in Tasks |-> IF InFlight(t) THEN replyAge[t] + 1 ELSE 0]
  /\ UNCHANGED <<taskVars, reply, keys, steady>>

Next ==
  \/ \E t \in Tasks, tok \in Tokens : Begin(t, tok)
  \/ \E t \in Tasks : Authenticate(t)
  \/ \E t \in Tasks, r \in {Failed} \cup KeySets : Serve(t, r)
  \/ \E k \in Kids : Rotate(k)
  \/ Tick

Spec == Init /\ [][Next]_vars

\* tokio runs a task that is ready; the provider or the connection ends every
\* exchange (a premise: the code sets no timeout); time passes.
Fairness ==
  /\ \A t \in Tasks :
       /\ WF_vars(Authenticate(t))
       /\ WF_vars(\E r \in {Failed} \cup KeySets : Serve(t, r))
  /\ WF_vars(Tick)

FairSpec == Spec /\ Fairness

-----------------------------------------------------------------------------
(* Properties. *)

\* The cached set is one the provider published at most Latency before it was
\* stored, the keys it holds and the RSA keys it lacks alike, also after
\* refreshes that overlapped and overwrote each other out of order, and after
\* refreshes that failed (oidc.rs 95-135).
KeysFaithful ==
  keys # NoKeys => \A k \in Rsa : lastPublished[k][(k \in keys)] <= elapsed + Latency

\* t's authentication ends with r in this step.
Returns(t, r) ==
  /\ pc[t] # "done"
  /\ pc'[t] = "done"
  /\ result'[t] = r

\* An identity is given only for a token that validates with an RSA key the
\* provider published less than TTL + Latency ago: how long a withdrawn key
\* goes on being honoured is bounded, whatever refreshes fail or overtake.
OnlyPublishedKeys ==
  [][\A t \in Tasks : Returns(t, "identity") =>
       /\ token[t].header = "keyed" /\ token[t].valid
       /\ token[t].kid \in Rsa
       /\ lastPublished[token[t].kid][TRUE] < Stale]_vars

\* A key rotation is never mistaken for a foreign token (PLAN.md 154, 161): a
\* token whose RSA key was there from the start of its authentication to the
\* end is not passed to the next authenticator, however old the cached set is
\* and whoever replaces it meanwhile.
RotationIsSeen ==
  [][\A t \in Tasks :
       Returns(t, "none") /\ token[t].header = "keyed" /\ token[t].kid \in Rsa
         => ~steady[t]]_vars

\* One token costs the provider at most two refreshes, the second only after a
\* first that was not forced did not find its key either; a refresh that fails
\* ends the authentication with an error and leaves the cache alone.
RefreshBudget ==
  [][\A t \in Tasks :
       /\ fetches'[t] <= 2
       /\ fetches[t] = 1 /\ fetches'[t] = 2 => ~forced[t] /\ token[t].kid \notin keys'
       /\ reply[t] = Failed /\ reply'[t] = NoKeys =>
            Returns(t, "error") /\ UNCHANGED cacheVars]_vars

\* Every authentication ends, however often the key is missing.
EveryTokenEnds == \A t \in Tasks : pc[t] = "header" ~> pc[t] = "idle"

\* Once the provider stops rotating, from some point on no token of a key it
\* withdrew is accepted.
WithdrawnKeysFade ==
  <>[][UNCHANGED published]_vars =>
    <>[][\A t \in Tasks : Returns(t, "identity") => published[token[t].kid]]_vars
===============================================================================
