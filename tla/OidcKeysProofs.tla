---------------------------- MODULE OidcKeysProofs ----------------------------
(***************************************************************************)
(* Theorems about OidcKeys for any number of tasks, tokens and keys and    *)
(* any TTL and Latency.                                                    *)
(***************************************************************************)
EXTENDS OidcKeys, TLAPS

\* A key set on its way is what the provider published when it sent it.
ReplyFaithful ==
  \A t \in Tasks : reply[t] \in KeySets =>
    \A k \in Kids : lastPublished[k][(k \in reply[t])] <= replyAge[t]

\* A key published without interruption is published now, and is in every key
\* set sent since.
SteadyIsPublished ==
  \A t \in Tasks : steady[t] =>
    /\ token[t] # NoToken
    /\ published[token[t].kid]
    /\ reply[t] \in KeySets => token[t].kid \in reply[t]

\* Who has refreshed twice is in the forced refresh or past it.
Counted ==
  \A t \in Tasks :
    /\ pc[t] \in {"idle", "header"} => fetches[t] = 0 /\ ~forced[t]
    /\ pc[t] \in {"discovery", "jwks"} => fetches[t] = 1 \/ (fetches[t] = 2 /\ forced[t])
    /\ fetches[t] <= 2

IInv ==
  /\ TypeOK
  /\ Provider!TruthIsCurrent
  /\ ReplyFaithful
  /\ KeysFaithful
  /\ SteadyIsPublished
  /\ Counted

USE OidcAssumption DEF Enough, KeySets, Headers

LEMMA InitIInv == Init => IInv
<1> SUFFICES ASSUME Init PROVE IInv
  OBVIOUS
<1> USE DEF Init, Provider!ApiInit
<1>1. TypeOK
  BY DEF TypeOK, Provider!ApiTypeOK
<1>2. Provider!TruthIsCurrent
  BY DEF Provider!TruthIsCurrent
<1>3. ReplyFaithful /\ KeysFaithful
  BY DEF ReplyFaithful, KeysFaithful
<1>4. SteadyIsPublished /\ Counted
  BY DEF SteadyIsPublished, Counted
<1> QED BY <1>1, <1>2, <1>3, <1>4 DEF IInv

-----------------------------------------------------------------------------
(* The environment. *)

\* A rotation makes nothing the provider said older.
LEMMA RotateStep ==
  ASSUME TypeOK, Provider!TruthIsCurrent, NEW k \in Kids, Rotate(k)
  PROVE  /\ Provider!ApiTypeOK' /\ Provider!TruthIsCurrent'
         /\ \A j \in Kids, b \in BOOLEAN : lastPublished'[j][b] <= lastPublished[j][b]
         /\ \A j \in Kids : j # k => published'[j] = published[j]
<1> USE DEF Rotate, Provider!Revise, TypeOK, Provider!ApiTypeOK
<1>1. Provider!ApiTypeOK'
  OBVIOUS
<1>2. ASSUME NEW j \in Kids PROVE lastPublished'[j][published'[j]] = 0
  <2>1. CASE j = k
    <3>1. published'[j] = ~published[k] /\ published[k] \in BOOLEAN
      BY <2>1
    <3>2. \A b \in BOOLEAN : b = ~published[k] => lastPublished'[k][b] = 0
      OBVIOUS
    <3> QED BY <2>1, <3>1, <3>2
  <2>2. CASE j # k
    BY <2>2 DEF Provider!TruthIsCurrent
  <2> QED BY <2>1, <2>2
<1>3. ASSUME NEW j \in Kids, NEW b \in BOOLEAN
      PROVE  lastPublished'[j][b] <= lastPublished[j][b]
  <2>1. lastPublished[j][b] \in Nat
    OBVIOUS
  <2>2. CASE j = k /\ b = ~published[k]
    BY <2>1, <2>2
  <2>3. CASE j # k \/ b # ~published[k]
    BY <2>1, <2>3
  <2> QED BY <2>2, <2>3
<1>4. \A j \in Kids : j # k => published'[j] = published[j]
  OBVIOUS
<1> QED BY <1>1, <1>2, <1>3, <1>4 DEF Provider!TruthIsCurrent

\* A tick makes nothing the provider said more than one tick older.
LEMMA AgeStep ==
  ASSUME TypeOK, Provider!TruthIsCurrent, Provider!ApiAge
  PROVE  /\ Provider!ApiTypeOK' /\ Provider!TruthIsCurrent'
         /\ \A j \in Kids, b \in BOOLEAN : lastPublished'[j][b] <= lastPublished[j][b] + 1
<1> USE DEF Provider!ApiAge, Provider!Older, TypeOK, Provider!ApiTypeOK
<1>1. Provider!ApiTypeOK'
  OBVIOUS
<1>2. Provider!TruthIsCurrent'
  BY DEF Provider!TruthIsCurrent
<1>3. \A j \in Kids, b \in BOOLEAN : lastPublished'[j][b] <= lastPublished[j][b] + 1
  OBVIOUS
<1> QED BY <1>1, <1>2, <1>3

-----------------------------------------------------------------------------
(* One lemma per conjunct of IInv: every step preserves it. *)

LEMMA TypeStep == TypeOK /\ Provider!TruthIsCurrent /\ [Next]_vars => TypeOK'
<1> SUFFICES ASSUME TypeOK, Provider!TruthIsCurrent, [Next]_vars PROVE TypeOK'
  OBVIOUS
<1> USE DEF TypeOK, Provider!ApiTypeOK, vars, providerVars, taskVars, wireVars, cacheVars
<1>1. ASSUME NEW t \in Tasks, NEW tok \in Tokens, Begin(t, tok) PROVE TypeOK'
  BY <1>1 DEF Begin
<1>2. ASSUME NEW t \in Tasks, Dismiss(t) PROVE TypeOK'
  BY <1>2 DEF Dismiss, Answer
<1>3. ASSUME NEW t \in Tasks, Hit(t) PROVE TypeOK'
  BY <1>3 DEF Hit, Validate, Answer
<1>4. ASSUME NEW t \in Tasks, Miss(t) PROVE TypeOK'
  <2>1. \A u \in Tasks : fetches[u] < Enough => fetches[u] + 1 \in 0 .. Enough
    OBVIOUS
  <2>2. token[t].header = "keyed"
    BY <1>4 DEF Miss
  <2>3. Usable \in BOOLEAN
    BY DEF Usable
  <2> QED BY <1>4, <2>1, <2>2, <2>3 DEF Miss, Refresh
<1>5. ASSUME NEW t \in Tasks, Discovered(t) PROVE TypeOK'
  BY <1>5 DEF Discovered
<1>6. ASSUME NEW t \in Tasks, DiscoveryFails(t) PROVE TypeOK'
  BY <1>6 DEF DiscoveryFails, Answer
<1>7. ASSUME NEW t \in Tasks, Load(t) PROVE TypeOK'
  <2>1. /\ keys' \in SUBSET Rsa /\ elapsed' = 0
        /\ reply' = [reply EXCEPT ![t] = NoKeys]
        /\ replyAge' = [replyAge EXCEPT ![t] = 0]
        /\ UNCHANGED <<providerVars, token, steady>>
    BY <1>7 DEF Load, StoreKeys, NewKeys, TakeReply
  <2>2. pc[t] = "jwks" /\ token[t].header = "keyed"
    BY <1>7 DEF Load
  <2>3. CASE Answer(t, "identity") /\ UNCHANGED <<forced, fetches>>
    BY <2>1, <2>2, <2>3 DEF Answer
  <2>4. CASE Answer(t, "error") /\ UNCHANGED <<forced, fetches>>
    BY <2>1, <2>2, <2>4 DEF Answer
  <2>5. CASE Answer(t, "none") /\ UNCHANGED <<forced, fetches>>
    BY <2>1, <2>2, <2>5 DEF Answer
  <2>6. CASE Refresh(t, TRUE) /\ UNCHANGED result
    <3>1. \A u \in Tasks : fetches[u] < Enough => fetches[u] + 1 \in 0 .. Enough
      OBVIOUS
    <3> QED BY <2>1, <2>2, <2>6, <3>1 DEF Refresh
  <2> QED BY <1>7, <2>3, <2>4, <2>5, <2>6 DEF Load, Validate
<1>8. ASSUME NEW t \in Tasks, LoadFails(t) PROVE TypeOK'
  BY <1>8 DEF LoadFails, TakeReply, Answer
<1>9. ASSUME NEW t \in Tasks, Return(t) PROVE TypeOK'
  BY <1>9 DEF Return
<1>10. ASSUME NEW t \in Tasks, NEW r \in {Failed} \cup KeySets, Serve(t, r) PROVE TypeOK'
  BY <1>10 DEF Serve
<1>11. ASSUME NEW k \in Kids, Rotate(k) PROVE TypeOK'
  BY <1>11, RotateStep DEF Rotate
<1>12. CASE Tick
  BY <1>12, AgeStep DEF Tick, InFlight, Provider!Older
<1>13. CASE UNCHANGED vars
  BY <1>13
<1> HIDE DEF TypeOK, vars
<1> QED
  BY <1>1, <1>2, <1>3, <1>4, <1>5, <1>6, <1>7, <1>8, <1>9, <1>10, <1>11, <1>12, <1>13
     DEF Next, Authenticate

LEMMA TruthStep ==
  TypeOK /\ Provider!TruthIsCurrent /\ [Next]_vars => Provider!TruthIsCurrent'
<1> SUFFICES ASSUME TypeOK, Provider!TruthIsCurrent, [Next]_vars
             PROVE  Provider!TruthIsCurrent'
  OBVIOUS
<1>1. ASSUME NEW k \in Kids, Rotate(k) PROVE Provider!TruthIsCurrent'
  BY <1>1, RotateStep
<1>2. CASE Tick
  BY <1>2, AgeStep DEF Tick
<1>3. CASE UNCHANGED providerVars
  BY <1>3 DEF Provider!TruthIsCurrent, providerVars
<1> QED
  BY <1>1, <1>2, <1>3 DEF Next, Authenticate, Begin, Dismiss, Hit, Miss, Discovered,
     DiscoveryFails, Serve, Load, LoadFails, Return, vars

\* Membership is one of the two answers an age is kept for.
LEMMA MembershipIsAnAnswer ==
  ASSUME NEW k, NEW S
  PROVE  \E b \in BOOLEAN : \A f : f[(k \in S)] = f[b]
<1>1. (k \in S) \in BOOLEAN
  OBVIOUS
<1> QED BY <1>1, Zenon

\* Only Serve puts a key set on the wire.
LEMMA ReplyStep ==
  TypeOK /\ Provider!TruthIsCurrent /\ ReplyFaithful /\ [Next]_vars => ReplyFaithful'
<1> SUFFICES ASSUME TypeOK, Provider!TruthIsCurrent, ReplyFaithful, [Next]_vars,
                    NEW t \in Tasks, reply'[t] \in KeySets, NEW k \in Kids
             PROVE  lastPublished'[k][(k \in reply'[t])] <= replyAge'[t]
  BY DEF ReplyFaithful
<1> USE DEF TypeOK, Provider!ApiTypeOK
<1> PICK b \in BOOLEAN : \A f : f[(k \in reply[t])] = f[b]
  BY MembershipIsAnAnswer
<1>1. ASSUME NEW u \in Tasks, NEW r \in {Failed} \cup KeySets, Serve(u, r)
      PROVE  lastPublished'[k][(k \in reply'[t])] <= replyAge'[t]
  <2>1. CASE t = u
    <3>1. reply'[t] = {j \in Kids : published[j]} /\ replyAge'[t] = 0
      BY <1>1, <2>1 DEF Serve
    <3>2. (k \in reply'[t]) = published[k]
      BY <3>1
    <3>3. lastPublished'[k][published[k]] = 0
      BY <1>1 DEF Serve, providerVars, Provider!TruthIsCurrent
    <3> QED BY <3>1, <3>2, <3>3
  <2>2. CASE t # u
    BY <1>1, <2>2 DEF Serve, providerVars, ReplyFaithful
  <2> QED BY <2>1, <2>2
<1>2. ASSUME NEW j \in Kids, Rotate(j)
      PROVE  lastPublished'[k][(k \in reply'[t])] <= replyAge'[t]
  <2>1. reply' = reply /\ replyAge' = replyAge
    BY <1>2 DEF Rotate, wireVars
  <2>2. lastPublished[k][b] <= replyAge[t]
    BY <2>1 DEF ReplyFaithful
  <2>3. lastPublished'[k][b] <= lastPublished[k][b]
    BY <1>2, RotateStep
  <2>4. lastPublished[k][b] \in Nat /\ lastPublished'[k][b] \in Nat
    BY <1>2, RotateStep
  <2> QED BY <2>1, <2>2, <2>3, <2>4
<1>3. CASE Tick
  <2>1. reply' = reply /\ replyAge'[t] = replyAge[t] + 1
    BY <1>3 DEF Tick, InFlight
  <2>2. lastPublished[k][b] <= replyAge[t]
    BY <2>1 DEF ReplyFaithful
  <2>3. lastPublished'[k][b] <= lastPublished[k][b] + 1
    BY <1>3, AgeStep DEF Tick
  <2>4. lastPublished[k][b] \in Nat /\ lastPublished'[k][b] \in Nat
    BY <1>3, AgeStep DEF Tick
  <2> QED BY <2>1, <2>2, <2>3, <2>4
<1>4. CASE UNCHANGED <<providerVars, wireVars>>
  BY <1>4 DEF providerVars, wireVars, ReplyFaithful
<1>5. ASSUME NEW u \in Tasks, TakeReply(u), UNCHANGED providerVars
      PROVE  lastPublished'[k][(k \in reply'[t])] <= replyAge'[t]
  <2>1. t # u
    BY <1>5 DEF TakeReply
  <2> QED BY <1>5, <2>1 DEF TakeReply, providerVars, ReplyFaithful
<1> QED
  BY <1>1, <1>2, <1>3, <1>4, <1>5 DEF Next, Authenticate, Begin, Dismiss, Hit, Miss,
     Discovered, DiscoveryFails, Load, LoadFails, Return, vars, taskVars

\* Only Load writes the cache, and what it writes is at most Latency old.
LEMMA KeysStep == IInv /\ [Next]_vars => KeysFaithful'
<1> SUFFICES ASSUME IInv, [Next]_vars, keys' # NoKeys, NEW k \in Rsa
             PROVE  lastPublished'[k][(k \in keys')] <= elapsed' + Latency
  BY DEF KeysFaithful
<1> USE DEF IInv, TypeOK, Provider!ApiTypeOK
<1> PICK b \in BOOLEAN : \A f : f[(k \in keys)] = f[b]
  BY MembershipIsAnAnswer
<1>1. CASE UNCHANGED <<providerVars, cacheVars>>
  BY <1>1 DEF providerVars, cacheVars, KeysFaithful
<1>2. ASSUME NEW t \in Tasks, Load(t)
      PROVE  lastPublished'[k][(k \in keys')] <= elapsed' + Latency
  <2>1. reply[t] \in KeySets /\ keys' = reply[t] \cap Rsa /\ elapsed' = 0
    BY <1>2 DEF Load, StoreKeys, NewKeys
  <2>2. (k \in keys') = (k \in reply[t])
    BY <2>1
  <2>3. lastPublished[k][(k \in reply[t])] <= replyAge[t]
    BY <2>1 DEF ReplyFaithful
  <2>4. lastPublished[k][(k \in reply[t])] \in Nat /\ replyAge[t] \in 0 .. Latency
    <3>1. PICK c \in BOOLEAN : \A f : f[(k \in reply[t])] = f[c]
      BY MembershipIsAnAnswer
    <3> QED BY <3>1
  <2>5. lastPublished' = lastPublished
    BY <1>2 DEF Load, providerVars
  <2> QED BY <2>1, <2>2, <2>3, <2>4, <2>5
<1>3. ASSUME NEW j \in Kids, Rotate(j)
      PROVE  lastPublished'[k][(k \in keys')] <= elapsed' + Latency
  <2>1. keys' = keys /\ elapsed' = elapsed
    BY <1>3 DEF Rotate, cacheVars
  <2>2. lastPublished[k][b] <= elapsed + Latency
    BY <2>1 DEF KeysFaithful
  <2>3. lastPublished'[k][b] <= lastPublished[k][b]
    BY <1>3, RotateStep
  <2>4. lastPublished[k][b] \in Nat /\ lastPublished'[k][b] \in Nat
    BY <1>3, RotateStep
  <2> QED BY <2>1, <2>2, <2>3, <2>4
<1>4. CASE Tick
  <2>1. keys' = keys /\ elapsed' = IF elapsed < TTL THEN elapsed + 1 ELSE TTL
    BY <1>4 DEF Tick, Provider!Older
  <2>2. lastPublished[k][b] <= elapsed + Latency
    BY <2>1 DEF KeysFaithful
  <2>3. lastPublished'[k][b] <= lastPublished[k][b] + 1
    BY <1>4, AgeStep DEF Tick
  <2>4. lastPublished[k][b] \in Nat /\ lastPublished'[k][b] \in 0 .. Stale
    BY <1>4, AgeStep DEF Tick
  <2> QED BY <2>1, <2>2, <2>3, <2>4
<1> QED
  BY <1>1, <1>2, <1>3, <1>4 DEF Next, Authenticate, Begin, Dismiss, Hit, Miss,
     Discovered, DiscoveryFails, Serve, LoadFails, Return, vars

\* steady ends when the key is withdrawn, and a key set sent before that has it.
LEMMA SteadyStep == IInv /\ [Next]_vars => SteadyIsPublished'
<1> SUFFICES ASSUME IInv, [Next]_vars, NEW t \in Tasks, steady'[t]
             PROVE  /\ token'[t] # NoToken
                    /\ published'[token'[t].kid]
                    /\ reply'[t] \in KeySets => token'[t].kid \in reply'[t]
  BY DEF SteadyIsPublished
<1> DEFINE Goal == /\ token'[t] # NoToken
                   /\ published'[token'[t].kid]
                   /\ reply'[t] \in KeySets => token'[t].kid \in reply'[t]
<1> USE DEF IInv, TypeOK, Provider!ApiTypeOK
<1>1. ASSUME NEW u \in Tasks, NEW tok \in Tokens, Begin(u, tok) PROVE Goal
  <2>1. CASE t = u
    <3>1. token'[t] = tok /\ published[tok.kid]
      BY <1>1, <2>1 DEF Begin
    <3>2. reply'[t] = NoKeys
      BY <1>1, <2>1 DEF Begin, wireVars
    <3> QED BY <1>1, <3>1, <3>2 DEF Begin, providerVars
  <2>2. CASE t # u
    BY <1>1, <2>2 DEF Begin, providerVars, wireVars, SteadyIsPublished
  <2> QED BY <2>1, <2>2
<1>2. ASSUME NEW u \in Tasks, NEW r \in {Failed} \cup KeySets, Serve(u, r) PROVE Goal
  <2>1. steady[t] /\ token' = token /\ published' = published
    BY <1>2 DEF Serve, providerVars, taskVars
  <2>2. token[t] \in Tokens /\ token[t].kid \in Kids /\ published[token[t].kid]
    BY <2>1 DEF SteadyIsPublished
  <2>3. CASE t = u
    <3>1. reply'[t] \in {{k \in Kids : published[k]}, Failed}
      BY <1>2, <2>3 DEF Serve
    <3>2. reply'[t] \in KeySets => token[t].kid \in reply'[t]
      BY <2>2, <3>1
    <3> QED BY <2>1, <2>2, <3>2
  <2>4. CASE t # u
    BY <1>2, <2>1, <2>2, <2>4 DEF Serve, SteadyIsPublished
  <2> QED BY <2>3, <2>4
<1>3. ASSUME NEW k \in Kids, Rotate(k) PROVE Goal
  <2>1. steady[t] /\ token[t].kid # k
    BY <1>3 DEF Rotate, SteadyIsPublished
  <2>2. token[t].kid \in Kids
    BY <2>1 DEF SteadyIsPublished
  <2>3. published'[token[t].kid] = published[token[t].kid]
    BY <1>3, <2>1, <2>2, RotateStep
  <2> QED BY <1>3, <2>1, <2>3 DEF Rotate, taskVars, wireVars, SteadyIsPublished
<1>4. ASSUME UNCHANGED <<published, token, steady, reply>> PROVE Goal
  BY <1>4 DEF SteadyIsPublished
<1>5. ASSUME NEW u \in Tasks, TakeReply(u), UNCHANGED <<published, token, steady>>
      PROVE  Goal
  <2>1. token'[t] # NoToken /\ published'[token'[t].kid]
    BY <1>5 DEF SteadyIsPublished
  <2>2. CASE t = u
    BY <1>5, <2>1, <2>2 DEF TakeReply
  <2>3. CASE t # u
    BY <1>5, <2>1, <2>3 DEF TakeReply, SteadyIsPublished
  <2> QED BY <2>2, <2>3
<1>6. ASSUME NEW u \in Tasks, Return(u) PROVE Goal
  BY <1>6 DEF Return, providerVars, wireVars, SteadyIsPublished
<1>7. ASSUME Tick PROVE UNCHANGED <<published, token, steady, reply>>
  BY <1>7 DEF Tick, Provider!ApiAge, taskVars
<1>8. ASSUME NEW u \in Tasks, Load(u) \/ LoadFails(u) PROVE Goal
  BY <1>5, <1>8 DEF Load, LoadFails, providerVars
<1>9. ASSUME NEW u \in Tasks,
             Dismiss(u) \/ Hit(u) \/ Miss(u) \/ Discovered(u) \/ DiscoveryFails(u)
      PROVE  Goal
  BY <1>4, <1>9 DEF Dismiss, Hit, Miss, Discovered, DiscoveryFails, providerVars, wireVars
<1>10. ASSUME UNCHANGED vars PROVE Goal
  BY <1>4, <1>10 DEF vars, providerVars, taskVars, wireVars
<1> HIDE DEF Goal, IInv, TypeOK, Provider!ApiTypeOK
<1>11. Goal
  BY <1>1, <1>2, <1>3, <1>4, <1>6, <1>7, <1>8, <1>9, <1>10 DEF Next, Authenticate
<1> QED BY <1>11 DEF Goal

LEMMA CountedStep == TypeOK /\ Counted /\ [Next]_vars => Counted'
<1> SUFFICES ASSUME TypeOK, Counted, [Next]_vars PROVE Counted'
  OBVIOUS
<1> USE DEF TypeOK, Counted, vars, providerVars, taskVars, wireVars, cacheVars
<1>1. ASSUME NEW t \in Tasks, NEW tok \in Tokens, Begin(t, tok) PROVE Counted'
  BY <1>1 DEF Begin
<1>2. ASSUME NEW t \in Tasks, Dismiss(t) \/ Hit(t) PROVE Counted'
  BY <1>2 DEF Dismiss, Hit, Validate, Answer
<1>3. ASSUME NEW t \in Tasks, Miss(t) PROVE Counted'
  BY <1>3 DEF Miss, Refresh
<1>4. ASSUME NEW t \in Tasks, Discovered(t) \/ DiscoveryFails(t) PROVE Counted'
  BY <1>4 DEF Discovered, DiscoveryFails, Answer
<1>5. ASSUME NEW t \in Tasks, Load(t) PROVE Counted'
  <2>1. pc[t] = "jwks"
    BY <1>5 DEF Load
  <2>2. CASE UNCHANGED <<forced, fetches>> /\ pc' = [pc EXCEPT ![t] = "done"]
    BY <2>1, <2>2
  <2>3. CASE TriesAgain(t) /\ Refresh(t, TRUE)
    BY <2>1, <2>3 DEF TriesAgain, Refresh
  <2> QED BY <1>5, <2>2, <2>3 DEF Load, Validate, Answer
<1>6. ASSUME NEW t \in Tasks, LoadFails(t) PROVE Counted'
  BY <1>6 DEF LoadFails, Answer
<1>7. ASSUME NEW t \in Tasks, Return(t) PROVE Counted'
  BY <1>7 DEF Return
<1>8. CASE UNCHANGED taskVars
  BY <1>8
<1> QED
  BY <1>1, <1>2, <1>3, <1>4, <1>5, <1>6, <1>7, <1>8 DEF Next, Authenticate, Serve, Rotate, Tick

LEMMA IInvStep == IInv /\ [Next]_vars => IInv'
  BY TypeStep, TruthStep, ReplyStep, KeysStep, SteadyStep, CountedStep DEF IInv

-----------------------------------------------------------------------------
(* The theorems. *)

\* The authenticator's state keeps its types: the cache holds RSA keys only,
\* and a reply is only where its task waits for it.
THEOREM TypeCorrect == Spec => []TypeOK
<1>1. IInv => TypeOK
  BY DEF IInv
<1> QED BY <1>1, InitIInv, IInvStep, PTL DEF Spec

\* Whatever refreshes overlap, overtake each other or fail, the cached key set
\* is one the provider published at most Latency before its stamp.
THEOREM KeysAreFaithful == Spec => []KeysFaithful
<1>1. IInv => KeysFaithful
  BY DEF IInv
<1> QED BY <1>1, InitIInv, IInvStep, PTL DEF Spec

\* A task returns from a hit, a dismissal, a reply or a failure.
LEMMA WhoReturns ==
  ASSUME IInv, [Next]_vars, NEW t \in Tasks, NEW r, Returns(t, r)
  PROVE  Dismiss(t) \/ Hit(t) \/ DiscoveryFails(t) \/ Load(t) \/ LoadFails(t)
<1> USE DEF IInv, TypeOK, Returns
<1>1. ASSUME NEW u \in Tasks, Authenticate(u), u # t PROVE FALSE
  BY <1>1 DEF Authenticate, Dismiss, Hit, Miss, Discovered, DiscoveryFails, Load,
     LoadFails, Return, Validate, Answer, Refresh
<1>2. ~Miss(t) /\ ~Discovered(t) /\ ~Return(t)
  BY DEF Miss, Refresh, Discovered, Return
<1>3. Authenticate(t)
  BY <1>1 DEF Next, Begin, Serve, Rotate, Tick, vars, taskVars
<1> QED BY <1>2, <1>3 DEF Authenticate

\* Whatever is withdrawn, fails or is overtaken, an identity is given only for
\* a valid token of an RSA key published less than TTL + Latency ago.
THEOREM OnlyPublishedKeysAreHonoured == Spec => OnlyPublishedKeys
<1> DEFINE Honoured(t) == /\ token[t].header = "keyed" /\ token[t].valid
                          /\ token[t].kid \in Rsa
                          /\ lastPublished[token[t].kid][TRUE] < Stale
<1>1. ASSUME IInv, [Next]_vars, NEW t \in Tasks, Returns(t, "identity") PROVE Honoured(t)
  <2> USE DEF IInv, TypeOK, Provider!ApiTypeOK
  <2> DEFINE Age == lastPublished[token[t].kid][TRUE]
  <2>1. result'[t] = "identity" /\ pc[t] # "done"
    BY <1>1 DEF Returns
  <2>5. ASSUME token[t].kid \in Kids PROVE Age \in Nat
    <3>1. \A k \in Kids, b \in BOOLEAN : lastPublished[k][b] \in Nat
      BY <1>1
    <3> QED BY <2>5, <3>1, Zenon
  <2> HIDE DEF Age
  <2>2. CASE Hit(t)
    <3>1. Usable /\ token[t].kid \in keys /\ token[t].valid /\ token[t].header = "keyed"
      BY <1>1, <2>1, <2>2 DEF Hit, Validate, Answer
    <3>2. keys # NoKeys /\ elapsed < TTL /\ token[t].kid \in Rsa
      BY <1>1, <3>1 DEF Usable
    <3>3. (token[t].kid \in keys) = TRUE
      BY <3>1
    <3>4. lastPublished[token[t].kid][(token[t].kid \in keys)] <= elapsed + Latency
      BY <1>1, <3>2 DEF KeysFaithful
    <3>5. Age <= elapsed + Latency
      BY <3>3, <3>4, Zenon DEF Age
    <3>6. Age \in Nat /\ elapsed \in Nat
      BY <1>1, <2>5, <3>2
    <3>7. Age < Stale
      BY <3>2, <3>5, <3>6
    <3> QED BY <3>1, <3>2, <3>7, Zenon DEF Age
  <2>3. CASE Load(t)
    <3>1. token[t].kid \in reply[t] /\ token[t].kid \in Rsa /\ token[t].valid
      <4>1. pc'[t] = "done"
        BY <1>1 DEF Returns
      <4>2. ~Refresh(t, TRUE) /\ ~Answer(t, "none")
        BY <1>1, <2>1, <4>1 DEF Refresh, Answer
      <4>3. token[t].kid \in NewKeys(t) /\ Validate(t)
        BY <2>3, <4>2 DEF Load
      <4> QED BY <1>1, <2>1, <4>3 DEF NewKeys, Validate, Answer
    <3>2. reply[t] \in KeySets /\ token[t].header = "keyed"
      BY <1>1, <2>3 DEF Load
    <3>3. (token[t].kid \in reply[t]) = TRUE
      BY <3>1
    <3>4. lastPublished[token[t].kid][(token[t].kid \in reply[t])] <= replyAge[t]
      BY <1>1, <3>1, <3>2 DEF ReplyFaithful
    <3>5. Age <= replyAge[t]
      BY <3>3, <3>4, Zenon DEF Age
    <3>6. Age \in Nat /\ replyAge[t] \in 0 .. Latency
      BY <1>1, <2>5, <3>1
    <3>7. Age < Stale
      BY <3>5, <3>6
    <3> QED BY <3>1, <3>2, <3>7, Zenon DEF Age
  <2>4. ~Dismiss(t) /\ ~DiscoveryFails(t) /\ ~LoadFails(t)
    BY <1>1, <2>1 DEF Dismiss, DiscoveryFails, LoadFails, Answer
  <2> QED BY <1>1, <2>2, <2>3, <2>4, WhoReturns
<1>2. IInv /\ [Next]_vars =>
        [\A t \in Tasks : Returns(t, "identity") => Honoured(t)]_vars
  BY <1>1
<1> QED BY <1>2, InitIInv, IInvStep, PTL DEF Spec, OnlyPublishedKeys

\* Whoever replaces the cached set meanwhile, a token whose RSA key is
\* published throughout its authentication is never taken for a foreign one.
THEOREM RotationsAreSeen == Spec => RotationIsSeen
<1>1. ASSUME IInv, [Next]_vars, NEW t \in Tasks, Returns(t, "none"),
             token[t].header = "keyed", token[t].kid \in Rsa
      PROVE  ~steady[t]
  <2> USE <1>1 DEF IInv, TypeOK
  <2>1. result'[t] = "none" /\ pc[t] # "done"
    BY DEF Returns
  <2>2. ~Dismiss(t) /\ ~Hit(t) /\ ~DiscoveryFails(t) /\ ~LoadFails(t)
    BY <2>1 DEF Dismiss, Hit, Validate, DiscoveryFails, LoadFails, Answer
  <2>3. Load(t)
    BY <2>2, WhoReturns
  <2>4. reply[t] \in KeySets /\ token[t].kid \notin reply[t]
    BY <2>1, <2>3 DEF Load, NewKeys, Validate, Answer, Refresh, Returns
  <2> QED BY <2>4 DEF SteadyIsPublished
<1>2. IInv /\ [Next]_vars =>
        [\A t \in Tasks :
           Returns(t, "none") /\ token[t].header = "keyed" /\ token[t].kid \in Rsa
             => ~steady[t]]_vars
  BY <1>1
<1> QED BY <1>2, InitIInv, IInvStep, PTL DEF Spec, RotationIsSeen

\* One token costs at most two refreshes, the second only after one that was
\* not forced; a refresh that fails leaves the cache alone.
THEOREM RefreshesAreBounded == Spec => RefreshBudget
<1> DEFINE Budget(t) ==
      /\ fetches'[t] <= 2
      /\ fetches[t] = 1 /\ fetches'[t] = 2 => ~forced[t] /\ token[t].kid \notin keys'
      /\ reply[t] = Failed /\ reply'[t] = NoKeys =>
           Returns(t, "error") /\ UNCHANGED cacheVars
<1>1. ASSUME IInv, [Next]_vars, NEW t \in Tasks PROVE Budget(t)
  <2> USE <1>1 DEF IInv, TypeOK, vars, taskVars, wireVars
  <2>1. fetches'[t] <= 2
    BY CountedStep DEF Counted
  <2>2. ASSUME fetches[t] = 1, fetches'[t] = 2
        PROVE  ~forced[t] /\ token[t].kid \notin keys'
    <3>1. ~Miss(t)
      BY <2>2 DEF Miss, Counted
    <3>2. Load(t)
      BY <2>2, <3>1 DEF Next, Authenticate, Begin, Dismiss, Hit, Miss, Discovered,
         DiscoveryFails, Load, LoadFails, Return, Validate, Answer, Refresh, Serve,
         Rotate, Tick
    <3>3. fetches' # fetches
      BY <2>2
    <3>4. TriesAgain(t) /\ token[t].kid \notin NewKeys(t)
      BY <3>2, <3>3 DEF Load
    <3> QED BY <3>2, <3>4 DEF Load, TriesAgain, StoreKeys
  <2>3. ASSUME reply[t] = Failed, reply'[t] = NoKeys
        PROVE  Returns(t, "error") /\ UNCHANGED cacheVars
    <3>1. LoadFails(t)
      BY <2>3 DEF Next, Authenticate, Begin, Dismiss, Hit, Miss, Discovered,
         DiscoveryFails, Load, LoadFails, Return, TakeReply, Serve, Rotate, Tick
    <3> QED BY <3>1 DEF LoadFails, Answer, Returns
  <2> QED BY <2>1, <2>2, <2>3
<1>2. IInv /\ [Next]_vars => [\A t \in Tasks : Budget(t)]_vars
  BY <1>1
<1> QED BY <1>2, InitIInv, IInvStep, PTL DEF Spec, RefreshBudget
===============================================================================
