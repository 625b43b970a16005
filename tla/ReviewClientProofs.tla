-------------------------- MODULE ReviewClientProofs --------------------------
(***************************************************************************)
(* Theorems about ReviewClient for any number of tasks, questions, keys    *)
(* and answers, and any TTL and Latency; and about it with the questions,  *)
(* bodies and keys of SubjectAccessReview.                                 *)
(***************************************************************************)
EXTENDS ReviewClient, SubjectAccessReview, SequenceTheorems, TLAPS

(* What the cache key of an attribute record tells. *)

\* Two texts with a bar between them.
Joined(s, t) == s \o <<Bar>> \o t

LEMMA JoinedType ==
  ASSUME NEW T, Bar \in T, NEW s \in Seq(T), NEW t \in Seq(T)
  PROVE  Joined(s, t) \in Seq(T)
  BY DEF Joined

LEMMA JoinedRegroups ==
  ASSUME NEW T, Bar \in T, NEW s \in Seq(T), NEW t \in Seq(T), NEW u \in Seq(T)
  PROVE  Joined(Joined(s, t), u) = Joined(s, Joined(t, u))
<1>1. <<Bar>> \in Seq(T)
  OBVIOUS
<1>2. ASSUME NEW B \in Seq(T) PROVE ((s \o B \o t) \o B) \o u = s \o B \o (t \o B \o u)
  <2>1. s \o B \in Seq(T) /\ t \o B \in Seq(T)
    OBVIOUS
  <2>2. ((s \o B) \o t) \o B = (s \o B) \o (t \o B)
    <3>1. ASSUME NEW x \in Seq(T) PROVE (x \o t) \o B = x \o (t \o B)
      OBVIOUS
    <3> QED
      BY <2>1, <3>1
  <2>3. ((s \o B) \o (t \o B)) \o u = (s \o B) \o ((t \o B) \o u)
    <3>1. ASSUME NEW x \in Seq(T), NEW y \in Seq(T) PROVE (x \o y) \o u = x \o (y \o u)
      OBVIOUS
    <3> QED
      BY <2>1, <3>1
  <2> QED
    BY <2>2, <2>3
<1> QED
  BY <1>1, <1>2 DEF Joined

LEMMA JoinedPlaces ==
  ASSUME NEW T, Bar \in T, NEW s \in Seq(T), NEW t \in Seq(T)
  PROVE  /\ Len(Joined(s, t)) = Len(s) + 1 + Len(t) /\ Joined(s, t)[Len(s) + 1] = Bar
         /\ \A i \in 1 .. Len(s) : Joined(s, t)[i] = s[i]
         /\ \A i \in 1 .. Len(t) : Joined(s, t)[Len(s) + 1 + i] = t[i]
  BY DEF Joined

\* The first bar ends the first text, if that has none of its own.
LEMMA JoinedTells ==
  ASSUME NEW T, Bar \in T,
         NEW s \in Seq(T \ {Bar}), NEW u \in Seq(T \ {Bar}), NEW t \in Seq(T), NEW v \in Seq(T)
  PROVE  Joined(s, t) = Joined(u, v) => s = u /\ t = v
<1> DEFINE l == Len(s)
           m == Len(u)
           w == Joined(s, t)
           z == Joined(u, v)
<1>1. s \in Seq(T) /\ u \in Seq(T)
  <2>1. T \ {Bar} \subseteq T
    OBVIOUS
  <2> QED
    BY <2>1, SeqMonotonic
<1>2. l \in Nat /\ m \in Nat /\ Len(t) \in Nat /\ Len(v) \in Nat
  OBVIOUS
<1>3. /\ Len(w) = l + 1 + Len(t) /\ w[l + 1] = Bar
      /\ \A i \in 1 .. l : w[i] = s[i]
      /\ \A i \in 1 .. Len(t) : w[l + 1 + i] = t[i]
  BY <1>1, JoinedPlaces, SMTT(30)
<1>4. /\ Len(z) = m + 1 + Len(v) /\ z[m + 1] = Bar
      /\ \A i \in 1 .. m : z[i] = u[i]
      /\ \A i \in 1 .. Len(v) : z[m + 1 + i] = v[i]
  BY <1>1, JoinedPlaces, SMTT(30)
<1>5. (\A i \in 1 .. l : s[i] # Bar) /\ (\A i \in 1 .. m : u[i] # Bar)
  OBVIOUS
<1> HIDE DEF l, m, w, z
<1> SUFFICES ASSUME w = z PROVE s = u /\ t = v
  BY DEF w, z
<1>6. l = m
  <2>1. ASSUME l < m PROVE FALSE
    <3>1. l + 1 \in 1 .. m
      BY <1>2, <2>1
    <3> QED
      BY <1>3, <1>4, <1>5, <3>1
  <2>2. ASSUME m < l PROVE FALSE
    <3>1. m + 1 \in 1 .. l
      BY <1>2, <2>2
    <3> QED
      BY <1>3, <1>4, <1>5, <3>1
  <2> QED
    BY <1>2, <2>1, <2>2
<1>7. s = u
  <2>1. \A i \in 1 .. l : s[i] = u[i]
    BY <1>3, <1>4, <1>6
  <2> QED
    BY <1>1, <1>6, <2>1, SeqEqual DEF l, m
<1>8. t = v
  <2>1. Len(t) = Len(v)
    BY <1>2, <1>3, <1>4, <1>6
  <2>2. \A i \in 1 .. Len(t) : t[i] = v[i]
    BY <1>3, <1>4, <1>6, <2>1
  <2> QED
    BY <2>1, <2>2, SeqEqual
<1> QED
  BY <1>7, <1>8

\* The fields that make the key.
KeyFields(attr) ==
  <<attr.user.name, attr.verb, attr.namespace, attr.api_group, attr.api_version, attr.resource, attr.path>>

\* All but the last have no bar.
BarFree(attr, Symbols) ==
  \A i \in 1 .. 6 : KeyFields(attr)[i] \in Seq(Symbols \ {Bar})

LEMMA KeyIsJoined ==
  ASSUME NEW T, Bar \in T, NEW attr, \A i \in 1 .. 7 : KeyFields(attr)[i] \in Seq(T)
  PROVE  LET f == KeyFields(attr)
         IN AuthzKey(attr)
              = Joined(f[1], Joined(f[2], Joined(f[3], Joined(f[4], Joined(f[5], Joined(f[6], f[7]))))))
<1> DEFINE f1 == attr.user.name
           f2 == attr.verb
           f3 == attr.namespace
           f4 == attr.api_group
           f5 == attr.api_version
           f6 == attr.resource
           f7 == attr.path
<1>1. /\ f1 \in Seq(T) /\ f2 \in Seq(T) /\ f3 \in Seq(T) /\ f4 \in Seq(T)
      /\ f5 \in Seq(T) /\ f6 \in Seq(T) /\ f7 \in Seq(T)
  BY DEF KeyFields
<1>2. AuthzKey(attr) = Joined(Joined(Joined(Joined(Joined(Joined(f1, f2), f3), f4), f5), f6), f7)
  BY DEF AuthzKey, Joined
<1> HIDE DEF f1, f2, f3, f4, f5, f6, f7
<1> DEFINE a2 == Joined(f1, f2)
           a3 == Joined(a2, f3)
           a4 == Joined(a3, f4)
           a5 == Joined(a4, f5)
           b6 == Joined(f6, f7)
           b5 == Joined(f5, b6)
           b4 == Joined(f4, b5)
           b3 == Joined(f3, b4)
<1>3. a2 \in Seq(T) /\ b6 \in Seq(T)
  BY <1>1, JoinedType
<1>4. a3 \in Seq(T) /\ b5 \in Seq(T)
  BY <1>1, <1>3, JoinedType
<1>5. a4 \in Seq(T) /\ b4 \in Seq(T)
  BY <1>1, <1>4, JoinedType
<1>6. a5 \in Seq(T) /\ b3 \in Seq(T)
  BY <1>1, <1>5, JoinedType
<1>7. Joined(Joined(a5, f6), f7) = Joined(a5, b6)
  BY <1>1, <1>6, JoinedRegroups
<1>8. Joined(a5, b6) = Joined(a4, b5)
  BY <1>1, <1>3, <1>5, JoinedRegroups
<1>9. Joined(a4, b5) = Joined(a3, b4)
  BY <1>1, <1>4, JoinedRegroups
<1>10. Joined(a3, b4) = Joined(a2, b3)
  BY <1>1, <1>3, <1>5, JoinedRegroups
<1>11. Joined(a2, b3) = Joined(f1, Joined(f2, b3))
  BY <1>1, <1>6, JoinedRegroups
<1>12. AuthzKey(attr) = Joined(f1, Joined(f2, b3))
  BY <1>2, <1>7, <1>8, <1>9, <1>10, <1>11
<1> QED
  BY <1>12 DEF KeyFields, f1, f2, f3, f4, f5, f6, f7

\* Of records without a bar in these fields the key tells user, verb,
\* namespace, group, version, resource and path, and nothing else.
THEOREM KeyTellsItsFields ==
  ASSUME NEW Symbols, Bar \in Symbols,
         NEW a \in Attributes(Seq(Symbols)), NEW b \in Attributes(Seq(Symbols)),
         BarFree(a, Symbols), BarFree(b, Symbols)
  PROVE  AuthzKey(a) = AuthzKey(b) <=> KeyFields(a) = KeyFields(b)
<1> DEFINE f == KeyFields(a)
           g == KeyFields(b)
           P == Seq(Symbols \ {Bar})
<1>1. P \subseteq Seq(Symbols)
  <2>1. Symbols \ {Bar} \subseteq Symbols
    OBVIOUS
  <2> QED
    BY <2>1, SeqMonotonic
<1>2. a.path \in Seq(Symbols) /\ b.path \in Seq(Symbols)
  BY DEF Attributes
<1>3. f[7] \in Seq(Symbols) /\ g[7] \in Seq(Symbols)
  BY <1>2 DEF KeyFields
<1>4. \A i \in 1 .. 6 : f[i] \in P /\ g[i] \in P
  BY DEF BarFree
<1>5. \A i \in 1 .. 7 : f[i] \in Seq(Symbols) /\ g[i] \in Seq(Symbols)
  <2> HIDE DEF f, g, P
  <2> SUFFICES ASSUME NEW i \in 1 .. 7
               PROVE  f[i] \in Seq(Symbols) /\ g[i] \in Seq(Symbols)
    OBVIOUS
  <2>1. CASE i \in 1 .. 6
    BY <1>1, <1>4, <2>1
  <2>2. CASE i = 7
    BY <1>3, <2>2
  <2> QED
    BY <2>1, <2>2
<1>6. ASSUME AuthzKey(a) = AuthzKey(b) PROVE f = g
  <2> DEFINE x6 == Joined(f[6], f[7])
             x5 == Joined(f[5], x6)
             x4 == Joined(f[4], x5)
             x3 == Joined(f[3], x4)
             x2 == Joined(f[2], x3)
             y6 == Joined(g[6], g[7])
             y5 == Joined(g[5], y6)
             y4 == Joined(g[4], y5)
             y3 == Joined(g[3], y4)
             y2 == Joined(g[2], y3)
  <2>1. AuthzKey(a) = Joined(f[1], x2) /\ AuthzKey(b) = Joined(g[1], y2)
    <3>1. \A i \in 1 .. 7 : KeyFields(a)[i] \in Seq(Symbols)
      BY <1>5
    <3>2. \A i \in 1 .. 7 : KeyFields(b)[i] \in Seq(Symbols)
      BY <1>5
    <3>3. AuthzKey(a) = Joined(f[1], x2)
      BY <3>1, KeyIsJoined
    <3>4. AuthzKey(b) = Joined(g[1], y2)
      BY <3>2, KeyIsJoined
    <3> QED
      BY <3>3, <3>4
  <2>2. f[1] = a.user.name /\ g[1] = b.user.name
    BY DEF KeyFields
  <2> HIDE DEF f, g
  <2> HIDE DEF x2, x3, x4, x5, x6, y2, y3, y4, y5, y6
  <2>3. x6 \in Seq(Symbols) /\ y6 \in Seq(Symbols)
    <3>1. f[6] \in Seq(Symbols) /\ g[6] \in Seq(Symbols)
      BY <1>5
    <3> QED
      BY <1>3, <3>1, JoinedType DEF x6, y6
  <2>4. x5 \in Seq(Symbols) /\ y5 \in Seq(Symbols)
    <3>1. f[5] \in Seq(Symbols) /\ g[5] \in Seq(Symbols)
      BY <1>5
    <3> QED
      BY <2>3, <3>1, JoinedType DEF x5, y5
  <2>5. x4 \in Seq(Symbols) /\ y4 \in Seq(Symbols)
    <3>1. f[4] \in Seq(Symbols) /\ g[4] \in Seq(Symbols)
      BY <1>5
    <3> QED
      BY <2>4, <3>1, JoinedType DEF x4, y4
  <2>6. x3 \in Seq(Symbols) /\ y3 \in Seq(Symbols)
    <3>1. f[3] \in Seq(Symbols) /\ g[3] \in Seq(Symbols)
      BY <1>5
    <3> QED
      BY <2>5, <3>1, JoinedType DEF x3, y3
  <2>7. x2 \in Seq(Symbols) /\ y2 \in Seq(Symbols)
    <3>1. f[2] \in Seq(Symbols) /\ g[2] \in Seq(Symbols)
      BY <1>5
    <3> QED
      BY <2>6, <3>1, JoinedType DEF x2, y2
  <2>8. f[1] = g[1] /\ x2 = y2
    <3>1. f[1] \in P /\ g[1] \in P
      BY <1>4
    <3>2. Joined(f[1], x2) = Joined(g[1], y2)
      BY <1>6, <2>1
    <3> QED
      BY <2>7, <3>1, <3>2, JoinedTells
  <2>9. f[2] = g[2] /\ x3 = y3
    <3>1. f[2] \in P /\ g[2] \in P
      BY <1>4
    <3>2. Joined(f[2], x3) = Joined(g[2], y3)
      BY <2>8 DEF x2, y2
    <3> QED
      BY <2>6, <3>1, <3>2, JoinedTells
  <2>10. f[3] = g[3] /\ x4 = y4
    <3>1. f[3] \in P /\ g[3] \in P
      BY <1>4
    <3>2. Joined(f[3], x4) = Joined(g[3], y4)
      BY <2>9 DEF x3, y3
    <3> QED
      BY <2>5, <3>1, <3>2, JoinedTells
  <2>11. f[4] = g[4] /\ x5 = y5
    <3>1. f[4] \in P /\ g[4] \in P
      BY <1>4
    <3>2. Joined(f[4], x5) = Joined(g[4], y5)
      BY <2>10 DEF x4, y4
    <3> QED
      BY <2>4, <3>1, <3>2, JoinedTells
  <2>12. f[5] = g[5] /\ x6 = y6
    <3>1. f[5] \in P /\ g[5] \in P
      BY <1>4
    <3>2. Joined(f[5], x6) = Joined(g[5], y6)
      BY <2>11 DEF x5, y5
    <3> QED
      BY <2>3, <3>1, <3>2, JoinedTells
  <2>13. f[6] = g[6] /\ f[7] = g[7]
    <3>1. f[6] \in P /\ g[6] \in P
      BY <1>4
    <3>2. Joined(f[6], f[7]) = Joined(g[6], g[7])
      BY <2>12 DEF x6, y6
    <3> QED
      BY <1>3, <3>1, <3>2, JoinedTells
  <2> QED
    BY <2>8, <2>9, <2>10, <2>11, <2>12, <2>13 DEF f, g, KeyFields
<1>7. ASSUME f = g PROVE AuthzKey(a) = AuthzKey(b)
  <2>1. /\ a.user.name = b.user.name /\ a.verb = b.verb /\ a.namespace = b.namespace
        /\ a.api_group = b.api_group /\ a.api_version = b.api_version
        /\ a.resource = b.resource /\ a.path = b.path
    BY <1>7 DEF KeyFields
  <2> QED
    BY <2>1 DEF AuthzKey
<1> QED
  BY <1>6, <1>7

-----------------------------------------------------------------------------
USE StaleAssumption, ClientAssumption DEF LastAttempt, Replies

LEMMA InitIInv == Init => IInv
<1> SUFFICES ASSUME Init PROVE IInv
  OBVIOUS
<1> USE DEF Init, ApiInit
<1>1. TypeOK
  BY DEF TypeOK, ApiTypeOK
<1>2. Counted
  BY DEF Counted
<1>3. TruthIsCurrent
  BY DEF TruthIsCurrent
<1>4. ReplyFaithful
  BY DEF ReplyFaithful
<1>5. CacheFaithful
  BY DEF CacheFaithful
<1> QED BY <1>1, <1>2, <1>3, <1>4, <1>5 DEF IInv

-----------------------------------------------------------------------------
(* The environment. *)

\* A change of the cluster makes no answer older.
LEMMA ReviseStep ==
  ASSUME TypeOK, TruthIsCurrent, Change
  PROVE  /\ ApiTypeOK' /\ TruthIsCurrent'
         /\ \A b \in Bodies, a \in Answers : lastTrue'[b][a] <= lastTrue[b][a]
<1> PICK b \in Bodies, a \in Answers : Revise(b, a)
  BY DEF Change
<1> USE DEF Revise, TypeOK, ApiTypeOK
<1>1. ApiTypeOK'
  OBVIOUS
<1>2. TruthIsCurrent'
  BY DEF TruthIsCurrent
<1>3. \A c \in Bodies, d \in Answers : lastTrue'[c][d] <= lastTrue[c][d]
  OBVIOUS
<1> QED BY <1>1, <1>2, <1>3

\* A tick makes no answer more than one tick older.
LEMMA AgeStep ==
  ASSUME TypeOK, TruthIsCurrent, ApiAge
  PROVE  /\ ApiTypeOK' /\ TruthIsCurrent'
         /\ \A b \in Bodies, a \in Answers : lastTrue'[b][a] <= lastTrue[b][a] + 1
<1> USE DEF ApiAge, Older, TypeOK, ApiTypeOK
<1>1. ApiTypeOK'
  OBVIOUS
<1>2. TruthIsCurrent'
  BY DEF TruthIsCurrent
<1>3. \A c \in Bodies, d \in Answers : lastTrue'[c][d] <= lastTrue[c][d] + 1
  OBVIOUS
<1> QED BY <1>1, <1>2, <1>3

-----------------------------------------------------------------------------
(* One lemma per conjunct of IInv: every step preserves it. *)

LEMMA TypeStep == TypeOK /\ Counted /\ TruthIsCurrent /\ [Next]_vars => TypeOK'
<1> SUFFICES ASSUME TypeOK, Counted, TruthIsCurrent, [Next]_vars PROVE TypeOK'
  OBVIOUS
<1> USE DEF TypeOK, ApiTypeOK, vars, apiVars, taskVars, wireVars, cacheVars
<1>1. ASSUME NEW t \in Tasks, NEW q \in Questions, Ask(t, q) PROVE TypeOK'
  BY <1>1 DEF Ask
<1>2. ASSUME NEW t \in Tasks, Hit(t) PROVE TypeOK'
  BY <1>2 DEF Hit, Usable
<1>3. ASSUME NEW t \in Tasks, Miss(t) PROVE TypeOK'
  BY <1>3 DEF Miss
<1>4. ASSUME NEW t \in Tasks, Send(t) PROVE TypeOK'
  BY <1>4 DEF Send
<1>5. ASSUME NEW t \in Tasks, NEW r \in Replies, Evaluate(t, r) PROVE TypeOK'
  BY <1>5 DEF Evaluate
<1>6. ASSUME NEW t \in Tasks, Store(t) PROVE TypeOK'
  BY <1>6 DEF Store, TakeReply
<1>7. ASSUME NEW t \in Tasks, Backoff(t) PROVE TypeOK'
  BY <1>7 DEF Backoff, TakeReply
<1>8. ASSUME NEW t \in Tasks, Retry(t) PROVE TypeOK'
  <2>1. attempt[t] \in 0 .. LastAttempt /\ attempt[t] < LastAttempt
    <3>1. pc[t] = "backoff"
      BY <1>8 DEF Retry
    <3>2. attempt[t] < LastAttempt
      BY <3>1 DEF Counted
    <3>3. attempt[t] \in 0 .. LastAttempt
      OBVIOUS
    <3> QED BY <3>2, <3>3
  <2> QED BY <1>8, <2>1 DEF Retry
<1>9. ASSUME NEW t \in Tasks, GiveUp(t) PROVE TypeOK'
  BY <1>9 DEF GiveUp, TakeReply
<1>10. ASSUME NEW t \in Tasks, Return(t) PROVE TypeOK'
  BY <1>10 DEF Return
<1>11. CASE Change
  BY <1>11, ReviseStep DEF Change
<1>12. CASE Tick
  BY <1>12, AgeStep DEF Tick, InFlight, Older
<1>13. CASE UNCHANGED vars
  BY <1>13
<1>14. ASSUME NEW t \in Tasks, Review(t) PROVE TypeOK'
  BY <1>14, <1>2, <1>3, <1>4, <1>6, <1>7, <1>8, <1>9, <1>10 DEF Review
<1> HIDE DEF TypeOK, vars
<1> QED
  BY <1>1, <1>5, <1>11, <1>12, <1>13, <1>14 DEF Next

LEMMA CountedStep == TypeOK /\ Counted /\ [Next]_vars => Counted'
<1> SUFFICES ASSUME TypeOK, Counted, [Next]_vars PROVE Counted'
  OBVIOUS
<1> USE DEF TypeOK, Counted, vars, apiVars, taskVars, wireVars, cacheVars
<1>1. ASSUME NEW t \in Tasks, NEW q \in Questions, Ask(t, q) PROVE Counted'
  BY <1>1 DEF Ask
<1>2. ASSUME NEW t \in Tasks, Hit(t) PROVE Counted'
  BY <1>2 DEF Hit
<1>3. ASSUME NEW t \in Tasks, Miss(t) PROVE Counted'
  BY <1>3 DEF Miss
<1>4. ASSUME NEW t \in Tasks, Send(t) PROVE Counted'
  BY <1>4 DEF Send
<1>5. ASSUME NEW t \in Tasks, NEW r \in Replies, Evaluate(t, r) PROVE Counted'
  BY <1>5 DEF Evaluate
<1>6. ASSUME NEW t \in Tasks, Store(t) PROVE Counted'
  BY <1>6 DEF Store
<1>7. ASSUME NEW t \in Tasks, Backoff(t) PROVE Counted'
  BY <1>7 DEF Backoff
<1>8. ASSUME NEW t \in Tasks, Retry(t) PROVE Counted'
  BY <1>8 DEF Retry
<1>9. ASSUME NEW t \in Tasks, GiveUp(t) PROVE Counted'
  BY <1>9 DEF GiveUp
<1>10. ASSUME NEW t \in Tasks, Return(t) PROVE Counted'
  BY <1>10 DEF Return
<1>11. CASE Change \/ Tick \/ UNCHANGED vars
  BY <1>11 DEF Change, Tick
<1> QED
  BY <1>1, <1>2, <1>3, <1>4, <1>5, <1>6, <1>7, <1>8, <1>9, <1>10, <1>11
     DEF Next, Review

LEMMA TruthStep == TypeOK /\ TruthIsCurrent /\ [Next]_vars => TruthIsCurrent'
<1> SUFFICES ASSUME TypeOK, TruthIsCurrent, [Next]_vars PROVE TruthIsCurrent'
  OBVIOUS
<1>1. CASE Change
  BY <1>1, ReviseStep
<1>2. CASE Tick
  BY <1>2, AgeStep DEF Tick
<1>3. CASE UNCHANGED apiVars
  BY <1>3 DEF TruthIsCurrent, apiVars
<1> QED
  BY <1>1, <1>2, <1>3 DEF Next, Review, Ask, Hit, Miss, Send, Evaluate, Store,
     Backoff, Retry, GiveUp, Return, vars

\* Only Evaluate puts an answer on the wire, and a question does not change
\* while one is there.
LEMMA ReplyStep ==
  TypeOK /\ TruthIsCurrent /\ ReplyFaithful /\ [Next]_vars => ReplyFaithful'
<1> SUFFICES ASSUME TypeOK, TruthIsCurrent, ReplyFaithful, [Next]_vars,
                    NEW t \in Tasks, reply'[t] \in Answers
             PROVE  lastTrue'[Body[question'[t]]][reply'[t]] <= replyAge'[t]
  BY DEF ReplyFaithful
<1> USE DEF TypeOK, ApiTypeOK, ReplyFaithful
<1>1. ASSUME NEW u \in Tasks, NEW r \in Replies, Evaluate(u, r)
      PROVE  lastTrue'[Body[question'[t]]][reply'[t]] <= replyAge'[t]
  <2>1. CASE t = u
    <3>1. Body[question[t]] \in Bodies /\ reply'[t] = truth[Body[question[t]]]
      BY <1>1, <2>1 DEF Evaluate
    <3> QED BY <1>1, <2>1, <3>1 DEF Evaluate, TruthIsCurrent, apiVars, taskVars
  <2>2. CASE t # u
    BY <1>1, <2>2 DEF Evaluate, apiVars, taskVars
  <2> QED BY <2>1, <2>2
<1>2. CASE Change
  <2>1. Body[question[t]] \in Bodies
    BY <1>2 DEF Change, wireVars
  <2>2. lastTrue'[Body[question[t]]][reply[t]] <= lastTrue[Body[question[t]]][reply[t]]
    BY <1>2, <2>1, ReviseStep DEF Change, wireVars
  <2>3. lastTrue'[Body[question[t]]][reply[t]] \in Nat
    BY <1>2, <2>1, ReviseStep DEF Change, wireVars
  <2> QED BY <1>2, <2>1, <2>2, <2>3 DEF Change, wireVars, taskVars
<1>3. CASE Tick
  <2>1. Body[question[t]] \in Bodies /\ reply' = reply /\ question' = question
    BY <1>3 DEF Tick, taskVars
  <2>2. lastTrue'[Body[question[t]]][reply[t]] <= lastTrue[Body[question[t]]][reply[t]] + 1
    BY <1>3, <2>1, AgeStep DEF Tick
  <2>3. lastTrue'[Body[question[t]]][reply[t]] \in Nat
    BY <1>3, <2>1, AgeStep DEF Tick
  <2>4. replyAge'[t] = replyAge[t] + 1
    BY <1>3, <2>1 DEF Tick, InFlight
  <2> QED BY <2>1, <2>2, <2>3, <2>4
<1>4. CASE UNCHANGED <<apiVars, wireVars>> /\ question'[t] = question[t]
  BY <1>4 DEF apiVars, wireVars
<1>5. ASSUME NEW u \in Tasks, TakeReply(u), UNCHANGED <<apiVars, question>>
      PROVE  lastTrue'[Body[question'[t]]][reply'[t]] <= replyAge'[t]
  BY <1>5 DEF TakeReply, apiVars
<1>6. ASSUME NEW u \in Tasks, Return(u) PROVE question'[t] = question[t]
  BY <1>6 DEF Return, wireVars
<1>7. ASSUME NEW u \in Tasks, NEW q \in Questions, Ask(u, q)
      PROVE  question'[t] = question[t]
  BY <1>7 DEF Ask, wireVars
<1> QED
  BY <1>1, <1>2, <1>3, <1>4, <1>5, <1>6, <1>7 DEF Next, Review, Ask, Hit, Miss,
     Send, Store, Backoff, Retry, GiveUp, Return, vars, taskVars, wireVars

\* Only Store writes the cache, and what it writes is at most Latency old.
LEMMA CacheStep == IInv /\ [Next]_vars => CacheFaithful'
<1> SUFFICES ASSUME IInv, [Next]_vars, NEW k \in Keys, cached'[k] # Absent
             PROVE  \E q \in Questions :
                      /\ Key[q] = k
                      /\ lastTrue'[Body[q]][cached'[k]] <= elapsed'[k] + Latency
  BY DEF CacheFaithful
<1> USE DEF IInv, TypeOK, ApiTypeOK, CacheFaithful
<1>1. CASE UNCHANGED <<apiVars, cacheVars>>
  BY <1>1 DEF apiVars, cacheVars
<1>2. ASSUME NEW t \in Tasks, Store(t)
      PROVE  \E q \in Questions :
                      /\ Key[q] = k
                      /\ lastTrue'[Body[q]][cached'[k]] <= elapsed'[k] + Latency
  <2>1. CASE k = Key[question[t]]
    <3>1. question[t] \in Questions /\ Body[question[t]] \in Bodies
      BY <1>2 DEF Store
    <3>2. lastTrue[Body[question[t]]][reply[t]] <= replyAge[t]
      BY <1>2 DEF Store, ReplyFaithful
    <3>3. /\ cached'[k] = reply[t] /\ elapsed'[k] = 0
          /\ lastTrue' = lastTrue /\ replyAge[t] <= Latency
      BY <1>2, <2>1 DEF Store, apiVars
    <3>4. lastTrue[Body[question[t]]][reply[t]] \in Nat
      BY <1>2, <3>1 DEF Store
    <3> QED BY <2>1, <3>1, <3>2, <3>3, <3>4
  <2>2. CASE k # Key[question[t]]
    BY <1>2, <2>2 DEF Store, apiVars
  <2> QED BY <2>1, <2>2
<1>3. CASE Change
  <2>1. cached'[k] = cached[k] /\ elapsed'[k] = elapsed[k]
    BY <1>3 DEF Change, cacheVars
  <2>2. PICK q \in Questions : /\ Key[q] = k
                               /\ lastTrue[Body[q]][cached[k]] <= elapsed[k] + Latency
    BY <2>1
  <2>3. Body[q] \in Bodies /\ cached[k] \in Answers
    BY <2>1
  <2>4. lastTrue'[Body[q]][cached[k]] <= lastTrue[Body[q]][cached[k]]
    BY <1>3, <2>3, ReviseStep
  <2>5. lastTrue'[Body[q]][cached[k]] \in Nat
    BY <1>3, <2>3, ReviseStep
  <2> QED BY <2>1, <2>2, <2>3, <2>4, <2>5
<1>4. CASE Tick
  <2>1. cached'[k] = cached[k] /\ elapsed'[k] = Older(elapsed[k], TTL)
    BY <1>4 DEF Tick
  <2>2. PICK q \in Questions : /\ Key[q] = k
                               /\ lastTrue[Body[q]][cached[k]] <= elapsed[k] + Latency
    BY <2>1
  <2>3. Body[q] \in Bodies /\ cached[k] \in Answers
    BY <2>1
  <2>4. lastTrue'[Body[q]][cached[k]] <= lastTrue[Body[q]][cached[k]] + 1
    BY <1>4, <2>3, AgeStep DEF Tick
  <2>5. lastTrue'[Body[q]][cached[k]] \in 0 .. Stale
    BY <1>4, <2>3, AgeStep DEF Tick
  <2> QED BY <2>1, <2>2, <2>3, <2>4, <2>5 DEF Older
<1> QED
  BY <1>1, <1>2, <1>3, <1>4 DEF Next, Review, Ask, Hit, Miss, Send, Evaluate,
     Backoff, Retry, GiveUp, Return, vars

LEMMA IInvStep == IInv /\ [Next]_vars => IInv'
  BY TypeStep, CountedStep, TruthStep, ReplyStep, CacheStep DEF IInv

-----------------------------------------------------------------------------
(* The theorems. *)

\* The client's state keeps its types (and the bounds they carry: an age
\* never passes TTL or Latency, a loop never passes its last attempt).
THEOREM TypeCorrect == Spec => []TypeOK
<1>1. IInv => TypeOK
  BY DEF IInv
<1> QED BY <1>1, InitIInv, IInvStep, PTL DEF Spec

\* An entry of token_cache or authz_cache is never staler than its stamp and
\* the network's delay allow, whatever concurrent misses overwrite it.
THEOREM CacheIsFaithful == Spec => []CacheFaithful
<1>1. IInv => CacheFaithful
  BY DEF IInv
<1> QED BY <1>1, InitIInv, IInvStep, PTL DEF Spec

\* An answer that is in the cache or on the wire and is about to be returned
\* to t was given, not long ago, to some question with the key of t's.
LEMMA ReturnedAnswer ==
  ASSUME IInv, [Next]_vars, NEW t \in Tasks, NEW a \in Answers, Returns(t, a)
  PROVE  /\ question[t] \in Questions
         /\ UNCHANGED <<apiVars, question>>
         /\ pc[t] \in {"lookup", "sent"}
         /\ result' = [result EXCEPT ![t] = a]
         /\ pc' = [pc EXCEPT ![t] = "done"]
         /\ \E q \in Questions : Key[q] = Key[question[t]] /\ Fresh(Body[q], a)
<1> USE DEF IInv, TypeOK, ApiTypeOK, Returns, Fresh, vars, taskVars
<1>1. CASE Hit(t)
  <2>1. question[t] \in Questions /\ cached[Key[question[t]]] = a
    BY <1>1 DEF Hit
  <2>2. PICK q \in Questions :
          /\ Key[q] = Key[question[t]]
          /\ lastTrue[Body[q]][a] <= elapsed[Key[question[t]]] + Latency
    BY <1>1, <2>1 DEF Hit, Usable, CacheFaithful
  <2>3. elapsed[Key[question[t]]] < TTL /\ lastTrue[Body[q]][a] \in Nat
    BY <1>1, <2>1 DEF Hit, Usable
  <2>4. Fresh(Body[q], a)
    BY <2>1, <2>2, <2>3
  <2> QED BY <1>1, <2>1, <2>2, <2>4 DEF Hit
<1>2. CASE Store(t)
  <2>1. question[t] \in Questions /\ reply[t] = a
    BY <1>2 DEF Store
  <2>2. lastTrue[Body[question[t]]][a] <= replyAge[t]
    BY <2>1 DEF ReplyFaithful
  <2>3. replyAge[t] <= Latency /\ lastTrue[Body[question[t]]][a] \in Nat
    BY <2>1
  <2>4. Fresh(Body[question[t]], a)
    BY <2>1, <2>2, <2>3
  <2> QED BY <1>2, <2>1, <2>4 DEF Store
<1>3. ASSUME GiveUp(t) PROVE FALSE
  <2>1. result[t] = Failed
    OBVIOUS
  <2> QED BY <1>3, <2>1 DEF GiveUp
<1>4. ASSUME NEW u \in Tasks, Review(u), u # t PROVE FALSE
  BY <1>4 DEF Review, Hit, Miss, Send, Store, Backoff, Retry, GiveUp, Return
<1> QED
  BY <1>1, <1>2, <1>3, <1>4 DEF Next, Review, Ask, Miss, Send, Evaluate,
     Backoff, Retry, Return, Change, Tick

\* When questions with the same key also have the same body - a TokenReview,
\* but not every SubjectAccessReview - the answer was given to t's own body.
THEOREM AnswersAreOwn ==
  ASSUME \A q, r \in Questions : Key[q] = Key[r] => Body[q] = Body[r]
  PROVE  Spec => OwnAnswer
<1>1. ASSUME IInv, [Next]_vars, NEW t \in Tasks, NEW a \in Answers, Returns(t, a)
      PROVE  Fresh(Body[question[t]], a)
  BY <1>1, ReturnedAnswer
<1>2. IInv /\ [Next]_vars =>
        [\A t \in Tasks, a \in Answers :
           Returns(t, a) => Fresh(Body[question[t]], a)]_vars
  BY <1>1
<1> QED BY <1>2, InitIInv, IInvStep, PTL DEF Spec, OwnAnswer

\* Without any such condition, every answer was given, not long ago, to a
\* question with the same cache key: no more is true where keys are shared.
THEOREM AnswersAreShared == Spec => SharedAnswer
<1>1. IInv /\ [Next]_vars =>
        [\A t \in Tasks, a \in Answers :
           Returns(t, a) =>
             \E q \in Questions : Key[q] = Key[question[t]] /\ Fresh(Body[q], a)]_vars
  BY ReturnedAnswer
<1> QED BY <1>1, InitIInv, IInvStep, PTL DEF Spec, SharedAnswer

\* No review puts more than three requests on the wire, none gives up on an
\* overloaded server earlier, and one that fails stores nothing.
THEOREM RetriesAreBounded == Spec => RetryBudget
<1> DEFINE Budget(t) ==
      /\ sends'[t] <= 3
      /\ reply[t] = Failed /\ reply'[t] = Absent => Returns(t, Failed)
      /\ Returns(t, Failed) => /\ reply[t] = Retryable => sends[t] = 3
                               /\ UNCHANGED cacheVars
<1>1. ASSUME IInv, [Next]_vars, NEW t \in Tasks PROVE Budget(t)
  <2> USE DEF IInv, TypeOK, vars, taskVars, wireVars
  <2>1. sends'[t] <= 3
    BY <1>1, CountedStep DEF Counted
  <2>2. ASSUME reply[t] = Failed, reply'[t] = Absent PROVE Returns(t, Failed)
    <3>1. GiveUp(t)
      BY <1>1, <2>2 DEF Next, Review, Ask, Hit, Miss, Send, Evaluate, Store,
         Backoff, Retry, GiveUp, Return, Change, Tick, TakeReply
    <3> QED BY <1>1, <3>1 DEF GiveUp, Returns
  <2>3. ASSUME Returns(t, Failed)
        PROVE  /\ reply[t] = Retryable => sends[t] = 3
               /\ UNCHANGED cacheVars
    <3>1. GiveUp(t)
      BY <1>1, <2>3 DEF Returns, Usable, Next, Review, Ask, Hit, Miss, Send,
         Evaluate, Store, Backoff, Retry, GiveUp, Return, Change, Tick
    <3> QED BY <1>1, <3>1 DEF GiveUp, Counted
  <2> QED BY <2>1, <2>2, <2>3
<1>2. IInv /\ [Next]_vars => [\A t \in Tasks : Budget(t)]_vars
  BY <1>1
<1> QED BY <1>2, InitIInv, IInvStep, PTL DEF Spec, RetryBudget

-----------------------------------------------------------------------------
(* Refinement. *)

\* A step that moves one task moves its phase alone.
LEMMA PhaseStep ==
  ASSUME TypeOK, NEW t \in Tasks,
         NEW p \in {"idle", "lookup", "acquire", "sent", "backoff", "done"},
         pc' = [pc EXCEPT ![t] = p]
  PROVE  /\ p = "idle" => Phase' = [Phase EXCEPT ![t] = "idle"]
         /\ p = "done" => Phase' = [Phase EXCEPT ![t] = "answered"]
         /\ p = "lookup" => Phase' = [Phase EXCEPT ![t] = "asked"]
BY DEF Phase, TypeOK

\* What happens to a task between the question and the answer is invisible.
LEMMA HiddenStep ==
  ASSUME TypeOK, NEW t \in Tasks,
         NEW p \in {"lookup", "acquire", "sent", "backoff"},
         pc[t] \notin {"idle", "done"}, pc' = [pc EXCEPT ![t] = p]
  PROVE  Phase' = Phase
BY DEF Phase, TypeOK

\* The client implements the service's initial condition and next-state
\* relation; that a review always returns is left to TLC.
THEOREM ClientImplementsServiceSafety == Spec => Service!ServiceSafety
<1>1. Init => Service!ServiceInit
  BY DEF Init, Phase, Service!ServiceInit, ApiInit, Service!ApiInit
<1>2. ASSUME IInv, [Next]_vars
      PROVE  [Service!ServiceNext]_(Service!serviceVars)
  <2> USE <1>2 DEF IInv
  <2>1. ASSUME NEW t \in Tasks, NEW q \in Questions, Ask(t, q)
        PROVE  Service!ServiceAsk(t, q)
    <3>1. Phase' = [Phase EXCEPT ![t] = "asked"] /\ Phase[t] = "idle"
      BY <2>1, PhaseStep DEF Ask, Phase
    <3> QED BY <2>1, <3>1 DEF Ask, Service!ServiceAsk, apiVars
  <2>2. ASSUME NEW t \in Tasks, Hit(t) \/ Store(t)
        PROVE  \E q \in Questions, a \in Answers : Service!ServiceAnswer(t, q, a)
    <3>1. PICK a \in Answers : Returns(t, a)
      BY <2>2 DEF Hit, Store, Returns, Usable, TypeOK
    <3>2. PICK q \in Questions : Key[q] = Key[question[t]] /\ Fresh(Body[q], a)
      BY <3>1, ReturnedAnswer
    <3>3. /\ pc' = [pc EXCEPT ![t] = "done"] /\ pc[t] \in {"lookup", "sent"}
          /\ result' = [result EXCEPT ![t] = a] /\ UNCHANGED <<apiVars, question>>
      BY <3>1, ReturnedAnswer
    <3>4. Phase' = [Phase EXCEPT ![t] = "answered"] /\ Phase[t] = "asked"
      BY <3>3, PhaseStep DEF Phase
    <3> QED BY <3>2, <3>3, <3>4 DEF Service!ServiceAnswer, apiVars, Fresh, Service!Fresh
  <2>3. ASSUME NEW t \in Tasks, GiveUp(t) PROVE Service!ServiceFail(t)
    <3>1. Phase' = [Phase EXCEPT ![t] = "answered"] /\ Phase[t] = "asked"
      BY <2>3, PhaseStep DEF GiveUp, Phase
    <3> QED BY <2>3, <3>1 DEF GiveUp, Service!ServiceFail, apiVars
  <2>4. ASSUME NEW t \in Tasks, Return(t) PROVE Service!ServiceReturn(t)
    <3>1. Phase' = [Phase EXCEPT ![t] = "idle"] /\ Phase[t] = "answered"
      BY <2>4, PhaseStep DEF Return, Phase
    <3> QED BY <2>4, <3>1 DEF Return, Service!ServiceReturn, apiVars
  <2>5. ASSUME NEW t \in Tasks, Miss(t) \/ Send(t) \/ Backoff(t) \/ Retry(t)
        PROVE  UNCHANGED Service!serviceVars
    <3>1. Phase' = Phase
      BY <2>5, HiddenStep DEF Miss, Send, Backoff, Retry
    <3> QED BY <2>5, <3>1 DEF Miss, Send, Backoff, Retry, Service!serviceVars, apiVars
  <2>6. ASSUME NEW t \in Tasks, NEW r \in Replies, Evaluate(t, r)
        PROVE  UNCHANGED Service!serviceVars
    BY <2>6 DEF Evaluate, Phase, Service!serviceVars, apiVars, taskVars
  <2>7. CASE Change \/ Tick
    BY <2>7 DEF Change, Tick, Phase, taskVars, Service!ServiceNext,
       Service!ServiceEnvironment, Revise, Service!Revise, ApiAge,
       Service!ApiAge, Older, Service!Older
  <2>8. CASE UNCHANGED vars
    BY <2>8 DEF vars, apiVars, taskVars, Phase, Service!serviceVars
  <2> QED
    BY <2>1, <2>2, <2>3, <2>4, <2>5, <2>6, <2>7, <2>8
       DEF Next, Review, Service!ServiceNext
<1> QED BY <1>1, <1>2, InitIInv, IInvStep, PTL DEF Spec, Service!ServiceSafety

-----------------------------------------------------------------------------
(* Whose decision authorize returns. *)

\* Every decision authorize returns is a recent one of the API server about a
\* record with the user's name, verb, namespace, group, version, resource and
\* path of the one asked about: two records can get each other's decision only by
\* differing in what the key leaves out - name, subresource, the user's groups.
THEOREM DecisionsAreOfTheKeysFields ==
  ASSUME NEW Symbols, Bar \in Symbols, Questions \subseteq Attributes(Seq(Symbols)),
         \A q \in Questions : BarFree(q, Symbols) /\ Key[q] = AuthzKey(q)
  PROVE  Spec => [][\A t \in Tasks, a \in Answers :
                      Returns(t, a) =>
                        \E q \in Questions : /\ KeyFields(q) = KeyFields(question[t])
                                             /\ Fresh(Body[q], a)]_vars
<1>1. ASSUME IInv, [Next]_vars, NEW t \in Tasks, NEW a \in Answers, Returns(t, a)
      PROVE  \E q \in Questions : KeyFields(q) = KeyFields(question[t]) /\ Fresh(Body[q], a)
  <2>1. question[t] \in Questions
    BY <1>1, ReturnedAnswer
  <2>2. PICK q \in Questions : Key[q] = Key[question[t]] /\ Fresh(Body[q], a)
    BY <1>1, ReturnedAnswer
  <2>3. KeyFields(q) = KeyFields(question[t])
    BY <2>1, <2>2, KeyTellsItsFields
  <2> QED
    BY <2>2, <2>3
<1>2. IInv /\ [Next]_vars =>
        [\A t \in Tasks, a \in Answers :
           Returns(t, a) =>
             \E q \in Questions : /\ KeyFields(q) = KeyFields(question[t])
                                  /\ Fresh(Body[q], a)]_vars
  BY <1>1
<1> QED BY <1>2, InitIInv, IInvStep, PTL DEF Spec
=============================================================================
