-------------------------- MODULE AuthorizationProofs --------------------------
(***************************************************************************)
(* Theorems about Authorization, for every configuration and request: what *)
(* decides, what is asked about, and what static rules grant.              *)
(***************************************************************************)
EXTENDS PathProofs

\* What is served is valid; what is answered is what attributes() returns.
IInv ==
  /\ config \in Configs
  /\ pc \in {"loading", "stopped", "serving", "answered"}
  /\ pc \in {"serving", "answered"} => Valid(config)
  /\ pc = "answered" =>
       /\ request \in Requests
       /\ \E captures \in CaptureOrders : generated = Attributes(config, request, captures)
  /\ pc # "answered" => request = None /\ generated = None

-----------------------------------------------------------------------------
(* The records read of configurations and requests. *)

LEMMA RecordShape ==
  ASSUME NEW r \in RequestRecords
  PROVE  /\ r.method \in DOMAIN Lower /\ r.path \in Seq(Segments) /\ r.user \in Users
         /\ r.query \in Pairs(Texts) /\ r.headers \in Pairs(Texts \cup {Opaque})
  BY DEF RequestRecords

LEMMA RequestShape ==
  ASSUME NEW r \in Requests
  PROVE  /\ r \in RequestRecords /\ r.method \in DOMAIN Lower /\ r.path \in Seq(Segments)
         /\ r.query \in Pairs(Texts) /\ r.headers \in Pairs(Texts \cup {Opaque})
<1>1. r \in RequestRecords
  BY RecordAssumption
<1> QED
  BY <1>1, RecordShape

LEMMA ConfigShape ==
  ASSUME NEW c \in Configs
  PROVE  /\ c.endpoints \in Seq(EndpointRecords)
         /\ c.resourceAttributes \in Templates \cup {None}
         /\ c.rewrites \in RewriteRecords \cup {None}
<1>1. c \in Configurations
  BY RecordAssumption
<1> QED
  BY <1>1 DEF Configurations

LEMMA EndpointShape ==
  ASSUME NEW endpoint \in EndpointRecords
  PROVE  endpoint.path \in Seq(Segments) /\ endpoint.mappings \in Seq(MappingRecords)
  BY DEF EndpointRecords

LEMMA MappingShape ==
  ASSUME NEW mapping \in MappingRecords
  PROVE  mapping.methods \subseteq DOMAIN Lower /\ mapping.resources \in Seq(ResourceRules)
  BY DEF MappingRecords

LEMMA RuleShape ==
  ASSUME NEW rule \in ResourceRules
  PROVE  rule.resourceAttributes \in Templates /\ rule.rewrites \in RewriteRecords
  BY DEF ResourceRules

LEMMA TemplateShape ==
  ASSUME NEW templates \in Templates, NEW f \in Fields
  PROVE  templates[f] \in Texts
  BY DEF Templates

-----------------------------------------------------------------------------
(* Values. *)

LEMMA FunctionIsSeq ==
  ASSUME NEW V, NEW n \in Nat, NEW f \in [1 .. n -> V]
  PROVE  f \in Seq(V) /\ Len(f) = n
<1>1. f \in Seq(V)
  BY SeqDef
<1> QED
  BY <1>1, LenProperties

\* The positions InOrder picks from a sequence.
LEMMA PickedPositions ==
  ASSUME NEW V, NEW s \in Seq(V), NEW S, S \subseteq DOMAIN s
  PROVE  /\ Cardinality(S) \in Nat
         /\ InOrder(S) \in Bijection(1 .. Cardinality(S), S)
         /\ DOMAIN InOrder(S) = 1 .. Cardinality(S)
<1>1. DOMAIN s = 1 .. Len(s) /\ Len(s) \in Nat
  OBVIOUS
<1>2. Places(S)
  BY <1>1, PlacesOfPrefix
<1>3. InOrder(S) \in Bijection(1 .. Cardinality(S), S)
  BY <1>2, InOrderLists
<1>4. Cardinality(S) \in Nat
  BY <1>2, FS_CardinalityType DEF Places
<1> QED
  BY <1>3, <1>4 DEF Bijection, Injection

LEMMA ValuesOfPairs ==
  ASSUME NEW V, NEW pairs \in Pairs(V), NEW name
  PROVE  /\ ValuesOf(pairs, name) \in Seq(V)
         /\ \A k \in DOMAIN ValuesOf(pairs, name) :
              \E i \in DOMAIN pairs : pairs[i].name = name /\ ValuesOf(pairs, name)[k] = pairs[i].value
<1> DEFINE S == {i \in DOMAIN pairs : pairs[i].name = name}
           own == InOrder(S)
           n == Cardinality(S)
           P == [name : STRING, value : V]
<1>1. pairs \in Seq(P)
  BY DEF Pairs
<1>2. n \in Nat /\ own \in Bijection(1 .. n, S) /\ DOMAIN own = 1 .. n
  <2>1. S \subseteq DOMAIN pairs
    OBVIOUS
  <2> HIDE DEF S
  <2> QED
    BY <1>1, <2>1, PickedPositions
<1>3. \A k \in 1 .. n : own[k] \in S
  BY <1>2 DEF Bijection, Injection
<1>4. \A i \in DOMAIN pairs : pairs[i].value \in V
  <2> SUFFICES ASSUME NEW i \in DOMAIN pairs PROVE pairs[i].value \in V
    OBVIOUS
  <2>1. pairs[i] \in P
    <3> HIDE DEF P
    <3> QED
      BY <1>1
  <2> QED
    BY <2>1
<1>5. ValuesOf(pairs, name) = [k \in 1 .. n |-> pairs[own[k]].value]
  <2>1. ValuesOf(pairs, name) = [k \in DOMAIN own |-> pairs[own[k]].value]
    BY DEF ValuesOf
  <2> HIDE DEF own
  <2> QED
    BY <1>2, <2>1
<1>6. \A k \in 1 .. n : pairs[own[k]].value \in V
  BY <1>3, <1>4
<1>7. ValuesOf(pairs, name) \in [1 .. n -> V]
  BY <1>5, <1>6
<1>8. ValuesOf(pairs, name) \in Seq(V)
  BY <1>2, <1>7, FunctionIsSeq
<1>9. ASSUME NEW k \in 1 .. n
      PROVE  \E i \in DOMAIN pairs : pairs[i].name = name /\ ValuesOf(pairs, name)[k] = pairs[i].value
  BY <1>3, <1>5
<1>10. DOMAIN ValuesOf(pairs, name) = 1 .. n
  BY <1>5
<1> HIDE DEF n
<1> QED
  BY <1>8, <1>9, <1>10

\* Legible keeps the values that are text.
LEMMA LegibleValues ==
  ASSUME NEW V, NEW s \in Seq(V \cup {Opaque})
  PROVE  /\ Legible(s) \in Seq(V)
         /\ \A k \in DOMAIN Legible(s) : \E i \in DOMAIN s : Legible(s)[k] = s[i]
<1> DEFINE S == {i \in DOMAIN s : s[i] # Opaque}
           own == InOrder(S)
           n == Cardinality(S)
<1>1. n \in Nat /\ own \in Bijection(1 .. n, S) /\ DOMAIN own = 1 .. n
  <2>1. S \subseteq DOMAIN s
    OBVIOUS
  <2> HIDE DEF S
  <2> QED
    BY <2>1, PickedPositions
<1>2. \A k \in 1 .. n : own[k] \in S
  BY <1>1 DEF Bijection, Injection
<1>3. Legible(s) = [k \in 1 .. n |-> s[own[k]]]
  <2>1. Legible(s) = [k \in DOMAIN own |-> s[own[k]]]
    BY DEF Legible
  <2> HIDE DEF own
  <2> QED
    BY <1>1, <2>1
<1>4. \A k \in 1 .. n : s[own[k]] \in V
  BY <1>2
<1>5. Legible(s) \in [1 .. n -> V]
  BY <1>3, <1>4
<1>6. Legible(s) \in Seq(V)
  BY <1>1, <1>5, FunctionIsSeq
<1>7. ASSUME NEW k \in 1 .. n PROVE \E i \in DOMAIN s : Legible(s)[k] = s[i]
  BY <1>2, <1>3
<1>8. DOMAIN Legible(s) = 1 .. n
  BY <1>3
<1> HIDE DEF n
<1> QED
  BY <1>6, <1>7, <1>8

\* What a request supplies is text.
LEMMA SuppliedTexts ==
  ASSUME NEW r \in RequestRecords, NEW name
  PROVE  /\ ValuesOf(r.query, name) \in Seq(Texts)
         /\ ValuesOf(r.headers, name) \in Seq(Texts \cup {Opaque})
<1>1. r.query \in Pairs(Texts) /\ r.headers \in Pairs(Texts \cup {Opaque})
  BY RecordShape
<1> QED
  BY <1>1, ValuesOfPairs

LEMMA FirstText ==
  ASSUME NEW V, Empty \in V, NEW values \in Seq(V \cup {Opaque})
  PROVE  First(values) \in V
<1>1. CASE values = <<>> \/ values[1] = Opaque
  BY <1>1 DEF First
<1>2. CASE values # <<>> /\ values[1] # Opaque
  <2>1. values[1] \in V \cup {Opaque}
    BY <1>2
  <2> QED
    BY <1>2, <2>1 DEF First
<1> QED
  BY <1>1, <1>2

LEMMA HeaderAndQueryText ==
  ASSUME NEW V, Empty \in V, NEW r, NEW rewrites,
         \A name : ValuesOf(r.query, name) \in Seq(V) /\ ValuesOf(r.headers, name) \in Seq(V \cup {Opaque})
  PROVE  HeaderOf(r, rewrites) \in V /\ QueryOf(r, rewrites) \in V
<1>1. V \subseteq V \cup {Opaque}
  OBVIOUS
<1>2. \A name : ValuesOf(r.query, name) \in Seq(V \cup {Opaque})
  BY <1>1, SeqMonotonic
<1>3. HeaderOf(r, rewrites) \in V
  BY FirstText DEF HeaderOf
<1>4. QueryOf(r, rewrites) \in V
  BY <1>2, FirstText DEF QueryOf
<1> QED
  BY <1>3, <1>4

LEMMA RecordTexts ==
  ASSUME NEW r \in RequestRecords, NEW rewrites
  PROVE  HeaderOf(r, rewrites) \in Texts /\ QueryOf(r, rewrites) \in Texts
<1>1. Empty \in Texts
  BY AuthorizationAssumption
<1>2. \A name : ValuesOf(r.query, name) \in Seq(Texts) /\ ValuesOf(r.headers, name) \in Seq(Texts \cup {Opaque})
  BY SuppliedTexts
<1> QED
  BY <1>1, <1>2, HeaderAndQueryText

LEMMA VerbText ==
  ASSUME NEW method
  PROVE  KubeVerb(method) \in Verbs /\ KubeVerb(method) \in Texts \ {Empty}
<1>1. KubeVerb(method) \in Verbs
  BY DEF KubeVerb, Verbs
<1>2. Empty \notin Verbs
  BY DEF Verbs, Empty
<1> QED
  BY <1>1, <1>2, AuthorizationAssumption

LEMMA CleanType ==
  ASSUME NEW path \in Seq(Segments)
  PROVE  Clean(path) \in Seq(Segments)
<1>1. <<Empty>> \in Seq(Segments)
  BY Constants
<1> QED
  BY <1>1, CleanIsKept

\* A parameter is the decoded segment its capture stands for.
LEMMA ParamText ==
  ASSUME NEW pattern \in Seq(Segments), NEW path \in Seq(Segments), Matched(pattern, path),
         NEW c \in DOMAIN PathParams(pattern, path)
  PROVE  /\ PathParams(pattern, path)[c] \in Texts
         /\ Kept(path) # {} => PathParams(pattern, path)[c] # Empty
<1> DEFINE p == Clean(pattern)
           s == Clean(path)
           i == CHOOSE i \in DOMAIN p : p[i] = c
<1>1. p \in Seq(Segments) /\ s \in Seq(Segments) /\ Len(p) = Len(s)
  BY CleanType DEF Matched
<1>2. DOMAIN PathParams(pattern, path) = ToSet(p) \cap Captures
  BY DEF PathParams
<1>3. \E k \in DOMAIN p : p[k] = c
  BY <1>2 DEF ToSet
<1>4. i \in DOMAIN p
  <2> HIDE DEF p
  <2> QED
    BY <1>3
<1>5. PathParams(pattern, path)[c] = Decode[s[i]]
  BY <1>2 DEF PathParams
<1> HIDE DEF i, p
<1>6. i \in 1 .. Len(s)
  BY <1>1, <1>4
<1>7. s[i] \in Segments
  <2> HIDE DEF s
  <2> QED
    BY <1>1, <1>6
<1>8. Kept(path) # {} => s[i] # Empty
  BY <1>6, CleanSegment, KeptSegment
<1>9. \A t \in Segments : Decode[t] \in Texts /\ (Decode[t] = Empty <=> t = Empty)
  BY AuthorizationAssumption
<1> QED
  BY <1>5, <1>7, <1>8, <1>9

LEMMA FillingText ==
  ASSUME NEW endpoint, endpoint.path \in Seq(Segments), NEW rule,
         NEW r \in RequestRecords, Matched(endpoint.path, r.path),
         NEW h \in DOMAIN Filling(endpoint, rule, r)
  PROVE  Filling(endpoint, rule, r)[h] \in Texts
<1> DEFINE header == HeaderOf(r, rule.rewrites)
           query == QueryOf(r, rule.rewrites)
           params == PathParams(endpoint.path, r.path)
           D == {"value", "header", "query", "method"} \cup DOMAIN params
<1>1. header \in Texts /\ query \in Texts /\ KubeVerb(r.method) \in Texts
  BY VerbText, RecordTexts
<1>2. \A c \in DOMAIN params : params[c] \in Texts
  BY RecordShape, ParamText
<1>3. Filling(endpoint, rule, r) =
        [g \in D |->
           CASE g = "value" -> IF header # Empty THEN header ELSE query
             [] g = "header" -> header
             [] g = "query" -> query
             [] g = "method" -> KubeVerb(r.method)
             [] OTHER -> params[g]]
  BY DEF Filling
<1> HIDE DEF header, query, params
<1>4. h \in D
  BY <1>3
<1> QED
  BY <1>1, <1>2, <1>3, <1>4

-----------------------------------------------------------------------------
(* Placeholders replaced one after another. *)

\* What text becomes when hole has its turn.
Replaced(text, hole, given) ==
  IF HoleOf[text] = hole /\ hole \in DOMAIN given THEN given[hole] ELSE text

\* left is the function of Filled, as far as m.
IsFilling(left, template, order, given, m) ==
  left = [n \in 0 .. m |-> IF n = 0 THEN template ELSE Replaced(left[n - 1], order[n], given)]

LEMMA FillingExists ==
  ASSUME NEW template, NEW order, NEW given, NEW m \in Nat
  PROVE  \E left : IsFilling(left, template, order, given, m)
<1> DEFINE S == {i \in Nat : \E left : IsFilling(left, template, order, given, i)}
<1>1. 0 \in S
  <2>1. IsFilling([n \in 0 .. 0 |-> template], template, order, given, 0)
    BY DEF IsFilling
  <2> QED
    BY <2>1
<1>2. ASSUME NEW i \in Nat, i \in S PROVE i + 1 \in S
  <2>1. PICK g : IsFilling(g, template, order, given, i)
    BY <1>2
  <2> DEFINE h == [n \in 0 .. i + 1 |-> IF n = i + 1 THEN Replaced(g[i], order[i + 1], given) ELSE g[n]]
  <2>2. ASSUME NEW n \in 0 .. i + 1
        PROVE  h[n] = IF n = 0 THEN template ELSE Replaced(h[n - 1], order[n], given)
    <3>1. CASE n = 0
      BY <2>1, <3>1 DEF IsFilling
    <3>2. CASE n = i + 1
      BY <3>2
    <3>3. CASE n \in 1 .. i
      <4>1. g[n] = Replaced(g[n - 1], order[n], given)
        BY <2>1, <3>3 DEF IsFilling
      <4> QED
        BY <3>3, <4>1
    <3> QED
      BY <3>1, <3>2, <3>3
  <2>3. IsFilling(h, template, order, given, i + 1)
    BY <2>2 DEF IsFilling
  <2> HIDE DEF h
  <2> QED
    BY <2>3
<1>3. Nat \subseteq S
  <2> HIDE DEF S
  <2> QED
    BY <1>1, <1>2, SetInduction
<1> QED
  BY <1>3

\* left are the texts that the replacements go through.
Fills(left, template, order, given) ==
  /\ left[0] = template
  /\ \A n \in 1 .. Len(order) : left[n] = Replaced(left[n - 1], order[n], given)
  /\ Filled(template, order, given) = left[Len(order)]

LEMMA FilledSteps ==
  ASSUME NEW template, NEW order, NEW given, Len(order) \in Nat
  PROVE  \E left : Fills(left, template, order, given)
<1> DEFINE left == CHOOSE left : IsFilling(left, template, order, given, Len(order))
<1>1. Filled(template, order, given) = left[Len(order)]
  BY DEF Filled, IsFilling, Replaced
<1>2. IsFilling(left, template, order, given, Len(order))
  BY FillingExists
<1> HIDE DEF left
<1>3. /\ left[0] = template
      /\ \A n \in 1 .. Len(order) : left[n] = Replaced(left[n - 1], order[n], given)
  BY <1>2 DEF IsFilling
<1>4. Fills(left, template, order, given)
  BY <1>1, <1>3 DEF Fills
<1> QED
  BY <1>4

\* Texts make texts.
LEMMA FilledText ==
  ASSUME NEW template \in Texts, NEW order, Len(order) \in Nat, NEW given,
         \A h \in DOMAIN given : given[h] \in Texts
  PROVE  Filled(template, order, given) \in Texts
<1>0. PICK left : Fills(left, template, order, given)
  BY FilledSteps
<1>1. /\ left[0] = template
      /\ \A n \in 1 .. Len(order) : left[n] = Replaced(left[n - 1], order[n], given)
      /\ Filled(template, order, given) = left[Len(order)]
  BY <1>0 DEF Fills
<1> DEFINE S == {n \in Nat : n <= Len(order) => left[n] \in Texts}
<1>2. 0 \in S
  BY <1>1
<1>3. ASSUME NEW n \in Nat, n \in S PROVE n + 1 \in S
  <2> SUFFICES ASSUME n + 1 <= Len(order) PROVE left[n + 1] \in Texts
    OBVIOUS
  <2>1. left[n] \in Texts
    BY <1>3
  <2>2. n + 1 \in 1 .. Len(order) /\ (n + 1) - 1 = n
    OBVIOUS
  <2>3. left[n + 1] = Replaced(left[n], order[n + 1], given)
    BY <1>1, <2>2
  <2> QED
    BY <2>1, <2>3 DEF Replaced
<1>4. Nat \subseteq S
  <2> HIDE DEF S
  <2> QED
    BY <1>2, <1>3, SetInduction
<1> QED
  BY <1>1, <1>4

\* A placeholder whose hole has a turn becomes the value given for it, and stays
\* that value if it is no placeholder.
LEMMA FilledOnce ==
  ASSUME NEW template, NEW order, Len(order) \in Nat, NEW given,
         NEW i \in 1 .. Len(order), HoleOf[template] = order[i],
         \A n \in 1 .. Len(order) : order[n] # None,
         order[i] \in DOMAIN given, HoleOf[given[order[i]]] = None
  PROVE  Filled(template, order, given) = given[order[i]]
<1> DEFINE hole == order[i]
           v == given[hole]
<1>0. PICK left : Fills(left, template, order, given)
  BY FilledSteps
<1>1. /\ left[0] = template
      /\ \A n \in 1 .. Len(order) : left[n] = Replaced(left[n - 1], order[n], given)
      /\ Filled(template, order, given) = left[Len(order)]
  BY <1>0 DEF Fills
<1> DEFINE S == {n \in Nat : n <= Len(order) => left[n] = v \/ (left[n] = template /\ n < i)}
<1>2. 0 \in S
  BY <1>1
<1>3. ASSUME NEW n \in Nat, n \in S PROVE n + 1 \in S
  <2> SUFFICES ASSUME n + 1 <= Len(order)
               PROVE  left[n + 1] = v \/ (left[n + 1] = template /\ n + 1 < i)
    OBVIOUS
  <2>1. left[n] = v \/ (left[n] = template /\ n < i)
    BY <1>3
  <2>2. n + 1 \in 1 .. Len(order) /\ (n + 1) - 1 = n
    OBVIOUS
  <2>3. left[n + 1] = Replaced(left[n], order[n + 1], given)
    BY <1>1, <2>2
  <2>4. order[n + 1] # None
    BY <2>2
  <2>5. CASE left[n] = v
    BY <2>3, <2>4, <2>5 DEF Replaced
  <2>6. CASE left[n] = template /\ n < i
    <3>1. CASE order[n + 1] = hole
      BY <2>3, <2>6, <3>1 DEF Replaced
    <3>2. CASE order[n + 1] # hole
      <4>1. n + 1 # i
        BY <3>2
      <4>2. left[n + 1] = template
        BY <2>3, <2>6, <3>2 DEF Replaced
      <4> QED
        BY <2>6, <4>1, <4>2
    <3> QED
      BY <3>1, <3>2
  <2> QED
    BY <2>1, <2>5, <2>6
<1>4. Nat \subseteq S
  <2> HIDE DEF S
  <2> QED
    BY <1>2, <1>3, SetInduction
<1> QED
  BY <1>1, <1>4

\* endpoint_value() gives each of its holes a turn.
LEMMA EndpointOrderListsHoles ==
  ASSUME NEW captures \in CaptureOrders
  PROVE  /\ EndpointOrder(captures) \in Seq(Holes) /\ Len(EndpointOrder(captures)) \in Nat
         /\ \A h \in Holes : \E i \in 1 .. Len(EndpointOrder(captures)) : EndpointOrder(captures)[i] = h
<1> DEFINE m == Cardinality(Captures)
           before == <<"value">>
           after == <<"header", "query", "method">>
           order == EndpointOrder(captures)
<1>1. m \in Nat
  BY AuthorizationAssumption, FS_CardinalityType
<1>2. captures \in [1 .. m -> Captures] /\ ToSet(captures) = Captures
  BY DEF CaptureOrders
<1>3. captures \in Seq(Captures) /\ Len(captures) = m
  BY <1>1, <1>2, FunctionIsSeq
<1>4. captures \in Seq(Holes)
  BY <1>3, SeqMonotonic DEF Holes
<1>5. before \in Seq(Holes) /\ after \in Seq(Holes)
  BY DEF Holes
<1>6. order = before \o captures \o after
  BY DEF EndpointOrder
<1>7. order \in Seq(Holes) /\ Len(order) = m + 4
  <2> HIDE DEF m
  <2> QED
    BY <1>1, <1>3, <1>4, <1>5, <1>6
<1>8. /\ order[1] = "value" /\ order[m + 2] = "header" /\ order[m + 3] = "query" /\ order[m + 4] = "method"
      /\ \A k \in 1 .. m : order[k + 1] = captures[k]
  <2> HIDE DEF m
  <2> QED
    BY <1>1, <1>3, <1>4, <1>5, <1>6
<1>9. ASSUME NEW h \in Captures PROVE \E i \in 1 .. m + 4 : order[i] = h
  <2>1. PICK k \in 1 .. m : captures[k] = h
    BY <1>2 DEF ToSet
  <2>2. k + 1 \in 1 .. m + 4
    BY <1>1
  <2> QED
    BY <1>8, <2>1, <2>2
<1>10. ASSUME NEW h \in {"value", "header", "query", "method"} PROVE \E i \in 1 .. m + 4 : order[i] = h
  <2>1. 1 \in 1 .. m + 4 /\ m + 2 \in 1 .. m + 4 /\ m + 3 \in 1 .. m + 4 /\ m + 4 \in 1 .. m + 4
    BY <1>1
  <2> HIDE DEF m, order
  <2> QED
    BY <1>8, <2>1
<1> HIDE DEF m, order
<1>11. \A h \in Holes : \E i \in 1 .. m + 4 : order[i] = h
  BY <1>9, <1>10 DEF Holes
<1> QED
  BY <1>1, <1>7, <1>11 DEF order

\* A placeholder of an endpoint's rule, where its hole is given a plain value.
LEMMA EndpointFilled ==
  ASSUME NEW captures \in CaptureOrders, NEW template, NEW given, HoleOf[template] \in Holes,
         HoleOf[template] \in DOMAIN given, HoleOf[given[HoleOf[template]]] = None
  PROVE  Filled(template, EndpointOrder(captures), given) = given[HoleOf[template]]
<1>1. PICK order : order = EndpointOrder(captures)
  OBVIOUS
<1>2. order \in Seq(Holes) /\ Len(order) \in Nat
  BY <1>1, EndpointOrderListsHoles
<1>3. PICK i \in 1 .. Len(order) : order[i] = HoleOf[template]
  BY <1>1, EndpointOrderListsHoles
<1>4. \A n \in 1 .. Len(order) : order[n] # None
  BY <1>2, HoleAssumption
<1>5. /\ HoleOf[template] = order[i] /\ order[i] \in DOMAIN given
      /\ HoleOf[given[order[i]]] = None
  BY <1>3
<1>6. Len(order) \in Nat
  BY <1>2
<1>7. Filled(template, order, given) = given[order[i]]
  BY <1>4, <1>5, <1>6, FilledOnce
<1> QED
  BY <1>1, <1>3, <1>7

-----------------------------------------------------------------------------
(* Records. *)

LEMMA RecordType ==
  ASSUME NEW r \in RequestRecords, NEW fields \in [Fields -> Texts]
  PROVE  Record(r, fields) \in AttributeRecords
<1> DEFINE verb == IF fields["verb"] = Empty THEN KubeVerb(r.method) ELSE fields["verb"]
<1>1. "verb" \in Fields
  BY DEF Fields
<1>2. KubeVerb(r.method) \in Texts
  BY VerbText
<1>3. verb \in Texts
  BY <1>1, <1>2
<1>4. [fields EXCEPT !["verb"] = verb] \in [Fields -> Texts]
  <2> HIDE DEF verb
  <2> QED
    BY <1>1, <1>3
<1>5. r.user \in Users /\ r.path \in Seq(Segments)
  BY RecordShape
<1>6. Record(r, fields) =
        [user |-> r.user, path |-> r.path, resourceRequest |-> TRUE,
         fields |-> [fields EXCEPT !["verb"] = verb]]
  BY DEF Record
<1> DEFINE g == [fields EXCEPT !["verb"] = verb]
<1> HIDE DEF g
<1> QED
  BY <1>4, <1>5, <1>6 DEF AttributeRecords, g

LEMMA RuleRecordType ==
  ASSUME NEW endpoint, endpoint.path \in Seq(Segments), NEW rule \in ResourceRules,
         NEW r \in RequestRecords, Matched(endpoint.path, r.path), NEW captures \in CaptureOrders
  PROVE  RuleRecord(endpoint, rule, r, captures) \in AttributeRecords
<1> DEFINE given == Filling(endpoint, rule, r)
           order == EndpointOrder(captures)
           fields == [f \in Fields |-> Filled(rule.resourceAttributes[f], order, given)]
<1>1. \A h \in DOMAIN given : given[h] \in Texts
  BY FillingText
<1>2. ASSUME NEW f \in Fields PROVE Filled(rule.resourceAttributes[f], order, given) \in Texts
  <2>1. rule.resourceAttributes[f] \in Texts
    BY RuleShape, TemplateShape
  <2>2. Len(order) \in Nat
    BY EndpointOrderListsHoles
  <2> HIDE DEF given, order
  <2> QED
    BY <1>1, <2>1, <2>2, FilledText
<1>3. fields \in [Fields -> Texts]
  BY <1>2
<1>4. RuleRecord(endpoint, rule, r, captures) = Record(r, fields)
  BY DEF RuleRecord
<1> HIDE DEF fields
<1> QED
  BY <1>3, <1>4, RecordType

\* What a matched endpoint makes of a request: an error for a method it does
\* not have or a value that is missing, else a record for each rule.
LEMMA EndpointOutcome ==
  ASSUME NEW endpoint \in EndpointRecords, NEW r \in RequestRecords, Matched(endpoint.path, r.path),
         NEW captures \in CaptureOrders
  PROVE  LET rules == RulesFor(endpoint, r)
             out == EndpointAttributes(endpoint, r, captures)
         IN \/ Able(endpoint, r) = {} /\ out = Error
            \/ /\ Able(endpoint, r) # {}
               /\ Min(Able(endpoint, r)) \in Able(endpoint, r)
               /\ \A l \in Able(endpoint, r) : Min(Able(endpoint, r)) <= l
               /\ rules \in Seq(ResourceRules)
               /\ \/ out = Error /\ \E k \in DOMAIN rules : Missing(r, rules[k].rewrites)
                  \/ /\ \A k \in DOMAIN rules : ~ Missing(r, rules[k].rewrites)
                     /\ out = [k \in DOMAIN rules |-> RuleRecord(endpoint, rules[k], r, captures)]
                     /\ out \in Seq(AttributeRecords) /\ out # Error
<1> DEFINE rules == RulesFor(endpoint, r)
           out == EndpointAttributes(endpoint, r, captures)
           able == Able(endpoint, r)
<1>1. CASE able = {}
  BY <1>1 DEF EndpointAttributes
<1>2. CASE able # {}
  <2>1. endpoint.path \in Seq(Segments) /\ endpoint.mappings \in Seq(MappingRecords)
    BY EndpointShape
  <2>2. able \subseteq DOMAIN endpoint.mappings /\ able \subseteq Nat
    BY <2>1 DEF Able
  <2>3. Min(able) \in able /\ \A l \in able : Min(able) <= l
    <3> HIDE DEF able
    <3> QED
      BY <1>2, <2>2, MinSmallest
  <2>4. endpoint.mappings[Min(able)] \in MappingRecords
    <3> HIDE DEF able
    <3> QED
      BY <2>1, <2>2, <2>3
  <2>5. rules \in Seq(ResourceRules)
    BY <2>4, MappingShape DEF RulesFor
  <2>6. DOMAIN rules = 1 .. Len(rules) /\ Len(rules) \in Nat /\ \A k \in DOMAIN rules : rules[k] \in ResourceRules
    <3> HIDE DEF rules
    <3> QED
      BY <2>5
  <2>7. CASE \E k \in DOMAIN rules : Missing(r, rules[k].rewrites)
    <3>1. out = Error
      BY <1>2, <2>7 DEF EndpointAttributes
    <3> QED
      BY <1>2, <2>3, <2>5, <2>7, <3>1
  <2>8. CASE \A k \in DOMAIN rules : ~ Missing(r, rules[k].rewrites)
    <3>1. out = [k \in DOMAIN rules |-> RuleRecord(endpoint, rules[k], r, captures)]
      BY <1>2, <2>8 DEF EndpointAttributes
    <3>2. \A k \in DOMAIN rules : RuleRecord(endpoint, rules[k], r, captures) \in AttributeRecords
      BY <2>1, <2>6, RuleRecordType
    <3>3. out \in [1 .. Len(rules) -> AttributeRecords]
      BY <2>6, <3>1, <3>2
    <3>4. out \in Seq(AttributeRecords)
      BY <2>6, <3>3, FunctionIsSeq
    <3>5. out # Error
      BY <3>4, RecordAssumption
    <3> QED
      BY <1>2, <2>3, <2>5, <2>8, <3>1, <3>4, <3>5
  <2> QED
    BY <2>7, <2>8
<1> QED
  BY <1>1, <1>2

\* The values a name is given, none without a name.
Given(pairs, name) == IF name = None THEN <<>> ELSE ValuesOf(pairs, name)

LEMMA CollectText ==
  ASSUME NEW r \in RequestRecords, NEW rewrites
  PROVE  /\ Collect(r, rewrites)
              = Legible(Given(r.query, rewrites.byQueryParameter) \o Given(r.headers, rewrites.byHttpHeader))
         /\ Given(r.query, rewrites.byQueryParameter) \in Seq(Texts \cup {Opaque})
         /\ Given(r.headers, rewrites.byHttpHeader) \in Seq(Texts \cup {Opaque})
         /\ Collect(r, rewrites) \in Seq(Texts)
<1> DEFINE V == Texts
           U == V \cup {Opaque}
           q == Given(r.query, rewrites.byQueryParameter)
           h == Given(r.headers, rewrites.byHttpHeader)
<1>1. Collect(r, rewrites) = Legible(q \o h)
  BY DEF Collect, Given
<1>2. V \subseteq U
  OBVIOUS
<1>3. \A name : ValuesOf(r.query, name) \in Seq(V) /\ ValuesOf(r.headers, name) \in Seq(U)
  BY SuppliedTexts
<1> HIDE DEF U
<1>4. q \in Seq(U)
  BY <1>2, <1>3, SeqMonotonic DEF Given
<1>5. h \in Seq(U)
  BY <1>3 DEF Given
<1> HIDE DEF q, h, V
<1>6. q \o h \in Seq(U)
  BY <1>4, <1>5
<1>7. Legible(q \o h) \in Seq(V)
  BY <1>6, LegibleValues DEF U
<1> QED
  BY <1>1, <1>4, <1>5, <1>7 DEF q, h, U, V

LEMMA TopLevelType ==
  ASSUME NEW c \in Configs, NEW r \in RequestRecords
  PROVE  TopLevelAttributes(c, r) \in Seq(AttributeRecords)
<1>1. CASE c.resourceAttributes = None
  <2>1. TopLevelAttributes(c, r) = <<PathRecord(r)>>
    BY <1>1 DEF TopLevelAttributes
  <2>2. [f \in Fields |-> Empty] \in [Fields -> Texts]
    BY AuthorizationAssumption
  <2>3. Record(r, [f \in Fields |-> Empty]) \in AttributeRecords
    BY <2>2, RecordType
  <2>4. PathRecord(r) \in AttributeRecords
    BY <2>3 DEF PathRecord, AttributeRecords
  <2> QED
    BY <2>1, <2>4
<1>2. CASE c.resourceAttributes # None
  <2> DEFINE values == IF c.rewrites = None THEN <<Empty>> ELSE Collect(r, c.rewrites)
             field(f, v) == IF f = "verb" THEN c.resourceAttributes[f]
                            ELSE Filled(c.resourceAttributes[f], <<"value">>, [value |-> v])
             filled(v) == [f \in Fields |-> field(f, v)]
  <2>1. TopLevelAttributes(c, r) = [k \in DOMAIN values |-> Record(r, filled(values[k]))]
    BY <1>2 DEF TopLevelAttributes
  <2>2. values \in Seq(Texts)
    <3>1. <<Empty>> \in Seq(Texts)
      BY AuthorizationAssumption
    <3> QED
      BY <3>1, CollectText
  <2>3. ASSUME NEW v \in Texts PROVE Record(r, filled(v)) \in AttributeRecords
    <3>1. ASSUME NEW f \in Fields PROVE field(f, v) \in Texts
      <4> DEFINE given == [value |-> v]
                 order == <<"value">>
      <4>1. c.resourceAttributes[f] \in Texts
        BY <1>2, ConfigShape, TemplateShape
      <4>2. Len(order) \in Nat /\ \A h \in DOMAIN given : given[h] \in Texts
        OBVIOUS
      <4> HIDE DEF given, order
      <4>3. Filled(c.resourceAttributes[f], order, given) \in Texts
        BY <4>1, <4>2, FilledText
      <4> QED
        BY <4>1, <4>3 DEF given, order
    <3> HIDE DEF field
    <3>2. filled(v) \in [Fields -> Texts]
      BY <3>1
    <3> HIDE DEF filled
    <3> QED
      BY <3>2, RecordType
  <2> HIDE DEF values, filled
  <2>4. DOMAIN values = 1 .. Len(values) /\ Len(values) \in Nat /\ \A k \in DOMAIN values : values[k] \in Texts
    BY <2>2
  <2>5. TopLevelAttributes(c, r) \in [1 .. Len(values) -> AttributeRecords]
    BY <2>1, <2>3, <2>4
  <2> QED
    BY <2>4, <2>5, FunctionIsSeq
<1> QED
  BY <1>1, <1>2

\* The endpoints of a valid configuration that match are those whose patterns
\* fit.
LEMMA MatchingIsFitting ==
  ASSUME NEW c \in Configs, Valid(c), NEW r \in Requests, NEW i \in DOMAIN c.endpoints
  PROVE  /\ c.endpoints[i] \in EndpointRecords /\ ValidEndpoint(c.endpoints[i])
         /\ Matched(c.endpoints[i].path, r.path) <=> PathFits(c.endpoints[i].path, r.path)
<1>1. c.endpoints \in Seq(EndpointRecords)
  BY ConfigShape
<1>2. c.endpoints[i] \in EndpointRecords
  BY <1>1
<1>3. c.endpoints[i].path \in Seq(Segments) /\ r.path \in Seq(Segments)
  BY <1>2, EndpointShape, RequestShape
<1>4. ValidEndpoint(c.endpoints[i])
  BY DEF Valid
<1>5. ValidCaptures(c.endpoints[i].path)
  BY <1>4 DEF ValidEndpoint
<1> QED
  BY <1>2, <1>3, <1>4, <1>5, MatchedIsPathFits

\* a is about r.
About(a, r) == a.path = r.path /\ a.resourceRequest \in BOOLEAN

LEMMA RecordIsAboutRequest ==
  ASSUME NEW r, NEW fields
  PROVE  /\ Record(r, fields).path = r.path
         /\ Record(r, fields).resourceRequest = TRUE
  BY DEF Record

LEMMA RuleIsAboutRequest ==
  ASSUME NEW endpoint, NEW rule, NEW r, NEW captures
  PROVE  /\ About(RuleRecord(endpoint, rule, r, captures), r)
         /\ RuleRecord(endpoint, rule, r, captures).resourceRequest = TRUE
  BY RecordIsAboutRequest DEF RuleRecord, About

LEMMA EndpointIsAboutRequest ==
  ASSUME NEW endpoint, NEW r, NEW captures, EndpointAttributes(endpoint, r, captures) # Error,
         NEW k \in DOMAIN EndpointAttributes(endpoint, r, captures)
  PROVE  About(EndpointAttributes(endpoint, r, captures)[k], r)
  BY RuleIsAboutRequest DEF EndpointAttributes

LEMMA TopLevelIsAboutRequest ==
  ASSUME NEW cfg, NEW r, NEW k \in DOMAIN TopLevelAttributes(cfg, r)
  PROVE  About(TopLevelAttributes(cfg, r)[k], r)
<1>1. About(PathRecord(r), r)
  BY DEF PathRecord, Record, About
<1>2. ASSUME NEW fields PROVE About(Record(r, fields), r)
  BY RecordIsAboutRequest DEF About
<1>3. CASE cfg.resourceAttributes = None
  BY <1>1, <1>3 DEF TopLevelAttributes
<1>4. CASE cfg.resourceAttributes # None
  BY <1>2, <1>4 DEF TopLevelAttributes
<1> QED
  BY <1>3, <1>4

LEMMA AttributesAreAboutRequest ==
  ASSUME NEW cfg, NEW r, NEW captures, Attributes(cfg, r, captures) # Error,
         NEW k \in DOMAIN Attributes(cfg, r, captures)
  PROVE  About(Attributes(cfg, r, captures)[k], r)
  BY EndpointIsAboutRequest, TopLevelIsAboutRequest DEF Attributes

\* A valid rule that grants a record has a path exactly when the record is no
\* resource request, and then it is the record's.
LEMMA GrantingRuleIsExact ==
  ASSUME NEW rule, NEW a, a.resourceRequest \in BOOLEAN, ValidRule(rule), Grants(rule, a)
  PROVE  /\ rule.path = IF a.resourceRequest THEN EmptyPath ELSE a.path
         /\ rule.resourceRequest = a.resourceRequest
<1>1. rule.resourceRequest = a.resourceRequest /\ rule.path \in {EmptyPath, a.path}
  BY DEF Grants
<1>2. rule.resourceRequest <=> rule.path = EmptyPath
  BY DEF ValidRule
<1> QED
  BY <1>1, <1>2

LEMMA InvariantHolds == Spec => []IInv
<1>1. Init => IInv
  BY DEF Init, IInv
<1>2. IInv /\ [Next]_vars => IInv'
  <2> SUFFICES ASSUME IInv, [Next]_vars PROVE IInv'
    OBVIOUS
  <2>1. CASE Load
    BY <2>1 DEF IInv, Load
  <2>2. ASSUME NEW r \in Requests, Generate(r) PROVE IInv'
    BY <2>2 DEF IInv, Generate
  <2>3. CASE Done
    BY <2>3 DEF IInv, Done
  <2>4. CASE UNCHANGED vars
    BY <2>4 DEF IInv, vars
  <2> QED
    BY <2>1, <2>2, <2>3, <2>4 DEF Next
<1> QED
  BY <1>1, <1>2, PTL DEF Spec

\* A static rule grants a record that is no resource request only for the path
\* it names, and a resource request only if it names none: what load() refuses
\* and what static_allows() compares agree, for every configuration.
THEOREM StaticRulesAreExact == Spec => []StaticIsExact
<1>1. IInv => StaticIsExact
  <2> SUFFICES ASSUME IInv, pc = "answered", generated # Error,
                      NEW k \in DOMAIN generated,
                      StaticAllows(config.static, generated[k])
               PROVE  \E i \in DOMAIN config.static :
                        /\ config.static[i].path =
                             IF generated[k].resourceRequest THEN EmptyPath ELSE request.path
                        /\ config.static[i].resourceRequest = generated[k].resourceRequest
    BY DEF StaticIsExact
  <2>1. About(generated[k], request)
    BY AttributesAreAboutRequest DEF IInv
  <2>2. PICK i \in DOMAIN config.static : Grants(config.static[i], generated[k])
    BY DEF StaticAllows
  <2>3. ValidRule(config.static[i])
    BY DEF IInv, Valid
  <2> QED
    BY <2>1, <2>2, <2>3, GrantingRuleIsExact DEF About
<1> QED
  BY <1>1, InvariantHolds, PTL

-----------------------------------------------------------------------------
(* What is answered. *)

LEMMA Answered ==
  ASSUME IInv, pc = "answered"
  PROVE  /\ Fitting # {} =>
              /\ Deciding \in EndpointRecords /\ ValidEndpoint(Deciding)
              /\ Matched(Deciding.path, request.path) /\ PathFits(Deciding.path, request.path)
              /\ \E captures \in CaptureOrders : generated = EndpointAttributes(Deciding, request, captures)
         /\ Fitting = {} => generated = TopLevelAttributes(config, request)
<1> DEFINE matching == {i \in DOMAIN config.endpoints : Matched(config.endpoints[i].path, request.path)}
<1>1. config \in Configs /\ Valid(config) /\ request \in Requests
  BY DEF IInv
<1>2. PICK captures \in CaptureOrders : generated = Attributes(config, request, captures)
  BY DEF IInv
<1>3. \A i \in DOMAIN config.endpoints :
        /\ config.endpoints[i] \in EndpointRecords /\ ValidEndpoint(config.endpoints[i])
        /\ Matched(config.endpoints[i].path, request.path) <=> PathFits(config.endpoints[i].path, request.path)
  BY <1>1, MatchingIsFitting
<1>4. matching = Fitting
  BY <1>3 DEF Fitting
<1>5. DOMAIN config.endpoints \subseteq Nat
  BY <1>1, ConfigShape
<1>6. CASE Fitting = {}
  BY <1>2, <1>4, <1>6 DEF Attributes
<1>7. CASE Fitting # {}
  <2>1. Fitting \subseteq DOMAIN config.endpoints
    BY DEF Fitting
  <2>2. Min(Fitting) \in Fitting
    BY <1>5, <1>7, <2>1, MinSmallest
  <2>3. generated = EndpointAttributes(config.endpoints[Min(matching)], request, captures)
    BY <1>2, <1>4, <1>7 DEF Attributes
  <2>4. Min(Fitting) \in DOMAIN config.endpoints /\ PathFits(Deciding.path, request.path)
    BY <2>2 DEF Fitting, Deciding
  <2>5. generated = EndpointAttributes(Deciding, request, captures)
    BY <1>4, <2>3 DEF Deciding
  <2> QED
    BY <1>3, <1>7, <2>4, <2>5 DEF Deciding
<1> QED
  BY <1>6, <1>7

\* Every state has its type: a record is made of the request's own user and
\* path and of texts, and an answer is a sequence of records or an error.
THEOREM TypeCorrect == Spec => []TypeOK
<1>1. IInv => TypeOK
  <2> SUFFICES ASSUME IInv PROVE TypeOK
    OBVIOUS
  <2>1. CASE pc # "answered"
    BY <2>1 DEF IInv, TypeOK
  <2>2. CASE pc = "answered"
    <3>1. request \in Requests /\ config \in Configs
      BY <2>2 DEF IInv
    <3>2. generated \in Seq(AttributeRecords) \cup {Error}
      <4>1. CASE Fitting = {}
        BY <2>2, <3>1, <4>1, Answered, RequestShape, TopLevelType
      <4>2. CASE Fitting # {}
        <5>1. Deciding \in EndpointRecords /\ Matched(Deciding.path, request.path)
          BY <2>2, <4>2, Answered
        <5>2. PICK captures \in CaptureOrders : generated = EndpointAttributes(Deciding, request, captures)
          BY <2>2, <4>2, Answered
        <5> HIDE DEF Deciding
        <5> QED
          BY <3>1, <5>1, <5>2, RequestShape, EndpointOutcome
      <4> QED
        BY <4>1, <4>2
    <3>3. request # None /\ generated # None
      BY <3>1, <3>2, RecordAssumption
    <3> QED
      BY <2>2, <3>1, <3>2, <3>3 DEF TypeOK
  <2> QED
    BY <2>1, <2>2
<1> QED
  BY <1>1, InvariantHolds, PTL

\* The deciding mapping is the first that EndpointAttributes looks for.
LEMMA DecidingMapping ==
  ASSUME Deciding.mappings \in Seq(MappingRecords), NEW m \in DOMAIN Deciding.mappings
  PROVE  Decides(m) <=>
           /\ m \in Able(Deciding, request)
           /\ \A l \in Able(Deciding, request) : m <= l
<1> DEFINE maps == Deciding.mappings
           able == Able(Deciding, request)
<1>1. DOMAIN maps = 1 .. Len(maps) /\ Len(maps) \in Nat
  OBVIOUS
<1>2. able = {i \in DOMAIN maps : Serving(maps[i], request.method)}
  BY DEF Able
<1>3. Decides(m) <=> /\ Serving(maps[m], request.method)
                     /\ \A l \in 1 .. m - 1 : ~Serving(maps[l], request.method)
  BY DEF Decides
<1> HIDE DEF maps, able
<1>4. m \in 1 .. Len(maps)
  BY <1>1 DEF maps
<1>5. Decides(m) <=> m \in able /\ \A l \in 1 .. m - 1 : l \notin able
  BY <1>1, <1>2, <1>3, <1>4
<1>6. (\A l \in 1 .. m - 1 : l \notin able) <=> \A l \in able : m <= l
  <2>1. able \subseteq 1 .. Len(maps)
    BY <1>1, <1>2
  <2> QED
    BY <1>1, <1>4, <2>1
<1> QED
  BY <1>5, <1>6 DEF able

\* An answer that an endpoint decides, and the mapping it has.
LEMMA Decided ==
  ASSUME IInv, pc = "answered", Fitting # {}
  PROVE  \/ generated = Error /\ Able(Deciding, request) = {}
         \/ \E m \in DOMAIN Deciding.mappings, captures \in CaptureOrders :
              LET rules == Deciding.mappings[m].resources
              IN /\ Decides(m) /\ rules \in Seq(ResourceRules)
                 /\ \A l \in DOMAIN Deciding.mappings : Decides(l) => l = m
                 /\ \/ generated = Error /\ \E k \in DOMAIN rules : Missing(request, rules[k].rewrites)
                    \/ /\ \A k \in DOMAIN rules : ~ Missing(request, rules[k].rewrites)
                       /\ generated # Error
                       /\ generated = [k \in DOMAIN rules |-> RuleRecord(Deciding, rules[k], request, captures)]
<1> DEFINE able == Able(Deciding, request)
           m == Min(able)
           rules == Deciding.mappings[m].resources
<1>1. Deciding \in EndpointRecords /\ Matched(Deciding.path, request.path)
  BY Answered
<1>2. PICK captures \in CaptureOrders : generated = EndpointAttributes(Deciding, request, captures)
  BY Answered
<1>3. request \in RequestRecords
  BY RequestShape DEF IInv
<1>4. Deciding.mappings \in Seq(MappingRecords)
  BY <1>1, EndpointShape
<1>5. \/ able = {} /\ generated = Error
      \/ /\ able # {} /\ m \in able /\ \A l \in able : m <= l
         /\ rules \in Seq(ResourceRules)
         /\ \/ generated = Error /\ \E k \in DOMAIN rules : Missing(request, rules[k].rewrites)
            \/ /\ \A k \in DOMAIN rules : ~ Missing(request, rules[k].rewrites)
               /\ generated = [k \in DOMAIN rules |-> RuleRecord(Deciding, rules[k], request, captures)]
               /\ generated # Error
  BY <1>1, <1>2, <1>3, EndpointOutcome DEF RulesFor
<1>6. CASE able # {}
  <2>1. m \in able /\ able \subseteq DOMAIN Deciding.mappings /\ able \subseteq Nat
    <3>1. able \subseteq DOMAIN Deciding.mappings
      BY DEF Able
    <3>2. DOMAIN Deciding.mappings \subseteq Nat
      BY <1>4
    <3> HIDE DEF able
    <3> QED
      BY <1>5, <1>6, <3>1, <3>2
  <2>2. m \in DOMAIN Deciding.mappings
    BY <2>1
  <2>3. \A l \in DOMAIN Deciding.mappings : Decides(l) <=> l \in able /\ \A j \in able : l <= j
    BY <1>4, DecidingMapping
  <2> HIDE DEF able
  <2>4. \A l \in able : m <= l
    BY <1>5, <1>6
  <2>5. Decides(m)
    BY <2>1, <2>2, <2>3, <2>4
  <2>6. ASSUME NEW l \in DOMAIN Deciding.mappings, Decides(l) PROVE l = m
    <3>1. l \in able /\ l <= m
      BY <2>1, <2>3, <2>6
    <3>2. m <= l /\ l \in Nat /\ m \in Nat
      BY <2>1, <2>4, <3>1
    <3> HIDE DEF m
    <3> QED
      BY <3>1, <3>2
  <2> HIDE DEF m
  <2> QED
    BY <1>5, <1>6, <2>2, <2>5, <2>6
<1> QED
  BY <1>5, <1>6

\* The first endpoint whose pattern fits the path as it resolves decides, for
\* patterns and paths of every length, and in it the first mapping: what
\* endpoint_match computes by popping and comparing is what PathFits says of
\* each segment.
THEOREM FirstMatchDecides == Spec => []DecidedByFirstMatch
<1>1. IInv => DecidedByFirstMatch
  <2> SUFFICES ASSUME IInv, pc = "answered", Fitting # {}
               PROVE  \/ /\ generated = Error
                         /\ \A m \in DOMAIN Deciding.mappings : ~Serving(Deciding.mappings[m], request.method)
                      \/ \E m \in DOMAIN Deciding.mappings :
                           LET rules == Deciding.mappings[m].resources
                           IN /\ Decides(m)
                              /\ generated = Error <=> \E k \in DOMAIN rules : Missing(request, rules[k].rewrites)
                              /\ generated # Error =>
                                   /\ DOMAIN generated = DOMAIN rules
                                   /\ \A k \in DOMAIN rules : generated[k].resourceRequest
    BY DEF DecidedByFirstMatch
  <2>1. CASE generated = Error /\ Able(Deciding, request) = {}
    BY <2>1 DEF Able
  <2>2. CASE ~ (generated = Error /\ Able(Deciding, request) = {})
    <3>1. PICK m \in DOMAIN Deciding.mappings, captures \in CaptureOrders :
            LET rules == Deciding.mappings[m].resources
            IN /\ Decides(m)
               /\ \/ generated = Error /\ \E k \in DOMAIN rules : Missing(request, rules[k].rewrites)
                  \/ /\ \A k \in DOMAIN rules : ~ Missing(request, rules[k].rewrites)
                     /\ generated # Error
                     /\ generated = [k \in DOMAIN rules |-> RuleRecord(Deciding, rules[k], request, captures)]
      BY <2>2, Decided
    <3> DEFINE rules == Deciding.mappings[m].resources
    <3>2. ASSUME NEW k \in DOMAIN rules, generated # Error PROVE generated[k].resourceRequest
      <4>1. generated[k] = RuleRecord(Deciding, rules[k], request, captures)
        BY <3>1, <3>2
      <4>2. generated[k].resourceRequest = TRUE
        BY <4>1, RuleIsAboutRequest
      <4> QED
        BY <4>2
    <3>3. generated = Error <=> \E k \in DOMAIN rules : Missing(request, rules[k].rewrites)
      BY <3>1
    <3>4. generated # Error => DOMAIN generated = DOMAIN rules
      BY <3>1
    <3> QED
      BY <3>1, <3>2, <3>3, <3>4
  <2> QED
    BY <2>1, <2>2
<1> QED
  BY <1>1, InvariantHolds, PTL

\* A rule that asks for a value, of a request that gives it, has it for the hole.
LEMMA FillingSupplied ==
  ASSUME NEW endpoint \in EndpointRecords, NEW rule \in ResourceRules, NEW r \in Requests,
         Matched(endpoint.path, r.path), ~ Missing(r, rule.rewrites), NEW h,
         \/ h = "header" /\ rule.rewrites.byHttpHeader # None
         \/ h = "query" /\ rule.rewrites.byQueryParameter # None
         \/ h = "value" /\ {rule.rewrites.byHttpHeader, rule.rewrites.byQueryParameter} # {None}
         \/ h = "method"
         \/ h \in Captures /\ Kept(r.path) # {} /\ h \in ToSet(Clean(endpoint.path))
  PROVE  /\ h \in DOMAIN Filling(endpoint, rule, r) /\ h \in Holes
         /\ Filling(endpoint, rule, r)[h] # Empty
<1> DEFINE header == HeaderOf(r, rule.rewrites)
           query == QueryOf(r, rule.rewrites)
           params == PathParams(endpoint.path, r.path)
           D == {"value", "header", "query", "method"} \cup DOMAIN params
<1>1. endpoint.path \in Seq(Segments) /\ r.path \in Seq(Segments)
  BY EndpointShape, RequestShape
<1>2. Filling(endpoint, rule, r) =
        [g \in D |->
           CASE g = "value" -> IF header # Empty THEN header ELSE query
             [] g = "header" -> header
             [] g = "query" -> query
             [] g = "method" -> KubeVerb(r.method)
             [] OTHER -> params[g]]
  BY DEF Filling
<1>3. DOMAIN params = ToSet(Clean(endpoint.path)) \cap Captures
  BY DEF PathParams
<1>4. Kept(r.path) # {} => \A c \in DOMAIN params : params[c] # Empty
  BY <1>1, ParamText
<1>5. /\ rule.rewrites.byHttpHeader # None => header # Empty
      /\ rule.rewrites.byQueryParameter # None => query # Empty
  BY DEF Missing
<1>6. KubeVerb(r.method) # Empty
  BY VerbText
<1>7. h \in D /\ h \in Holes
  <2>1. h \in {"value", "header", "query", "method"} \/ h \in DOMAIN params
    BY <1>3
  <2>2. h \in Holes
    BY <1>3, <2>1 DEF Holes
  <2> HIDE DEF params
  <2> QED
    BY <2>1, <2>2
<1> HIDE DEF header, query, params
<1>8. Filling(endpoint, rule, r)[h] # Empty
  <2>1. CASE h = "header" /\ rule.rewrites.byHttpHeader # None
    BY <1>2, <1>5, <1>7, <2>1
  <2>2. CASE h = "query" /\ rule.rewrites.byQueryParameter # None
    BY <1>2, <1>5, <1>7, <2>2
  <2>3. CASE h = "value" /\ {rule.rewrites.byHttpHeader, rule.rewrites.byQueryParameter} # {None}
    BY <1>2, <1>5, <1>7, <2>3
  <2>4. CASE h = "method"
    BY <1>2, <1>6, <1>7, <2>4
  <2>5. CASE h \in Captures /\ Kept(r.path) # {} /\ h \in ToSet(Clean(endpoint.path))
    <3>1. h \notin {"value", "header", "query", "method"} /\ h \in DOMAIN params
      BY <1>3, <2>5, HoleAssumption
    <3>2. Filling(endpoint, rule, r)[h] = params[h]
      BY <1>2, <1>7, <3>1
    <3> QED
      BY <1>4, <2>5, <3>1, <3>2
  <2> QED
    BY <2>1, <2>2, <2>3, <2>4, <2>5
<1> QED
  BY <1>2, <1>7, <1>8

\* A field of a rule's record, where the verb has the request's as a default.
LEMMA FilledField ==
  ASSUME NEW endpoint, NEW rule, NEW r, NEW captures, NEW f \in Fields
  PROVE  LET text == Filled(rule.resourceAttributes[f], EndpointOrder(captures), Filling(endpoint, rule, r))
         IN RuleRecord(endpoint, rule, r, captures).fields[f]
              = IF f = "verb" /\ text = Empty THEN KubeVerb(r.method) ELSE text
<1> DEFINE text(g) == Filled(rule.resourceAttributes[g], EndpointOrder(captures), Filling(endpoint, rule, r))
           fields == [g \in Fields |-> text(g)]
<1>1. RuleRecord(endpoint, rule, r, captures) = Record(r, fields)
  BY DEF RuleRecord
<1> HIDE DEF text
<1>2. DOMAIN fields = Fields /\ fields[f] = text(f)
  OBVIOUS
<1> HIDE DEF fields
<1>3. Record(r, fields).fields[f] = IF f = "verb" /\ fields[f] = Empty THEN KubeVerb(r.method) ELSE fields[f]
  <2>1. Record(r, fields).fields
          = [fields EXCEPT !["verb"] = IF fields["verb"] = Empty THEN KubeVerb(r.method) ELSE fields["verb"]]
    BY DEF Record
  <2>2. CASE f = "verb"
    BY <1>2, <2>1, <2>2
  <2>3. CASE f # "verb"
    BY <1>2, <2>1, <2>3
  <2> QED
    BY <2>2, <2>3
<1>4. RuleRecord(endpoint, rule, r, captures).fields[f]
        = IF f = "verb" /\ text(f) = Empty THEN KubeVerb(r.method) ELSE text(f)
  BY <1>1, <1>2, <1>3
<1> QED
  BY <1>4 DEF text

\* No review is widened by a value that is missing: a field that a rule fills
\* from the request has the request's value, or there is no record, unless the
\* value is itself a placeholder, whatever the order of the captures.
THEOREM GivenValuesAreKept == Spec => []FieldsAreGiven
<1>1. IInv => FieldsAreGiven
  <2> SUFFICES ASSUME IInv, pc = "answered", Fitting # {}, generated # Error,
                      NEW m \in DOMAIN Deciding.mappings, Decides(m),
                      NEW k \in DOMAIN Deciding.mappings[m].resources, NEW f \in Fields,
                      Supplied(Deciding.mappings[m].resources[k], f)
               PROVE  LET rule == Deciding.mappings[m].resources[k]
                          given == Filling(Deciding, rule, request)[HoleIn(rule, f)]
                      IN given # Empty /\ (HoleOf[given] = None => generated[k].fields[f] = given)
    BY DEF FieldsAreGiven
  <2> DEFINE rules == Deciding.mappings[m].resources
             rule == rules[k]
             filling == Filling(Deciding, rule, request)
             t == rule.resourceAttributes[f]
             h == HoleOf[t]
             given == filling[h]
  <2>1. Deciding \in EndpointRecords /\ Matched(Deciding.path, request.path) /\ request \in Requests
    BY Answered DEF IInv
  <2>2. PICK n \in DOMAIN Deciding.mappings, captures \in CaptureOrders :
          LET own == Deciding.mappings[n].resources
          IN /\ own \in Seq(ResourceRules)
             /\ \A l \in DOMAIN Deciding.mappings : Decides(l) => l = n
             /\ \A i \in DOMAIN own : ~ Missing(request, own[i].rewrites)
             /\ generated = [i \in DOMAIN own |-> RuleRecord(Deciding, own[i], request, captures)]
    BY Decided
  <2>3. m = n
    BY <2>2
  <2>4. /\ rules \in Seq(ResourceRules) /\ ~ Missing(request, rule.rewrites)
        /\ generated[k] = RuleRecord(Deciding, rule, request, captures)
    BY <2>2, <2>3
  <2>5. rule \in ResourceRules
    <3> HIDE DEF rules
    <3> QED
      BY <2>4 DEF rules
  <2>6. h \in DOMAIN filling /\ h \in Holes /\ given # Empty
    <3>1. \/ h = "header" /\ rule.rewrites.byHttpHeader # None
          \/ h = "query" /\ rule.rewrites.byQueryParameter # None
          \/ h = "value" /\ {rule.rewrites.byHttpHeader, rule.rewrites.byQueryParameter} # {None}
          \/ h = "method"
          \/ h \in Captures /\ Kept(request.path) # {} /\ h \in ToSet(Clean(Deciding.path))
      <4> HIDE DEF Deciding
      <4> QED
        BY DEF Supplied, HoleIn
    <3> HIDE DEF rule, h, Deciding
    <3> QED
      BY <2>1, <2>4, <2>5, <3>1, FillingSupplied
  <2>7. HoleOf[given] = None => generated[k].fields[f] = given
    <3> SUFFICES ASSUME HoleOf[given] = None PROVE generated[k].fields[f] = given
      OBVIOUS
    <3> DEFINE text == Filled(t, EndpointOrder(captures), filling)
    <3>1. text = given
      <4> HIDE DEF filling, t
      <4> QED
        BY <2>6, EndpointFilled
    <3> DEFINE record == RuleRecord(Deciding, rule, request, captures)
    <3>2. record.fields[f] = IF f = "verb" /\ text = Empty THEN KubeVerb(request.method) ELSE text
      BY FilledField
    <3>3. generated[k] = record
      BY <2>4
    <3> HIDE DEF text, given, record
    <3> QED
      BY <2>6, <3>1, <3>2, <3>3
  <2> QED
    BY <2>6, <2>7 DEF HoleIn
<1> QED
  BY <1>1, InvariantHolds, PTL

-----------------------------------------------------------------------------
(* Counting values. *)

\* The places of v in a sequence.
PlacesOf(s, v) == {i \in DOMAIN s : s[i] = v}

LEMMA SamePlaces ==
  ASSUME NEW A, NEW B, IsFiniteSet(A), NEW f \in [A -> B],
         \A x, y \in A : f[x] = f[y] => x = y, \A b \in B : \E a \in A : f[a] = b
  PROVE  IsFiniteSet(B) /\ Cardinality(B) = Cardinality(A)
<1>1. f \in Bijection(A, B)
  BY DEF Bijection, Injection, Surjection, IsInjective
<1> QED
  BY <1>1, FS_Bijection DEF ExistsBijection

\* A set is as large as the part of 1 .. n that a bijection takes to it.
LEMMA CountAlong ==
  ASSUME NEW n \in Nat, NEW S, NEW own \in Bijection(1 .. n, S), NEW T, T \subseteq S
  PROVE  Cardinality({k \in 1 .. n : own[k] \in T}) = Cardinality(T)
<1> DEFINE A == {k \in 1 .. n : own[k] \in T}
           f == [k \in A |-> own[k]]
<1>1. IsFiniteSet(A)
  BY FS_Interval, FS_Subset
<1>2. f \in [A -> T]
  OBVIOUS
<1>3. \A x, y \in A : f[x] = f[y] => x = y
  BY DEF Bijection, Injection, IsInjective
<1>4. \A b \in T : \E a \in A : f[a] = b
  BY DEF Bijection, Surjection
<1> HIDE DEF A, f
<1>5. Cardinality(T) = Cardinality(A)
  BY <1>1, <1>2, <1>3, <1>4, SamePlaces
<1> QED
  BY <1>5 DEF A

\* A name has a value as often as the pairs give it.
LEMMA ValuesOfCount ==
  ASSUME NEW V, NEW pairs \in Pairs(V), NEW name, NEW v
  PROVE  Cardinality(PlacesOf(ValuesOf(pairs, name), v)) = Times(pairs, name, v)
<1> DEFINE S == {i \in DOMAIN pairs : pairs[i].name = name}
           own == InOrder(S)
           n == Cardinality(S)
           T == {i \in DOMAIN pairs : pairs[i] = [name |-> name, value |-> v]}
           P == [name : STRING, value : V]
<1>1. pairs \in Seq(P)
  BY DEF Pairs
<1>2. n \in Nat /\ own \in Bijection(1 .. n, S) /\ DOMAIN own = 1 .. n
  <2>1. S \subseteq DOMAIN pairs
    OBVIOUS
  <2> HIDE DEF S
  <2> QED
    BY <1>1, <2>1, PickedPositions
<1>3. ValuesOf(pairs, name) = [k \in 1 .. n |-> pairs[own[k]].value]
  <2>1. ValuesOf(pairs, name) = [k \in DOMAIN own |-> pairs[own[k]].value]
    BY DEF ValuesOf
  <2> HIDE DEF own
  <2> QED
    BY <1>2, <2>1
<1>4. ASSUME NEW i \in DOMAIN pairs
      PROVE  i \in T <=> pairs[i].name = name /\ pairs[i].value = v
  <2>1. pairs[i] \in P
    <3> HIDE DEF P
    <3> QED
      BY <1>1
  <2>2. pairs[i] = [name |-> pairs[i].name, value |-> pairs[i].value]
    BY <2>1
  <2> QED
    BY <2>2
<1>5. T \subseteq S
  BY <1>4
<1>6. \A k \in 1 .. n : own[k] \in S
  BY <1>2 DEF Bijection, Injection
<1>7. PlacesOf(ValuesOf(pairs, name), v) = {k \in 1 .. n : own[k] \in T}
  <2> DEFINE vs == ValuesOf(pairs, name)
  <2>1. DOMAIN vs = 1 .. n /\ \A k \in 1 .. n : vs[k] = pairs[own[k]].value
    BY <1>3
  <2>2. \A k \in 1 .. n : own[k] \in T <=> pairs[own[k]].value = v
    <3> HIDE DEF own, n, T
    <3> QED
      BY <1>4, <1>6
  <2> HIDE DEF vs, own, n, T
  <2> QED
    BY <2>1, <2>2 DEF PlacesOf, vs
<1>8. Cardinality({k \in 1 .. n : own[k] \in T}) = Cardinality(T)
  <2> HIDE DEF own, n, S, T
  <2> QED
    BY <1>2, <1>5, CountAlong
<1> QED
  BY <1>7, <1>8 DEF Times

\* Legible loses only opaque values.
LEMMA LegibleCount ==
  ASSUME NEW V, NEW s \in Seq(V), NEW v, v # Opaque
  PROVE  Cardinality(PlacesOf(Legible(s), v)) = Cardinality(PlacesOf(s, v))
<1> DEFINE S == {i \in DOMAIN s : s[i] # Opaque}
           own == InOrder(S)
           n == Cardinality(S)
           T == PlacesOf(s, v)
<1>1. n \in Nat /\ own \in Bijection(1 .. n, S) /\ DOMAIN own = 1 .. n
  <2>1. S \subseteq DOMAIN s
    OBVIOUS
  <2> HIDE DEF S
  <2> QED
    BY <2>1, PickedPositions
<1>2. Legible(s) = [k \in 1 .. n |-> s[own[k]]]
  <2>1. Legible(s) = [k \in DOMAIN own |-> s[own[k]]]
    BY DEF Legible
  <2> HIDE DEF own
  <2> QED
    BY <1>1, <2>1
<1>3. T \subseteq S
  BY DEF PlacesOf
<1>4. \A k \in 1 .. n : own[k] \in DOMAIN s
  BY <1>1 DEF Bijection, Injection
<1>5. PlacesOf(Legible(s), v) = {k \in 1 .. n : own[k] \in T}
  <2>1. \A k \in 1 .. n : own[k] \in T <=> s[own[k]] = v
    BY <1>4 DEF PlacesOf
  <2> DEFINE vs == Legible(s)
  <2>2. DOMAIN vs = 1 .. n /\ \A k \in 1 .. n : vs[k] = s[own[k]]
    BY <1>2
  <2> HIDE DEF vs, own, n, T
  <2> QED
    BY <2>1, <2>2 DEF PlacesOf, vs
<1>6. Cardinality({k \in 1 .. n : own[k] \in T}) = Cardinality(T)
  <2> HIDE DEF own, n, S, T
  <2> QED
    BY <1>1, <1>3, CountAlong
<1> QED
  BY <1>5, <1>6

LEMMA PlacesOfFinite ==
  ASSUME NEW V, NEW s \in Seq(V), NEW v
  PROVE  IsFiniteSet(PlacesOf(s, v)) /\ Cardinality(PlacesOf(s, v)) \in Nat
<1>1. PlacesOf(s, v) \subseteq 1 .. Len(s) /\ Len(s) \in Nat
  BY DEF PlacesOf
<1>2. IsFiniteSet(PlacesOf(s, v))
  BY <1>1, PlacesOfPrefix DEF Places
<1> QED
  BY <1>2, FS_CardinalityType

LEMMA ConcatCount ==
  ASSUME NEW V, NEW a \in Seq(V), NEW b \in Seq(V), NEW v
  PROVE  Cardinality(PlacesOf(a \o b, v)) = Cardinality(PlacesOf(a, v)) + Cardinality(PlacesOf(b, v))
<1> DEFINE m == Len(a)
           A == PlacesOf(a, v)
           B == PlacesOf(b, v)
           C == {i + m : i \in B}
           f == [i \in B |-> i + m]
<1>1. m \in Nat /\ A \subseteq 1 .. m /\ B \subseteq 1 .. Len(b) /\ Len(b) \in Nat
  BY DEF PlacesOf
<1>2. IsFiniteSet(A) /\ IsFiniteSet(B) /\ Cardinality(A) \in Nat /\ Cardinality(B) \in Nat
  BY PlacesOfFinite
<1>3. IsFiniteSet(C) /\ Cardinality(C) = Cardinality(B)
  <2>1. f \in [B -> C]
    OBVIOUS
  <2>2. \A x, y \in B : f[x] = f[y] => x = y
    <3> HIDE DEF B, m
    <3> QED
      BY <1>1
  <2>3. \A c \in C : \E i \in B : f[i] = c
    OBVIOUS
  <2> HIDE DEF f, B, C
  <2> QED
    BY <1>2, <2>1, <2>2, <2>3, SamePlaces
<1>4. A \cap C = {}
  <2> HIDE DEF A, B, m
  <2> QED
    BY <1>1
<1>5. PlacesOf(a \o b, v) = A \cup C
  <2>1. DOMAIN (a \o b) = 1 .. m + Len(b)
    OBVIOUS
  <2>2. \A i \in 1 .. m : i \in PlacesOf(a \o b, v) <=> i \in A
    BY <2>1 DEF PlacesOf
  <2>3. ASSUME NEW i \in 1 .. m + Len(b), i > m
        PROVE  i \in PlacesOf(a \o b, v) <=> i \in C
    <3>1. i - m \in 1 .. Len(b) /\ (a \o b)[i] = b[i - m]
      BY <2>3
    <3>2. i \in C <=> i - m \in B
      <4> HIDE DEF B, m
      <4> QED
        BY <1>1, <2>3
    <3> QED
      BY <2>1, <3>1, <3>2 DEF PlacesOf
  <2>4. C \subseteq m + 1 .. m + Len(b)
    <3> HIDE DEF B, m
    <3> QED
      BY <1>1
  <2>5. PlacesOf(a \o b, v) \subseteq 1 .. m + Len(b)
    BY <2>1 DEF PlacesOf
  <2> DEFINE D == PlacesOf(a \o b, v)
             l == Len(b)
  <2> HIDE DEF A, C, D, m, l
  <2>6. ASSUME NEW i \in Nat PROVE i \in D <=> i \in A \cup C
    <3>1. CASE i \in 1 .. m
      BY <1>1, <2>2, <2>4, <3>1 DEF D, l
    <3>2. CASE i \in 1 .. m + l /\ i > m
      BY <1>1, <2>3, <3>2 DEF D, l
    <3>3. CASE i \notin 1 .. m + l
      BY <1>1, <2>4, <2>5, <3>3 DEF D, l
    <3> QED
      BY <1>1, <3>1, <3>2, <3>3 DEF l
  <2>7. A \cup C \subseteq Nat /\ D \subseteq Nat
    BY <1>1, <2>4, <2>5 DEF D, l
  <2>8. D = A \cup C
    BY <2>6, <2>7
  <2> QED
    BY <2>8 DEF D
<1> HIDE DEF A, B, C
<1>6. Cardinality(A \cup C) = Cardinality(A) + Cardinality(C) - Cardinality(A \cap C)
  BY <1>2, <1>3, FS_Union
<1>7. Cardinality(A \cap C) = 0
  BY <1>4, FS_EmptySet
<1> QED
  BY <1>2, <1>3, <1>5, <1>6, <1>7 DEF A, B

\* A name is given a value as often as the pairs say; no name is given none.
LEMMA GivenCount ==
  ASSUME NEW V, NEW pairs \in Pairs(V), NEW name, NEW v
  PROVE  Cardinality(PlacesOf(Given(pairs, name), v)) = Times(pairs, name, v)
<1>1. CASE name = None
  <2>1. PlacesOf(Given(pairs, name), v) = {}
    BY <1>1 DEF Given, PlacesOf
  <2>2. {i \in DOMAIN pairs : pairs[i] = [name |-> name, value |-> v]} = {}
    <3> SUFFICES ASSUME NEW i \in DOMAIN pairs PROVE pairs[i] # [name |-> name, value |-> v]
      OBVIOUS
    <3> DEFINE P == [name : STRING, value : V]
    <3>1. pairs \in Seq(P)
      BY DEF Pairs
    <3>2. pairs[i] \in P
      <4> HIDE DEF P
      <4> QED
        BY <3>1
    <3>3. pairs[i].name # None
      BY <3>2, HoleAssumption
    <3> QED
      BY <1>1, <3>3
  <2> QED
    BY <2>1, <2>2 DEF Times
<1>2. CASE name # None
  BY <1>2, ValuesOfCount DEF Given
<1> QED
  BY <1>1, <1>2

LEMMA CollectCount ==
  ASSUME NEW r \in RequestRecords, NEW rewrites, NEW v \in Texts
  PROVE  Cardinality(PlacesOf(Collect(r, rewrites), v))
           = Times(r.query, rewrites.byQueryParameter, v) + Times(r.headers, rewrites.byHttpHeader, v)
<1> DEFINE U == Texts \cup {Opaque}
           q == Given(r.query, rewrites.byQueryParameter)
           h == Given(r.headers, rewrites.byHttpHeader)
<1>1. Collect(r, rewrites) = Legible(q \o h) /\ q \in Seq(U) /\ h \in Seq(U)
  BY CollectText
<1>2. r.query \in Pairs(Texts) /\ r.headers \in Pairs(Texts \cup {Opaque})
  BY RecordShape
<1>3. /\ Cardinality(PlacesOf(q, v)) = Times(r.query, rewrites.byQueryParameter, v)
      /\ Cardinality(PlacesOf(h, v)) = Times(r.headers, rewrites.byHttpHeader, v)
  BY <1>2, GivenCount
<1>4. v # Opaque
  BY AuthorizationAssumption
<1> HIDE DEF q, h, U
<1>5. q \o h \in Seq(U)
  BY <1>1
<1>6. Cardinality(PlacesOf(Legible(q \o h), v)) = Cardinality(PlacesOf(q \o h, v))
  BY <1>4, <1>5, LegibleCount
<1>7. Cardinality(PlacesOf(q \o h, v)) = Cardinality(PlacesOf(q, v)) + Cardinality(PlacesOf(h, v))
  BY <1>1, ConcatCount
<1> QED
  BY <1>1, <1>3, <1>6, <1>7

\* {{ .Value }} at the top level becomes the value, whatever it is.
LEMMA TopLevelFilled ==
  ASSUME NEW template, HoleOf[template] = "value", NEW v
  PROVE  Filled(template, <<"value">>, [value |-> v]) = v
<1> DEFINE order == <<"value">>
           given == [value |-> v]
<1>1. Len(order) = 1 /\ order[1] = "value" /\ "value" \in DOMAIN given /\ given["value"] = v
  OBVIOUS
<1> HIDE DEF order, given
<1>0. PICK left : Fills(left, template, order, given)
  BY <1>1, FilledSteps
<1>2. /\ left[0] = template
      /\ \A n \in 1 .. Len(order) : left[n] = Replaced(left[n - 1], order[n], given)
      /\ Filled(template, order, given) = left[Len(order)]
  BY <1>0 DEF Fills
<1>3. left[1] = Replaced(left[0], order[1], given)
  BY <1>1, <1>2
<1>4. left[1] = v
  BY <1>1, <1>2, <1>3 DEF Replaced
<1> QED
  BY <1>1, <1>2, <1>4 DEF order, given

\* A field that top-level attributes fill from the collected values.
LEMMA CollectedField ==
  ASSUME NEW c, c.resourceAttributes # None, c.rewrites # None, NEW r,
         NEW f \in Fields, f # "verb", HoleOf[c.resourceAttributes[f]] = "value"
  PROVE  /\ DOMAIN TopLevelAttributes(c, r) = DOMAIN Collect(r, c.rewrites)
         /\ \A k \in DOMAIN Collect(r, c.rewrites) :
              TopLevelAttributes(c, r)[k].fields[f] = Collect(r, c.rewrites)[k]
<1> DEFINE values == Collect(r, c.rewrites)
           field(g, v) == IF g = "verb" THEN c.resourceAttributes[g]
                          ELSE Filled(c.resourceAttributes[g], <<"value">>, [value |-> v])
           filled(v) == [g \in Fields |-> field(g, v)]
<1>1. TopLevelAttributes(c, r) = [k \in DOMAIN values |-> Record(r, filled(values[k]))]
  BY DEF TopLevelAttributes
<1>2. ASSUME NEW v PROVE Record(r, filled(v)).fields[f] = v
  <2>1. DOMAIN filled(v) = Fields /\ filled(v)[f] = field(f, v)
    <3> HIDE DEF field
    <3> QED
      OBVIOUS
  <2>2. Filled(c.resourceAttributes[f], <<"value">>, [value |-> v]) = v
    BY TopLevelFilled
  <2>3. filled(v)[f] = v
    BY <2>1, <2>2
  <2> DEFINE g == filled(v)
  <2> HIDE DEF g
  <2>4. Record(r, g).fields = [g EXCEPT !["verb"] = IF g["verb"] = Empty THEN KubeVerb(r.method) ELSE g["verb"]]
    BY DEF Record
  <2>5. Record(r, g).fields[f] = g[f]
    BY <2>1, <2>4 DEF g
  <2> QED
    BY <2>3, <2>5 DEF g
<1> HIDE DEF values, filled
<1> QED
  BY <1>1, <1>2 DEF values

\* However often a value is given, in the query, in the headers or in both, it
\* is asked about as often: none is lost, and none is added.
THEOREM ValuesAreAsked == Spec => []EveryValueIsAsked
<1>1. IInv => EveryValueIsAsked
  <2> SUFFICES ASSUME IInv, pc = "answered", Fitting = {},
                      None \notin {config.resourceAttributes, config.rewrites},
                      NEW f \in Fields \ {"verb"}, HoleOf[config.resourceAttributes[f]] = "value",
                      NEW v \in Texts
               PROVE  Cardinality({k \in DOMAIN generated : generated[k].fields[f] = v})
                        = Times(request.query, config.rewrites.byQueryParameter, v)
                            + Times(request.headers, config.rewrites.byHttpHeader, v)
    BY DEF EveryValueIsAsked
  <2> DEFINE values == Collect(request, config.rewrites)
  <2>1. request \in Requests /\ generated = TopLevelAttributes(config, request)
    BY Answered DEF IInv
  <2>2. /\ DOMAIN generated = DOMAIN values
        /\ \A k \in DOMAIN values : generated[k].fields[f] = values[k]
    BY <2>1, CollectedField
  <2>3. Cardinality(PlacesOf(values, v))
          = Times(request.query, config.rewrites.byQueryParameter, v)
              + Times(request.headers, config.rewrites.byHttpHeader, v)
    BY <2>1, RequestShape, CollectCount
  <2>4. {k \in DOMAIN generated : generated[k].fields[f] = v} = PlacesOf(values, v)
    BY <2>2 DEF PlacesOf
  <2> QED
    BY <2>3, <2>4
<1> QED
  BY <1>1, InvariantHolds, PTL
=============================================================================
