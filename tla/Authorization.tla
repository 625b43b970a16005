----------------------------- MODULE Authorization -----------------------------
(***************************************************************************)
(* src/authorization.rs: what attributes() makes of a request under a      *)
(* validated configuration, and which records static_allows() grants.      *)
(*                                                                         *)
(* A text is a string; paths and patterns are split at their slashes, so   *)
(* "/" is <<"", "">> and the empty path is <<"">>.  A template is a text,   *)
(* and a text is one placeholder, in either spelling, or none: what        *)
(* surrounds a placeholder is left out.  HoleOf names the hole of a        *)
(* placeholder; that of {{ index .PathParams "x" }} is the capture, "{x}". *)
(* A request may supply any text, a placeholder too.                       *)
(***************************************************************************)
EXTENDS Naturals, Sequences, SequencesExt, FiniteSetsExt

CONSTANTS
  Segments,   \* what a path or a pattern has between its slashes
  Braced,     \* the segments that contain a brace
  Enclosed,   \* those that begin with { and end with }
  Captures,   \* those among them with a valid capture name inside
  Blank,      \* the texts that trim() empties
  Decode,     \* percent_decode_str of a segment
  Lower,      \* to_ascii_lowercase of a method
  Texts,      \* texts that occur in templates, requests and attribute records
  HoleOf,     \* the hole of a text that is a placeholder
  Users,      \* identities
  Opaque,     \* a header value that to_str() refuses
  None,       \* an Option that is None, the hole of a text without one
  Error,      \* attributes() returned Err
  Requests,   \* [method, path, query, headers, user]
  Configs     \* [endpoints, resourceAttributes, rewrites, static]

\* The empty text.
Empty == ""

Fields == {"verb", "namespace", "apiGroup", "apiVersion", "resource", "subresource", "name"}

Holes == {"value", "header", "query", "method"} \cup Captures

Verbs == {"get", "create", "update", "patch", "delete", "options", "head", "*"}

\* What serde makes of the authorization section.
Templates == [Fields -> Texts]
RewriteRecords == [byHttpHeader : STRING \cup {None}, byQueryParameter : STRING \cup {None}]
ResourceRules == [resourceAttributes : Templates, rewrites : RewriteRecords]
MappingRecords == [methods : SUBSET DOMAIN Lower, resources : Seq(ResourceRules)]
EndpointRecords == [path : Seq(Segments), mappings : Seq(MappingRecords)]
StaticRules ==
  [user : Users \cup {Empty}, fields : [Fields -> Texts], path : Seq(Segments), resourceRequest : BOOLEAN]
Configurations ==
  [endpoints : Seq(EndpointRecords), static : Seq(StaticRules),
   resourceAttributes : Templates \cup {None}, rewrites : RewriteRecords \cup {None}]

\* What is read of a request; only a header can be opaque.
Pairs(values) == Seq([name : STRING, value : values])
RequestRecords ==
  [method : DOMAIN Lower, path : Seq(Segments), query : Pairs(Texts),
   headers : Pairs(Texts \cup {Opaque}), user : Users]

AttributeRecords ==
  [user : Users, path : Seq(Segments), resourceRequest : BOOLEAN, fields : [Fields -> Texts]]

ASSUME AuthorizationAssumption ==
  /\ IsFiniteSet(Captures) /\ Captures \subseteq Enclosed /\ Enclosed \subseteq Braced /\ Braced \subseteq Segments
  /\ {Empty, ".", "..", "*"} \subseteq Segments \ Braced
  /\ Empty \in Blank
  /\ Decode \in [Segments -> Texts] /\ \A s \in Segments : Decode[s] = Empty <=> s = Empty
  /\ Verbs \cup {Empty} \subseteq Texts /\ Opaque \notin Texts

ASSUME RecordAssumption ==
  /\ Configs \subseteq Configurations /\ Requests \subseteq RequestRecords /\ None \notin Requests
  /\ None # Error /\ None \notin Seq(AttributeRecords) /\ Error \notin Seq(AttributeRecords)

\* None is no text, the names of the other holes are no captures, and neither
\* the empty text nor a verb is a placeholder.
ASSUME HoleAssumption ==
  /\ None \notin Holes /\ None \notin STRING
  /\ Captures \cap {"value", "header", "query", "method"} = {}
  /\ HoleOf \in [Texts -> Holes \cup {None}]
  /\ \A v \in Verbs \cup {Empty} : HoleOf[v] = None

\* The orders in which value() may find the entries of a HashMap.
CaptureOrders == {o \in [1 .. Cardinality(Captures) -> Captures] : ToSet(o) = Captures}

VARIABLES
  config,     \* the authorization section of the configuration file
  pc,         \* "loading", "stopped"; "serving", "answered"
  request,    \* the request attributes() was called for
  generated   \* what it returned

vars == <<config, pc, request, generated>>

TypeOK ==
  /\ config \in Configs
  /\ pc \in {"loading", "stopped", "serving", "answered"}
  /\ request \in Requests \cup {None}
  /\ request = None <=> pc # "answered"
  /\ generated \in Seq(AttributeRecords) \cup {None, Error}
  /\ generated = None <=> request = None

Init ==
  /\ config \in Configs
  /\ pc = "loading"
  /\ request = None
  /\ generated = None

-----------------------------------------------------------------------------
(* What a request supplies. *)

KubeVerb(method) ==
  CASE method = "GET" -> "get"
    [] method = "POST" -> "create"
    [] method = "PUT" -> "update"
    [] method = "PATCH" -> "patch"
    [] method = "DELETE" -> "delete"
    [] method = "OPTIONS" -> "options"
    [] method = "HEAD" -> "head"
    [] OTHER -> "*"

\* How many members of S, a set of places in a sequence, come up to place i.
Rank(S, i) == Cardinality(S \cap 1 .. i)

\* The members of S in order.
InOrder(S) == [k \in 1 .. Cardinality(S) |-> CHOOSE i \in S : Rank(S, i) = k]

\* The values that a sequence of [name, value] pairs gives a name.
ValuesOf(pairs, name) ==
  LET own == InOrder({i \in DOMAIN pairs : pairs[i].name = name})
  IN [k \in DOMAIN own |-> pairs[own[k]].value]

\* Mutant: opaque values are passed on, as if converted with losses.
Lossy(values) == values

\* The values that are text.
Legible(values) ==
  LET own == InOrder({i \in DOMAIN values : values[i] # Opaque})
  IN [k \in DOMAIN own |-> values[own[k]]]

\* The first value as text; no value is the empty text, as is an opaque one.
First(values) == IF values = <<>> \/ values[1] = Opaque THEN Empty ELSE values[1]

HeaderOf(r, rewrites) ==
  IF rewrites.byHttpHeader = None THEN Empty
  ELSE First(ValuesOf(r.headers, rewrites.byHttpHeader))

QueryOf(r, rewrites) ==
  IF rewrites.byQueryParameter = None THEN Empty
  ELSE First(ValuesOf(r.query, rewrites.byQueryParameter))

\* Mutant: one of two values is enough.
BothMissing(r, rewrites) ==
  /\ rewrites.byHttpHeader # None \/ rewrites.byQueryParameter # None
  /\ HeaderOf(r, rewrites) = Empty
  /\ QueryOf(r, rewrites) = Empty

\* endpoint_rewrites fails: a value that a rewrite asks for is missing or empty.
Missing(r, rewrites) ==
  \/ rewrites.byHttpHeader # None /\ HeaderOf(r, rewrites) = Empty
  \/ rewrites.byQueryParameter # None /\ QueryOf(r, rewrites) = Empty

\* Mutant: headers only where there is no query parameter.
CollectEither(r, rewrites) ==
  LET values == IF rewrites.byQueryParameter # None
                THEN ValuesOf(r.query, rewrites.byQueryParameter)
                ELSE ValuesOf(r.headers, rewrites.byHttpHeader)
  IN Legible(values)

Collect(r, rewrites) ==
  LET given(pairs, name) == IF name = None THEN <<>> ELSE ValuesOf(pairs, name)
  IN Legible(given(r.query, rewrites.byQueryParameter)
               \o given(r.headers, rewrites.byHttpHeader))

\* replace() for one hole after another, each in what the ones before it left:
\* a value that is a placeholder itself is replaced again if its turn is still
\* to come.
Filled(template, order, given) ==
  LET left[n \in 0 .. Len(order)] ==
        IF n = 0 THEN template
        ELSE IF HoleOf[left[n - 1]] = order[n] /\ order[n] \in DOMAIN given THEN given[order[n]]
        ELSE left[n - 1]
  IN left[Len(order)]

-----------------------------------------------------------------------------
(* endpoint_match *)

\* Mutant: ".." is dropped like ".".
CleanWithoutParents(path) ==
  LET parts == SelectSeq(path, LAMBDA s : s \notin {Empty, ".", ".."})
  IN IF parts = <<>> THEN <<Empty>> ELSE parts

\* Empty segments and "." vanish, ".." takes the one before it along.
Step(parts, s) ==
  CASE s \in {Empty, "."} -> parts
    [] s = ".." -> IF parts = <<>> THEN parts ELSE Front(parts)
    [] OTHER -> Append(parts, s)

\* What the first n segments of a path leave, for every n.
Left(path) ==
  LET left[n \in 0 .. Len(path)] == IF n = 0 THEN <<>> ELSE Step(left[n - 1], path[n])
  IN left

\* The root keeps one empty segment.
Clean(path) ==
  LET parts == Left(path)[Len(path)]
  IN IF parts = <<>> THEN <<Empty>> ELSE parts

Matched(pattern, path) ==
  LET p == Clean(pattern)
      s == Clean(path)
  IN /\ Len(p) = Len(s)
     /\ \A i \in DOMAIN p :
          IF p[i] \in Enclosed
          THEN p[i] \in Captures /\ \A j \in 1 .. i - 1 : p[j] # p[i]
          ELSE p[i] \in {"*", s[i]}

PathParams(pattern, path) ==
  LET p == Clean(pattern)
  IN [c \in ToSet(p) \cap Captures |->
        Decode[Clean(path)[CHOOSE i \in DOMAIN p : p[i] = c]]]

-----------------------------------------------------------------------------
(* attributes *)

\* to_attr
Record(r, fields) ==
  [user |-> r.user, path |-> r.path, resourceRequest |-> TRUE,
   fields |-> [fields EXCEPT !["verb"] = IF @ = Empty THEN KubeVerb(r.method) ELSE @]]

\* The default: a record of the path itself.
PathRecord(r) == [Record(r, [f \in Fields |-> Empty]) EXCEPT !.resourceRequest = FALSE]

\* What an endpoint has for the holes of a rule's templates.
Filling(endpoint, rule, r) ==
  LET header == HeaderOf(r, rule.rewrites)
      query == QueryOf(r, rule.rewrites)
      params == PathParams(endpoint.path, r.path)
  IN [h \in {"value", "header", "query", "method"} \cup DOMAIN params |->
        CASE h = "value" -> IF header # Empty THEN header ELSE query
          [] h = "header" -> header
          [] h = "query" -> query
          [] h = "method" -> KubeVerb(r.method)
          [] OTHER -> params[h]]

\* endpoint_value()'s order.
EndpointOrder(captures) == <<"value">> \o captures \o <<"header", "query", "method">>

\* One resource rule of an endpoint.
RuleRecord(endpoint, rule, r, captures) ==
  LET given == Filling(endpoint, rule, r)
  IN Record(r, [f \in Fields |-> Filled(rule.resourceAttributes[f], EndpointOrder(captures), given)])

Serving(mapping, method) == \E m \in mapping.methods : Lower[m] = Lower[method]

Able(endpoint, r) == {i \in DOMAIN endpoint.mappings : Serving(endpoint.mappings[i], r.method)}

\* Of the mappings with the method, the first counts.
RulesFor(endpoint, r) == endpoint.mappings[Min(Able(endpoint, r))].resources

\* A matched endpoint: one record per rule.
EndpointAttributes(endpoint, r, captures) ==
  LET rules == RulesFor(endpoint, r)
  IN IF Able(endpoint, r) = {} THEN Error
     ELSE IF \E k \in DOMAIN rules : Missing(r, rules[k].rewrites) THEN Error
     ELSE [k \in DOMAIN rules |-> RuleRecord(endpoint, rules[k], r, captures)]

\* No endpoint matched: a record per collected value, or the path itself.
TopLevelAttributes(cfg, r) ==
  LET values == IF cfg.rewrites = None THEN <<Empty>> ELSE Collect(r, cfg.rewrites)
      \* the verb is no template here
      filled(v) == [f \in Fields |->
                      IF f = "verb" THEN cfg.resourceAttributes[f]
                      ELSE Filled(cfg.resourceAttributes[f], <<"value">>, [value |-> v])]
  IN IF cfg.resourceAttributes = None
     THEN <<PathRecord(r)>>
     ELSE [k \in DOMAIN values |-> Record(r, filled(values[k]))]

\* The first endpoint that matches decides, whatever its mappings are.
Attributes(cfg, r, captures) ==
  LET matching == {i \in DOMAIN cfg.endpoints : Matched(cfg.endpoints[i].path, r.path)}
  IN IF matching = {} THEN TopLevelAttributes(cfg, r)
     ELSE EndpointAttributes(cfg.endpoints[Min(matching)], r, captures)

-----------------------------------------------------------------------------
(* static_allows *)

EmptyPath == <<Empty>>

\* The fields static_allows compares: all but the API version.
Compared == Fields \ {"apiVersion"}

Grants(rule, a) ==
  /\ rule.user \in {Empty, a.user}
  /\ \A f \in Compared : rule.fields[f] \in {Empty, a.fields[f]}
  /\ rule.path \in {EmptyPath, a.path}
  /\ rule.resourceRequest = a.resourceRequest

StaticAllows(rules, a) == \E k \in DOMAIN rules : Grants(rules[k], a)

-----------------------------------------------------------------------------
(* validate_authorization_config *)

ValidCaptures(pattern) ==
  /\ ToSet(pattern) \cap Braced \subseteq Captures
  /\ \A i, j \in DOMAIN pattern : pattern[i] \in Captures /\ pattern[i] = pattern[j] => i = j

ValidMapping(mapping) ==
  /\ mapping.methods # {}
  /\ mapping.resources # <<>>
  /\ \A k \in DOMAIN mapping.resources :
       LET rewrites == mapping.resources[k].rewrites
       IN rewrites.byHttpHeader \notin Blank /\ rewrites.byQueryParameter \notin Blank

ValidEndpoint(endpoint) ==
  /\ ~(Len(endpoint.path) = 1 /\ endpoint.path[1] \in Blank)
  /\ endpoint.mappings # <<>>
  /\ ValidCaptures(endpoint.path)
  /\ \A k \in DOMAIN endpoint.mappings : ValidMapping(endpoint.mappings[k])

\* Mutant: only a resource rule with a path is refused.
ResourceRuleHasNoPath(rule) == rule.resourceRequest => rule.path = EmptyPath

ValidRule(rule) == rule.resourceRequest <=> rule.path = EmptyPath

Valid(cfg) ==
  /\ \A i \in DOMAIN cfg.endpoints : ValidEndpoint(cfg.endpoints[i])
  /\ \A i \in DOMAIN cfg.static : ValidRule(cfg.static[i])

-----------------------------------------------------------------------------
(* The program: load() once, then attributes() for one request after another. *)

Load ==
  /\ pc = "loading"
  /\ pc' = IF Valid(config) THEN "serving" ELSE "stopped"
  /\ UNCHANGED <<config, request, generated>>

Generate(r) ==
  /\ pc = "serving"
  /\ pc' = "answered"
  /\ request' = r
  /\ \E captures \in CaptureOrders : generated' = Attributes(config, r, captures)
  /\ UNCHANGED config

Done ==
  /\ pc = "answered"
  /\ pc' = "serving"
  /\ request' = None
  /\ generated' = None
  /\ UNCHANGED config

Next == Load \/ Done \/ \E r \in Requests : Generate(r)

Spec == Init /\ [][Next]_vars

-----------------------------------------------------------------------------
(* Properties.  The reference: which segments a path is left with, said of   *)
(* each segment instead of computed from left to right.                      *)

Named(path) == {i \in DOMAIN path : path[i] \notin {Empty, ".", ".."}}
Parents(path) == {i \in DOMAIN path : path[i] = ".."}

\* A named segment stays unless, up to some later place, more parents than
\* names follow it.
Kept(path) ==
  {i \in Named(path) :
     \A j \in i + 1 .. Len(path) :
       Cardinality(Parents(path) \cap i + 1 .. j) <= Cardinality(Named(path) \cap i + 1 .. j)}

\* What a segment of a pattern admits.
Fits(p, s) == p \in Captures \cup {"*", s}

\* The kept segments fit in pairs of equal rank; "/{x}" and "/*" also fit the
\* root.
PathFits(pattern, path) ==
  LET P == Kept(pattern)
      S == Kept(path)
  IN \/ S = {} /\ \E p \in Captures \cup {"*"} : {pattern[i] : i \in P} = {p} /\ Cardinality(P) = 1
     \/ /\ Cardinality(P) = Cardinality(S)
        /\ \A i \in P, j \in S : Rank(P, i) = Rank(S, j) => Fits(pattern[i], path[j])

Fitting == {i \in DOMAIN config.endpoints : PathFits(config.endpoints[i].path, request.path)}
Deciding == config.endpoints[Min(Fitting)]

\* Mapping m is the deciding endpoint's first with the method.
Decides(m) ==
  /\ Serving(Deciding.mappings[m], request.method)
  /\ \A l \in 1 .. m - 1 : ~Serving(Deciding.mappings[l], request.method)

\* The first endpoint whose pattern fits the path as it resolves decides, and
\* in it the first mapping with the method.  Another method, and a value that a
\* rule of that mapping asks for and misses, are errors, never left to a later
\* mapping, a later endpoint or the top-level attributes; otherwise there is
\* one resource record for each of that mapping's rules
\* (authorization.rs 124-168).
DecidedByFirstMatch ==
  pc = "answered" /\ Fitting # {} =>
    \/ /\ generated = Error
       /\ \A m \in DOMAIN Deciding.mappings : ~Serving(Deciding.mappings[m], request.method)
    \/ \E m \in DOMAIN Deciding.mappings :
         LET rules == Deciding.mappings[m].resources
         IN /\ Decides(m)
            /\ generated = Error <=> \E k \in DOMAIN rules : Missing(request, rules[k].rewrites)
            /\ generated # Error =>
                 /\ DOMAIN generated = DOMAIN rules
                 /\ \A k \in DOMAIN rules : generated[k].resourceRequest

\* The hole of a rule's template for a field.
HoleIn(rule, f) == HoleOf[rule.resourceAttributes[f]]

\* The deciding rule asks for what its template f needs.
Supplied(rule, f) ==
  LET hole == HoleIn(rule, f)
  IN \/ hole = "header" /\ rule.rewrites.byHttpHeader # None
     \/ hole = "query" /\ rule.rewrites.byQueryParameter # None
     \/ hole = "value" /\ {rule.rewrites.byHttpHeader, rule.rewrites.byQueryParameter} # {None}
     \/ hole = "method"
     \/ hole \in Captures /\ Kept(request.path) # {} /\ hole \in ToSet(Clean(Deciding.path))

\* An empty name or namespace in a review means all of them.  Where an endpoint
\* rule has a template whose value it asks for, a request that lacks the value
\* gets an error instead of a record, and the field is that very value unless
\* the value reads like a placeholder itself (authorization.rs 39-61, 280-314).
FieldsAreGiven ==
  pc = "answered" /\ Fitting # {} /\ generated # Error =>
    \A m \in DOMAIN Deciding.mappings :
      LET rules == Deciding.mappings[m].resources
          given(k, f) == Filling(Deciding, rules[k], request)[HoleIn(rules[k], f)]
      IN Decides(m) =>
           \A k \in DOMAIN rules, f \in Fields :
             Supplied(rules[k], f) =>
               /\ given(k, f) # Empty
               /\ HoleOf[given(k, f)] = None => generated[k].fields[f] = given(k, f)

\* PLAN.md 92 promises required rewrite values: a field that a rule takes from
\* the request is never empty.  It can be: a header value that reads
\* {{.FromQueryString}} is replaced in its turn, by the empty text if the rule
\* asks for no query parameter (authorization.rs 54-60).
NoHoles ==
  pc = "answered" /\ Fitting # {} /\ generated # Error =>
    \A m \in DOMAIN Deciding.mappings :
      LET rules == Deciding.mappings[m].resources
      IN Decides(m) =>
           \A k \in DOMAIN rules, f \in Fields :
             Supplied(rules[k], f) => generated[k].fields[f] # Empty

Times(pairs, name, v) == Cardinality({i \in DOMAIN pairs : pairs[i] = [name |-> name, value |-> v]})

\* Without an endpoint, a top-level rewrite asks about every value the request
\* gives, in the query and in the headers, as often as it is given, and about
\* nothing else; without a value there is no record, which refuses the request
\* (authorization.rs 178-220).
EveryValueIsAsked ==
  pc = "answered" /\ Fitting = {} /\ None \notin {config.resourceAttributes, config.rewrites} =>
    \A f \in Fields \ {"verb"} : HoleOf[config.resourceAttributes[f]] = "value" =>
      \A v \in Texts :
        Cardinality({k \in DOMAIN generated : generated[k].fields[f] = v})
          = Times(request.query, config.rewrites.byQueryParameter, v)
              + Times(request.headers, config.rewrites.byHttpHeader, v)

\* A static rule that exempts a record from review names what it exempts: a
\* record that is no resource request is granted only for a path written in the
\* configuration, and a resource request only by a rule without a path
\* (authorization.rs 271-277, 338-349).
StaticIsExact ==
  pc = "answered" /\ generated # Error =>
    \A k \in DOMAIN generated :
      LET a == generated[k]
      IN StaticAllows(config.static, a) =>
           \E i \in DOMAIN config.static :
             /\ config.static[i].path = IF a.resourceRequest THEN EmptyPath ELSE request.path
             /\ config.static[i].resourceRequest = a.resourceRequest
=============================================================================
