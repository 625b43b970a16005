---------------------------- MODULE MCAuthorization ----------------------------
(***************************************************************************)
(* Authorization with every short path, every short pattern, every small   *)
(* supply of header and query values, and the configurations that use them.*)
(***************************************************************************)
EXTENDS Authorization

MCCaptures == {"{x}", "{y}"}
MCEnclosed == MCCaptures \cup {"{}"}
MCBraced == MCEnclosed \cup {"{x"}
MCBlank == {"", " "}
MCSegments == MCBraced \cup MCBlank \cup {".", "..", "*", "a", "b%2F", "%7B%7By%7D%7D"}
MCDecode == [s \in MCSegments |->
  CASE s = "b%2F" -> "b/" [] s = "%7B%7By%7D%7D" -> "{{y}}" [] OTHER -> s]
MCLower == [GET |-> "get", POST |-> "post", get |-> "get", PROPFIND |-> "propfind"]
MCUsers == {"jane", "joe"}
MCHoles == ("{{value}}" :> "value") @@ ("{{header}}" :> "header") @@ ("{{query}}" :> "query")
  @@ ("{{method}}" :> "method") @@ ("{{x}}" :> "{x}") @@ ("{{y}}" :> "{y}")
MCTexts == {MCDecode[s] : s \in MCSegments} \cup DOMAIN MCHoles \cup
  Verbs \cup {"", "u", "v", "pods", "watch"}
MCHoleOf == [t \in MCTexts |-> IF t \in DOMAIN MCHoles THEN MCHoles[t] ELSE None]

Paths(S, n) == UNION {{<<"">> \o s : s \in [1 .. k -> S]} : k \in 1 .. n}

Request(m, p, q, h, u) == [method |-> m, path |-> p, query |-> q, headers |-> h, user |-> u]
Given(name, value) == [name |-> name, value |-> value]

PathRequests == {Request(m, p, <<>>, <<>>, "jane") :
  m \in {"GET", "POST"}, p \in Paths({"", ".", "..", "a", "b%2F"}, 3)}

Supplies(V) == {<<Given("other", "u")>>} \cup
  UNION {{[i \in 1 .. k |-> Given("n", vs[i])] : vs \in [1 .. k -> V]} : k \in 0 .. 2}

ValueRequests == {Request(m, <<"", "a">>, q, h, "joe") :
  m \in {"get", "PROPFIND"}, q \in Supplies({"", "u", "{{method}}"}),
  h \in Supplies({"", "u", "{{query}}", Opaque})}

\* Its captures decode to one another's placeholders.
CaptureRequest == Request("GET", <<"", "a", "%7B%7By%7D%7D", "b%2F">>, <<>>, <<>>, "jane")

MCRequests == PathRequests \cup ValueRequests \cup {CaptureRequest}

Resource(verb, name) ==
  [f \in Fields |-> CASE f = "verb" -> verb [] f = "name" -> name
                      [] f = "resource" -> "pods" [] OTHER -> ""]
Rewrite(q, h) == [byQueryParameter |-> q, byHttpHeader |-> h]
NoRewrite == Rewrite(None, None)
Rule(resource, rewrites) == [resourceAttributes |-> resource, rewrites |-> rewrites]
Mapping(ms, rules) == [methods |-> ms, resources |-> rules]
Endpoint(p, ms) == [path |-> p, mappings |-> ms]
Config(es, ra, rw, st) == [endpoints |-> es, resourceAttributes |-> ra, rewrites |-> rw, static |-> st]
Static(user, verb, path, resource) ==
  [user |-> user, fields |-> [f \in Fields |-> IF f = "verb" THEN verb ELSE ""],
   path |-> path, resourceRequest |-> resource]

Capturing == Rule(Resource("", "{{x}}"), NoRewrite)
Reading == Mapping({"get"}, <<Capturing>>)
Writing == Mapping({"POST", "GET"}, <<Capturing, Rule(Resource("watch", "{{method}}"), NoRewrite)>>)
Creating == Mapping({"POST"}, <<Capturing>>)

Patterns == {<<"">>, <<" ">>, <<"a">>, <<"", "{x}", "a", "{x}">>, <<"", "{x}", "..", "{y}">>, <<"", "a", "{x}", "{y}">>,
             <<"", "..", "a", "..", "{x}">>} \cup Paths({"", "..", "*", "a", "{x}", "{}", "{x"}, 2)

\* One endpoint with mappings that overlap; two endpoints that overlap and
\* differ in their methods; none mapped.
PathConfigs ==
  {Config(<<Endpoint(p, <<Reading, Writing, Creating>>)>>, None, None, <<>>) : p \in Patterns} \cup
  {Config(<<Endpoint(p, <<Reading>>), Endpoint(<<"", "*">>, <<Writing, Reading>>)>>, None, None, <<>>) :
     p \in {<<"", "a">>, <<"", "{x}">>, <<"", "a", "*">>}} \cup
  {Config(<<Endpoint(<<"", "a">>, ms)>>, None, None, <<>>) :
     ms \in {<<>>, <<Mapping({}, <<Capturing>>)>>, <<Mapping({"GET"}, <<>>)>>}}

\* "" is refused.
Rewrites == {NoRewrite, Rewrite("n", None), Rewrite(None, "n"), Rewrite("n", "n"), Rewrite(None, "")}

ValueConfigs ==
  {Config(<<Endpoint(<<"", "a">>, <<Mapping({"GET", "PROPFIND"}, <<Rule(Resource(t, t), rw)>>)>>)>>,
          None, None, <<>>) : t \in {"{{value}}", "{{header}}", "{{query}}"}, rw \in Rewrites} \cup
  {Config(<<>>, Resource(verb, t), rw, <<>>) :
     verb \in {"", "{{value}}"}, t \in {"{{value}}", "{{header}}"}, rw \in Rewrites \cup {None}}

StaticConfigs ==
  {Config(<<>>, ra, None, <<Static(u, v, p, b)>>) :
     ra \in {None, Resource("", "")}, u \in {"", "jane"}, v \in {"", "get"},
     p \in {EmptyPath, <<"", "a">>}, b \in BOOLEAN}

MCConfigs == PathConfigs \cup ValueConfigs \cup StaticConfigs
=============================================================================
