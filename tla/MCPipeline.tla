------------------------------ MODULE MCPipeline ------------------------------
(***************************************************************************)
(* RequestPipeline for TLC: command lines, paths and attribute records.    *)
(***************************************************************************)
EXTENDS RequestPipeline

SomePaths == {<<"/", "a">>, <<"/", "b", "/", "c">>}
HealthzPath == <<"/", "healthz">>
MetricsPath == <<"/", "metrics">>

\* --allow-paths /b*c, --ignore-paths /b*, or neither: Args::validate rejects
\* both together.
PathOptions ==
  {[allow |-> {}, ignore |-> {}],
   [allow |-> {<<"/", "b", "*", "c">>}, ignore |-> {}],
   [allow |-> {}, ignore |-> {<<"/", "b", "*">>}]}

Config(auths, paths, headers, static) ==
  [authenticators |-> auths, allow |-> paths.allow, ignore |-> paths.ignore,
   authHeaders |-> headers, static |-> static]

\* Every set of authenticators, path option and header option; a static rule
\* allows one of the attribute records, the other one is reviewed.
AllConfigs ==
  {Config(auths, paths, headers, {"a1"}) :
     auths \in SUBSET {"certificate", "oidc", "kube"}, paths \in PathOptions,
     headers \in BOOLEAN}

\* Every request, but with one name in the headers of the client's own: a
\* certificate and a token can name that user or another one.
OneClaim ==
  LET claims == {Nobody, CHOOSE u \in Users : TRUE} IN
  {r \in Requests : r.userHeader \in claims /\ r.certHeader \in claims}

\* Two configurations with everything else on, and few requests: for a question
\* that one request answers.
FullConfigs ==
  {Config({"certificate", "kube"}, paths, TRUE, {"a1"}) :
     paths \in {p \in PathOptions : p.allow # {} \/ p.ignore # {}}}

Arrival(path, certificate, header, bearer) ==
  [path |-> path, operational |-> path = HealthzPath, certificate |-> certificate,
   certHeader |-> header, bearer |-> bearer, userHeader |-> Nobody]

\* Without anything, exempted, with a header of the client's own, with a token,
\* with a certificate, and a probe.
FewArrivals ==
  LET user == CHOOSE u \in Users : TRUE IN
  {Arrival(<<"/", "a">>, Nobody, Nobody, FALSE), Arrival(<<"/", "b", "/", "c">>, Nobody, Nobody, FALSE),
   Arrival(<<"/", "a">>, Nobody, user, FALSE), Arrival(<<"/", "a">>, Nobody, Nobody, TRUE),
   Arrival(<<"/", "a">>, user, Nobody, FALSE), Arrival(HealthzPath, Nobody, Nobody, FALSE)}
===============================================================================
