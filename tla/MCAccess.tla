------------------------------- MODULE MCAccess -------------------------------
(***************************************************************************)
(* AccessControl for TLC, with the paths of MCPipeline: records that share *)
(* their cache key and one that has a key of its own.                      *)
(***************************************************************************)
EXTENDS AccessControl, MCPipeline

\* "pod" and "log" differ in the subresource, which the key leaves out.
OneKeyForLog == [q \in Users \X Attrs |-> <<q[1], IF q[2] = "log" THEN "pod" ELSE q[2]>>]

\* TokenReview, headers on, no static rule, --ignore-paths /b*.
SomeConfigs ==
  {Config({"kube"}, paths, TRUE, {}) : paths \in {p \in PathOptions : p.ignore # {}}}

\* With the token, and a probe.
SomeArrivals ==
  {Arrival(<<"/", "a">>, Nobody, Nobody, TRUE),
   Arrival(<<"/", "b", "/", "c">>, Nobody, Nobody, TRUE),
   Arrival(HealthzPath, Nobody, Nobody, FALSE)}
===============================================================================
