-------------------------------- MODULE MCSar --------------------------------
(***************************************************************************)
(* ReviewClient as KubernetesClient::authorize uses it: questions are      *)
(* attribute records as authorization::attributes generates them, bodies   *)
(* and keys are computed from them by SubjectAccessReview.                 *)
(***************************************************************************)
EXTENDS ReviewClient, SubjectAccessReview

\* resourceAttributes: { namespace: ns, resource: pods, name: n }, asked by
\* user alice with verb v for path p.
Pods(v, n, p) ==
  [user |-> [name |-> <<"alice">>, groups |-> <<>>], verb |-> <<v>>,
   namespace |-> <<"ns">>, api_group |-> <<>>, api_version |-> <<"v1">>,
   resource |-> <<"pods">>, subresource |-> <<>>, name |-> n,
   resource_request |-> TRUE, path |-> p]

\* name: "{{ .Value }}" rewritten by a query parameter that is given twice:
\* two attributes of one request.
NamedQuestions ==
  {Pods("get", <<n>>, <<"/", "a">>) : n \in {"one", "two"}}

NamedBody == [q \in NamedQuestions |-> ReviewBody(q)]
NamedKey == [q \in NamedQuestions |-> AuthzKey(q)]
NamedBodies == {ReviewBody(q) : q \in NamedQuestions}
NamedKeys == {AuthzKey(q) : q \in NamedQuestions}
=============================================================================
