------------------------- MODULE SubjectAccessReview -------------------------
(***************************************************************************)
(* What KubernetesClient::authorize makes of one attribute record: the     *)
(* review it would send, and the key it caches the decision under.  Text   *)
(* is a sequence of symbols, "|" being one of them, because the key is a   *)
(* concatenation that escapes nothing.                                     *)
(***************************************************************************)
EXTENDS Sequences

\* Identity and Attributes of src/authorization.rs, over a set of texts.
Attributes(Text) ==
  [user : [name : Text, groups : Seq(Text)], verb : Text, namespace : Text, api_group : Text,
   api_version : Text, resource : Text, subresource : Text, name : Text,
   resource_request : BOOLEAN, path : Text]

\* The symbol the fields of a key are joined with.
Bar == "|"

\* format!("{}|{}|{}|{}|{}|{}|{}", ..): subresource, name, groups and
\* resource_request are not part of the key.
AuthzKey(attr) ==
  attr.user.name \o <<Bar>> \o attr.verb \o <<Bar>> \o attr.namespace \o <<Bar>>
    \o attr.api_group \o <<Bar>> \o attr.api_version \o <<Bar>>
    \o attr.resource \o <<Bar>> \o attr.path

\* A resource review names the object, a non-resource review names the path.
ReviewBody(attr) ==
  [user |-> attr.user.name, groups |-> attr.user.groups, verb |-> attr.verb,
   target |->
     IF attr.resource_request
     THEN [namespace |-> attr.namespace, group |-> attr.api_group,
           version |-> attr.api_version, resource |-> attr.resource,
           subresource |-> attr.subresource, name |-> attr.name]
     ELSE [path |-> attr.path]]
=============================================================================
