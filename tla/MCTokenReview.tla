---------------------------- MODULE MCTokenReview ----------------------------
(***************************************************************************)
(* ReviewClient as KubernetesAuthenticator::authenticate uses it: the      *)
(* question is a bearer token, the TokenReview carries the token and the   *)
(* cache is keyed by it, so Key and Body are injective.  The configured    *)
(* audiences go into every review alike and are left out.                  *)
(***************************************************************************)
EXTENDS ReviewClient, TLC

CONSTANT Tokens

TokenOf == [q \in Tokens |-> q]

\* Body and Key are the identity, so renaming tokens changes neither.
Symmetry == Permutations(Tasks) \cup Permutations(Tokens) \cup Permutations(Answers)
=============================================================================
