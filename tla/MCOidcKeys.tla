------------------------------ MODULE MCOidcKeys ------------------------------
(***************************************************************************)
(* OidcKeys for TLC: one RSA key and one of another type, the tokens that  *)
(* name them and the ones whose header ends the authentication.            *)
(***************************************************************************)
EXTENDS OidcKeys, TLC

CONSTANTS k1, e1

Token(header, kid, valid) == [header |-> header, kid |-> kid, valid |-> valid]

\* A key that comes and goes, one that is never found and therefore forces a
\* refresh whenever a token names it, a bad signature and dull headers.
MixedTokens ==
  {Token("keyed", k1, TRUE), Token("keyed", k1, FALSE), Token("keyed", e1, TRUE),
   Token("invalid", k1, TRUE), Token("unsupported", k1, TRUE)}

\* Only the key that comes and goes.
OneToken == {Token("keyed", k1, TRUE)}

TaskSymmetry == Permutations(Tasks)
===============================================================================
