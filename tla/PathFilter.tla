----------------------------- MODULE PathFilter -----------------------------
(***************************************************************************)
(* matches() of src/pingora_proxy.rs: the patterns of --allow-paths and    *)
(* --ignore-paths.  A pattern and a path are sequences of characters.      *)
(***************************************************************************)
EXTENDS Sequences, Naturals, SequencesExt

Star == "*"

Stars(pattern) == {i \in DOMAIN pattern : pattern[i] = Star}

\* Equal, "*", or one star somewhere: the text before it begins the path and
\* the text after it ends the path.  With two stars or more only equality is
\* left.
Matches(pattern, path) ==
  \/ pattern = path
  \/ pattern = <<Star>>
  \/ \E i \in Stars(pattern) :
       /\ Stars(pattern) = {i}
       /\ IsPrefix(SubSeq(pattern, 1, i - 1), path)
       /\ IsSuffix(SubSeq(pattern, i + 1, Len(pattern)), path)
=============================================================================
