----------------------------- MODULE MCRegistry -----------------------------
(***************************************************************************)
(* An instance of Registry for TLC: two ConfigMaps, a directory a, a       *)
(* sibling whose name begins with an a, and a chart's marker.              *)
(***************************************************************************)
EXTENDS Registry

MCFiles == {<<"a", "/", "x">>, <<"a", "b", "/", "x">>, <<"a", "/", "Chart.yaml">>}

MCBranches == {[repo |-> "r", ref |-> "main"]}

Main(path, overrides, name) ==
  [repo |-> "r", ref |-> "main", path |-> path, overrides |-> overrides,
   secret |-> name]

\* The last names the same files as the first, and match never finds them.
MCRegistrations ==
  {Main(<<"a">>, "values", None), Main(<<"a", "/">>, None, None),
   Main(<<>>, None, "credential"), Main(<<".", "/", "a">>, None, None)}

Symmetry == Permutations(Names)
=============================================================================
