---------------------------- MODULE MCNodeRelease ----------------------------
(***************************************************************************)
(* Two leaks, one inner node, one class; a node may hold itself, and two   *)
(* different fields of a node may hold the same one.                       *)
(***************************************************************************)
EXTENDS NodeRelease, TLC

CONSTANTS a, b, c, k

to(n, i) == [node |-> n, id |-> i]

Every(ra, rb, rc) == a :> ra @@ b :> rb @@ c :> rc @@ k :> {}

LeaksIn == {<<a>>, <<a, b>>, <<b, a>>}

MCGraphs ==
  {g \in {[refs |-> Every(ra, rb, rc), leaks |-> l] :
            ra \in SUBSET {to(a, 1), to(b, 1), to(c, 1), to(c, 2), to(NoNode, 1)},
            rb \in SUBSET {to(a, 1), to(c, 1), to(k, 1)},
            rc \in SUBSET {to(a, 1), to(b, 1), to(c, 1)}, l \in LeaksIn} :
     Reaches(Elements(g.leaks), g.refs)}
===============================================================================
