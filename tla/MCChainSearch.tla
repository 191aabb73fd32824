---------------------------- MODULE MCChainSearch ----------------------------
(***************************************************************************)
(* Nodes a, b, c and the class node k; the graphs are all those that the   *)
(* walks may leave on a set of references: the leak's own node has its     *)
(* leak, and a node with a leak is the referrer of one that has it.        *)
(***************************************************************************)
EXTENDS ChainSearch, TLC

CONSTANTS a, b, c, k

inner(n)  == [kind |-> "inner", node |-> n]
static(n) == [kind |-> "static", node |-> n]
global    == [kind |-> "global", node |-> NoNode]
local     == [kind |-> "local", node |-> NoNode]

MCLeakNode  == [i \in 0 .. numberOfLeaks - 1 |-> IF i = 0 THEN a ELSE b]
MCNumbers   == 0 .. numberOfLeaks - 1

Related(refs) ==
  LET justified(leaks) ==
        /\ \A i \in MCNumbers : i \in leaks[MCLeakNode[i]]
        /\ \A i \in MCNumbers : \A S \in SUBSET Nodes :
             (/\ MCLeakNode[i] \in S
              /\ \A n \in S : \A r \in refs[n] :
                   r.node \in Nodes /\ i \in leaks[r.node] => r.node \in S)
             => \A n \in Nodes : i \in leaks[n] => n \in S
  IN  {leaks \in [Nodes -> SUBSET MCNumbers] : justified(leaks)}

GraphsOver(choices) ==
  UNION {{[refs |-> refs, leaks |-> leaks] : leaks \in Related(refs)} :
           refs \in {a :> ra @@ b :> rb @@ c :> rc @@ k :> {} :
                       ra \in SUBSET choices[a], rb \in SUBSET choices[b],
                       rc \in SUBSET choices[c]}}

(* Two leaks, each of which may hold the other, with a further object or    *)
(* with a class; a static field of that class, or of c, a class that was    *)
(* loaded late.                                                             *)
TwoLeakGraphs ==
  GraphsOver(a :> {inner(b), inner(c), local} @@ b :> {inner(a), inner(c)}
             @@ c :> {inner(a), inner(b), static(k)})
  \cup GraphsOver(a :> {inner(b), inner(k), global} @@ b :> {inner(a), inner(k), static(c)}
                  @@ c :> {})

Opt(need, show, local_refs) ==
  [isNeedReferences |-> need, show_unreachables |-> show,
   consider_local_references |-> local_refs]
SomeOptions == {Opt(TRUE, TRUE, FALSE), Opt(TRUE, FALSE, TRUE), Opt(FALSE, TRUE, FALSE)}
ShowOptions == {Opt(TRUE, TRUE, FALSE)}

(* A leak that one object and a root hold.                                  *)
SmallGraphs ==
  {[refs  |-> a :> {inner(b), inner(k)} @@ b :> {} @@ c :> {} @@ k :> {},
    leaks |-> a :> {0} @@ b :> {0} @@ c :> {} @@ k :> {0}]}
==============================================================================
