----------------------------- MODULE NodeRelease -----------------------------
(***************************************************************************)
(* Release of the nodes at the end of a dump: freeMemoryForLeakList and    *)
(* freeMemoryNode (data_struct.c), untagAllClasses (leak_detect.c).        *)
(*                                                                         *)
(* The nodes form a graph with shared parts and cycles.  Every node counts *)
(* the owners of pointers to it; a node gives up its own pointers the      *)
(* first time it is released, and goes away when nothing counts on it.     *)
(* The recursion is written out: path is the stack of the calls.           *)
(***************************************************************************)
EXTENDS Integers, Sequences, FiniteSets

CONSTANTS
  Nodes,
  ClassNodes,         (* Those of classes, owned by the list of classes.    *)
  NoNode,             (* The null pointer.                                  *)
  Graphs              (* What the dump leaves: [refs, leaks]; refs[n] are   *)
                      (* the references in n, with the node each is from;   *)
                      (* leaks is the list of the leaks' nodes.             *)

Reference == [node: Nodes \cup {NoNode}, id: Nat]

Elements(s) == {s[i] : i \in DOMAIN s}

(* All nodes that r has references of can be reached from the nodes in R.   *)
Closed(S, r)  == \A n \in S : \A e \in r[n] : e.node # NoNode => e.node \in S
Reaches(R, r) == \A S \in SUBSET Nodes :
                   R \subseteq S /\ Closed(S, r) => \A n \in Nodes \ S : r[n] = {}

(* Nodes of leaks are distinct, classes are no targets of the walks, and a  *)
(* node with references was met on the way from a leak.                     *)
ASSUME ConstantsAssumption ==
  /\ IsFiniteSet(Nodes) /\ NoNode \notin Nodes /\ ClassNodes \subseteq Nodes
  /\ \A g \in Graphs : /\ g.refs \in [Nodes -> SUBSET Reference]
                       /\ IsFiniteSet(UNION {g.refs[n] : n \in Nodes})
                       /\ \A n \in ClassNodes : g.refs[n] = {}
                       /\ g.leaks \in Seq(Nodes)
                       /\ \A i, j \in DOMAIN g.leaks : g.leaks[i] = g.leaks[j] => i = j
                       /\ Reaches(Elements(g.leaks), g.refs)

VARIABLES
  allocated,                  (* Nodes not yet freed.                        *)
  reference_pointing_to_me, visited,
  refs,                       (* The references left in each node.           *)
  handles,                    (* Nodes whose names, sets and JNI handles are *)
                              (* not released yet.                           *)
  lstLeaks, classNodes,       (* The rest of the two lists.                  *)
  path,
  callee,                     (* The argument of the call to make.           *)
  phase,                      (* The loop that makes the calls.              *)
  pc

heapVars == <<allocated, reference_pointing_to_me, visited, refs, handles>>
vars == <<heapVars, lstLeaks, classNodes, path, callee, phase, pc>>
-----------------------------------------------------------------------------
(* Pointers to n: in the references of the nodes, and in the two lists.     *)
Pointers(n, r) == {p \in Nodes \X UNION {r[m] : m \in Nodes} :
                     p[2] \in r[p[1]] /\ p[2].node = n}

Owners(n, r, leaks, classes) ==
  Cardinality(Pointers(n, r))
  + (IF n \in Elements(leaks) THEN 1 ELSE 0) + (IF n \in classes THEN 1 ELSE 0)

(* What tagging leaves: counters are exact, and a node was made for a leak, *)
(* for a class, or for the referrer of a node made before.                  *)
Init ==
  \E g \in Graphs :
    /\ refs = g.refs /\ lstLeaks = g.leaks
    /\ classNodes = ClassNodes
    /\ reference_pointing_to_me = [n \in Nodes |-> Owners(n, g.refs, g.leaks, ClassNodes)]
    /\ allocated = {n \in Nodes : reference_pointing_to_me[n] > 0}
    /\ handles = allocated
    /\ visited = {}
    /\ path = <<>> /\ callee = NoNode
    /\ phase = "leaks" /\ pc = "leaks"

(* freeMemoryForLeakList.                                                   *)
FreeNextLeak ==
  /\ pc = "leaks"
  /\ \/ /\ lstLeaks # <<>>
        /\ callee' = Head(lstLeaks) /\ lstLeaks' = Tail(lstLeaks)
        /\ pc' = "call" /\ UNCHANGED phase
     \/ /\ lstLeaks = <<>>
        /\ phase' = "classes" /\ pc' = "classes" /\ UNCHANGED <<callee, lstLeaks>>
  /\ UNCHANGED <<heapVars, classNodes, path>>

(* The loop of untagAllClasses, in any order of the classes.                *)
FreeNextClass ==
  /\ pc = "classes"
  /\ \/ \E c \in classNodes : /\ callee' = c /\ classNodes' = classNodes \ {c}
                              /\ pc' = "call"
     \/ /\ classNodes = {}
        /\ pc' = "done" /\ UNCHANGED <<callee, classNodes>>
  /\ UNCHANGED <<heapVars, lstLeaks, path, phase>>

(* A call returns to the loop or the list it was made from; untagAllClasses *)
(* raises an alert when the node of a class is still there.                 *)
ReturnTo(stack, freed) ==
  pc' = IF stack # <<>> THEN "iterate"
        ELSE IF phase = "classes" /\ ~freed THEN "alert" ELSE phase

(* Mutant of Call: the visited flag is looked at before the counter.        *)
Call_VisitedFirst ==
  /\ pc = "call"
  /\ IF callee = NoNode \/ callee \in visited
     THEN /\ ReturnTo(path, FALSE)
          /\ UNCHANGED <<reference_pointing_to_me, visited, handles, path>>
     ELSE /\ reference_pointing_to_me' = [reference_pointing_to_me EXCEPT ![callee] = @ - 1]
          /\ visited' = visited \cup {callee}
          /\ handles' = handles \ {callee}
          /\ path' = Append(path, callee)
          /\ pc' = "iterate"
  /\ UNCHANGED <<allocated, refs, lstLeaks, classNodes, callee, phase>>

(* freeMemoryNode, up to the loop.                                          *)
Call ==
  /\ pc = "call"
  /\ \/ /\ callee = NoNode
        /\ ReturnTo(path, FALSE)
        /\ UNCHANGED <<reference_pointing_to_me, visited, handles, path>>
     \/ /\ callee # NoNode
        /\ reference_pointing_to_me' = [reference_pointing_to_me EXCEPT ![callee] = @ - 1]
        /\ IF callee \in visited
           THEN ReturnTo(path, FALSE) /\ UNCHANGED <<visited, handles, path>>
           ELSE /\ visited' = visited \cup {callee}
                /\ handles' = handles \ {callee}
                /\ path' = Append(path, callee)
                /\ pc' = "iterate"
  /\ UNCHANGED <<allocated, refs, lstLeaks, classNodes, callee, phase>>

Top == path[Len(path)]

(* Mutant of ReleaseReference: the list does not move past a root.          *)
ReleaseReference_StopsAtRoot ==
  /\ pc = "iterate"
  /\ \E r \in refs[Top] :
       /\ r.node # NoNode
       /\ refs' = [refs EXCEPT ![Top] = @ \ {r}]
       /\ callee' = r.node
  /\ pc' = "call"
  /\ UNCHANGED <<allocated, reference_pointing_to_me, visited, handles, lstLeaks, classNodes,
                 path, phase>>

(* The loop over the references, each of which is freed after its node.     *)
ReleaseReference ==
  /\ pc = "iterate"
  /\ \E r \in refs[Top] :
       /\ refs' = [refs EXCEPT ![Top] = @ \ {r}]
       /\ callee' = r.node
  /\ pc' = "call"
  /\ UNCHANGED <<allocated, reference_pointing_to_me, visited, handles, lstLeaks, classNodes,
                 path, phase>>

(* Mutants of Finish: the counter is not looked at; the flag stays.         *)
Finish_Always ==
  /\ pc = "iterate" /\ refs[Top] = {}
  /\ path' = SubSeq(path, 1, Len(path) - 1)
  /\ visited' = visited \ {Top}
  /\ allocated' = allocated \ {Top}
  /\ ReturnTo(path', TRUE)
  /\ UNCHANGED <<reference_pointing_to_me, refs, handles, lstLeaks, classNodes, callee, phase>>

Finish_StaysVisited ==
  /\ pc = "iterate" /\ refs[Top] = {}
  /\ path' = SubSeq(path, 1, Len(path) - 1)
  /\ UNCHANGED visited
  /\ allocated' = IF reference_pointing_to_me[Top] > 0
                  THEN allocated ELSE allocated \ {Top}
  /\ ReturnTo(path', Top \notin allocated')
  /\ UNCHANGED <<reference_pointing_to_me, refs, handles, lstLeaks, classNodes, callee, phase>>

(* After the loop.                                                          *)
Finish ==
  /\ pc = "iterate" /\ refs[Top] = {}
  /\ path' = SubSeq(path, 1, Len(path) - 1)
  /\ visited' = visited \ {Top}
  /\ allocated' = IF reference_pointing_to_me[Top] > 0
                  THEN allocated ELSE allocated \ {Top}
  /\ ReturnTo(path', Top \notin allocated')
  /\ UNCHANGED <<reference_pointing_to_me, refs, handles, lstLeaks, classNodes, callee, phase>>

Next == FreeNextLeak \/ FreeNextClass \/ Call \/ ReleaseReference \/ Finish

Spec == Init /\ [][Next]_vars
FairSpec == Spec /\ WF_vars(Next)
-----------------------------------------------------------------------------
TypeOK ==
  /\ allocated \subseteq Nodes /\ visited \subseteq Nodes /\ handles \subseteq Nodes
  /\ reference_pointing_to_me \in [Nodes -> Int]
  /\ refs \in [Nodes -> SUBSET Reference]
  /\ lstLeaks \in Seq(Nodes) /\ classNodes \subseteq ClassNodes
  /\ path \in Seq(Nodes) /\ callee \in Nodes \cup {NoNode}
  /\ phase \in {"leaks", "classes"}
  /\ pc \in {"leaks", "classes", "call", "iterate", "done", "alert"}
  /\ pc = "iterate" => path # <<>>

(***************************************************************************)
(* No memory is used after it was freed: the node of a call about to be    *)
(* made, of every call that has not returned, of every reference that is   *)
(* still in a list, and of the two lists, is allocated.                    *)
(***************************************************************************)
NoUseAfterFree ==
  /\ Elements(path) \cup Elements(lstLeaks) \cup classNodes \subseteq allocated
  /\ \A n \in Nodes : \A r \in refs[n] : r.node # NoNode => r.node \in allocated
  /\ pc = "call" /\ callee # NoNode => callee \in allocated

(***************************************************************************)
(* The counter of a node is the number of pointers to it that remain: in   *)
(* the references not yet released, in the two lists, and the one that     *)
(* was taken out for the call about to be made.                            *)
(***************************************************************************)
CountersAreExact ==
  \A n \in allocated :
    reference_pointing_to_me[n] =
      Owners(n, refs, lstLeaks, classNodes) + IF pc = "call" /\ callee = n THEN 1 ELSE 0

(***************************************************************************)
(* The alerts "DETECTED INTERNAL LEAK: nodes allocated: %d, nodes freed:   *)
(* %d" (releaseThreadData) and "class not freed!" (untagAllClasses) are    *)
(* never raised: cycles and shared parts included, all nodes are freed,    *)
(* and the node of a class by the call of untagAllClasses at the latest.   *)
(***************************************************************************)
EverythingIsFreed ==
  /\ pc # "alert"
  /\ pc = "done" => allocated = {} /\ handles = {}

(* The release ends, whatever cycles there are.                             *)
ReleaseTerminates == <>(pc \in {"done", "alert"})
===============================================================================
