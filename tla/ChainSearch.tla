----------------------------- MODULE ChainSearch -----------------------------
(***************************************************************************)
(* Search for the chain of references that holds each leak, and its report *)
(* (generateReferencesChainForNode, fillClassInMemoryNode and              *)
(* printReferencesChainForLeakingNodes, jvm_reference.c).                  *)
(*                                                                         *)
(* The nodes and the references recorded in them are what the heap walks   *)
(* left.  For one leak after another a depth first search goes from the    *)
(* node of the leak to its referrers, through nodes related to the leak.   *)
(* The recursion is written out: path is the stack of the calls that went  *)
(* past the early returns, todo[n] the rest of the list that the call for  *)
(* n has to scan, and via[n] the reference it is in.                       *)
(*                                                                         *)
(* The application runs meanwhile: the object of a node that the agent     *)
(* holds no handle on may be collected at any time.                        *)
(***************************************************************************)
EXTENDS Integers, Sequences

CONSTANTS
  Nodes,              (* Nodes that references may come from.               *)
  ClassNodes,         (* Those of classes: no reference is recorded in them.*)
  NoNode,             (* The null pointer.                                  *)
  numberOfLeaks,
  LeakNode,           (* The node of each leak.                             *)
  Graphs,             (* What the walks may leave: refs and leaks of nodes. *)
  Options             (* Options of the dumps: references needed at all,    *)
                      (* show_unreachables, consider_local_references.      *)

LeakNumbers == 0 .. numberOfLeaks - 1

(* A reference to an object, from the object of a node or from a root.  To  *)
(* the search a static field is a root like the others; its class, which is *)
(* asked for when it is printed, has a plain node without a handle if it    *)
(* was loaded after tagAllClasses (leak_detect.c:126).                      *)
InnerReferences == {[kind |-> "inner", node |-> n] : n \in Nodes}
RootReferences  == {[kind |-> "static", node |-> n] : n \in Nodes}
                     \cup {[kind |-> k, node |-> NoNode] : k \in {"global", "local"}}
Referers == InnerReferences \cup RootReferences

ASSUME ConstantsAssumption ==
  /\ NoNode \notin Nodes /\ ClassNodes \subseteq Nodes
  /\ numberOfLeaks \in Nat
  /\ LeakNode \in [LeakNumbers -> Nodes]
  /\ Graphs \subseteq [refs: [Nodes -> SUBSET Referers],
                       leaks: [Nodes -> SUBSET LeakNumbers]]
  /\ \A g \in Graphs, n \in ClassNodes : g.refs[n] = {}
  /\ Options \subseteq [isNeedReferences: BOOLEAN, show_unreachables: BOOLEAN,
                        consider_local_references: BOOLEAN]

VARIABLES
  gdata,         (* The options of this dump.  Never changed.               *)
  graph,         (* The nodes as the walks left them.  Never changed.       *)
  leaks_related, (* The leaks of each node: the search removes some.        *)
  alive,         (* Nodes whose object has not been collected.              *)
  obj,           (* Nodes with a handle on their object.                    *)
  dead,          (* Nodes marked dead.                                      *)
  visited,       (* Nodes marked visited.                                   *)
  path, todo, via,
  callee,        (* The argument of the call to make.                       *)
  orderedRefs,   (* The chain returned last; empty for NULL.                *)
  leak,          (* The leak being treated.                                 *)
  failed,        (* History: nodes whose search for this leak found nothing.*)
  pc

nodeVars  == <<leaks_related, obj, dead, visited>>
stackVars == <<path, todo, via, callee>>
inputVars == <<gdata, graph>>
vars == <<inputVars, nodeVars, alive, stackVars, orderedRefs, leak, failed, pc>>
-----------------------------------------------------------------------------
isRootReference(kind) == kind \in {"static", "global", "local"}

shouldConsiderThisReference(kind) == kind = "local" => gdata.consider_local_references

(* GetObjectsWithTags finds the object of a node while it is alive.         *)
fillClassInMemoryNode(n) ==
  /\ obj'  = IF n \notin dead /\ n \in alive THEN obj \cup {n} ELSE obj
  /\ dead' = IF n \notin obj /\ n \notin alive THEN dead \cup {n} ELSE dead

Top == path[Len(path)]

(* Mutants of Pop: the first call returns like any other; the flag stays.   *)
Pop_ToCaller == /\ path' = SubSeq(path, 1, Len(path) - 1)
                /\ visited' = visited \ {Top}
                /\ pc' = "return"

Pop_KeepsVisited == /\ path' = SubSeq(path, 1, Len(path) - 1)
                    /\ visited' = visited
                    /\ pc' = IF Len(path) = 1 THEN "report" ELSE "return"

Pop == /\ path' = SubSeq(path, 1, Len(path) - 1)
       /\ visited' = visited \ {Top}
       /\ pc' = IF Len(path) = 1 THEN "report" ELSE "return"
-----------------------------------------------------------------------------
Init ==
  /\ gdata \in Options
  /\ graph \in Graphs
  /\ leaks_related = graph.leaks
  /\ alive = Nodes
  /\ obj = {LeakNode[i] : i \in LeakNumbers} \cup ClassNodes
  /\ dead = {} /\ visited = {}
  /\ path = <<>>
  /\ todo = [n \in Nodes |-> {}]
  /\ via = [n \in Nodes |-> [kind |-> "global", node |-> NoNode]]
  /\ callee = NoNode
  /\ orderedRefs = <<>>
  /\ leak = 0
  /\ failed = {}
  /\ pc = "leak"

(* The head of the loop of printReferencesChainForLeakingNodes.             *)
NextLeak ==
  /\ pc = "leak"
  /\ orderedRefs' = <<>> /\ failed' = {}
  /\ \/ /\ leak < numberOfLeaks /\ gdata.isNeedReferences
        /\ callee' = LeakNode[leak] /\ pc' = "call"
     \/ /\ leak < numberOfLeaks /\ ~gdata.isNeedReferences
        /\ pc' = "report" /\ UNCHANGED callee
     \/ /\ leak >= numberOfLeaks
        /\ pc' = "done" /\ UNCHANGED callee
  /\ UNCHANGED <<inputVars, nodeVars, alive, path, todo, via, leak>>

(* generateReferencesChainForNode returns NULL at once.                     *)
ReturnNull ==
  /\ pc = "call"
  /\ callee \in visited \/ leak \notin leaks_related[callee]
  /\ pc' = IF path = <<>> THEN "report" ELSE "return"
  /\ UNCHANGED <<inputVars, nodeVars, alive, stackVars, orderedRefs, leak, failed>>

(* It does not: the references of a dead node are not looked at.            *)
Enter ==
  /\ pc = "call"
  /\ callee \notin visited /\ leak \in leaks_related[callee]
  /\ visited' = visited \cup {callee}
  /\ fillClassInMemoryNode(callee)
  /\ path' = Append(path, callee)
  /\ todo' = [todo EXCEPT ![callee] = IF callee \in dead' THEN {} ELSE graph.refs[callee]]
  /\ pc' = "scan"
  /\ UNCHANGED <<inputVars, leaks_related, alive, via, callee, orderedRefs, leak, failed>>

Skip(r) ==
  /\ ~shouldConsiderThisReference(r.kind)
  /\ todo' = [todo EXCEPT ![Top] = @ \ {r}]
  /\ UNCHANGED <<visited, path, via, callee, orderedRefs, pc>>

(* Mutant of Descend: the list does not move on after the call.             *)
Descend_Again(r) ==
  /\ shouldConsiderThisReference(r.kind) /\ ~isRootReference(r.kind)
  /\ via' = [via EXCEPT ![Top] = r]
  /\ callee' = r.node
  /\ pc' = "call"
  /\ UNCHANGED <<todo, visited, path, orderedRefs>>

Descend(r) ==
  /\ shouldConsiderThisReference(r.kind) /\ ~isRootReference(r.kind)
  /\ todo' = [todo EXCEPT ![Top] = @ \ {r}]
  /\ via' = [via EXCEPT ![Top] = r]
  /\ callee' = r.node
  /\ pc' = "call"
  /\ UNCHANGED <<visited, path, orderedRefs>>

RootFound(r) ==
  /\ shouldConsiderThisReference(r.kind) /\ isRootReference(r.kind)
  /\ orderedRefs' = <<r>>
  /\ Pop
  /\ UNCHANGED <<todo, via, callee>>

(* The next reference of the list, whatever the order of the list.          *)
ScanReference ==
  /\ pc = "scan"
  /\ \E r \in todo[Top] : Skip(r) \/ Descend(r) \/ RootFound(r)
  /\ UNCHANGED <<inputVars, leaks_related, alive, obj, dead, leak, failed>>

ListEnd ==
  /\ pc = "scan" /\ todo[Top] = {}
  /\ orderedRefs' = <<>>
  /\ failed' = failed \cup {Top}
  /\ Pop
  /\ UNCHANGED <<inputVars, leaks_related, alive, obj, dead, todo, via, callee, leak>>

(* Mutant of NothingFound: the caller gives up after one failure.           *)
NothingFound_GivesUp ==
  /\ pc = "return" /\ orderedRefs = <<>>
  /\ leaks_related' = [leaks_related EXCEPT ![Top] = @ \ {leak}]
  /\ todo' = [todo EXCEPT ![Top] = {}]
  /\ pc' = "scan"
  /\ UNCHANGED <<inputVars, alive, obj, dead, visited, path, via, callee, orderedRefs, leak, failed>>

(* Back in the caller with nothing: the caller, not the node that was       *)
(* tried, loses the leak, and goes on with its list.                        *)
NothingFound ==
  /\ pc = "return" /\ orderedRefs = <<>>
  /\ leaks_related' = [leaks_related EXCEPT ![Top] = @ \ {leak}]
  /\ pc' = "scan"
  /\ UNCHANGED <<inputVars, alive, obj, dead, visited, stackVars, orderedRefs, leak, failed>>

(* Mutant of ChainFound: the chain grows at the wrong end.                  *)
ChainFound_AtEnd ==
  /\ pc = "return" /\ orderedRefs # <<>>
  /\ orderedRefs' = Append(orderedRefs, via[Top])
  /\ Pop
  /\ UNCHANGED <<inputVars, leaks_related, alive, obj, dead, todo, via, callee, leak, failed>>

ChainFound ==
  /\ pc = "return" /\ orderedRefs # <<>>
  /\ orderedRefs' = <<via[Top]>> \o orderedRefs
  /\ Pop
  /\ UNCHANGED <<inputVars, leaks_related, alive, obj, dead, todo, via, callee, leak, failed>>

(* The class of a static field, or that of the referrer of a field, is      *)
(* asked for, which a dead node does not have: get_class_name, JVMTI or the *)
(* C library refuse the null pointer and the process ends.  What is written *)
(* is left out.                                                             *)
printSingleReference(r, next) ==
  IF r.node = NoNode
  THEN pc' = next /\ UNCHANGED <<obj, dead>>
  ELSE /\ fillClassInMemoryNode(r.node)
       /\ pc' = IF r.node \in dead' THEN "crash" ELSE next

(* The search holds every object on a chain, but not the class of the       *)
(* static field at its end.                                                 *)
printReferenceChainToNode(next) == printSingleReference(orderedRefs[Len(orderedRefs)], next)

ShowsDirectReferences == gdata.show_unreachables /\ gdata.isNeedReferences

(* The report of a leak: its chain; or, on demand, all that refers to it,   *)
(* one reference after the other; or nothing.                               *)
Report ==
  /\ pc = "report"
  /\ \/ /\ orderedRefs # <<>>
        /\ printReferenceChainToNode("leak")
        /\ leak' = leak + 1 /\ UNCHANGED todo
     \/ /\ orderedRefs = <<>> /\ ShowsDirectReferences
        /\ todo' = [todo EXCEPT ![LeakNode[leak]] = graph.refs[LeakNode[leak]]]
        /\ pc' = "direct" /\ UNCHANGED <<leak, obj, dead>>
     \/ /\ orderedRefs = <<>> /\ ~ShowsDirectReferences
        /\ leak' = leak + 1
        /\ pc' = "leak" /\ UNCHANGED <<todo, obj, dead>>
  /\ UNCHANGED <<inputVars, leaks_related, visited, alive, path, via, callee, orderedRefs, failed>>

(* printAllReferencesToNode, and the end of the iteration for this leak.    *)
PrintDirect ==
  /\ pc = "direct"
  /\ \/ \E r \in todo[LeakNode[leak]] :
          /\ todo' = [todo EXCEPT ![LeakNode[leak]] = @ \ {r}]
          /\ printSingleReference(r, "direct")
          /\ UNCHANGED leak
     \/ /\ todo[LeakNode[leak]] = {}
        /\ leak' = leak + 1 /\ pc' = "leak"
        /\ UNCHANGED <<todo, obj, dead>>
  /\ UNCHANGED <<inputVars, leaks_related, visited, alive, path, via, callee, orderedRefs, failed>>

(* The application dropped the object of n and it was collected.            *)
Collect(n) ==
  /\ n \in alive \ obj
  /\ alive' = alive \ {n}
  /\ UNCHANGED <<inputVars, nodeVars, stackVars, orderedRefs, leak, failed, pc>>

Dumper == \/ NextLeak \/ ReturnNull \/ Enter \/ ScanReference \/ ListEnd
          \/ NothingFound \/ ChainFound \/ Report \/ PrintDirect

Next == Dumper \/ \E n \in Nodes : pc \notin {"done", "crash"} /\ Collect(n)

Spec == Init /\ [][Next]_vars

(* The dumper thread runs; the application need not do anything.            *)
FairSpec == Spec /\ WF_vars(Dumper)
-----------------------------------------------------------------------------
TypeOK ==
  /\ gdata \in [isNeedReferences: BOOLEAN, show_unreachables: BOOLEAN,
                consider_local_references: BOOLEAN]
  /\ graph \in [refs: [Nodes -> SUBSET Referers], leaks: [Nodes -> SUBSET LeakNumbers]]
  /\ leaks_related \in [Nodes -> SUBSET LeakNumbers]
  /\ alive \subseteq Nodes /\ obj \subseteq Nodes
  /\ dead \subseteq Nodes /\ visited \subseteq Nodes
  /\ path \in Seq(Nodes)
  /\ todo \in [Nodes -> SUBSET Referers]
  /\ via \in [Nodes -> Referers]
  /\ callee \in Nodes \cup {NoNode}
  /\ orderedRefs \in Seq(Referers)
  /\ leak \in 0 .. numberOfLeaks
  /\ failed \subseteq Nodes
  /\ pc \in {"leak", "call", "scan", "return", "report", "direct", "done", "crash"}
  /\ pc = "call" => callee \in Nodes
  /\ pc \in {"scan", "return"} => path # <<>>
  /\ pc \in {"call", "scan", "return", "report", "direct"} => leak < numberOfLeaks
-----------------------------------------------------------------------------
Considered(n) == {r \in graph.refs[n] : shouldConsiderThisReference(r.kind)}

(***************************************************************************)
(* The visited flags are those of the calls that have not returned, each   *)
(* node once: whichever way a call ends it clears the flag, so the search  *)
(* for the next leak, and later the release of the nodes, which uses the   *)
(* same flag, start with none; and the recursion is no deeper than there   *)
(* are nodes.                                                              *)
(***************************************************************************)
VisitedMarksTheStack ==
  /\ visited = {path[k] : k \in 1 .. Len(path)}
  /\ \A j, k \in 1 .. Len(path) : path[j] = path[k] => j = k
  /\ pc \in {"leak", "report", "direct", "done", "crash"} => path = <<>>

(***************************************************************************)
(* A chain about to be printed is one: recorded references the options     *)
(* consider, the first to the leaking object, each of the others to the    *)
(* object that the one before comes from, the last and no other from a     *)
(* root; every object on it is held, so that printing meets no dead one    *)
(* before the root, and the walks related each to the leak.                *)
(***************************************************************************)
IsChain(c, i) ==
  LET at(k) == IF k = 1 THEN LeakNode[i] ELSE c[k - 1].node IN
  \A k \in 1 .. Len(c) :
    /\ at(k) \in obj \ dead /\ i \in graph.leaks[at(k)]
    /\ c[k] \in Considered(at(k))
    /\ isRootReference(c[k].kind) <=> k = Len(c)

ReportedChainIsReal == pc = "report" => IsChain(orderedRefs, leak)

(***************************************************************************)
(* A leak goes without a chain only if it has none: the nodes the search   *)
(* can reach from it are closed under the references considered, up to     *)
(* objects that died, and no root refers to them.  The leaks that the      *)
(* search removes from nodes on the way, and the nodes it does not enter   *)
(* because they are on the stack, cost no chain.                           *)
(***************************************************************************)
HasNoChain(S, i) ==
  /\ LeakNode[i] \in S
  /\ \A n \in S \ dead : \A r \in Considered(n) :
       /\ ~isRootReference(r.kind)
       /\ r.node \in S \/ i \notin graph.leaks[r.node]

NoChainIsMissed ==
  (pc = "report" /\ orderedRefs = <<>> /\ gdata.isNeedReferences
     /\ leak \in graph.leaks[LeakNode[leak]])
  => \E S \in SUBSET Nodes : HasNoChain(S, leak)

(***************************************************************************)
(* The search ends for every leak, cycles of references included.          *)
(***************************************************************************)
Terminates == <>(pc \in {"done", "crash"})

(***************************************************************************)
(* Usage of --show-unreachables: "Don't try to find reference chain to     *)
(* root for leaking objects, display all direct reference to it instead"   *)
(* -- without ending the process that is looked at.                        *)
(***************************************************************************)
DirectReferencesArePrinted == pc # "crash"
-----------------------------------------------------------------------------
(***************************************************************************)
(* Completeness.  NoChainIsMissed speaks of the end of a search only.  The *)
(* invariant below says what holds on the way, as long as no chain is on   *)
(* its way back: all that a call has scanned leads to nodes whose own call *)
(* failed or is still on the stack, so that when the stack is empty the    *)
(* failed nodes are closed.                                                *)
(***************************************************************************)
Searching == /\ pc \in {"call", "scan", "return", "report"}
             /\ orderedRefs = <<>> /\ gdata.isNeedReferences

(* n needs no further call: its own failed or is on the stack, or the walks *)
(* did not relate it to the leak.                                           *)
Settled(n) == n \in failed \cup visited \/ leak \notin graph.leaks[n]

(* r, in the list of some node, leads to no root: it was followed already,  *)
(* or is being followed by the call that is about to start.                 *)
LeadsNowhere(r) == /\ ~isRootReference(r.kind)
                   /\ Settled(r.node) \/ (pc = "call" /\ r.node = callee)

(* The search only takes from a node the leak it works for.                 *)
OtherLeaksKept ==
  \A n \in Nodes, i \in LeakNumbers :
    i \in graph.leaks[n] /\ i \notin leaks_related[n]
      => i < leak \/ (i = leak /\ pc # "leak")

NoChainYet == pc \in {"call", "scan"} => orderedRefs = <<>>

RemovedWereVisited ==
  \A n \in Nodes : leak \in leaks_related[n] \/ Settled(n)

ScannedLeadsNowhere ==
  \A n \in Nodes \ dead : \A r \in Considered(n) :
    n \in failed \/ (n \in visited /\ r \notin todo[n]) => LeadsNowhere(r)

LeakNodeIsSearched ==
  Settled(LeakNode[leak]) \/ (pc = "call" /\ callee = LeakNode[leak])

SearchInv ==
  /\ TypeOK /\ VisitedMarksTheStack
  /\ OtherLeaksKept /\ NoChainYet
  /\ Searching => RemovedWereVisited /\ ScannedLeadsNowhere /\ LeakNodeIsSearched
===============================================================================
