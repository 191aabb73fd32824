-------------------------- MODULE ChainSearchProofs --------------------------
(***************************************************************************)
(* Proofs about the search for chains, for every graph of nodes, every     *)
(* number of leaks and every choice of options.                            *)
(***************************************************************************)
EXTENDS ChainSearch, SequenceFacts, TLAPS

(***************************************************************************)
(* Facts about the references.                                             *)
(***************************************************************************)

(* A referer that is not a root comes from a node; no root does.            *)
LEMMA RefererFacts ==
  ASSUME NEW r \in Referers
  PROVE  /\ r.node \in Nodes \cup {NoNode}
         /\ ~isRootReference(r.kind) => r.node \in Nodes
  BY DEF Referers, InnerReferences, RootReferences, isRootReference
-----------------------------------------------------------------------------
(***************************************************************************)
(* Type correctness.                                                       *)
(***************************************************************************)

(* The call at the top of the stack returns.                                *)
LEMMA PopType ==
  ASSUME TypeOK, path # <<>>, Pop
  PROVE  /\ path' \in Seq(Nodes)
         /\ visited' \subseteq Nodes
         /\ pc' \in {"report", "return"}
         /\ pc' = "return" => path' # <<>>
<1>1. path \in Seq(Nodes) /\ visited \subseteq Nodes
  BY DEF TypeOK
<1>2. Len(path) = 1 \/ path' # <<>>
  BY <1>1, PopFacts DEF Pop
<1>3. path' \in Seq(Nodes)
  BY <1>1, PopFacts DEF Pop
<1>. QED BY <1>1, <1>2, <1>3 DEF Pop

LEMMA TopType == ASSUME TypeOK, path # <<>> PROVE Top \in Nodes
  BY PopFacts DEF TypeOK, Top

LEMMA LeakNodeType == ASSUME NEW i \in LeakNumbers PROVE LeakNode[i] \in Nodes
  BY ConstantsAssumption

(* The object of a node is held or the node is marked dead.                 *)
LEMMA FillType ==
  ASSUME TypeOK, NEW n \in Nodes, fillClassInMemoryNode(n)
  PROVE  obj' \subseteq Nodes /\ dead' \subseteq Nodes
  BY DEF TypeOK, fillClassInMemoryNode

(* A reference is printed: the node it comes from is filled.               *)
LEMMA PrintType ==
  ASSUME TypeOK, NEW r \in Referers, NEW next, printSingleReference(r, next)
  PROVE  /\ obj' \subseteq Nodes /\ dead' \subseteq Nodes /\ pc' \in {next, "crash"}
         /\ (\E n \in Nodes : fillClassInMemoryNode(n)) \/ UNCHANGED <<obj, dead>>
<1>1. CASE r.node = NoNode
  BY <1>1 DEF printSingleReference, TypeOK
<1>2. CASE r.node # NoNode
  BY <1>2, RefererFacts, FillType DEF printSingleReference
<1>. QED BY <1>1, <1>2

(* The end of a chain.                                                      *)
LEMMA LastType ==
  ASSUME TypeOK, orderedRefs # <<>> PROVE orderedRefs[Len(orderedRefs)] \in Referers
<1>1. orderedRefs \in Seq(Referers) /\ Len(orderedRefs) \in Nat \ {0}
  BY EmptySeq, LenProperties DEF TypeOK
<1>2. Len(orderedRefs) \in 1 .. Len(orderedRefs)
  BY <1>1
<1>. QED BY <1>1, <1>2, ElementOfSeq

(* What the report of a leak does, printing or not.                         *)
LEMMA ReportFacts ==
  ASSUME TypeOK, Report
  PROVE  /\ pc = "report" /\ pc' \in {"leak", "direct", "crash"}
         /\ pc' = "direct" => orderedRefs = <<>> /\ leak' = leak
         /\ pc' # "direct" => leak' = leak + 1
         /\ todo' \in {todo, [todo EXCEPT ![LeakNode[leak]] = graph.refs[LeakNode[leak]]]}
         /\ (\E n \in Nodes : fillClassInMemoryNode(n)) \/ UNCHANGED <<obj, dead>>
         /\ obj' \subseteq Nodes /\ dead' \subseteq Nodes
         /\ UNCHANGED <<inputVars, leaks_related, visited, alive, path, via, callee, orderedRefs,
                        failed>>
<1>1. CASE orderedRefs # <<>>
  <2>1. /\ printSingleReference(orderedRefs[Len(orderedRefs)], "leak")
        /\ leak' = leak + 1 /\ todo' = todo
    BY <1>1 DEF Report, printReferenceChainToNode
  <2>2. /\ obj' \subseteq Nodes /\ dead' \subseteq Nodes /\ pc' \in {"leak", "crash"}
        /\ (\E n \in Nodes : fillClassInMemoryNode(n)) \/ UNCHANGED <<obj, dead>>
    BY <1>1, <2>1, LastType, PrintType
  <2>. QED BY <1>1, <2>1, <2>2 DEF Report
<1>2. CASE orderedRefs = <<>>
  BY <1>2 DEF Report, TypeOK
<1>. QED BY <1>1, <1>2

(* ... and a turn of printAllReferencesToNode.                              *)
LEMMA DirectFacts ==
  ASSUME TypeOK, PrintDirect
  PROVE  /\ pc = "direct" /\ pc' \in {"leak", "direct", "crash"}
         /\ IF pc' = "leak" THEN leak' = leak + 1 ELSE leak' = leak
         /\ todo' \in [Nodes -> SUBSET Referers]
         /\ (\E n \in Nodes : fillClassInMemoryNode(n)) \/ UNCHANGED <<obj, dead>>
         /\ obj' \subseteq Nodes /\ dead' \subseteq Nodes
         /\ UNCHANGED <<inputVars, leaks_related, visited, alive, path, via, callee, orderedRefs,
                        failed>>
<1>. DEFINE n == LeakNode[leak]
<1>1. n \in Nodes
  BY LeakNodeType, ConstantsAssumption DEF PrintDirect, TypeOK, LeakNumbers
<1>2. CASE \E r \in todo[n] : /\ todo' = [todo EXCEPT ![n] = @ \ {r}]
                              /\ printSingleReference(r, "direct") /\ UNCHANGED leak
  <2>1. PICK r \in todo[n] : /\ todo' = [todo EXCEPT ![n] = @ \ {r}]
                             /\ printSingleReference(r, "direct") /\ UNCHANGED leak
    BY <1>2
  <2>2. r \in Referers /\ todo' \in [Nodes -> SUBSET Referers]
    BY <1>1, <2>1 DEF TypeOK
  <2>3. /\ obj' \subseteq Nodes /\ dead' \subseteq Nodes /\ pc' \in {"direct", "crash"}
        /\ (\E m \in Nodes : fillClassInMemoryNode(m)) \/ UNCHANGED <<obj, dead>>
    BY <2>1, <2>2, PrintType
  <2>. QED BY <2>1, <2>2, <2>3 DEF PrintDirect
<1>3. CASE leak' = leak + 1 /\ pc' = "leak" /\ UNCHANGED <<todo, obj, dead>>
  BY <1>3 DEF PrintDirect, TypeOK
<1>. QED BY <1>2, <1>3 DEF PrintDirect

LEMMA InitType == Init => TypeOK
<1>. SUFFICES ASSUME Init PROVE TypeOK
  OBVIOUS
<1>. USE ConstantsAssumption DEF Init
<1>1. /\ gdata \in [isNeedReferences: BOOLEAN, show_unreachables: BOOLEAN,
                    consider_local_references: BOOLEAN]
      /\ graph \in [refs: [Nodes -> SUBSET Referers], leaks: [Nodes -> SUBSET LeakNumbers]]
  OBVIOUS
<1>2. leaks_related \in [Nodes -> SUBSET LeakNumbers]
  BY <1>1
<1>3. obj \subseteq Nodes
  BY LeakNodeType
<1>4. path \in Seq(Nodes) /\ orderedRefs \in Seq(Referers)
  BY EmptySeq
<1>5. todo \in [Nodes -> SUBSET Referers] /\ via \in [Nodes -> Referers]
  BY DEF Referers, RootReferences
<1>6. leak \in 0 .. numberOfLeaks
  OBVIOUS
<1>. QED BY <1>1, <1>2, <1>3, <1>4, <1>5, <1>6 DEF TypeOK

LEMMA NextType == TypeOK /\ [Next]_vars => TypeOK'
<1>. SUFFICES ASSUME TypeOK, [Next]_vars PROVE TypeOK'
  OBVIOUS
<1>. USE DEF TypeOK, inputVars, nodeVars, stackVars
<1>1. CASE NextLeak
  <2>1. leak < numberOfLeaks => LeakNode[leak] \in Nodes
    BY LeakNodeType, ConstantsAssumption DEF LeakNumbers
  <2>2. orderedRefs' \in Seq(Referers)
    BY <1>1, EmptySeq DEF NextLeak
  <2>. QED BY <1>1, <2>1, <2>2 DEF NextLeak
<1>2. CASE ReturnNull
  BY <1>2 DEF ReturnNull
<1>3. CASE Enter
  <2>1. path' \in Seq(Nodes) /\ path' # <<>>
    BY <1>3, PushFacts DEF Enter
  <2>2. obj' \subseteq Nodes /\ dead' \subseteq Nodes
    BY <1>3, FillType DEF Enter
  <2>3. todo' \in [Nodes -> SUBSET Referers]
    BY <1>3 DEF Enter
  <2>. QED BY <1>3, <2>1, <2>2, <2>3 DEF Enter
<1>4. CASE ScanReference
  <2>1. path # <<>> /\ Top \in Nodes
    BY <1>4, TopType DEF ScanReference
  <2>2. PICK r \in todo[Top] : Skip(r) \/ Descend(r) \/ RootFound(r)
    BY <1>4 DEF ScanReference
  <2>3. r \in Referers
    BY <2>1, <2>2
  <2>4. CASE Skip(r)
    BY <1>4, <2>1, <2>4 DEF ScanReference, Skip
  <2>5. CASE Descend(r)
    BY <1>4, <2>1, <2>3, <2>5, RefererFacts DEF ScanReference, Descend
  <2>6. CASE RootFound(r)
    <3>1. orderedRefs' \in Seq(Referers)
      BY <2>3, <2>6 DEF RootFound
    <3>. QED BY <1>4, <2>1, <2>6, <3>1, PopType DEF ScanReference, RootFound
  <2>. QED BY <2>2, <2>4, <2>5, <2>6
<1>5. CASE ListEnd
  <2>1. path # <<>> /\ Top \in Nodes
    BY <1>5, TopType DEF ListEnd
  <2>2. orderedRefs' \in Seq(Referers)
    BY <1>5, EmptySeq DEF ListEnd
  <2>. QED BY <1>5, <2>1, <2>2, PopType DEF ListEnd
<1>6. CASE NothingFound
  <2>1. path # <<>> /\ Top \in Nodes
    BY <1>6, TopType DEF NothingFound
  <2>. QED BY <1>6, <2>1 DEF NothingFound
<1>7. CASE ChainFound
  <2>1. path # <<>> /\ Top \in Nodes
    BY <1>7, TopType DEF ChainFound
  <2>2. via[Top] \in Referers /\ <<via[Top]>> \in Seq(Referers)
    BY <2>1
  <2>3. orderedRefs' \in Seq(Referers)
    BY <1>7, <2>2, ConcatProperties DEF ChainFound
  <2>. QED BY <1>7, <2>1, <2>3, PopType DEF ChainFound
<1>8. CASE Report
  <2>1. LeakNode[leak] \in Nodes /\ leak + 1 \in 0 .. numberOfLeaks
    BY <1>8, LeakNodeType, ConstantsAssumption DEF Report, LeakNumbers
  <2>. QED BY <1>8, <2>1, ReportFacts
<1>9. CASE PrintDirect
  <2>1. leak + 1 \in 0 .. numberOfLeaks
    BY <1>9, ConstantsAssumption DEF PrintDirect
  <2>. QED BY <1>9, <2>1, DirectFacts
<1>10. ASSUME NEW n \in Nodes, Collect(n) PROVE TypeOK'
  BY <1>10 DEF Collect
<1>11. CASE UNCHANGED vars
  BY <1>11 DEF vars
<1>. QED BY <1>1, <1>2, <1>3, <1>4, <1>5, <1>6, <1>7, <1>8, <1>9, <1>10, <1>11
         DEF Next, Dumper

(* Every state of the search is well typed; in particular a call has a node *)
(* for argument, never the null pointer of a root.                          *)
THEOREM TypeCorrect == Spec => []TypeOK
  BY InitType, NextType, PTL DEF Spec
-----------------------------------------------------------------------------
(***************************************************************************)
(* The visited flags.                                                      *)
(***************************************************************************)

(* A call returns: its node is the only one to lose its flag.               *)
LEMMA PopStack ==
  ASSUME TypeOK, VisitedMarksTheStack, path # <<>>, Pop
  PROVE  VisitedMarksTheStack'
<1>. DEFINE rest == SubSeq(path, 1, Len(path) - 1)
<1>1. path \in Seq(Nodes)
  BY DEF TypeOK
<1>2. /\ Len(path) \in Nat \ {0} /\ Len(rest) = Len(path) - 1
      /\ \A i \in 1 .. Len(path) - 1 : rest[i] = path[i]
      /\ Len(path) = 1 => rest = <<>>
  BY <1>1, PopFacts
<1>3. path' = rest /\ visited' = visited \ {path[Len(path)]}
  BY DEF Pop, Top
<1>. HIDE DEF rest
<1>4. \A j, k \in 1 .. Len(rest) : rest[j] = rest[k] => j = k
  BY <1>2 DEF VisitedMarksTheStack
<1>5. visited' = {rest[k] : k \in 1 .. Len(rest)}
  <2>1. \A k \in 1 .. Len(path) : k = Len(path) \/ k \in 1 .. Len(rest)
    BY <1>2
  <2>2. \A k \in 1 .. Len(rest) : rest[k] = path[k] /\ k \in 1 .. Len(path) /\ k # Len(path)
    BY <1>2
  <2>3. Len(path) \in 1 .. Len(path)
    BY <1>2
  <2>. QED BY <1>3, <2>1, <2>2, <2>3 DEF VisitedMarksTheStack
<1>6. pc' \in {"leak", "report", "direct", "done", "crash"} => path' = <<>>
  BY <1>2, <1>3 DEF Pop, rest
<1>. QED BY <1>3, <1>4, <1>5, <1>6 DEF VisitedMarksTheStack

LEMMA InitStack == Init => VisitedMarksTheStack
<1>1. Len(<<>>) = 0
  BY EmptySeq
<1>. QED BY <1>1 DEF Init, VisitedMarksTheStack

LEMMA NextStack ==
  TypeOK /\ VisitedMarksTheStack /\ [Next]_vars => VisitedMarksTheStack'
<1>. SUFFICES ASSUME TypeOK, VisitedMarksTheStack, [Next]_vars
              PROVE  VisitedMarksTheStack'
  OBVIOUS
<1>1. ASSUME UNCHANGED <<visited, path>>, pc' = pc \/ path = <<>>
                                          \/ pc' \in {"call", "scan", "return"}
      PROVE  VisitedMarksTheStack'
  BY <1>1 DEF VisitedMarksTheStack
<1>2. CASE NextLeak
  BY <1>1, <1>2 DEF NextLeak, nodeVars, VisitedMarksTheStack
<1>3. CASE ReturnNull
  BY <1>1, <1>3 DEF ReturnNull, nodeVars, stackVars
<1>4. CASE Enter
  <2>. DEFINE longer == Append(path, callee)
  <2>1. path \in Seq(Nodes) /\ callee \in Nodes /\ Len(path) \in Nat
    BY <1>4, LenProperties DEF TypeOK, Enter
  <2>2. /\ Len(longer) = Len(path) + 1
        /\ \A i \in 1 .. Len(path) : longer[i] = path[i]
        /\ longer[Len(path) + 1] = callee
    BY <2>1, PushFacts
  <2>3. path' = longer /\ visited' = visited \cup {callee} /\ callee \notin visited /\ pc' = "scan"
    BY <1>4 DEF Enter
  <2>. HIDE DEF longer
  <2>4. /\ \A k \in 1 .. Len(longer) : k = Len(path) + 1 \/ k \in 1 .. Len(path)
        /\ 1 .. Len(path) \subseteq 1 .. Len(longer)
        /\ Len(path) + 1 \in 1 .. Len(longer)
    BY <2>1, <2>2
  <2>5. visited' = {longer[k] : k \in 1 .. Len(longer)}
    BY <2>2, <2>3, <2>4 DEF VisitedMarksTheStack
  <2>6. \A j, k \in 1 .. Len(longer) : longer[j] = longer[k] => j = k
    <3>1. \A j \in 1 .. Len(path) : longer[j] # callee
      BY <2>2, <2>3 DEF VisitedMarksTheStack
    <3>. QED BY <3>1, <2>2, <2>4 DEF VisitedMarksTheStack
  <2>. QED BY <2>3, <2>5, <2>6 DEF VisitedMarksTheStack
<1>5. CASE ScanReference
  <2>1. path # <<>> /\ pc = "scan"
    BY <1>5 DEF ScanReference, TypeOK
  <2>2. PICK r \in todo[Top] : Skip(r) \/ Descend(r) \/ RootFound(r)
    BY <1>5 DEF ScanReference
  <2>3. CASE Skip(r)
    BY <1>1, <2>3 DEF Skip
  <2>4. CASE Descend(r)
    BY <1>1, <2>4 DEF Descend
  <2>5. CASE RootFound(r)
    BY <2>1, <2>5, PopStack DEF RootFound
  <2>. QED BY <2>2, <2>3, <2>4, <2>5
<1>6. CASE ListEnd
  BY <1>6, PopStack DEF ListEnd, TypeOK
<1>7. CASE NothingFound
  BY <1>1, <1>7 DEF NothingFound, stackVars
<1>8. CASE ChainFound
  BY <1>8, PopStack DEF ChainFound, TypeOK
<1>9. CASE Report
  BY <1>1, <1>9, ReportFacts DEF VisitedMarksTheStack
<1>10. CASE PrintDirect
  BY <1>1, <1>10, DirectFacts DEF VisitedMarksTheStack
<1>11. ASSUME NEW n \in Nodes, Collect(n) PROVE VisitedMarksTheStack'
  BY <1>1, <1>11 DEF Collect, nodeVars, stackVars
<1>12. CASE UNCHANGED vars
  BY <1>1, <1>12 DEF vars, nodeVars, stackVars
<1>. QED BY <1>2, <1>3, <1>4, <1>5, <1>6, <1>7, <1>8, <1>9, <1>10, <1>11, <1>12
         DEF Next, Dumper

(* The visited flags mark the stack of the search, each node once, and are  *)
(* all clear whenever the search for a leak is over.                        *)
THEOREM StackCorrect == Spec => []VisitedMarksTheStack
<1>1. Init => TypeOK /\ VisitedMarksTheStack
  BY InitType, InitStack
<1>2. TypeOK /\ VisitedMarksTheStack /\ [Next]_vars => (TypeOK /\ VisitedMarksTheStack)'
  BY NextType, NextStack
<1>. QED BY <1>1, <1>2, PTL DEF Spec
-----------------------------------------------------------------------------
(***************************************************************************)
(* Completeness: SearchInv is inductive.                                   *)
(***************************************************************************)

LEMMA InitSearch == Init => SearchInv
  BY InitType, InitStack, ConstantsAssumption
     DEF Init, SearchInv, OtherLeaksKept, NoChainYet, Searching

(* What is settled stays settled while no chain is found.                   *)
LEMMA SettledStays ==
  ASSUME UNCHANGED <<graph, leak>>, failed \cup visited \subseteq failed' \cup visited',
         NEW n, Settled(n)
  PROVE  Settled(n)'
  BY DEF Settled

(* A step after which pending calls are as they were, and that may only     *)
(* settle more nodes and scan what leads nowhere, keeps the invariant.      *)
LEMMA NothingNewScanned ==
  ASSUME SearchInv, Searching, UNCHANGED <<inputVars, leak, leaks_related, todo>>,
         dead \subseteq dead', failed \subseteq failed', pc # "call",
         failed' \cup visited' = failed \cup visited,
         \A n \in (failed' \ failed) : todo[n] = {} /\ n \in visited
  PROVE  RemovedWereVisited' /\ ScannedLeadsNowhere' /\ LeakNodeIsSearched'
<1>1. \A n : Settled(n)' <=> Settled(n)
  BY DEF Settled, inputVars
<1>2. \A n : Considered(n)' = Considered(n)
  BY DEF Considered, shouldConsiderThisReference, inputVars
<1>3. RemovedWereVisited'
  BY <1>1 DEF SearchInv, RemovedWereVisited
<1>4. LeakNodeIsSearched'
  BY <1>1 DEF SearchInv, LeakNodeIsSearched
<1>5. ScannedLeadsNowhere'
  <2>. SUFFICES ASSUME NEW n \in Nodes \ dead', NEW r \in Considered(n),
                       n \in failed' \/ (n \in visited' /\ r \notin todo[n])
                PROVE  LeadsNowhere(r)'
    BY <1>2 DEF ScannedLeadsNowhere
  <2>1. n \in failed \/ (n \in visited /\ r \notin todo[n])
    OBVIOUS
  <2>2. LeadsNowhere(r)
    BY <2>1 DEF SearchInv, ScannedLeadsNowhere
  <2>. QED BY <2>2, <1>1 DEF LeadsNowhere
<1>. QED BY <1>3, <1>4, <1>5

(* The three claims about the current search, for each action.              *)
Claims == RemovedWereVisited /\ ScannedLeadsNowhere /\ LeakNodeIsSearched

LEMMA NextLeakSearch ==
  ASSUME SearchInv, NextLeak, Searching' PROVE Claims'
<1>1. /\ callee' = LeakNode[leak] /\ pc' = "call" /\ failed' = {} /\ pc = "leak"
      /\ leak < numberOfLeaks
      /\ UNCHANGED <<inputVars, nodeVars, leak, todo>>
  BY DEF NextLeak, Searching, inputVars
<1>2. leak \in LeakNumbers
  BY <1>1, ConstantsAssumption DEF SearchInv, TypeOK, LeakNumbers
<1>3. visited = {}
  BY <1>1, EmptySeq DEF SearchInv, VisitedMarksTheStack
<1>4. RemovedWereVisited'
  <2>1. \A n \in Nodes : leak \in graph.leaks[n] => leak \in leaks_related[n]
    BY <1>1, <1>2 DEF SearchInv, OtherLeaksKept, LeakNumbers
  <2>. QED BY <1>1, <2>1 DEF RemovedWereVisited, Settled, nodeVars, inputVars
<1>5. ScannedLeadsNowhere'
  BY <1>1, <1>3 DEF ScannedLeadsNowhere, nodeVars
<1>6. LeakNodeIsSearched'
  BY <1>1 DEF LeakNodeIsSearched
<1>. QED BY <1>4, <1>5, <1>6 DEF Claims

LEMMA ReturnNullSearch ==
  ASSUME SearchInv, ReturnNull, Searching' PROVE Claims'
<1>1. /\ UNCHANGED <<inputVars, nodeVars, leak, todo, callee, orderedRefs, failed>>
      /\ pc = "call" /\ pc' # "call" /\ callee \in Nodes
      /\ callee \in visited \/ leak \notin leaks_related[callee]
  BY DEF ReturnNull, stackVars, SearchInv, TypeOK
<1>2. Claims
  BY <1>1 DEF Searching, SearchInv, Claims, inputVars
<1>3. Settled(callee)
  BY <1>1, <1>2 DEF Claims, RemovedWereVisited, Settled
<1>4. \A n : Settled(n)' <=> Settled(n)
  BY <1>1 DEF Settled, inputVars, nodeVars
<1>5. RemovedWereVisited' /\ LeakNodeIsSearched'
  BY <1>1, <1>2, <1>3, <1>4 DEF Claims, RemovedWereVisited, LeakNodeIsSearched, nodeVars
<1>6. \A r : LeadsNowhere(r) => LeadsNowhere(r)'
  BY <1>3, <1>4 DEF LeadsNowhere
<1>7. ScannedLeadsNowhere'
  BY <1>1, <1>2, <1>6
     DEF Claims, ScannedLeadsNowhere, Considered, shouldConsiderThisReference, nodeVars, inputVars
<1>. QED BY <1>5, <1>7 DEF Claims

LEMMA EnterSearch ==
  ASSUME SearchInv, Enter, Searching' PROVE Claims'
<1>1. /\ UNCHANGED <<inputVars, leak, leaks_related, callee, orderedRefs, failed>>
      /\ visited' = visited \cup {callee} /\ pc = "call" /\ pc' = "scan" /\ callee \in Nodes
      /\ todo' = [todo EXCEPT ![callee] = IF callee \in dead' THEN {} ELSE graph.refs[callee]]
      /\ dead \subseteq dead' /\ todo \in [Nodes -> SUBSET Referers]
  BY DEF Enter, SearchInv, TypeOK, fillClassInMemoryNode
<1>2. Claims
  BY <1>1 DEF Searching, SearchInv, Claims, inputVars
<1>3. Settled(callee)' /\ \A n : Settled(n) => Settled(n)'
  BY <1>1 DEF Settled, inputVars
<1>4. RemovedWereVisited' /\ LeakNodeIsSearched'
  BY <1>1, <1>2, <1>3 DEF Claims, RemovedWereVisited, LeakNodeIsSearched, inputVars
<1>5. \A r : LeadsNowhere(r) => LeadsNowhere(r)'
  BY <1>1, <1>3 DEF LeadsNowhere
<1>6. ScannedLeadsNowhere'
  <2>. SUFFICES ASSUME NEW n \in Nodes \ dead', NEW r \in Considered(n),
                       n \in failed \/ (n \in visited' /\ r \notin todo'[n])
                PROVE  LeadsNowhere(r)
    BY <1>1, <1>5 DEF ScannedLeadsNowhere, Considered, shouldConsiderThisReference, inputVars
  <2>1. n # callee \/ r \in todo'[n]
    BY <1>1 DEF Considered
  <2>2. n \in failed \/ (n \in visited /\ r \notin todo[n])
    BY <1>1, <2>1
  <2>. QED BY <1>1, <1>2, <2>2 DEF Claims, ScannedLeadsNowhere
<1>. QED BY <1>4, <1>6 DEF Claims

LEMMA ScanSearch ==
  ASSUME SearchInv, ScanReference, Searching' PROVE Claims'
<1>1. /\ path # <<>> /\ Top \in Nodes /\ pc = "scan"
      /\ UNCHANGED <<inputVars, leaks_related, dead, leak, failed>>
  BY TopType DEF ScanReference, SearchInv, TypeOK
<1>2. PICK r \in todo[Top] : Skip(r) \/ Descend(r) \/ RootFound(r)
  BY DEF ScanReference
<1>3. r \in Referers /\ todo \in [Nodes -> SUBSET Referers]
  BY <1>1, <1>2 DEF SearchInv, TypeOK
<1>4. CASE Skip(r) \/ Descend(r)
  <2>1. /\ UNCHANGED <<visited, orderedRefs>>
        /\ todo' = [todo EXCEPT ![Top] = @ \ {r}]
        /\ shouldConsiderThisReference(r.kind)
             => ~isRootReference(r.kind) /\ pc' = "call" /\ r.node = callee'
    BY <1>4 DEF Skip, Descend
  <2>2. Claims
    BY <1>1, <2>1 DEF Searching, SearchInv, Claims, inputVars
  <2>3. \A n : Settled(n)' <=> Settled(n)
    BY <1>1, <2>1 DEF Settled, inputVars
  <2>4. RemovedWereVisited' /\ LeakNodeIsSearched'
    BY <1>1, <2>2, <2>3 DEF Claims, RemovedWereVisited, LeakNodeIsSearched
  <2>5. \A s : LeadsNowhere(s) => LeadsNowhere(s)'
    BY <1>1, <2>3 DEF LeadsNowhere
  <2>6. ScannedLeadsNowhere'
    <3>. SUFFICES ASSUME NEW n \in Nodes \ dead, NEW s \in Considered(n),
                         n \in failed \/ (n \in visited /\ s \notin todo'[n])
                  PROVE  LeadsNowhere(s)'
      BY <1>1, <2>1 DEF ScannedLeadsNowhere, Considered, shouldConsiderThisReference, inputVars
    <3>1. CASE n \in failed \/ (n \in visited /\ s \notin todo[n])
      BY <3>1, <2>2, <2>5 DEF Claims, ScannedLeadsNowhere
    <3>2. CASE s = r
      BY <3>2, <2>1 DEF LeadsNowhere, Considered
    <3>. QED BY <3>1, <3>2, <1>1, <1>3, <2>1
  <2>. QED BY <2>4, <2>6 DEF Claims
<1>5. CASE RootFound(r)
  BY <1>5 DEF RootFound, Searching
<1>. QED BY <1>2, <1>4, <1>5

LEMMA ListEndSearch ==
  ASSUME SearchInv, ListEnd, Searching' PROVE Claims'
<1>1. /\ path # <<>> /\ pc = "scan" /\ todo[Top] = {}
      /\ UNCHANGED <<inputVars, leaks_related, dead, leak, todo>>
      /\ failed' = failed \cup {Top} /\ visited' = visited \ {Top}
  BY DEF ListEnd, SearchInv, TypeOK, Pop
<1>2. Searching
  BY <1>1 DEF Searching, SearchInv, NoChainYet, inputVars
<1>3. Top \in visited
  <2>1. Len(path) \in 1 .. Len(path)
    BY <1>1, PopFacts DEF SearchInv, TypeOK
  <2>. QED BY <2>1 DEF Top, SearchInv, VisitedMarksTheStack
<1>4. RemovedWereVisited' /\ ScannedLeadsNowhere' /\ LeakNodeIsSearched'
  BY <1>1, <1>2, <1>3, NothingNewScanned
<1>. QED BY <1>4 DEF Claims

LEMMA NothingFoundSearch ==
  ASSUME SearchInv, NothingFound, Searching' PROVE Claims'
<1>1. /\ path # <<>> /\ Top \in Nodes /\ pc = "return" /\ pc' = "scan" /\ orderedRefs = <<>>
      /\ UNCHANGED <<inputVars, dead, visited, todo, callee, leak, failed>>
      /\ leaks_related' = [leaks_related EXCEPT ![Top] = @ \ {leak}]
      /\ leaks_related \in [Nodes -> SUBSET LeakNumbers]
  BY TopType DEF NothingFound, SearchInv, TypeOK, stackVars
<1>2. Claims
  BY <1>1 DEF Searching, SearchInv, Claims, inputVars
<1>3. Top \in visited
  <2>1. Len(path) \in 1 .. Len(path)
    BY <1>1, PopFacts DEF SearchInv, TypeOK
  <2>. QED BY <2>1 DEF Top, SearchInv, VisitedMarksTheStack
<1>4. \A n : Settled(n)' <=> Settled(n)
  BY <1>1 DEF Settled, inputVars
<1>5. RemovedWereVisited'
  BY <1>1, <1>2, <1>3, <1>4 DEF Claims, RemovedWereVisited, Settled
<1>6. LeakNodeIsSearched'
  BY <1>1, <1>2, <1>4 DEF Claims, LeakNodeIsSearched
<1>7. \A r : LeadsNowhere(r) => LeadsNowhere(r)'
  BY <1>1, <1>4 DEF LeadsNowhere
<1>8. ScannedLeadsNowhere'
  BY <1>1, <1>2, <1>7
     DEF Claims, ScannedLeadsNowhere, Considered, shouldConsiderThisReference, inputVars
<1>. QED BY <1>5, <1>6, <1>8 DEF Claims

(* The claims hold after a step of the search if they hold after one.       *)
LEMMA NextClaims ==
  ASSUME SearchInv, [Next]_vars, Searching' PROVE Claims'
<1>1. CASE ChainFound
  <2>1. orderedRefs \in Seq(Referers) /\ <<via[Top]>> \in Seq(Referers) /\ orderedRefs # <<>>
    BY <1>1, TopType DEF ChainFound, SearchInv, TypeOK
  <2>2. Len(<<via[Top]>> \o orderedRefs) # 0
    <3>1. Len(orderedRefs) \in Nat \ {0}
      BY <2>1, EmptySeq
    <3>2. Len(<<via[Top]>>) \in Nat
      BY <2>1, LenProperties
    <3>. QED BY <2>1, <3>1, <3>2, ConcatProperties
  <2>3. orderedRefs' # <<>>
    BY <1>1, <2>2, EmptySeq DEF ChainFound
  <2>. QED BY <2>3 DEF Searching
<1>2. CASE Report \/ PrintDirect
  BY <1>2, ReportFacts, DirectFacts DEF Searching, SearchInv
<1>3. ASSUME UNCHANGED <<inputVars, nodeVars, leak, todo, callee, orderedRefs, failed, pc>>
      PROVE  Claims'
  <2>1. Claims
    BY <1>3 DEF Searching, SearchInv, Claims, inputVars
  <2>2. \A n : Settled(n)' <=> Settled(n)
    BY <1>3 DEF Settled, inputVars, nodeVars
  <2>3. \A r : LeadsNowhere(r)' <=> LeadsNowhere(r)
    BY <1>3, <2>2 DEF LeadsNowhere
  <2>. QED BY <1>3, <2>1, <2>2, <2>3
       DEF Claims, RemovedWereVisited, ScannedLeadsNowhere, LeakNodeIsSearched,
           Considered, shouldConsiderThisReference, inputVars, nodeVars
<1>4. ASSUME NEW n \in Nodes, Collect(n) PROVE Claims'
  BY <1>3, <1>4 DEF Collect, stackVars
<1>5. CASE UNCHANGED vars
  BY <1>3, <1>5 DEF vars, stackVars
<1>. QED BY <1>1, <1>2, <1>4, <1>5, NextLeakSearch, ReturnNullSearch, EnterSearch,
            ScanSearch, ListEndSearch, NothingFoundSearch DEF Next, Dumper

LEMMA NextOtherLeaks == SearchInv /\ [Next]_vars => OtherLeaksKept'
<1>. SUFFICES ASSUME SearchInv, [Next]_vars PROVE OtherLeaksKept'
  OBVIOUS
<1>. USE DEF SearchInv, OtherLeaksKept
<1>1. leak \in Nat /\ \A i \in LeakNumbers : i \in Nat
  BY ConstantsAssumption DEF TypeOK, LeakNumbers
<1>2. ASSUME UNCHANGED <<graph, leaks_related>>,
             \/ leak' = leak /\ (pc = "leak" \/ pc' # "leak")
             \/ leak' = leak + 1
      PROVE  OtherLeaksKept'
  BY <1>1, <1>2
<1>3. CASE NothingFound
  <2>1. /\ leaks_related' = [leaks_related EXCEPT ![Top] = @ \ {leak}]
        /\ leaks_related \in [Nodes -> SUBSET LeakNumbers]
        /\ UNCHANGED <<graph, leak>> /\ pc' = "scan"
    BY <1>3 DEF NothingFound, TypeOK, inputVars
  <2>. QED BY <1>1, <2>1
<1>4. CASE NextLeak \/ ReturnNull \/ Enter \/ ListEnd \/ ChainFound
  BY <1>2, <1>4 DEF NextLeak, ReturnNull, Enter, ListEnd, ChainFound, Pop, inputVars, nodeVars
<1>5. CASE ScanReference
  BY <1>2, <1>5 DEF ScanReference, Skip, Descend, RootFound, Pop, inputVars
<1>6. ASSUME NEW n \in Nodes, Collect(n) PROVE OtherLeaksKept'
  BY <1>2, <1>6 DEF Collect, inputVars, nodeVars
<1>7. CASE UNCHANGED vars
  BY <1>2, <1>7 DEF vars, inputVars, nodeVars
<1>8. CASE Report \/ PrintDirect
  BY <1>2, <1>8, ReportFacts, DirectFacts DEF inputVars
<1>. QED BY <1>3, <1>4, <1>5, <1>6, <1>7, <1>8 DEF Next, Dumper

LEMMA NextNoChainYet == SearchInv /\ [Next]_vars => NoChainYet'
<1>. SUFFICES ASSUME SearchInv, [Next]_vars PROVE NoChainYet'
  OBVIOUS
<1>1. CASE Report \/ PrintDirect
  BY <1>1, ReportFacts, DirectFacts DEF NoChainYet, SearchInv
<1>2. CASE ~ Report /\ ~ PrintDirect
  BY <1>2 DEF SearchInv, NoChainYet, TypeOK, Next, Dumper, NextLeak, ReturnNull, Enter,
              ScanReference, Skip, Descend, RootFound, ListEnd, NothingFound, ChainFound, Pop,
              Collect, stackVars, vars
<1>. QED BY <1>1, <1>2

LEMMA NextSearch == SearchInv /\ [Next]_vars => SearchInv'
  BY NextType, NextStack, NextOtherLeaks, NextNoChainYet, NextClaims DEF SearchInv, Claims

(* When a search is over the nodes that failed are the closed set.          *)
LEMMA FailedNodesAreClosed == SearchInv => NoChainIsMissed
<1>. SUFFICES ASSUME SearchInv, pc = "report", orderedRefs = <<>>, gdata.isNeedReferences,
                     leak \in graph.leaks[LeakNode[leak]]
              PROVE  HasNoChain(failed, leak) /\ failed \in SUBSET Nodes
  BY DEF NoChainIsMissed
<1>1. visited = {}
  BY EmptySeq DEF SearchInv, VisitedMarksTheStack
<1>2. ScannedLeadsNowhere /\ LeakNodeIsSearched /\ failed \subseteq Nodes
  BY DEF SearchInv, Searching, TypeOK
<1>3. LeakNode[leak] \in failed
  BY <1>1, <1>2 DEF LeakNodeIsSearched, Settled
<1>4. ASSUME NEW n \in failed \ dead, NEW r \in Considered(n)
      PROVE  ~isRootReference(r.kind) /\ (r.node \in failed \/ leak \notin graph.leaks[r.node])
  BY <1>1, <1>2, <1>4 DEF ScannedLeadsNowhere, LeadsNowhere, Settled
<1>. QED BY <1>2, <1>3, <1>4 DEF HasNoChain

(* Whatever the graph, the options and the objects that die meanwhile, a    *)
(* leak is reported without a chain only if no chain was left to find.      *)
THEOREM SearchComplete == Spec => []NoChainIsMissed
  BY InitSearch, NextSearch, FailedNodesAreClosed, PTL DEF Spec
-----------------------------------------------------------------------------
(***************************************************************************)
(* The inductive invariant: chains.  The calls that have not returned are  *)
(* a chain that lacks its end: each but the last waits for the object that *)
(* holds its own, and what a call returns is the rest.                     *)
(***************************************************************************)
Held(s, n, j) == IF j = 1 THEN n ELSE s[j - 1].node

ChainFrom(s, n) ==
  \A j \in 1 .. Len(s) : /\ Held(s, n, j) \in obj \ dead
                         /\ leak \in graph.leaks[Held(s, n, j)]
                         /\ s[j] \in Considered(Held(s, n, j))
                         /\ isRootReference(s[j].kind) <=> j = Len(s)

(* The call for n scans references of a node of the leak, which is alive.   *)
Scans(n) == /\ leak \in graph.leaks[n] /\ todo[n] \subseteq graph.refs[n]
            /\ todo[n] # {} => n \in obj

(* It waits for the call for the node that via[n] comes from.               *)
Waits(n) == n \in obj /\ via[n] \in Considered(n) /\ ~isRootReference(via[n].kind)

StackIsAChain ==
  /\ path # <<>> => path[1] = LeakNode[leak]
  /\ \A j \in 1 .. Len(path) : Scans(path[j])
  /\ \A j \in 1 .. Len(path) - 1 : Waits(path[j]) /\ via[path[j]].node = path[j + 1]

CallsAreForIt ==
  /\ pc = "call" => IF path = <<>> THEN callee = LeakNode[leak]
                    ELSE Waits(Top) /\ via[Top].node = callee
  /\ pc = "return" => Waits(Top) /\ ChainFrom(orderedRefs, via[Top].node)
  /\ pc = "report" => ChainFrom(orderedRefs, LeakNode[leak])

NodesAreSane == /\ obj \cap dead = {}
                /\ \A n \in Nodes : leaks_related[n] \subseteq graph.leaks[n]

ChainInv == SearchInv /\ NodesAreSane /\ StackIsAChain /\ CallsAreForIt
-----------------------------------------------------------------------------
LEMMA InitChain == Init => ChainInv
<1>. SUFFICES ASSUME Init PROVE ChainInv
  OBVIOUS
<1>1. Len(<<>>) = 0
  BY EmptySeq
<1>2. SearchInv
  BY InitSearch
<1>. QED BY <1>1, <1>2 DEF Init, ChainInv, NodesAreSane, StackIsAChain, CallsAreForIt

LEMMA NothingIsAChain == ASSUME NEW n PROVE ChainFrom(<<>>, n)
<1>1. Len(<<>>) = 0
  BY EmptySeq
<1>. QED BY <1>1 DEF ChainFrom

(* Objects are not lost; so what was a chain remains one.                   *)
LEMMA HandlesStay ==
  ASSUME NodesAreSane, NEW n, fillClassInMemoryNode(n)
  PROVE  obj' \cap dead' = {} /\ obj \subseteq obj' /\ (n \in dead' \/ n \in obj')
  BY DEF NodesAreSane, fillClassInMemoryNode

LEMMA NextSane == ChainInv /\ [Next]_vars => NodesAreSane'
<1>. SUFFICES ASSUME ChainInv, [Next]_vars PROVE NodesAreSane'
  OBVIOUS
<1>1. ASSUME UNCHANGED <<graph, obj, dead, leaks_related>> PROVE NodesAreSane'
  BY <1>1 DEF ChainInv, NodesAreSane
<1>2. ASSUME NEW n, fillClassInMemoryNode(n), UNCHANGED <<graph, leaks_related>>
      PROVE  NodesAreSane'
  BY <1>2, HandlesStay DEF ChainInv, NodesAreSane
<1>3. CASE NothingFound
  BY <1>3, TopType DEF NothingFound, ChainInv, NodesAreSane, SearchInv, TypeOK, inputVars
<1>4. CASE Report \/ PrintDirect
  <2>1. /\ (\E n \in Nodes : fillClassInMemoryNode(n)) \/ UNCHANGED <<obj, dead>>
        /\ UNCHANGED <<graph, leaks_related>>
    BY <1>4, ReportFacts, DirectFacts DEF ChainInv, SearchInv, inputVars
  <2>. QED BY <1>1, <1>2, <2>1
<1>5. CASE ScanReference
  BY <1>1, <1>5 DEF ScanReference, inputVars
<1>6. CASE Enter
  BY <1>2, <1>6 DEF Enter, inputVars
<1>7. CASE NextLeak \/ ReturnNull \/ ListEnd \/ ChainFound
  BY <1>1, <1>7 DEF NextLeak, ReturnNull, ListEnd, ChainFound, inputVars, nodeVars
<1>8. ASSUME NEW n \in Nodes, Collect(n) PROVE NodesAreSane'
  BY <1>1, <1>8 DEF Collect, inputVars, nodeVars
<1>9. CASE UNCHANGED vars
  BY <1>1, <1>9 DEF vars, inputVars, nodeVars
<1>. QED BY <1>3, <1>4, <1>5, <1>6, <1>7, <1>8, <1>9 DEF Next, Dumper

(* Between two searches the stack is empty.                                 *)
LEMMA NoStack == ASSUME path' = <<>> PROVE StackIsAChain'
<1>1. Len(<<>>) = 0
  BY EmptySeq
<1>. QED BY <1>1 DEF StackIsAChain

(* The calls that wait are as before; the top may have moved on.            *)
LEMMA StackStays ==
  ASSUME ChainInv, UNCHANGED <<inputVars, leak, path>>, obj \subseteq obj',
         \A j \in 1 .. Len(path) : todo'[path[j]] \subseteq todo[path[j]],
         \A j \in 1 .. Len(path) - 1 : via'[path[j]] = via[path[j]]
  PROVE  StackIsAChain'
<1>1. \A j \in 1 .. Len(path) : Scans(path[j])'
  BY DEF ChainInv, StackIsAChain, Scans, inputVars
<1>2. \A j \in 1 .. Len(path) - 1 : Waits(path[j])'
  BY DEF ChainInv, StackIsAChain, Waits, Considered, shouldConsiderThisReference, inputVars
<1>. QED BY <1>1, <1>2 DEF ChainInv, StackIsAChain

(* The top call returns a chain for its node: the caller gets the rest of   *)
(* one for its own.                                                         *)
LEMMA StackPops ==
  ASSUME ChainInv, path # <<>>, Pop, UNCHANGED <<inputVars, leak, obj, dead, todo, via>>,
         ChainFrom(orderedRefs', Top)
  PROVE  StackIsAChain' /\ CallsAreForIt'
<1>. DEFINE rest == SubSeq(path, 1, Len(path) - 1)
<1>1. /\ Len(path) \in Nat \ {0} /\ Len(rest) = Len(path) - 1
      /\ \A i \in 1 .. Len(path) - 1 : rest[i] = path[i]
      /\ Len(path) # 1 => rest # <<>>
  BY PopFacts DEF ChainInv, SearchInv, TypeOK
<1>2. path' = rest /\ pc' = IF Len(path) = 1 THEN "report" ELSE "return"
  BY DEF Pop
<1>. HIDE DEF rest
<1>4. StackIsAChain'
  <2>1. path' # <<>> => path'[1] = LeakNode[leak]
    <3>1. CASE Len(path) = 1
      <4>1. rest = <<>>
        BY <3>1, PopFacts DEF ChainInv, SearchInv, TypeOK, rest
      <4>. QED BY <4>1, <1>2
    <3>2. CASE Len(path) # 1
      BY <3>2, <1>1, <1>2 DEF ChainInv, StackIsAChain
    <3>. QED BY <3>1, <3>2
  <2>2. \A j \in 1 .. Len(path') : Scans(path[j])'
    <3>. SUFFICES ASSUME NEW j \in 1 .. Len(path') PROVE Scans(path[j])'
      OBVIOUS
    <3>1. path'[j] = path[j] /\ Scans(path[j])
      BY <1>1, <1>2 DEF ChainInv, StackIsAChain
    <3>. QED BY <3>1 DEF Scans, inputVars
  <2>3. \A j \in 1 .. Len(path') - 1 : Waits(path[j])' /\ via'[path'[j]].node = path'[j + 1]
    <3>. SUFFICES ASSUME NEW j \in 1 .. Len(path') - 1
                  PROVE  Waits(path[j])' /\ via'[path'[j]].node = path'[j + 1]
      OBVIOUS
    <3>1. j \in 1 .. Len(path) - 1 /\ path'[j] = path[j] /\ path'[j + 1] = path[j + 1]
      BY <1>1, <1>2
    <3>2. Waits(path[j]) /\ via[path[j]].node = path[j + 1]
      BY <3>1 DEF ChainInv, StackIsAChain
    <3>. QED BY <3>1, <3>2 DEF Waits, Considered, shouldConsiderThisReference, inputVars
  <2>. QED BY <2>1, <2>2, <2>3 DEF StackIsAChain
<1>5. CASE Len(path) = 1
  <2>1. Top = LeakNode[leak] /\ pc' = "report"
    BY <1>1, <1>2, <1>5 DEF ChainInv, StackIsAChain, Top
  <2>2. ChainFrom(orderedRefs, LeakNode[leak])'
    BY <2>1 DEF ChainFrom, Held, Considered, shouldConsiderThisReference, inputVars
  <2>. QED BY <1>4, <2>1, <2>2 DEF CallsAreForIt
<1>6. CASE Len(path) # 1
  <2>1. Len(path) - 1 \in 1 .. Len(path) - 1 /\ Top' = path[Len(path) - 1] /\ pc' = "return"
    BY <1>1, <1>2, <1>6 DEF Top
  <2>2. Waits(path[Len(path) - 1]) /\ via[path[Len(path) - 1]].node = Top
    BY <2>1, <1>1 DEF ChainInv, StackIsAChain, Top
  <2>3. Waits(Top)' /\ via'[Top'].node = Top
    BY <2>1, <2>2 DEF Waits, Considered, shouldConsiderThisReference, inputVars
  <2>4. ChainFrom(orderedRefs, via[Top].node)'
    BY <2>3 DEF ChainFrom, Held, Considered, shouldConsiderThisReference, inputVars
  <2>. QED BY <1>4, <2>1, <2>3, <2>4 DEF CallsAreForIt
<1>. QED BY <1>5, <1>6

(* A reference to the node, before the chain of its referrer.               *)
LEMMA ChainGrows ==
  ASSUME ChainInv, path # <<>>, Waits(Top), orderedRefs # <<>>,
         ChainFrom(orderedRefs, via[Top].node)
  PROVE  ChainFrom(<<via[Top]>> \o orderedRefs, Top)
<1>. DEFINE r == via[Top]
            s == orderedRefs
            t == <<r>> \o s
<1>1. r \in Referers /\ s \in Seq(Referers) /\ Top \in Nodes
  BY TopType DEF ChainInv, SearchInv, TypeOK
<1>2. <<r>> \in Seq(Referers) /\ Len(<<r>>) = 1 /\ <<r>>[1] = r
  BY <1>1
<1>3. Len(s) \in Nat \ {0}
  BY <1>1, EmptySeq
<1>4. /\ Len(t) = Len(s) + 1 /\ t[1] = r
      /\ \A j \in 2 .. Len(s) + 1 : t[j] = s[j - 1]
  BY <1>1, <1>2, <1>3, ConcatProperties
<1>5. Top \in obj \ dead /\ leak \in graph.leaks[Top] /\ r \in Considered(Top)
      /\ ~isRootReference(r.kind)
  <2>1. Len(path) \in 1 .. Len(path)
    BY <1>1, PopFacts DEF ChainInv, SearchInv, TypeOK
  <2>. QED BY <2>1 DEF ChainInv, StackIsAChain, Scans, NodesAreSane, Waits, Top
<1>6. \A j \in 1 .. Len(s) : Held(s, r.node, j) = Held(t, Top, j + 1)
  BY <1>3, <1>4 DEF Held
<1>. HIDE DEF r, s, t
<1>7. ASSUME NEW j \in 1 .. Len(t)
      PROVE  /\ Held(t, Top, j) \in obj \ dead
             /\ leak \in graph.leaks[Held(t, Top, j)]
             /\ t[j] \in Considered(Held(t, Top, j))
             /\ isRootReference(t[j].kind) <=> j = Len(t)
  <2>1. CASE j = 1
    BY <2>1, <1>3, <1>4, <1>5 DEF Held
  <2>2. CASE j # 1
    <3>1. j - 1 \in 1 .. Len(s) /\ t[j] = s[j - 1] /\ (j - 1) + 1 = j
      BY <2>2, <1>3, <1>4
    <3>2. Held(s, r.node, j - 1) = Held(t, Top, j)
      BY <3>1, <1>6
    <3>. QED BY <3>1, <3>2, <1>3, <1>4 DEF ChainFrom, r, s
  <2>. QED BY <2>1, <2>2
<1>. QED BY <1>7 DEF ChainFrom, r, s, t

LEMMA EnterChain == ASSUME ChainInv, Enter PROVE StackIsAChain' /\ CallsAreForIt'
<1>1. path \in Seq(Nodes) /\ callee \in Nodes /\ Len(path) \in Nat /\ todo \in [Nodes -> SUBSET Referers]
  BY LenProperties DEF ChainInv, SearchInv, TypeOK, Enter
<1>2. /\ Len(path') = Len(path) + 1 /\ path' # <<>>
      /\ \A i \in 1 .. Len(path) : path'[i] = path[i] /\ path'[i] # callee
      /\ path'[Len(path) + 1] = callee
  BY <1>1, PushFacts DEF Enter, ChainInv, SearchInv, VisitedMarksTheStack
<1>3. /\ UNCHANGED <<inputVars, leak, via>> /\ pc = "call" /\ pc' = "scan"
      /\ todo' = [todo EXCEPT ![callee] = IF callee \in dead' THEN {} ELSE graph.refs[callee]]
      /\ leak \in graph.leaks[callee] /\ obj \subseteq obj'
      /\ callee \in dead' \/ callee \in obj'
  BY <1>1, HandlesStay DEF Enter, ChainInv, NodesAreSane
<1>4. /\ todo'[callee] = IF callee \in dead' THEN {} ELSE graph.refs[callee]
      /\ \A n \in Nodes : n # callee => todo'[n] = todo[n]
      /\ \A j \in 1 .. Len(path) : path[j] \in Nodes /\ path[j] # callee
  BY <1>1, <1>2, <1>3
<1>5. \A j \in 1 .. Len(path') : Scans(path[j])'
  <2>. SUFFICES ASSUME NEW j \in 1 .. Len(path') PROVE Scans(path[j])'
    OBVIOUS
  <2>1. CASE j \in 1 .. Len(path)
    <3>1. path'[j] = path[j] /\ todo'[path[j]] = todo[path[j]] /\ Scans(path[j])
      BY <2>1, <1>2, <1>4 DEF ChainInv, StackIsAChain
    <3>. QED BY <3>1, <1>3 DEF Scans, inputVars
  <2>2. CASE j = Len(path) + 1
    BY <2>2, <1>2, <1>3, <1>4 DEF Scans, inputVars
  <2>. QED BY <2>1, <2>2, <1>1, <1>2
<1>6. ASSUME NEW j \in 1 .. Len(path)
      PROVE  Waits(path[j]) /\ via[path[j]].node = path'[j + 1]
  <2>1. CASE j = Len(path)
    <3>1. path # <<>>
      BY <2>1, <1>1, EmptySeq
    <3>2. Waits(path[j]) /\ via[path[j]].node = callee
      BY <3>1, <2>1, <1>3 DEF ChainInv, CallsAreForIt, Top
    <3>. QED BY <3>2, <2>1, <1>2
  <2>2. CASE j # Len(path)
    <3>1. j \in 1 .. Len(path) - 1 /\ j + 1 \in 1 .. Len(path)
      BY <2>2, <1>1
    <3>. QED BY <3>1, <1>2 DEF ChainInv, StackIsAChain
  <2>. QED BY <2>1, <2>2
<1>7. \A j \in 1 .. Len(path') - 1 : Waits(path[j])' /\ via'[path'[j]].node = path'[j + 1]
  <2>. SUFFICES ASSUME NEW j \in 1 .. Len(path') - 1
                PROVE  Waits(path[j])' /\ via'[path'[j]].node = path'[j + 1]
    OBVIOUS
  <2>1. j \in 1 .. Len(path) /\ path'[j] = path[j]
    BY <1>1, <1>2
  <2>. QED BY <2>1, <1>3, <1>6 DEF Waits, Considered, shouldConsiderThisReference, inputVars
<1>8. path'[1] = LeakNode[leak]
  <2>1. CASE path = <<>>
    BY <2>1, <1>2, <1>3, EmptySeq DEF ChainInv, CallsAreForIt
  <2>2. CASE path # <<>>
    BY <2>2, <1>1, <1>2, EmptySeq DEF ChainInv, StackIsAChain
  <2>. QED BY <2>1, <2>2
<1>. QED BY <1>3, <1>5, <1>7, <1>8 DEF StackIsAChain, CallsAreForIt

LEMMA ScanChain == ASSUME ChainInv, ScanReference PROVE StackIsAChain' /\ CallsAreForIt'
<1>1. /\ path # <<>> /\ Top \in Nodes /\ pc = "scan" /\ Len(path) \in 1 .. Len(path)
      /\ todo \in [Nodes -> SUBSET Referers] /\ via \in [Nodes -> Referers]
      /\ \A j \in 1 .. Len(path) : path[j] \in Nodes
      /\ UNCHANGED <<inputVars, leak, obj, dead>>
  BY TopType, PopFacts, LenProperties DEF ScanReference, ChainInv, SearchInv, TypeOK
<1>2. PICK r \in todo[Top] : Skip(r) \/ Descend(r) \/ RootFound(r)
  BY DEF ScanReference
<1>3. r \in graph.refs[Top] /\ Top \in obj /\ leak \in graph.leaks[Top] /\ r \in Referers
  BY <1>1, <1>2 DEF ChainInv, StackIsAChain, Scans, Top
<1>4. CASE Skip(r)
  <2>1. \A j \in 1 .. Len(path) : todo'[path[j]] \subseteq todo[path[j]]
    BY <1>1, <1>4 DEF Skip
  <2>. QED BY <1>1, <1>4, <2>1, StackStays DEF Skip, CallsAreForIt
<1>5. CASE Descend(r)
  <2>1. \A j \in 1 .. Len(path) : todo'[path[j]] \subseteq todo[path[j]]
    BY <1>1, <1>5 DEF Descend
  <2>2. \A j \in 1 .. Len(path) - 1 : path[j] # Top
    BY <1>1 DEF Top, ChainInv, SearchInv, VisitedMarksTheStack
  <2>3. \A j \in 1 .. Len(path) - 1 : via'[path[j]] = via[path[j]]
    <3>. SUFFICES ASSUME NEW j \in 1 .. Len(path) - 1 PROVE via'[path[j]] = via[path[j]]
      OBVIOUS
    <3>1. path[j] \in Nodes /\ path[j] # Top
      BY <1>1, <2>2
    <3>. QED BY <3>1, <1>1, <1>5 DEF Descend
  <2>4. StackIsAChain'
    BY <1>1, <1>5, <2>1, <2>3, StackStays DEF Descend
  <2>5. Top' = Top /\ via'[Top] = r
    BY <1>1, <1>5 DEF Descend, Top
  <2>6. Waits(Top)'
    BY <1>1, <1>3, <1>5, <2>5 DEF Waits, Descend, Considered, shouldConsiderThisReference, inputVars
  <2>. QED BY <1>1, <1>5, <2>4, <2>5, <2>6 DEF Descend, CallsAreForIt
<1>6. CASE RootFound(r)
  <2>1. Len(<<r>>) = 1 /\ <<r>>[1] = r
    OBVIOUS
  <2>2. ChainFrom(<<r>>, Top)
    BY <1>3, <1>6, <2>1 DEF ChainFrom, Held, RootFound, ChainInv, NodesAreSane, Considered
  <2>. QED BY <1>1, <1>6, <2>2, StackPops DEF RootFound
<1>. QED BY <1>2, <1>4, <1>5, <1>6

LEMMA NextChain == ChainInv /\ [Next]_vars => ChainInv'
<1>. SUFFICES ASSUME ChainInv, [Next]_vars PROVE StackIsAChain' /\ CallsAreForIt'
  BY NextSearch, NextSane DEF ChainInv
<1>1. ASSUME UNCHANGED <<inputVars, leak, todo, via, path>>, obj \subseteq obj'
      PROVE  StackIsAChain'
  BY <1>1, StackStays
<1>2. CASE NextLeak
  <2>1. path = <<>>
    BY <1>2 DEF NextLeak, ChainInv, SearchInv, VisitedMarksTheStack
  <2>2. StackIsAChain'
    BY <1>2, <2>1, NoStack DEF NextLeak
  <2>3. pc' = "report" => ChainFrom(orderedRefs, LeakNode[leak])'
    BY <1>2, EmptySeq DEF NextLeak, ChainFrom
  <2>. QED BY <1>2, <2>1, <2>2, <2>3 DEF NextLeak, CallsAreForIt
<1>3. CASE ReturnNull
  <2>1. orderedRefs' = <<>>
    BY <1>3 DEF ReturnNull, ChainInv, SearchInv, NoChainYet
  <2>2. StackIsAChain'
    BY <1>1, <1>3 DEF ReturnNull, nodeVars, stackVars
  <2>3. path # <<>> => Waits(Top)'
    BY <1>3 DEF ReturnNull, nodeVars, stackVars, inputVars, ChainInv, CallsAreForIt, Waits,
                Considered, shouldConsiderThisReference, Top
  <2>4. \A n : ChainFrom(<<>>, n)'
    BY NothingIsAChain, EmptySeq DEF ChainFrom
  <2>. QED BY <1>3, <2>1, <2>2, <2>3, <2>4 DEF ReturnNull, stackVars, CallsAreForIt
<1>4. CASE Enter
  BY <1>4, EnterChain
<1>5. CASE ScanReference
  BY <1>5, ScanChain
<1>6. CASE ListEnd
  BY <1>6, StackPops, NothingIsAChain DEF ListEnd, ChainInv, SearchInv, TypeOK
<1>7. CASE NothingFound
  BY <1>1, <1>7 DEF NothingFound, stackVars, CallsAreForIt
<1>8. CASE ChainFound
  BY <1>8, StackPops, ChainGrows DEF ChainFound, ChainInv, CallsAreForIt, SearchInv, TypeOK
<1>9. CASE Report
  BY <1>9, NoStack, ReportFacts DEF ChainInv, CallsAreForIt, SearchInv, VisitedMarksTheStack
<1>10. CASE PrintDirect
  BY <1>10, NoStack, DirectFacts DEF ChainInv, CallsAreForIt, SearchInv, VisitedMarksTheStack
<1>11. ASSUME UNCHANGED <<inputVars, nodeVars, stackVars, orderedRefs, leak, pc>>
       PROVE  StackIsAChain' /\ CallsAreForIt'
  <2>1. StackIsAChain'
    BY <1>1, <1>11 DEF nodeVars, stackVars
  <2>2. \A n : (Waits(n)' <=> Waits(n))
    BY <1>11 DEF Waits, Considered, shouldConsiderThisReference, inputVars, nodeVars, stackVars
  <2>3. \A s, n : ChainFrom(s, n)' <=> ChainFrom(s, n)
    BY <1>11 DEF ChainFrom, Considered, shouldConsiderThisReference, inputVars, nodeVars
  <2>. QED BY <1>11, <2>1, <2>2, <2>3 DEF ChainInv, CallsAreForIt, Top, stackVars
<1>12. ASSUME NEW n \in Nodes, Collect(n) PROVE StackIsAChain' /\ CallsAreForIt'
  BY <1>11, <1>12 DEF Collect
<1>13. CASE UNCHANGED vars
  BY <1>11, <1>13 DEF vars
<1>. QED BY <1>2, <1>3, <1>4, <1>5, <1>6, <1>7, <1>8, <1>9, <1>10, <1>12, <1>13
         DEF Next, Dumper

(* Whatever the graph and the options, and whichever objects die meanwhile: *)
(* a chain that is printed leads from a root to the leak, over objects that *)
(* are held.                                                                *)
THEOREM ChainsAreReal == Spec => []ReportedChainIsReal
<1>1. ChainInv => ReportedChainIsReal
  BY DEF ChainInv, CallsAreForIt, ReportedChainIsReal, IsChain, ChainFrom, Held
<1>. QED BY InitChain, NextChain, <1>1, PTL DEF Spec
===============================================================================
