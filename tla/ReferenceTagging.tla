--------------------------- MODULE ReferenceTagging ---------------------------
(***************************************************************************)
(* Discovery of the objects that hold the leaking collections              *)
(* (tagReferencesChain and its heap callback, leak_detect.c).              *)
(*                                                                         *)
(* The dumper thread walks the heap of the target JVM again and again.     *)
(* The JVM stops the application during a walk and reports every           *)
(* reference it meets; a reference to an object that already has a node    *)
(* is recorded in that node, and the object it comes from gets a node too. *)
(* Each walk thus moves the frontier one reference (or more) away from the *)
(* leaks, until a heap root is met.  Between two walks the application     *)
(* runs, changes its references and loads classes.                         *)
(*                                                                         *)
(* A node is attached to an object through the object's JVMTI tag, so it   *)
(* is identified with the object here: tagged is the set of the objects    *)
(* and classes whose tag is not 0, and node[x] the node x is tagged with.  *)
(***************************************************************************)
EXTENDS Integers, FiniteSets, BitmaskSet

CONSTANTS
  Objects,               (* Objects of the target that are not classes.     *)
  Classes,               (* Class objects (java.lang.Class excepted).       *)
  LateClasses,           (* Those loaded after tagAllClasses has run.       *)
  ClassOf,               (* The class of each object.                       *)
  HeapRoot,              (* Stands for "no referrer object".                *)
  References,            (* Every reference the target may ever hold.       *)
  InitialHeaps,          (* What the target starts with: its references     *)
                         (* (refs), and the rest of the setup, that does    *)
                         (* not change: references that the application     *)
                         (* adds or removes (changeable), how many of the   *)
                         (* leaks there are (numberOfLeaks), and options    *)
                         (* (max_fan_in, reference_chain_length).           *)
  LeakObject,            (* The leaking object of each leak number.         *)
  LeakSize,              (* Its number of elements.                         *)
  IgnoreRules,           (* Rules of the section [ignore_referenced_by].    *)
  consider_local_references,
  DumperThread,          (* Id of the thread that runs this code.           *)
  MaxMutations           (* Bound on the changes the application makes.     *)

Things     == Objects \cup Classes
ClassNodes == Classes \ LateClasses

ASSUME ConstantsAssumption ==
  /\ Objects \cap Classes = {} /\ HeapRoot \notin Things
  /\ LateClasses \subseteq Classes
  /\ ClassOf \in [Objects -> Classes]
  /\ LeakObject \in [DOMAIN LeakSize -> Objects]
  /\ \A i, j \in DOMAIN LeakSize : LeakObject[i] = LeakObject[j] => i = j
  /\ \A i \in DOMAIN LeakSize :       (* The class of a leak was loaded then. *)
       LeakSize[i] \in Nat /\ ClassOf[LeakObject[i]] \notin LateClasses
  /\ MaxMutations \in Nat
  /\ \A e \in References : e.from \in Things \cup {HeapRoot} /\ e.to \in Objects
  /\ \A h \in InitialHeaps :
       /\ h.refs \cup h.setup.changeable \subseteq References /\ IsFiniteSet(h.refs)
       /\ h.setup.numberOfLeaks \in Nat \ {0}
       /\ 0 .. h.setup.numberOfLeaks - 1 \subseteq DOMAIN LeakSize
       /\ {h.setup.max_fan_in, h.setup.reference_chain_length} \subseteq Nat
  /\ \A r \in IgnoreRules : r.class \in Classes /\ r.threshold \in Nat
  /\ consider_local_references \in BOOLEAN

VARIABLES
  heap,       (* References the target holds.                               *)
  setup,      (* See InitialHeaps.                                          *)
  mutations,  (* Number of changes made so far.                             *)
  tagged,     (* Objects and classes that have a node.                      *)
  node,       (* The nodes.                                                 *)
  leaks_finished,   (* Leaks for which a heap root was met.                 *)
  progress,   (* Leaks whose nodes_found is not 0 in this walk.             *)
  iteration,  (* Walks started.                                             *)
  pending,    (* References the current walk has still to report.           *)
  reached,    (* Objects the current walk has met.                          *)
  pc          (* "loop": between two walks; "follow"; "done"; "fatal".      *)

agentVars == <<tagged, node, leaks_finished, progress, iteration>>
vars == <<heap, setup, mutations, agentVars, pending, reached, pc>>

numberOfLeaks          == setup.numberOfLeaks
max_fan_in             == setup.max_fan_in
reference_chain_length == setup.reference_chain_length

LeakNumbers == 0 .. numberOfLeaks - 1
LeakObjects == {LeakObject[i] : i \in LeakNumbers}
-----------------------------------------------------------------------------
(* What a reference of a given kind is for the agent (jvm_reference.c).     *)

LocalKinds == {"stack_local", "jni_local"}

localReferenceOfThisThread(e) == e.kind \in LocalKinds /\ e.info = DumperThread

isRootReference(kind) ==
  kind \in LocalKinds \cup {"constant_pool", "static_field", "monitor", "thread",
                            "other", "system_class", "jni_global"}

(* JVMTI reports roots from a class, or from no object at all.              *)
ASSUME RootsAssumption ==
  \A e \in References : isRootReference(e.kind) => e.from \in Classes \cup {HeapRoot}

shouldConsiderThisReference(kind) ==
  kind \in LocalKinds => consider_local_references

(* The handles on the leaking objects that GetObjectsWithTags returned.     *)
OwnHandles ==
  {[from |-> HeapRoot, to |-> x, kind |-> "jni_local", info |-> DumperThread] :
     x \in LeakObjects}
-----------------------------------------------------------------------------
(***************************************************************************)
(* Nodes.  The list of references of a node is kept as a set: the callback *)
(* never looks at its order.  fanIn counts saturate at max_fan_in, the     *)
(* only value they are compared with.                                      *)
(***************************************************************************)
newMemoryNode(leaks) ==
  [leaks_related |-> bitMaskSet_new(leaks), refs |-> {},
   reference_pointing_to_me |-> 1, leak_size |-> 0,
   fan_in |-> [c \in Classes |-> 0]]

(* Mutant of LeakNode: the leak is counted twice before its node is made.   *)
LeakNode_CountedTwice(i) ==
  [newMemoryNode(i + 2) EXCEPT
     !.leaks_related = bitMapSet_add(@, i), !.leak_size = LeakSize[i]]

(* Node of leak i: made when the leaks before it have been counted.         *)
LeakNode(i) ==
  [newMemoryNode(i + 1) EXCEPT
     !.leaks_related = bitMapSet_add(@, i), !.leak_size = LeakSize[i]]

NoNode == [newMemoryNode(0) EXCEPT !.reference_pointing_to_me = 0]

isFieldIgnored(class, this, field) ==
  /\ class \in ClassNodes
  /\ \E r \in IgnoreRules :
       r.class = class /\ r.field = field /\ this.leak_size < r.threshold

addReferenceClass(this, class) ==
  [this EXCEPT !.fan_in[class] = Smaller(@ + 1, max_fan_in)]

(* A reference is reported when both tags of the heap filter are set.       *)
Delivered(e) == e.to \in tagged /\ ClassOf[e.to] \in tagged

HasClassTag(e) == e.from \in Objects /\ ClassOf[e.from] \in tagged

(* The early returns that leave everything as it is.                        *)
NotFollowed(e) ==
  \/ localReferenceOfThisThread(e)
  \/ bitMapSet_containsAll(leaks_finished, node[e.to].leaks_related)
  \/ bitMapSet_isEmpty(node[e.to].leaks_related)

(* The node of the referenced object once the class of the referrer counts. *)
Counted(e) ==
  IF HasClassTag(e) THEN addReferenceClass(node[e.to], ClassOf[e.from])
                    ELSE node[e.to]

(* Mutant of Dropped: the limit of the fan-in is exclusive.                 *)
Dropped_PastFanIn(e, this) ==
  \/ /\ HasClassTag(e)
     /\ \/ this.fan_in[ClassOf[e.from]] > max_fan_in
        \/ e.kind = "field" /\ isFieldIgnored(ClassOf[e.from], this, e.info)
  \/ /\ e.from \in tagged
     /\ \/ e.kind = "static_field" /\ isFieldIgnored(e.from, this, e.info)
        \/ e \in this.refs

(* The returns that follow, in the order of the code.                       *)
Dropped(e, this) ==
  \/ /\ HasClassTag(e)
     /\ \/ this.fan_in[ClassOf[e.from]] >= max_fan_in
        \/ e.kind = "field" /\ isFieldIgnored(ClassOf[e.from], this, e.info)
  \/ /\ e.from \in tagged
     /\ \/ e.kind = "static_field" /\ isFieldIgnored(e.from, this, e.info)
        \/ e \in this.refs

(* Mutants of Referrer: the sets of the exclusion swapped; the sizes        *)
(* compared the wrong way round.                                            *)
Referrer_SwappedSets(old, this) ==
  [old EXCEPT
     !.leaks_related = bitMapSet_addAllWithExclusion(
                          @, leaks_finished, this.leaks_related),
     !.leak_size     = IF @ < this.leak_size THEN this.leak_size ELSE @]

Referrer_SmallestSize(old, this) ==
  [old EXCEPT
     !.leaks_related = bitMapSet_addAllWithExclusion(
                          @, this.leaks_related, leaks_finished),
     !.leak_size     = IF @ > this.leak_size THEN this.leak_size ELSE @]

(* The referrer's node, new or not, with what it inherits.                  *)
Referrer(old, this) ==
  [old EXCEPT
     !.leaks_related = bitMapSet_addAllWithExclusion(
                          @, this.leaks_related, leaks_finished),
     !.leak_size     = IF @ < this.leak_size THEN this.leak_size ELSE @]

(* Mutant of ReferrerNode: a known referrer is not counted again.           *)
ReferrerNode_NotCounted(e, nodes) ==
  IF e.from \in tagged THEN nodes[e.from] ELSE newMemoryNode(numberOfLeaks)

ReferrerNode(e, nodes) ==
  IF e.from \in tagged
  THEN [nodes[e.from] EXCEPT !.reference_pointing_to_me = @ + 1]
  ELSE newMemoryNode(numberOfLeaks)

(* Mutant of Recorded: a reference without a referrer is not listed.        *)
Recorded_RootsNotListed(e) ==
  LET nodes  == [node EXCEPT ![e.to] = Counted(e)]
  IN  IF e.from = HeapRoot THEN nodes
      ELSE [nodes EXCEPT
              ![e.from] = Referrer(ReferrerNode(e, nodes), nodes[e.to]),
              ![e.to].refs = @ \cup {e}]

(* All the nodes once e is recorded.                                        *)
Recorded(e) ==
  LET nodes  == [node EXCEPT ![e.to] = Counted(e)]
      linked == IF e.from = HeapRoot THEN nodes
                ELSE [nodes EXCEPT ![e.from] =
                        Referrer(ReferrerNode(e, nodes), nodes[e.to])]
  IN  [linked EXCEPT ![e.to].refs = @ \cup {e}]

cbObjectTagReferrer(e) ==
  \/ /\ NotFollowed(e)
     /\ UNCHANGED <<agentVars, pc>>
  \/ /\ ~NotFollowed(e)                    (* fatal_error in addReferenceClass *)
     /\ HasClassTag(e) /\ ClassOf[e.from] \notin ClassNodes
     /\ pc' = "fatal"
     /\ UNCHANGED agentVars
  \/ /\ ~NotFollowed(e)
     /\ HasClassTag(e) => ClassOf[e.from] \in ClassNodes
     /\ Dropped(e, Counted(e))
     /\ node' = [node EXCEPT ![e.to] = Counted(e)]
     /\ UNCHANGED <<tagged, leaks_finished, progress, iteration, pc>>
  \/ /\ ~NotFollowed(e)
     /\ HasClassTag(e) => ClassOf[e.from] \in ClassNodes
     /\ ~Dropped(e, Counted(e))
     /\ node' = Recorded(e)
     /\ tagged' = tagged \cup ({e.from} \ {HeapRoot})
     /\ LET related == node'[e.to].leaks_related IN
        /\ progress' = progress \cup
             {i \in LeakNumbers : /\ bitMapSet_contains(related, i)
                                  /\ ~bitMapSet_contains(leaks_finished, i)}
        /\ leaks_finished' = IF isRootReference(e.kind)
                             THEN bitMapSet_addAll(leaks_finished, related)
                             ELSE leaks_finished
     /\ UNCHANGED <<iteration, pc>>
-----------------------------------------------------------------------------
(* Searching and tagging of the classes are over: one node per leak and one *)
(* per loaded class.                                                        *)
Init ==
  /\ \E h \in InitialHeaps : heap = h.refs /\ setup = h.setup
  /\ mutations = 0
  /\ tagged = LeakObjects \cup ClassNodes
  /\ node = [x \in Things |->
       IF x \in LeakObjects
       THEN LeakNode(CHOOSE i \in LeakNumbers : LeakObject[i] = x)
       ELSE IF x \in ClassNodes THEN newMemoryNode(numberOfLeaks) ELSE NoNode]
  /\ leaks_finished = bitMaskSet_new(numberOfLeaks)
  /\ progress = {}
  /\ iteration = 0
  /\ pending = {} /\ reached = {}
  /\ pc = IF reference_chain_length = 0 THEN "done" ELSE "loop"

(* FollowReferences is called; it runs at a safepoint.                      *)
StartWalk ==
  /\ pc = "loop"
  /\ iteration' = iteration + 1
  /\ progress' = {}
  /\ pending' = heap \cup OwnHandles
  /\ pc' = "follow"
  /\ UNCHANGED <<heap, setup, mutations, tagged, node, leaks_finished, reached>>

(* The JVM reports the references of an object once it has met the object,  *)
(* in an order it chooses.                                                  *)
Reportable(e) == e.from \in reached \cup Classes \cup {HeapRoot}

Report(e) ==
  /\ pc = "follow" /\ Reportable(e)
  /\ pending' = pending \ {e}
  /\ reached' = reached \cup {e.to}
  /\ \/ Delivered(e) /\ cbObjectTagReferrer(e)
     \/ ~Delivered(e) /\ UNCHANGED <<agentVars, pc>>
  /\ UNCHANGED <<heap, setup, mutations>>

(* Mutant of hasUnfinished: a finished leak stops the walks for all.        *)
hasUnfinished_All ==
  \A i \in LeakNumbers :
    ~bitMapSet_contains(leaks_finished, i) /\ i \in progress

hasUnfinished ==
  \E i \in LeakNumbers :
    ~bitMapSet_contains(leaks_finished, i) /\ i \in progress

(* Mutants of EndWalk: one walk too many, one too few.                      *)
EndWalk_OneMore ==
  /\ pc = "follow" /\ \A e \in pending : ~Reportable(e)
  /\ pending' = {} /\ reached' = {}
  /\ pc' = IF hasUnfinished /\ iteration <= reference_chain_length
           THEN "loop" ELSE "done"
  /\ UNCHANGED <<heap, setup, mutations, agentVars>>

EndWalk_OneLess ==
  /\ pc = "follow" /\ \A e \in pending : ~Reportable(e)
  /\ pending' = {} /\ reached' = {}
  /\ pc' = IF hasUnfinished /\ iteration + 1 < reference_chain_length
           THEN "loop" ELSE "done"
  /\ UNCHANGED <<heap, setup, mutations, agentVars>>

EndWalk ==
  /\ pc = "follow" /\ \A e \in pending : ~Reportable(e)
  /\ pending' = {} /\ reached' = {}
  /\ pc' = IF hasUnfinished /\ iteration < reference_chain_length
           THEN "loop" ELSE "done"
  /\ UNCHANGED <<heap, setup, mutations, agentVars>>

(* The application runs: a reference appears or goes away.  A reference     *)
(* from a late class, or from an instance of one, stands for its loading.   *)
Mutate(e) ==
  /\ pc = "loop" /\ mutations < MaxMutations
  /\ mutations' = mutations + 1
  /\ \/ e \notin heap /\ heap' = heap \cup {e}
     \/ e \in heap /\ heap' = heap \ {e}
  /\ UNCHANGED <<setup, agentVars, pending, reached, pc>>

Dump == StartWalk \/ (\E e \in pending : Report(e)) \/ EndWalk

Next == Dump \/ \E e \in setup.changeable : Mutate(e)

Spec == Init /\ [][Next]_vars
-----------------------------------------------------------------------------
Node == [leaks_related: [size: Nat, bits: SUBSET Nat], refs: SUBSET References,
         reference_pointing_to_me: Nat, leak_size: Nat,
         fan_in: [Classes -> 0 .. max_fan_in]]

TypeOK ==
  /\ heap \subseteq References /\ mutations \in 0 .. MaxMutations
  /\ tagged \subseteq Things
  /\ node \in [Things -> Node]
  /\ \A x \in Things : IsBitmaskSet(node[x].leaks_related)
  /\ IsBitmaskSet(leaks_finished)
  /\ progress \subseteq LeakNumbers
  /\ iteration \in 0 .. reference_chain_length
  /\ pending \subseteq References \cup OwnHandles
  /\ reached \subseteq Objects
  /\ pc \in {"loop", "follow", "done", "fatal"}
-----------------------------------------------------------------------------
HasLeak(x, i) == bitMapSet_contains(node[x].leaks_related, i)
Finished(i)   == bitMapSet_contains(leaks_finished, i)
AllRecorded   == UNION {node[x].refs : x \in Things}

(***************************************************************************)
(* A node says it leads to a leak only if it does: whatever set of nodes   *)
(* holds the leaking object, and with a node the referrers recorded in it  *)
(* that carry the leak's bit, holds every node with that bit.  Bits travel *)
(* against the references, over several walks, and are filtered by the     *)
(* leaks that were finished when the reference was met.                    *)
(***************************************************************************)
LeakBitsHaveProvenance ==
  \A i \in LeakNumbers : \A S \in SUBSET Things :
    (/\ LeakObject[i] \in S
     /\ \A x \in S : \A e \in node[x].refs :
          e.from \in Things /\ i \in node[e.from].leaks_related.bits => e.from \in S)
    => \A x \in Things : i \in node[x].leaks_related.bits => x \in S

(***************************************************************************)
(* The counter that decides when a node may be freed is exact after every  *)
(* callback: one for the list that owns a leak's node or a class's node,   *)
(* and one for each recorded reference that comes from the node.           *)
(***************************************************************************)
ReferenceCountsAreExact ==
  \A x \in tagged :
    node[x].reference_pointing_to_me =
      Cardinality({e \in AllRecorded : e.from = x})
      + IF x \in LeakObjects \cup ClassNodes THEN 1 ELSE 0

(***************************************************************************)
(* However many walks there are and whatever the application changes in    *)
(* between, a node keeps fewer than max_fan_in references that come from   *)
(* instances of one class.                                                 *)
(***************************************************************************)
FanInIsBounded ==
  \A x \in tagged, c \in ClassNodes :
    LET same == {e \in node[x].refs : e.from \in Objects /\ ClassOf[e.from] = c}
    IN  same # {} => Cardinality(same) < max_fan_in

(***************************************************************************)
(* A node knows a size at least that of each leak it leads to, so the      *)
(* thresholds of the ignored fields never hide a leak as large as they     *)
(* say: a recorded reference through such a field leads to one.            *)
(***************************************************************************)
SizeCoversLeaks ==
  \A x \in tagged : \A i \in LeakNumbers :
    HasLeak(x, i) => node[x].leak_size >= LeakSize[i]

(***************************************************************************)
(* The callback compares the finished leaks with every node that may be    *)
(* met, byte by byte: no comparison leaves the arrays.                     *)
(***************************************************************************)
ComparisonsStayInBounds ==
  \A x \in tagged : ContainsAllInBounds(leaks_finished, node[x].leaks_related)

(***************************************************************************)
(* Findable(i) is what the search for a chain looks for afterwards         *)
(* (generateReferencesChainForNode): recorded references that lead from    *)
(* the leaking object to a root, through nodes with the leak's bit.  Nodes *)
(* of classes hold no reference and lead nowhere.                          *)
(***************************************************************************)
Findable(i) ==
  \A S \in SUBSET Objects :
    (/\ LeakObject[i] \in S
     /\ \A x \in S : \A e \in node[x].refs :
          (/\ e.from \in Objects /\ HasLeak(e.from, i)
           /\ shouldConsiderThisReference(e.kind) /\ ~isRootReference(e.kind))
          => e.from \in S)
    => \E x \in S : HasLeak(x, i) /\ \E e \in node[x].refs :
         shouldConsiderThisReference(e.kind) /\ isRootReference(e.kind)

(***************************************************************************)
(* The walks stop looking for the root of a leak only when the nodes they  *)
(* leave contain a chain to one, whatever the application changed between  *)
(* the walks that met the parts of the chain.                              *)
(***************************************************************************)
FinishedIsFindable == \A i \in LeakNumbers : Finished(i) => Findable(i)

(***************************************************************************)
(* What a walk meets: the leaking objects, for which the agent has handles,*)
(* what the roots and the classes refer to, and so on.                     *)
(***************************************************************************)
ClosedIn(S) ==
  \A e \in heap : e.from \in S \cup Classes \cup {HeapRoot} => e.to \in S

Reachable ==
  {x \in Objects : \A S \in SUBSET Objects : LeakObjects \subseteq S /\ ClosedIn(S) => x \in S}

IgnoredFor(e, i) ==
  \E r \in IgnoreRules :
    /\ r.field = e.info /\ LeakSize[i] < r.threshold
    /\ \/ e.kind = "field" /\ e.from \in Objects /\ ClassOf[e.from] = r.class
       \/ e.kind = "static_field" /\ e.from = r.class

(***************************************************************************)
(* When the walks stop before reference_chain_length because nothing new   *)
(* was found, nothing new was left to find: in the heap that the last walk *)
(* met, every live reference to a node of an unfinished leak is recorded,  *)
(* or its class has reached max_fan_in, or a rule larger than the leak     *)
(* ignores it, or it refers to an object of a class loaded too late.       *)
(***************************************************************************)
EarlyStopMissesNothing ==
  (pc = "done" /\ iteration < reference_chain_length) =>
    \A i \in LeakNumbers : ~Finished(i) =>
      \A e \in heap : (/\ HasLeak(e.to, i) /\ ClassOf[e.to] \in ClassNodes
                       /\ e.from \in Objects => e.from \in Reachable) =>
        \/ e \in node[e.to].refs
        \/ localReferenceOfThisThread(e)
        \/ IgnoredFor(e, i)
        \/ HasClassTag(e) /\ node[e.to].fan_in[ClassOf[e.from]] = max_fan_in

(***************************************************************************)
(* "Max number of references to iterate when searching for the reference   *)
(* chain to root" (usage of --reference-chain-length): in a heap that does *)
(* not change, a leak that a considered root holds through at most that    *)
(* many references ends with a chain in the nodes.  Ignored fields and     *)
(* objects of late classes do not count, and the fan-in limit is taken to  *)
(* be out of the way: a reference is counted in the walk that meets its    *)
(* target and in the one after, so it takes twice as much as there are     *)
(* referrers of a class.                                                   *)
(***************************************************************************)
Followed(e, i) == shouldConsiderThisReference(e.kind) /\ ~localReferenceOfThisThread(e)
                    /\ ~IgnoredFor(e, i)

Holds(x, y, i) ==
  ClassOf[x] \in ClassNodes /\ \E e \in heap : e.from = x /\ e.to = y /\ Followed(e, i)

(* Objects that hold the leak through n others, and these.                  *)
Chains(i, n) ==
  {c \in [0 .. n -> Objects] :
     c[0] = LeakObject[i] /\ \A k \in 1 .. n : Holds(c[k], c[k - 1], i)}

RootHolds(x, i) == \E e \in heap : isRootReference(e.kind) /\ Followed(e, i) /\ e.to = x

FanInOutOfTheWay ==
  \A x \in Objects, c \in Classes :
    2 * Cardinality({e \in heap : e.to = x /\ e.from \in Objects /\ ClassOf[e.from] = c})
      <= max_fan_in

ChainWithinLimitIsFound ==
  (pc = "done" /\ mutations = 0 /\ FanInOutOfTheWay) =>
    \A i \in LeakNumbers :
      (\E n \in 0 .. reference_chain_length - 1 :
         \E c \in Chains(i, n) : RootHolds(c[n], i))
      => Findable(i)

(* It does where the leak is the only one.                                  *)
LoneLeakIsFound == numberOfLeaks = 1 => ChainWithinLimitIsFound

(***************************************************************************)
(* The callback never meets a tag that does not belong to the node of a    *)
(* class where it expects one: the assertion "Node %p is not a class node" *)
(* (data_struct.c:113) never ends the target's process.                    *)
(***************************************************************************)
NeverFatal == pc # "fatal"
===============================================================================
