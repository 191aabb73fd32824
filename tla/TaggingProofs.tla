----------------------------- MODULE TaggingProofs -----------------------------
(***************************************************************************)
(* Proofs about the walks, for any heap of any size, whatever the          *)
(* application changes between them and in whatever order the JVM reports  *)
(* references: what a node claims after every callback.                    *)
(***************************************************************************)
EXTENDS ReferenceTagging, SequenceFacts, FiniteSetTheorems, TLAPS

(***************************************************************************)
(* The inductive invariant, about the nodes of all objects and classes.    *)
(***************************************************************************)
SetupKnown == \E h \in InitialHeaps : setup = h.setup

NodeTypes ==
  /\ tagged \subseteq Things /\ LeakObjects \cup ClassNodes \subseteq tagged
  /\ node \in [Things -> Node]
  /\ \A x \in Things \ tagged : node[x] = NoNode

(* Sets are wellformed, and no node has a larger one than leaks_finished.   *)
SetTypes ==
  /\ IsBitmaskSet(leaks_finished) /\ leaks_finished.size = numberOfLeaks
  /\ \A x \in Things : /\ IsBitmaskSet(node[x].leaks_related)
                       /\ node[x].leaks_related.size <= numberOfLeaks

(* A reference is recorded at its target, and its referrer has a node.      *)
ListsAreSound ==
  \A x \in Things : \A e \in node[x].refs :
    e.to = x /\ e.from \in tagged \cup {HeapRoot}

From(x) == {e \in AllRecorded : e.from = x}

Owned(x) == IF x \in LeakObjects \cup ClassNodes THEN 1 ELSE 0

CountsOfNodes ==
  \A x \in Things :
    /\ IsFiniteSet(From(x))
    /\ node[x].reference_pointing_to_me = Cardinality(From(x)) + Owned(x)

SameClass(x, c) == {e \in node[x].refs : e.from \in Objects /\ ClassOf[e.from] = c}

(* The count of a class covers its references, also those that were dropped.*)
FanInCovers ==
  \A x \in Things, c \in ClassNodes :
    /\ IsFiniteSet(SameClass(x, c))
    /\ Cardinality(SameClass(x, c)) <= node[x].fan_in[c]
    /\ SameClass(x, c) # {} => Cardinality(SameClass(x, c)) < max_fan_in

(* Spare bits included, which travel on to nodes where they are no spare.   *)
SizesOfNodes ==
  \A x \in Things : \A i \in LeakNumbers :
    i \in node[x].leaks_related.bits => node[x].leak_size >= LeakSize[i]

(* Bits are numbers of leaks, spare ones included, and a node with          *)
(* references has some.                                                     *)
BitsAreLeaks ==
  \A x \in Things : /\ node[x].leaks_related.bits \subseteq LeakNumbers
                    /\ node[x].refs # {} => node[x].leaks_related.bits # {}

NodeInv ==
  /\ SetupKnown /\ NodeTypes /\ SetTypes /\ ListsAreSound /\ CountsOfNodes /\ FanInCovers
  /\ SizesOfNodes /\ LeakBitsHaveProvenance /\ BitsAreLeaks /\ IsFiniteSet(AllRecorded)

WalkTypes ==
  /\ heap \subseteq References /\ mutations \in 0 .. MaxMutations
  /\ progress \subseteq LeakNumbers
  /\ iteration \in 0 .. reference_chain_length
  /\ (pc = "loop" => iteration < reference_chain_length)
  /\ pending \subseteq References \cup OwnHandles
  /\ reached \subseteq Objects
  /\ pc \in {"loop", "follow", "done", "fatal"}

IInv == NodeInv /\ WalkTypes
-----------------------------------------------------------------------------
(***************************************************************************)
(* Facts about sets.                                                       *)
(***************************************************************************)

(* A byte has room for the numbers that it was allocated for, and a larger  *)
(* set has no fewer bytes.                                                  *)
LEMMA CapacityFacts ==
  ASSUME NEW m \in Nat, NEW n \in Nat
  PROVE  /\ Capacity(n) \in Nat /\ n < Capacity(n)
         /\ m <= n => Capacity(m) <= Capacity(n)
<1>. DEFINE k == ByteBits
            a == m \div k
            b == n \div k
<1>1. k \in Nat \ {0}
  BY ByteBitsAssumption
<1>2. /\ a \in Nat /\ k * a <= m /\ m < k * a + k
      /\ b \in Nat /\ k * b <= n /\ n < k * b + k
  BY <1>1, Z3
<1>. HIDE DEF k, a, b
<1>3. /\ k * (1 + a) = k * a + k /\ k * (1 + b) = k * b + k
      /\ k * a \in Nat /\ k * b \in Nat
  BY <1>1, <1>2
<1>4. m <= n => a <= b
  <2>1. SUFFICES ASSUME m <= n, a >= b + 1 PROVE FALSE
    BY <1>2
  <2>2. k * a >= k * (b + 1)
    BY <1>1, <1>2, <2>1
  <2>3. k * (b + 1) = k * b + k
    BY <1>1, <1>2
  <2>. QED BY <1>1, <1>2, <1>3, <2>1, <2>2, <2>3
<1>5. a <= b => k * a <= k * b
  BY <1>1, <1>2
<1>6. Capacity(m) = k * (1 + a) /\ Capacity(n) = k * (1 + b)
  BY DEF Capacity, SIZE_IN_BYTES, k, a, b
<1>. QED BY <1>1, <1>2, <1>3, <1>4, <1>5, <1>6

LEMMA NewIsSet ==
  ASSUME NEW n \in Nat
  PROVE  /\ IsBitmaskSet(bitMaskSet_new(n))
         /\ bitMaskSet_new(n).size = n /\ bitMaskSet_new(n).bits = {}
BY DEF bitMaskSet_new, IsBitmaskSet

LEMMA AddIsSet ==
  ASSUME NEW s, IsBitmaskSet(s), NEW n \in Nat, n < s.size
  PROVE  /\ IsBitmaskSet(bitMapSet_add(s, n))
         /\ bitMapSet_add(s, n).size = s.size
         /\ bitMapSet_add(s, n).bits = s.bits \cup {n}
<1>. DEFINE t == bitMapSet_add(s, n)
<1>1. s = [size |-> s.size, bits |-> s.bits] /\ s.size \in Nat
  BY DEF IsBitmaskSet
<1>2. t = [s EXCEPT !.bits = @ \cup {n}]
  BY <1>1 DEF bitMapSet_add
<1>3. t = [size |-> s.size, bits |-> s.bits \cup {n}]
  BY <1>1, <1>2
<1>4. n < Capacity(s.size)
  BY <1>1, CapacityFacts
<1>. HIDE DEF t
<1>5. t.size = s.size /\ t.bits = s.bits \cup {n}
  BY <1>3
<1>6. IsBitmaskSet(t)
  BY <1>1, <1>3, <1>4, <1>5 DEF IsBitmaskSet
<1>. QED BY <1>5, <1>6 DEF t

(* Whatever is added from another set is in that set, and fits.             *)
LEMMA WithExclusionIsSet ==
  ASSUME NEW s, NEW o, NEW e, IsBitmaskSet(s), IsBitmaskSet(o), IsBitmaskSet(e)
  PROVE  LET t == bitMapSet_addAllWithExclusion(s, o, e)
         IN  /\ IsBitmaskSet(t) /\ t.size = s.size
             /\ s.bits \subseteq t.bits /\ t.bits \subseteq s.bits \cup o.bits
             /\ 0 \in o.bits \ e.bits => 0 \in t.bits
<1>. DEFINE t == bitMapSet_addAllWithExclusion(s, o, e)
            B == {b \in o.bits : /\ b < Capacity(Smaller(s.size, o.size))
                                 /\ b \in e.bits =>
                                      b >= Capacity(Smaller(Smaller(s.size, o.size), e.size))}
<1>1. s = [size |-> s.size, bits |-> s.bits] /\ s.size \in Nat /\ o.size \in Nat
  BY DEF IsBitmaskSet
<1>2. t = [s EXCEPT !.bits = @ \cup B]
  BY DEF bitMapSet_addAllWithExclusion
<1>. HIDE DEF B
<1>3. t = [size |-> s.size, bits |-> s.bits \cup B]
  BY <1>1, <1>2
<1>4. \A b \in B : b \in o.bits /\ b < Capacity(Smaller(s.size, o.size))
  BY DEF B
<1>5. Smaller(s.size, o.size) \in Nat /\ Smaller(s.size, o.size) <= s.size
  BY <1>1 DEF Smaller
<1>6. \A b \in B : b \in Nat /\ b < Capacity(s.size)
  BY <1>1, <1>4, <1>5, CapacityFacts DEF IsBitmaskSet
<1>. HIDE DEF t
<1>7. t.size = s.size /\ t.bits = s.bits \cup B
  BY <1>3
<1>8. IsBitmaskSet(t)
  BY <1>1, <1>3, <1>6, <1>7 DEF IsBitmaskSet
<1>9. 0 \in o.bits \ e.bits => 0 \in B
  <2>1. 0 < Capacity(Smaller(s.size, o.size))
    BY <1>5, CapacityFacts
  <2>. QED BY <2>1 DEF B
<1>. QED BY <1>4, <1>7, <1>8, <1>9 DEF t

LEMMA AddAllIsSet ==
  ASSUME NEW s, NEW o, IsBitmaskSet(s), IsBitmaskSet(o)
  PROVE  /\ IsBitmaskSet(bitMapSet_addAll(s, o))
         /\ bitMapSet_addAll(s, o).size = s.size
         /\ s.bits \subseteq bitMapSet_addAll(s, o).bits
         /\ bitMapSet_addAll(s, o).bits \subseteq s.bits \cup o.bits
         /\ 0 \in o.bits => 0 \in bitMapSet_addAll(s, o).bits
<1>. DEFINE t == bitMapSet_addAll(s, o)
            B == {b \in o.bits : b < Capacity(Smaller(s.size, o.size))}
<1>1. s = [size |-> s.size, bits |-> s.bits] /\ s.size \in Nat /\ o.size \in Nat
  BY DEF IsBitmaskSet
<1>2. t = [s EXCEPT !.bits = @ \cup B]
  BY DEF bitMapSet_addAll
<1>. HIDE DEF B
<1>3. t = [size |-> s.size, bits |-> s.bits \cup B]
  BY <1>1, <1>2
<1>5. Smaller(s.size, o.size) \in Nat /\ Smaller(s.size, o.size) <= s.size
  BY <1>1 DEF Smaller
<1>6. \A b \in B : b \in Nat /\ b < Capacity(s.size)
  BY <1>1, <1>5, CapacityFacts DEF IsBitmaskSet, B
<1>. HIDE DEF t
<1>7. t.size = s.size /\ t.bits = s.bits \cup B
  BY <1>3
<1>8. IsBitmaskSet(t)
  BY <1>1, <1>3, <1>6, <1>7 DEF IsBitmaskSet
<1>9. B \subseteq o.bits /\ (0 \in o.bits => 0 \in B)
  <2>1. 0 < Capacity(Smaller(s.size, o.size))
    BY <1>5, CapacityFacts
  <2>. QED BY <2>1 DEF B
<1>. QED BY <1>7, <1>8, <1>9 DEF t
-----------------------------------------------------------------------------
(***************************************************************************)
(* Facts about the setup, and about nodes.                                 *)
(***************************************************************************)
LEMMA SetupFacts ==
  ASSUME SetupKnown
  PROVE  /\ numberOfLeaks \in Nat \ {0} /\ max_fan_in \in Nat /\ reference_chain_length \in Nat
         /\ LeakNumbers \subseteq DOMAIN LeakSize /\ LeakNumbers \subseteq Nat
         /\ \A i \in LeakNumbers : LeakObject[i] \in Objects /\ LeakSize[i] \in Nat
         /\ LeakObjects \subseteq Objects
         /\ setup.changeable \subseteq References
<1>1. PICK h \in InitialHeaps : setup = h.setup
  BY DEF SetupKnown
<1>2. /\ numberOfLeaks \in Nat \ {0} /\ max_fan_in \in Nat /\ reference_chain_length \in Nat
      /\ LeakNumbers \subseteq DOMAIN LeakSize /\ LeakNumbers \subseteq Nat
      /\ setup.changeable \subseteq References
  BY <1>1, ConstantsAssumption
     DEF numberOfLeaks, max_fan_in, reference_chain_length, LeakNumbers
<1>3. \A i \in LeakNumbers : LeakObject[i] \in Objects /\ LeakSize[i] \in Nat
  BY <1>2, ConstantsAssumption
<1>. QED BY <1>2, <1>3 DEF LeakObjects

LEMMA NewNode ==
  ASSUME SetupKnown, NEW n \in Nat
  PROVE  /\ newMemoryNode(n) \in Node
         /\ newMemoryNode(n).leaks_related = bitMaskSet_new(n)
         /\ newMemoryNode(n).refs = {}
         /\ newMemoryNode(n).reference_pointing_to_me = 1
         /\ newMemoryNode(n).leak_size = 0
         /\ \A c \in Classes : newMemoryNode(n).fan_in[c] = 0
<1>1. max_fan_in \in Nat
  BY SetupFacts
<1>2. bitMaskSet_new(n) \in [size: Nat, bits: SUBSET Nat]
  BY DEF bitMaskSet_new
<1>3. [c \in Classes |-> 0] \in [Classes -> 0 .. max_fan_in]
  BY <1>1
<1>. QED BY <1>2, <1>3 DEF newMemoryNode, Node

LEMMA NodeOfNone ==
  ASSUME SetupKnown
  PROVE  /\ NoNode \in Node
         /\ NoNode.leaks_related = bitMaskSet_new(0) /\ NoNode.refs = {}
         /\ NoNode.reference_pointing_to_me = 0 /\ NoNode.leak_size = 0
         /\ \A c \in Classes : NoNode.fan_in[c] = 0
<1>. DEFINE n == newMemoryNode(0)
<1>1. /\ n \in Node /\ n.leaks_related = bitMaskSet_new(0) /\ n.refs = {}
      /\ n.leak_size = 0 /\ \A c \in Classes : n.fan_in[c] = 0
  BY NewNode
<1>2. NoNode = [n EXCEPT !.reference_pointing_to_me = 0]
  BY DEF NoNode
<1>. HIDE DEF n
<1>. QED BY <1>1, <1>2 DEF Node

LEMMA NodeOfLeak ==
  ASSUME SetupKnown, NEW i \in LeakNumbers
  PROVE  /\ LeakNode(i) \in Node
         /\ IsBitmaskSet(LeakNode(i).leaks_related)
         /\ LeakNode(i).leaks_related.size <= numberOfLeaks
         /\ LeakNode(i).leaks_related.bits = {i}
         /\ LeakNode(i).refs = {} /\ LeakNode(i).reference_pointing_to_me = 1
         /\ LeakNode(i).leak_size = LeakSize[i]
         /\ \A c \in Classes : LeakNode(i).fan_in[c] = 0
<1>. DEFINE n == newMemoryNode(i + 1)
            s == bitMapSet_add(n.leaks_related, i)
<1>1. /\ i \in Nat /\ i + 1 \in Nat /\ LeakSize[i] \in Nat
      /\ numberOfLeaks \in Nat /\ i + 1 <= numberOfLeaks
  BY SetupFacts DEF LeakNumbers
<1>2. /\ n \in Node /\ n.leaks_related = bitMaskSet_new(i + 1) /\ n.refs = {}
      /\ n.reference_pointing_to_me = 1 /\ \A c \in Classes : n.fan_in[c] = 0
  BY <1>1, NewNode
<1>3. IsBitmaskSet(s) /\ s.size = i + 1 /\ s.bits = {i}
  BY <1>1, <1>2, NewIsSet, AddIsSet
<1>4. s \in [size: Nat, bits: SUBSET Nat]
  BY <1>3 DEF IsBitmaskSet
<1>5. LeakNode(i) = [n EXCEPT !.leaks_related = s, !.leak_size = LeakSize[i]]
  BY DEF LeakNode
<1>. HIDE DEF n, s
<1>. QED BY <1>1, <1>2, <1>3, <1>4, <1>5 DEF Node
-----------------------------------------------------------------------------
(***************************************************************************)
(* The invariant holds when the walks begin.                               *)
(***************************************************************************)
LEMMA InitNodes ==
  ASSUME Init
  PROVE  /\ SetupKnown /\ NodeTypes
         /\ \A x \in Things : /\ node[x] \in Node /\ node[x].refs = {}
                              /\ IsBitmaskSet(node[x].leaks_related)
                              /\ node[x].leaks_related.size <= numberOfLeaks
                              /\ node[x].reference_pointing_to_me = Owned(x)
                              /\ \A c \in Classes : node[x].fan_in[c] = 0
                              /\ node[x].leaks_related.bits \subseteq LeakNumbers
                              /\ \A i \in LeakNumbers : i \in node[x].leaks_related.bits =>
                                   LeakObject[i] = x /\ node[x].leak_size = LeakSize[i]
         /\ \A i \in LeakNumbers : i \in node[LeakObject[i]].leaks_related.bits
<1>1. SetupKnown
  BY DEF Init, SetupKnown
<1>2. /\ LeakObjects \subseteq Objects /\ ClassNodes \subseteq Classes
      /\ Objects \cap Classes = {}
      /\ tagged = LeakObjects \cup ClassNodes
      /\ numberOfLeaks \in Nat
  BY <1>1, SetupFacts, ConstantsAssumption DEF Init, ClassNodes
<1>3. DOMAIN node = Things
  BY DEF Init
<1>4. ASSUME NEW x \in LeakObjects
      PROVE  \E i \in LeakNumbers : LeakObject[i] = x /\ node[x] = LeakNode(i)
  <2>1. x \in Things
    BY <1>2 DEF Things
  <2>2. node[x] = LeakNode(CHOOSE i \in LeakNumbers : LeakObject[i] = x)
    BY <2>1 DEF Init
  <2>3. \E i \in LeakNumbers : LeakObject[i] = x
    BY DEF LeakObjects
  <2>. QED BY <2>2, <2>3
<1>5. ASSUME NEW x \in Things \ LeakObjects
      PROVE  node[x] = IF x \in ClassNodes THEN newMemoryNode(numberOfLeaks) ELSE NoNode
  BY DEF Init
<1>6. \A i, j \in LeakNumbers : LeakObject[i] = LeakObject[j] => i = j
  BY <1>1, SetupFacts, ConstantsAssumption
<1>7. ASSUME NEW x \in Things
      PROVE  /\ node[x] \in Node /\ node[x].refs = {}
             /\ IsBitmaskSet(node[x].leaks_related)
             /\ node[x].leaks_related.size <= numberOfLeaks
             /\ node[x].reference_pointing_to_me = Owned(x)
             /\ \A c \in Classes : node[x].fan_in[c] = 0
             /\ node[x].leaks_related.bits \subseteq LeakNumbers
             /\ \A i \in LeakNumbers : i \in node[x].leaks_related.bits =>
                  LeakObject[i] = x /\ node[x].leak_size = LeakSize[i]
  <2>1. CASE x \in LeakObjects
    BY <1>1, <1>4, <2>1, NodeOfLeak DEF Owned
  <2>2. CASE x \in ClassNodes \ LeakObjects
    BY <1>1, <1>2, <1>5, <2>2, NewNode, NewIsSet DEF Owned
  <2>3. CASE x \notin LeakObjects \cup ClassNodes
    BY <1>1, <1>2, <1>5, <2>3, NodeOfNone, NewIsSet DEF Owned
  <2>. QED BY <2>1, <2>2, <2>3
<1>8. NodeTypes
  <2>1. node = [x \in Things |-> node[x]]
    BY <1>3 DEF Init
  <2>2. node \in [Things -> Node]
    BY <1>7, <2>1
  <2>3. \A x \in Things \ tagged : node[x] = NoNode
    BY <1>2, <1>5
  <2>. QED BY <1>2, <2>2, <2>3 DEF NodeTypes, Things
<1>9. ASSUME NEW i \in LeakNumbers PROVE i \in node[LeakObject[i]].leaks_related.bits
  <2>1. LeakObject[i] \in LeakObjects
    BY DEF LeakObjects
  <2>2. node[LeakObject[i]] = LeakNode(i)
    BY <1>4, <1>6, <2>1
  <2>. QED BY <1>1, <2>2, NodeOfLeak
<1>. QED BY <1>1, <1>7, <1>8, <1>9

LEMMA InitIInv == Init => IInv
<1>. SUFFICES ASSUME Init PROVE IInv
  OBVIOUS
<1>1. /\ SetupKnown /\ NodeTypes
      /\ \A x \in Things : node[x].refs = {} /\ node[x].reference_pointing_to_me = Owned(x)
  BY InitNodes
<1>2. SetTypes
  <2>1. leaks_finished = bitMaskSet_new(numberOfLeaks) /\ numberOfLeaks \in Nat
    BY <1>1, SetupFacts DEF Init
  <2>. QED BY <2>1, InitNodes, NewIsSet DEF SetTypes
<1>3. AllRecorded = {}
  BY <1>1 DEF AllRecorded
<1>4. ListsAreSound /\ CountsOfNodes
  <2>1. \A x : From(x) = {}
    BY <1>3 DEF From
  <2>2. ASSUME NEW x \in Things
        PROVE  /\ IsFiniteSet(From(x))
               /\ node[x].reference_pointing_to_me = Cardinality(From(x)) + Owned(x)
    <3>1. Owned(x) \in Nat /\ From(x) = {}
      BY <2>1 DEF Owned
    <3>. QED BY <1>1, <3>1, FS_EmptySet
  <2>3. ListsAreSound
    BY <1>1 DEF ListsAreSound
  <2>. QED BY <2>2, <2>3 DEF CountsOfNodes
<1>5. FanInCovers
  <2>1. \A x \in Things, c \in ClassNodes : SameClass(x, c) = {}
    BY <1>1 DEF SameClass
  <2>2. \A x \in Things, c \in ClassNodes : node[x].fan_in[c] = 0
    BY InitNodes DEF ClassNodes
  <2>. QED BY <2>1, <2>2, FS_EmptySet DEF FanInCovers
<1>6. SizesOfNodes
  <2>1. \A i \in LeakNumbers : LeakSize[i] \in Nat
    BY <1>1, SetupFacts
  <2>. QED BY <2>1, InitNodes DEF SizesOfNodes
<1>7. LeakBitsHaveProvenance
  BY InitNodes DEF LeakBitsHaveProvenance
<1>8. WalkTypes
  <2>1. reference_chain_length \in Nat /\ MaxMutations \in Nat
    BY <1>1, SetupFacts, ConstantsAssumption
  <2>2. heap \subseteq References
    BY ConstantsAssumption DEF Init
  <2>. QED BY <2>1, <2>2 DEF Init, WalkTypes
<1>9. BitsAreLeaks /\ IsFiniteSet(AllRecorded)
  BY <1>1, <1>3, InitNodes, FS_EmptySet DEF BitsAreLeaks
<1>. QED BY <1>1, <1>2, <1>4, <1>5, <1>6, <1>7, <1>8, <1>9 DEF IInv, NodeInv
-----------------------------------------------------------------------------
(***************************************************************************)
(* What the callback does to the nodes.                                    *)
(***************************************************************************)
LEMMA AddReferenceClassFacts ==
  ASSUME SetupKnown, NEW n \in Node, NEW c \in Classes
  PROVE  LET m == addReferenceClass(n, c)
         IN  /\ m \in Node /\ m.leaks_related = n.leaks_related /\ m.refs = n.refs
             /\ m.reference_pointing_to_me = n.reference_pointing_to_me
             /\ m.leak_size = n.leak_size
             /\ \A d \in Classes : m.fan_in[d] = IF d = c THEN Smaller(n.fan_in[d] + 1, max_fan_in)
                                                         ELSE n.fan_in[d]
<1>. DEFINE f == [n.fan_in EXCEPT ![c] = Smaller(@ + 1, max_fan_in)]
<1>1. n.fan_in \in [Classes -> 0 .. max_fan_in] /\ max_fan_in \in Nat
  BY SetupFacts DEF Node
<1>2. Smaller(n.fan_in[c] + 1, max_fan_in) \in 0 .. max_fan_in
  BY <1>1 DEF Smaller
<1>3. /\ f \in [Classes -> 0 .. max_fan_in]
      /\ \A d \in Classes : f[d] = IF d = c THEN Smaller(n.fan_in[d] + 1, max_fan_in)
                                            ELSE n.fan_in[d]
  BY <1>1, <1>2
<1>4. addReferenceClass(n, c) = [n EXCEPT !.fan_in = f]
  BY DEF addReferenceClass, Node
<1>. HIDE DEF f
<1>. QED BY <1>3, <1>4 DEF Node

(* The count of a class that a node has after the callback.                 *)
FanInAfter(e, c) ==
  IF HasClassTag(e) /\ c = ClassOf[e.from] THEN Smaller(node[e.to].fan_in[c] + 1, max_fan_in)
                                           ELSE node[e.to].fan_in[c]

LEMMA CountedFacts ==
  ASSUME SetupKnown, NodeTypes, NEW e, e.to \in Things
  PROVE  /\ Counted(e) \in Node /\ node[e.to] \in Node
         /\ Counted(e).leaks_related = node[e.to].leaks_related
         /\ Counted(e).refs = node[e.to].refs
         /\ Counted(e).reference_pointing_to_me = node[e.to].reference_pointing_to_me
         /\ Counted(e).leak_size = node[e.to].leak_size
         /\ \A c \in Classes : Counted(e).fan_in[c] = FanInAfter(e, c)
<1>1. node[e.to] \in Node
  BY DEF NodeTypes
<1>2. CASE HasClassTag(e)
  <2>1. ClassOf[e.from] \in Classes
    BY <1>2, ConstantsAssumption DEF HasClassTag
  <2>2. Counted(e) = addReferenceClass(node[e.to], ClassOf[e.from])
    BY <1>2 DEF Counted
  <2>. QED BY <1>1, <1>2, <2>1, <2>2, AddReferenceClassFacts DEF FanInAfter
<1>3. CASE ~HasClassTag(e)
  BY <1>1, <1>3 DEF Counted, FanInAfter
<1>. QED BY <1>2, <1>3

LEMMA ReferrerFacts ==
  ASSUME SetTypes, NEW old \in Node, NEW this \in Node,
         IsBitmaskSet(old.leaks_related), IsBitmaskSet(this.leaks_related)
  PROVE  LET n == Referrer(old, this)
         IN  /\ n \in Node /\ n.refs = old.refs /\ n.fan_in = old.fan_in
             /\ n.reference_pointing_to_me = old.reference_pointing_to_me
             /\ IsBitmaskSet(n.leaks_related)
             /\ n.leaks_related.size = old.leaks_related.size
             /\ old.leaks_related.bits \subseteq n.leaks_related.bits
             /\ n.leaks_related.bits \subseteq old.leaks_related.bits \cup this.leaks_related.bits
             /\ 0 \in this.leaks_related.bits \ leaks_finished.bits => 0 \in n.leaks_related.bits
             /\ n.leak_size >= old.leak_size /\ n.leak_size >= this.leak_size
<1>. DEFINE t == bitMapSet_addAllWithExclusion(
                   old.leaks_related, this.leaks_related, leaks_finished)
            m == IF old.leak_size < this.leak_size THEN this.leak_size ELSE old.leak_size
<1>1. /\ IsBitmaskSet(t) /\ t.size = old.leaks_related.size
      /\ old.leaks_related.bits \subseteq t.bits
      /\ t.bits \subseteq old.leaks_related.bits \cup this.leaks_related.bits
      /\ 0 \in this.leaks_related.bits \ leaks_finished.bits => 0 \in t.bits
  BY WithExclusionIsSet DEF SetTypes
<1>2. t \in [size: Nat, bits: SUBSET Nat]
  BY <1>1 DEF IsBitmaskSet
<1>3. m \in Nat /\ m >= old.leak_size /\ m >= this.leak_size
  BY DEF Node
<1>4. Referrer(old, this) = [old EXCEPT !.leaks_related = t, !.leak_size = m]
  BY DEF Referrer
<1>. HIDE DEF t, m
<1>5. /\ Referrer(old, this) \in Node
      /\ Referrer(old, this).leaks_related = t /\ Referrer(old, this).leak_size = m
      /\ Referrer(old, this).refs = old.refs /\ Referrer(old, this).fan_in = old.fan_in
      /\ Referrer(old, this).reference_pointing_to_me = old.reference_pointing_to_me
  BY <1>2, <1>3, <1>4 DEF Node
<1>. QED BY <1>1, <1>3, <1>5

(* The node of the referrer: what it had, and what it inherits; a node of   *)
(* none is like a new one to everything but the size of the set.            *)
LEMMA ReferrerNodeFacts ==
  ASSUME NodeInv, NEW e, NEW nodes \in [Things -> Node], e.from \in Things,
         \A x \in Things : /\ nodes[x].leaks_related = node[x].leaks_related
                           /\ nodes[x].refs = node[x].refs
                           /\ nodes[x].leak_size = node[x].leak_size
                           /\ nodes[x].reference_pointing_to_me = node[x].reference_pointing_to_me
  PROVE  LET n == ReferrerNode(e, nodes)
             m == node[e.from]
         IN  /\ n \in Node /\ IsBitmaskSet(n.leaks_related)
             /\ n.leaks_related.size = IF e.from \in tagged THEN m.leaks_related.size
                                                          ELSE numberOfLeaks
             /\ n.leaks_related.size <= numberOfLeaks
             /\ n.leaks_related.bits = m.leaks_related.bits
             /\ n.refs = m.refs /\ n.leak_size = m.leak_size
             /\ n.reference_pointing_to_me = m.reference_pointing_to_me + 1
             /\ \A c \in Classes : n.fan_in[c] = IF e.from \in tagged THEN nodes[e.from].fan_in[c]
                                                                     ELSE m.fan_in[c]
<1>. DEFINE old == nodes[e.from]
<1>0. SetupKnown /\ NodeTypes /\ SetTypes /\ numberOfLeaks \in Nat
  BY SetupFacts DEF NodeInv
<1>1. CASE e.from \in tagged
  <2>1. /\ old \in Node /\ old.leaks_related = node[e.from].leaks_related
        /\ old.refs = node[e.from].refs /\ old.leak_size = node[e.from].leak_size
        /\ old.reference_pointing_to_me = node[e.from].reference_pointing_to_me
    OBVIOUS
  <2>2. ReferrerNode(e, nodes) = [old EXCEPT !.reference_pointing_to_me = @ + 1]
    BY <1>1 DEF ReferrerNode
  <2>3. /\ IsBitmaskSet(node[e.from].leaks_related)
        /\ node[e.from].leaks_related.size <= numberOfLeaks
    BY <1>0 DEF SetTypes
  <2>. HIDE DEF old
  <2>4. /\ ReferrerNode(e, nodes) \in Node
        /\ ReferrerNode(e, nodes).leaks_related = old.leaks_related
        /\ ReferrerNode(e, nodes).refs = old.refs
        /\ ReferrerNode(e, nodes).leak_size = old.leak_size
        /\ ReferrerNode(e, nodes).fan_in = old.fan_in
        /\ ReferrerNode(e, nodes).reference_pointing_to_me = old.reference_pointing_to_me + 1
    BY <2>1, <2>2 DEF Node
  <2>. QED BY <1>1, <2>1, <2>3, <2>4 DEF old
<1>2. CASE e.from \notin tagged
  <2>1. node[e.from] = NoNode
    BY <1>0, <1>2 DEF NodeTypes
  <2>2. ReferrerNode(e, nodes) = newMemoryNode(numberOfLeaks)
    BY <1>2 DEF ReferrerNode
  <2>. DEFINE n == newMemoryNode(numberOfLeaks)
  <2>3. /\ n \in Node /\ IsBitmaskSet(n.leaks_related)
        /\ n.leaks_related.size = numberOfLeaks /\ n.leaks_related.bits = {}
        /\ n.refs = {} /\ n.reference_pointing_to_me = 1 /\ n.leak_size = 0
        /\ \A c \in Classes : n.fan_in[c] = 0
    BY <1>0, NewNode, NewIsSet
  <2>4. /\ NoNode.leaks_related.bits = {} /\ NoNode.refs = {}
        /\ NoNode.reference_pointing_to_me = 0 /\ NoNode.leak_size = 0
        /\ \A c \in Classes : NoNode.fan_in[c] = 0
    BY <1>0, NodeOfNone, NewIsSet
  <2>5. ReferrerNode(e, nodes) = n
    BY <2>2
  <2>. HIDE DEF n
  <2>. QED BY <1>0, <1>2, <2>1, <2>3, <2>4, <2>5
<1>. QED BY <1>1, <1>2

(* What n, as the node of x once e is recorded, has besides its list.       *)
Inherited(x, e, n) ==
  /\ \A c \in Classes : n.fan_in[c] = IF x = e.to THEN FanInAfter(e, c) ELSE node[x].fan_in[c]
  /\ n.reference_pointing_to_me =
       node[x].reference_pointing_to_me + IF x = e.from THEN 1 ELSE 0
  /\ IsBitmaskSet(n.leaks_related) /\ n.leaks_related.size <= numberOfLeaks
  /\ n.leaks_related.size = IF x \in {e.from} \ tagged THEN numberOfLeaks
                                                       ELSE node[x].leaks_related.size
  /\ node[x].leaks_related.bits \subseteq n.leaks_related.bits
  /\ n.leaks_related.bits \subseteq
       node[x].leaks_related.bits \cup IF x = e.from THEN node[e.to].leaks_related.bits ELSE {}
  /\ x = e.from /\ 0 \in node[e.to].leaks_related.bits \ leaks_finished.bits
       => 0 \in n.leaks_related.bits
  /\ n.leak_size >= node[x].leak_size
  /\ x = e.from => n.leak_size >= node[e.to].leak_size

LEMMA RecordedNodes ==
  ASSUME NodeInv, NEW e \in References, e.to \in tagged
  PROVE  /\ Recorded(e) \in [Things -> Node]
         /\ \A x \in Things :
              /\ Recorded(e)[x].refs = IF x = e.to THEN node[x].refs \cup {e} ELSE node[x].refs
              /\ Inherited(x, e, Recorded(e)[x])
         /\ \A x \in Things : x \notin {e.from, e.to} => Recorded(e)[x] = node[x]
<1>. DEFINE nodes  == [node EXCEPT ![e.to] = Counted(e)]
            from   == Referrer(ReferrerNode(e, nodes), nodes[e.to])
            linked == IF e.from = HeapRoot THEN nodes ELSE [nodes EXCEPT ![e.from] = from]
            last   == [linked[e.to] EXCEPT !.refs = @ \cup {e}]
<1>0. /\ SetupKnown /\ NodeTypes /\ SetTypes
      /\ node \in [Things -> Node] /\ e.to \in Things
      /\ e.from \in Things \cup {HeapRoot} /\ HeapRoot \notin Things
  BY ConstantsAssumption DEF NodeInv, NodeTypes
<1>1. /\ Counted(e) \in Node
      /\ Counted(e).leaks_related = node[e.to].leaks_related
      /\ Counted(e).refs = node[e.to].refs
      /\ Counted(e).reference_pointing_to_me = node[e.to].reference_pointing_to_me
      /\ Counted(e).leak_size = node[e.to].leak_size
      /\ \A c \in Classes : Counted(e).fan_in[c] = FanInAfter(e, c)
  BY <1>0, CountedFacts
<1>2. /\ nodes \in [Things -> Node]
      /\ \A x \in Things : nodes[x] = IF x = e.to THEN Counted(e) ELSE node[x]
  BY <1>0, <1>1
<1>. HIDE DEF nodes
<1>3. \A x \in Things : /\ nodes[x].leaks_related = node[x].leaks_related
                        /\ nodes[x].refs = node[x].refs
                        /\ nodes[x].leak_size = node[x].leak_size
                        /\ nodes[x].reference_pointing_to_me = node[x].reference_pointing_to_me
                        /\ \A c \in Classes : nodes[x].fan_in[c] =
                             IF x = e.to THEN FanInAfter(e, c) ELSE node[x].fan_in[c]
  BY <1>1, <1>2
<1>4. \A x \in Things : /\ node[x] \in Node /\ IsBitmaskSet(node[x].leaks_related)
                        /\ node[x].leaks_related.size <= numberOfLeaks
                        /\ node[x].reference_pointing_to_me \in Nat /\ node[x].leak_size \in Nat
  BY <1>0 DEF SetTypes, Node
<1>5. ASSUME e.from \in Things
      PROVE  /\ from \in Node /\ from.refs = node[e.from].refs
             /\ \A c \in Classes : from.fan_in[c] = nodes[e.from].fan_in[c]
             /\ from.reference_pointing_to_me = node[e.from].reference_pointing_to_me + 1
             /\ IsBitmaskSet(from.leaks_related) /\ from.leaks_related.size <= numberOfLeaks
             /\ from.leaks_related.size = IF e.from \in tagged THEN node[e.from].leaks_related.size
                                                             ELSE numberOfLeaks
             /\ 0 \in node[e.to].leaks_related.bits \ leaks_finished.bits
                  => 0 \in from.leaks_related.bits
             /\ node[e.from].leaks_related.bits \subseteq from.leaks_related.bits
             /\ from.leaks_related.bits \subseteq
                  node[e.from].leaks_related.bits \cup node[e.to].leaks_related.bits
             /\ from.leak_size >= node[e.from].leak_size
             /\ from.leak_size >= node[e.to].leak_size
  <2>. DEFINE old == ReferrerNode(e, nodes)
  <2>1. /\ old \in Node /\ IsBitmaskSet(old.leaks_related)
        /\ old.leaks_related.size <= numberOfLeaks
        /\ old.leaks_related.size = IF e.from \in tagged THEN node[e.from].leaks_related.size
                                                       ELSE numberOfLeaks
        /\ old.leaks_related.bits = node[e.from].leaks_related.bits
        /\ old.refs = node[e.from].refs /\ old.leak_size = node[e.from].leak_size
        /\ old.reference_pointing_to_me = node[e.from].reference_pointing_to_me + 1
        /\ \A c \in Classes : old.fan_in[c] = IF e.from \in tagged THEN nodes[e.from].fan_in[c]
                                                                  ELSE node[e.from].fan_in[c]
    BY <1>2, <1>3, <1>5, ReferrerNodeFacts
  <2>2. \A c \in Classes : old.fan_in[c] = nodes[e.from].fan_in[c]
    BY <1>3, <1>5, <2>1
  <2>3. nodes[e.to] \in Node /\ IsBitmaskSet(nodes[e.to].leaks_related)
    BY <1>0, <1>2, <1>3, <1>4
  <2>. HIDE DEF old
  <2>4. LET n == Referrer(old, nodes[e.to])
        IN  /\ n \in Node /\ n.refs = old.refs /\ n.fan_in = old.fan_in
            /\ n.reference_pointing_to_me = old.reference_pointing_to_me
            /\ IsBitmaskSet(n.leaks_related)
            /\ n.leaks_related.size = old.leaks_related.size
            /\ old.leaks_related.bits \subseteq n.leaks_related.bits
            /\ n.leaks_related.bits \subseteq
                 old.leaks_related.bits \cup nodes[e.to].leaks_related.bits
            /\ 0 \in nodes[e.to].leaks_related.bits \ leaks_finished.bits
                 => 0 \in n.leaks_related.bits
            /\ n.leak_size >= old.leak_size /\ n.leak_size >= nodes[e.to].leak_size
    BY <1>0, <2>1, <2>3, ReferrerFacts
  <2>5. from = Referrer(old, nodes[e.to])
    BY DEF old
  <2>. HIDE DEF from
  <2>. QED BY <1>0, <1>3, <2>1, <2>2, <2>4, <2>5
<1>. HIDE DEF from
<1>6. /\ linked \in [Things -> Node]
      /\ \A x \in Things : linked[x] = IF x = e.from THEN from ELSE nodes[x]
  BY <1>0, <1>2, <1>5
<1>7. Recorded(e) = [linked EXCEPT ![e.to] = last]
  BY DEF Recorded, nodes, from
<1>. HIDE DEF linked
<1>8. linked[e.to] \in Node
  BY <1>0, <1>6
<1>9. /\ last \in Node /\ last.refs = linked[e.to].refs \cup {e}
      /\ last.fan_in = linked[e.to].fan_in
      /\ last.reference_pointing_to_me = linked[e.to].reference_pointing_to_me
      /\ last.leaks_related = linked[e.to].leaks_related
      /\ last.leak_size = linked[e.to].leak_size
  BY <1>8 DEF Node
<1>. HIDE DEF last
<1>10. /\ Recorded(e) \in [Things -> Node]
       /\ \A x \in Things : Recorded(e)[x] = IF x = e.to THEN last ELSE linked[x]
  BY <1>6, <1>7, <1>9
<1>11. ASSUME NEW x \in Things
       PROVE  /\ Recorded(e)[x].refs =
                   IF x = e.to THEN linked[x].refs \cup {e} ELSE linked[x].refs
              /\ Recorded(e)[x].fan_in = linked[x].fan_in
              /\ Recorded(e)[x].reference_pointing_to_me = linked[x].reference_pointing_to_me
              /\ Recorded(e)[x].leaks_related = linked[x].leaks_related
              /\ Recorded(e)[x].leak_size = linked[x].leak_size
  BY <1>9, <1>10
<1>12. ASSUME NEW x \in Things
       PROVE  linked[x].refs = node[x].refs /\ Inherited(x, e, linked[x])
  <2>1. CASE x = e.from
    BY <1>3, <1>5, <1>6, <2>1 DEF Inherited
  <2>2. CASE x # e.from
    <3>1. linked[x] = nodes[x] /\ node[x].leak_size >= node[x].leak_size
      BY <1>4, <1>6, <2>2
    <3>. QED BY <1>3, <1>4, <2>2, <3>1 DEF Inherited
  <2>. QED BY <2>1, <2>2
<1>13. ASSUME NEW x \in Things, x \notin {e.from, e.to} PROVE Recorded(e)[x] = node[x]
  BY <1>2, <1>6, <1>10, <1>13
<1>14. ASSUME NEW x \in Things
       PROVE  /\ Recorded(e)[x].refs = IF x = e.to THEN node[x].refs \cup {e} ELSE node[x].refs
              /\ Inherited(x, e, Recorded(e)[x])
  BY <1>11, <1>12 DEF Inherited
<1>. QED BY <1>10, <1>13, <1>14
-----------------------------------------------------------------------------
(***************************************************************************)
(* A reference is recorded.                                                *)
(***************************************************************************)
Recording(e) ==
  /\ e \in References /\ e.to \in tagged
  /\ ~bitMapSet_isEmpty(node[e.to].leaks_related)
  /\ HasClassTag(e) => ClassOf[e.from] \in ClassNodes
  /\ ~Dropped(e, Counted(e))
  /\ node' = Recorded(e)
  /\ tagged' = tagged \cup ({e.from} \ {HeapRoot})
  /\ leaks_finished' = IF isRootReference(e.kind)
                       THEN bitMapSet_addAll(leaks_finished, node'[e.to].leaks_related)
                       ELSE leaks_finished
  /\ progress' = progress \cup
       {i \in LeakNumbers : /\ bitMapSet_contains(node'[e.to].leaks_related, i)
                            /\ ~bitMapSet_contains(leaks_finished, i)}
  /\ setup' = setup

LEMMA RecordingFacts ==
  ASSUME NodeInv, NEW e, Recording(e)
  PROVE  /\ e.to \in Objects /\ e.to \in Things /\ e.from \in Things \cup {HeapRoot}
         /\ HeapRoot \notin Things
         /\ node' \in [Things -> Node]
         /\ \A x \in Things :
              /\ node'[x].refs = IF x = e.to THEN node[x].refs \cup {e} ELSE node[x].refs
              /\ Inherited(x, e, node'[x])
         /\ \A x \in Things : x \notin {e.from, e.to} => node'[x] = node[x]
         /\ AllRecorded' = AllRecorded \cup {e}
         /\ LeakNumbers' = LeakNumbers /\ LeakObjects' = LeakObjects /\ max_fan_in' = max_fan_in
         /\ numberOfLeaks' = numberOfLeaks
<1>1. /\ e.to \in Objects /\ e.to \in Things /\ e.from \in Things \cup {HeapRoot}
      /\ HeapRoot \notin Things
  BY ConstantsAssumption DEF Recording, Things
<1>2. /\ node' \in [Things -> Node]
      /\ \A x \in Things :
           /\ node'[x].refs = IF x = e.to THEN node[x].refs \cup {e} ELSE node[x].refs
           /\ Inherited(x, e, node'[x])
      /\ \A x \in Things : x \notin {e.from, e.to} => node'[x] = node[x]
  BY RecordedNodes DEF Recording
<1>3. AllRecorded' = AllRecorded \cup {e}
  <2>1. \A f : f \in AllRecorded <=> \E x \in Things : f \in node[x].refs
    BY DEF AllRecorded
  <2>2. \A f : f \in AllRecorded' <=> \E x \in Things : f \in node'[x].refs
    BY DEF AllRecorded
  <2>3. \A x \in Things : \A f : f \in node'[x].refs <=> f \in node[x].refs \/ (x = e.to /\ f = e)
    BY <1>2
  <2>. QED BY <1>1, <2>1, <2>2, <2>3
<1>4. setup' = setup
  BY DEF Recording
<1>. QED
  BY <1>1, <1>2, <1>3, <1>4 DEF LeakNumbers, LeakObjects, max_fan_in, numberOfLeaks

LEMMA RecordingKeepsTypes ==
  ASSUME NodeInv, NEW e, Recording(e)
  PROVE  SetupKnown' /\ NodeTypes' /\ SetTypes' /\ ListsAreSound'
<1>1. SetupKnown'
  BY DEF NodeInv, SetupKnown, Recording
<1>2. tagged' = tagged \cup ({e.from} \ {HeapRoot}) /\ e.to \in tagged
  BY DEF Recording
<1>3. Node' = Node
  BY RecordingFacts DEF Node
<1>4. NodeTypes'
  <2>1. tagged' \subseteq Things /\ (LeakObjects \cup ClassNodes \subseteq tagged)'
    BY <1>2, RecordingFacts DEF NodeInv, NodeTypes
  <2>2. node' \in [Things -> Node']
    BY <1>3, RecordingFacts
  <2>3. \A x \in Things \ tagged' : node'[x] = NoNode
    BY <1>2, RecordingFacts DEF NodeInv, NodeTypes
  <2>4. NoNode' = NoNode
    BY DEF NoNode, newMemoryNode
  <2>. QED BY <2>1, <2>2, <2>3, <2>4 DEF NodeTypes
<1>5. SetTypes'
  <2>1. \A x \in Things : /\ IsBitmaskSet(node'[x].leaks_related)
                          /\ node'[x].leaks_related.size <= numberOfLeaks'
    <3>. SUFFICES ASSUME NEW x \in Things
                  PROVE  /\ IsBitmaskSet(node'[x].leaks_related)
                         /\ node'[x].leaks_related.size <= numberOfLeaks'
      OBVIOUS
    <3>1. Inherited(x, e, node'[x]) /\ numberOfLeaks' = numberOfLeaks
      BY RecordingFacts
    <3>. QED BY <3>1 DEF Inherited
  <2>2. IsBitmaskSet(leaks_finished) /\ leaks_finished.size = numberOfLeaks'
    BY RecordingFacts DEF NodeInv, SetTypes
  <2>3. IsBitmaskSet(node'[e.to].leaks_related)
    BY <2>1, RecordingFacts
  <2>4. IsBitmaskSet(leaks_finished') /\ leaks_finished'.size = leaks_finished.size
    BY <2>2, <2>3, AddAllIsSet DEF Recording
  <2>. QED BY <2>1, <2>2, <2>4 DEF SetTypes
<1>6. ListsAreSound'
  <2>1. e.from \in tagged' \cup {HeapRoot}
    BY <1>2, RecordingFacts
  <2>2. ASSUME NEW x \in Things, NEW f \in node'[x].refs
        PROVE  f.to = x /\ f.from \in tagged' \cup {HeapRoot}
    <3>0. node'[x].refs = IF x = e.to THEN node[x].refs \cup {e} ELSE node[x].refs
      BY RecordingFacts
    <3>1. f \in node[x].refs \/ (x = e.to /\ f = e)
      BY <3>0
    <3>2. f \in node[x].refs => f.to = x /\ f.from \in tagged \cup {HeapRoot}
      BY DEF NodeInv, ListsAreSound
    <3>. QED BY <1>2, <2>1, <3>1, <3>2
  <2>. QED BY <2>2 DEF ListsAreSound
<1>. QED BY <1>1, <1>4, <1>5, <1>6

(* What is recorded was not recorded before: its referrer has a node, then, *)
(* and the callback looks it up.                                            *)
LEMMA RecordingIsNew ==
  ASSUME NodeInv, NEW e, Recording(e), e.from \in Things
  PROVE  e \notin AllRecorded
<1>1. SUFFICES ASSUME e \in AllRecorded PROVE FALSE
  OBVIOUS
<1>2. PICK x \in Things : e \in node[x].refs
  BY <1>1 DEF AllRecorded
<1>3. e.to = x /\ e.from \in tagged
  BY <1>2, RecordingFacts DEF NodeInv, ListsAreSound
<1>4. Counted(e).refs = node[e.to].refs
  BY RecordingFacts, CountedFacts DEF NodeInv
<1>. QED BY <1>2, <1>3, <1>4 DEF Recording, Dropped

LEMMA RecordingKeepsCounts ==
  ASSUME NodeInv, NEW e, Recording(e)
  PROVE  CountsOfNodes'
<1>1. ASSUME NEW x \in Things
      PROVE  /\ IsFiniteSet(From(x)')
             /\ node'[x].reference_pointing_to_me = Cardinality(From(x)') + Owned(x)'
  <2>1. /\ IsFiniteSet(From(x)) /\ Cardinality(From(x)) \in Nat /\ Owned(x) \in Nat
        /\ node[x].reference_pointing_to_me = Cardinality(From(x)) + Owned(x)
    BY FS_CardinalityType DEF NodeInv, CountsOfNodes, Owned
  <2>2. /\ From(x)' = IF e.from = x THEN From(x) \cup {e} ELSE From(x)
        /\ Owned(x)' = Owned(x)
    BY RecordingFacts DEF From, Owned
  <2>3. node'[x].reference_pointing_to_me =
          node[x].reference_pointing_to_me + IF x = e.from THEN 1 ELSE 0
    BY RecordingFacts DEF Inherited
  <2>4. e.from = x => e \notin From(x)
    BY RecordingIsNew DEF From
  <2>5. CASE e.from = x
    <3>1. /\ IsFiniteSet(From(x) \cup {e})
          /\ Cardinality(From(x) \cup {e}) = Cardinality(From(x)) + 1
      BY <2>1, <2>4, <2>5, FS_AddElement
    <3>. QED BY <2>1, <2>2, <2>3, <2>5, <3>1
  <2>6. CASE e.from # x
    BY <2>1, <2>2, <2>3, <2>6
  <2>. QED BY <2>5, <2>6
<1>. QED BY <1>1 DEF CountsOfNodes

(* A class has room for one more reference, and its count goes up with it.  *)
LEMMA RecordingKeepsFanIn ==
  ASSUME NodeInv, NEW e, Recording(e)
  PROVE  FanInCovers'
<1>1. ASSUME NEW x \in Things, NEW c \in ClassNodes
      PROVE  /\ IsFiniteSet(SameClass(x, c)')
             /\ Cardinality(SameClass(x, c)') <= node'[x].fan_in[c]
             /\ SameClass(x, c)' # {} => Cardinality(SameClass(x, c)') < max_fan_in'
  <2>1. /\ IsFiniteSet(SameClass(x, c)) /\ Cardinality(SameClass(x, c)) \in Nat
        /\ Cardinality(SameClass(x, c)) <= node[x].fan_in[c]
        /\ SameClass(x, c) # {} => Cardinality(SameClass(x, c)) < max_fan_in
        /\ node[x].fan_in[c] \in 0 .. max_fan_in /\ max_fan_in \in Nat /\ c \in Classes
    <3>1. node[x] \in Node /\ c \in Classes /\ max_fan_in \in Nat
      BY SetupFacts DEF NodeInv, NodeTypes, ClassNodes
    <3>2. node[x].fan_in[c] \in 0 .. max_fan_in
      BY <3>1 DEF Node
    <3>. QED BY <3>1, <3>2, FS_CardinalityType DEF NodeInv, FanInCovers
  <2>2. /\ node'[x].fan_in[c] = IF x = e.to THEN FanInAfter(e, c) ELSE node[x].fan_in[c]
        /\ max_fan_in' = max_fan_in
    <3>1. Inherited(x, e, node'[x]) /\ max_fan_in' = max_fan_in
      BY RecordingFacts
    <3>. QED BY <2>1, <3>1 DEF Inherited
  <2>3. CASE x = e.to /\ e.from \in Objects /\ ClassOf[e.from] = c
    <3>1. HasClassTag(e)
      BY <2>3 DEF HasClassTag, NodeInv, NodeTypes
    <3>2. FanInAfter(e, c) < max_fan_in
      <4>1. Counted(e).fan_in[c] = FanInAfter(e, c)
        BY <2>1, RecordingFacts, CountedFacts DEF NodeInv
      <4>2. /\ FanInAfter(e, c) = Smaller(node[e.to].fan_in[c] + 1, max_fan_in)
            /\ ~(Counted(e).fan_in[c] >= max_fan_in)
        BY <2>3, <3>1 DEF FanInAfter, Recording, Dropped
      <4>. QED BY <2>1, <2>3, <4>1, <4>2 DEF Smaller
    <3>3. FanInAfter(e, c) = node[x].fan_in[c] + 1
      BY <2>1, <2>3, <3>1, <3>2 DEF FanInAfter, Smaller
    <3>4. SameClass(x, c)' = SameClass(x, c) \cup {e}
      BY <2>3, RecordingFacts DEF SameClass
    <3>5. /\ IsFiniteSet(SameClass(x, c) \cup {e})
          /\ Cardinality(SameClass(x, c) \cup {e}) <= Cardinality(SameClass(x, c)) + 1
      <4>. DEFINE T == SameClass(x, c)
      <4>1. IsFiniteSet(T) /\ Cardinality(T) \in Nat
        BY <2>1
      <4>. HIDE DEF T
      <4>2. /\ IsFiniteSet(T \cup {e})
            /\ Cardinality(T \cup {e}) = IF e \in T THEN Cardinality(T) ELSE Cardinality(T) + 1
        BY <4>1, FS_AddElement
      <4>. QED BY <4>1, <4>2 DEF T
    <3>6. Cardinality(SameClass(x, c) \cup {e}) \in Nat
      BY <3>5, FS_CardinalityType
    <3>. QED BY <2>1, <2>2, <2>3, <3>2, <3>3, <3>4, <3>5, <3>6
  <2>4. CASE ~(x = e.to /\ e.from \in Objects /\ ClassOf[e.from] = c)
    <3>1. SameClass(x, c)' = SameClass(x, c)
      <4>1. node'[x].refs = IF x = e.to THEN node[x].refs \cup {e} ELSE node[x].refs
        BY RecordingFacts
      <4>. QED BY <2>4, <4>1 DEF SameClass
    <3>2. x = e.to => FanInAfter(e, c) = node[x].fan_in[c]
      BY <2>4 DEF FanInAfter, HasClassTag
    <3>. QED BY <2>1, <2>2, <3>1, <3>2
  <2>. QED BY <2>3, <2>4
<1>. QED BY <1>1 DEF FanInCovers

LEMMA RecordingKeepsSizes ==
  ASSUME NodeInv, NEW e, Recording(e)
  PROVE  SizesOfNodes'
<1>1. ASSUME NEW x \in Things, NEW i \in LeakNumbers, i \in node'[x].leaks_related.bits
      PROVE  node'[x].leak_size >= LeakSize[i]
  <2>1. /\ node'[x].leak_size \in Nat /\ node[x].leak_size \in Nat
        /\ node[e.to].leak_size \in Nat /\ LeakSize[i] \in Nat
    <3>1. node'[x] \in Node /\ node[x] \in Node /\ node[e.to] \in Node
      BY RecordingFacts DEF NodeInv, NodeTypes
    <3>. QED BY <3>1, SetupFacts DEF Node, NodeInv
  <2>2. Inherited(x, e, node'[x]) /\ e.to \in Things
    BY RecordingFacts
  <2>3. CASE i \in node[x].leaks_related.bits
    BY <2>1, <2>2, <2>3 DEF NodeInv, SizesOfNodes, Inherited
  <2>4. CASE x = e.from /\ i \in node[e.to].leaks_related.bits
    BY <2>1, <2>2, <2>4 DEF NodeInv, SizesOfNodes, Inherited
  <2>. QED BY <1>1, <2>2, <2>3, <2>4 DEF Inherited
<1>. QED BY <1>1, RecordingFacts DEF SizesOfNodes

(* Bits travel with the reference that is recorded.                         *)
LEMMA RecordingKeepsProvenance ==
  ASSUME NodeInv, NEW e, Recording(e)
  PROVE  LeakBitsHaveProvenance'
<1>1. ASSUME NEW i \in LeakNumbers, NEW S \in SUBSET Things,
             LeakObject[i] \in S,
             \A x \in S : \A f \in node'[x].refs :
               f.from \in Things /\ i \in node'[f.from].leaks_related.bits => f.from \in S,
             NEW x \in Things, i \in node'[x].leaks_related.bits
      PROVE  x \in S
  <2>1. \A y \in Things : /\ node[y].refs \subseteq node'[y].refs
                          /\ node[y].leaks_related.bits \subseteq node'[y].leaks_related.bits
    BY RecordingFacts DEF Inherited
  <2>2. \A y \in S : \A f \in node[y].refs :
          f.from \in Things /\ i \in node[f.from].leaks_related.bits => f.from \in S
    BY <1>1, <2>1
  <2>3. \A y \in Things : i \in node[y].leaks_related.bits => y \in S
    BY <1>1, <2>2 DEF NodeInv, LeakBitsHaveProvenance
  <2>4. CASE i \in node[x].leaks_related.bits
    BY <2>3, <2>4
  <2>5. CASE x = e.from /\ i \in node[e.to].leaks_related.bits
    <3>1. e.to \in S /\ e \in node'[e.to].refs
      BY <2>3, <2>5, RecordingFacts
    <3>. QED BY <1>1, <2>5, <3>1
  <2>. QED BY <1>1, <2>4, <2>5, RecordingFacts DEF Inherited
<1>. QED BY <1>1, RecordingFacts DEF LeakBitsHaveProvenance

LEMMA RecordingKeepsBits ==
  ASSUME NodeInv, NEW e, Recording(e)
  PROVE  BitsAreLeaks' /\ IsFiniteSet(AllRecorded')
<1>1. IsFiniteSet(AllRecorded')
  BY RecordingFacts, FS_AddElement DEF NodeInv
<1>2. /\ node[e.to].leaks_related.bits # {}
      /\ \A x \in Things : node[x].leaks_related.bits \subseteq LeakNumbers
  BY DEF Recording, bitMapSet_isEmpty, NodeInv, BitsAreLeaks
<1>3. ASSUME NEW x \in Things
      PROVE  /\ node'[x].leaks_related.bits \subseteq LeakNumbers
             /\ node'[x].refs # {} => node'[x].leaks_related.bits # {}
  <2>1. /\ node'[x].refs = IF x = e.to THEN node[x].refs \cup {e} ELSE node[x].refs
        /\ Inherited(x, e, node'[x]) /\ e.to \in Things
    BY RecordingFacts
  <2>2. node[x].refs # {} => node[x].leaks_related.bits # {}
    BY DEF NodeInv, BitsAreLeaks
  <2>. QED BY <1>2, <2>1, <2>2 DEF Inherited
<1>. QED BY <1>1, <1>3, RecordingFacts DEF BitsAreLeaks

LEMMA RecordingKeeps ==
  ASSUME NodeInv, NEW e, Recording(e)
  PROVE  NodeInv'
BY RecordingKeepsTypes, RecordingKeepsCounts, RecordingKeepsFanIn, RecordingKeepsSizes,
   RecordingKeepsProvenance, RecordingKeepsBits DEF NodeInv
-----------------------------------------------------------------------------
(***************************************************************************)
(* The other outcomes of the callback, and everything else.                *)
(***************************************************************************)

(* A referrer is counted, and dropped.                                      *)
LEMMA CountingKeeps ==
  ASSUME NodeInv, NEW e, e.to \in tagged,
         node' = [node EXCEPT ![e.to] = Counted(e)],
         UNCHANGED <<setup, tagged, leaks_finished>>
  PROVE  NodeInv'
<1>1. /\ e.to \in Things /\ node \in [Things -> Node]
      /\ SetupKnown /\ NodeTypes
  BY DEF NodeInv, NodeTypes
<1>2. /\ Counted(e) \in Node
      /\ Counted(e).leaks_related = node[e.to].leaks_related
      /\ Counted(e).refs = node[e.to].refs
      /\ Counted(e).reference_pointing_to_me = node[e.to].reference_pointing_to_me
      /\ Counted(e).leak_size = node[e.to].leak_size
      /\ \A c \in Classes : Counted(e).fan_in[c] = FanInAfter(e, c)
  BY <1>1, CountedFacts
<1>3. /\ node' \in [Things -> Node]
      /\ \A x \in Things : x # e.to => node'[x] = node[x]
      /\ \A x \in Things : /\ node'[x].leaks_related = node[x].leaks_related
                           /\ node'[x].refs = node[x].refs
                           /\ node'[x].leak_size = node[x].leak_size
                           /\ node'[x].reference_pointing_to_me = node[x].reference_pointing_to_me
                           /\ \A c \in Classes : node'[x].fan_in[c] =
                                IF x = e.to THEN FanInAfter(e, c) ELSE node[x].fan_in[c]
  BY <1>1, <1>2
<1>4. /\ LeakNumbers' = LeakNumbers /\ LeakObjects' = LeakObjects /\ max_fan_in' = max_fan_in
      /\ numberOfLeaks' = numberOfLeaks /\ Node' = Node /\ NoNode' = NoNode
  BY DEF LeakNumbers, LeakObjects, max_fan_in, numberOfLeaks, Node, NoNode, newMemoryNode
<1>5. SetupKnown' /\ NodeTypes'
  BY <1>1, <1>3, <1>4 DEF SetupKnown, NodeTypes
<1>6. SetTypes' /\ ListsAreSound' /\ SizesOfNodes'
  BY <1>3, <1>4 DEF NodeInv, SetTypes, ListsAreSound, SizesOfNodes
<1>7. CountsOfNodes' /\ BitsAreLeaks' /\ IsFiniteSet(AllRecorded')
  <2>1. \A f : f \in AllRecorded <=> \E x \in Things : f \in node[x].refs
    BY DEF AllRecorded
  <2>2. \A f : f \in AllRecorded' <=> \E x \in Things : f \in node'[x].refs
    BY DEF AllRecorded
  <2>3. AllRecorded' = AllRecorded
    BY <1>3, <2>1, <2>2
  <2>4. ASSUME NEW x \in Things PROVE From(x)' = From(x) /\ Owned(x)' = Owned(x)
    BY <1>4, <2>3 DEF From, Owned
  <2>. QED BY <1>3, <1>4, <2>3, <2>4 DEF NodeInv, CountsOfNodes, BitsAreLeaks
<1>8. FanInCovers'
  <2>1. ASSUME NEW x \in Things, NEW c \in ClassNodes
        PROVE  SameClass(x, c)' = SameClass(x, c) /\ node'[x].fan_in[c] >= node[x].fan_in[c]
    <3>1. SameClass(x, c)' = SameClass(x, c)
      BY <1>3 DEF SameClass
    <3>2. c \in Classes /\ max_fan_in \in Nat /\ node[x] \in Node
      BY <1>1, SetupFacts DEF ClassNodes
    <3>3. node[x].fan_in[c] \in 0 .. max_fan_in
      BY <3>2 DEF Node
    <3>4. node'[x].fan_in[c] = IF x = e.to THEN FanInAfter(e, c) ELSE node[x].fan_in[c]
      BY <1>3, <3>2
    <3>. QED BY <3>1, <3>2, <3>3, <3>4 DEF FanInAfter, Smaller
  <2>2. ASSUME NEW x \in Things, NEW c \in ClassNodes
        PROVE  /\ IsFiniteSet(SameClass(x, c)')
               /\ Cardinality(SameClass(x, c)') <= node'[x].fan_in[c]
               /\ SameClass(x, c)' # {} => Cardinality(SameClass(x, c)') < max_fan_in'
    <3>1. /\ IsFiniteSet(SameClass(x, c)) /\ Cardinality(SameClass(x, c)) \in Nat
          /\ Cardinality(SameClass(x, c)) <= node[x].fan_in[c]
          /\ SameClass(x, c) # {} => Cardinality(SameClass(x, c)) < max_fan_in
      BY FS_CardinalityType DEF NodeInv, FanInCovers
    <3>2. node[x].fan_in[c] \in Int /\ node'[x].fan_in[c] \in Int
      <4>1. node[x] \in Node /\ node'[x] \in Node /\ c \in Classes
        BY <1>1, <1>3 DEF ClassNodes
      <4>. QED BY <4>1 DEF Node
    <3>. QED BY <1>4, <2>1, <3>1, <3>2
  <2>. QED BY <2>2 DEF FanInCovers
<1>9. LeakBitsHaveProvenance'
  <2>1. ASSUME NEW i \in LeakNumbers, NEW S \in SUBSET Things,
               LeakObject[i] \in S,
               \A x \in S : \A f \in node'[x].refs :
                 f.from \in Things /\ i \in node'[f.from].leaks_related.bits => f.from \in S,
               NEW x \in Things, i \in node'[x].leaks_related.bits
        PROVE  x \in S
    <3>1. \A y \in S : \A f \in node[y].refs :
            f.from \in Things /\ i \in node[f.from].leaks_related.bits => f.from \in S
      BY <1>3, <2>1
    <3>. QED BY <1>3, <2>1, <3>1 DEF NodeInv, LeakBitsHaveProvenance
  <2>. QED BY <1>4, <2>1 DEF LeakBitsHaveProvenance
<1>. QED BY <1>5, <1>6, <1>7, <1>8, <1>9 DEF NodeInv

LEMMA FrameKeeps ==
  ASSUME NodeInv, UNCHANGED <<setup, tagged, node, leaks_finished>>
  PROVE  NodeInv'
<1>1. /\ LeakNumbers' = LeakNumbers /\ LeakObjects' = LeakObjects /\ max_fan_in' = max_fan_in
      /\ numberOfLeaks' = numberOfLeaks /\ Node' = Node /\ NoNode' = NoNode
      /\ AllRecorded' = AllRecorded
  BY DEF LeakNumbers, LeakObjects, max_fan_in, numberOfLeaks, Node, NoNode, newMemoryNode,
         AllRecorded
<1>2. SetupKnown' /\ NodeTypes' /\ SetTypes' /\ ListsAreSound'
  BY <1>1 DEF NodeInv, SetupKnown, NodeTypes, SetTypes, ListsAreSound
<1>3. /\ CountsOfNodes' /\ FanInCovers' /\ SizesOfNodes' /\ LeakBitsHaveProvenance'
      /\ BitsAreLeaks' /\ IsFiniteSet(AllRecorded')
  BY <1>1 DEF NodeInv, CountsOfNodes, From, Owned, FanInCovers, SameClass, SizesOfNodes,
              LeakBitsHaveProvenance, BitsAreLeaks
<1>. QED BY <1>2, <1>3 DEF NodeInv

(* The JVM reports a reference: nothing happens, a class is counted, or the *)
(* reference is recorded.                                                   *)
Ignoring(e) ==
  /\ UNCHANGED <<tagged, node, leaks_finished, progress>>
  /\ pc' = "fatal" \/ ~Delivered(e) \/ NotFollowed(e)

Counting(e) ==
  /\ e.to \in tagged /\ ~NotFollowed(e) /\ Dropped(e, Counted(e))
  /\ node' = [node EXCEPT ![e.to] = Counted(e)]
  /\ UNCHANGED <<tagged, leaks_finished, progress>>

LEMMA ReportOutcomes ==
  ASSUME IInv, NEW e \in pending, Report(e)
  PROVE  /\ e.to \in Objects
         /\ Ignoring(e) \/ Counting(e) \/ Recording(e)
<1>0. NodeInv /\ WalkTypes /\ setup' = setup
  BY DEF IInv, Report
<1>1. e.to \in Objects
  <2>1. e \in References \cup OwnHandles
    BY <1>0 DEF WalkTypes
  <2>2. CASE e \in References
    BY <2>2, ConstantsAssumption
  <2>3. CASE e \in OwnHandles
    BY <1>0, <2>3, SetupFacts DEF OwnHandles, NodeInv
  <2>. QED BY <2>1, <2>2, <2>3
<1>2. CASE Delivered(e) /\ cbObjectTagReferrer(e) /\ ~Ignoring(e)
  <2>0. ~NotFollowed(e) /\ e.to \in tagged
    BY <1>2 DEF cbObjectTagReferrer, agentVars, Ignoring, Delivered
  <2>1. CASE Dropped(e, Counted(e)) /\ node' = [node EXCEPT ![e.to] = Counted(e)]
             /\ UNCHANGED <<tagged, leaks_finished, progress>>
    BY <1>1, <2>0, <2>1 DEF Counting
  <2>2. CASE /\ ~Dropped(e, Counted(e)) /\ node' = Recorded(e)
             /\ tagged' = tagged \cup ({e.from} \ {HeapRoot})
             /\ progress' = progress \cup
                  {i \in LeakNumbers : /\ bitMapSet_contains(node'[e.to].leaks_related, i)
                                       /\ ~bitMapSet_contains(leaks_finished, i)}
             /\ leaks_finished' = IF isRootReference(e.kind)
                                  THEN bitMapSet_addAll(leaks_finished, node'[e.to].leaks_related)
                                  ELSE leaks_finished
    <3>1. e \in References
      <4>1. e \notin OwnHandles
        BY <2>0 DEF NotFollowed, localReferenceOfThisThread, OwnHandles, LocalKinds
      <4>. QED BY <1>0, <4>1 DEF WalkTypes
    <3>2. HasClassTag(e) => ClassOf[e.from] \in ClassNodes
      BY <1>2, <2>0 DEF cbObjectTagReferrer, Ignoring, agentVars
    <3>3. ~bitMapSet_isEmpty(node[e.to].leaks_related)
      BY <2>0 DEF NotFollowed
    <3>4. Recording(e)
      BY <1>0, <2>0, <2>2, <3>1, <3>2, <3>3 DEF Recording
    <3>. QED BY <1>1, <3>4
  <2>. QED BY <1>2, <2>0, <2>1, <2>2 DEF cbObjectTagReferrer, agentVars, Ignoring
<1>3. CASE ~Delivered(e) /\ UNCHANGED <<agentVars, pc>>
  BY <1>1, <1>3 DEF agentVars, Ignoring
<1>. QED BY <1>1, <1>2, <1>3 DEF Report

LEMMA ReportKeeps ==
  ASSUME IInv, NEW e \in pending, Report(e)
  PROVE  IInv'
<1>0. /\ NodeInv /\ WalkTypes /\ setup' = setup
      /\ LeakNumbers' = LeakNumbers /\ OwnHandles' = OwnHandles
      /\ reference_chain_length' = reference_chain_length
  BY DEF IInv, Report, LeakNumbers, numberOfLeaks, OwnHandles, LeakObjects,
         reference_chain_length
<1>1. /\ progress' \subseteq LeakNumbers /\ iteration' = iteration /\ pc' # "loop"
      /\ pc' \in {"follow", "fatal"}
  BY <1>0 DEF Report, cbObjectTagReferrer, agentVars, WalkTypes
<1>2. WalkTypes'
  BY <1>0, <1>1, ReportOutcomes DEF Report, WalkTypes
<1>3. NodeInv'
  BY <1>0, ReportOutcomes, FrameKeeps, CountingKeeps, RecordingKeeps DEF Ignoring, Counting
<1>. QED BY <1>2, <1>3 DEF IInv

LEMMA NextIInv == IInv /\ [Next]_vars => IInv'
<1>. SUFFICES ASSUME IInv, [Next]_vars PROVE IInv'
  OBVIOUS
<1>0. NodeInv /\ WalkTypes /\ reference_chain_length \in Nat
  BY SetupFacts DEF IInv, NodeInv
<1>1. ASSUME UNCHANGED <<setup, tagged, node, leaks_finished>>, WalkTypes' PROVE IInv'
  BY <1>0, <1>1, FrameKeeps DEF IInv
<1>2. CASE StartWalk
  <2>1. /\ setup' = setup /\ LeakNumbers' = LeakNumbers /\ OwnHandles' = OwnHandles
        /\ reference_chain_length' = reference_chain_length
    BY <1>2 DEF StartWalk, LeakNumbers, numberOfLeaks, OwnHandles, LeakObjects,
                reference_chain_length
  <2>2. WalkTypes'
    BY <1>0, <1>2, <2>1 DEF StartWalk, WalkTypes
  <2>. QED BY <1>1, <1>2, <2>2 DEF StartWalk
<1>3. CASE EndWalk
  <2>1. /\ setup' = setup /\ LeakNumbers' = LeakNumbers /\ OwnHandles' = OwnHandles
        /\ reference_chain_length' = reference_chain_length
    BY <1>3 DEF EndWalk, LeakNumbers, numberOfLeaks, OwnHandles, LeakObjects,
                reference_chain_length
  <2>2. WalkTypes'
    BY <1>0, <1>3, <2>1 DEF EndWalk, WalkTypes, agentVars
  <2>. QED BY <1>1, <1>3, <2>2 DEF EndWalk, agentVars
<1>4. CASE \E e \in setup.changeable : Mutate(e)
  <2>1. PICK e \in setup.changeable : Mutate(e)
    BY <1>4
  <2>2. e \in References /\ MaxMutations \in Nat
    BY <1>0, SetupFacts, ConstantsAssumption DEF NodeInv
  <2>3. /\ setup' = setup /\ LeakNumbers' = LeakNumbers /\ OwnHandles' = OwnHandles
        /\ reference_chain_length' = reference_chain_length
    BY <2>1 DEF Mutate, LeakNumbers, numberOfLeaks, OwnHandles, LeakObjects,
                reference_chain_length
  <2>4. WalkTypes'
    BY <1>0, <2>1, <2>2, <2>3 DEF Mutate, WalkTypes, agentVars
  <2>. QED BY <1>1, <2>1, <2>4 DEF Mutate, agentVars
<1>5. CASE UNCHANGED vars
  <2>1. /\ setup' = setup /\ LeakNumbers' = LeakNumbers /\ OwnHandles' = OwnHandles
        /\ reference_chain_length' = reference_chain_length
    BY <1>5 DEF vars, LeakNumbers, numberOfLeaks, OwnHandles, LeakObjects,
                reference_chain_length
  <2>2. WalkTypes'
    BY <1>0, <1>5, <2>1 DEF vars, WalkTypes, agentVars
  <2>. QED BY <1>1, <1>5, <2>2 DEF vars, agentVars
<1>. QED BY <1>2, <1>3, <1>4, <1>5, ReportKeeps DEF Next, Dump

LEMMA AlwaysIInv == Spec => []IInv
BY InitIInv, NextIInv, PTL DEF Spec
-----------------------------------------------------------------------------
(* Types of the walks, sets of bits within their arrays included.           *)
THEOREM TaggingTypeCorrect == Spec => []TypeOK
<1>1. IInv => TypeOK
  BY DEF IInv, NodeInv, NodeTypes, SetTypes, WalkTypes, TypeOK
<1>. QED BY <1>1, AlwaysIInv, PTL

(* The counter that decides when freeMemoryNode frees a node is exact after *)
(* every callback: what NodeRelease starts from.                            *)
THEOREM CountsAreExact == Spec => []ReferenceCountsAreExact
<1>1. IInv => ReferenceCountsAreExact
  BY DEF IInv, NodeInv, NodeTypes, CountsOfNodes, From, Owned, ReferenceCountsAreExact
<1>. QED BY <1>1, AlwaysIInv, PTL

(* A node never keeps max_fan_in references from instances of one class,    *)
(* over all walks.                                                          *)
THEOREM FanInStaysBounded == Spec => []FanInIsBounded
<1>1. IInv => FanInIsBounded
  BY DEF IInv, NodeInv, NodeTypes, FanInCovers, SameClass, FanInIsBounded
<1>. QED BY <1>1, AlwaysIInv, PTL

(* The size that ignored fields are compared with covers every leak of a    *)
(* node.                                                                    *)
THEOREM SizesCoverLeaks == Spec => []SizeCoversLeaks
<1>1. IInv => SizeCoversLeaks
  BY DEF IInv, NodeInv, NodeTypes, SizesOfNodes, SizeCoversLeaks, HasLeak, bitMapSet_contains
<1>. QED BY <1>1, AlwaysIInv, PTL

(* A bit that says a node leads to a leak came to it along references that  *)
(* are recorded.                                                            *)
THEOREM BitsHaveProvenance == Spec => []LeakBitsHaveProvenance
<1>1. IInv => LeakBitsHaveProvenance
  BY DEF IInv, NodeInv
<1>. QED BY <1>1, AlwaysIInv, PTL

(* The comparison of leaks_finished with a node reads no byte beyond either *)
(* array, in spite of the macro.                                            *)
THEOREM ComparisonsInBounds == Spec => []ComparisonsStayInBounds
<1>1. IInv => ComparisonsStayInBounds
  <2>1. SUFFICES ASSUME IInv, NEW x \in Things
                 PROVE  ContainsAllInBounds(leaks_finished, node[x].leaks_related)
    BY DEF IInv, NodeInv, NodeTypes, ComparisonsStayInBounds
  <2>. DEFINE m == node[x].leaks_related.size
              n == leaks_finished.size
  <2>2. m \in Nat /\ n \in Nat /\ m <= n
    BY <2>1 DEF IInv, NodeInv, SetTypes, IsBitmaskSet
  <2>3. SIZE_IN_BYTES(m) \in Nat
    BY <2>2, ByteBitsAssumption DEF SIZE_IN_BYTES
  <2>4. /\ ContainsAllBytes(leaks_finished, node[x].leaks_related) = SIZE_IN_BYTES(m)
        /\ Smaller(n, m) = m
    BY <2>2 DEF ContainsAllBytes, Smaller
  <2>. QED BY <2>3, <2>4 DEF ContainsAllInBounds
<1>. QED BY <1>1, AlwaysIInv, PTL

-----------------------------------------------------------------------------
(***************************************************************************)
(* A finished leak: a root refers to a node that has the leak's bit.  That *)
(* stays so, since no node loses a reference or a bit.                     *)
(***************************************************************************)
RootMet(i) ==
  \E x \in Things : /\ i \in node[x].leaks_related.bits
                    /\ \E e \in node[x].refs : isRootReference(e.kind)

FinishInv ==
  /\ IInv
  /\ \A i \in leaks_finished.bits : RootMet(i)
  /\ \A i \in LeakNumbers : i \in node[LeakObject[i]].leaks_related.bits

LEMMA InitFinish == Init => FinishInv
<1>. SUFFICES ASSUME Init PROVE FinishInv
  OBVIOUS
<1>1. SetupKnown /\ \A i \in LeakNumbers : i \in node[LeakObject[i]].leaks_related.bits
  BY InitNodes
<1>2. leaks_finished.bits = {}
  BY <1>1, SetupFacts, NewIsSet DEF Init
<1>. QED BY <1>1, <1>2, InitIInv DEF FinishInv

(* No node loses anything, and finished leaks are found at a root.          *)
NothingLost ==
  /\ setup' = setup
  /\ \A x \in Things : /\ node[x].refs \subseteq node'[x].refs
                       /\ node[x].leaks_related.bits \subseteq node'[x].leaks_related.bits
  /\ \/ leaks_finished' = leaks_finished
     \/ \E x \in Things :
          /\ leaks_finished'.bits \subseteq leaks_finished.bits \cup node'[x].leaks_related.bits
          /\ \E e \in node'[x].refs : isRootReference(e.kind)

LEMMA ReportLosesNothing ==
  ASSUME IInv, NEW e \in pending, Report(e)
  PROVE  NothingLost
<1>0. NodeInv /\ setup' = setup
  BY DEF IInv, Report
<1>1. CASE Ignoring(e)
  BY <1>0, <1>1 DEF NothingLost, Ignoring
<1>2. CASE Counting(e)
  <2>1. /\ SetupKnown /\ NodeTypes /\ e.to \in Things /\ node \in [Things -> Node]
    BY <1>0, <1>2 DEF NodeInv, NodeTypes, Counting
  <2>2. /\ Counted(e).leaks_related = node[e.to].leaks_related
        /\ Counted(e).refs = node[e.to].refs
    BY <2>1, CountedFacts
  <2>3. ASSUME NEW x \in Things
        PROVE  /\ node'[x].leaks_related = node[x].leaks_related
               /\ node'[x].refs = node[x].refs
    BY <1>2, <2>1, <2>2 DEF Counting
  <2>. QED BY <1>0, <1>2, <2>3 DEF NothingLost, Counting
<1>3. CASE Recording(e)
  <2>1. /\ e.to \in Things /\ e \in node'[e.to].refs
        /\ \A x \in Things : /\ node[x].refs \subseteq node'[x].refs
                             /\ node[x].leaks_related.bits \subseteq node'[x].leaks_related.bits
                             /\ IsBitmaskSet(node'[x].leaks_related)
    BY <1>0, <1>3, RecordingFacts DEF Inherited
  <2>2. IsBitmaskSet(leaks_finished)
    BY <1>0 DEF NodeInv, SetTypes
  <2>3. CASE /\ isRootReference(e.kind)
             /\ leaks_finished' = bitMapSet_addAll(leaks_finished, node'[e.to].leaks_related)
    <3>1. leaks_finished'.bits \subseteq leaks_finished.bits \cup node'[e.to].leaks_related.bits
      BY <2>1, <2>2, <2>3, AddAllIsSet
    <3>. QED BY <1>0, <2>1, <2>3, <3>1 DEF NothingLost
  <2>4. CASE leaks_finished' = leaks_finished
    BY <1>0, <2>1, <2>4 DEF NothingLost
  <2>. QED BY <1>3, <2>3, <2>4 DEF Recording
<1>. QED BY <1>1, <1>2, <1>3, ReportOutcomes

LEMMA NextFinish == FinishInv /\ [Next]_vars => FinishInv'
<1>. SUFFICES ASSUME FinishInv, [Next]_vars PROVE FinishInv'
  OBVIOUS
<1>1. IInv'
  BY NextIInv DEF FinishInv
<1>2. NothingLost
  <2>1. CASE UNCHANGED <<setup, node, leaks_finished>>
    BY <2>1 DEF NothingLost
  <2>2. CASE \E e \in pending : Report(e)
    BY <2>2, ReportLosesNothing DEF FinishInv
  <2>. QED BY <2>1, <2>2 DEF Next, Dump, StartWalk, EndWalk, Mutate, vars, agentVars
<1>3. LeakNumbers' = LeakNumbers
  BY <1>2 DEF NothingLost, LeakNumbers, numberOfLeaks
<1>4. \A i \in LeakNumbers : LeakObject[i] \in Things
  BY SetupFacts DEF FinishInv, IInv, NodeInv, Things
<1>5. \A i \in LeakNumbers : i \in node'[LeakObject[i]].leaks_related.bits
  BY <1>2, <1>4 DEF FinishInv, NothingLost
<1>6. ASSUME NEW i, RootMet(i) PROVE RootMet(i)'
  BY <1>2, <1>6 DEF NothingLost, RootMet
<1>7. ASSUME NEW i \in leaks_finished'.bits PROVE RootMet(i)'
  <2>1. CASE i \in leaks_finished.bits
    BY <1>6, <2>1 DEF FinishInv
  <2>2. CASE i \notin leaks_finished.bits
    BY <1>2, <1>7, <2>2 DEF NothingLost, RootMet
  <2>. QED BY <2>1, <2>2
<1>. QED BY <1>1, <1>3, <1>5, <1>7 DEF FinishInv

(* No node has a bit beyond the size of its set: no leak holds a later one. *)
NoSpareBits ==
  \A x \in Things : \A i \in node[x].leaks_related.bits : i < node[x].leaks_related.size

LEMMA RootMetIsFindable ==
  ASSUME consider_local_references, FinishInv, NoSpareBits,
         NEW i \in LeakNumbers, RootMet(i)
  PROVE  Findable(i)
<1>1. SUFFICES ASSUME NEW S \in SUBSET Objects, LeakObject[i] \in S,
                      \A x \in S : \A e \in node[x].refs :
                        (/\ e.from \in Objects /\ HasLeak(e.from, i)
                         /\ shouldConsiderThisReference(e.kind) /\ ~isRootReference(e.kind))
                        => e.from \in S,
                      ~ \E x \in S : HasLeak(x, i) /\ \E e \in node[x].refs :
                          shouldConsiderThisReference(e.kind) /\ isRootReference(e.kind)
               PROVE  FALSE
  BY DEF Findable
<1>2. \A kind : shouldConsiderThisReference(kind)
  BY DEF shouldConsiderThisReference
<1>3. \A x \in Things : i \in node[x].leaks_related.bits => HasLeak(x, i)
  BY DEF NoSpareBits, HasLeak, bitMapSet_contains
<1>4. \A x \in Classes : node[x].refs = {}
  <2>. SUFFICES ASSUME NEW x \in Classes, NEW e \in node[x].refs PROVE FALSE
    OBVIOUS
  <2>1. x \in Things /\ x \notin Objects /\ node[x] \in Node
    BY ConstantsAssumption DEF FinishInv, IInv, NodeInv, NodeTypes, Things
  <2>2. e.to = x /\ e \in References
    BY <2>1 DEF FinishInv, IInv, NodeInv, ListsAreSound, Node
  <2>. QED BY <2>1, <2>2, ConstantsAssumption
<1>. DEFINE T == {x \in S : i \in node[x].leaks_related.bits} \cup Classes
<1>5. T \in SUBSET Things /\ LeakObject[i] \in T
  BY <1>1 DEF FinishInv, Things
<1>6. ASSUME NEW x \in T, NEW e \in node[x].refs,
             e.from \in Things, i \in node[e.from].leaks_related.bits
      PROVE  e.from \in T
  <2>1. x \in S /\ HasLeak(x, i)
    BY <1>3, <1>4, <1>5, <1>6
  <2>2. ~isRootReference(e.kind)
    BY <1>1, <1>2, <1>6, <2>1
  <2>. QED BY <1>1, <1>2, <1>3, <1>6, <2>1, <2>2 DEF Things
<1>7. \A x \in Things : i \in node[x].leaks_related.bits => x \in T
  BY <1>5, <1>6 DEF FinishInv, IInv, NodeInv, LeakBitsHaveProvenance
<1>8. PICK x \in Things : /\ i \in node[x].leaks_related.bits
                          /\ \E e \in node[x].refs : isRootReference(e.kind)
  BY DEF RootMet
<1>9. x \in S /\ HasLeak(x, i)
  BY <1>3, <1>4, <1>7, <1>8
<1>. QED BY <1>1, <1>2, <1>8, <1>9

(* A leak for which the walks stop looking has a chain in the nodes, for    *)
(* leaks that hold no later one, when local references are considered.      *)
THEOREM FinishedLeaksAreFindable ==
  ASSUME consider_local_references
  PROVE  Spec => [](NoSpareBits => FinishedIsFindable)
<1>1. FinishInv => (NoSpareBits => FinishedIsFindable)
  <2>1. SUFFICES ASSUME FinishInv, NoSpareBits, NEW i \in LeakNumbers, Finished(i)
                 PROVE  Findable(i)
    BY DEF FinishedIsFindable
  <2>2. RootMet(i)
    BY <2>1 DEF Finished, bitMapSet_contains, FinishInv
  <2>. QED BY <2>1, <2>2, RootMetIsFindable
<1>. QED BY <1>1, InitFinish, NextFinish, PTL DEF Spec

(***************************************************************************)
(* The walks leave what the release starts from: finitely many references, *)
(* none in the nodes of classes, and a node that has some can be reached   *)
(* from the nodes of the leaks, which are those that are released first.   *)
(***************************************************************************)
FitForRelease ==
  /\ IsFiniteSet(AllRecorded)
  /\ \A x \in Classes : node[x].refs = {}
  /\ \A S \in SUBSET Things :
       (/\ LeakObjects \subseteq S
        /\ \A x \in S : \A e \in node[x].refs : e.from \in Things => e.from \in S)
       => \A x \in Things \ S : node[x].refs = {}

(* What NodeRelease assumes of the graphs that it is given.                 *)
THEOREM NodesAreFitForRelease == Spec => []FitForRelease
<1>1. IInv => FitForRelease
  <2>1. SUFFICES ASSUME NodeInv PROVE FitForRelease
    BY DEF IInv
  <2>2. ASSUME NEW x \in Classes PROVE node[x].refs = {}
    <3>1. x \in Things /\ x \notin Objects /\ node[x] \in Node
      BY <2>1, ConstantsAssumption DEF NodeInv, NodeTypes, Things
    <3>2. ASSUME NEW e \in node[x].refs PROVE FALSE
      <4>1. e.to = x /\ e \in References
        BY <2>1, <3>1 DEF NodeInv, ListsAreSound, Node
      <4>. QED BY <3>1, <4>1, ConstantsAssumption
    <3>. QED BY <3>2
  <2>3. ASSUME NEW S \in SUBSET Things, LeakObjects \subseteq S,
               \A x \in S : \A e \in node[x].refs : e.from \in Things => e.from \in S,
               NEW x \in Things \ S
        PROVE  node[x].refs = {}
    <3>1. ASSUME NEW i \in LeakNumbers, i \in node[x].leaks_related.bits PROVE FALSE
      BY <2>1, <2>3, <3>1 DEF NodeInv, LeakBitsHaveProvenance, LeakObjects
    <3>. QED BY <2>1, <3>1 DEF NodeInv, BitsAreLeaks
  <2>. QED BY <2>1, <2>2, <2>3 DEF FitForRelease, NodeInv
<1>. QED BY <1>1, AlwaysIInv, PTL
-----------------------------------------------------------------------------
(***************************************************************************)
(* What one report changes: the walks only add.                            *)
(***************************************************************************)
Grows ==
  /\ UNCHANGED <<setup, heap, mutations, iteration>>
  /\ tagged \subseteq tagged' /\ progress \subseteq progress'
  /\ leaks_finished.bits \subseteq leaks_finished'.bits
  /\ leaks_finished'.size = leaks_finished.size
  /\ \A x \in Things :
       /\ node[x].refs \subseteq node'[x].refs
       /\ node[x].leaks_related.bits \subseteq node'[x].leaks_related.bits
       /\ x \in tagged => node'[x].leaks_related.size = node[x].leaks_related.size
       /\ x \in tagged' \ tagged => node'[x].leaks_related.size = numberOfLeaks

LEMMA ReportGrows ==
  ASSUME IInv, NEW e \in pending, Report(e)
  PROVE  Grows
<1>0. /\ NodeInv /\ UNCHANGED <<setup, heap, mutations, iteration>>
      /\ IsBitmaskSet(leaks_finished)
  BY DEF IInv, Report, cbObjectTagReferrer, agentVars, NodeInv, SetTypes
<1>1. CASE Ignoring(e)
  BY <1>0, <1>1 DEF Ignoring, Grows
<1>2. CASE Counting(e)
  <2>1. SetupKnown /\ NodeTypes /\ e.to \in Things /\ node \in [Things -> Node]
    BY <1>0, <1>2 DEF NodeInv, NodeTypes, Counting
  <2>2. /\ Counted(e).leaks_related = node[e.to].leaks_related
        /\ Counted(e).refs = node[e.to].refs
    BY <2>1, CountedFacts
  <2>3. ASSUME NEW x \in Things
        PROVE  /\ node'[x].leaks_related = node[x].leaks_related
               /\ node'[x].refs = node[x].refs
    BY <1>2, <2>1, <2>2 DEF Counting
  <2>. QED BY <1>0, <1>2, <2>3 DEF Grows, Counting
<1>3. CASE Recording(e)
  <2>1. /\ e.to \in Things /\ e.from \in Things \cup {HeapRoot} /\ HeapRoot \notin Things
        /\ tagged' = tagged \cup ({e.from} \ {HeapRoot})
    BY <1>0, <1>3, RecordingFacts DEF Recording
  <2>2. ASSUME NEW x \in Things
        PROVE  /\ node[x].refs \subseteq node'[x].refs
               /\ node[x].leaks_related.bits \subseteq node'[x].leaks_related.bits
               /\ IsBitmaskSet(node'[x].leaks_related)
               /\ node'[x].leaks_related.size = IF x \in {e.from} \ tagged THEN numberOfLeaks
                                                ELSE node[x].leaks_related.size
    <3>1. /\ node'[x].refs = IF x = e.to THEN node[x].refs \cup {e} ELSE node[x].refs
          /\ Inherited(x, e, node'[x])
      BY <1>0, <1>3, RecordingFacts
    <3>. QED BY <3>1 DEF Inherited
  <2>3. /\ leaks_finished.bits \subseteq leaks_finished'.bits
        /\ leaks_finished'.size = leaks_finished.size
    <3>1. CASE isRootReference(e.kind)
      <4>1. leaks_finished' = bitMapSet_addAll(leaks_finished, node'[e.to].leaks_related)
        BY <1>3, <3>1 DEF Recording
      <4>. QED BY <1>0, <2>1, <2>2, <4>1, AddAllIsSet
    <3>2. CASE ~isRootReference(e.kind)
      BY <1>3, <3>2 DEF Recording
    <3>. QED BY <3>1, <3>2
  <2>4. progress \subseteq progress'
    BY <1>3 DEF Recording
  <2>. QED BY <1>0, <2>1, <2>2, <2>3, <2>4 DEF Grows
<1>. QED BY <1>1, <1>2, <1>3, ReportOutcomes

LEMMA GrowsKeepsSetup ==
  ASSUME Grows
  PROVE  /\ numberOfLeaks' = numberOfLeaks /\ max_fan_in' = max_fan_in
         /\ reference_chain_length' = reference_chain_length
         /\ LeakNumbers' = LeakNumbers /\ LeakObjects' = LeakObjects /\ OwnHandles' = OwnHandles
BY DEF Grows, numberOfLeaks, max_fan_in, reference_chain_length, LeakNumbers, LeakObjects,
       OwnHandles

-----------------------------------------------------------------------------
(***************************************************************************)
(* What a walk meets: the heap stays as it is, and what was reported is    *)
(* met.  (No set of leaks is for none of them.)                            *)
(***************************************************************************)
MetInv ==
  /\ FinishInv
  /\ IsFiniteSet(heap)
  /\ \A x \in tagged : node[x].leaks_related.size > 0
  /\ pc = "follow" =>
       /\ pending \subseteq heap \cup OwnHandles /\ iteration > 0
       /\ \A e \in (heap \cup OwnHandles) \ pending : e.to \in reached

LEMMA InitMet == Init => MetInv
<1>. SUFFICES ASSUME Init PROVE MetInv
  OBVIOUS
<1>1. FinishInv /\ SetupKnown /\ numberOfLeaks \in Nat \ {0}
  BY InitFinish, InitNodes, SetupFacts
<1>2. IsFiniteSet(heap)
  BY ConstantsAssumption DEF Init
<1>3. ASSUME NEW x \in tagged PROVE node[x].leaks_related.size > 0
  <2>1. x \in LeakObjects \cup ClassNodes /\ x \in Things
    BY <1>1 DEF Init, FinishInv, IInv, NodeInv, NodeTypes
  <2>2. CASE x \in LeakObjects
    <3>1. PICK i \in LeakNumbers : LeakObject[i] = x
      BY <2>2 DEF LeakObjects
    <3>. DEFINE j == CHOOSE k \in LeakNumbers : LeakObject[k] = x
    <3>2. j \in LeakNumbers
      BY <3>1
    <3>. HIDE DEF j
    <3>3. node[x] = LeakNode(j)
      BY <2>1, <2>2 DEF Init, j
    <3>4. LeakNode(j).leaks_related = bitMapSet_add(newMemoryNode(j + 1).leaks_related, j)
      BY DEF LeakNode, newMemoryNode
    <3>5. j \in Nat /\ j + 1 \in Nat
      BY <1>1, <3>2, SetupFacts
    <3>6. newMemoryNode(j + 1).leaks_related = bitMaskSet_new(j + 1)
      BY <1>1, <3>5, NewNode
    <3>7. bitMapSet_add(bitMaskSet_new(j + 1), j).size = j + 1
      BY <3>5, NewIsSet, AddIsSet
    <3>. QED BY <3>3, <3>4, <3>5, <3>6, <3>7
  <2>3. CASE x \in ClassNodes \ LeakObjects
    <3>1. node[x] = newMemoryNode(numberOfLeaks)
      BY <2>1, <2>3 DEF Init
    <3>. QED BY <1>1, <3>1, NewNode, NewIsSet
  <2>. QED BY <2>1, <2>2, <2>3
<1>. QED BY <1>1, <1>2, <1>3 DEF MetInv, Init

LEMMA ReportMet ==
  ASSUME MetInv, NEW e \in pending, Report(e)
  PROVE  MetInv'
<1>1. FinishInv' /\ IInv /\ Grows
  BY NextFinish, ReportGrows DEF MetInv, FinishInv, Next, Dump
<1>2. numberOfLeaks \in Nat \ {0} /\ tagged' \subseteq Things /\ OwnHandles' = OwnHandles
  BY <1>1, SetupFacts, GrowsKeepsSetup DEF IInv, NodeInv, FinishInv, NodeTypes
<1>3. \A x \in tagged' : node'[x].leaks_related.size > 0
  BY <1>1, <1>2 DEF Grows, MetInv
<1>4. pc = "follow" /\ pending' = pending \ {e} /\ reached' = reached \cup {e.to}
  BY DEF Report
<1>. QED BY <1>1, <1>2, <1>3, <1>4 DEF MetInv, Grows

LEMMA NextMet == MetInv /\ [Next]_vars => MetInv'
<1>. SUFFICES ASSUME MetInv, [Next]_vars PROVE MetInv'
  OBVIOUS
<1>1. FinishInv' /\ IInv
  BY NextFinish DEF MetInv, FinishInv
<1>2. CASE StartWalk
  <2>1. OwnHandles' = OwnHandles
    BY <1>2 DEF StartWalk, OwnHandles, LeakObjects, LeakNumbers, numberOfLeaks
  <2>2. iteration' > 0
    BY <1>1, <1>2 DEF StartWalk, IInv, WalkTypes
  <2>. QED BY <1>1, <1>2, <2>1, <2>2 DEF StartWalk, MetInv
<1>3. CASE EndWalk
  BY <1>1, <1>3 DEF EndWalk, agentVars, MetInv
<1>4. CASE \E e \in setup.changeable : Mutate(e)
  <2>1. PICK e \in setup.changeable : Mutate(e)
    BY <1>4
  <2>2. IsFiniteSet(heap')
    <3>1. heap' = heap \cup {e} \/ heap' \subseteq heap
      BY <2>1 DEF Mutate
    <3>. QED BY <3>1, FS_AddElement, FS_Subset DEF MetInv
  <2>. QED BY <1>1, <2>1, <2>2 DEF Mutate, agentVars, MetInv
<1>5. CASE UNCHANGED vars
  <2>1. OwnHandles' = OwnHandles
    BY <1>5 DEF vars, OwnHandles, LeakObjects, LeakNumbers, numberOfLeaks
  <2>. QED BY <1>1, <1>5, <2>1 DEF vars, agentVars, MetInv
<1>. QED BY <1>2, <1>3, <1>4, <1>5, ReportMet DEF Next, Dump

(* At the end of a walk everything live has been reported.                  *)
LEMMA WalkMetEverything ==
  ASSUME MetInv, pc = "follow", \A e \in pending : ~Reportable(e)
  PROVE  /\ Reachable \subseteq reached
         /\ \A e \in heap : e.from \in Reachable \cup Classes \cup {HeapRoot} => e \notin pending
<1>1. reached \in SUBSET Objects
  BY DEF MetInv, FinishInv, IInv, WalkTypes
<1>2. LeakObjects \subseteq reached
  <2>1. ASSUME NEW x \in LeakObjects PROVE x \in reached
    <3>. DEFINE h == [from |-> HeapRoot, to |-> x, kind |-> "jni_local", info |-> DumperThread]
    <3>1. h \in OwnHandles /\ h.from = HeapRoot /\ h.to = x
      BY DEF OwnHandles
    <3>. HIDE DEF h
    <3>2. h \notin pending
      BY <3>1 DEF Reportable
    <3>. QED BY <3>1, <3>2 DEF MetInv
  <2>. QED BY <2>1
<1>3. ClosedIn(reached)
  BY DEF ClosedIn, MetInv, Reportable
<1>4. Reachable \subseteq reached
  BY <1>1, <1>2, <1>3 DEF Reachable
<1>. QED BY <1>4 DEF Reportable

(* What the roots and what is live refer to is live.                        *)
LEMMA ReachableIsClosed ==
  ASSUME NEW e \in heap, e.to \in Objects, e.from \in Reachable \cup Classes \cup {HeapRoot}
  PROVE  e.to \in Reachable
BY DEF Reachable, ClosedIn

-----------------------------------------------------------------------------
(***************************************************************************)
(* As long as a walk finds nothing new about a leak, all that it has met   *)
(* of the leak's nodes is recorded, or left out for one of the reasons of  *)
(* the code.  A node that gets the leak when its references were reported  *)
(* already is progress, and there will be another walk.                    *)
(***************************************************************************)
Seen(e, i) ==
  \/ e \in node[e.to].refs
  \/ localReferenceOfThisThread(e)
  \/ IgnoredFor(e, i)
  \/ HasClassTag(e) /\ node[e.to].fan_in[ClassOf[e.from]] = max_fan_in

WalkHasSeen ==
  \A i \in LeakNumbers \ progress : ~Finished(i) =>
    \A e \in heap \ pending : HasLeak(e.to, i) /\ ClassOf[e.to] \in ClassNodes => Seen(e, i)

SeenInv ==
  /\ MetInv
  /\ NoSpareBits => (pc = "follow" => WalkHasSeen) /\ EarlyStopMissesNothing

(* Sets keep their size, and bits: there were no spare ones before.         *)
LEMMA NoSpareBefore ==
  ASSUME MetInv, Grows, NoSpareBits', NodeTypes'
  PROVE  NoSpareBits
<1>1. SUFFICES ASSUME NEW x \in Things, NEW i \in node[x].leaks_related.bits
               PROVE  i < node[x].leaks_related.size
  BY DEF NoSpareBits
<1>2. x \in tagged
  <2>1. SetupKnown /\ NodeTypes
    BY DEF MetInv, FinishInv, IInv, NodeInv
  <2>2. NoNode.leaks_related.bits = {}
    BY <2>1, NodeOfNone, NewIsSet
  <2>. QED BY <1>1, <2>1, <2>2 DEF NodeTypes
<1>. QED BY <1>1, <1>2 DEF Grows, NoSpareBits

(* What is finished remains so.                                             *)
LEMMA FinishedRemains ==
  ASSUME Grows, NEW i, Finished(i)
  PROVE  Finished(i)'
BY DEF Grows, Finished, bitMapSet_contains

(* A node of an unfinished leak is compared with what is finished, and goes *)
(* on.                                                                      *)
LEMMA UnfinishedIsFollowed ==
  ASSUME IInv, NEW e, e.to \in Things, NEW i \in LeakNumbers, ~Finished(i), HasLeak(e.to, i),
         NotFollowed(e)
  PROVE  localReferenceOfThisThread(e)
<1>. DEFINE s == node[e.to].leaks_related
<1>1. /\ IsBitmaskSet(s) /\ s.size \in Nat /\ s.size <= numberOfLeaks
      /\ leaks_finished.size = numberOfLeaks /\ numberOfLeaks \in Nat
      /\ i \in Nat /\ i < numberOfLeaks
  BY SetupFacts DEF IInv, NodeInv, SetTypes, IsBitmaskSet, LeakNumbers
<1>2. i \in s.bits /\ i < s.size
  BY DEF HasLeak, bitMapSet_contains
<1>. HIDE DEF s
<1>3. ContainsAllBytes(leaks_finished, s) = SIZE_IN_BYTES(s.size)
  BY <1>1 DEF ContainsAllBytes
<1>4. i < ByteBits * ContainsAllBytes(leaks_finished, s)
  <2>1. s.size < Capacity(s.size) /\ Capacity(s.size) \in Nat
    BY <1>1, CapacityFacts
  <2>. QED BY <1>1, <1>2, <1>3, <2>1 DEF Capacity
<1>5. ~bitMapSet_containsAll(leaks_finished, s)
  BY <1>1, <1>2, <1>4 DEF bitMapSet_containsAll, Finished, bitMapSet_contains
<1>6. ~bitMapSet_isEmpty(s)
  BY <1>2 DEF bitMapSet_isEmpty
<1>. QED BY <1>5, <1>6 DEF NotFollowed, s

(* A rule that ignores a field for the node ignores it for each of its      *)
(* leaks: the node's size is at least theirs.                               *)
LEMMA IgnoredForTheLeak ==
  ASSUME IInv, NEW e, e.to \in Things, NEW i \in LeakNumbers, HasLeak(e.to, i), NEW class,
         isFieldIgnored(class, Counted(e), e.info),
         \/ e.kind = "field" /\ e.from \in Objects /\ class = ClassOf[e.from]
         \/ e.kind = "static_field" /\ class = e.from
  PROVE  IgnoredFor(e, i)
<1>1. PICK r \in IgnoreRules :
        r.class = class /\ r.field = e.info /\ Counted(e).leak_size < r.threshold
  BY DEF isFieldIgnored
<1>2. Counted(e).leak_size = node[e.to].leak_size /\ node[e.to].leak_size \in Nat
  BY CountedFacts DEF IInv, NodeInv, Node
<1>3. node[e.to].leak_size >= LeakSize[i] /\ LeakSize[i] \in Nat
  BY SetupFacts DEF IInv, NodeInv, SizesOfNodes, HasLeak, bitMapSet_contains
<1>4. r.threshold \in Nat
  BY ConstantsAssumption
<1>5. LeakSize[i] < r.threshold
  BY <1>1, <1>2, <1>3, <1>4
<1>. QED BY <1>1, <1>5 DEF IgnoredFor

(* How a report counts.                                                     *)
LEMMA ReportCounts ==
  ASSUME IInv, NEW e \in pending, Report(e), NEW x \in Things, NEW c \in Classes
  PROVE  /\ node'[x].fan_in[c] = IF x = e.to /\ ~Ignoring(e) THEN FanInAfter(e, c)
                                                            ELSE node[x].fan_in[c]
         /\ node[x].fan_in[c] \in 0 .. max_fan_in /\ max_fan_in \in Nat
         /\ node'[x].fan_in[c] \in 0 .. max_fan_in /\ node'[x].fan_in[c] >= node[x].fan_in[c]
<1>0. NodeInv /\ SetupKnown /\ NodeTypes
  BY DEF IInv, NodeInv
<1>1. node[x].fan_in[c] \in 0 .. max_fan_in /\ max_fan_in \in Nat
  <2>1. node[x] \in Node
    BY <1>0 DEF NodeTypes
  <2>. QED BY <1>0, <2>1, SetupFacts DEF Node
<1>2. node'[x].fan_in[c] = IF x = e.to /\ ~Ignoring(e) THEN FanInAfter(e, c)
                                                       ELSE node[x].fan_in[c]
  <2>1. CASE Ignoring(e)
    BY <2>1 DEF Ignoring
  <2>2. CASE Counting(e) /\ ~Ignoring(e)
    <3>1. e.to \in Things /\ node \in [Things -> Node]
      BY <1>0, <2>2 DEF NodeTypes, Counting
    <3>2. Counted(e).fan_in[c] = FanInAfter(e, c)
      BY <1>0, <3>1, CountedFacts
    <3>3. node'[x] = IF x = e.to THEN Counted(e) ELSE node[x]
      BY <2>2, <3>1 DEF Counting
    <3>. QED BY <2>2, <3>2, <3>3
  <2>3. CASE Recording(e) /\ ~Ignoring(e)
    <3>1. Inherited(x, e, node'[x])
      BY <1>0, <2>3, RecordingFacts
    <3>. QED BY <2>3, <3>1 DEF Inherited
  <2>. QED BY <2>1, <2>2, <2>3, ReportOutcomes
<1>3. FanInAfter(e, c) \in 0 .. max_fan_in \/ x # e.to
  BY <1>1 DEF FanInAfter, Smaller
<1>4. FanInAfter(e, c) >= node[x].fan_in[c] \/ x # e.to
  BY <1>1 DEF FanInAfter, Smaller
<1>. QED BY <1>1, <1>2, <1>3, <1>4

(* A leak that a node gets is progress.                                     *)
LEMMA GainIsProgress ==
  ASSUME IInv, NEW e \in pending, Report(e), NoSpareBits',
         NEW x \in Things, NEW i \in LeakNumbers, ~Finished(i),
         i \in node'[x].leaks_related.bits, i \notin node[x].leaks_related.bits
  PROVE  i \in progress'
<1>0. NodeInv
  BY DEF IInv
<1>1. CASE Ignoring(e)
  BY <1>1 DEF Ignoring
<1>2. CASE Counting(e)
  <2>1. SetupKnown /\ NodeTypes /\ e.to \in Things /\ node \in [Things -> Node]
    BY <1>0, <1>2 DEF NodeInv, NodeTypes, Counting
  <2>2. Counted(e).leaks_related = node[e.to].leaks_related
    BY <2>1, CountedFacts
  <2>. QED BY <1>2, <2>1, <2>2 DEF Counting
<1>3. CASE Recording(e)
  <2>1. e.to \in Things /\ Inherited(x, e, node'[x]) /\ Inherited(e.to, e, node'[e.to])
    BY <1>0, <1>3, RecordingFacts
  <2>2. i \in node[e.to].leaks_related.bits
    BY <2>1 DEF Inherited
  <2>3. i \in node'[e.to].leaks_related.bits
    BY <2>1, <2>2 DEF Inherited
  <2>4. bitMapSet_contains(node'[e.to].leaks_related, i)
    BY <2>1, <2>3 DEF NoSpareBits, bitMapSet_contains
  <2>. QED BY <1>3, <2>4 DEF Recording, Finished
<1>. QED BY <1>1, <1>2, <1>3, ReportOutcomes

(* A reference to a node of an unfinished leak is seen when it is reported. *)
LEMMA ReportIsSeen ==
  ASSUME IInv, NEW e \in pending, Report(e), pc' # "fatal",
         NEW i \in LeakNumbers, ~Finished(i), HasLeak(e.to, i), ClassOf[e.to] \in ClassNodes
  PROVE  Seen(e, i)' /\ (Ignoring(e) => localReferenceOfThisThread(e))
<1>0. /\ NodeInv /\ NodeTypes /\ SetupKnown /\ e.to \in Objects /\ e.to \in Things
      /\ setup' = setup
  BY ReportOutcomes DEF IInv, NodeInv, Things, Report
<1>1. CASE Ignoring(e)
  <2>1. e.to \in tagged
    <3>1. NoNode.leaks_related.bits = {}
      BY <1>0, NodeOfNone, NewIsSet
    <3>. QED BY <1>0, <3>1 DEF NodeTypes, HasLeak, bitMapSet_contains
  <2>2. Delivered(e)
    BY <1>0, <2>1 DEF Delivered, NodeTypes
  <2>3. localReferenceOfThisThread(e)
    BY <1>0, <1>1, <2>2, UnfinishedIsFollowed DEF Ignoring
  <2>4. localReferenceOfThisThread(e)'
    BY <2>3 DEF localReferenceOfThisThread
  <2>. QED BY <2>3, <2>4 DEF Seen
<1>2. CASE Counting(e) /\ ~Ignoring(e)
  <2>1. Dropped(e, Counted(e))
    BY <1>2 DEF Counting
  <2>2. CASE HasClassTag(e) /\ Counted(e).fan_in[ClassOf[e.from]] >= max_fan_in
    <3>. DEFINE c == ClassOf[e.from]
    <3>1. c \in Classes /\ HasClassTag(e)'
      BY <1>2, <2>2, ConstantsAssumption DEF HasClassTag, Counting
    <3>2. Counted(e).fan_in[c] = FanInAfter(e, c)
      BY <1>0, <3>1, CountedFacts
    <3>3. node'[e.to].fan_in[c] = FanInAfter(e, c) /\ node'[e.to].fan_in[c] \in 0 .. max_fan_in
      BY <1>0, <1>2, <3>1, ReportCounts
    <3>4. max_fan_in \in Nat /\ max_fan_in' = max_fan_in
      BY <1>0, SetupFacts DEF max_fan_in
    <3>5. node'[e.to].fan_in[c] = max_fan_in'
      BY <2>2, <3>2, <3>3, <3>4
    <3>. QED BY <1>2, <3>1, <3>5 DEF Seen
  <2>3. CASE HasClassTag(e) /\ e.kind = "field" /\ isFieldIgnored(ClassOf[e.from], Counted(e), e.info)
    <3>1. IgnoredFor(e, i)
      BY <1>0, <2>3, IgnoredForTheLeak DEF HasClassTag
    <3>. QED BY <1>2, <3>1 DEF Seen, IgnoredFor
  <2>4. CASE e.kind = "static_field" /\ isFieldIgnored(e.from, Counted(e), e.info)
    <3>1. IgnoredFor(e, i)
      BY <1>0, <2>4, IgnoredForTheLeak
    <3>. QED BY <1>2, <3>1 DEF Seen, IgnoredFor
  <2>5. CASE e \in Counted(e).refs
    <3>1. e \in node[e.to].refs
      BY <1>0, <2>5, CountedFacts
    <3>2. e \in node'[e.to].refs
      BY <1>0, <3>1, ReportLosesNothing DEF NothingLost
    <3>. QED BY <1>2, <3>2 DEF Seen
  <2>. QED BY <2>1, <2>2, <2>3, <2>4, <2>5 DEF Dropped
<1>3. CASE Recording(e) /\ ~Ignoring(e)
  <2>1. e \in node'[e.to].refs
    BY <1>0, <1>3, RecordingFacts
  <2>. QED BY <1>3, <2>1 DEF Seen
<1>. QED BY <1>1, <1>2, <1>3, ReportOutcomes

(* What was seen remains seen.                                              *)
LEMMA SeenRemains ==
  ASSUME IInv, NEW e \in pending, Report(e), Grows,
         NEW f, f.to \in Things, NEW i, Seen(f, i)
  PROVE  Seen(f, i)'
<1>1. CASE f \in node[f.to].refs
  BY <1>1 DEF Grows, Seen
<1>2. CASE localReferenceOfThisThread(f) \/ IgnoredFor(f, i)
  BY <1>2 DEF Seen, localReferenceOfThisThread, IgnoredFor
<1>3. CASE HasClassTag(f) /\ node[f.to].fan_in[ClassOf[f.from]] = max_fan_in
  <2>1. ClassOf[f.from] \in Classes /\ HasClassTag(f)' /\ max_fan_in' = max_fan_in
    BY <1>3, GrowsKeepsSetup, ConstantsAssumption DEF HasClassTag, Grows
  <2>2. node'[f.to].fan_in[ClassOf[f.from]] = max_fan_in
    BY <1>3, <2>1, ReportCounts
  <2>. QED BY <2>1, <2>2 DEF Seen
<1>. QED BY <1>1, <1>2, <1>3 DEF Seen

LEMMA ReportSeen ==
  ASSUME SeenInv, NEW e \in pending, Report(e), pc' = "follow", NoSpareBits'
  PROVE  WalkHasSeen'
<1>0. /\ IInv /\ IInv' /\ Grows /\ NodeTypes' /\ pc = "follow" /\ pending' = pending \ {e}
      /\ heap' = heap
  BY ReportGrows, ReportKeeps DEF SeenInv, MetInv, FinishInv, IInv, NodeInv, Report
<1>1. NoSpareBits /\ WalkHasSeen
  BY <1>0, NoSpareBefore DEF SeenInv
<1>2. SUFFICES ASSUME NEW i \in LeakNumbers, i \notin progress', ~Finished(i)',
                      NEW f \in heap, f \notin pending \ {e},
                      HasLeak(f.to, i)', ClassOf[f.to] \in ClassNodes
               PROVE  Seen(f, i)'
  BY <1>0, GrowsKeepsSetup DEF WalkHasSeen
<1>3. ~Finished(i) /\ i \notin progress
  BY <1>0, <1>2, FinishedRemains DEF Grows
<1>4. f.to \in Things
  BY <1>0, <1>2, ConstantsAssumption DEF IInv, WalkTypes, Things
<1>5. HasLeak(f.to, i)
  <2>1. i \in node[f.to].leaks_related.bits
    BY <1>0, <1>2, <1>3, <1>4, GainIsProgress DEF HasLeak, bitMapSet_contains
  <2>. QED BY <1>1, <1>4, <2>1 DEF NoSpareBits, HasLeak, bitMapSet_contains
<1>6. CASE f = e
  BY <1>0, <1>2, <1>3, <1>5, <1>6, ReportIsSeen
<1>7. CASE f \notin pending
  <2>1. Seen(f, i)
    BY <1>1, <1>2, <1>3, <1>5, <1>7 DEF WalkHasSeen
  <2>. QED BY <1>0, <1>4, <2>1, SeenRemains
<1>. QED BY <1>2, <1>6, <1>7

LEMMA EndSeen ==
  ASSUME SeenInv, EndWalk, NoSpareBits
  PROVE  EarlyStopMissesNothing'
<1>1. /\ pc = "follow" /\ (\A e \in pending : ~Reportable(e))
      /\ UNCHANGED <<heap, setup, mutations, agentVars>>
      /\ pc' = IF hasUnfinished /\ iteration < reference_chain_length THEN "loop" ELSE "done"
  BY DEF EndWalk
<1>2. /\ LeakNumbers' = LeakNumbers /\ reference_chain_length' = reference_chain_length
      /\ max_fan_in' = max_fan_in
      /\ LeakObjects' = LeakObjects
  BY <1>1 DEF LeakNumbers, numberOfLeaks, reference_chain_length, max_fan_in, LeakObjects
<1>3. Reachable' = Reachable
  BY <1>1, <1>2 DEF Reachable, ClosedIn
<1>4. WalkHasSeen
  BY <1>1 DEF SeenInv
<1>5. SUFFICES ASSUME pc' = "done", iteration < reference_chain_length,
                      NEW i \in LeakNumbers, ~Finished(i)',
                      NEW e \in heap, HasLeak(e.to, i)', ClassOf[e.to] \in ClassNodes,
                      e.from \in Objects => e.from \in Reachable
               PROVE  Seen(e, i)'
  BY <1>1, <1>2, <1>3 DEF EarlyStopMissesNothing, Seen, agentVars
<1>6. ~Finished(i) /\ HasLeak(e.to, i)
  BY <1>1, <1>5 DEF Finished, HasLeak, agentVars
<1>7. i \notin progress
  BY <1>1, <1>5, <1>6 DEF hasUnfinished, Finished
<1>8. e \notin pending
  <2>1. e.from \in Reachable \cup Classes \cup {HeapRoot}
    BY <1>5, ConstantsAssumption DEF SeenInv, MetInv, FinishInv, IInv, WalkTypes, Things
  <2>. QED BY <1>1, <1>5, <2>1, WalkMetEverything DEF SeenInv
<1>9. Seen(e, i)
  BY <1>4, <1>5, <1>6, <1>7, <1>8 DEF WalkHasSeen
<1>10. node' = node /\ tagged' = tagged
  BY <1>1 DEF agentVars
<1>. QED BY <1>2, <1>9, <1>10
       DEF Seen, HasClassTag, localReferenceOfThisThread, IgnoredFor

LEMMA NextSeen == SeenInv /\ [Next]_vars => SeenInv'
<1>. SUFFICES ASSUME SeenInv, [Next]_vars PROVE SeenInv'
  OBVIOUS
<1>1. MetInv /\ MetInv' /\ NodeTypes'
  BY NextMet DEF SeenInv, MetInv, FinishInv, IInv, NodeInv
<1>2. SUFFICES ASSUME NoSpareBits' PROVE (pc' = "follow" => WalkHasSeen') /\ EarlyStopMissesNothing'
  BY <1>1 DEF SeenInv
<1>3. CASE StartWalk
  <2>1. pc' = "follow" /\ heap' \ pending' = {}
    BY <1>3 DEF StartWalk
  <2>2. WalkHasSeen'
    BY <2>1 DEF WalkHasSeen
  <2>. QED BY <2>1, <2>2 DEF EarlyStopMissesNothing
<1>4. CASE \E e \in pending : Report(e)
  <2>1. PICK e \in pending : Report(e)
    BY <1>4
  <2>2. pc' # "done"
    BY <2>1 DEF Report, cbObjectTagReferrer
  <2>. QED BY <1>2, <2>1, <2>2, ReportSeen DEF EarlyStopMissesNothing
<1>5. CASE EndWalk
  <2>1. NoSpareBits /\ pc' # "follow"
    BY <1>2, <1>5 DEF EndWalk, agentVars, NoSpareBits
  <2>. QED BY <1>5, <2>1, EndSeen
<1>6. CASE \E e \in setup.changeable : Mutate(e)
  <2>1. pc' = "loop"
    BY <1>6 DEF Mutate
  <2>. QED BY <2>1 DEF EarlyStopMissesNothing
<1>7. CASE UNCHANGED vars
  <2>1. NoSpareBits
    BY <1>2, <1>7 DEF vars, agentVars, NoSpareBits
  <2>2. (pc = "follow" => WalkHasSeen) /\ EarlyStopMissesNothing
    BY <2>1 DEF SeenInv
  <2>3. pc = "follow" => WalkHasSeen'
    <3>1. SUFFICES ASSUME WalkHasSeen PROVE WalkHasSeen'
      BY <2>2
    <3>2. LeakNumbers' = LeakNumbers /\ max_fan_in' = max_fan_in
      BY <1>7 DEF vars, LeakNumbers, numberOfLeaks, max_fan_in
    <3>. QED BY <1>7, <3>1, <3>2 DEF vars, agentVars, WalkHasSeen, Finished, HasLeak, Seen, HasClassTag
  <2>4. EarlyStopMissesNothing'
    <3>1. /\ LeakNumbers' = LeakNumbers /\ max_fan_in' = max_fan_in
          /\ reference_chain_length' = reference_chain_length /\ LeakObjects' = LeakObjects
      BY <1>7 DEF vars, LeakNumbers, LeakObjects, numberOfLeaks, max_fan_in, reference_chain_length
    <3>2. Reachable' = Reachable
      BY <1>7, <3>1 DEF vars, Reachable, ClosedIn
    <3>. QED BY <1>7, <2>2, <3>1, <3>2
           DEF vars, agentVars, EarlyStopMissesNothing, Finished, HasLeak, HasClassTag
  <2>. QED BY <1>7, <2>3, <2>4 DEF vars
<1>. QED BY <1>3, <1>4, <1>5, <1>6, <1>7 DEF Next, Dump

LEMMA InitSeen == Init => SeenInv
<1>. SUFFICES ASSUME Init PROVE SeenInv
  OBVIOUS
<1>1. MetInv /\ reference_chain_length \in Nat
  BY InitMet, SetupFacts, InitNodes
<1>2. EarlyStopMissesNothing
  BY <1>1 DEF Init, EarlyStopMissesNothing
<1>. QED BY <1>1, <1>2 DEF Init, SeenInv

(* The walks do not stop early before all that is live and refers to a node *)
(* of an unfinished leak has been seen, for leaks that hold no later one.   *)
THEOREM NothingMissedByEarlyStop == Spec => [](NoSpareBits => EarlyStopMissesNothing)
<1>1. SeenInv => (NoSpareBits => EarlyStopMissesNothing)
  BY DEF SeenInv
<1>. QED BY <1>1, InitSeen, NextSeen, PTL DEF Spec

-----------------------------------------------------------------------------
(***************************************************************************)
(* One leak, in a heap that does not change, with the fan-in limit out of  *)
(* the way.  While the leak is not finished, each walk takes the nodes one *)
(* reference further: Known are the objects that had the leak when the     *)
(* walk began.                                                             *)
(*                                                                         *)
(* A class of referrers is counted when the leak comes to the object, and  *)
(* once more in the next walk: it is Fresh, then Young, and when it is Old *)
(* all its live references are recorded and the count no longer matters.   *)
(***************************************************************************)
Alone == numberOfLeaks = 1 /\ mutations = 0 /\ FanInOutOfTheWay /\ ~Finished(0)

Tracked == {x \in Objects : ClassOf[x] \in ClassNodes}

In(x, c) == {e \in heap : e.to = x /\ e.from \in Objects /\ ClassOf[e.from] = c}

Accounted(x, c) == {e \in In(x, c) : e \in node[x].refs \/ IgnoredFor(e, 0)}

Old(x, c)   == \A e \in In(x, c) : e.from \in Reachable => e \in Accounted(x, c)
Young(x, c) ==
  /\ In(x, c) \ pending \subseteq Accounted(x, c)
  /\ node[x].fan_in[c] <= Cardinality(Accounted(x, c)) + Cardinality(In(x, c) \ pending)
Fresh(x, c) == node[x].fan_in[c] <= Cardinality(Accounted(x, c) \ pending)

(* Between two walks.                                                       *)
Rested(x, c) == Old(x, c) \/ node[x].fan_in[c] <= Cardinality(Accounted(x, c))

ChainTo(x, n) == \E m \in 0 .. n : \E c \in Chains(0, m) : c[m] = x

Known == {x \in Tracked : \/ x \in Reachable /\ ChainTo(x, iteration - 1)
                          \/ 0 \notin progress /\ HasLeak(x, 0)}

RecordedByLeak ==
  \A x \in Objects : \A e \in node[x].refs :
    ~isRootReference(e.kind) /\ (e.from \in Things => HasLeak(e.from, 0))

CountedWithLeak ==
  \A x \in Objects, c \in Classes : ~HasLeak(x, 0) => node[x].fan_in[c] = 0

LoopInv ==
  /\ \A x \in Reachable : ChainTo(x, iteration) => HasLeak(x, 0)
  /\ \A x \in Tracked, c \in ClassNodes : Rested(x, c)

FollowInv ==
  /\ \A x \in Tracked, c \in ClassNodes : Old(x, c) \/ Young(x, c) \/ Fresh(x, c)
  /\ \A x \in Known :
       /\ HasLeak(x, 0)
       /\ \A c \in ClassNodes : Old(x, c) \/ Young(x, c)
       /\ \A e \in heap \ pending :
            e.to = x /\ e.from \notin Objects /\ Followed(e, 0) => e \in node[x].refs

NoRootHoldsIt ==
  \A n \in 0 .. reference_chain_length - 1 : \A c \in Chains(0, n) : ~RootHolds(c[n], 0)

AloneInv ==
  /\ MetInv
  /\ Alone => /\ RecordedByLeak /\ CountedWithLeak
              /\ pc = "loop" => LoopInv
              /\ pc = "follow" => FollowInv
              /\ pc = "done" => NoRootHoldsIt

(* Bits are those of the one leak, and sets have room for it.               *)
LEMMA OneLeak ==
  ASSUME MetInv, numberOfLeaks = 1
  PROVE  /\ LeakNumbers = {0} /\ NoSpareBits
         /\ \A x \in Things : HasLeak(x, 0) <=> 0 \in node[x].leaks_related.bits
         /\ \A x \in Things : HasLeak(x, 0) <=> ~bitMapSet_isEmpty(node[x].leaks_related)
         /\ LeakObject[0] \in Objects /\ ClassOf[LeakObject[0]] \in ClassNodes
         /\ LeakObject[0] \in Reachable /\ HasLeak(LeakObject[0], 0)
<1>0. /\ SetupKnown /\ NodeTypes /\ BitsAreLeaks
  BY DEF MetInv, FinishInv, IInv, NodeInv
<1>1. LeakNumbers = {0}
  BY DEF LeakNumbers
<1>2. ASSUME NEW x \in Things, NEW i \in node[x].leaks_related.bits
      PROVE  i = 0 /\ i < node[x].leaks_related.size
  <2>1. i = 0
    BY <1>0, <1>1 DEF BitsAreLeaks
  <2>2. x \in tagged
    <3>1. NoNode.leaks_related.bits = {}
      BY <1>0, NodeOfNone, NewIsSet
    <3>. QED BY <1>0, <3>1 DEF NodeTypes
  <2>. QED BY <2>1, <2>2 DEF MetInv
<1>3. LeakObject[0] \in Objects /\ LeakObject[0] \in LeakObjects
  BY <1>0, <1>1, SetupFacts DEF LeakObjects
<1>4. ClassOf[LeakObject[0]] \in ClassNodes
  BY <1>0, <1>1, <1>3, SetupFacts, ConstantsAssumption DEF ClassNodes
<1>5. LeakObject[0] \in Reachable
  BY <1>3 DEF Reachable
<1>6. 0 \in node[LeakObject[0]].leaks_related.bits /\ LeakObject[0] \in Things
  BY <1>1, <1>3 DEF MetInv, FinishInv, Things
<1>7. \A x \in Things : HasLeak(x, 0) <=> 0 \in node[x].leaks_related.bits
  BY <1>2 DEF HasLeak, bitMapSet_contains
<1>8. \A x \in Things : 0 \in node[x].leaks_related.bits <=> ~bitMapSet_isEmpty(node[x].leaks_related)
  BY <1>2 DEF bitMapSet_isEmpty
<1>. QED BY <1>1, <1>2, <1>3, <1>4, <1>5, <1>6, <1>7, <1>8 DEF NoSpareBits

(* And so they are after a step.                                            *)
OneBit == NoSpareBits /\ \A x \in Things : HasLeak(x, 0) <=> 0 \in node[x].leaks_related.bits

LEMMA OneLeakHasOneBit == MetInv /\ numberOfLeaks = 1 => OneBit
BY OneLeak DEF OneBit

LEMMA OneLeakAfter == (MetInv /\ numberOfLeaks = 1 => OneBit)'
BY OneLeakHasOneBit, PTL

LEMMA InFacts ==
  ASSUME MetInv, FanInOutOfTheWay, NEW x \in Objects, NEW c \in ClassNodes,
         NEW T \in SUBSET In(x, c)
  PROVE  /\ IsFiniteSet(T) /\ Cardinality(T) \in Nat /\ Cardinality(In(x, c)) \in Nat
         /\ 2 * Cardinality(In(x, c)) <= max_fan_in /\ max_fan_in \in Nat
         /\ Cardinality(T) <= Cardinality(In(x, c))
         /\ \A e \in In(x, c) \ T : /\ Cardinality(T) < Cardinality(In(x, c))
                                    /\ Cardinality(T \cup {e}) = Cardinality(T) + 1
         /\ \A U \in SUBSET T : Cardinality(U) <= Cardinality(T)
<1>. DEFINE I == In(x, c)
<1>1. IsFiniteSet(I)
  <2>1. I \subseteq heap
    BY DEF In
  <2>. QED BY <2>1, FS_Subset DEF MetInv
<1>2. 2 * Cardinality(I) <= max_fan_in
  <2>1. c \in Classes
    BY DEF ClassNodes
  <2>. QED BY <2>1 DEF FanInOutOfTheWay, In
<1>3. max_fan_in \in Nat
  BY SetupFacts DEF MetInv, FinishInv, IInv, NodeInv
<1>. HIDE DEF I
<1>4. T \subseteq I
  BY DEF I
<1>5. IsFiniteSet(T) /\ Cardinality(T) <= Cardinality(I)
  BY <1>1, <1>4, FS_Subset
<1>6. Cardinality(T) \in Nat /\ Cardinality(I) \in Nat
  BY <1>1, <1>5, FS_CardinalityType
<1>7. ASSUME NEW e \in I \ T
      PROVE  Cardinality(T) < Cardinality(I) /\ Cardinality(T \cup {e}) = Cardinality(T) + 1
  <2>1. Cardinality(T \cup {e}) = Cardinality(T) + 1
    BY <1>5, <1>7, FS_AddElement
  <2>2. Cardinality(T \cup {e}) <= Cardinality(I)
    <3>1. T \cup {e} \subseteq I
      BY <1>4, <1>7
    <3>. QED BY <1>1, <3>1, FS_Subset
  <2>. QED BY <1>6, <2>1, <2>2
<1>8. \A U \in SUBSET T : Cardinality(U) <= Cardinality(T)
  BY <1>5, FS_Subset
<1>. QED BY <1>2, <1>3, <1>5, <1>6, <1>7, <1>8 DEF I

(* What is said of the heap holds as long as it does not change.            *)
LEMMA HeapKept ==
  ASSUME UNCHANGED <<heap, setup>>
  PROVE  /\ Reachable' = Reachable
         /\ \A i, n : Chains(i, n)' = Chains(i, n)
         /\ \A x, n : ChainTo(x, n)' <=> ChainTo(x, n)
         /\ \A x, c : In(x, c)' = In(x, c)
         /\ numberOfLeaks' = numberOfLeaks /\ reference_chain_length' = reference_chain_length
         /\ FanInOutOfTheWay' = FanInOutOfTheWay
<1>0. UNCHANGED <<numberOfLeaks, max_fan_in, reference_chain_length, LeakObjects>>
  BY DEF numberOfLeaks, max_fan_in, reference_chain_length, LeakObjects, LeakNumbers
<1>1. Reachable' = Reachable
  BY <1>0 DEF Reachable, ClosedIn
<1>2. \A i, n : Chains(i, n)' = Chains(i, n)
  BY DEF Chains, Holds, Followed, IgnoredFor
<1>3. \A x, n : ChainTo(x, n)' <=> ChainTo(x, n)
  BY <1>2 DEF ChainTo
<1>4. \A x, c : In(x, c)' = In(x, c)
  BY DEF In
<1>5. FanInOutOfTheWay' = FanInOutOfTheWay
  BY <1>0 DEF FanInOutOfTheWay
<1>. QED BY <1>0, <1>1, <1>2, <1>3, <1>4, <1>5

(* A report leaves what the lemmas below are about as it is.                *)
LEMMA AloneBefore ==
  ASSUME Grows
  PROVE  /\ Reachable' = Reachable
         /\ \A x, n : ChainTo(x, n)' <=> ChainTo(x, n)
         /\ \A x, c : In(x, c)' = In(x, c)
         /\ \A x \in Things : \A c : Accounted(x, c) \subseteq Accounted(x, c)'
         /\ Alone' => Alone
<1>0. UNCHANGED <<heap, setup, mutations>>
  BY DEF Grows
<1>1. \A x, c : In(x, c)' = In(x, c)
  BY <1>0, HeapKept
<1>2. \A x \in Things : \A c : Accounted(x, c) \subseteq Accounted(x, c)'
  BY <1>1 DEF Accounted, Grows, IgnoredFor
<1>3. Alone' => Alone
  BY <1>0, HeapKept, FinishedRemains DEF Alone
<1>. QED BY <1>0, <1>1, <1>2, <1>3, HeapKept

(* The references that come from instances of a class are those that count. *)
LEMMA OneCount ==
  ASSUME MetInv, NEW e \in pending, Report(e), NEW x \in Objects, NEW c \in ClassNodes
  PROVE  /\ node'[x].fan_in[c] <= node[x].fan_in[c] + IF e \in In(x, c) THEN 1 ELSE 0
         /\ node[x].fan_in[c] \in Nat /\ node'[x].fan_in[c] \in Nat
         /\ Ignoring(e) => node'[x].fan_in[c] = node[x].fan_in[c]
         /\ e.to # x => node'[x].fan_in[c] = node[x].fan_in[c]
<1>0. IInv /\ x \in Things /\ c \in Classes
  BY DEF MetInv, FinishInv, Things, ClassNodes
<1>1. /\ node'[x].fan_in[c] = IF x = e.to /\ ~Ignoring(e) THEN FanInAfter(e, c)
                                                         ELSE node[x].fan_in[c]
      /\ node[x].fan_in[c] \in 0 .. max_fan_in /\ max_fan_in \in Nat
      /\ node'[x].fan_in[c] \in 0 .. max_fan_in
  BY <1>0, ReportCounts
<1>2. CASE e \in In(x, c)
  BY <1>1, <1>2 DEF FanInAfter, Smaller
<1>3. CASE e \notin In(x, c)
  <2>1. x = e.to => FanInAfter(e, c) = node[x].fan_in[c]
    <3>1. SUFFICES ASSUME x = e.to, HasClassTag(e), c = ClassOf[e.from] PROVE FALSE
      BY DEF FanInAfter
    <3>2. e.from \in Objects
      BY <3>1 DEF HasClassTag
    <3>3. e \notin OwnHandles
      BY <3>2, ConstantsAssumption DEF OwnHandles, Things
    <3>. QED BY <1>3, <3>1, <3>2, <3>3 DEF In, MetInv, Report
  <2>. QED BY <1>1, <1>3, <2>1
<1>. QED BY <1>1, <1>2, <1>3

(* Not all referrers of a class are recorded yet, so the count is below the *)
(* limit, and the one that is reported is not dropped for it.               *)
LEMMA ReportAccounts ==
  ASSUME MetInv, Alone, NEW e \in pending, Report(e), pc' = "follow",
         NEW x \in Tracked, NEW c \in ClassNodes, e \in In(x, c), HasLeak(x, 0),
         Young(x, c) \/ Fresh(x, c)
  PROVE  e \in Accounted(x, c)'
<1>0. /\ IInv /\ Grows /\ x \in Objects /\ x \in Things /\ e \in heap /\ e.to = x
      /\ e.from \in Objects /\ ClassOf[e.from] = c /\ ClassOf[x] \in ClassNodes
  BY ReportGrows DEF MetInv, FinishInv, Tracked, Things, In
<1>1. Seen(e, 0)'
  BY <1>0, OneLeak, ReportIsSeen DEF Alone
<1>2. ~localReferenceOfThisThread(e)
  <2>1. e \in References /\ e.from \notin Classes \cup {HeapRoot}
    BY <1>0, ConstantsAssumption DEF IInv, WalkTypes, Things
  <2>. QED BY <2>1, RootsAssumption DEF localReferenceOfThisThread, isRootReference
<1>3. SUFFICES ASSUME e \notin Accounted(x, c) PROVE node'[x].fan_in[c] # max_fan_in
  <2>1. e \in Accounted(x, c) => e \in Accounted(x, c)'
    BY <1>0, AloneBefore
  <2>2. e \in In(x, c)'
    BY <1>0, AloneBefore
  <2>3. max_fan_in' = max_fan_in
    BY <1>0, GrowsKeepsSetup
  <2>. QED BY <1>0, <1>1, <1>2, <1>3, <2>1, <2>2, <2>3
         DEF Seen, Accounted, IgnoredFor, localReferenceOfThisThread
<1>. DEFINE I == In(x, c)
            A == Accounted(x, c)
<1>4. /\ A \subseteq I /\ A \ pending \subseteq I /\ I \ pending \subseteq I
      /\ e \in I /\ e \notin A /\ e \notin I \ pending
  BY <1>3 DEF Accounted
<1>5. FanInOutOfTheWay
  BY DEF Alone
<1>6. /\ Cardinality(A) \in Nat /\ Cardinality(I) \in Nat
      /\ Cardinality(A) < Cardinality(I)
      /\ 2 * Cardinality(I) <= max_fan_in /\ max_fan_in \in Nat
  BY <1>0, <1>4, <1>5, InFacts
<1>7. Cardinality(I \ pending) \in Nat /\ Cardinality(I \ pending) < Cardinality(I)
  BY <1>0, <1>4, <1>5, InFacts
<1>8. Cardinality(A \ pending) \in Nat /\ Cardinality(A \ pending) < Cardinality(I)
  BY <1>0, <1>4, <1>5, InFacts
<1>9. \/ node[x].fan_in[c] <= Cardinality(A) + Cardinality(I \ pending)
      \/ node[x].fan_in[c] <= Cardinality(A \ pending)
  BY DEF Young, Fresh
<1>10. /\ node'[x].fan_in[c] <= node[x].fan_in[c] + 1
       /\ node[x].fan_in[c] \in Nat /\ node'[x].fan_in[c] \in Nat
  BY <1>0, <1>4, OneCount
<1>. HIDE DEF A, I
<1>. QED BY <1>6, <1>7, <1>8, <1>9, <1>10

(* How the referrers of a class fare when a reference is reported.          *)
LEMMA OldRemains ==
  ASSUME Grows, NEW x \in Objects, NEW c, Old(x, c)
  PROVE  Old(x, c)'
<1>1. x \in Things
  BY DEF Things
<1>. QED BY <1>1, AloneBefore DEF Old

LEMMA YoungRemains ==
  ASSUME MetInv, Alone, NEW e \in pending, Report(e), pc' = "follow",
         NEW x \in Tracked, NEW c \in ClassNodes, HasLeak(x, 0), Young(x, c)
  PROVE  Young(x, c)'
<1>. DEFINE I == In(x, c)
            A == Accounted(x, c)
            B == Accounted(x, c)'
<1>0. /\ Grows /\ x \in Objects /\ x \in Things /\ pending' = pending \ {e}
      /\ FanInOutOfTheWay /\ In(x, c)' = I
  BY ReportGrows, AloneBefore DEF MetInv, FinishInv, Tracked, Things, Report, Alone
<1>1. A \subseteq B /\ A \subseteq I /\ B \subseteq I
  <2>1. B \subseteq In(x, c)'
    BY DEF Accounted
  <2>. QED BY <1>0, <2>1, AloneBefore DEF Accounted
<1>2. e \in I => e \in B
  BY ReportAccounts
<1>3. I \ pending \subseteq A /\ node[x].fan_in[c] <= Cardinality(A) + Cardinality(I \ pending)
  BY DEF Young
<1>4. I \ (pending \ {e}) \subseteq B
  BY <1>1, <1>2, <1>3
<1>5. Cardinality(A) <= Cardinality(B) /\ Cardinality(A) \in Nat /\ Cardinality(B) \in Nat
  BY <1>0, <1>1, InFacts
<1>6. /\ Cardinality(I \ pending) \in Nat
      /\ Cardinality(I \ (pending \ {e})) = Cardinality(I \ pending) + IF e \in I THEN 1 ELSE 0
  <2>1. I \ pending \in SUBSET I
    OBVIOUS
  <2>2. Cardinality(I \ pending) \in Nat
    BY <1>0, <2>1, InFacts
  <2>3. CASE e \in I
    <3>1. e \in I \ (I \ pending) /\ I \ (pending \ {e}) = (I \ pending) \cup {e}
      BY <2>3
    <3>2. Cardinality((I \ pending) \cup {e}) = Cardinality(I \ pending) + 1
      BY <1>0, <2>1, <3>1, InFacts
    <3>. QED BY <2>2, <2>3, <3>1, <3>2
  <2>4. CASE e \notin I
    <3>1. I \ (pending \ {e}) = I \ pending
      BY <2>4
    <3>. QED BY <2>2, <2>4, <3>1
  <2>. QED BY <2>3, <2>4
<1>7. /\ node'[x].fan_in[c] <= node[x].fan_in[c] + IF e \in I THEN 1 ELSE 0
      /\ node[x].fan_in[c] \in Nat /\ node'[x].fan_in[c] \in Nat
  BY <1>0, OneCount
<1>. HIDE DEF A, B, I
<1>8. node'[x].fan_in[c] <= Cardinality(B) + Cardinality(I \ (pending \ {e}))
  BY <1>3, <1>5, <1>6, <1>7
<1>. QED BY <1>0, <1>4, <1>8 DEF Young, A, B, I

LEMMA FreshRemains ==
  ASSUME MetInv, Alone, NEW e \in pending, Report(e), pc' = "follow",
         NEW x \in Tracked, NEW c \in ClassNodes, HasLeak(x, 0), Fresh(x, c)
  PROVE  Fresh(x, c)'
<1>. DEFINE I == In(x, c)
            A == Accounted(x, c) \ pending
            B == Accounted(x, c)' \ (pending \ {e})
<1>0. /\ Grows /\ x \in Objects /\ x \in Things /\ pending' = pending \ {e}
      /\ FanInOutOfTheWay /\ In(x, c)' = I
  BY ReportGrows, AloneBefore DEF MetInv, FinishInv, Tracked, Things, Report, Alone
<1>1. A \subseteq B /\ A \subseteq I /\ B \subseteq I
  <2>1. Accounted(x, c)' \subseteq In(x, c)' /\ Accounted(x, c) \subseteq In(x, c)
    BY DEF Accounted
  <2>. QED BY <1>0, <2>1, AloneBefore
<1>2. e \in I => e \in B
  BY ReportAccounts
<1>3. node[x].fan_in[c] <= Cardinality(A)
  BY DEF Fresh
<1>4. e \in I => e \in I \ A /\ A \cup {e} \subseteq B
  BY <1>1, <1>2
<1>5. Cardinality(A) <= Cardinality(B) /\ Cardinality(A) \in Nat /\ Cardinality(B) \in Nat
  BY <1>0, <1>1, InFacts
<1>6. e \in I => Cardinality(A) + 1 <= Cardinality(B)
  <2>1. e \in I => Cardinality(A \cup {e}) = Cardinality(A) + 1
    BY <1>0, <1>1, <1>4, InFacts
  <2>2. e \in I => Cardinality(A \cup {e}) <= Cardinality(B)
    BY <1>0, <1>1, <1>4, InFacts
  <2>. QED BY <2>1, <2>2
<1>7. /\ node'[x].fan_in[c] <= node[x].fan_in[c] + IF e \in I THEN 1 ELSE 0
      /\ node[x].fan_in[c] \in Nat /\ node'[x].fan_in[c] \in Nat
  BY <1>0, OneCount
<1>. HIDE DEF A, B, I
<1>8. node'[x].fan_in[c] <= Cardinality(B)
  BY <1>3, <1>5, <1>6, <1>7
<1>. QED BY <1>0, <1>8 DEF Fresh, B

LEMMA AloneTypes ==
  ASSUME AloneInv
  PROVE  MetInv /\ IInv /\ (Alone => numberOfLeaks = 1 /\ ~Finished(0) /\ 0 \in LeakNumbers)
BY OneLeak DEF AloneInv, MetInv, FinishInv, Alone

(* No object without the leak is counted.                                   *)
LEMMA ReportCountsWithLeak ==
  ASSUME AloneInv, Alone, NEW e \in pending, Report(e)
  PROVE  CountedWithLeak'
<1>0. MetInv /\ IInv /\ Grows /\ numberOfLeaks = 1 /\ numberOfLeaks' = 1 /\ MetInv'
  BY AloneTypes, ReportGrows, GrowsKeepsSetup, ReportMet
<1>1. SUFFICES ASSUME NEW x \in Objects, NEW c \in Classes, ~HasLeak(x, 0)'
               PROVE  node'[x].fan_in[c] = 0
  BY DEF CountedWithLeak
<1>2. x \in Things
  BY DEF Things
<1>3. ~HasLeak(x, 0)
  BY <1>0, <1>1, <1>2, OneLeak, OneLeakAfter DEF Grows, OneBit
<1>4. node[x].fan_in[c] = 0
  BY <1>3 DEF AloneInv, CountedWithLeak
<1>5. x = e.to => Ignoring(e)
  <2>1. SUFFICES ASSUME x = e.to, ~Ignoring(e) PROVE FALSE
    OBVIOUS
  <2>2. ~bitMapSet_isEmpty(node[x].leaks_related)
    BY <1>0, <2>1, ReportOutcomes DEF Counting, Recording, NotFollowed
  <2>. QED BY <1>0, <1>2, <1>3, <2>2, OneLeak
<1>. QED BY <1>0, <1>2, <1>4, <1>5, ReportCounts

(* What is recorded hands the leak on, and is no root, which would finish   *)
(* the leak.                                                                *)
LEMMA ReportRecordsByLeak ==
  ASSUME AloneInv, Alone, Alone', NEW e \in pending, Report(e)
  PROVE  RecordedByLeak'
<1>0. /\ MetInv /\ IInv /\ NodeInv /\ Grows /\ numberOfLeaks = 1 /\ numberOfLeaks' = 1 /\ MetInv'
      /\ IsBitmaskSet(leaks_finished) /\ leaks_finished.size = 1
  BY AloneTypes, ReportGrows, GrowsKeepsSetup, ReportMet DEF IInv, NodeInv, SetTypes
<1>1. \A x \in Things : HasLeak(x, 0) => HasLeak(x, 0)'
  BY <1>0, OneLeak, OneLeakAfter DEF Grows, OneBit
<1>2. SUFFICES ASSUME NEW x \in Objects, NEW f \in node'[x].refs
               PROVE  ~isRootReference(f.kind) /\ (f.from \in Things => HasLeak(f.from, 0)')
  BY DEF RecordedByLeak
<1>3. CASE f \in node[x].refs
  BY <1>1, <1>3 DEF AloneInv, RecordedByLeak
<1>4. CASE f \notin node[x].refs
  <2>0. x \in Things
    BY DEF Things
  <2>1. Recording(e) /\ f = e /\ x = e.to
    <3>1. CASE Ignoring(e)
      BY <1>2, <1>4, <3>1 DEF Ignoring
    <3>2. CASE Counting(e)
      <4>1. SetupKnown /\ NodeTypes /\ e.to \in Things /\ node \in [Things -> Node]
        BY <1>0, <3>2 DEF NodeInv, NodeTypes, Counting
      <4>2. Counted(e).refs = node[e.to].refs
        BY <4>1, CountedFacts
      <4>. QED BY <1>2, <1>4, <2>0, <3>2, <4>1, <4>2 DEF Counting
    <3>3. CASE Recording(e)
      <4>1. node'[x].refs = IF x = e.to THEN node[x].refs \cup {e} ELSE node[x].refs
        BY <1>0, <2>0, <3>3, RecordingFacts
      <4>. QED BY <1>2, <1>4, <3>3, <4>1
    <3>. QED BY <1>0, <3>1, <3>2, <3>3, ReportOutcomes
  <2>2. 0 \in node[x].leaks_related.bits
    BY <1>0, <2>0, <2>1, OneLeak DEF Recording
  <2>3. ~isRootReference(e.kind)
    <3>1. SUFFICES ASSUME isRootReference(e.kind) PROVE FALSE
      OBVIOUS
    <3>2. leaks_finished' = bitMapSet_addAll(leaks_finished, node'[x].leaks_related)
      BY <2>1, <3>1 DEF Recording
    <3>3. 0 \in node'[x].leaks_related.bits /\ IsBitmaskSet(node'[x].leaks_related)
      <4>1. Inherited(x, e, node'[x])
        BY <1>0, <2>0, <2>1, RecordingFacts
      <4>. QED BY <2>2, <4>1 DEF Inherited
    <3>4. 0 \in leaks_finished'.bits /\ leaks_finished'.size = 1
      BY <1>0, <3>2, <3>3, AddAllIsSet
    <3>. QED BY <3>4 DEF Alone, Finished, bitMapSet_contains
  <2>4. e.from \in Things => HasLeak(e.from, 0)'
    <3>1. SUFFICES ASSUME e.from \in Things PROVE HasLeak(e.from, 0)'
      OBVIOUS
    <3>2. Inherited(e.from, e, node'[e.from])
      BY <1>0, <2>1, <3>1, RecordingFacts
    <3>3. 0 \notin leaks_finished.bits
      BY <1>0 DEF Alone, Finished, bitMapSet_contains
    <3>4. 0 \in node'[e.from].leaks_related.bits
      BY <2>1, <2>2, <3>2, <3>3 DEF Inherited
    <3>. QED BY <1>0, <3>1, <3>4, OneLeakAfter DEF OneBit
  <2>. QED BY <2>1, <2>3, <2>4
<1>. QED BY <1>3, <1>4

(* A root of an object with the leak, or a class that refers to it, is      *)
(* recorded when it is reported.                                            *)
LEMMA ReportRecordsRoots ==
  ASSUME MetInv, Alone, NEW e \in pending, Report(e), pc' = "follow", e \in heap,
         e.to \in Tracked, HasLeak(e.to, 0), e.from \notin Objects, Followed(e, 0)
  PROVE  e \in node'[e.to].refs
<1>0. IInv /\ e.to \in Things /\ ClassOf[e.to] \in ClassNodes /\ 0 \in LeakNumbers
  BY OneLeak DEF MetInv, FinishInv, Tracked, Things, Alone
<1>1. Seen(e, 0)'
  BY <1>0, ReportIsSeen DEF Alone
<1>2. ~HasClassTag(e)'
  BY DEF HasClassTag
<1>. QED BY <1>1, <1>2 DEF Seen, Followed, IgnoredFor, localReferenceOfThisThread

(* The leak is not new to what is known.                                    *)
LEMMA KnownBefore ==
  ASSUME AloneInv, Alone, NEW e \in pending, Report(e)
  PROVE  Known' \subseteq Known
<1>0. /\ MetInv /\ IInv /\ Grows /\ MetInv' /\ numberOfLeaks' = 1 /\ 0 \in LeakNumbers
      /\ iteration' = iteration /\ Reachable' = Reachable
  BY AloneTypes, ReportGrows, GrowsKeepsSetup, ReportMet, AloneBefore DEF Grows
<1>1. SUFFICES ASSUME NEW x \in Known' PROVE x \in Known
  OBVIOUS
<1>2. x \in Tracked /\ x \in Things
  BY DEF Known, Tracked, Things
<1>3. CASE x \in Reachable /\ ChainTo(x, iteration - 1)'
  <2>1. ChainTo(x, iteration - 1)
    <3>1. \A n : ChainTo(x, n)' <=> ChainTo(x, n)
      BY <1>0, AloneBefore
    <3>. QED BY <1>0, <1>3, <3>1 DEF ChainTo
  <2>. QED BY <1>2, <1>3, <2>1 DEF Known
<1>4. CASE 0 \notin progress' /\ HasLeak(x, 0)'
  <2>1. 0 \notin progress
    BY <1>0, <1>4 DEF Grows
  <2>2. 0 \in node[x].leaks_related.bits
    BY <1>0, <1>2, <1>4, OneLeakAfter, GainIsProgress DEF Alone, OneBit
  <2>. QED BY <1>0, <1>2, <2>1, <2>2, OneLeak DEF Known, Alone
<1>. QED BY <1>0, <1>1, <1>3, <1>4 DEF Known

LEMMA ReportFollows ==
  ASSUME AloneInv, Alone, NEW e \in pending, Report(e), pc' = "follow"
  PROVE  FollowInv'
<1>0. /\ MetInv /\ IInv /\ Grows /\ numberOfLeaks = 1
      /\ pending' = pending \ {e} /\ heap' = heap
      /\ FollowInv /\ Known' \subseteq Known
  BY AloneTypes, ReportGrows, KnownBefore DEF Report, AloneInv
<1>1. ASSUME NEW x \in Tracked PROVE x \in Objects /\ x \in Things
  BY DEF Tracked, Things
<1>2. ASSUME NEW x \in Tracked, NEW c \in ClassNodes
      PROVE  (Old(x, c) \/ Young(x, c) \/ Fresh(x, c))'
  <2>1. CASE HasLeak(x, 0)
    BY <1>0, <1>1, <2>1, OldRemains, YoungRemains, FreshRemains DEF FollowInv
  <2>2. CASE ~HasLeak(x, 0)
    <3>1. node[x].fan_in[c] = 0
      BY <1>1, <2>2 DEF AloneInv, CountedWithLeak, ClassNodes
    <3>2. node'[x].fan_in[c] = 0
      <4>1. x = e.to => Ignoring(e)
        <5>1. SUFFICES ASSUME x = e.to, ~Ignoring(e) PROVE FALSE
          OBVIOUS
        <5>2. ~bitMapSet_isEmpty(node[x].leaks_related)
          BY <1>0, <5>1, ReportOutcomes DEF Counting, Recording, NotFollowed
        <5>. QED BY <1>0, <1>1, <2>2, <5>2, OneLeak
      <4>. QED BY <1>0, <1>1, <3>1, <4>1, OneCount
    <3>3. Cardinality(Accounted(x, c)' \ pending') \in Nat
      <4>1. Accounted(x, c)' \ pending' \subseteq In(x, c)
        <5>1. Accounted(x, c)' \subseteq In(x, c)'
          BY DEF Accounted
        <5>. QED BY <1>0, <5>1, AloneBefore
      <4>. QED BY <1>0, <1>1, <4>1, InFacts DEF Alone
    <3>. QED BY <3>2, <3>3 DEF Fresh
  <2>. QED BY <2>1, <2>2
<1>3. ASSUME NEW x \in Known'
      PROVE  /\ HasLeak(x, 0)'
             /\ \A c \in ClassNodes : (Old(x, c) \/ Young(x, c))'
             /\ \A f \in heap \ pending' :
                  f.to = x /\ f.from \notin Objects /\ Followed(f, 0) => f \in node'[x].refs
  <2>1. x \in Known /\ x \in Tracked /\ x \in Things /\ HasLeak(x, 0)
    BY <1>0, <1>1 DEF FollowInv, Known
  <2>2. HasLeak(x, 0)'
    <3>1. MetInv' /\ numberOfLeaks' = 1
      BY <1>0, ReportMet, GrowsKeepsSetup
    <3>. QED BY <1>0, <2>1, <3>1, OneLeak, OneLeakAfter DEF Grows, OneBit
  <2>3. \A c \in ClassNodes : (Old(x, c) \/ Young(x, c))'
    BY <1>0, <1>1, <2>1, OldRemains, YoungRemains DEF FollowInv
  <2>4. ASSUME NEW f \in heap \ pending', f.to = x, f.from \notin Objects, Followed(f, 0)
        PROVE  f \in node'[x].refs
    <3>1. CASE f = e
      BY <1>0, <2>1, <2>4, <3>1, ReportRecordsRoots
    <3>2. CASE f \notin pending
      BY <1>0, <2>1, <2>4, <3>2 DEF FollowInv, Grows
    <3>. QED BY <1>0, <2>4, <3>1, <3>2
  <2>. QED BY <2>2, <2>3, <2>4
<1>. QED BY <1>0, <1>2, <1>3 DEF FollowInv, Followed

(* A chain: what it begins with is a chain, and it is live if its end is.   *)
LEMMA ChainFacts ==
  ASSUME MetInv, numberOfLeaks = 1, NEW n \in Nat, NEW c \in Chains(0, n), NEW m \in 0 .. n
  PROVE  /\ c[m] \in Tracked
         /\ \A k \in Nat : m <= k => ChainTo(c[m], k)
         /\ m < n => Holds(c[m + 1], c[m], 0)
<1>1. /\ c \in [0 .. n -> Objects] /\ c[0] = LeakObject[0]
      /\ \A k \in 1 .. n : Holds(c[k], c[k - 1], 0)
  BY DEF Chains
<1>2. c[m] \in Tracked
  <2>1. c[m] \in Objects
    BY <1>1
  <2>2. CASE m = 0
    BY <1>1, <2>2, OneLeak DEF Tracked
  <2>3. CASE m # 0
    BY <1>1, <2>1, <2>3 DEF Holds, Tracked
  <2>. QED BY <2>2, <2>3
<1>3. [k \in 0 .. m |-> c[k]] \in Chains(0, m)
  <2>. DEFINE d == [k \in 0 .. m |-> c[k]]
  <2>1. d \in [0 .. m -> Objects] /\ d[0] = LeakObject[0]
    BY <1>1
  <2>2. ASSUME NEW k \in 1 .. m PROVE Holds(d[k], d[k - 1], 0)
    <3>1. d[k] = c[k] /\ d[k - 1] = c[k - 1] /\ k \in 1 .. n
      OBVIOUS
    <3>. HIDE DEF d
    <3>. QED BY <1>1, <3>1
  <2>. HIDE DEF d
  <2>3. d \in Chains(0, m)
    BY <2>1, <2>2 DEF Chains
  <2>. QED BY <2>3 DEF d
<1>4. ASSUME NEW k \in Nat, m <= k PROVE ChainTo(c[m], k)
  <2>. DEFINE d == [j \in 0 .. m |-> c[j]]
  <2>1. d[m] = c[m] /\ m \in 0 .. k
    BY <1>4
  <2>. HIDE DEF d
  <2>2. d \in Chains(0, m)
    BY <1>3 DEF d
  <2>. QED BY <2>1, <2>2 DEF ChainTo
<1>5. m < n => Holds(c[m + 1], c[m], 0)
  <2>1. m < n => m + 1 \in 1 .. n /\ m + 1 - 1 = m
    OBVIOUS
  <2>. QED BY <1>1, <2>1
<1>. QED BY <1>2, <1>4, <1>5

LEMMA ChainIsLive ==
  ASSUME MetInv, numberOfLeaks = 1, NEW n \in Nat, NEW c \in Chains(0, n), c[n] \in Reachable,
         NEW m \in 0 .. n
  PROVE  c[m] \in Reachable
<1>. DEFINE N == {j \in Nat : j <= n => c[n - j] \in Reachable}
<1>1. 0 \in N
  OBVIOUS
<1>2. ASSUME NEW j \in Nat, j \in N PROVE j + 1 \in N
  <2>1. SUFFICES ASSUME j + 1 <= n PROVE c[n - (j + 1)] \in Reachable
    OBVIOUS
  <2>. DEFINE k == n - (j + 1)
  <2>2. k \in 0 .. n /\ k < n /\ k + 1 = n - j
    BY <2>1
  <2>3. c[k + 1] \in Reachable
    BY <1>2, <2>1, <2>2
  <2>. HIDE DEF k
  <2>4. c[k] \in Tracked /\ Holds(c[k + 1], c[k], 0)
    BY <2>2, ChainFacts
  <2>5. PICK e \in heap : e.from = c[k + 1] /\ e.to = c[k]
    BY <2>4 DEF Holds
  <2>6. c[k] \in Reachable
    BY <2>3, <2>4, <2>5, ReachableIsClosed DEF Tracked
  <2>. QED BY <2>6 DEF k
<1>3. Nat \subseteq N
  <2>. HIDE DEF N
  <2>. QED BY <1>1, <1>2, Induction
<1>4. n - m \in Nat /\ n - m <= n /\ n - (n - m) = m
  OBVIOUS
<1>. QED BY <1>3, <1>4

(* At the end of a walk, what holds a known object has the leak.            *)
WalkEnds == pc = "follow" /\ \A e \in pending : ~Reportable(e)

LEMMA HoldersGetTheLeak ==
  ASSUME AloneInv, Alone, WalkEnds, NEW y \in Known, NEW x \in Reachable, Holds(x, y, 0)
  PROVE  HasLeak(x, 0)
<1>1. PICK e \in heap : e.from = x /\ e.to = y /\ Followed(e, 0)
  BY DEF Holds
<1>. DEFINE c == ClassOf[x]
<1>2. x \in Objects /\ c \in ClassNodes /\ y \in Objects /\ x \in Things
  BY DEF Reachable, Holds, Known, Tracked, Things
<1>3. e \in In(y, c) /\ e \notin pending
  BY <1>1, <1>2, WalkMetEverything DEF In, AloneInv, WalkEnds
<1>4. Old(y, c) \/ Young(y, c)
  BY <1>2 DEF AloneInv, FollowInv, WalkEnds
<1>5. e \in Accounted(y, c)
  BY <1>1, <1>3, <1>4 DEF Old, Young
<1>6. e \in node[y].refs
  BY <1>1, <1>5 DEF Accounted, Followed
<1>. QED BY <1>1, <1>2, <1>6 DEF AloneInv, RecordedByLeak

(* The walks go on: one reference further.                                  *)
LEMMA EndLoops ==
  ASSUME AloneInv, Alone, WalkEnds
  PROVE  LoopInv
<1>0. MetInv /\ IInv /\ numberOfLeaks = 1 /\ FollowInv /\ iteration \in Nat /\ iteration > 0
      /\ FanInOutOfTheWay
  BY AloneTypes DEF AloneInv, WalkEnds, IInv, WalkTypes, MetInv, Alone
<1>1. ASSUME NEW x \in Reachable, ChainTo(x, iteration) PROVE HasLeak(x, 0)
  <2>1. PICK m \in 0 .. iteration : \E c \in Chains(0, m) : c[m] = x
    BY <1>1 DEF ChainTo
  <2>2. PICK c \in Chains(0, m) : c[m] = x
    BY <2>1
  <2>3. m \in Nat /\ x \in Tracked
    BY <1>0, <2>1, <2>2, ChainFacts
  <2>4. CASE m <= iteration - 1
    <3>1. ChainTo(x, iteration - 1)
      BY <1>0, <2>2, <2>3, <2>4, ChainFacts
    <3>2. x \in Known
      BY <1>1, <2>3, <3>1 DEF Known
    <3>. QED BY <1>0, <3>2 DEF FollowInv
  <2>5. CASE m = iteration
    <3>. DEFINE k == m - 1
    <3>1. k \in 0 .. m /\ k \in Nat /\ k < m /\ k + 1 = m /\ k <= iteration - 1
      BY <1>0, <2>5
    <3>. HIDE DEF k
    <3>2. c[k] \in Tracked /\ ChainTo(c[k], iteration - 1) /\ Holds(x, c[k], 0)
      BY <1>0, <2>2, <2>3, <3>1, ChainFacts
    <3>3. c[k] \in Reachable
      BY <1>0, <1>1, <2>2, <2>3, <3>1, ChainIsLive
    <3>4. c[k] \in Known
      BY <3>2, <3>3 DEF Known
    <3>. QED BY <1>1, <3>2, <3>4, HoldersGetTheLeak
  <2>. QED BY <1>0, <2>1, <2>4, <2>5
<1>2. ASSUME NEW x \in Tracked, NEW c \in ClassNodes PROVE Rested(x, c)
  <2>1. x \in Objects
    BY DEF Tracked
  <2>2. CASE Old(x, c)
    BY <2>2 DEF Rested
  <2>3. CASE Young(x, c)
    <3>1. ASSUME NEW e \in In(x, c), e.from \in Reachable PROVE e \in Accounted(x, c)
      <4>1. e \notin pending
        BY <1>0, <3>1, WalkMetEverything DEF WalkEnds, In
      <4>. QED BY <2>3, <4>1 DEF Young
    <3>. QED BY <3>1 DEF Rested, Old
  <2>4. CASE Fresh(x, c)
    <3>. DEFINE A == Accounted(x, c)
    <3>1. A \in SUBSET In(x, c) /\ A \ pending \in SUBSET A /\ A \ pending \in SUBSET In(x, c)
      BY DEF Accounted
    <3>2. Cardinality(A \ pending) <= Cardinality(A) /\ Cardinality(A) \in Nat
      BY <1>0, <2>1, <3>1, InFacts
    <3>3. Cardinality(A \ pending) \in Nat
      BY <1>0, <2>1, <3>1, InFacts
    <3>4. node[x].fan_in[c] \in Nat
      <4>1. node[x] \in Node /\ c \in Classes
        BY <1>0, <2>1 DEF IInv, NodeInv, NodeTypes, Things, ClassNodes
      <4>2. node[x].fan_in[c] \in 0 .. max_fan_in
        BY <4>1 DEF Node
      <4>. QED BY <4>2
    <3>5. node[x].fan_in[c] <= Cardinality(A \ pending)
      BY <2>4 DEF Fresh
    <3>. HIDE DEF A
    <3>6. node[x].fan_in[c] <= Cardinality(A)
      BY <3>2, <3>3, <3>4, <3>5
    <3>. QED BY <3>6 DEF Rested, A
  <2>. QED BY <1>0, <2>2, <2>3, <2>4 DEF FollowInv
<1>. QED BY <1>1, <1>2 DEF LoopInv

(* They do not: no root holds the leak within the limit, or it would be     *)
(* finished.                                                                *)
LEMMA EndIsDone ==
  ASSUME AloneInv, Alone, WalkEnds, ~(hasUnfinished /\ iteration < reference_chain_length)
  PROVE  NoRootHoldsIt
<1>0. /\ MetInv /\ IInv /\ numberOfLeaks = 1 /\ FollowInv /\ iteration \in Nat /\ iteration > 0
      /\ iteration <= reference_chain_length /\ reference_chain_length \in Nat
      /\ 0 \in LeakNumbers /\ ~Finished(0)
  BY AloneTypes, SetupFacts
     DEF AloneInv, WalkEnds, IInv, NodeInv, WalkTypes, MetInv, Alone
<1>1. SUFFICES ASSUME NEW n \in 0 .. reference_chain_length - 1, NEW c \in Chains(0, n),
                      RootHolds(c[n], 0)
               PROVE  FALSE
  BY DEF NoRootHoldsIt
<1>2. n \in Nat /\ n \in 0 .. n
  BY <1>0
<1>3. PICK e \in heap : isRootReference(e.kind) /\ Followed(e, 0) /\ e.to = c[n]
  BY <1>1 DEF RootHolds
<1>4. e.from \in Classes \cup {HeapRoot} /\ e.from \notin Objects
  <2>1. e \in References
    BY <1>0 DEF IInv, WalkTypes
  <2>. QED BY <1>3, <2>1, RootsAssumption, ConstantsAssumption DEF Things
<1>5. c[n] \in Tracked /\ c[n] \in Objects /\ ChainTo(c[n], n)
  BY <1>0, <1>2, ChainFacts DEF Tracked
<1>6. c[n] \in Reachable
  BY <1>3, <1>4, <1>5, ReachableIsClosed
<1>7. c[n] \in Known
  <2>1. CASE iteration = reference_chain_length
    <3>1. iteration - 1 \in Nat /\ n <= iteration - 1
      BY <1>0, <2>1
    <3>2. ChainTo(c[n], iteration - 1)
      BY <1>0, <1>2, <3>1, ChainFacts
    <3>. QED BY <1>5, <1>6, <3>2 DEF Known
  <2>2. CASE iteration # reference_chain_length
    <3>1. 0 \notin progress
      BY <1>0, <2>2 DEF hasUnfinished, Finished
    <3>. DEFINE N == {j \in Nat : j <= n => HasLeak(c[j], 0)}
    <3>2. 0 \in N
      <4>1. c[0] = LeakObject[0]
        BY DEF Chains
      <4>. QED BY <1>0, <4>1, OneLeak
    <3>3. ASSUME NEW j \in Nat, j \in N PROVE j + 1 \in N
      <4>1. SUFFICES ASSUME j + 1 <= n PROVE HasLeak(c[j + 1], 0)
        OBVIOUS
      <4>2. j \in 0 .. n /\ j + 1 \in 0 .. n /\ j < n /\ HasLeak(c[j], 0)
        BY <1>2, <3>3, <4>1
      <4>3. c[j] \in Tracked /\ Holds(c[j + 1], c[j], 0)
        BY <1>0, <1>2, <4>2, ChainFacts
      <4>4. c[j + 1] \in Reachable
        BY <1>0, <1>2, <1>6, <4>2, ChainIsLive
      <4>5. c[j] \in Known
        BY <3>1, <4>2, <4>3 DEF Known
      <4>. QED BY <4>3, <4>4, <4>5, HoldersGetTheLeak
    <3>4. Nat \subseteq N
      <4>. HIDE DEF N
      <4>. QED BY <3>2, <3>3, Induction
    <3>5. HasLeak(c[n], 0)
      BY <1>2, <3>4
    <3>. QED BY <1>5, <3>1, <3>5 DEF Known
  <2>. QED BY <2>1, <2>2
<1>8. e \notin pending
  BY <1>0, <1>4, WalkMetEverything DEF WalkEnds
<1>9. e \in node[c[n]].refs
  BY <1>0, <1>3, <1>4, <1>7, <1>8 DEF FollowInv
<1>. QED BY <1>3, <1>5, <1>9 DEF AloneInv, RecordedByLeak

LEMMA InitAlone == Init => AloneInv
<1>. SUFFICES ASSUME Init, Alone
              PROVE  /\ RecordedByLeak /\ CountedWithLeak
                     /\ pc = "loop" => LoopInv
                     /\ pc = "follow" => FollowInv
                     /\ pc = "done" => NoRootHoldsIt
  BY InitMet DEF AloneInv
<1>0. MetInv /\ numberOfLeaks = 1 /\ FanInOutOfTheWay /\ reference_chain_length \in Nat
  BY InitMet, InitNodes, SetupFacts DEF Alone
<1>1. RecordedByLeak /\ CountedWithLeak
  BY InitNodes DEF RecordedByLeak, CountedWithLeak, Things
<1>2. ASSUME NEW x \in Reachable, ChainTo(x, iteration) PROVE HasLeak(x, 0)
  <2>1. PICK c \in Chains(0, 0) : c[0] = x
    BY <1>2 DEF Init, ChainTo
  <2>2. x = LeakObject[0]
    BY <2>1 DEF Chains
  <2>. QED BY <1>0, <2>2, OneLeak
<1>3. ASSUME NEW x \in Tracked, NEW c \in ClassNodes PROVE Rested(x, c)
  <2>1. x \in Objects /\ x \in Things /\ c \in Classes
    BY DEF Tracked, Things, ClassNodes
  <2>2. node[x].fan_in[c] = 0
    BY <2>1, InitNodes
  <2>3. Accounted(x, c) \in SUBSET In(x, c)
    BY DEF Accounted
  <2>4. Cardinality(Accounted(x, c)) \in Nat
    BY <1>0, <2>1, <2>3, InFacts
  <2>. QED BY <2>2, <2>4 DEF Rested
<1>4. pc = "done" => NoRootHoldsIt
  BY <1>0 DEF Init, NoRootHoldsIt
<1>. QED BY <1>1, <1>2, <1>3, <1>4 DEF LoopInv, Init

LEMMA StartAlone ==
  ASSUME AloneInv, Alone, StartWalk
  PROVE  FollowInv'
<1>0. /\ MetInv /\ IInv /\ LoopInv /\ iteration \in Nat
      /\ UNCHANGED <<heap, setup, node>>
      /\ iteration' = iteration + 1 /\ progress' = {} /\ heap \subseteq pending'
  BY AloneTypes DEF AloneInv, StartWalk, IInv, WalkTypes
<1>1. ASSUME NEW x \in Tracked, NEW c \in ClassNodes PROVE (Old(x, c) \/ Young(x, c))'
  <2>1. Rested(x, c) /\ x \in Objects
    BY <1>0 DEF LoopInv, Tracked
  <2>2. In(x, c)' = In(x, c) /\ Accounted(x, c)' = Accounted(x, c)
    BY <1>0, HeapKept DEF Accounted, IgnoredFor
  <2>3. CASE Old(x, c)
    BY <1>0, <2>2, <2>3, HeapKept DEF Old
  <2>4. CASE node[x].fan_in[c] <= Cardinality(Accounted(x, c))
    <3>1. In(x, c)' \ pending' = {}
      BY <1>0 DEF In
    <3>2. Accounted(x, c) \in SUBSET In(x, c)
      BY DEF Accounted
    <3>3. Cardinality(Accounted(x, c)) \in Nat
      BY <1>0, <2>1, <3>2, InFacts DEF Alone
    <3>4. Cardinality({}) = 0
      BY FS_EmptySet
    <3>5. node'[x].fan_in[c] <= Cardinality(Accounted(x, c)') + Cardinality(In(x, c)' \ pending')
      BY <1>0, <2>2, <2>4, <3>1, <3>3, <3>4
    <3>. QED BY <3>1, <3>5 DEF Young
  <2>. QED BY <2>1, <2>3, <2>4 DEF Rested
<1>2. ASSUME NEW x \in Known' PROVE HasLeak(x, 0)' /\ x \in Tracked
  <2>1. HasLeak(x, 0)' <=> HasLeak(x, 0)
    BY <1>0 DEF HasLeak
  <2>2. iteration' - 1 = iteration
    BY <1>0
  <2>3. CASE x \in Reachable' /\ ChainTo(x, iteration - 1)'
    <3>1. x \in Reachable /\ ChainTo(x, iteration)
      BY <1>0, <2>2, <2>3, HeapKept DEF ChainTo
    <3>. QED BY <1>0, <1>2, <2>1, <3>1 DEF LoopInv, Known
  <2>. QED BY <1>2, <2>3 DEF Known
<1>3. heap' \ pending' = {}
  BY <1>0
<1>. QED BY <1>1, <1>2, <1>3 DEF FollowInv

(* What is said at the end of a walk holds when the walk has ended.         *)
LEMMA AloneKept ==
  ASSUME UNCHANGED <<heap, setup, mutations, node, leaks_finished>>
  PROVE  /\ Alone' => Alone
         /\ RecordedByLeak => RecordedByLeak'
         /\ CountedWithLeak => CountedWithLeak'
         /\ NoRootHoldsIt => NoRootHoldsIt'
         /\ iteration' = iteration => (LoopInv => LoopInv')
<1>1. Alone' => Alone
  BY HeapKept DEF Alone, Finished
<1>2. \A x, i : HasLeak(x, i)' <=> HasLeak(x, i)
  BY DEF HasLeak
<1>3. RecordedByLeak => RecordedByLeak'
  BY <1>2 DEF RecordedByLeak
<1>4. CountedWithLeak => CountedWithLeak'
  BY <1>2 DEF CountedWithLeak
<1>5. NoRootHoldsIt => NoRootHoldsIt'
  <2>1. \A x, i : RootHolds(x, i)' <=> RootHolds(x, i)
    BY DEF RootHolds, Followed, IgnoredFor
  <2>. QED BY <2>1, HeapKept DEF NoRootHoldsIt
<1>6. ASSUME iteration' = iteration, LoopInv PROVE LoopInv'
  <2>1. \A x, c : In(x, c)' = In(x, c) /\ Accounted(x, c)' = Accounted(x, c)
    BY HeapKept DEF Accounted, IgnoredFor
  <2>2. \A x, c : Rested(x, c) => Rested(x, c)'
    BY <2>1, HeapKept DEF Rested, Old
  <2>3. \A x : ChainTo(x, iteration)' <=> ChainTo(x, iteration)
    BY <1>6, HeapKept DEF ChainTo
  <2>. QED BY <1>2, <1>6, <2>2, <2>3, HeapKept DEF LoopInv
<1>. QED BY <1>1, <1>3, <1>4, <1>5, <1>6

LEMMA NextAlone == AloneInv /\ [Next]_vars => AloneInv'
<1>. SUFFICES ASSUME AloneInv, [Next]_vars, Alone'
              PROVE  /\ RecordedByLeak' /\ CountedWithLeak'
                     /\ pc' = "loop" => LoopInv'
                     /\ pc' = "follow" => FollowInv'
                     /\ pc' = "done" => NoRootHoldsIt'
  BY NextMet DEF AloneInv
<1>0. MetInv
  BY DEF AloneInv
<1>1. CASE StartWalk
  <2>1. UNCHANGED <<heap, setup, mutations, node, leaks_finished>> /\ pc' = "follow"
    BY <1>1 DEF StartWalk
  <2>2. Alone /\ RecordedByLeak' /\ CountedWithLeak'
    BY <2>1, AloneKept DEF AloneInv
  <2>. QED BY <1>1, <2>1, <2>2, StartAlone
<1>2. CASE \E e \in pending : Report(e)
  <2>1. PICK e \in pending : Report(e)
    BY <1>2
  <2>2. Grows /\ Alone
    BY <1>0, <2>1, ReportGrows, AloneBefore DEF MetInv, FinishInv
  <2>3. pc' \in {"follow", "fatal"}
    BY <2>1 DEF Report, cbObjectTagReferrer
  <2>. QED BY <2>1, <2>2, <2>3, ReportCountsWithLeak, ReportRecordsByLeak, ReportFollows
<1>3. CASE EndWalk
  <2>1. /\ UNCHANGED <<heap, setup, mutations, node, leaks_finished, iteration>>
        /\ WalkEnds
        /\ pc' = IF hasUnfinished /\ iteration < reference_chain_length THEN "loop" ELSE "done"
    BY <1>3 DEF EndWalk, agentVars, WalkEnds
  <2>2. Alone /\ RecordedByLeak' /\ CountedWithLeak'
    BY <2>1, AloneKept DEF AloneInv
  <2>3. LoopInv'
    BY <2>1, <2>2, EndLoops, AloneKept
  <2>4. pc' = "done" => NoRootHoldsIt'
    BY <2>1, <2>2, EndIsDone, AloneKept
  <2>. QED BY <2>1, <2>2, <2>3, <2>4
<1>4. CASE \E e \in setup.changeable : Mutate(e)
  <2>1. mutations' = mutations + 1 /\ mutations \in Nat
    BY <1>0, <1>4 DEF Mutate, MetInv, FinishInv, IInv, WalkTypes
  <2>. QED BY <2>1 DEF Alone
<1>5. CASE UNCHANGED vars
  <2>1. UNCHANGED <<heap, setup, mutations, tagged, node, leaks_finished, progress, iteration,
                    pending, reached, pc>>
    BY <1>5 DEF vars, agentVars
  <2>2. /\ Alone /\ RecordedByLeak' /\ CountedWithLeak'
        /\ (pc = "loop" => LoopInv') /\ (pc = "done" => NoRootHoldsIt')
    BY <2>1, AloneKept DEF AloneInv
  <2>3. pc = "follow" => FollowInv'
    <3>1. SUFFICES ASSUME FollowInv PROVE FollowInv'
      BY <2>2 DEF AloneInv
    <3>2. \A x, c : In(x, c)' = In(x, c) /\ Accounted(x, c)' = Accounted(x, c)
      BY <2>1, HeapKept DEF Accounted, IgnoredFor
    <3>3. \A x, c : /\ Old(x, c)' <=> Old(x, c)
                    /\ Young(x, c)' <=> Young(x, c)
                    /\ Fresh(x, c)' <=> Fresh(x, c)
      BY <2>1, <3>2, HeapKept DEF Old, Young, Fresh
    <3>4. \A x, i : HasLeak(x, i)' <=> HasLeak(x, i)
      BY <2>1 DEF HasLeak
    <3>5. Known' = Known
      <4>1. \A x : ChainTo(x, iteration - 1)' <=> ChainTo(x, iteration - 1)
        BY <2>1, HeapKept DEF ChainTo
      <4>. QED BY <2>1, <3>4, <4>1, HeapKept DEF Known
    <3>. QED BY <2>1, <3>1, <3>3, <3>4, <3>5 DEF FollowInv, Followed, IgnoredFor
  <2>. QED BY <2>1, <2>2, <2>3
<1>. QED BY <1>1, <1>2, <1>3, <1>4, <1>5 DEF Next, Dump

(* A root that holds the only leak through at most reference_chain_length   *)
(* references is found by that many walks, and leaves a chain in the nodes, *)
(* when local references are considered.                                    *)
THEOREM LoneLeakIsAlwaysFound ==
  ASSUME consider_local_references
  PROVE  Spec => []LoneLeakIsFound
<1>1. AloneInv => LoneLeakIsFound
  <2>1. SUFFICES ASSUME AloneInv, numberOfLeaks = 1,
                        pc = "done", mutations = 0, FanInOutOfTheWay,
                        NEW n \in 0 .. reference_chain_length - 1, NEW c \in Chains(0, n),
                        RootHolds(c[n], 0)
                 PROVE  Findable(0)
    BY OneLeak DEF LoneLeakIsFound, ChainWithinLimitIsFound, AloneInv
  <2>2. MetInv /\ FinishInv /\ NoSpareBits /\ 0 \in LeakNumbers
    BY <2>1, OneLeak DEF AloneInv, MetInv
  <2>3. Finished(0)
    <3>1. SUFFICES ASSUME ~Finished(0) PROVE FALSE
      OBVIOUS
    <3>2. NoRootHoldsIt
      BY <2>1, <3>1 DEF AloneInv, Alone
    <3>. QED BY <2>1, <3>2 DEF NoRootHoldsIt
  <2>4. RootMet(0)
    BY <2>2, <2>3 DEF Finished, bitMapSet_contains, FinishInv
  <2>. QED BY <2>2, <2>4, RootMetIsFindable
<1>. QED BY <1>1, InitAlone, NextAlone, PTL DEF Spec
===============================================================================
