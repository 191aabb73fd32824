--------------------------- MODULE LeakSearchProofs ---------------------------
(***************************************************************************)
(* Tags and nodes of LeakSearch, for any heap, rules, addresses and number *)
(* of dumps: no walk meets a tag that an earlier dump has left, and where  *)
(* nothing became garbage at the wrong time a node finds its own object.   *)
(***************************************************************************)
EXTENDS LeakSearch, IgnoreRulesProofs, FiniteSetTheorems

(* What tags are claimed of: what can be reached, and in quiet runs garbage *)
(* as well.                                                                 *)
Scope == loaded \cup reachable \cup IF quiet THEN garbage ELSE {}

(* The tag is 0, or the node that was made for the object.                  *)
HasOwnNode(o) ==
  \/ tag[o] = Untagged
  \/ \E a \in Addresses : node[a] # None /\ tag[o] = NodeTag(a) /\ node[a].owner = o

Phase ==
  /\ pc \notin {"search", "tagAgain", "walks", "print", "fatal"} =>
       \A a \in Addresses : node[a] = None
  /\ pc = "search" => \A a \in Addresses : node[a] # None => a \in leaks
  /\ pc # "search" => todo = {}
  /\ classNodes \subseteq loaded

AbsentIsUntagged == \A o \in Objects \ Exists : tag[o] = Untagged

ClassTags ==
  pc = "firstWalk" => \A c \in Classes \ {ClassClass} : tag[c] \in {Untagged} \cup InitialTags

NoGarbageYet == quiet /\ pc \in {"tagClasses", "firstWalk"} => garbage = {}

InstanceTags ==
  \A o \in Scope \ Classes :
    /\ pc \in {"getObjects", "search", "tagAgain"} => HasOwnNode(o) \/ tag[o] \in InitialTags
    /\ pc = "search"    => tag[o] \notin InitialTags \/ o \in todo
    /\ pc = "tagAgain" => tag[o] \notin InitialTags

WalkTags ==
  pc \in {"walks", "print"} =>
    \A o \in Scope : HasOwnNode(o) \/ (o \in classNodes /\ tag[o] = NodeTag(o))

OwnHandles ==
  quiet => /\ pc # "fatal"
           /\ \A a \in Addresses : node[a] # None => node[a].obj \in {None, node[a].owner}

IInv ==
  /\ TypeOK /\ Phase /\ AbsentIsUntagged /\ ClassTags /\ NoGarbageYet
  /\ InstanceTags /\ WalkTags /\ OwnHandles
-----------------------------------------------------------------------------
(* A class takes the rules of a name that is there by one sm_put.           *)
LEMMA OneNameIsOnePut ==
  ASSUME NEW V, NEW map, IsMap(map, V), NEW key \in Keys, sm_exists(map, key)
  PROVE  WithoutRules(map, {key}) = sm_put(map, key, <<>>)
<1> DEFINE old(b) == WithoutRules(map, {key})[b]
           p      == get_pair(map[index(key)], key)
<1>1. index(key) \in 0 .. (Capacity - 1) /\ map \in [0 .. (Capacity - 1) -> Seq(Pairs(V))]
  BY IndexInRange DEF IsMap
<1>2. map[index(key)] \in Seq(Pairs(V)) /\ p # 0 /\ Holds(map[index(key)], key, p)
  BY <1>1, FoundPair DEF sm_exists
<1>3. p \in DOMAIN map[index(key)] /\ map[index(key)][p].key = key
      /\ \A i \in DOMAIN map[index(key)] : map[index(key)][i].key = key => i = p
  BY <1>1, <1>2 DEF Holds, IsMap
<1>4. ASSUME NEW b \in 0 .. (Capacity - 1)
      PROVE  [i \in DOMAIN map[b] |-> IF map[b][i].key \in {key} THEN Pair(map[b][i].key, <<>>)
                                      ELSE map[b][i]]
               = sm_put(map, key, <<>>)[b]
  <2>0. map[b] = [i \in DOMAIN map[b] |-> map[b][i]]
    <3>1. map[b] \in Seq(Pairs(V))
      BY <1>1
    <3> QED
      BY <3>1
  <2>1. CASE b = index(key)
    <3>1. sm_put(map, key, <<>>)[b] = [map[b] EXCEPT ![p] = Pair(key, <<>>)]
      BY <1>1, <1>2, <2>1 DEF sm_put
    <3> HIDE DEF p
    <3>2. [map[b] EXCEPT ![p] = Pair(key, <<>>)]
            = [i \in DOMAIN map[b] |-> IF i = p THEN Pair(key, <<>>) ELSE map[b][i]]
      BY <2>0
    <3>3. \A i \in DOMAIN map[b] : map[b][i].key \in {key} <=> i = p
      BY <1>3, <2>1
    <3> QED
      BY <1>3, <2>1, <3>1, <3>2, <3>3
  <2>2. CASE b # index(key)
    <3>1. sm_put(map, key, <<>>)[b] = map[b]
      BY <1>1, <2>2 DEF sm_put
    <3>2. \A i \in DOMAIN map[b] : map[b][i].key # key
      BY <1>1, <2>2 DEF IsMap
    <3> QED
      BY <2>0, <3>1, <3>2
  <2> QED
    BY <2>1, <2>2
<1>5. sm_put(map, key, <<>>) = [b \in 0 .. (Capacity - 1) |-> sm_put(map, key, <<>>)[b]]
  BY <1>1 DEF sm_put
<1>6. DOMAIN map = 0 .. (Capacity - 1)
  BY <1>1
<1> QED
  BY <1>4, <1>5, <1>6 DEF WithoutRules

(* Taking the rules of names in two rounds is taking them at once.          *)
LEMMA NamesOneAfterTheOther ==
  ASSUME NEW map, NEW A, NEW B
  PROVE  WithoutRules(map, A \cup B) = WithoutRules(WithoutRules(map, A), B)
<1> DEFINE F(b, S)  == [i \in DOMAIN map[b] |-> IF map[b][i].key \in S
                                         THEN Pair(map[b][i].key, <<>>) ELSE map[b][i]]
           G(f, S)  == [i \in DOMAIN f |-> IF f[i].key \in S THEN Pair(f[i].key, <<>>) ELSE f[i]]
<1>1. ASSUME NEW b \in DOMAIN map PROVE G(F(b, A), B) = F(b, A \cup B)
  <2>1. \A i \in DOMAIN map[b] : F(b, A)[i].key = map[b][i].key
    BY DEF Pair
  <2>2. DOMAIN F(b, A) = DOMAIN map[b]
    OBVIOUS
  <2>3. \A i \in DOMAIN map[b] : G(F(b, A), B)[i] = F(b, A \cup B)[i]
    BY <2>1, <2>2
  <2> QED
    BY <2>2, <2>3
<1>2. WithoutRules(map, A \cup B) = [b \in DOMAIN map |-> F(b, A \cup B)]
  BY DEF WithoutRules
<1>3. DOMAIN WithoutRules(map, A) = DOMAIN map
      /\ \A b \in DOMAIN map : WithoutRules(map, A)[b] = F(b, A)
  BY DEF WithoutRules
<1>4. WithoutRules(WithoutRules(map, A), B)
        = [b \in DOMAIN WithoutRules(map, A) |-> G(WithoutRules(map, A)[b], B)]
  BY DEF WithoutRules
<1> HIDE DEF F, G
<1> QED
  BY <1>1, <1>2, <1>3, <1>4

(* It takes no key out of the map.                                          *)
LEMMA RulesGoKeysStay ==
  ASSUME NEW V, NEW map, IsMap(map, V), <<>> \in V, NEW names, NEW key \in Keys
  PROVE  /\ IsMap(WithoutRules(map, names), V)
         /\ sm_exists(map, key) => sm_exists(WithoutRules(map, names), key)
<1> DEFINE new == WithoutRules(map, names)
<1>1. map \in [0 .. (Capacity - 1) -> Seq(Pairs(V))]
  BY DEF IsMap
<1>2. /\ DOMAIN new = 0 .. (Capacity - 1)
      /\ new = [b \in DOMAIN new |-> new[b]]
      /\ \A b \in DOMAIN map :
           new[b] = [i \in DOMAIN map[b] |-> IF map[b][i].key \in names
                                            THEN Pair(map[b][i].key, <<>>) ELSE map[b][i]]
  BY <1>1 DEF WithoutRules
<1>3. \A b \in DOMAIN map : /\ DOMAIN new[b] = DOMAIN map[b]
                            /\ \A i \in DOMAIN map[b] : new[b][i].key = map[b][i].key
  <2> HIDE DEF new
  <2>1. ASSUME NEW b \in DOMAIN map
        PROVE  /\ DOMAIN new[b] = DOMAIN map[b]
               /\ \A i \in DOMAIN map[b] : new[b][i].key = map[b][i].key
    <3>1. new[b] = [i \in DOMAIN map[b] |-> IF map[b][i].key \in names
                                           THEN Pair(map[b][i].key, <<>>) ELSE map[b][i]]
      BY <1>2
    <3> QED
      BY <3>1 DEF Pair
  <2> QED
    BY <2>1
<1> HIDE DEF new
<1>4. ASSUME NEW b \in DOMAIN map PROVE new[b] \in Seq(Pairs(V))
  <2>1. map[b] \in Seq(Pairs(V)) /\ DOMAIN map[b] = 1 .. Len(map[b]) /\ Len(map[b]) \in Nat
    BY <1>1
  <2>2. \A i \in DOMAIN map[b] : map[b][i] \in Pairs(V)
    BY <2>1
  <2>3. \A i \in DOMAIN map[b] : Pair(map[b][i].key, <<>>) \in Pairs(V)
    BY <2>2 DEF Pair, Pairs
  <2>4. new[b] \in [1 .. Len(map[b]) -> Pairs(V)]
    <3>1. new[b] = [i \in DOMAIN map[b] |-> IF map[b][i].key \in names
                                           THEN Pair(map[b][i].key, <<>>) ELSE map[b][i]]
      BY <1>2
    <3>2. \A i \in DOMAIN map[b] : (IF map[b][i].key \in names
                                   THEN Pair(map[b][i].key, <<>>) ELSE map[b][i]) \in Pairs(V)
      BY <2>2, <2>3
    <3> QED
      BY <2>1, <3>1, <3>2
  <2> QED
    BY <2>1, <2>4
<1>5. new \in [0 .. (Capacity - 1) -> Seq(Pairs(V))]
  BY <1>1, <1>2, <1>4
<1>6. IsMap(new, V)
  BY <1>1, <1>3, <1>5 DEF IsMap
<1>7. index(key) \in DOMAIN map
  BY <1>1, IndexInRange
<1>8. ASSUME sm_exists(map, key) PROVE sm_exists(new, key)
  <2>1. Holds(map[index(key)], key, get_pair(map[index(key)], key))
    BY <1>1, <1>7, <1>8, FoundPair DEF sm_exists
  <2>2. \E i \in DOMAIN new[index(key)] : Holds(new[index(key)], key, i)
    BY <1>3, <1>7, <2>1 DEF Holds
  <2> QED
    BY <1>4, <1>7, <2>2, PairFound DEF sm_exists
<1> QED
  BY <1>6, <1>8 DEF new

(* What WithoutRules leaves of the map, for however many classes, is what   *)
(* as many calls of sm_put with NULL leave: the classes that take their     *)
(* rules disturb no other name (leak_detect.c:190-196, strmap.c:180-245).   *)
THEOREM TakingRulesIsPutting ==
  ASSUME NEW V, NEW map, IsMap(map, V), <<>> \in V, NEW names,
         NEW key \in Keys, sm_exists(map, key)
  PROVE  WithoutRules(map, names \cup {key}) = sm_put(WithoutRules(map, names), key, <<>>)
<1> DEFINE rest == WithoutRules(map, names)
<1>1. IsMap(rest, V) /\ sm_exists(rest, key)
  BY RulesGoKeysStay
<1>2. WithoutRules(map, names \cup {key}) = WithoutRules(rest, {key})
  BY NamesOneAfterTheOther
<1> HIDE DEF rest
<1>3. WithoutRules(rest, {key}) = sm_put(rest, key, <<>>)
  BY <1>1, OneNameIsOnePut
<1> QED
  BY <1>2, <1>3 DEF rest

-----------------------------------------------------------------------------
(* Tags of different kinds differ, and a tag means one node.                *)
LEMMA TagFacts ==
  /\ \A a, b : NodeTag(a) = NodeTag(b) => a = b
  /\ \A a : NodeTag(a) \notin InitialTags \cup {Untagged, ClassClassTag}
  /\ {Untagged, ClassClassTag} \cap InitialTags = {} /\ Untagged # ClassClassTag
BY DEF NodeTag, InitialTags, InitialTag, Untagged, ClassClassTag

LEMMA NewNodeFacts ==
  ASSUME NEW o \in Objects, NEW handle \in Objects \cup {None}
  PROVE  NewNode(o, handle) \in Nodes /\ NewNode(o, handle) # None
         /\ NewNode(o, handle).owner = o /\ NewNode(o, handle).obj = handle
<1>1. NewNode(o, handle) \in Nodes
  BY DEF NewNode, Nodes
<1>2. NewNode(o, handle) # None
  BY <1>1, SearchAssumption
<1> QED
  BY <1>1, <1>2 DEF NewNode

(* The tag that a class is given for the first walk (leak_detect.c:333-380). *)
LEMMA GeneratedTag ==
  ASSUME NEW c \in Classes
  PROVE  /\ generateTagForClass(c) \in Tags
         /\ c # ClassClass => generateTagForClass(c) \in {Untagged} \cup InitialTags
<1>1. CASE assignable[c] = {}
  BY <1>1 DEF generateTagForClass, Tags
<1>2. CASE assignable[c] # {}
  <2> DEFINE S == assignable[c]
             j == CHOOSE n \in S : \A i \in S : n <= i
  <2>1. S \subseteq 0 .. (sizeableClassesNum - 1)
    BY SearchAssumption
  <2>2. S \subseteq Nat
    BY <2>1
  <2>3. \E n \in S : \A i \in S : n <= i
    <3> HIDE DEF S
    <3> QED
      BY <1>2, <2>2, LeastElement, Zenon DEF S
  <2>4. j \in S
    BY <2>3
  <2>5. InitialTag(j) \in InitialTags
    BY <2>1, <2>4 DEF InitialTags
  <2> QED
    BY <2>5 DEF generateTagForClass, Tags
<1> QED
  BY <1>1, <1>2

(* An object keeps its node where tags and nodes stay.                      *)
LEMMA NodeKept ==
  ASSUME NEW o, tag'[o] = tag[o], UNCHANGED node, HasOwnNode(o)
  PROVE  HasOwnNode(o)'
BY DEF HasOwnNode

(* A class that is loaded has no tag.                                       *)
LEMMA LoadKeeps ==
  ASSUME IInv, NEW c \in Classes, Load(c)
  PROVE  IInv'
<1>1. TypeOK'
  BY DEF IInv, TypeOK, Exists, Objects, Load, inputs, ruleVars, nodeVars
<1>2. Phase'
  BY DEF IInv, Phase, Exists, Load, inputs, ruleVars, nodeVars
<1>3. AbsentIsUntagged'
  BY DEF IInv, AbsentIsUntagged, Exists, Objects, Load, inputs, ruleVars, nodeVars
<1>4. ClassTags'
  BY DEF IInv, ClassTags, Objects, Load, inputs, ruleVars, nodeVars
<1>5. NoGarbageYet'
  BY DEF IInv, NoGarbageYet, Load, inputs, ruleVars, nodeVars
<1>6. InstanceTags'
  BY DEF IInv, InstanceTags, Scope, HasOwnNode, Objects, Load, inputs, ruleVars, nodeVars
<1>7. WalkTags'
  <2>1. HasOwnNode(c)
    BY SearchAssumption DEF IInv, AbsentIsUntagged, TypeOK, Exists, Objects, HasOwnNode, Load
  <2>2. Scope' = Scope \cup {c} /\ UNCHANGED <<tag, node, classNodes, pc>>
    BY DEF Scope, Load, inputs, nodeVars
  <2> QED
    BY <2>1, <2>2, NodeKept DEF IInv, WalkTags
<1>8. OwnHandles'
  BY DEF IInv, OwnHandles, Load, inputs, ruleVars, nodeVars
<1> QED
  BY <1>1, <1>2, <1>3, <1>4, <1>5, <1>6, <1>7, <1>8 DEF IInv

(* A new object has no tag.                                                 *)
LEMMA CreateKeeps ==
  ASSUME IInv, NEW o \in Instances, Create(o)
  PROVE  IInv'
<1>1. TypeOK'
  BY DEF IInv, TypeOK, Exists, Objects, Create, inputs, ruleVars, nodeVars, history
<1>2. Phase'
  BY DEF IInv, Phase, Exists, Create, inputs, ruleVars, nodeVars, history
<1>3. AbsentIsUntagged'
  BY DEF IInv, AbsentIsUntagged, Exists, Objects, Create, inputs, ruleVars, nodeVars, history
<1>4. ClassTags'
  BY DEF IInv, ClassTags, Objects, Create, inputs, ruleVars, nodeVars, history
<1>5. NoGarbageYet'
  BY DEF IInv, NoGarbageYet, Create, inputs, ruleVars, nodeVars, history
<1>6. InstanceTags'
  <2>1. HasOwnNode(o) /\ tag[o] \notin InitialTags
    BY TagFacts DEF HasOwnNode, Create
  <2>2. Scope' = Scope \cup {o} /\ UNCHANGED <<tag, node, todo, pc>>
    BY DEF Scope, Create, inputs, nodeVars
  <2> QED
    BY <2>1, <2>2, NodeKept DEF IInv, InstanceTags
<1>7. WalkTags'
  BY DEF IInv, WalkTags, Scope, HasOwnNode, Objects, Create, inputs, ruleVars, nodeVars, history
<1>8. OwnHandles'
  BY DEF IInv, OwnHandles, Create, inputs, ruleVars, nodeVars, history
<1> QED
  BY <1>1, <1>2, <1>3, <1>4, <1>5, <1>6, <1>7, <1>8 DEF IInv

(* Garbage keeps its tag; in quiet runs it does not appear before the first *)
(* walk ends.                                                               *)
LEMMA DropKeeps ==
  ASSUME IInv, NEW o \in Instances, Drop(o)
  PROVE  IInv'
<1>1. TypeOK'
  BY DEF IInv, TypeOK, Exists, Objects, Drop, inputs, ruleVars, nodeVars, history
<1>2. Phase'
  BY DEF IInv, Phase, Exists, Drop, inputs, ruleVars, nodeVars, history
<1>3. AbsentIsUntagged'
  BY DEF IInv, AbsentIsUntagged, Exists, Objects, Drop, inputs, ruleVars, nodeVars, history
<1>4. ClassTags'
  BY DEF IInv, ClassTags, Objects, Drop, inputs, ruleVars, nodeVars, history
<1>5. NoGarbageYet'
  BY DEF IInv, NoGarbageYet, Drop, inputs, ruleVars, nodeVars, history
<1>6. InstanceTags'
  <2>1. Scope' \subseteq Scope /\ UNCHANGED <<tag, node, pc, todo>>
    BY DEF Scope, Drop, inputs, nodeVars
  <2>2. \A p : HasOwnNode(p) => HasOwnNode(p)'
    BY <2>1 DEF HasOwnNode
  <2> QED
    BY <2>1, <2>2 DEF IInv, InstanceTags
<1>7. WalkTags'
  BY DEF IInv, WalkTags, Scope, HasOwnNode, Objects, Drop, inputs, ruleVars, nodeVars, history
<1>8. OwnHandles'
  BY DEF IInv, OwnHandles, Drop, inputs, ruleVars, nodeVars, history
<1> QED
  BY <1>1, <1>2, <1>3, <1>4, <1>5, <1>6, <1>7, <1>8 DEF IInv

(* Sizes play no part.                                                      *)
LEMMA ResizeKeeps ==
  ASSUME IInv, NEW o \in Instances, NEW n \in Sizes, Resize(o, n)
  PROVE  IInv'
<1>1. TypeOK'
  BY DEF IInv, TypeOK, Exists, Objects, Resize, inputs, ruleVars, nodeVars
<1>2. Phase'
  BY DEF IInv, Phase, Exists, Resize, inputs, ruleVars, nodeVars
<1>3. AbsentIsUntagged'
  BY DEF IInv, AbsentIsUntagged, Exists, Objects, Resize, inputs, ruleVars, nodeVars
<1>4. ClassTags'
  BY DEF IInv, ClassTags, Objects, Resize, inputs, ruleVars, nodeVars
<1>5. NoGarbageYet'
  BY DEF IInv, NoGarbageYet, Resize, inputs, ruleVars, nodeVars
<1>6. InstanceTags'
  BY DEF IInv, InstanceTags, Scope, HasOwnNode, Objects, Resize, inputs, ruleVars, nodeVars
<1>7. WalkTags'
  BY DEF IInv, WalkTags, Scope, HasOwnNode, Objects, Resize, inputs, ruleVars, nodeVars
<1>8. OwnHandles'
  BY DEF IInv, OwnHandles, Resize, inputs, ruleVars, nodeVars
<1> QED
  BY <1>1, <1>2, <1>3, <1>4, <1>5, <1>6, <1>7, <1>8 DEF IInv

(* A collected object loses its tag, and was not to be asked for its size.  *)
LEMMA CollectKeeps ==
  ASSUME IInv, NEW o \in Instances, Collect(o)
  PROVE  IInv'
<1>1. TypeOK'
  <2>1. o \notin todo /\ garbage' = garbage \ {o}
    BY DEF Collect, Collected, Held
  <2>2. tag' \in [Objects -> Tags]
    BY DEF IInv, TypeOK, Collect, Collected, Tags
  <2> QED
    BY <2>1, <2>2 DEF IInv, TypeOK, Exists, Collect, inputs, ruleVars, nodeVars
<1>2. Phase'
  BY DEF IInv, Phase, Exists, Collect, Collected, inputs, ruleVars, nodeVars
<1>3. AbsentIsUntagged'
  BY DEF IInv, AbsentIsUntagged, Exists, Objects, Collect, Collected, inputs, ruleVars, nodeVars
<1>4. ClassTags'
  BY DEF IInv, ClassTags, Objects, Collect, Collected, inputs, ruleVars, nodeVars
<1>5. NoGarbageYet'
  BY DEF IInv, NoGarbageYet, Collect, Collected, inputs, ruleVars, nodeVars
<1>6. InstanceTags'
  <2>1. Scope' \subseteq Scope /\ UNCHANGED <<node, todo, pc>>
    BY DEF Scope, Collect, Collected, inputs, nodeVars
  <2>2. o \notin todo /\ \A p \in Objects : tag'[p] = IF p = o THEN Untagged ELSE tag[p]
    BY DEF Collect, Collected, Held
  <2>3. ASSUME NEW p \in Scope' \ Classes
        PROVE  /\ pc' \in {"getObjects", "search", "tagAgain"} =>
                    HasOwnNode(p)' \/ tag'[p] \in InitialTags
               /\ pc' = "search"    => tag'[p] \notin InitialTags \/ p \in todo'
               /\ pc' = "tagAgain" => tag'[p] \notin InitialTags
    <3>1. p \in Scope \ Classes /\ p \in Objects
      BY <2>1 DEF IInv, TypeOK, Scope, Objects
    <3>2. CASE p = o
      BY <2>2, <3>1, <3>2, TagFacts DEF HasOwnNode
    <3>3. CASE p # o
      BY <2>1, <2>2, <3>1, <3>3, NodeKept DEF IInv, InstanceTags
    <3> QED
      BY <3>2, <3>3
  <2> QED
    BY <2>3 DEF InstanceTags, Scope
<1>7. WalkTags'
  BY DEF IInv, WalkTags, Scope, HasOwnNode, TypeOK, Objects, Collect, Collected, inputs,
       ruleVars, nodeVars
<1>8. OwnHandles'
  BY DEF IInv, OwnHandles, Collect, Collected, inputs, ruleVars, nodeVars
<1> QED
  BY <1>1, <1>2, <1>3, <1>4, <1>5, <1>6, <1>7, <1>8 DEF IInv

(* No object is held when a dump begins: in quiet runs no garbage is left.  *)
LEMMA BeginKeeps ==
  ASSUME IInv, Begin
  PROVE  IInv'
<1>1. TypeOK'
  <2>1. tag' \in [Objects -> Tags]
    BY DEF IInv, TypeOK, Begin, Collected, Tags
  <2>2. todo' = {} /\ garbage' \subseteq garbage
    BY DEF IInv, Phase, Begin, Collected
  <2> QED
    BY <2>1, <2>2 DEF IInv, TypeOK, Begin, inputs, ruleVars, nodeVars
<1>2. Phase'
  BY DEF IInv, Phase, Exists, Begin, Collected, inputs, nodeVars
<1>3. AbsentIsUntagged'
  BY DEF IInv, AbsentIsUntagged, Exists, Objects, Begin, Collected, inputs, nodeVars
<1>4. ClassTags'
  BY DEF IInv, ClassTags, Objects, Begin, Collected, inputs, nodeVars
<1>5. NoGarbageYet'
  <2>1. Held = {}
    BY DEF IInv, Phase, Begin, Held, FreeAddresses
  <2>2. quiet => garbage' = {}
    BY <2>1 DEF Begin, Collected
  <2> QED
    BY <2>2 DEF NoGarbageYet, Begin, inputs
<1>6. InstanceTags'
  BY DEF IInv, InstanceTags, Scope, HasOwnNode, Objects, Begin, Collected, inputs, nodeVars
<1>7. WalkTags'
  BY DEF IInv, WalkTags, Scope, HasOwnNode, Objects, Begin, Collected, inputs, nodeVars
<1>8. OwnHandles'
  BY DEF IInv, OwnHandles, Begin, Collected, inputs, nodeVars
<1> QED
  BY <1>1, <1>2, <1>3, <1>4, <1>5, <1>6, <1>7, <1>8 DEF IInv

(* Tags of classes name no node after this.                                 *)
LEMMA TagClassesKeeps ==
  ASSUME IInv, TagClasses
  PROVE  IInv'
<1>1. TypeOK'
  <2>1. \A o \in loaded : generateTagForClass(o) \in Tags
    BY GeneratedTag DEF IInv, TypeOK
  <2>2. tag' \in [Objects -> Tags]
    BY <2>1 DEF IInv, TypeOK, TagClasses
  <2> QED
    BY <2>2 DEF IInv, TypeOK, Exists, TagClasses, inputs, appVars, ruleVars, nodeVars
<1>2. Phase'
  BY DEF IInv, Phase, Exists, TagClasses, inputs, appVars, ruleVars, nodeVars
<1>3. AbsentIsUntagged'
  BY DEF IInv, AbsentIsUntagged, Exists, Objects, TagClasses, inputs, appVars, ruleVars,
       nodeVars
<1>4. ClassTags'
  <2>1. \A c \in Classes \ {ClassClass} :
          tag'[c] = IF c \in loaded THEN generateTagForClass(c) ELSE tag[c]
    BY DEF TagClasses, Objects
  <2>2. \A c \in Classes \ loaded : tag[c] = Untagged
    BY SearchAssumption DEF IInv, AbsentIsUntagged, TypeOK, Exists, Objects
  <2> QED
    BY <2>1, <2>2, GeneratedTag DEF ClassTags
<1>5. NoGarbageYet'
  BY DEF IInv, NoGarbageYet, TagClasses, inputs, appVars, ruleVars, nodeVars
<1>6. InstanceTags'
  BY DEF IInv, InstanceTags, Scope, HasOwnNode, Objects, TagClasses, inputs, appVars, ruleVars,
       nodeVars
<1>7. WalkTags'
  BY DEF IInv, WalkTags, Scope, HasOwnNode, Objects, TagClasses, inputs, appVars, ruleVars,
       nodeVars
<1>8. OwnHandles'
  BY DEF IInv, OwnHandles, TagClasses, inputs, appVars, ruleVars, nodeVars
<1> QED
  BY <1>1, <1>2, <1>3, <1>4, <1>5, <1>6, <1>7, <1>8 DEF IInv

(* What is reached, and in quiet runs that is all there is, has the tag of  *)
(* a collection or none.                                                    *)
LEMMA FirstWalkKeeps ==
  ASSUME IInv, FirstWalk
  PROVE  IInv'
<1>1. TypeOK'
  <2>1. \A o \in Objects : cbHeapObject(o) \in Tags
    BY DEF IInv, TypeOK, cbHeapObject, Tags
  <2>2. tag' \in [Objects -> Tags]
    BY <2>1 DEF IInv, TypeOK, FirstWalk
  <2> QED
    BY <2>2 DEF IInv, TypeOK, Exists, FirstWalk, inputs, appVars, ruleVars, nodeVars
<1>2. Phase'
  BY DEF IInv, Phase, Exists, FirstWalk, inputs, appVars, ruleVars, nodeVars
<1>3. AbsentIsUntagged'
  BY DEF IInv, AbsentIsUntagged, Exists, Objects, FirstWalk, inputs, appVars, ruleVars, nodeVars
<1>4. ClassTags'
  BY DEF IInv, ClassTags, Objects, FirstWalk, inputs, appVars, ruleVars, nodeVars
<1>5. NoGarbageYet'
  BY DEF IInv, NoGarbageYet, FirstWalk, inputs, appVars, ruleVars, nodeVars
<1>6. InstanceTags'
  <2>1. ASSUME NEW o \in Scope \ Classes
        PROVE  HasOwnNode(o)' \/ tag'[o] \in InitialTags
    <3>1. o \in reachable /\ o \in Instances /\ o \in Objects
      BY <2>1 DEF IInv, TypeOK, NoGarbageYet, FirstWalk, Scope, Objects
    <3>2. tag'[o] = cbHeapObject(o)
      BY <3>1 DEF FirstWalk
    <3>3. Class(o) \in Classes \ {ClassClass}
      <4>1. klass \in [Instances -> Classes \ {ClassClass}]
        BY SearchAssumption DEF IInv, TypeOK
      <4>2. o \notin Classes
        BY <3>1, SearchAssumption
      <4> QED
        BY <3>1, <4>1, <4>2 DEF Class
    <3>4. tag[Class(o)] \in {Untagged} \cup InitialTags
      BY <3>3 DEF IInv, ClassTags, FirstWalk
    <3>5. cbHeapObject(o) \in {Untagged} \cup InitialTags
      BY <3>4, TagFacts DEF cbHeapObject
    <3> QED
      BY <3>2, <3>5 DEF HasOwnNode
  <2>2. Scope' = Scope
    BY DEF FirstWalk, Scope, inputs, appVars
  <2> QED
    BY <2>1, <2>2 DEF InstanceTags, FirstWalk
<1>7. WalkTags'
  BY DEF IInv, WalkTags, Scope, HasOwnNode, Objects, FirstWalk, inputs, appVars, ruleVars,
       nodeVars
<1>8. OwnHandles'
  BY DEF IInv, OwnHandles, FirstWalk, inputs, appVars, ruleVars, nodeVars
<1> QED
  BY <1>1, <1>2, <1>3, <1>4, <1>5, <1>6, <1>7, <1>8 DEF IInv

(* The objects to ask for their size are those with the tag of a            *)
(* collection.                                                              *)
LEMMA GetObjectsKeeps ==
  ASSUME IInv, GetObjects
  PROVE  IInv'
<1>1. TypeOK'
  BY DEF IInv, TypeOK, Exists, Objects, GetObjects, inputs, appVars, ruleVars, nodeVars, history
<1>2. Phase'
  BY DEF IInv, Phase, Exists, GetObjects, inputs, appVars, ruleVars, nodeVars, history
<1>3. AbsentIsUntagged'
  BY DEF IInv, AbsentIsUntagged, Exists, Objects, GetObjects, inputs, appVars, ruleVars,
       nodeVars, history
<1>4. ClassTags'
  BY DEF IInv, ClassTags, Objects, GetObjects, inputs, appVars, ruleVars, nodeVars, history
<1>5. NoGarbageYet'
  BY DEF IInv, NoGarbageYet, GetObjects, inputs, appVars, ruleVars, nodeVars, history
<1>6. InstanceTags'
  <2>1. Scope' = Scope /\ UNCHANGED <<tag, node>> /\ pc = "getObjects" /\ pc' = "search"
    BY DEF GetObjects, Scope, inputs, appVars, nodeVars
  <2>2. todo' = {o \in Exists : tag[o] \in InitialTags} /\ Scope \subseteq Exists
    BY DEF GetObjects, Scope, Exists
  <2> QED
    BY <2>1, <2>2, NodeKept DEF IInv, InstanceTags
<1>7. WalkTags'
  BY DEF IInv, WalkTags, Scope, HasOwnNode, Objects, GetObjects, inputs, appVars, ruleVars,
       nodeVars, history
<1>8. OwnHandles'
  BY DEF IInv, OwnHandles, GetObjects, inputs, appVars, ruleVars, nodeVars, history
<1> QED
  BY <1>1, <1>2, <1>3, <1>4, <1>5, <1>6, <1>7, <1>8 DEF IInv

(* An object that was asked has its own node or no tag.                     *)
LEMMA SearchObjectKeeps ==
  ASSUME IInv, NEW o \in Objects, SearchObject(o)
  PROVE  IInv'
<1>1. TypeOK'
  <2>1. CASE WithLeak(o)
    <3>1. PICK a \in FreeAddresses :
            /\ node' = [node EXCEPT ![a] = NewNode(o, o)]
            /\ leaks' = leaks \cup {a} /\ tag' = [tag EXCEPT ![o] = NodeTag(a)]
      BY <2>1 DEF WithLeak
    <3>2. a \in Addresses /\ NodeTag(a) \in Tags
      BY <3>1 DEF FreeAddresses, Tags
    <3>3. tag' \in [Objects -> Tags] /\ node' \in [Addresses -> Nodes \cup {None}]
      BY <3>1, <3>2, NewNodeFacts DEF IInv, TypeOK
    <3> QED
      BY <3>1, <3>2, <3>3 DEF IInv, TypeOK, Exists, SearchObject, inputs, appVars
  <2>2. CASE WithoutLeak(o)
    <3>1. tag' \in [Objects -> Tags]
      BY <2>2 DEF IInv, TypeOK, WithoutLeak, Tags
    <3> QED
      BY <2>2, <3>1 DEF IInv, TypeOK, Exists, SearchObject, WithoutLeak, inputs, appVars
  <2> QED
    BY <2>1, <2>2 DEF SearchObject
<1>2. Phase'
  <2>1. CASE WithLeak(o)
    <3>1. PICK a \in FreeAddresses :
            node' = [node EXCEPT ![a] = NewNode(o, o)] /\ leaks' = leaks \cup {a}
      BY <2>1 DEF WithLeak
    <3>2. \A b \in Addresses : b # a => node'[b] = node[b]
      BY <3>1 DEF IInv, TypeOK
    <3> QED
      BY <3>1, <3>2 DEF IInv, Phase, SearchObject, appVars
  <2>2. CASE WithoutLeak(o)
    BY <2>2 DEF IInv, Phase, SearchObject, WithoutLeak, appVars
  <2> QED
    BY <2>1, <2>2 DEF SearchObject
<1>3. AbsentIsUntagged'
  BY DEF IInv, AbsentIsUntagged, Exists, Objects, TypeOK, SearchObject, WithLeak, WithoutLeak,
       inputs, appVars, ruleVars, history
<1>4. ClassTags'
  BY DEF IInv, ClassTags, Objects, SearchObject, WithLeak, WithoutLeak, inputs, appVars,
       ruleVars, history
<1>5. NoGarbageYet'
  BY DEF IInv, NoGarbageYet, SearchObject, WithLeak, WithoutLeak, inputs, appVars, ruleVars,
       history
<1>6. InstanceTags'
  <2> DEFINE Goal(p) == /\ HasOwnNode(p)' \/ tag'[p] \in InitialTags
                        /\ tag'[p] \notin InitialTags \/ p \in todo'
  <2>1. Scope' = Scope /\ pc = "search" /\ pc' = pc /\ todo' = todo \ {o}
    BY DEF SearchObject, Scope, inputs, appVars
  <2>2. ASSUME NEW p \in Scope \ Classes
        PROVE  Goal(p)
    <3>1. p \in Objects /\ (HasOwnNode(p) \/ tag[p] \in InitialTags)
                          /\ (tag[p] \notin InitialTags \/ p \in todo)
      BY <2>1 DEF IInv, TypeOK, InstanceTags, Scope, Objects
    <3>2. CASE WithLeak(o)
      <4>1. PICK a \in FreeAddresses :
              node' = [node EXCEPT ![a] = NewNode(o, o)] /\ tag' = [tag EXCEPT ![o] = NodeTag(a)]
        BY <3>2 DEF WithLeak
      <4>2. a \in Addresses /\ node[a] = None
        BY <4>1 DEF FreeAddresses
      <4>3. node'[a] = NewNode(o, o) /\ \A b \in Addresses : b # a => node'[b] = node[b]
        BY <4>1, <4>2 DEF IInv, TypeOK
      <4>4. tag'[o] = NodeTag(a) /\ \A q \in Objects : q # o => tag'[q] = tag[q]
        BY <4>1 DEF IInv, TypeOK
      <4>5. CASE p = o
        BY <4>2, <4>3, <4>4, <4>5, NewNodeFacts, TagFacts DEF HasOwnNode
      <4>6. CASE p # o
        BY <2>1, <3>1, <4>2, <4>3, <4>4, <4>6 DEF HasOwnNode
      <4> QED
        BY <4>5, <4>6
    <3>3. CASE WithoutLeak(o)
      <4>1. tag'[o] = Untagged /\ UNCHANGED node /\ \A q \in Objects : q # o => tag'[q] = tag[q]
        BY <3>3 DEF IInv, TypeOK, WithoutLeak
      <4> QED
        BY <2>1, <3>1, <4>1, TagFacts DEF HasOwnNode
    <3> QED
      BY <3>2, <3>3 DEF SearchObject
  <2> QED
    BY <2>1, <2>2 DEF InstanceTags
<1>7. WalkTags'
  BY DEF IInv, WalkTags, Scope, HasOwnNode, Objects, SearchObject, WithLeak, WithoutLeak,
       inputs, appVars, ruleVars, history
<1>8. OwnHandles'
  <2>1. CASE WithLeak(o)
    <3>1. PICK a \in FreeAddresses : node' = [node EXCEPT ![a] = NewNode(o, o)]
      BY <2>1 DEF WithLeak
    <3>2. node'[a] = NewNode(o, o) /\ \A b \in Addresses : b # a => node'[b] = node[b]
      BY <3>1 DEF IInv, TypeOK, FreeAddresses
    <3>3. NewNode(o, o).obj = o /\ NewNode(o, o).owner = o
      BY NewNodeFacts
    <3> QED
      BY <3>2, <3>3 DEF IInv, OwnHandles, SearchObject, inputs
  <2>2. CASE WithoutLeak(o)
    BY <2>2 DEF IInv, OwnHandles, SearchObject, WithoutLeak, inputs
  <2> QED
    BY <2>1, <2>2 DEF SearchObject
<1> QED
  BY <1>1, <1>2, <1>3, <1>4, <1>5, <1>6, <1>7, <1>8 DEF IInv

(* All objects were asked.                                                  *)
LEMMA SearchEndsKeeps ==
  ASSUME IInv, SearchEnds
  PROVE  IInv'
<1>1. TypeOK'
  BY DEF IInv, TypeOK, Exists, Objects, SearchEnds, inputs, appVars, ruleVars, nodeVars, history
<1>2. Phase'
  BY DEF IInv, Phase, Exists, SearchEnds, inputs, appVars, ruleVars, nodeVars, history
<1>3. AbsentIsUntagged'
  BY DEF IInv, AbsentIsUntagged, Exists, Objects, SearchEnds, inputs, appVars, ruleVars,
       nodeVars, history
<1>4. ClassTags'
  BY DEF IInv, ClassTags, Objects, SearchEnds, inputs, appVars, ruleVars, nodeVars, history
<1>5. NoGarbageYet'
  BY DEF IInv, NoGarbageYet, SearchEnds, inputs, appVars, ruleVars, nodeVars, history
<1>6. InstanceTags'
  BY DEF IInv, InstanceTags, Scope, HasOwnNode, Objects, SearchEnds, inputs, appVars, ruleVars,
       nodeVars, history
<1>7. WalkTags'
  BY DEF IInv, WalkTags, Scope, HasOwnNode, Objects, SearchEnds, inputs, appVars, ruleVars,
       nodeVars, history
<1>8. OwnHandles'
  BY DEF IInv, OwnHandles, SearchEnds, inputs, appVars, ruleVars, nodeVars, history
<1> QED
  BY <1>1, <1>2, <1>3, <1>4, <1>5, <1>6, <1>7, <1>8 DEF IInv

(* Classes get their own nodes, or no tag.                                  *)
LEMMA TagAllClassesKeeps ==
  ASSUME IInv, tagAllClasses
  PROVE  IInv'
<1>1. TypeOK'
  <2>1. classNodes' = loaded \ {ClassClass} /\ classNodes' \subseteq Classes
    BY DEF IInv, TypeOK, tagAllClasses
  <2>2. \A c \in Classes : NodeTag(c) \in Tags
    BY DEF Tags
  <2>3. tag' \in [Objects -> Tags]
    BY <2>1, <2>2 DEF IInv, TypeOK, tagAllClasses, Tags
  <2> QED
    BY <2>1, <2>3 DEF IInv, TypeOK, Exists, tagAllClasses, inputs, appVars
<1>2. Phase'
  BY DEF IInv, Phase, Exists, tagAllClasses, inputs, appVars, history
<1>3. AbsentIsUntagged'
  BY DEF IInv, AbsentIsUntagged, Exists, Objects, tagAllClasses, inputs, appVars, history
<1>4. ClassTags'
  BY DEF IInv, ClassTags, Objects, tagAllClasses, inputs, appVars, history
<1>5. NoGarbageYet'
  BY DEF IInv, NoGarbageYet, tagAllClasses, inputs, appVars, history
<1>6. InstanceTags'
  BY DEF IInv, InstanceTags, Scope, HasOwnNode, Objects, tagAllClasses, inputs, appVars, history
<1>7. WalkTags'
  <2>1. Scope' = Scope /\ UNCHANGED node /\ pc = "tagAgain"
    BY DEF tagAllClasses, Scope, inputs, appVars
  <2>2. ASSUME NEW o \in Scope
        PROVE  HasOwnNode(o)' \/ (o \in classNodes' /\ tag'[o] = NodeTag(o))
    <3>1. o \in Objects /\ (o \in Classes => o \in loaded)
      BY SearchAssumption DEF IInv, TypeOK, Scope, Objects
    <3>2. tag'[o] = IF o \in classNodes' THEN NodeTag(o)
                    ELSE IF o = ClassClass THEN Untagged ELSE tag[o]
      BY <3>1 DEF tagAllClasses
    <3>3. CASE o \in Classes
      BY <3>1, <3>2, <3>3 DEF tagAllClasses, HasOwnNode
    <3>4. CASE o \notin Classes
      <4>1. HasOwnNode(o)
        BY <2>1, <3>4 DEF IInv, InstanceTags
      <4>2. tag'[o] = tag[o]
        BY <3>2, <3>4, SearchAssumption DEF IInv, TypeOK, tagAllClasses
      <4> QED
        BY <2>1, <4>1, <4>2, NodeKept
    <3> QED
      BY <3>3, <3>4
  <2> QED
    BY <2>1, <2>2 DEF WalkTags
<1>8. OwnHandles'
  BY DEF IInv, OwnHandles, tagAllClasses, inputs, appVars, history
<1> QED
  BY <1>1, <1>2, <1>3, <1>4, <1>5, <1>6, <1>7, <1>8 DEF IInv

(* A referrer gets its own node.                                            *)
LEMMA TagReferrerKeeps ==
  ASSUME IInv, NEW o \in Objects, TagReferrer(o)
  PROVE  IInv'
<1>1. TypeOK'
  <2>1. PICK a \in FreeAddresses :
          node' = [node EXCEPT ![a] = NewNode(o, None)] /\ tag' = [tag EXCEPT ![o] = NodeTag(a)]
    BY DEF TagReferrer
  <2>2. a \in Addresses /\ NodeTag(a) \in Tags
    BY <2>1 DEF FreeAddresses, Tags
  <2>3. tag' \in [Objects -> Tags] /\ node' \in [Addresses -> Nodes \cup {None}]
    BY <2>1, <2>2, NewNodeFacts DEF IInv, TypeOK
  <2> QED
    BY <2>3 DEF IInv, TypeOK, Exists, TagReferrer, inputs, appVars
<1>2. Phase'
  BY DEF IInv, Phase, Exists, TagReferrer, inputs, appVars, ruleVars, history
<1>3. AbsentIsUntagged'
  BY DEF IInv, AbsentIsUntagged, Exists, Objects, TagReferrer, inputs, appVars, ruleVars,
       history
<1>4. ClassTags'
  BY DEF IInv, ClassTags, Objects, TagReferrer, inputs, appVars, ruleVars, history
<1>5. NoGarbageYet'
  BY DEF IInv, NoGarbageYet, TagReferrer, inputs, appVars, ruleVars, history
<1>6. InstanceTags'
  BY DEF IInv, InstanceTags, Scope, HasOwnNode, Objects, TagReferrer, inputs, appVars, ruleVars,
       history
<1>7. WalkTags'
  <2>1. PICK a \in FreeAddresses :
          node' = [node EXCEPT ![a] = NewNode(o, None)] /\ tag' = [tag EXCEPT ![o] = NodeTag(a)]
    BY DEF TagReferrer
  <2>2. a \in Addresses /\ node[a] = None
    BY <2>1 DEF FreeAddresses
  <2>3. node'[a] = NewNode(o, None) /\ \A b \in Addresses : b # a => node'[b] = node[b]
    BY <2>1, <2>2 DEF IInv, TypeOK
  <2>4. tag'[o] = NodeTag(a) /\ \A q \in Objects : q # o => tag'[q] = tag[q]
    BY <2>1 DEF IInv, TypeOK
  <2>5. Scope' = Scope /\ Scope \subseteq Objects /\ UNCHANGED <<pc, classNodes>> /\ pc = "walks"
    BY DEF IInv, TypeOK, TagReferrer, Scope, Objects, inputs, appVars
  <2>6. ASSUME NEW p \in Scope
        PROVE  HasOwnNode(p)' \/ (p \in classNodes' /\ tag'[p] = NodeTag(p))
    <3>1. CASE p = o
      BY <2>2, <2>3, <2>4, <3>1, NewNodeFacts DEF HasOwnNode
    <3>2. CASE p # o
      <4>1. HasOwnNode(p) \/ (p \in classNodes /\ tag[p] = NodeTag(p))
        BY <2>5 DEF IInv, WalkTags
      <4> QED
        BY <2>2, <2>3, <2>4, <2>5, <3>2, <4>1 DEF HasOwnNode
    <3> QED
      BY <3>1, <3>2
  <2> QED
    BY <2>5, <2>6 DEF WalkTags
<1>8. OwnHandles'
  <2>1. PICK a \in FreeAddresses :
          node' = [node EXCEPT ![a] = NewNode(o, None)] /\ tag' = [tag EXCEPT ![o] = NodeTag(a)]
    BY DEF TagReferrer
  <2>2. a \in Addresses /\ node'[a] = NewNode(o, None)
        /\ \A b \in Addresses : b # a => node'[b] = node[b]
    BY <2>1 DEF IInv, TypeOK, FreeAddresses
  <2>3. node'[a].obj = None
    BY <2>2, NewNodeFacts
  <2> QED
    BY <2>2, <2>3 DEF IInv, OwnHandles, TagReferrer, inputs
<1> QED
  BY <1>1, <1>2, <1>3, <1>4, <1>5, <1>6, <1>7, <1>8 DEF IInv

(* The walks end.                                                           *)
LEMMA EndWalksKeeps ==
  ASSUME IInv, EndWalks
  PROVE  IInv'
<1>1. TypeOK'
  BY DEF IInv, TypeOK, Exists, Objects, EndWalks, inputs, appVars, ruleVars, nodeVars, history
<1>2. Phase'
  BY DEF IInv, Phase, Exists, EndWalks, inputs, appVars, ruleVars, nodeVars, history
<1>3. AbsentIsUntagged'
  BY DEF IInv, AbsentIsUntagged, Exists, Objects, EndWalks, inputs, appVars, ruleVars, nodeVars,
       history
<1>4. ClassTags'
  BY DEF IInv, ClassTags, Objects, EndWalks, inputs, appVars, ruleVars, nodeVars, history
<1>5. NoGarbageYet'
  BY DEF IInv, NoGarbageYet, EndWalks, inputs, appVars, ruleVars, nodeVars, history
<1>6. InstanceTags'
  BY DEF IInv, InstanceTags, Scope, HasOwnNode, Objects, EndWalks, inputs, appVars, ruleVars,
       nodeVars, history
<1>7. WalkTags'
  BY DEF IInv, WalkTags, Scope, HasOwnNode, Objects, EndWalks, inputs, appVars, ruleVars,
       nodeVars, history
<1>8. OwnHandles'
  BY DEF IInv, OwnHandles, EndWalks, inputs, appVars, ruleVars, nodeVars, history
<1> QED
  BY <1>1, <1>2, <1>3, <1>4, <1>5, <1>6, <1>7, <1>8 DEF IInv

(* A node keeps its object when it gets a handle on it, or is found dead.   *)
LEMMA FilledNodesKeepOwners ==
  ASSUME IInv, NEW a \in Addresses, fillClassInMemoryNode(a), NEW b \in Addresses, node[b] # None
  PROVE  node'[b] # None /\ node'[b].owner = node[b].owner
<1>1. node[a] \in Nodes
  BY DEF IInv, TypeOK, fillClassInMemoryNode
<1>2. /\ [node[a] EXCEPT !.dead = TRUE] \in Nodes
      /\ [node[a] EXCEPT !.dead = TRUE].owner = node[a].owner
  BY <1>1 DEF Nodes
<1>3. ASSUME NEW o \in WithTag(a)
      PROVE  /\ [node[a] EXCEPT !.obj = o] \in Nodes
             /\ [node[a] EXCEPT !.obj = o].owner = node[a].owner
  <2>1. o \in Objects
    BY DEF IInv, TypeOK, WithTag, Exists, Objects
  <2> QED
    BY <1>1, <2>1 DEF Nodes
<1>4. PICK n \in Nodes : \/ n.owner = node[a].owner /\ node' = [node EXCEPT ![a] = n]
                        \/ node' = node
  BY <1>1, <1>2, <1>3 DEF fillClassInMemoryNode
<1>5. n # None
  BY SearchAssumption
<1> QED
  BY <1>4, <1>5 DEF IInv, TypeOK

(* The object with the tag of a node is its owner in quiet runs, so that    *)
(* there is one.                                                            *)
LEMMA FillClassInMemoryNodeKeeps ==
  ASSUME IInv, NEW a \in Addresses, fillClassInMemoryNode(a)
  PROVE  IInv'
<1>1. TypeOK'
  <2>1. node[a] \in Nodes
    BY DEF IInv, TypeOK, fillClassInMemoryNode
  <2>2. WithTag(a) \subseteq Objects
    BY DEF IInv, TypeOK, WithTag, Exists, Objects
  <2>3. /\ [node[a] EXCEPT !.dead = TRUE] \in Nodes
        /\ \A o \in WithTag(a) : [node[a] EXCEPT !.obj = o] \in Nodes
    BY <2>1, <2>2 DEF Nodes
  <2>4. node' \in [Addresses -> Nodes \cup {None}]
    BY <2>3 DEF IInv, TypeOK, fillClassInMemoryNode
  <2> QED
    BY <2>4 DEF IInv, TypeOK, Exists, fillClassInMemoryNode, inputs, appVars
<1>2. Phase'
  BY DEF IInv, Phase, Exists, fillClassInMemoryNode, inputs, appVars, ruleVars, history
<1>3. AbsentIsUntagged'
  BY DEF IInv, AbsentIsUntagged, Exists, Objects, fillClassInMemoryNode, inputs, appVars,
       ruleVars, history
<1>4. ClassTags'
  BY DEF IInv, ClassTags, Objects, fillClassInMemoryNode, inputs, appVars, ruleVars, history
<1>5. NoGarbageYet'
  BY DEF IInv, NoGarbageYet, fillClassInMemoryNode, inputs, appVars, ruleVars, history
<1>6. InstanceTags'
  BY DEF IInv, InstanceTags, Scope, HasOwnNode, Objects, fillClassInMemoryNode, inputs, appVars,
       ruleVars, history
<1>7. WalkTags'
  <2>1. \A b \in Addresses : node[b] # None => node'[b] # None /\ node'[b].owner = node[b].owner
    BY FilledNodesKeepOwners
  <2>2. Scope' = Scope /\ UNCHANGED <<tag, classNodes>> /\ pc = "print"
    BY DEF Scope, fillClassInMemoryNode, inputs, appVars
  <2>3. \A o : HasOwnNode(o) => HasOwnNode(o)'
    BY <2>1, <2>2 DEF HasOwnNode
  <2> QED
    BY <2>2, <2>3 DEF IInv, WalkTags
<1>8. OwnHandles'
  <2>1. node[a] \in Nodes /\ node \in [Addresses -> Nodes \cup {None}]
    BY DEF IInv, TypeOK, fillClassInMemoryNode
  <2>2. ASSUME quiet, NEW o \in WithTag(a)
        PROVE  o = node[a].owner
    <3>1. o \in Scope /\ tag[o] = NodeTag(a)
      BY <2>2 DEF WithTag, Exists, Scope
    <3>2. HasOwnNode(o) \/ (o \in classNodes /\ tag[o] = NodeTag(o))
      BY <3>1 DEF IInv, WalkTags, fillClassInMemoryNode
    <3>3. ~ (o \in classNodes /\ NodeTag(a) = NodeTag(o))
      <4>1. o # a
        <5>1. o \in Exists
          BY DEF WithTag
        <5>2. o \in Objects
          BY <5>1, SearchAssumption DEF IInv, TypeOK, Objects, Exists
        <5> QED
          BY <5>2, SearchAssumption
      <4> QED
        BY <4>1, TagFacts
    <3>4. PICK b \in Addresses : tag[o] = NodeTag(b) /\ node[b].owner = o
      BY <3>1, <3>2, <3>3, TagFacts DEF HasOwnNode
    <3> QED
      BY <3>1, <3>4, TagFacts
  <2>3. quiet => ~ \E o, p \in WithTag(a) : o # p
    BY <2>2
  <2>4. \A o \in WithTag(a) : quiet => /\ [node[a] EXCEPT !.obj = o].obj = node[a].owner
                                      /\ [node[a] EXCEPT !.obj = o].owner = node[a].owner
    BY <2>1, <2>2 DEF Nodes
  <2>5. /\ [node[a] EXCEPT !.dead = TRUE].obj = node[a].obj
        /\ [node[a] EXCEPT !.dead = TRUE].owner = node[a].owner
    BY <2>1 DEF Nodes
  <2> DEFINE Own(x) == x.obj \in {None, x.owner}
  <2>6. quiet => /\ pc' # "fatal"
                 /\ \A b \in Addresses : node[b] # None \/ b = a => Own(node'[b])
    <3>1. CASE node' = [node EXCEPT ![a] = [node[a] EXCEPT !.dead = TRUE]] /\ UNCHANGED pc
      BY <2>1, <2>5, <3>1 DEF IInv, OwnHandles, fillClassInMemoryNode
    <3>2. CASE \E o \in WithTag(a) :
                 node' = [node EXCEPT ![a] = [node[a] EXCEPT !.obj = o]] /\ UNCHANGED pc
      BY <2>1, <2>4, <3>2 DEF IInv, OwnHandles, fillClassInMemoryNode
    <3>3. CASE \E o, p \in WithTag(a) : o # p
      BY <2>3, <3>3
    <3> QED
      BY <3>1, <3>2, <3>3 DEF fillClassInMemoryNode
  <2>7. \A b \in Addresses : node'[b] # None => node[b] # None \/ b = a
    BY <2>1 DEF fillClassInMemoryNode
  <2> QED
    BY <2>6, <2>7 DEF OwnHandles, fillClassInMemoryNode, inputs
<1> QED
  BY <1>1, <1>2, <1>3, <1>4, <1>5, <1>6, <1>7, <1>8 DEF IInv

(* No node is left.                                                         *)
LEMMA FreeNodesKeeps ==
  ASSUME IInv, FreeNodes
  PROVE  IInv'
<1>1. TypeOK'
  <2>1. tag' \in [Objects -> Tags]
    BY DEF IInv, TypeOK, FreeNodes, untagAllClasses, Tags
  <2>2. node' \in [Addresses -> Nodes \cup {None}]
    BY DEF FreeNodes
  <2>3. classNodes' = {} /\ leaks' = {} /\ pc' = "release" /\ UNCHANGED <<inputs, appVars, todo>>
    BY DEF FreeNodes, untagAllClasses
  <2> QED
    BY <2>1, <2>2, <2>3 DEF IInv, TypeOK, Exists, inputs, appVars
<1>2. Phase'
  BY DEF IInv, Phase, Exists, FreeNodes, untagAllClasses, inputs, appVars, history
<1>3. AbsentIsUntagged'
  BY DEF IInv, AbsentIsUntagged, Exists, Objects, FreeNodes, untagAllClasses, inputs, appVars,
       history
<1>4. ClassTags'
  BY DEF IInv, ClassTags, Objects, FreeNodes, untagAllClasses, inputs, appVars, history
<1>5. NoGarbageYet'
  BY DEF IInv, NoGarbageYet, FreeNodes, untagAllClasses, inputs, appVars, history
<1>6. InstanceTags'
  BY DEF IInv, InstanceTags, Scope, HasOwnNode, Objects, FreeNodes, untagAllClasses, inputs,
       appVars, history
<1>7. WalkTags'
  BY DEF IInv, WalkTags, Scope, HasOwnNode, Objects, FreeNodes, untagAllClasses, inputs,
       appVars, history
<1>8. OwnHandles'
  BY DEF IInv, OwnHandles, FreeNodes, untagAllClasses, inputs, appVars, history
<1> QED
  BY <1>1, <1>2, <1>3, <1>4, <1>5, <1>6, <1>7, <1>8 DEF IInv

(* The dump is over.                                                        *)
LEMMA ReleaseKeeps ==
  ASSUME IInv, Release
  PROVE  IInv'
<1>1. TypeOK'
  BY DEF IInv, TypeOK, Exists, Objects, Release, inputs, appVars, nodeVars
<1>2. Phase'
  BY DEF IInv, Phase, Exists, Release, inputs, appVars, nodeVars
<1>3. AbsentIsUntagged'
  BY DEF IInv, AbsentIsUntagged, Exists, Objects, Release, inputs, appVars, nodeVars
<1>4. ClassTags'
  BY DEF IInv, ClassTags, Objects, Release, inputs, appVars, nodeVars
<1>5. NoGarbageYet'
  BY DEF IInv, NoGarbageYet, Release, inputs, appVars, nodeVars
<1>6. InstanceTags'
  BY DEF IInv, InstanceTags, Scope, HasOwnNode, Objects, Release, inputs, appVars, nodeVars
<1>7. WalkTags'
  BY DEF IInv, WalkTags, Scope, HasOwnNode, Objects, Release, inputs, appVars, nodeVars
<1>8. OwnHandles'
  BY DEF IInv, OwnHandles, Release, inputs, appVars, nodeVars
<1> QED
  BY <1>1, <1>2, <1>3, <1>4, <1>5, <1>6, <1>7, <1>8 DEF IInv

LEMMA InitIInv == Init => IInv
<1> SUFFICES ASSUME Init PROVE IInv
  OBVIOUS
<1>1. TypeOK
  <2>1. quiet \in BOOLEAN
    BY SearchAssumption DEF Init
  <2>2. loaded \subseteq Classes /\ reachable \cup garbage \subseteq Instances
    BY SearchAssumption DEF Init
  <2> QED
    BY <2>1, <2>2 DEF Init, TypeOK, Tags, Exists
<1>2. Phase /\ OwnHandles
  BY DEF Init, Phase, OwnHandles
<1>3. AbsentIsUntagged /\ ClassTags /\ NoGarbageYet
  BY DEF Init, AbsentIsUntagged, ClassTags, NoGarbageYet, Objects
<1>4. InstanceTags /\ WalkTags
  BY DEF Init, InstanceTags, WalkTags
<1> QED
  BY <1>1, <1>2, <1>3, <1>4 DEF IInv

LEMMA NextIInv == IInv /\ [Next]_vars => IInv'
<1> SUFFICES ASSUME IInv, [Next]_vars PROVE IInv'
  OBVIOUS
<1>1. CASE Application
  BY <1>1, LoadKeeps, CreateKeeps, DropKeeps, CollectKeeps, ResizeKeeps DEF Application
<1>2. CASE Dumper
  <2>1. CASE Begin \/ TagClasses \/ FirstWalk \/ GetObjects \/ SearchEnds
    BY <2>1, BeginKeeps, TagClassesKeeps, FirstWalkKeeps, GetObjectsKeeps, SearchEndsKeeps
  <2>2. CASE tagAllClasses \/ EndWalks \/ FreeNodes \/ Release
    BY <2>2, TagAllClassesKeeps, EndWalksKeeps, FreeNodesKeeps, ReleaseKeeps
  <2>3. CASE \E o \in Objects : SearchObject(o) \/ TagReferrer(o)
    BY <2>3, SearchObjectKeeps, TagReferrerKeeps
  <2>4. CASE \E a \in Addresses : fillClassInMemoryNode(a)
    BY <2>4, FillClassInMemoryNodeKeeps
  <2> QED
    BY <1>2, <2>1, <2>2, <2>3, <2>4 DEF Dumper
<1>3. CASE UNCHANGED vars
  BY <1>3 DEF vars, inputs, appVars, ruleVars, nodeVars, history, IInv, TypeOK, Exists, Phase,
       AbsentIsUntagged, ClassTags, NoGarbageYet, InstanceTags, WalkTags, OwnHandles, Scope,
       HasOwnNode
<1> QED
  BY <1>1, <1>2, <1>3 DEF Next

LEMMA AlwaysIInv == Spec => []IInv
<1> QED
  BY InitIInv, NextIInv, PTL DEF Spec

(* The variables of the search, of whatever heap, keep their types; the     *)
(* objects still to be asked for their size exist (leak_detect.c:458-530).  *)
THEOREM SearchTypeCorrect == Spec => []TypeOK
<1>1. IInv => TypeOK
  BY DEF IInv
<1> QED
  BY <1>1, AlwaysIInv, PTL

(* During the walks, whose callback follows every tag as a pointer, no      *)
(* object that a walk can meet has a tag that an earlier dump, the first    *)
(* walk or the search has left, in whatever heap and however the            *)
(* application changes it in the meantime                                   *)
(* (leak_detect.c:27-34, 105-129, 207-265, 482-530).                        *)
THEOREM WalksFollowOwnTags == Spec => []TagsMeanTheirNodes
<1>1. IInv => TagsMeanTheirNodes
  <2> SUFFICES ASSUME IInv, pc = "walks", NEW o \in loaded \cup reachable
               PROVE  \/ tag[o] = Untagged
                      \/ o \in classNodes /\ tag[o] = NodeTag(o)
                      \/ \E a \in Addresses \ FreeAddresses :
                           tag[o] = NodeTag(a) /\ node[a].owner = o
    BY DEF TagsMeanTheirNodes
  <2>1. HasOwnNode(o) \/ (o \in classNodes /\ tag[o] = NodeTag(o))
    BY DEF IInv, WalkTags, Scope
  <2> QED
    BY <2>1 DEF HasOwnNode, FreeAddresses
<1> QED
  BY <1>1, AlwaysIInv, PTL

(* Where nothing becomes garbage between the collection and the first walk, *)
(* the object that is found for a node is the one the node was made for,    *)
(* and there is at most one (jvm_reference.c:27-51).                        *)
THEOREM QuietDumpsFindTheirObjects == Spec => []FoundObjectIsTheNodes
<1>1. IInv => FoundObjectIsTheNodes
  BY DEF IInv, OwnHandles, FoundObjectIsTheNodes, FreeAddresses
<1> QED
  BY <1>1, AlwaysIInv, PTL
-----------------------------------------------------------------------------
(* Which objects are leaks.  A class is given the tag of a collection if    *)
(* and only if the files do not exclude it.                                 *)
ClassEligible(c) ==
  c \in plain /\ assignable[c] # {} /\ name[c] \notin IgnoredNames(conf)

RulesAreLoaded ==
  pc \in {"tagClasses", "firstWalk", "getObjects", "search", "tagAgain"} =>
    maps = LoadRules(conf)

(* The class of an object is loaded.                                        *)
HeapTypes ==
  /\ size \in [Instances -> Sizes]
  /\ \A o \in reachable \cup garbage : klass[o] \in loaded

EligibleTags == \A o \in Instances : tag[o] \in InitialTags => Eligible(o)

EligibleClassTags ==
  pc = "firstWalk" =>
    \A c \in Classes \ {ClassClass} :
      /\ tag[c] \in InitialTags => ClassEligible(c)
      /\ c \in loaded \ late /\ ClassEligible(c) => tag[c] \in InitialTags

EligibleLeaks ==
  /\ \A a \in leaks : node[a] # None /\ Eligible(node[a].owner)
  /\ \A o \in todo \cap Instances : Eligible(o)

(* What is expected to be a leak is on its way to be one.                   *)
ExpectedIsFound ==
  \A o \in expected :
    /\ o \in Instances
    /\ pc = "getObjects" =>
         o \in Exists /\ tag[o] \in InitialTags /\ size[o] > size_threshold
    /\ pc = "search" => (o \in todo /\ size[o] > size_threshold) \/ IsLeakNode(o)
    /\ pc \in {"tagAgain", "walks", "print"} => IsLeakNode(o)

LInv ==
  /\ RulesAreLoaded /\ HeapTypes /\ EligibleTags /\ EligibleClassTags
  /\ EligibleLeaks /\ ExpectedIsFound

LEMMA InputsStay ==
  ASSUME [Next]_vars
  PROVE  UNCHANGED inputs
<1>1. CASE Application
  BY <1>1 DEF Application, Load, Create, Drop, Collect, Resize
<1>2. CASE Dumper
  <2>1. CASE Begin \/ TagClasses \/ FirstWalk \/ GetObjects \/ SearchEnds
    BY <2>1 DEF Begin, TagClasses, FirstWalk, GetObjects, SearchEnds
  <2>2. CASE tagAllClasses \/ EndWalks \/ FreeNodes \/ Release
    BY <2>2 DEF tagAllClasses, EndWalks, FreeNodes, Release
  <2>3. CASE \E o \in Objects : SearchObject(o) \/ TagReferrer(o)
    BY <2>3 DEF SearchObject, TagReferrer
  <2>4. CASE \E a \in Addresses : fillClassInMemoryNode(a)
    BY <2>4 DEF fillClassInMemoryNode
  <2> QED
    BY <1>2, <2>1, <2>2, <2>3, <2>4 DEF Dumper
<1>3. CASE UNCHANGED vars
  BY <1>3 DEF vars
<1> QED
  BY <1>1, <1>2, <1>3 DEF Next

(* Of an object, whether it is eligible never changes.                      *)
LEMMA EligibleStays ==
  ASSUME [Next]_vars, NEW o
  PROVE  Eligible(o)' <=> Eligible(o)
BY InputsStay DEF Eligible, inputs

LEMMA ClassEligibleStays ==
  ASSUME [Next]_vars, NEW c
  PROVE  ClassEligible(c)' <=> ClassEligible(c)
BY InputsStay DEF ClassEligible, inputs

(* The tags of classes are those that the files ask for.                    *)
LEMMA TagIsByTheFiles ==
  ASSUME IInv, RulesAreLoaded, pc = "tagClasses", NEW c \in Classes \ {ClassClass}
  PROVE  generateTagForClass(c) \in InitialTags <=> ClassEligible(c)
<1>1. maps = LoadRules(conf) /\ conf \in Seq(Seq(Lines)) /\ name[c] \in Keys
  BY SearchAssumption DEF RulesAreLoaded, IInv, TypeOK
<1>2. maps \in Maps /\ IsMap(maps.ignore_classes, {TRUE})
  <2>1. maps \in Maps
    BY <1>1, RulesAreLoadedOnce
  <2> QED
    BY <2>1, MapsFacts
<1>3. sm_get(maps.ignore_classes, name[c], FALSE) \in {TRUE} \cup {FALSE}
  BY <1>1, <1>2, GetIsTyped, Zenon
<1>4. IsIgnored(c) <=> sm_get(maps.ignore_classes, name[c], FALSE) = TRUE
  BY <1>3, Zenon DEF IsIgnored
<1>5. Ignores(LoadRules(conf), name[c]) <=> name[c] \in IgnoredNames(conf)
  BY <1>1, RulesAreTheFiles, Zenon
<1>6. IsIgnored(c) <=> name[c] \in IgnoredNames(conf)
  BY <1>1, <1>4, <1>5, Zenon DEF Ignores
<1>7. CASE assignable[c] = {}
  BY <1>7, TagFacts DEF generateTagForClass, ClassEligible
<1>8. CASE assignable[c] # {}
  <2> DEFINE S == assignable[c]
             j == CHOOSE n \in S : \A i \in S : n <= i
  <2>1. S \subseteq 0 .. (sizeableClassesNum - 1)
    BY SearchAssumption
  <2>2. S \subseteq Nat
    BY <2>1
  <2>3. \E n \in S : \A i \in S : n <= i
    <3> HIDE DEF S
    <3> QED
      BY <1>8, <2>2, LeastElement, Zenon DEF S
  <2>4. j \in S
    BY <2>3
  <2>5. InitialTag(j) \in InitialTags
    BY <2>1, <2>4 DEF InitialTags
  <2> QED
    BY <1>6, <1>8, <2>5, TagFacts DEF generateTagForClass, ClassEligible
<1> QED
  BY <1>7, <1>8

LEMMA RulesStayLoaded ==
  ASSUME IInv, LInv, [Next]_vars
  PROVE  RulesAreLoaded'
<1> USE DEF LInv, RulesAreLoaded
<1>1. CASE Application
  BY <1>1 DEF Application, Load, Create, Drop, Collect, Resize, inputs, ruleVars
<1>2. CASE Dumper
  <2>1. CASE Begin
    BY <2>1 DEF Begin, inputs
  <2>2. CASE TagClasses \/ FirstWalk \/ GetObjects \/ SearchEnds
    BY <2>2 DEF TagClasses, FirstWalk, GetObjects, SearchEnds, inputs, ruleVars
  <2>3. CASE tagAllClasses \/ EndWalks \/ FreeNodes \/ Release
    BY <2>3 DEF tagAllClasses, EndWalks, FreeNodes, Release
  <2>4. CASE \E o \in Objects : SearchObject(o) \/ TagReferrer(o)
    BY <2>4 DEF SearchObject, TagReferrer, inputs, ruleVars
  <2>5. CASE \E a \in Addresses : fillClassInMemoryNode(a)
    BY <2>5 DEF fillClassInMemoryNode, inputs, ruleVars
  <2> QED
    BY <1>2, <2>1, <2>2, <2>3, <2>4, <2>5 DEF Dumper
<1>3. CASE UNCHANGED vars
  BY <1>3 DEF vars, inputs, ruleVars
<1> QED
  BY <1>1, <1>2, <1>3 DEF Next

LEMMA HeapStaysTyped ==
  ASSUME IInv, LInv, [Next]_vars
  PROVE  HeapTypes'
<1> USE DEF LInv, HeapTypes
<1>1. CASE Application
  <2>1. CASE \E c \in Classes : Load(c)
    BY <2>1 DEF Load, inputs
  <2>2. CASE \E o \in Instances : Create(o) \/ Drop(o) \/ Collect(o)
    BY <2>2 DEF Create, Drop, Collect, Collected, inputs
  <2>3. CASE \E o \in Instances, n \in Sizes : Resize(o, n)
    BY <2>3 DEF Resize, inputs
  <2> QED
    BY <1>1, <2>1, <2>2, <2>3 DEF Application
<1>2. CASE Dumper
  <2>1. CASE Begin
    BY <2>1 DEF Begin, Collected, inputs
  <2>2. CASE TagClasses \/ FirstWalk \/ GetObjects \/ SearchEnds
    BY <2>2 DEF TagClasses, FirstWalk, GetObjects, SearchEnds, inputs, appVars
  <2>3. CASE tagAllClasses \/ EndWalks \/ FreeNodes \/ Release
    BY <2>3 DEF tagAllClasses, EndWalks, FreeNodes, Release, inputs, appVars
  <2>4. CASE \E o \in Objects : SearchObject(o) \/ TagReferrer(o)
    BY <2>4 DEF SearchObject, TagReferrer, inputs, appVars
  <2>5. CASE \E a \in Addresses : fillClassInMemoryNode(a)
    BY <2>5 DEF fillClassInMemoryNode, inputs, appVars
  <2> QED
    BY <1>2, <2>1, <2>2, <2>3, <2>4, <2>5 DEF Dumper
<1>3. CASE UNCHANGED vars
  BY <1>3 DEF vars, inputs, appVars
<1> QED
  BY <1>1, <1>2, <1>3 DEF Next

(* Outside TagClasses and FirstWalk no instance is given the tag of a       *)
(* collection, and outside TagClasses and the first walk no class.          *)
LEMMA CollectionTagsAreOld ==
  ASSUME IInv, [Next]_vars, ~ FirstWalk, NEW o \in Objects,
         o \in Instances \/ ~ TagClasses, tag'[o] \in InitialTags
  PROVE  tag[o] \in InitialTags
<1> USE TagFacts
<1>1. CASE Application
  BY <1>1 DEF Application, Load, Create, Drop, Collect, Collected, Resize
<1>2. CASE Dumper
  <2>1. CASE Begin
    BY <2>1 DEF Begin, Collected
  <2>2. CASE TagClasses
    BY <2>2, SearchAssumption DEF TagClasses, IInv, TypeOK
  <2>3. CASE GetObjects \/ SearchEnds \/ EndWalks \/ Release
    BY <2>3 DEF GetObjects, SearchEnds, EndWalks, Release
  <2>4. CASE tagAllClasses
    BY <2>4 DEF tagAllClasses
  <2>5. CASE FreeNodes
    BY <2>5 DEF FreeNodes, untagAllClasses
  <2>6. CASE \E p \in Objects : SearchObject(p) \/ TagReferrer(p)
    BY <2>6 DEF SearchObject, WithLeak, WithoutLeak, TagReferrer, IInv, TypeOK
  <2>7. CASE \E a \in Addresses : fillClassInMemoryNode(a)
    BY <2>7 DEF fillClassInMemoryNode
  <2> QED
    BY <1>2, <2>1, <2>2, <2>3, <2>4, <2>5, <2>6, <2>7 DEF Dumper
<1>3. CASE UNCHANGED vars
  BY <1>3 DEF vars
<1> QED
  BY <1>1, <1>2, <1>3 DEF Next

(* The class of an instance is a class, and not java.lang.Class.            *)
LEMMA ClassOfInstance ==
  ASSUME IInv, NEW o \in Instances
  PROVE  /\ Class(o) = klass[o] /\ klass[o] \in Classes \ {ClassClass}
         /\ o \in Objects /\ o \notin Classes
<1>1. klass \in [Instances -> Classes \ {ClassClass}]
  BY SearchAssumption DEF IInv, TypeOK
<1>2. o \notin Classes
  BY SearchAssumption
<1> QED
  BY <1>1, <1>2 DEF Class, Objects

(* An instance that the first walk reaches gets the tag of its class.       *)
LEMMA WalkedTag ==
  ASSUME IInv, FirstWalk, NEW o \in reachable
  PROVE  /\ o \in Instances
         /\ tag'[o] \in InitialTags <=> tag[klass[o]] \in InitialTags
<1>1. o \in Instances
  BY DEF IInv, TypeOK
<1>2. tag'[o] = cbHeapObject(o)
  BY <1>1 DEF FirstWalk, Objects
<1>3. tag[klass[o]] \in {Untagged} \cup InitialTags
  BY <1>1, ClassOfInstance DEF IInv, ClassTags, FirstWalk
<1> QED
  BY <1>1, <1>2, <1>3, ClassOfInstance, TagFacts DEF cbHeapObject

LEMMA TagsStayEligible ==
  ASSUME IInv, LInv, [Next]_vars
  PROVE  EligibleTags'
<1> SUFFICES ASSUME NEW o \in Instances, tag'[o] \in InitialTags
             PROVE  Eligible(o)
  BY EligibleStays DEF EligibleTags
<1>1. CASE FirstWalk
  <2>1. CASE o \in reachable
    <3>1. tag[klass[o]] \in InitialTags
      BY <1>1, <2>1, WalkedTag
    <3>2. ClassEligible(klass[o])
      BY <1>1, <3>1, ClassOfInstance DEF LInv, EligibleClassTags, FirstWalk
    <3> QED
      BY <3>2 DEF ClassEligible, Eligible
  <2>2. CASE o \notin reachable
    <3>1. o \in Objects /\ o \notin loaded
      BY ClassOfInstance DEF IInv, TypeOK
    <3>2. tag'[o] = tag[o]
      BY <1>1, <2>2, <3>1 DEF FirstWalk
    <3> QED
      BY <3>2 DEF LInv, EligibleTags
  <2> QED
    BY <2>1, <2>2
<1>2. CASE ~ FirstWalk
  BY <1>2, CollectionTagsAreOld, ClassOfInstance DEF LInv, EligibleTags
<1> QED
  BY <1>1, <1>2

LEMMA ClassTagsStayEligible ==
  ASSUME IInv, LInv, [Next]_vars
  PROVE  EligibleClassTags'
<1> SUFFICES ASSUME pc' = "firstWalk", NEW c \in Classes \ {ClassClass}
             PROVE  /\ tag'[c] \in InitialTags => ClassEligible(c)
                    /\ c \in loaded' \ late' /\ ClassEligible(c) => tag'[c] \in InitialTags
  BY ClassEligibleStays DEF EligibleClassTags
<1>0. c \in Objects /\ c \notin Instances
  BY SearchAssumption DEF Objects
<1>1. CASE TagClasses
  <2>1. CASE c \in loaded
    <3>1. tag'[c] = generateTagForClass(c) /\ pc = "tagClasses"
      BY <1>0, <1>1, <2>1 DEF TagClasses
    <3> QED
      BY <3>1, TagIsByTheFiles DEF LInv
  <2>2. CASE c \notin loaded
    <3>1. tag'[c] = Untagged
      BY <1>0, <1>1, <2>2 DEF TagClasses, IInv, AbsentIsUntagged, Exists, TypeOK
    <3>2. c \notin loaded'
      BY <1>1, <2>2 DEF TagClasses, appVars
    <3> QED
      BY <3>1, <3>2, TagFacts
  <2> QED
    BY <2>1, <2>2
<1>2. CASE ~ TagClasses
  <2> DEFINE Stays == pc = "firstWalk" /\ UNCHANGED <<tag, late>> /\ loaded' = loaded
  <2>1. ~ Application => Stays
    <3> SUFFICES ASSUME Dumper \/ UNCHANGED vars PROVE Stays
      BY DEF Next
    <3>1. CASE Begin \/ FirstWalk \/ GetObjects \/ SearchEnds \/ EndWalks
      BY <3>1 DEF Begin, FirstWalk, GetObjects, SearchEnds, EndWalks
    <3>2. CASE tagAllClasses \/ FreeNodes \/ Release
      BY <3>2 DEF tagAllClasses, FreeNodes, Release
    <3>3. CASE \E o \in Objects : SearchObject(o) \/ TagReferrer(o)
      BY <3>3 DEF SearchObject, TagReferrer
    <3>4. CASE \E a \in Addresses : fillClassInMemoryNode(a)
      BY <3>4 DEF fillClassInMemoryNode
    <3>5. CASE UNCHANGED vars
      BY <3>5 DEF vars, appVars, history
    <3> QED
      BY <1>2, <3>1, <3>2, <3>3, <3>4, <3>5 DEF Dumper
  <2>2. CASE Stays
    BY <2>2 DEF LInv, EligibleClassTags
  <2>3. CASE Application
    <3>0. pc = "firstWalk"
      BY <2>3 DEF Application, Load, Create, Drop, Collect, Resize
    <3>1. tag'[c] = tag[c]
      BY <1>0, <2>3 DEF Application, Load, Create, Drop, Collect, Collected, Resize
    <3>2. loaded' \ late' = loaded \ late
      BY <2>3 DEF Application, Load, Create, Drop, Collect, Collected, Resize, history
    <3> QED
      BY <3>0, <3>1, <3>2 DEF LInv, EligibleClassTags
  <2> QED
    BY <2>1, <2>2, <2>3
<1> QED
  BY <1>1, <1>2

(* A leak stays one, of the same object, until the nodes are freed, and     *)
(* only an object that is asked for its size becomes a new one.             *)
LEMMA LeaksStay ==
  ASSUME IInv, LInv, [Next]_vars, ~ FreeNodes, NEW a \in leaks
  PROVE  a \in leaks' /\ node'[a] # None /\ node'[a].owner = node[a].owner
<1>0. a \in Addresses /\ node[a] # None /\ a \notin FreeAddresses
  BY DEF LInv, EligibleLeaks, IInv, TypeOK, FreeAddresses
<1>1. CASE Application
  BY <1>0, <1>1 DEF Application, Load, Create, Drop, Collect, Resize, nodeVars
<1>2. CASE Dumper
  <2>1. CASE Begin \/ TagClasses \/ FirstWalk \/ GetObjects
    BY <1>0, <2>1 DEF Begin, TagClasses, FirstWalk, GetObjects, nodeVars
  <2>2. CASE SearchEnds \/ tagAllClasses \/ EndWalks \/ Release
    BY <1>0, <2>2 DEF SearchEnds, tagAllClasses, EndWalks, Release, nodeVars
  <2>3. CASE \E o \in Objects : SearchObject(o) \/ TagReferrer(o)
    BY <1>0, <2>3 DEF SearchObject, WithLeak, WithoutLeak, TagReferrer, IInv, TypeOK
  <2>4. CASE \E b \in Addresses : fillClassInMemoryNode(b)
    <3>1. leaks' = leaks
      BY <2>4 DEF fillClassInMemoryNode
    <3> QED
      BY <1>0, <2>4, <3>1, FilledNodesKeepOwners
  <2> QED
    BY <1>2, <2>1, <2>2, <2>3, <2>4 DEF Dumper
<1>3. CASE UNCHANGED vars
  BY <1>0, <1>3 DEF vars, nodeVars
<1> QED
  BY <1>1, <1>2, <1>3 DEF Next

LEMMA NewLeaks ==
  ASSUME IInv, [Next]_vars, NEW a \in leaks' \ leaks
  PROVE  \E o \in todo \cap Instances : node'[a] # None /\ node'[a].owner = o
<1>1. PICK o \in Objects : SearchObject(o) /\ WithLeak(o)
  <2>1. CASE Application
    BY <2>1 DEF Application, Load, Create, Drop, Collect, Resize, nodeVars
  <2>2. CASE Dumper
    <3>1. CASE Begin \/ TagClasses \/ FirstWalk \/ GetObjects
      BY <3>1 DEF Begin, TagClasses, FirstWalk, GetObjects, nodeVars
    <3>2. CASE SearchEnds \/ tagAllClasses \/ EndWalks \/ FreeNodes \/ Release
      BY <3>2 DEF SearchEnds, tagAllClasses, EndWalks, FreeNodes, Release, nodeVars
    <3>3. CASE \E o \in Objects : SearchObject(o) \/ TagReferrer(o)
      BY <3>3 DEF SearchObject, WithoutLeak, TagReferrer
    <3>4. CASE \E b \in Addresses : fillClassInMemoryNode(b)
      BY <3>4 DEF fillClassInMemoryNode
    <3> QED
      BY <2>2, <3>1, <3>2, <3>3, <3>4 DEF Dumper
  <2>3. CASE UNCHANGED vars
    BY <2>3 DEF vars, nodeVars
  <2> QED
    BY <2>1, <2>2, <2>3 DEF Next
<1>2. o \in todo /\ o \in Instances
  BY <1>1, SearchAssumption DEF SearchObject, WithLeak, IsLeak, SizeOf
<1>3. node'[a] = NewNode(o, o)
  BY <1>1 DEF WithLeak, IInv, TypeOK, FreeAddresses
<1> QED
  BY <1>1, <1>2, <1>3, NewNodeFacts

(* The leaks of a search are those before it and perhaps its object.        *)
LEMMA LeaksStayEligible ==
  ASSUME IInv, LInv, [Next]_vars
  PROVE  EligibleLeaks'
<1>1. ASSUME NEW a \in leaks' PROVE node'[a] # None /\ Eligible(node'[a].owner)
  <2>1. CASE a \in leaks
    <3>1. ~ FreeNodes
      BY <1>1 DEF FreeNodes
    <3> QED
      BY <2>1, <3>1, LeaksStay DEF LInv, EligibleLeaks
  <2>2. CASE a \notin leaks
    BY <1>1, <2>2, NewLeaks DEF LInv, EligibleLeaks
  <2> QED
    BY <2>1, <2>2
<1>2. ASSUME NEW o \in todo' \cap Instances PROVE Eligible(o)
  <2>1. o \in todo \/ tag[o] \in InitialTags
    <3>1. CASE Application
      BY <3>1 DEF Application, Load, Create, Drop, Collect, Resize
    <3>2. CASE Dumper
      <4>1. CASE Begin \/ TagClasses \/ FirstWalk \/ GetObjects
        BY <4>1 DEF Begin, TagClasses, FirstWalk, GetObjects
      <4>2. CASE SearchEnds \/ tagAllClasses \/ EndWalks \/ FreeNodes \/ Release
        BY <4>2 DEF SearchEnds, tagAllClasses, EndWalks, FreeNodes, Release
      <4>3. CASE \E p \in Objects : SearchObject(p) \/ TagReferrer(p)
        BY <4>3 DEF SearchObject, TagReferrer
      <4>4. CASE \E b \in Addresses : fillClassInMemoryNode(b)
        BY <4>4 DEF fillClassInMemoryNode
      <4> QED
        BY <3>2, <4>1, <4>2, <4>3, <4>4 DEF Dumper
    <3>3. CASE UNCHANGED vars
      BY <3>3 DEF vars
    <3> QED
      BY <3>1, <3>2, <3>3 DEF Next
  <2> QED
    BY <2>1 DEF LInv, EligibleLeaks, EligibleTags
<1> QED
  BY <1>1, <1>2, EligibleStays DEF EligibleLeaks

LEMMA LeakNodesStay ==
  ASSUME IInv, LInv, [Next]_vars, ~ FreeNodes, NEW o, IsLeakNode(o)
  PROVE  IsLeakNode(o)'
<1>1. PICK a \in leaks : node[a].owner = o
  BY DEF IsLeakNode
<1> QED
  BY <1>1, LeaksStay DEF IsLeakNode

(* The walk gives a big collection the tag of its class, the search meets   *)
(* it by that tag, and finds it as big as it was.                           *)
LEMMA ExpectedStaysFound ==
  ASSUME IInv, LInv, [Next]_vars
  PROVE  ExpectedIsFound'
<1> SUFFICES ASSUME NEW o \in expected'
             PROVE  /\ o \in Instances
                    /\ pc' = "getObjects" => /\ o \in Exists' /\ tag'[o] \in InitialTags
                                             /\ size'[o] > size_threshold
                    /\ pc' = "search" => \/ o \in todo' /\ size'[o] > size_threshold
                                         \/ IsLeakNode(o)'
                    /\ pc' \in {"tagAgain", "walks", "print"} => IsLeakNode(o)'
  BY DEF ExpectedIsFound
<1> DEFINE Goal == /\ o \in Instances
                   /\ pc' = "getObjects" => /\ o \in Exists' /\ tag'[o] \in InitialTags
                                            /\ size'[o] > size_threshold
                   /\ pc' = "search" => \/ o \in todo' /\ size'[o] > size_threshold
                                        \/ IsLeakNode(o)'
                   /\ pc' \in {"tagAgain", "walks", "print"} => IsLeakNode(o)'
           Old  == /\ o \in Instances
                   /\ pc = "getObjects" => /\ o \in Exists /\ tag[o] \in InitialTags
                                           /\ size[o] > size_threshold
                   /\ pc = "search" => \/ o \in todo /\ size[o] > size_threshold
                                       \/ IsLeakNode(o)
                   /\ pc \in {"tagAgain", "walks", "print"} => IsLeakNode(o)
<1>1. o \in expected => Old
  BY DEF LInv, ExpectedIsFound
<1>2. ~ FreeNodes /\ IsLeakNode(o) => IsLeakNode(o)'
  BY LeakNodesStay
<1>3. CASE Application
  <2>1. /\ o \in expected /\ o \in Objects /\ ~ FreeNodes
        /\ pc' = pc /\ todo' = todo /\ (o \in Exists => o \in Exists') /\ tag'[o] = tag[o]
        /\ size'[o] = size[o]
    <3>1. CASE \E c \in Classes : Load(c)
      BY <3>1, <1>1 DEF Load, Exists, Objects, FreeNodes
    <3>2. CASE \E p \in Instances : Create(p) \/ Drop(p)
      BY <3>2, <1>1 DEF Create, Drop, Exists, Objects, history, FreeNodes
    <3>3. CASE \E p \in Instances : Collect(p)
      BY <3>3, <1>1 DEF Collect, Collected, Exists, Objects, FreeNodes
    <3>4. CASE \E p \in Instances, n \in Sizes : Resize(p, n)
      BY <3>4, <1>1 DEF Resize, Exists, Objects, LInv, HeapTypes, FreeNodes
    <3> QED
      BY <1>3, <3>1, <3>2, <3>3, <3>4 DEF Application
  <2> HIDE DEF Old
  <2> QED
    BY <1>1, <1>2, <2>1 DEF Old
<1>4. CASE Begin \/ TagClasses \/ FreeNodes \/ Release
  BY <1>1, <1>4 DEF Begin, TagClasses, FreeNodes, Release, Collected, history
<1>5. CASE FirstWalk
  <2>1. /\ o \in reachable /\ Eligible(o) /\ size[o] > size_threshold /\ klass[o] \notin late
        /\ size' = size /\ pc' = "getObjects" /\ reachable' = reachable
    BY <1>5 DEF FirstWalk, appVars
  <2>2. o \in Instances /\ o \in Exists'
    BY <2>1 DEF IInv, TypeOK, Exists
  <2>3. klass[o] \in loaded \ late /\ klass[o] \in Classes \ {ClassClass}
        /\ ClassEligible(klass[o])
    BY <2>1, <2>2, ClassOfInstance DEF LInv, HeapTypes, Eligible, ClassEligible
  <2>4. tag[klass[o]] \in InitialTags
    BY <1>5, <2>3 DEF LInv, EligibleClassTags, FirstWalk
  <2>5. tag'[o] \in InitialTags
    BY <1>5, <2>1, <2>4, WalkedTag
  <2> QED
    BY <2>1, <2>2, <2>5
<1>6. CASE GetObjects
  BY <1>1, <1>6 DEF GetObjects, appVars, history
<1>7. CASE SearchEnds
  <2>1. o \in expected /\ IsLeakNode(o) /\ ~ FreeNodes
    BY <1>1, <1>7 DEF SearchEnds, FreeNodes, history
  <2> QED
    BY <1>1, <1>2, <1>7, <2>1 DEF SearchEnds, IsLeakNode
<1>8. CASE tagAllClasses \/ EndWalks
  BY <1>1, <1>2, <1>8 DEF tagAllClasses, EndWalks, FreeNodes, history
<1>9. CASE \E a \in Addresses : fillClassInMemoryNode(a)
  <2>1. expected' = expected /\ pc = "print" /\ pc' \in {"print", "fatal"}
        /\ todo' = todo
    BY <1>9 DEF fillClassInMemoryNode, history
  <2>2. leaks' = leaks /\ (IsLeakNode(o) => IsLeakNode(o)')
    <3>1. leaks' = leaks
      BY <1>9 DEF fillClassInMemoryNode
    <3> QED
      BY <1>9, <3>1, FilledNodesKeepOwners DEF IsLeakNode, LInv, EligibleLeaks, IInv, TypeOK
  <2> QED
    BY <1>1, <2>1, <2>2
<1>10. CASE \E p \in Objects : TagReferrer(p)
  BY <1>1, <1>2, <1>10 DEF TagReferrer, FreeNodes, history
<1>11. ASSUME NEW p \in Objects, SearchObject(p) PROVE Goal
  <2>1. /\ o \in expected /\ pc = "search" /\ pc' = "search" /\ ~ FreeNodes
        /\ todo' = todo \ {p} /\ size' = size
    BY <1>11 DEF SearchObject, FreeNodes, appVars, history
  <2>2. CASE p = o /\ size[o] > size_threshold
    <3>1. WithLeak(o) /\ o \in Objects
      BY <1>1, <1>11, <2>1, <2>2 DEF SearchObject, WithoutLeak, IsLeak, SizeOf
    <3>2. PICK a \in FreeAddresses : node' = [node EXCEPT ![a] = NewNode(o, o)] /\ a \in leaks'
      BY <3>1 DEF WithLeak
    <3>3. node'[a].owner = o
      BY <3>1, <3>2, NewNodeFacts DEF FreeAddresses, IInv, TypeOK
    <3> QED
      BY <1>1, <2>1, <3>2, <3>3 DEF IsLeakNode
  <2>3. CASE ~ (p = o /\ size[o] > size_threshold)
    BY <1>1, <1>2, <2>1, <2>3
  <2> QED
    BY <2>2, <2>3
<1>12. CASE UNCHANGED vars
  BY <1>1, <1>2, <1>12 DEF vars, appVars, nodeVars, history, Exists, IsLeakNode
<1> QED
  BY <1>3, <1>4, <1>5, <1>6, <1>7, <1>8, <1>9, <1>10, <1>11, <1>12 DEF Next, Dumper

LEMMA AlwaysLInv == Spec => []LInv
<1>1. Init => LInv
  <2>1. Init => RulesAreLoaded /\ EligibleClassTags /\ EligibleLeaks /\ ExpectedIsFound
    BY DEF Init, RulesAreLoaded, EligibleClassTags, EligibleLeaks, ExpectedIsFound
  <2>2. Init => HeapTypes
    BY DEF Init, HeapTypes
  <2>3. Init => EligibleTags
    BY TagFacts DEF Init, EligibleTags, Objects
  <2> QED
    BY <2>1, <2>2, <2>3 DEF LInv
<1>2. IInv /\ LInv /\ [Next]_vars => LInv'
  BY RulesStayLoaded, HeapStaysTyped, TagsStayEligible, ClassTagsStayEligible,
     LeaksStayEligible, ExpectedStaysFound DEF LInv
<1> QED
  BY <1>1, <1>2, AlwaysIInv, PTL DEF Spec

(* Of whatever heap and configuration: a collection above the threshold     *)
(* when the first walk reached it becomes a leak if its size stays and its  *)
(* class was not loaded too late, and nothing that the files exclude - nor  *)
(* a class object with the tag of its instances - becomes one               *)
(* (leak_detect.c:333-389, 482-530).                                        *)
THEOREM SearchFindsTheBigCollections == Spec => []LeaksAreTheBigCollections
<1>1. LInv => LeaksAreTheBigCollections
  BY DEF LInv, EligibleLeaks, ExpectedIsFound, LeaksAreTheBigCollections
<1> QED
  BY <1>1, AlwaysLInv, PTL
-----------------------------------------------------------------------------
(* Who owns the rules: the map, for each key, and the class nodes.          *)
RuleTypes ==
  /\ maps \in Maps /\ ignore_fields \in [Classes -> Seq(RuleSet)]
  /\ \A c \in Classes \ classNodes : ignore_fields[c] = <<>>
  /\ pc \notin {"walks", "print", "fatal"} => classNodes = {}

MapIds(k)   == Ids(RulesAtKey(maps, k))
ClassIds(c) == Ids(ignore_fields[c])

LiveIsOwned ==
  live = (UNION {MapIds(k) : k \in Keys}) \cup (UNION {ClassIds(c) : c \in Classes})

OwnersAreApart ==
  /\ \A j, k \in Keys : j # k => MapIds(j) \cap MapIds(k) = {}
  /\ \A c, d \in Classes : c # d => ClassIds(c) \cap ClassIds(d) = {}
  /\ \A k \in Keys, c \in Classes : MapIds(k) \cap ClassIds(c) = {}

RInv == RuleTypes /\ LiveIsOwned /\ OwnersAreApart

(* A pair of a map is what its key is mapped to, and the other way round.   *)
LEMMA KeyIsFound ==
  ASSUME NEW V, NEW map, IsMap(map, V), NEW b \in 0 .. (Capacity - 1), NEW i \in DOMAIN map[b]
  PROVE  /\ map[b][i].key \in Keys /\ index(map[b][i].key) = b /\ sm_exists(map, map[b][i].key)
         /\ get_pair(map[index(map[b][i].key)], map[b][i].key) = i
<1> DEFINE key == map[b][i].key
<1>1. map[b] \in Seq(Pairs(V)) /\ index(key) = b
      /\ \A j \in DOMAIN map[b] : map[b][i].key = map[b][j].key => i = j
  BY DEF IsMap
<1>2. map[b][i] \in Pairs(V)
  BY <1>1
<1>3. key \in Keys
  BY <1>2 DEF Pairs
<1>4. Holds(map[b], key, i)
  BY DEF Holds
<1>5. Holds(map[b], key, get_pair(map[b], key)) /\ get_pair(map[b], key) # 0
  BY <1>1, <1>4, PairFound
<1>6. get_pair(map[b], key) = i
  BY <1>1, <1>5 DEF Holds
<1> QED
  BY <1>1, <1>3, <1>5, <1>6 DEF sm_exists

LEMMA PairIsGot ==
  ASSUME NEW V, NEW map, IsMap(map, V), NEW b \in 0 .. (Capacity - 1), NEW i \in DOMAIN map[b],
         NEW key, map[b][i].key = key, NEW res
  PROVE  sm_get(map, key, res) = map[b][i].value
BY KeyIsFound DEF sm_get

LEMMA GotIsPair ==
  ASSUME NEW V, NEW map, IsMap(map, V), NEW key \in Keys, sm_exists(map, key), NEW res
  PROVE  /\ index(key) \in 0 .. (Capacity - 1)
         /\ \E i \in DOMAIN map[index(key)] :
              map[index(key)][i].key = key /\ sm_get(map, key, res) = map[index(key)][i].value
<1>1. index(key) \in 0 .. (Capacity - 1) /\ map[index(key)] \in Seq(Pairs(V))
  BY IndexInRange DEF IsMap
<1>2. Holds(map[index(key)], key, get_pair(map[index(key)], key))
  BY <1>1, FoundPair DEF sm_exists
<1> QED
  BY <1>1, <1>2 DEF Holds, sm_get

(* What is left of a pair when the rules of names are taken.                *)
LEMMA PairWithoutRules ==
  ASSUME NEW V, NEW map, IsMap(map, V), NEW names, NEW b \in 0 .. (Capacity - 1)
  PROVE  /\ DOMAIN WithoutRules(map, names)[b] = DOMAIN map[b]
         /\ \A i \in DOMAIN map[b] :
              /\ WithoutRules(map, names)[b][i].key = map[b][i].key
              /\ WithoutRules(map, names)[b][i].value
                   = IF map[b][i].key \in names THEN <<>> ELSE map[b][i].value
<1>1. DOMAIN map = 0 .. (Capacity - 1)
  BY DEF IsMap
<1>2. WithoutRules(map, names)[b]
        = [i \in DOMAIN map[b] |-> IF map[b][i].key \in names
                                   THEN Pair(map[b][i].key, <<>>) ELSE map[b][i]]
  BY <1>1 DEF WithoutRules
<1> QED
  BY <1>2 DEF Pair

(* A name whose rules are taken is mapped to none, another to what it was.  *)
LEMMA GetWithoutRules ==
  ASSUME NEW V, NEW map, IsMap(map, V), <<>> \in V, NEW names, NEW key \in Keys
  PROVE  sm_get(WithoutRules(map, names), key, <<>>)
           = IF key \in names THEN <<>> ELSE sm_get(map, key, <<>>)
<1>0. PICK new : new = WithoutRules(map, names)
  OBVIOUS
<1>1. IsMap(new, V)
  BY <1>0, RulesGoKeysStay
<1>2. CASE sm_exists(map, key)
  <2>0. PICK b \in 0 .. (Capacity - 1) : b = index(key)
    BY IndexInRange
  <2>1. PICK i : /\ i \in DOMAIN map[b] /\ map[b][i].key = key
                 /\ sm_get(map, key, <<>>) = map[b][i].value
    BY <1>2, <2>0, GotIsPair
  <2>2. /\ i \in DOMAIN new[b] /\ new[b][i].key = key
        /\ new[b][i].value = IF key \in names THEN <<>> ELSE map[b][i].value
    BY <1>0, <2>1, PairWithoutRules
  <2>3. sm_get(new, key, <<>>) = new[b][i].value
    BY <1>1, <2>2, PairIsGot
  <2> QED
    BY <1>0, <2>1, <2>2, <2>3
<1>3. CASE ~ sm_exists(map, key)
  <2>1. ~ sm_exists(new, key)
    <3> SUFFICES ASSUME sm_exists(new, key) PROVE sm_exists(map, key)
      BY <1>3
    <3>1. index(key) \in 0 .. (Capacity - 1)
      BY IndexInRange
    <3>2. PICK i \in DOMAIN new[index(key)] : new[index(key)][i].key = key
      BY <1>1, GotIsPair
    <3>3. i \in DOMAIN map[index(key)] /\ map[index(key)][i].key = key
      BY <1>0, <3>1, <3>2, PairWithoutRules
    <3>4. sm_exists(map, map[index(key)][i].key)
      BY <3>1, <3>3, KeyIsFound, Zenon
    <3> QED
      BY <3>3, <3>4
  <2> QED
    BY <1>0, <1>3, <2>1 DEF sm_get
<1> QED
  BY <1>2, <1>3

(* The release of a map frees all rules in it.                              *)
LEMMA ReleaseFreesRules ==
  ASSUME NEW m \in Maps, NEW k \in Keys
  PROVE  Ids(RulesAtKey(m, k)) \subseteq RulesIn(m.ignore_referenced_by)
<1>0. PICK map : map = m.ignore_referenced_by
  OBVIOUS
<1>1. IsMap(map, Seq(RuleSet))
  BY <1>0, MapsFacts
<1>2. CASE sm_exists(map, k)
  <2>1. index(k) \in 0 .. (Capacity - 1)
        /\ \E i \in DOMAIN map[index(k)] :
             map[index(k)][i].key = k /\ sm_get(map, k, <<>>) = map[index(k)][i].value
    BY <1>1, <1>2, GotIsPair
  <2>2. sm_get(map, k, <<>>) \in sm_delete(map)
    <3>1. DOMAIN map = 0 .. (Capacity - 1)
      BY <1>1 DEF IsMap
    <3> QED
      BY <2>1, <3>1 DEF sm_delete
  <2> QED
    BY <1>0, <2>2 DEF RulesIn, RulesAtKey
<1>3. CASE ~ sm_exists(map, k)
  BY <1>0, <1>3 DEF sm_get, RulesAtKey, Ids
<1> QED
  BY <1>2, <1>3

(* Rules are moved by four steps.                                           *)
LEMMA RulesRest ==
  ASSUME RInv, [Next]_vars, ~ Begin, ~ tagAllClasses, ~ FreeNodes, ~ Release
  PROVE  RInv'
<1>1. UNCHANGED <<maps, live, ignore_fields, classNodes>>
      /\ (pc \in {"walks", "print", "fatal"} => pc' \in {"walks", "print", "fatal"})
  <2>1. CASE Application
    BY <2>1 DEF Application, Load, Create, Drop, Collect, Resize, ruleVars, nodeVars
  <2>2. CASE Dumper
    <3>1. CASE TagClasses \/ FirstWalk \/ GetObjects
      BY <3>1 DEF TagClasses, FirstWalk, GetObjects, ruleVars, nodeVars
    <3>2. CASE SearchEnds \/ EndWalks
      BY <3>2 DEF SearchEnds, EndWalks, ruleVars, nodeVars
    <3>3. CASE \E o \in Objects : SearchObject(o) \/ TagReferrer(o)
      BY <3>3 DEF SearchObject, TagReferrer, ruleVars
    <3>4. CASE \E a \in Addresses : fillClassInMemoryNode(a)
      BY <3>4 DEF fillClassInMemoryNode, ruleVars
    <3> QED
      BY <2>2, <3>1, <3>2, <3>3, <3>4 DEF Dumper
  <2>3. CASE UNCHANGED vars
    BY <2>3 DEF vars, ruleVars, nodeVars
  <2> QED
    BY <2>1, <2>2, <2>3 DEF Next
<1>2. RuleTypes'
  BY <1>1 DEF RInv, RuleTypes
<1>3. LiveIsOwned'
  BY <1>1 DEF RInv, LiveIsOwned, MapIds, ClassIds
<1>4. OwnersAreApart'
  BY <1>1 DEF RInv, OwnersAreApart, MapIds, ClassIds
<1> QED
  BY <1>2, <1>3, <1>4 DEF RInv

(* Outside the walks no class has rules.                                    *)
LEMMA NoClassHasRules ==
  ASSUME RInv, classNodes = {}, NEW c \in Classes
  PROVE  ignore_fields[c] = <<>> /\ ClassIds(c) = {}
<1>1. ignore_fields[c] = <<>>
  BY DEF RInv, RuleTypes
<1> QED
  BY <1>1 DEF ClassIds, Ids

(* The rules that are loaded are in the maps.                               *)
LEMMA BeginOwns ==
  ASSUME IInv, RInv, Begin
  PROVE  RInv'
<1>1. /\ maps' = LoadRules(conf) /\ live' = 1 .. maps'.made
      /\ ignore_fields' = ignore_fields /\ classNodes' = classNodes /\ classNodes = {}
  BY DEF Begin, nodeVars, RInv, RuleTypes
<1>2. maps' \in Maps /\ OneOwner(maps')
  <2>1. conf \in Seq(Seq(Lines))
    BY SearchAssumption DEF IInv, TypeOK
  <2> QED
    BY <1>1, <2>1, RulesAreLoadedOnce
<1>3. \A c \in Classes : ClassIds(c)' = {}
  BY <1>1, NoClassHasRules DEF ClassIds
<1>4. RuleTypes'
  BY <1>1, <1>2 DEF RInv, RuleTypes
<1>5. LiveIsOwned'
  <2>1. UNION {Ids(RulesAtKey(maps', k)) : k \in Keys} = 1 .. maps'.made
    BY <1>2 DEF OneOwner
  <2>2. UNION {ClassIds(c)' : c \in Classes} = {}
    BY <1>3
  <2> QED
    BY <1>1, <2>1, <2>2 DEF LiveIsOwned, MapIds
<1>6. OwnersAreApart'
  BY <1>2, <1>3 DEF OneOwner, OwnersAreApart, MapIds
<1> QED
  BY <1>4, <1>5, <1>6 DEF RInv

(* The rules of a name go to the first class of that name.                  *)
LEMMA TagAllClassesOwns ==
  ASSUME IInv, RInv, tagAllClasses
  PROVE  RInv'
<1>1. PICK T \in SUBSET CanTake :
        /\ FirstOfTheirName(T)
        /\ ignore_fields' = [c \in Classes |-> IF c \in T THEN RulesOf(c) ELSE <<>>]
        /\ maps' = [maps EXCEPT !.ignore_referenced_by = WithoutRules(@, {name[c] : c \in T})]
  BY DEF tagAllClasses
<1>2. PICK names : names = {name[c] : c \in T}
  OBVIOUS
<1>3. /\ classNodes = {} /\ classNodes' = loaded \ {ClassClass} /\ live' = live /\ pc' = "walks"
      /\ T \subseteq classNodes' /\ T \subseteq Classes
  BY <1>1 DEF tagAllClasses, RInv, RuleTypes, CanTake, IInv, TypeOK
<1>4. IsMap(maps.ignore_referenced_by, Seq(RuleSet)) /\ <<>> \in Seq(RuleSet)
  BY MapsFacts DEF RInv, RuleTypes
<1>5. PICK left : left = WithoutRules(maps.ignore_referenced_by, names)
  OBVIOUS
<1>6. IsMap(left, Seq(RuleSet))
  <2>1. name[ClassClass] \in Keys
    BY SearchAssumption
  <2> QED
    BY <1>4, <1>5, <2>1, RulesGoKeysStay
<1>7. maps' = [ignore_classes |-> maps.ignore_classes, ignore_referenced_by |-> left,
               made |-> maps.made]
  BY <1>1, <1>2, <1>5, MapsFacts DEF RInv, RuleTypes
<1>8. maps' \in Maps
  BY <1>6, <1>7, MapsFacts, MapsAre DEF RInv, RuleTypes
<1>9. \A k \in Keys : RulesAtKey(maps', k) = IF k \in names THEN <<>> ELSE RulesAtKey(maps, k)
  <2> SUFFICES ASSUME NEW k \in Keys
               PROVE  RulesAtKey(maps', k) = IF k \in names THEN <<>> ELSE RulesAtKey(maps, k)
    OBVIOUS
  <2>1. sm_get(left, k, <<>>)
          = IF k \in names THEN <<>> ELSE sm_get(maps.ignore_referenced_by, k, <<>>)
    BY <1>4, <1>5, GetWithoutRules
  <2> QED
    BY <1>7, <2>1 DEF RulesAtKey
<1>10. \A c \in Classes :
         /\ name[c] \in Keys
         /\ ignore_fields'[c] = IF c \in T THEN RulesAtKey(maps, name[c]) ELSE <<>>
  BY <1>1, SearchAssumption DEF RulesOf, RulesAtKey
<1>11. \A c, d \in T : name[c] = name[d] => c = d
  <2> SUFFICES ASSUME NEW c \in T, NEW d \in T, name[c] = name[d] PROVE c = d
    OBVIOUS
  <2>1. PICK e \in T : {x \in T : name[x] = name[c]} = {e}
    BY <1>1 DEF FirstOfTheirName
  <2> QED
    BY <2>1
<1>12. RuleTypes'
  <2>1. ignore_fields' \in [Classes -> Seq(RuleSet)]
    <3>1. \A c \in Classes : ignore_fields'[c] \in Seq(RuleSet)
      BY <1>4, <1>10, RulesAtKeyTyped DEF RInv, RuleTypes
    <3> QED
      BY <1>1, <3>1
  <2>2. \A c \in Classes \ classNodes' : ignore_fields'[c] = <<>>
    BY <1>3, <1>10
  <2> QED
    BY <1>3, <1>8, <2>1, <2>2 DEF RuleTypes
<1>13. /\ \A k \in Keys : MapIds(k)' = IF k \in names THEN {} ELSE MapIds(k)
       /\ \A c \in Classes : ClassIds(c)' = IF c \in T THEN MapIds(name[c]) ELSE {}
  <2>1. Ids(<<>>) = {}
    BY DEF Ids
  <2> QED
    BY <1>9, <1>10, <2>1 DEF MapIds, ClassIds
<1>14. LiveIsOwned'
  <2>1. UNION {ClassIds(c) : c \in Classes} = {}
    BY <1>3, NoClassHasRules
  <2>2. live = UNION {MapIds(k) : k \in Keys}
    BY <2>1 DEF RInv, LiveIsOwned
  <2>3. UNION {MapIds(k) : k \in Keys}
          = (UNION {MapIds(k)' : k \in Keys}) \cup (UNION {ClassIds(c)' : c \in Classes})
    <3>1. ASSUME NEW k \in Keys, k \in names
          PROVE  \E c \in Classes : MapIds(k) = ClassIds(c)'
      BY <1>2, <1>3, <1>13, <3>1
    <3>2. \A k \in Keys : MapIds(k) \subseteq (UNION {MapIds(j)' : j \in Keys})
                                        \cup (UNION {ClassIds(c)' : c \in Classes})
      BY <1>13, <3>1
    <3>3. \A k \in Keys : MapIds(k)' \subseteq MapIds(k)
      BY <1>13
    <3>4. \A c \in Classes : ClassIds(c)' \subseteq MapIds(name[c])
      BY <1>13
    <3> QED
      BY <1>10, <3>2, <3>3, <3>4
  <2> QED
    BY <1>3, <2>2, <2>3 DEF LiveIsOwned
<1>15. OwnersAreApart'
  <2>1. \A j, k \in Keys : j # k => MapIds(j)' \cap MapIds(k)' = {}
    BY <1>13 DEF RInv, OwnersAreApart
  <2>2. \A c, d \in Classes : c # d => ClassIds(c)' \cap ClassIds(d)' = {}
    BY <1>10, <1>11, <1>13 DEF RInv, OwnersAreApart
  <2>3. \A k \in Keys, c \in Classes : MapIds(k)' \cap ClassIds(c)' = {}
    BY <1>2, <1>10, <1>13 DEF RInv, OwnersAreApart
  <2> QED
    BY <2>1, <2>2, <2>3 DEF OwnersAreApart
<1> QED
  BY <1>12, <1>14, <1>15 DEF RInv

(* The rules of class nodes are freed with the nodes.                       *)
LEMMA FreeNodesOwns ==
  ASSUME IInv, RInv, FreeNodes
  PROVE  RInv'
<1>1. /\ maps' = maps /\ ignore_fields' = [c \in Classes |-> <<>>] /\ classNodes' = {}
      /\ live' = live \ UNION {ClassIds(c) : c \in classNodes} /\ pc' = "release"
  BY DEF FreeNodes, untagAllClasses, ClassIds
<1>2. /\ \A k \in Keys : MapIds(k)' = MapIds(k)
      /\ \A c \in Classes : ClassIds(c)' = {}
  BY <1>1 DEF MapIds, ClassIds, Ids
<1>3. RuleTypes'
  BY <1>1 DEF RInv, RuleTypes
<1>4. UNION {ClassIds(c) : c \in classNodes} = UNION {ClassIds(c) : c \in Classes}
  <2>1. \A c \in Classes \ classNodes : ClassIds(c) = {}
    BY DEF RInv, RuleTypes, ClassIds, Ids
  <2>2. classNodes \subseteq Classes
    BY DEF IInv, TypeOK
  <2> QED
    BY <2>1, <2>2
<1>5. LiveIsOwned'
  <2>1. live' = UNION {MapIds(k) : k \in Keys}
    BY <1>1, <1>4 DEF RInv, LiveIsOwned, OwnersAreApart
  <2>2. UNION {MapIds(k)' : k \in Keys} = UNION {MapIds(k) : k \in Keys}
    BY <1>2
  <2>3. UNION {ClassIds(c)' : c \in Classes} = {}
    BY <1>2
  <2> QED
    BY <2>1, <2>2, <2>3 DEF LiveIsOwned
<1>6. OwnersAreApart'
  BY <1>2 DEF RInv, OwnersAreApart
<1> QED
  BY <1>3, <1>5, <1>6 DEF RInv

(* No rule is left.                                                         *)
LEMMA ReleaseOwns ==
  ASSUME IInv, RInv, Release
  PROVE  RInv'
<1>1. /\ maps' = NoMaps /\ ignore_fields' = ignore_fields /\ classNodes' = classNodes
      /\ live' = live \ RulesIn(maps.ignore_referenced_by) /\ classNodes = {}
  BY DEF Release, nodeVars, RInv, RuleTypes
<1>2. RuleTypes'
  BY <1>1, NoMapsFacts DEF RInv, RuleTypes
<1>3. /\ \A k \in Keys : MapIds(k)' = {}
      /\ \A c \in Classes : ClassIds(c)' = {}
  <2>1. ASSUME NEW k \in Keys PROVE RulesAtKey(NoMaps, k) = <<>>
    BY NoMapsFacts, Zenon
  <2>2. Ids(<<>>) = {}
    BY DEF Ids
  <2> QED
    BY <1>1, <2>1, <2>2, NoClassHasRules DEF MapIds, ClassIds
<1>4. LiveIsOwned'
  <2>1. live' = {}
    <3>1. \A k \in Keys : MapIds(k) \subseteq RulesIn(maps.ignore_referenced_by)
      BY ReleaseFreesRules DEF RInv, RuleTypes, MapIds
    <3>2. \A c \in Classes : ClassIds(c) = {}
      BY <1>1, NoClassHasRules
    <3> QED
      BY <1>1, <3>1, <3>2 DEF RInv, LiveIsOwned
  <2> QED
    BY <1>3, <2>1 DEF LiveIsOwned
<1>5. OwnersAreApart'
  BY <1>3 DEF OwnersAreApart
<1> QED
  BY <1>2, <1>4, <1>5 DEF RInv

LEMMA InitRInv == Init => RInv
<1> SUFFICES ASSUME Init PROVE RInv
  OBVIOUS
<1>1. /\ maps = NoMaps /\ live = {} /\ ignore_fields = [c \in Classes |-> <<>>]
      /\ classNodes = {} /\ pc = "idle"
  BY DEF Init
<1>2. RuleTypes
  BY <1>1, NoMapsFacts DEF RuleTypes
<1>3. /\ \A k \in Keys : MapIds(k) = {}
      /\ \A c \in Classes : ClassIds(c) = {}
  <2>1. ASSUME NEW k \in Keys PROVE RulesAtKey(NoMaps, k) = <<>>
    BY NoMapsFacts, Zenon
  <2>2. Ids(<<>>) = {}
    BY DEF Ids
  <2>3. ASSUME NEW c \in Classes PROVE ignore_fields[c] = <<>>
    BY <1>1
  <2> QED
    BY <1>1, <2>1, <2>2, <2>3 DEF MapIds, ClassIds
<1> QED
  BY <1>1, <1>2, <1>3 DEF RInv, LiveIsOwned, OwnersAreApart

LEMMA NextRInv == IInv /\ RInv /\ [Next]_vars => RInv'
BY RulesRest, BeginOwns, TagAllClassesOwns, FreeNodesOwns, ReleaseOwns

(* A pair of the map is a place, of the rules of its key.                   *)
LEMMA RulesOfPlace ==
  ASSUME RInv
  PROVE  /\ \A b \in 0 .. (Capacity - 1) : \A i \in DOMAIN maps.ignore_referenced_by[b] :
              /\ maps.ignore_referenced_by[b][i].key \in Keys
              /\ RulesAt(<<"map", b, i>>) = MapIds(maps.ignore_referenced_by[b][i].key)
         /\ \A c \in Classes : RulesAt(<<"class", c, 0>>) = ClassIds(c)
<1>0. PICK map : map = maps.ignore_referenced_by
  OBVIOUS
<1>1. IsMap(map, Seq(RuleSet))
  BY <1>0, MapsFacts DEF RInv, RuleTypes
<1>2. ASSUME NEW b \in 0 .. (Capacity - 1), NEW i \in DOMAIN map[b]
      PROVE  map[b][i].key \in Keys /\ RulesAt(<<"map", b, i>>) = MapIds(map[b][i].key)
  <2>1. map[b][i].key \in Keys
    BY <1>1, KeyIsFound
  <2>2. sm_get(map, map[b][i].key, <<>>) = map[b][i].value
    <3>1. PICK key : map[b][i].key = key
      OBVIOUS
    <3>2. sm_get(map, key, <<>>) = map[b][i].value
      BY <1>1, <3>1, PairIsGot
    <3> QED
      BY <3>1, <3>2
  <2>3. RulesAt(<<"map", b, i>>) = Ids(map[b][i].value)
    BY <1>0 DEF RulesAt
  <2> QED
    BY <1>0, <2>1, <2>2, <2>3 DEF MapIds, RulesAtKey
<1>3. \A c \in Classes : RulesAt(<<"class", c, 0>>) = ClassIds(c)
  BY DEF RulesAt, ClassIds
<1> QED
  BY <1>0, <1>2, <1>3

(* For any files, classes and number of buckets: each rule that was         *)
(* allocated and not freed is in one list, of the map or of a class node,   *)
(* from the parser to the release and through the handing over in between   *)
(* (jleaker.c:97-155, leak_detect.c:177-205, data_struct.c:49-55).          *)
THEOREM NoRuleIsLostOrFreedTwice == Spec => []RulesHaveOneOwner
<1>1. RInv => RulesHaveOneOwner
  <2> SUFFICES ASSUME RInv PROVE RulesHaveOneOwner
    OBVIOUS
  <2>0. PICK map : map = maps.ignore_referenced_by
    OBVIOUS
  <2>1. IsMap(map, Seq(RuleSet)) /\ DOMAIN map = 0 .. (Capacity - 1)
    BY <2>0, MapsFacts DEF RInv, RuleTypes, IsMap
  <2>2. \A p \in Places :
          \/ \E b \in 0 .. (Capacity - 1) : \E i \in DOMAIN map[b] :
               /\ p = <<"map", b, i>> /\ map[b][i].key \in Keys
               /\ RulesAt(p) = MapIds(map[b][i].key)
          \/ \E c \in Classes : p = <<"class", c, 0>> /\ RulesAt(p) = ClassIds(c)
    BY <2>0, <2>1, RulesOfPlace DEF Places
  <2>3. ASSUME NEW c \in Classes
        PROVE  <<"class", c, 0>> \in Places /\ RulesAt(<<"class", c, 0>>) = ClassIds(c)
    <3>1. <<"class", c, 0>> \in Places
      BY DEF Places
    <3> QED
      BY <3>1, RulesOfPlace
  <2>4. ASSUME NEW k \in Keys
        PROVE  MapIds(k) \subseteq UNION {RulesAt(p) : p \in Places}
    <3>1. CASE sm_exists(map, k)
      <4>1. PICK b \in 0 .. (Capacity - 1) : b = index(k)
        BY IndexInRange
      <4>2. PICK i : /\ i \in DOMAIN map[b] /\ map[b][i].key = k
                     /\ sm_get(map, k, <<>>) = map[b][i].value
        <5>1. PICK V : IsMap(map, V)
          BY <2>1
        <5> QED
          BY <3>1, <4>1, <5>1, GotIsPair
      <4>3. <<"map", b, i>> \in Places
        BY <2>0, <2>1, <4>1, <4>2 DEF Places
      <4>4. RulesAt(<<"map", b, i>>) = MapIds(k)
        BY <2>0, <4>1, <4>2, RulesOfPlace
      <4> QED
        BY <4>3, <4>4
    <3>2. CASE ~ sm_exists(map, k)
      BY <2>0, <3>2 DEF sm_get, MapIds, RulesAtKey, Ids
    <3> QED
      BY <3>1, <3>2
  <2>5. UNION {RulesAt(p) : p \in Places} = live
    <3>1. UNION {RulesAt(p) : p \in Places} \subseteq live
      BY <2>2 DEF RInv, LiveIsOwned
    <3>2. \A c \in Classes : ClassIds(c) \subseteq UNION {RulesAt(p) : p \in Places}
      BY <2>3
    <3> QED
      BY <2>4, <3>1, <3>2 DEF RInv, LiveIsOwned
  <2>6. ASSUME NEW p \in Places, NEW q \in Places, p # q
        PROVE  RulesAt(p) \cap RulesAt(q) = {}
    <3>1. \A b, d \in 0 .. (Capacity - 1) :
            \A i \in DOMAIN map[b], j \in DOMAIN map[d] :
              map[b][i].key = map[d][j].key => b = d /\ i = j
      BY <2>1 DEF IsMap
    <3> QED
      BY <2>2, <2>6, <3>1 DEF RInv, OwnersAreApart
  <2> QED
    BY <2>5, <2>6 DEF RulesHaveOneOwner
<1> QED
  BY <1>1, InitRInv, NextRInv, AlwaysIInv, PTL DEF Spec
-----------------------------------------------------------------------------
(* Whether a list is empty is whether it holds something.                   *)
LEMMA EmptyContents ==
  ASSUME NEW rules \in Seq(RuleSet)
  PROVE  Contents(rules) = {} <=> rules = <<>>
<1>1. CASE rules = <<>>
  BY <1>1 DEF Contents
<1>2. CASE rules # <<>>
  <2>1. 1 \in DOMAIN rules
    BY <1>2
  <2> QED
    BY <1>2, <2>1 DEF Contents
<1> QED
  BY <1>1, <1>2

(* The first class of a name takes what the files hold for it.              *)
LEMMA RulesAreTaken ==
  ASSUME IInv, RulesAreLoaded, tagAllClasses
  PROVE  RulesReachTheirClass'
<1>1. PICK T \in SUBSET CanTake :
        /\ FirstOfTheirName(T)
        /\ ignore_fields' = [c \in Classes |-> IF c \in T THEN RulesOf(c) ELSE <<>>]
  BY DEF tagAllClasses
<1>2. PICK N : N = classNodes'
  OBVIOUS
<1>3. /\ N = loaded \ {ClassClass} /\ N \subseteq Classes /\ conf' = conf
      /\ CanTake = N \cap initialised /\ T \subseteq N /\ T \subseteq initialised
  BY <1>1, <1>2 DEF tagAllClasses, CanTake, IInv, TypeOK, inputs
<1>4. maps = LoadRules(conf) /\ conf \in Seq(Seq(Lines))
  BY SearchAssumption DEF tagAllClasses, RulesAreLoaded, IInv, TypeOK
<1>5. maps \in Maps
  BY <1>4, RulesAreLoadedOnce
<1>6. PICK F : F = ignore_fields'
  OBVIOUS
<1>7. ASSUME NEW c \in T
      PROVE  /\ F[c] \in Seq(RuleSet)
             /\ Contents(F[c]) = RulesFor(conf, name[c])
  <2>1. c \in Classes /\ name[c] \in Keys
    BY <1>3, SearchAssumption
  <2>2. F[c] = RulesAtKey(LoadRules(conf), name[c])
    BY <1>1, <1>4, <1>6, <2>1 DEF RulesOf, RulesAtKey
  <2>3. Contents(RulesAtKey(LoadRules(conf), name[c])) = RulesFor(conf, name[c])
    BY <1>4, <2>1, RulesAreTheFiles, Zenon
  <2>4. RulesAtKey(LoadRules(conf), name[c]) \in Seq(RuleSet)
    BY <1>4, <1>5, <2>1, RulesAtKeyTyped
  <2> QED
    BY <2>2, <2>3, <2>4
<1>8. \A c \in Classes \ T : F[c] = <<>>
  BY <1>1, <1>6
<1>9. ASSUME NEW k \in {name[c] : c \in N}, NEW named, named = {c \in N : name[c] = k},
             NEW rules, rules = RulesFor(conf, k)
      PROVE  /\ \A c \in named : F[c] # <<>> => Contents(F[c]) = rules
             /\ Cardinality({c \in named : F[c] # <<>>}) =
                  IF rules # {} /\ named \cap initialised # {} THEN 1 ELSE 0
  <2>1. \A c \in named : F[c] # <<>> => c \in T
    BY <1>3, <1>8, <1>9
  <2>2. ASSUME NEW c \in named, c \in T
        PROVE  Contents(F[c]) = rules /\ (F[c] = <<>> <=> rules = {})
    BY <1>7, <1>9, <2>2, EmptyContents
  <2>3. CASE rules # {} /\ named \cap initialised # {}
    <3>1. PICK e \in named : e \in CanTake
      BY <1>3, <1>9, <2>3
    <3>2. PICK d \in T : {x \in T : name[x] = name[e]} = {d}
      BY <1>1, <3>1 DEF FirstOfTheirName
    <3>3. d \in named
      BY <1>3, <1>9, <3>1, <3>2
    <3>4. \A x \in named : F[x] # <<>> <=> x = d
      BY <1>9, <2>1, <2>2, <2>3, <3>1, <3>2, <3>3
    <3>5. {c \in named : F[c] # <<>>} = {d}
      BY <3>3, <3>4
    <3> QED
      BY <2>1, <2>2, <2>3, <3>5, FS_Singleton
  <2>4. CASE ~ (rules # {} /\ named \cap initialised # {})
    <3>1. {c \in named : F[c] # <<>>} = {}
      BY <1>3, <2>1, <2>2, <2>4
    <3> QED
      BY <2>1, <2>2, <2>4, <3>1, FS_EmptySet
  <2> QED
    BY <2>3, <2>4
<1>10. ASSUME NEW k \in {name[c] : c \in N}
       PROVE  /\ \A c \in {d \in N : name[d] = k} : F[c] # <<>> => Contents(F[c]) = RulesFor(conf, k)
              /\ Cardinality({c \in {d \in N : name[d] = k} : F[c] # <<>>}) =
                   IF RulesFor(conf, k) # {} /\ {d \in N : name[d] = k} \cap initialised # {}
                   THEN 1 ELSE 0
  <2>1. PICK named : named = {c \in N : name[c] = k}
    OBVIOUS
  <2>2. PICK rules : rules = RulesFor(conf, k)
    OBVIOUS
  <2>3. /\ \A c \in named : F[c] # <<>> => Contents(F[c]) = rules
        /\ Cardinality({c \in named : F[c] # <<>>}) =
             IF rules # {} /\ named \cap initialised # {} THEN 1 ELSE 0
    BY <1>9, <2>1, <2>2, Zenon
  <2> QED
    BY <2>1, <2>2, <2>3, Zenon
<1>11. conf' = conf
  BY <1>3
<1>12. ASSUME NEW k \in {name[c] : c \in classNodes'}
       PROVE  /\ \A c \in {d \in classNodes' : name[d] = k} :
                   ignore_fields'[c] # <<>> => Contents(ignore_fields'[c]) = RulesFor(conf', k)
              /\ Cardinality({c \in {d \in classNodes' : name[d] = k} :
                                ignore_fields'[c] # <<>>}) =
                   IF RulesFor(conf', k) # {} /\ {d \in classNodes' : name[d] = k} \cap initialised # {}
                   THEN 1 ELSE 0
  BY <1>2, <1>6, <1>10, <1>11, Zenon
<1> QED
  BY <1>12 DEF RulesReachTheirClass

(* For any files and classes: during the walks the first initialised class  *)
(* of each name, and no other, has all rules that the files hold for it     *)
(* (ini.c:91-153, jleaker.c:97-137, leak_detect.c:177-205).                 *)
THEOREM ClassesGetTheirRules == Spec => []RulesReachTheirClass
<1>1. Init => RulesReachTheirClass
  BY DEF Init, RulesReachTheirClass
<1>2. IInv /\ LInv /\ RulesReachTheirClass /\ [Next]_vars => RulesReachTheirClass'
  <2> SUFFICES ASSUME IInv, LInv, RulesReachTheirClass, [Next]_vars, ~ tagAllClasses
               PROVE  RulesReachTheirClass'
    BY RulesAreTaken DEF LInv
  <2>1. ASSUME pc' \in {"walks", "print"}
        PROVE  pc \in {"walks", "print"} /\ UNCHANGED <<conf, classNodes, ignore_fields>>
    <3>1. CASE Application
      BY <2>1, <3>1 DEF Application, Load, Create, Drop, Collect, Resize, inputs, ruleVars, nodeVars
    <3>2. CASE Dumper
      <4>1. CASE Begin \/ TagClasses \/ FirstWalk \/ GetObjects
        BY <2>1, <4>1 DEF Begin, TagClasses, FirstWalk, GetObjects
      <4>2. CASE SearchEnds \/ EndWalks \/ FreeNodes \/ Release
        BY <2>1, <4>2 DEF SearchEnds, EndWalks, FreeNodes, Release, inputs, ruleVars, nodeVars
      <4>3. CASE \E o \in Objects : SearchObject(o) \/ TagReferrer(o)
        BY <2>1, <4>3 DEF SearchObject, TagReferrer, inputs, ruleVars
      <4>4. CASE \E a \in Addresses : fillClassInMemoryNode(a)
        BY <2>1, <4>4 DEF fillClassInMemoryNode, inputs, ruleVars
      <4> QED
        BY <3>2, <4>1, <4>2, <4>3, <4>4 DEF Dumper
    <3>3. CASE UNCHANGED vars
      BY <2>1, <3>3 DEF vars, inputs, ruleVars, nodeVars
    <3> QED
      BY <3>1, <3>2, <3>3 DEF Next
  <2> QED
    BY <2>1 DEF RulesReachTheirClass
<1> QED
  BY <1>1, <1>2, AlwaysIInv, AlwaysLInv, PTL DEF Spec
===============================================================================
