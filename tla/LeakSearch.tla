------------------------------ MODULE LeakSearch ------------------------------
(***************************************************************************)
(* Dumps as the tags of objects and the ignore rules see them: which       *)
(* objects of the target become leaks (leak_detect.c), what their tags     *)
(* mean from one phase to the next, how an object is found again by its    *)
(* tag (jvm_reference.c), and who owns the rules.                          *)
(*                                                                         *)
(* The application runs beside the dump.  The walks over references are in *)
(* ReferenceTagging; here they give nodes to any referrers.  An object     *)
(* that nothing refers to keeps its tag until it is collected, and is out  *)
(* of reach of the walks, which visit what is reachable, but not of        *)
(* GetObjectsWithTags.                                                     *)
(*                                                                         *)
(* Nodes of referrers and leaks have an address that is used again when    *)
(* they are freed.  Class nodes are looked up by no tag; a class is the    *)
(* name of its node.                                                       *)
(***************************************************************************)
EXTENDS IgnoreRules

CONSTANTS
  Classes, Instances,     (* The objects: class objects and others.         *)
  ClassClass,             (* java.lang.Class.                               *)
  Late,                   (* Classes that are not loaded at first.          *)
  name,                   (* The name of each class.                        *)
  plain,                  (* Neither interface, array nor nested classes.   *)
  initialised,            (* Classes that GetClassStatus calls so.          *)
  assignable,             (* To which sizeable classes each class can be    *)
                          (* assigned.                                      *)
  sizeableClassesNum,
  ClassMaps,              (* Each a class for each instance.                *)
  Sizes, size_threshold,
  Configurations,         (* Each a sequence of configuration files.        *)
  Addresses, None,
  Quiet,                  (* Subset of BOOLEAN: see variable quiet.         *)
  MaxDumps

Objects == Classes \cup Instances

(* A node: the object it was made for, the handle on it, and whether it was *)
(* found dead.                                                              *)
Nodes == [owner : Objects, obj : Objects \cup {None}, dead : BOOLEAN]

ASSUME SearchAssumption ==
  /\ ClassClass \in Classes \ Late /\ Late \subseteq Classes
  /\ Classes \cap Instances = {}
  /\ name \in [Classes -> Keys]
  /\ plain \subseteq Classes /\ initialised \subseteq Classes
  /\ assignable \in [Classes -> SUBSET (0 .. (sizeableClassesNum - 1))]
  /\ ClassMaps \subseteq [Instances -> Classes \ {ClassClass}]
  /\ Sizes \subseteq Nat /\ 0 \in Sizes /\ size_threshold \in Nat
  /\ None \notin Addresses \cup Objects /\ Addresses \cap Objects = {}
  /\ None \notin Nodes
  /\ Quiet \subseteq BOOLEAN
  /\ Configurations \subseteq Seq(Seq(Lines))

VARIABLES
  quiet,                  (* Objects are not left to the collector between  *)
                          (* the collection and the first walk of a dump,   *)
                          (* and no dump goes without that collection.      *)
  conf, klass,            (* The configuration; the class of each instance. *)
  loaded,                 (* Classes.                                       *)
  reachable, garbage,     (* Instances that are not collected.              *)
  size,                   (* What size() returns; 0 where it throws.        *)
  tag,                    (* Of each object.                                *)
  pc, dumps,
  maps,                   (* The two maps of rules; ids of rules.           *)
  live,                   (* Rules that were allocated and not freed.       *)
  ignore_fields,          (* Of each class node.                            *)
  classNodes,             (* Classes with a node.                           *)
  todo,                   (* Objects that are not asked for their size yet. *)
  node,                   (* The node at each address.                      *)
  leaks,                  (* Addresses of the nodes of leaks.               *)
  late,                   (* Classes loaded between tagging and first walk. *)
  expected                (* Objects that must become leaks.                *)

inputs    == <<quiet, conf, klass>>
appVars   == <<loaded, reachable, garbage, size>>
ruleVars  == <<maps, live, ignore_fields>>
nodeVars  == <<classNodes, node, leaks>>
history   == <<late, expected>>
vars == <<inputs, appVars, tag, pc, dumps, ruleVars, todo, nodeVars, history>>

Untagged      == <<"none", None>>
ClassClassTag == <<"class", None>>       (* CLASS_CLASS_INITIAL_TAG         *)
InitialTag(j) == <<"initial", j>>        (* INITIAL_CLASS_TAG + j           *)
NodeTag(a)    == <<"node", a>>
InitialTags   == {InitialTag(j) : j \in 0 .. (sizeableClassesNum - 1)}
Tags          == {Untagged, ClassClassTag} \cup InitialTags
                   \cup {NodeTag(a) : a \in Addresses \cup Classes}

NewNode(o, handle) == [owner |-> o, obj |-> handle, dead |-> FALSE]
FreeAddresses      == {a \in Addresses : node[a] = None}

Class(o)   == IF o \in Classes THEN ClassClass ELSE klass[o]
IsSizeable(o) == assignable[klass[o]] # {}
Exists     == loaded \cup reachable \cup garbage
(* Objects that the agent holds by a local reference.                       *)
Held == todo \cup {node[a].obj : a \in Addresses \ FreeAddresses}

Init ==
  /\ quiet \in Quiet /\ conf \in Configurations /\ klass \in ClassMaps
  /\ loaded = Classes \ Late
  /\ reachable \in SUBSET {o \in Instances : klass[o] \in loaded} /\ garbage = {}
  /\ size \in {s \in [Instances -> Sizes] : \A o \in Instances : IsSizeable(o) \/ s[o] = 0}
  /\ tag = [o \in Objects |-> Untagged]
  /\ pc = "idle" /\ dumps = 0
  /\ maps = NoMaps /\ live = {} /\ ignore_fields = [c \in Classes |-> <<>>]
  /\ classNodes = {} /\ todo = {} /\ node = [a \in Addresses |-> None] /\ leaks = {}
  /\ late = {} /\ expected = {}
-----------------------------------------------------------------------------
(* The application, and the collector.                                      *)

Load(c) ==
  /\ c \in Classes \ loaded
  /\ loaded' = loaded \cup {c}
  /\ late' = IF pc = "firstWalk" THEN late \cup {c} ELSE late
  /\ UNCHANGED <<inputs, reachable, garbage, size, tag, pc, dumps, ruleVars, todo, nodeVars,
                 expected>>

Create(o) ==
  /\ o \in Instances \ (reachable \cup garbage) /\ klass[o] \in loaded
  /\ tag[o] = Untagged
  /\ reachable' = reachable \cup {o}
  /\ UNCHANGED <<inputs, loaded, garbage, size, tag, pc, dumps, ruleVars, todo, nodeVars, history>>

Drop(o) ==
  /\ o \in reachable
  /\ quiet => pc \notin {"tagClasses", "firstWalk"}
  /\ reachable' = reachable \ {o} /\ garbage' = garbage \cup {o}
  /\ UNCHANGED <<inputs, loaded, size, tag, pc, dumps, ruleVars, todo, nodeVars, history>>

Resize(o, n) ==
  /\ o \in reachable /\ IsSizeable(o) /\ n # size[o]
  /\ size' = [size EXCEPT ![o] = n]
  /\ expected' = expected \ {o}
  /\ UNCHANGED <<inputs, loaded, reachable, garbage, tag, pc, dumps, ruleVars, todo, nodeVars,
                 late>>

Collected(S) ==
  /\ garbage' = garbage \ S
  /\ tag' = [o \in Objects |-> IF o \in S THEN Untagged ELSE tag[o]]
  /\ expected' = expected \ S

Collect(o) ==
  /\ o \in garbage \ Held
  /\ Collected({o})
  /\ UNCHANGED <<inputs, loaded, reachable, size, pc, dumps, ruleVars, todo, nodeVars, late>>
-----------------------------------------------------------------------------
(* The options are parsed, and the dump begins, with a collection or not.   *)
Begin ==
  /\ pc = "idle" /\ dumps < MaxDumps
  /\ pc' = "tagClasses" /\ dumps' = dumps + 1
  /\ maps' = LoadRules(conf) /\ live' = 1 .. maps'.made
  /\ \/ Collected(garbage \ Held)
     \/ ~ quiet /\ UNCHANGED <<garbage, tag, expected>>
  /\ UNCHANGED <<inputs, loaded, reachable, size, ignore_fields, todo, nodeVars, late>>

IsIgnored(c) == sm_get(maps.ignore_classes, name[c], FALSE)

(* Mutant of generateTagForClass: the rules are not looked at.              *)
generateTagForClass_IgnoresRules(c) ==
  IF c = ClassClass THEN ClassClassTag
  ELSE IF c \in plain /\ assignable[c] # {}
       THEN InitialTag(CHOOSE j \in assignable[c] : \A i \in assignable[c] : j <= i)
       ELSE Untagged

generateTagForClass(c) ==
  IF c = ClassClass THEN ClassClassTag
  ELSE IF c \in plain /\ ~ IsIgnored(c) /\ assignable[c] # {}
       THEN InitialTag(CHOOSE j \in assignable[c] : \A i \in assignable[c] : j <= i)
       ELSE Untagged

TagClasses ==
  /\ pc = "tagClasses"
  /\ tag' = [o \in Objects |-> IF o \in loaded THEN generateTagForClass(o) ELSE tag[o]]
  /\ late' = {}
  /\ pc' = "firstWalk"
  /\ UNCHANGED <<inputs, appVars, dumps, ruleVars, todo, nodeVars, expected>>

(* Mutant of cbHeapObject: other objects are left alone, too.               *)
cbHeapObject_LeavesOthers(o) ==
  IF tag[Class(o)] \in InitialTags THEN tag[Class(o)] ELSE tag[o]

(* What the callback leaves as the tag of an object.                        *)
cbHeapObject(o) ==
  CASE tag[Class(o)] = ClassClassTag  -> tag[o]
    [] tag[Class(o)] \in InitialTags  -> tag[Class(o)]
    [] OTHER                          -> Untagged

(* An object that the configuration, read by itself, does not exclude.      *)
Eligible(o) ==
  /\ o \in Instances /\ klass[o] \in plain /\ assignable[klass[o]] # {}
  /\ name[klass[o]] \notin IgnoredNames(conf)

FirstWalk ==
  /\ pc = "firstWalk"
  /\ tag' = [o \in Objects |-> IF o \in loaded \cup reachable THEN cbHeapObject(o) ELSE tag[o]]
  /\ expected' = {o \in reachable : Eligible(o) /\ size[o] > size_threshold /\ klass[o] \notin late}
  /\ pc' = "getObjects"
  /\ UNCHANGED <<inputs, appVars, dumps, ruleVars, todo, nodeVars, late>>

(* GetObjectsWithTags returns class objects with such a tag as well.        *)
GetObjects ==
  /\ pc = "getObjects"
  /\ todo' = {o \in Exists : tag[o] \in InitialTags}
  /\ pc' = "search"
  /\ UNCHANGED <<inputs, appVars, tag, dumps, ruleVars, nodeVars, history>>

(* Calling size() of a collection on a class object throws.                 *)
SizeOf(o) == IF o \in Instances THEN size[o] ELSE 0

IsLeak(o) == SizeOf(o) > size_threshold

(* Mutant of WithoutLeak: the object keeps its tag.                         *)
WithoutLeak_KeepsTag(o) == ~ IsLeak(o) /\ UNCHANGED <<tag, node, leaks>>

WithLeak(o) ==
  /\ IsLeak(o)
  /\ \E a \in FreeAddresses :
       /\ node' = [node EXCEPT ![a] = NewNode(o, o)]
       /\ leaks' = leaks \cup {a}
       /\ tag' = [tag EXCEPT ![o] = NodeTag(a)]

WithoutLeak(o) ==
  /\ ~ IsLeak(o)
  /\ tag' = [tag EXCEPT ![o] = Untagged]
  /\ UNCHANGED <<node, leaks>>

(* One turn of the loop of searchObjectsForLeaks.                           *)
SearchObject(o) ==
  /\ pc = "search" /\ o \in todo
  /\ todo' = todo \ {o}
  /\ WithLeak(o) \/ WithoutLeak(o)
  /\ UNCHANGED <<inputs, appVars, pc, dumps, ruleVars, classNodes, history>>

(* Nothing is tagged for a second time, or freed, when there is no leak.    *)
SearchEnds ==
  /\ pc = "search" /\ todo = {}
  /\ pc' = IF leaks = {} THEN "release" ELSE "tagAgain"
  /\ UNCHANGED <<inputs, appVars, tag, dumps, ruleVars, todo, nodeVars, history>>
-----------------------------------------------------------------------------
(* A class takes the rules of its name out of the map.  Of classes with one *)
(* name the first in the list of the JVM gets them.                         *)
CanTake == (loaded \ {ClassClass}) \cap initialised

FirstOfTheirName(T) == \A c \in CanTake : \E d \in T : {e \in T : name[e] = name[c]} = {d}

RulesOf(c) == sm_get(maps.ignore_referenced_by, name[c], <<>>)

(* Mutant of WithoutRules: the map keeps the rules that a class has taken.  *)
WithoutRules_KeepsThem(map, names) == map

(* sm_put of NULL for each of the names that is there.                      *)
WithoutRules(map, names) ==
  [b \in DOMAIN map |->
     [i \in DOMAIN map[b] |->
        IF map[b][i].key \in names THEN Pair(map[b][i].key, <<>>) ELSE map[b][i]]]

(* Every class gets a node and its tag, but java.lang.Class, which gets 0.  *)
tagAllClasses ==
  /\ pc = "tagAgain"
  /\ classNodes' = loaded \ {ClassClass}
  /\ tag' = [o \in Objects |-> IF o \in classNodes' THEN NodeTag(o)
                               ELSE IF o = ClassClass THEN Untagged ELSE tag[o]]
  /\ \E T \in SUBSET CanTake :
       /\ FirstOfTheirName(T)
       /\ ignore_fields' = [c \in Classes |-> IF c \in T THEN RulesOf(c) ELSE <<>>]
       /\ maps' = [maps EXCEPT !.ignore_referenced_by = WithoutRules(@, {name[c] : c \in T})]
  /\ pc' = "walks"
  /\ UNCHANGED <<inputs, appVars, dumps, live, todo, node, leaks, history>>

(* cbObjectTagReferrer meets a referrer that has no tag.                    *)
TagReferrer(o) ==
  /\ pc = "walks"
  /\ o \in loaded \cup reachable /\ tag[o] = Untagged
  /\ \E a \in FreeAddresses :
       /\ node' = [node EXCEPT ![a] = NewNode(o, None)]
       /\ tag' = [tag EXCEPT ![o] = NodeTag(a)]
  /\ UNCHANGED <<inputs, appVars, pc, dumps, ruleVars, todo, classNodes, leaks, history>>

EndWalks ==
  /\ pc = "walks" /\ pc' = "print"
  /\ UNCHANGED <<inputs, appVars, tag, dumps, ruleVars, todo, nodeVars, history>>

WithTag(a) == {o \in Exists : tag[o] = NodeTag(a)}

(* The search for a chain asks the JVM for the object of a node.            *)
fillClassInMemoryNode(a) ==
  /\ pc = "print" /\ node[a] # None /\ node[a].obj = None /\ ~ node[a].dead
  /\ \/ /\ WithTag(a) = {}
        /\ node' = [node EXCEPT ![a].dead = TRUE] /\ UNCHANGED pc
     \/ \E o \in WithTag(a) :
        /\ WithTag(a) = {o}
        /\ node' = [node EXCEPT ![a].obj = o] /\ UNCHANGED pc
     \/ /\ \E o, p \in WithTag(a) : o # p
        /\ pc' = "fatal" /\ UNCHANGED node
  /\ UNCHANGED <<inputs, appVars, tag, dumps, ruleVars, todo, classNodes, leaks, history>>

untagAllClasses ==
  /\ live' = live \ UNION {Ids(ignore_fields[c]) : c \in classNodes}
  /\ ignore_fields' = [c \in Classes |-> <<>>] /\ classNodes' = {}
  /\ tag' = [o \in Objects |-> IF o \in loaded THEN Untagged ELSE tag[o]]

(* Report, freeMemoryForLeakList and the end of findLeaksInTaggedObjects.   *)
FreeNodes ==
  /\ pc = "print" /\ pc' = "release"
  /\ node' = [a \in Addresses |-> None] /\ leaks' = {}
  /\ untagAllClasses
  /\ UNCHANGED <<inputs, appVars, dumps, maps, todo, history>>

(* The rules that free_referenced_by_limit frees for a map.                 *)
RulesIn(map) == UNION {Ids(rules) : rules \in sm_delete(map)}

(* releaseThreadData.                                                       *)
Release ==
  /\ pc = "release" /\ pc' = "idle"
  /\ live' = live \ RulesIn(maps.ignore_referenced_by)
  /\ maps' = NoMaps
  /\ late' = {} /\ expected' = {}
  /\ UNCHANGED <<inputs, appVars, tag, dumps, ignore_fields, todo, nodeVars>>

Application ==
  /\ pc # "fatal"
  /\ \/ \E c \in Classes : Load(c)
     \/ \E o \in Instances : Create(o) \/ Drop(o) \/ Collect(o) \/ (\E n \in Sizes : Resize(o, n))

Dumper ==
  \/ Begin \/ TagClasses \/ FirstWalk \/ GetObjects \/ SearchEnds \/ tagAllClasses
  \/ EndWalks \/ FreeNodes \/ Release
  \/ \E o \in Objects : SearchObject(o) \/ TagReferrer(o)
  \/ \E a \in Addresses : fillClassInMemoryNode(a)

Next == Application \/ Dumper

Spec == Init /\ [][Next]_vars
-----------------------------------------------------------------------------
TypeOK ==
  /\ quiet \in BOOLEAN /\ conf \in Configurations /\ klass \in ClassMaps
  /\ loaded \subseteq Classes /\ reachable \cup garbage \subseteq Instances
  /\ tag \in [Objects -> Tags]
  /\ node \in [Addresses -> Nodes \cup {None}]
  /\ classNodes \subseteq Classes /\ todo \subseteq Exists /\ leaks \subseteq Addresses
  /\ pc \in {"idle", "tagClasses", "firstWalk", "getObjects", "search", "tagAgain", "walks",
             "print", "release", "fatal"}

IsLeakNode(o) == \E a \in leaks : node[a].owner = o

(* A collection above the threshold when the walk reached it, whose size    *)
(* did not change since, becomes a leak - unless its class was loaded too   *)
(* late to be tagged -, and only collections that the configuration does    *)
(* not exclude become leaks: no class object that GetObjectsWithTags        *)
(* returned with them (leak_detect.c:333-389, 482-530).                     *)
LeaksAreTheBigCollections ==
  /\ pc \in {"search", "tagAgain", "walks", "print"} =>
       \A o \in expected : o \in todo \/ IsLeakNode(o)
  /\ \A a \in leaks : Eligible(node[a].owner)

(* During the walks, whose callback follows every tag it is given as a      *)
(* pointer, the tag of whatever they can meet is 0 or its own node, made by *)
(* this dump: the first walk and untagAllClasses leave nothing of an        *)
(* earlier one (leak_detect.c:27-34, 105-129, 244-265).                     *)
TagsMeanTheirNodes ==
  pc = "walks" =>
    \A o \in loaded \cup reachable :
      \/ tag[o] = Untagged
      \/ o \in classNodes /\ tag[o] = NodeTag(o)
      \/ \E a \in Addresses \ FreeAddresses : tag[o] = NodeTag(a) /\ node[a].owner = o

(* When nothing became garbage between the collection and the first walk,   *)
(* the object found for a node is the one the node was made for, although   *)
(* garbage keeps its tag and addresses are used again                       *)
(* (jvm_reference.c:27-51).                                                 *)
FoundObjectIsTheNodes ==
  quiet => /\ pc # "fatal"
           /\ \A a \in Addresses \ FreeAddresses : node[a].obj \in {None, node[a].owner}

(* What jvm_reference.c:46 takes for impossible: more than one object with  *)
(* the tag of a node.                                                       *)
NodeHasOneObject == pc # "fatal"

Places ==
  (UNION {{<<"map", b, i>> : i \in DOMAIN maps.ignore_referenced_by[b]} :
            b \in DOMAIN maps.ignore_referenced_by})
  \cup {<<"class", c, 0>> : c \in Classes}

RulesAt(p) ==
  Ids(IF p[1] = "map" THEN maps.ignore_referenced_by[p[2]][p[3]].value ELSE ignore_fields[p[2]])

(* Rules travel from the map to a class node.  At any time each rule that   *)
(* was allocated and not freed is in one list, and lists hold no others: no *)
(* rule is lost, and none is freed twice (leak_detect.c:190-196,            *)
(* data_struct.c:49-55, jleaker.c:145-155).                                 *)
RulesHaveOneOwner ==
  /\ UNION {RulesAt(p) : p \in Places} = live
  /\ \A p, q \in Places : p # q => RulesAt(p) \cap RulesAt(q) = {}

(* During the walks one initialised class of each name - and no other class *)
(* - has the rules that the files hold for that name, all of them, in spite *)
(* of files in parts, lines that are wrong, and keys that share a bucket    *)
(* (ini.c:91-153, jleaker.c:97-137, leak_detect.c:177-205).                 *)
RulesReachTheirClass ==
  pc \in {"walks", "print"} =>
    \A k \in {name[c] : c \in classNodes} :
      LET named == {c \in classNodes : name[c] = k}
          rules == RulesFor(conf, k)
      IN  /\ \A c \in named : ignore_fields[c] # <<>> => Contents(ignore_fields[c]) = rules
          /\ Cardinality({c \in named : ignore_fields[c] # <<>>}) =
               IF rules # {} /\ named \cap initialised # {} THEN 1 ELSE 0
===============================================================================
