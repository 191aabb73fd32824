--------------------------- MODULE NodeReleaseProofs ---------------------------
(***************************************************************************)
(* Proofs about the release, for every finite graph of nodes with cycles   *)
(* and shared parts, and any leaks and classes.                            *)
(***************************************************************************)
EXTENDS NodeRelease, SequenceFacts, FiniteSetTheorems, TLAPS

(***************************************************************************)
(* The inductive invariant.  It counts the pointers to each node, freed    *)
(* ones included; it says that a node is kept only while it is counted on  *)
(* or being released, and that what was not visited can still be reached.  *)
(***************************************************************************)
Distinct(s) == \A i, j \in DOMAIN s : s[i] = s[j] => i = j

InFlight(n) == pc = "call" /\ callee = n

Counts ==
  \A n \in Nodes : reference_pointing_to_me[n] =
                     Owners(n, refs, lstLeaks, classNodes) + IF InFlight(n) THEN 1 ELSE 0

Kept ==
  /\ visited \subseteq allocated
  /\ \A n \in Nodes : reference_pointing_to_me[n] > 0 => n \in allocated
  /\ \A n \in allocated : n \in visited \/ reference_pointing_to_me[n] > 0
  /\ handles \subseteq allocated \ visited

Roots == Elements(lstLeaks) \cup visited \cup {n \in Nodes : InFlight(n)}

(* The second loop finds nodes without references.                          *)
LastLoop ==
  /\ lstLeaks = <<>> /\ \A n \in Nodes : refs[n] = {}
  /\ path = <<>> \/ path = <<callee>>
  /\ pc \in {"classes", "call", "done"} => path = <<>>
  /\ pc \in {"call", "iterate"} => callee \in Nodes \ classNodes
  /\ pc = "done" => classNodes = {}

IInv ==
  /\ TypeOK
  /\ Elements(path) = visited /\ Distinct(path) /\ Distinct(lstLeaks)
  /\ \A n \in Nodes : IsFiniteSet(Pointers(n, refs))
  /\ Counts /\ Kept
  /\ Reaches(Roots, refs)
  /\ phase = "classes" => LastLoop
  /\ pc = "leaks" => path = <<>> /\ phase = "leaks"
  /\ pc \in {"classes", "done"} => phase = "classes"
  /\ pc # "alert"
-----------------------------------------------------------------------------
(***************************************************************************)
(* Facts about lists and stacks without repetition.                        *)
(***************************************************************************)

(* The next leak is taken from the list.                                    *)
LEMMA TailElements ==
  ASSUME NEW s \in Seq(Nodes), s # <<>>, Distinct(s)
  PROVE  /\ Head(s) \in Nodes /\ Head(s) \in Elements(s)
         /\ Tail(s) \in Seq(Nodes) /\ Distinct(Tail(s))
         /\ Elements(Tail(s)) = Elements(s) \ {Head(s)}
<1>1. /\ Len(s) \in Nat \ {0} /\ DOMAIN s = 1 .. Len(s)
      /\ \A i \in 1 .. Len(s) : s[i] \in Nodes
  BY EmptySeq, LenProperties
<1>2. /\ Head(s) = s[1] /\ Tail(s) \in Seq(Nodes) /\ Len(Tail(s)) = Len(s) - 1
      /\ \A i \in 1 .. Len(Tail(s)) : Tail(s)[i] = s[i + 1]
  BY HeadTailProperties
<1>3. DOMAIN Tail(s) = 1 .. Len(s) - 1
  BY <1>2, LenProperties
<1>4. Distinct(Tail(s))
  BY <1>1, <1>2, <1>3 DEF Distinct
<1>5. \A i \in 1 .. Len(s) : i # 1 => i - 1 \in 1 .. Len(s) - 1 /\ s[i] = Tail(s)[i - 1]
  BY <1>1, <1>2
<1>6. \A i \in 1 .. Len(s) - 1 : i + 1 \in 1 .. Len(s) /\ i + 1 # 1
  BY <1>1
<1>7. 1 \in DOMAIN s
  BY <1>1
<1>8. Elements(Tail(s)) \subseteq Elements(s) \ {Head(s)}
  BY <1>1, <1>2, <1>3, <1>6, <1>7 DEF Elements, Distinct
<1>9. Elements(s) \ {Head(s)} \subseteq Elements(Tail(s))
  <2>1. ASSUME NEW i \in DOMAIN s, s[i] # Head(s) PROVE s[i] \in Elements(Tail(s))
    <3>1. i - 1 \in DOMAIN Tail(s) /\ s[i] = Tail(s)[i - 1]
      BY <1>1, <1>2, <1>3, <1>5, <2>1
    <3>. QED BY <3>1 DEF Elements
  <2>. QED BY <2>1 DEF Elements
<1>. QED BY <1>1, <1>2, <1>4, <1>7, <1>8, <1>9 DEF Elements

(* A node is pushed.                                                        *)
LEMMA PushElements ==
  ASSUME NEW s \in Seq(Nodes), NEW n \in Nodes, Distinct(s), n \notin Elements(s)
  PROVE  /\ Append(s, n) \in Seq(Nodes) /\ Append(s, n) # <<>>
         /\ Distinct(Append(s, n))
         /\ Elements(Append(s, n)) = Elements(s) \cup {n}
<1>1. /\ Append(s, n) \in Seq(Nodes) /\ Append(s, n) # <<>>
      /\ Len(Append(s, n)) = Len(s) + 1
      /\ \A i \in 1 .. Len(s) : Append(s, n)[i] = s[i]
      /\ Append(s, n)[Len(s) + 1] = n
  BY PushFacts
<1>2. /\ Len(s) \in Nat /\ DOMAIN s = 1 .. Len(s)
      /\ DOMAIN Append(s, n) = 1 .. Len(s) + 1
  BY <1>1, LenProperties
<1>3. DOMAIN Append(s, n) = DOMAIN s \cup {Len(s) + 1}
  BY <1>2
<1>4. Distinct(Append(s, n))
  BY <1>1, <1>2, <1>3 DEF Distinct, Elements
<1>5. Elements(Append(s, n)) = Elements(s) \cup {n}
  BY <1>1, <1>2, <1>3 DEF Elements
<1>. QED BY <1>1, <1>4, <1>5

(* A node is popped.                                                        *)
LEMMA PopElements ==
  ASSUME NEW s \in Seq(Nodes), s # <<>>, Distinct(s)
  PROVE  LET t == SubSeq(s, 1, Len(s) - 1)
         IN  /\ s[Len(s)] \in Nodes /\ s[Len(s)] \in Elements(s)
             /\ t \in Seq(Nodes) /\ Distinct(t)
             /\ Elements(t) = Elements(s) \ {s[Len(s)]}
<1>. DEFINE t == SubSeq(s, 1, Len(s) - 1)
<1>1. /\ Len(s) \in Nat \ {0} /\ s[Len(s)] \in Nodes
      /\ t \in Seq(Nodes) /\ Len(t) = Len(s) - 1
      /\ \A i \in 1 .. Len(s) - 1 : t[i] = s[i]
  BY PopFacts
<1>. HIDE DEF t
<1>2. DOMAIN s = 1 .. Len(s) /\ DOMAIN t = 1 .. Len(s) - 1
  BY <1>1, LenProperties
<1>3. DOMAIN t = DOMAIN s \ {Len(s)} /\ Len(s) \in DOMAIN s
  BY <1>1, <1>2
<1>4. Distinct(t)
  BY <1>1, <1>2, <1>3 DEF Distinct
<1>5. Elements(t) = Elements(s) \ {s[Len(s)]}
  BY <1>1, <1>2, <1>3 DEF Distinct, Elements
<1>. QED BY <1>1, <1>3, <1>4, <1>5 DEF t, Elements

LEMMA NoElements == Elements(<<>>) = {} /\ Distinct(<<>>) /\ <<>> \in Seq(Nodes)
  BY EmptySeq, LenProperties DEF Elements, Distinct
-----------------------------------------------------------------------------
(***************************************************************************)
(* Facts about the pointers to a node.                                     *)
(***************************************************************************)

LEMMA PointerFacts ==
  ASSUME NEW r, NEW n
  PROVE  \A p : p \in Pointers(n, r) <=>
                  \E m \in Nodes : \E e \in r[m] : e.node = n /\ p = <<m, e>>
  BY DEF Pointers

(* A reference is released: there is one pointer less to its node.          *)
LEMMA PointersAfterRelease ==
  ASSUME NEW r \in [Nodes -> SUBSET Reference], NEW m \in Nodes, NEW e \in r[m],
         NEW n \in Nodes, IsFiniteSet(Pointers(n, r)),
         NEW q, \A k \in Nodes : q[k] = IF k = m THEN r[m] \ {e} ELSE r[k]
  PROVE  /\ IsFiniteSet(Pointers(n, q))
         /\ Cardinality(Pointers(n, r)) =
              Cardinality(Pointers(n, q)) + IF e.node = n THEN 1 ELSE 0
<1>1. \A k \in Nodes : \A x : x \in q[k] <=> x \in r[k] /\ ~(k = m /\ x = e)
  OBVIOUS
<1>2. Cardinality(Pointers(n, r)) \in Nat
  BY FS_CardinalityType
<1>3. CASE e.node = n
  <2>1. \A p : p \in Pointers(n, q) <=> p \in Pointers(n, r) /\ p # <<m, e>>
    BY <1>1, PointerFacts
  <2>2. Pointers(n, q) = Pointers(n, r) \ {<<m, e>>}
    BY <2>1
  <2>3. <<m, e>> \in Pointers(n, r)
    BY <1>3, PointerFacts
  <2>4. /\ IsFiniteSet(Pointers(n, q))
        /\ Cardinality(Pointers(n, q)) = Cardinality(Pointers(n, r)) - 1
    BY <2>2, <2>3, FS_RemoveElement
  <2>. QED BY <1>2, <1>3, <2>4
<1>4. CASE e.node # n
  <2>1. \A p : p \in Pointers(n, q) <=> p \in Pointers(n, r)
    BY <1>1, <1>4, PointerFacts
  <2>2. Pointers(n, q) = Pointers(n, r)
    BY <2>1
  <2>. QED BY <1>2, <1>4, <2>2
<1>. QED BY <1>3, <1>4

(* Nothing points to a node without owners.                                 *)
LEMMA OwnersFacts ==
  ASSUME NEW n \in Nodes, NEW r, NEW leaks, NEW classes, IsFiniteSet(Pointers(n, r))
  PROVE  /\ Owners(n, r, leaks, classes) \in Nat
         /\ Owners(n, r, leaks, classes) = 0
              => /\ n \notin Elements(leaks) /\ n \notin classes
                 /\ \A m \in Nodes : \A e \in r[m] : e.node # n
         /\ /\ n \notin Elements(leaks) /\ n \notin classes
            /\ \A m \in Nodes : r[m] = {}
            => Owners(n, r, leaks, classes) = 0
<1>1. Cardinality(Pointers(n, r)) \in Nat
  BY FS_CardinalityType
<1>2. Cardinality(Pointers(n, r)) = 0 <=> Pointers(n, r) = {}
  BY FS_EmptySet
<1>3. \A m \in Nodes : \A e \in r[m] : e.node = n => <<m, e>> \in Pointers(n, r)
  BY DEF Pointers
<1>4. (\A m \in Nodes : r[m] = {}) => Pointers(n, r) = {}
  BY PointerFacts
<1>5. /\ Owners(n, r, leaks, classes) \in Nat
      /\ Owners(n, r, leaks, classes) = 0
           <=> Cardinality(Pointers(n, r)) = 0 /\ n \notin Elements(leaks) /\ n \notin classes
  BY <1>1 DEF Owners
<1>6. Pointers(n, r) = {} => \A m \in Nodes : \A e \in r[m] : e.node # n
  BY <1>3
<1>. QED BY <1>2, <1>4, <1>5, <1>6
-----------------------------------------------------------------------------
(***************************************************************************)
(* The invariant holds when the release begins.                            *)
(***************************************************************************)
LEMMA InitIInv == Init => IInv
<1>. SUFFICES ASSUME Init PROVE IInv
  OBVIOUS
<1>1. PICK g \in Graphs :
        /\ refs = g.refs /\ lstLeaks = g.leaks
        /\ reference_pointing_to_me = [n \in Nodes |-> Owners(n, g.refs, g.leaks, ClassNodes)]
  BY DEF Init
<1>2. /\ classNodes = ClassNodes /\ visited = {} /\ path = <<>> /\ callee = NoNode
      /\ allocated = {n \in Nodes : reference_pointing_to_me[n] > 0} /\ handles = allocated
      /\ phase = "leaks" /\ pc = "leaks"
  BY DEF Init
<1>3. ASSUME NEW n \in Nodes PROVE IsFiniteSet(Pointers(n, refs))
  <2>. DEFINE E == UNION {g.refs[m] : m \in Nodes}
  <2>1. IsFiniteSet(Nodes) /\ IsFiniteSet(E)
    BY ConstantsAssumption
  <2>2. Pointers(n, refs) \subseteq Nodes \X E
    BY <1>1 DEF Pointers
  <2>. HIDE DEF E
  <2>. QED BY <2>1, <2>2, FS_Product, FS_Subset
<1>4. refs \in [Nodes -> SUBSET Reference] /\ lstLeaks \in Seq(Nodes) /\ Distinct(lstLeaks)
  BY <1>1, ConstantsAssumption DEF Distinct
<1>5. reference_pointing_to_me \in [Nodes -> Int] /\ Counts
  BY <1>1, <1>2, <1>3, OwnersFacts DEF Counts, InFlight
<1>6. TypeOK
  BY <1>2, <1>4, <1>5, NoElements DEF TypeOK
<1>7. Kept
  BY <1>1, <1>2 DEF Kept
<1>8. Roots = Elements(g.leaks)
  BY <1>1, <1>2 DEF Roots, InFlight
<1>9. Reaches(Roots, refs)
  BY <1>1, <1>8, ConstantsAssumption
<1>. QED BY <1>2, <1>3, <1>4, <1>5, <1>6, <1>7, <1>9, NoElements DEF IInv
-----------------------------------------------------------------------------
(***************************************************************************)
(* Every action keeps it.                                                  *)
(***************************************************************************)

LEMMA FreeNextLeakKeeps == IInv /\ FreeNextLeak => IInv'
<1>. SUFFICES ASSUME IInv, FreeNextLeak PROVE IInv'
  OBVIOUS
<1>0. /\ pc = "leaks" /\ path = <<>> /\ visited = {} /\ phase = "leaks"
      /\ lstLeaks \in Seq(Nodes)
      /\ UNCHANGED <<heapVars, classNodes, path>>
  BY NoElements DEF FreeNextLeak, IInv, TypeOK
<1>1. CASE lstLeaks # <<>> /\ callee' = Head(lstLeaks) /\ lstLeaks' = Tail(lstLeaks)
           /\ pc' = "call" /\ UNCHANGED phase
  <2>1. /\ callee' \in Nodes /\ callee' \in Elements(lstLeaks)
        /\ lstLeaks' \in Seq(Nodes) /\ Distinct(lstLeaks')
        /\ Elements(lstLeaks') = Elements(lstLeaks) \ {callee'}
    BY <1>1, <1>0, TailElements DEF IInv
  <2>2. TypeOK'
    BY <1>0, <1>1, <2>1 DEF IInv, TypeOK, heapVars
  <2>3. Counts'
    <3>1. ASSUME NEW n \in Nodes
          PROVE  Owners(n, refs, lstLeaks, classNodes) =
                   Owners(n, refs, lstLeaks', classNodes) + IF n = callee' THEN 1 ELSE 0
      <4>1. Cardinality(Pointers(n, refs)) \in Nat
        BY FS_CardinalityType DEF IInv
      <4>. QED BY <2>1, <4>1 DEF Owners
    <3>2. /\ refs' = refs /\ classNodes' = classNodes
          /\ reference_pointing_to_me' = reference_pointing_to_me
      BY <1>0 DEF heapVars
    <3>3. ASSUME NEW n \in Nodes
          PROVE  /\ Owners(n, refs', lstLeaks', classNodes') =
                      Owners(n, refs, lstLeaks', classNodes)
                 /\ Owners(n, refs, lstLeaks', classNodes) \in Nat
      BY <3>2, OwnersFacts DEF IInv
    <3>4. ASSUME NEW n \in Nodes
          PROVE  /\ ~InFlight(n) /\ (InFlight(n)' <=> n = callee')
                 /\ reference_pointing_to_me[n] = Owners(n, refs, lstLeaks, classNodes)
      <4>1. ~InFlight(n) /\ (InFlight(n)' <=> n = callee')
        BY <1>0, <1>1 DEF InFlight
      <4>. QED BY <4>1, OwnersFacts DEF IInv, Counts
    <3>. QED BY <3>1, <3>2, <3>3, <3>4 DEF Counts
  <2>4. Kept'
    BY <1>0 DEF IInv, Kept, heapVars
  <2>5. Roots' = Roots
    BY <1>0, <1>1, <2>1 DEF Roots, InFlight, heapVars
  <2>. QED BY <1>0, <1>1, <2>1, <2>2, <2>3, <2>4, <2>5 DEF IInv, heapVars
<1>2. CASE lstLeaks = <<>> /\ phase' = "classes" /\ pc' = "classes"
           /\ UNCHANGED <<callee, lstLeaks>>
  <2>1. Roots = {}
    BY <1>0, <1>2, NoElements DEF Roots, InFlight
  <2>2. \A n \in Nodes : refs[n] = {}
    <3>1. Closed({}, refs)
      BY DEF Closed
    <3>. QED BY <2>1, <3>1 DEF IInv, Reaches
  <2>3. LastLoop'
    BY <1>0, <1>2, <2>2 DEF LastLoop, heapVars
  <2>4. TypeOK' /\ Counts' /\ Kept' /\ Roots' = Roots
    BY <1>0, <1>2 DEF IInv, TypeOK, Counts, Kept, Roots, InFlight, heapVars
  <2>. QED BY <1>0, <1>2, <2>3, <2>4 DEF IInv, heapVars
<1>. QED BY <1>1, <1>2 DEF FreeNextLeak

LEMMA FreeNextClassKeeps == IInv /\ FreeNextClass => IInv'
<1>. SUFFICES ASSUME IInv, FreeNextClass PROVE IInv'
  OBVIOUS
<1>0. /\ pc = "classes" /\ phase = "classes" /\ path = <<>> /\ visited = {} /\ LastLoop
      /\ UNCHANGED <<heapVars, lstLeaks, path, phase>>
  BY NoElements DEF FreeNextClass, IInv, LastLoop
<1>1. ASSUME NEW c \in classNodes, callee' = c, classNodes' = classNodes \ {c}, pc' = "call"
      PROVE  IInv'
  <2>1. c \in Nodes
    BY ConstantsAssumption DEF IInv, TypeOK
  <2>2. TypeOK'
    BY <1>0, <1>1, <2>1 DEF IInv, TypeOK, heapVars
  <2>3. Counts'
    <3>1. /\ refs' = refs /\ lstLeaks' = lstLeaks
          /\ reference_pointing_to_me' = reference_pointing_to_me
      BY <1>0 DEF heapVars
    <3>2. ASSUME NEW n \in Nodes
          PROVE  /\ Owners(n, refs, lstLeaks, classNodes) =
                       Owners(n, refs, lstLeaks, classNodes') + IF n = c THEN 1 ELSE 0
                 /\ Owners(n, refs', lstLeaks', classNodes') =
                      Owners(n, refs, lstLeaks, classNodes')
                 /\ Owners(n, refs, lstLeaks, classNodes') \in Nat
      <4>1. Cardinality(Pointers(n, refs)) \in Nat
        BY FS_CardinalityType DEF IInv
      <4>. QED BY <1>1, <3>1, <4>1 DEF Owners
    <3>3. ASSUME NEW n \in Nodes
          PROVE  /\ ~InFlight(n) /\ (InFlight(n)' <=> n = c)
                 /\ reference_pointing_to_me[n] = Owners(n, refs, lstLeaks, classNodes)
      <4>1. ~InFlight(n) /\ (InFlight(n)' <=> n = c)
        BY <1>0, <1>1 DEF InFlight
      <4>. QED BY <4>1, OwnersFacts DEF IInv, Counts
    <3>. QED BY <3>1, <3>2, <3>3 DEF Counts
  <2>4. Kept' /\ LastLoop'
    BY <1>0, <1>1, <2>1 DEF IInv, Kept, LastLoop, heapVars
  <2>5. Reaches(Roots', refs')
    BY <1>0 DEF LastLoop, Reaches, heapVars
  <2>. QED BY <1>0, <1>1, <2>2, <2>3, <2>4, <2>5 DEF IInv, heapVars
<1>2. CASE classNodes = {} /\ pc' = "done" /\ UNCHANGED <<callee, classNodes>>
  <2>1. TypeOK' /\ Counts' /\ Kept' /\ Roots' = Roots /\ LastLoop'
    BY <1>0, <1>2 DEF IInv, TypeOK, Counts, Kept, Roots, InFlight, LastLoop, heapVars
  <2>. QED BY <1>0, <1>2, <2>1 DEF IInv, heapVars
<1>. QED BY <1>1, <1>2 DEF FreeNextClass

(* A call of freeMemoryNode takes the pointer that it was made for.         *)
LEMMA CountAfterCall ==
  ASSUME IInv, pc = "call", callee \in Nodes, pc' # "call",
         reference_pointing_to_me' = [reference_pointing_to_me EXCEPT ![callee] = @ - 1],
         UNCHANGED <<refs, lstLeaks, classNodes>>
  PROVE  /\ Counts'
         /\ reference_pointing_to_me[callee] > 0
         /\ reference_pointing_to_me' \in [Nodes -> Int]
<1>1. ASSUME NEW n \in Nodes
      PROVE  /\ Owners(n, refs, lstLeaks, classNodes) \in Nat
             /\ reference_pointing_to_me[n] =
                  Owners(n, refs, lstLeaks, classNodes) + IF n = callee THEN 1 ELSE 0
             /\ ~ InFlight(n)'
  BY OwnersFacts DEF IInv, Counts, InFlight
<1>2. reference_pointing_to_me \in [Nodes -> Int]
  BY DEF IInv, TypeOK
<1>3. \A n \in Nodes : reference_pointing_to_me'[n] = Owners(n, refs, lstLeaks, classNodes)
  BY <1>1, <1>2
<1>. QED BY <1>1, <1>2, <1>3 DEF Counts

LEMMA CallKeeps == IInv /\ Call => IInv'
<1>. SUFFICES ASSUME IInv, Call PROVE IInv'
  OBVIOUS
<1>0. /\ pc = "call" /\ UNCHANGED <<allocated, refs, lstLeaks, classNodes, callee, phase>>
      /\ phase \in {"leaks", "classes"} /\ callee \in Nodes \cup {NoNode} /\ path \in Seq(Nodes)
      /\ phase = "classes" => path = <<>> /\ callee \in Nodes /\ visited = {}
  BY NoElements DEF Call, IInv, TypeOK, LastLoop
<1>1. CASE /\ callee = NoNode /\ ReturnTo(path, FALSE)
           /\ UNCHANGED <<reference_pointing_to_me, visited, handles, path>>
  <2>1. phase = "leaks" /\ \A n \in Nodes : ~InFlight(n)
    BY <1>0, <1>1, ConstantsAssumption DEF InFlight
  <2>2. pc' = IF path # <<>> THEN "iterate" ELSE "leaks"
    BY <1>1, <2>1 DEF ReturnTo
  <2>3. TypeOK' /\ Kept'
    BY <1>0, <1>1, <2>2 DEF IInv, TypeOK, Kept
  <2>4. \A n \in Nodes : ~InFlight(n)'
    BY <2>2 DEF InFlight
  <2>5. Roots' = Roots /\ Counts'
    BY <1>0, <1>1, <2>1, <2>4 DEF IInv, Roots, Counts
  <2>. QED BY <1>0, <1>1, <2>1, <2>2, <2>3, <2>5 DEF IInv
<1>2. CASE /\ callee \in visited /\ ReturnTo(path, FALSE)
           /\ reference_pointing_to_me' = [reference_pointing_to_me EXCEPT ![callee] = @ - 1]
           /\ UNCHANGED <<visited, handles, path>>
  <2>1. path # <<>> /\ callee \in Nodes /\ phase = "leaks"
    BY <1>0, <1>2, NoElements DEF IInv, TypeOK
  <2>2. pc' = "iterate"
    BY <1>2, <2>1 DEF ReturnTo
  <2>3. Counts' /\ reference_pointing_to_me' \in [Nodes -> Int]
    BY <1>0, <1>2, <2>1, <2>2, CountAfterCall
  <2>4. TypeOK'
    BY <1>0, <1>2, <2>1, <2>2, <2>3 DEF IInv, TypeOK
  <2>5. Kept'
    BY <1>0, <1>2 DEF IInv, TypeOK, Kept
  <2>6. Roots' = Roots
    BY <1>0, <1>2, <2>2 DEF Roots, InFlight
  <2>. QED BY <1>0, <1>2, <2>1, <2>2, <2>3, <2>4, <2>5, <2>6 DEF IInv
<1>3. CASE /\ callee \in Nodes \ visited
           /\ reference_pointing_to_me' = [reference_pointing_to_me EXCEPT ![callee] = @ - 1]
           /\ visited' = visited \cup {callee} /\ handles' = handles \ {callee}
           /\ path' = Append(path, callee) /\ pc' = "iterate"
  <2>1. /\ Counts' /\ reference_pointing_to_me' \in [Nodes -> Int]
        /\ reference_pointing_to_me[callee] > 0
    BY <1>0, <1>3, CountAfterCall
  <2>2. /\ path' \in Seq(Nodes) /\ path' # <<>> /\ Distinct(path')
        /\ Elements(path') = visited'
    BY <1>0, <1>3, PushElements DEF IInv
  <2>3. TypeOK'
    BY <1>0, <1>3, <2>1, <2>2 DEF IInv, TypeOK
  <2>4. Kept'
    BY <1>0, <1>3, <2>1 DEF IInv, TypeOK, Kept
  <2>5. Roots' = Roots
    BY <1>0, <1>3 DEF Roots, InFlight
  <2>6. phase = "classes" => LastLoop'
    BY <1>0, <1>3 DEF IInv, LastLoop
  <2>. QED BY <1>0, <1>3, <2>1, <2>2, <2>3, <2>4, <2>5, <2>6 DEF IInv
<1>. QED BY <1>0, <1>1, <1>2, <1>3 DEF Call

LEMMA ReleaseReferenceKeeps == IInv /\ ReleaseReference => IInv'
<1>. SUFFICES ASSUME IInv, ReleaseReference PROVE IInv'
  OBVIOUS
<1>0. PICK r \in refs[Top] : refs' = [refs EXCEPT ![Top] = @ \ {r}] /\ callee' = r.node
  BY DEF ReleaseReference
<1>1. /\ pc = "iterate" /\ pc' = "call"
      /\ UNCHANGED <<allocated, reference_pointing_to_me, visited, handles, lstLeaks, classNodes,
                     path, phase>>
  BY DEF ReleaseReference
<1>2. Top \in Nodes /\ Top \in visited
  BY <1>1, PopElements DEF IInv, TypeOK, Top
<1>3. refs \in [Nodes -> SUBSET Reference] /\ r \in Reference /\ r.node \in Nodes \cup {NoNode}
  BY <1>2 DEF IInv, TypeOK, Reference
<1>4. refs' \in [Nodes -> SUBSET Reference] /\ \A n \in Nodes : refs'[n] \subseteq refs[n]
  BY <1>0, <1>2, <1>3
<1>5. phase = "leaks"
  BY <1>2 DEF IInv, TypeOK, LastLoop
<1>6. TypeOK'
  BY <1>0, <1>1, <1>3, <1>4 DEF IInv, TypeOK
<1>7. ASSUME NEW n \in Nodes
      PROVE  /\ IsFiniteSet(Pointers(n, refs'))
             /\ Cardinality(Pointers(n, refs)) =
                  Cardinality(Pointers(n, refs')) + IF callee' = n THEN 1 ELSE 0
  <2>1. IsFiniteSet(Pointers(n, refs))
    BY DEF IInv
  <2>2. \A k \in Nodes : refs'[k] = IF k = Top THEN refs[Top] \ {r} ELSE refs[k]
    BY <1>0, <1>2, <1>3
  <2>3. /\ IsFiniteSet(Pointers(n, refs'))
        /\ Cardinality(Pointers(n, refs)) =
             Cardinality(Pointers(n, refs')) + IF r.node = n THEN 1 ELSE 0
    <3>1. \A q : (\A k \in Nodes : q[k] = IF k = Top THEN refs[Top] \ {r} ELSE refs[k])
                 => /\ IsFiniteSet(Pointers(n, q))
                    /\ Cardinality(Pointers(n, refs)) =
                         Cardinality(Pointers(n, q)) + IF r.node = n THEN 1 ELSE 0
      BY <1>2, <1>3, <2>1, PointersAfterRelease
    <3>. QED BY <2>2, <3>1
  <2>. QED BY <1>0, <2>3
<1>8. Counts'
  <2>1. ASSUME NEW n \in Nodes
        PROVE  Owners(n, refs, lstLeaks, classNodes) =
                 Owners(n, refs', lstLeaks, classNodes) + IF callee' = n THEN 1 ELSE 0
    <3>1. Cardinality(Pointers(n, refs')) \in Nat
      BY <1>7, FS_CardinalityType
    <3>. QED BY <1>7, <3>1 DEF Owners
  <2>2. ASSUME NEW n \in Nodes
        PROVE  /\ Owners(n, refs', lstLeaks', classNodes') = Owners(n, refs', lstLeaks, classNodes)
               /\ Owners(n, refs', lstLeaks, classNodes) \in Nat
    BY <1>1, <1>7, OwnersFacts
  <2>3. ASSUME NEW n \in Nodes
        PROVE  /\ ~InFlight(n) /\ (InFlight(n)' <=> callee' = n)
               /\ reference_pointing_to_me[n] = Owners(n, refs, lstLeaks, classNodes)
    <3>1. ~InFlight(n) /\ (InFlight(n)' <=> callee' = n)
      BY <1>1 DEF InFlight
    <3>. QED BY <3>1, OwnersFacts DEF IInv, Counts
  <2>. QED BY <1>1, <2>1, <2>2, <2>3 DEF Counts
<1>9. Kept'
  BY <1>1 DEF IInv, Kept
<1>10. Reaches(Roots', refs')
  <2>1. SUFFICES ASSUME NEW S \in SUBSET Nodes, Roots' \subseteq S, Closed(S, refs')
                 PROVE  \A n \in Nodes \ S : refs'[n] = {}
    BY DEF Reaches
  <2>2. Roots \subseteq S
    BY <1>1, <2>1 DEF Roots, InFlight
  <2>3. r.node # NoNode => r.node \in S
    BY <1>0, <1>1, <1>3, <2>1 DEF Roots, InFlight
  <2>4. Closed(S, refs)
    BY <1>0, <1>2, <1>3, <2>1, <2>3 DEF Closed
  <2>5. \A n \in Nodes \ S : refs[n] = {}
    BY <2>2, <2>4 DEF IInv, Reaches
  <2>. QED BY <1>4, <2>5
<1>. QED BY <1>1, <1>5, <1>6, <1>7, <1>8, <1>9, <1>10 DEF IInv

LEMMA FinishKeeps == IInv /\ Finish => IInv'
<1>. SUFFICES ASSUME IInv, Finish PROVE IInv'
  OBVIOUS
<1>0. /\ pc = "iterate" /\ refs[Top] = {}
      /\ path' = SubSeq(path, 1, Len(path) - 1) /\ visited' = visited \ {Top}
      /\ allocated' = IF reference_pointing_to_me[Top] > 0
                      THEN allocated ELSE allocated \ {Top}
      /\ ReturnTo(path', Top \notin allocated')
      /\ UNCHANGED <<reference_pointing_to_me, refs, handles, lstLeaks, classNodes, callee, phase>>
  BY DEF Finish
<1>1. path \in Seq(Nodes) /\ path # <<>> /\ phase \in {"leaks", "classes"}
  BY <1>0 DEF IInv, TypeOK
<1>2. /\ Top \in Nodes /\ Top \in visited
      /\ path' \in Seq(Nodes) /\ Distinct(path') /\ Elements(path') = visited'
  BY <1>0, <1>1, PopElements DEF IInv, Top
<1>3. phase = "classes" => path' = <<>> /\ Top \notin allocated'
  <2>1. SUFFICES ASSUME phase = "classes" PROVE path' = <<>> /\ Top \notin allocated'
    OBVIOUS
  <2>2. LastLoop /\ path = <<callee>> /\ callee \in Nodes \ classNodes
    BY <1>0, <1>1, <2>1 DEF IInv, LastLoop
  <2>3. Len(path) = 1 /\ Top = callee
    BY <2>2 DEF Top
  <2>4. path' = <<>>
    BY <1>0, <1>1, <2>3, PopFacts
  <2>5. Owners(Top, refs, lstLeaks, classNodes) = 0
    BY <1>2, <2>2, <2>3, NoElements, OwnersFacts DEF IInv, LastLoop
  <2>6. reference_pointing_to_me[Top] = 0
    BY <1>0, <1>2, <2>5 DEF IInv, Counts, InFlight
  <2>. QED BY <1>0, <2>4, <2>6
<1>4. /\ pc' \in {"iterate", "leaks", "classes"}
      /\ pc' = "iterate" => path' # <<>>
      /\ pc' = "leaks" => path' = <<>> /\ phase = "leaks"
      /\ phase = "classes" => pc' = "classes"
      /\ pc' = "classes" => phase = "classes"
  BY <1>0, <1>1, <1>3 DEF ReturnTo
<1>5. TypeOK'
  BY <1>0, <1>2, <1>4 DEF IInv, TypeOK
<1>6. Counts'
  BY <1>0, <1>4 DEF IInv, Counts, InFlight
<1>7. Kept'
  BY <1>0, <1>2 DEF IInv, TypeOK, Kept
<1>8. Reaches(Roots', refs')
  <2>1. SUFFICES ASSUME NEW S \in SUBSET Nodes, Roots' \subseteq S, Closed(S, refs)
                 PROVE  \A n \in Nodes \ S : refs[n] = {}
    BY <1>0 DEF Reaches
  <2>. DEFINE T == S \cup {Top}
  <2>2. T \in SUBSET Nodes /\ Roots \subseteq T
    BY <1>0, <1>2, <2>1 DEF Roots, InFlight
  <2>3. Closed(T, refs)
    BY <1>0, <2>1 DEF Closed
  <2>4. \A n \in Nodes \ T : refs[n] = {}
    BY <2>2, <2>3 DEF IInv, Reaches
  <2>. QED BY <1>0, <2>4
<1>9. phase = "classes" => LastLoop'
  BY <1>0, <1>3, <1>4 DEF IInv, LastLoop
<1>. QED BY <1>0, <1>2, <1>4, <1>5, <1>6, <1>7, <1>8, <1>9 DEF IInv
-----------------------------------------------------------------------------
(***************************************************************************)
(* The theorems.                                                           *)
(***************************************************************************)
LEMMA NextIInv == IInv /\ [Next]_vars => IInv'
<1>1. IInv /\ UNCHANGED vars => IInv'
  BY DEF IInv, TypeOK, Counts, Kept, Roots, InFlight, LastLoop, vars, heapVars
<1>. QED BY <1>1, FreeNextLeakKeeps, FreeNextClassKeeps, CallKeeps, ReleaseReferenceKeeps,
            FinishKeeps DEF Next

LEMMA AlwaysIInv == Spec => []IInv
  BY InitIInv, NextIInv, PTL DEF Spec

(* Types of the release: what freeMemoryNode and its callers keep.          *)
THEOREM ReleaseTypeCorrect == Spec => []TypeOK
<1>1. IInv => TypeOK
  BY DEF IInv
<1>. QED BY <1>1, AlwaysIInv, PTL

(* The counter of a node (reference_pointing_to_me) is exact, whatever the  *)
(* recursion of freeMemoryNode has released so far.                         *)
THEOREM CountersStayExact == Spec => []CountersAreExact
<1>1. IInv => CountersAreExact
  BY DEF IInv, TypeOK, Counts, InFlight, CountersAreExact
<1>. QED BY <1>1, AlwaysIInv, PTL

(* No node is used after free(): it is freed only when nothing points to    *)
(* it, no list, no reference, no call of freeMemoryNode that is active.     *)
THEOREM ReleaseIsSafe == Spec => []NoUseAfterFree
<1>1. IInv => NoUseAfterFree
  <2>1. SUFFICES ASSUME IInv PROVE NoUseAfterFree
    OBVIOUS
  <2>2. ASSUME NEW n \in Nodes, Owners(n, refs, lstLeaks, classNodes) # 0 \/ InFlight(n)
        PROVE  n \in allocated
    <3>1. Owners(n, refs, lstLeaks, classNodes) \in Nat
      BY <2>1, OwnersFacts DEF IInv
    <3>2. reference_pointing_to_me[n] > 0
      BY <2>1, <2>2, <3>1 DEF IInv, Counts
    <3>. QED BY <2>1, <3>2 DEF IInv, Kept
  <2>3. ASSUME NEW n \in Nodes, n \in Elements(lstLeaks) \cup classNodes
        PROVE  n \in allocated
    BY <2>1, <2>2, <2>3, OwnersFacts DEF IInv
  <2>4. ASSUME NEW m \in Nodes, NEW e \in refs[m], e.node # NoNode
        PROVE  e.node \in allocated
    <3>1. e.node \in Nodes
      BY <2>1, <2>4 DEF IInv, TypeOK, Reference
    <3>. QED BY <2>1, <2>2, <3>1, OwnersFacts DEF IInv
  <2>5. Elements(path) \subseteq allocated
    BY <2>1 DEF IInv, Kept
  <2>6. Elements(lstLeaks) \subseteq Nodes /\ classNodes \subseteq Nodes
    BY <2>1, ElementOfSeq, LenProperties, ConstantsAssumption DEF IInv, TypeOK, Elements
  <2>7. pc = "call" /\ callee # NoNode => callee \in allocated
    BY <2>1, <2>2 DEF IInv, TypeOK, InFlight
  <2>. QED BY <2>3, <2>4, <2>5, <2>6, <2>7 DEF NoUseAfterFree
<1>. QED BY <1>1, AlwaysIInv, PTL

(* The alerts of releaseThreadData and untagAllClasses are never raised:    *)
(* when the release ends, every node is freed and every handle released.    *)
THEOREM ReleaseIsComplete == Spec => []EverythingIsFreed
<1>1. IInv => EverythingIsFreed
  <2>1. SUFFICES ASSUME IInv, pc = "done" PROVE allocated = {} /\ handles = {}
    BY DEF IInv, EverythingIsFreed
  <2>2. LastLoop /\ path = <<>> /\ visited = {} /\ classNodes = {} /\ lstLeaks = <<>>
    BY <2>1, NoElements DEF IInv, LastLoop
  <2>3. ASSUME NEW n \in Nodes PROVE n \notin allocated
    <3>1. Owners(n, refs, lstLeaks, classNodes) = 0
      BY <2>1, <2>2, NoElements, OwnersFacts DEF IInv, LastLoop
    <3>2. reference_pointing_to_me[n] = 0
      BY <2>1, <3>1 DEF IInv, Counts, InFlight
    <3>. QED BY <2>1, <2>2, <3>2 DEF IInv, Kept
  <2>. QED BY <2>1, <2>3 DEF IInv, TypeOK, Kept
<1>. QED BY <1>1, AlwaysIInv, PTL
===============================================================================
