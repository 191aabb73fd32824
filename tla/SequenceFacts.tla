---------------------------- MODULE SequenceFacts -----------------------------
(***************************************************************************)
(* Facts about sequences: those used as stacks - the calls of              *)
(* generateReferencesChainForNode (jvm_reference.c) and of freeMemoryNode  *)
(* (data_struct.c) that have not returned - and those that are read from   *)
(* one end to the other.                                                   *)
(***************************************************************************)
EXTENDS Integers, Sequences, SequenceTheorems, NaturalsInduction, WellFoundedInduction, TLAPS

(* A call: its argument is pushed.                                          *)
LEMMA PushFacts ==
  ASSUME NEW S, NEW s \in Seq(S), NEW x \in S
  PROVE  /\ Append(s, x) \in Seq(S)
         /\ Len(Append(s, x)) = Len(s) + 1
         /\ Append(s, x) # <<>>
         /\ \A i \in 1 .. Len(s) : Append(s, x)[i] = s[i]
         /\ Append(s, x)[Len(s) + 1] = x
  BY AppendProperties

(* A call returns: the last element is taken off.                           *)
LEMMA PopFacts ==
  ASSUME NEW S, NEW s \in Seq(S), s # <<>>
  PROVE  /\ Len(s) \in Nat \ {0}
         /\ s[Len(s)] \in S
         /\ SubSeq(s, 1, Len(s) - 1) \in Seq(S)
         /\ Len(SubSeq(s, 1, Len(s) - 1)) = Len(s) - 1
         /\ \A i \in 1 .. Len(s) - 1 : SubSeq(s, 1, Len(s) - 1)[i] = s[i]
         /\ Len(s) # 1 => SubSeq(s, 1, Len(s) - 1) # <<>>
         /\ Len(s) = 1 => SubSeq(s, 1, Len(s) - 1) = <<>>
<1>1. Len(s) \in Nat \ {0} /\ s \in [1 .. Len(s) -> S]
  BY EmptySeq, LenProperties
<1>2. \A i \in 1 .. Len(s) - 1 : s[i] \in S
  BY <1>1
<1>3. /\ SubSeq(s, 1, Len(s) - 1) \in Seq(S)
      /\ Len(SubSeq(s, 1, Len(s) - 1)) = IF 1 <= Len(s) - 1 THEN Len(s) - 1 - 1 + 1 ELSE 0
      /\ \A i \in 1 .. Len(s) - 1 - 1 + 1 : SubSeq(s, 1, Len(s) - 1)[i] = s[1 + i - 1]
  <2>1. Len(s) - 1 \in Int
    BY <1>1
  <2>. QED BY <2>1, <1>2, SubSeqProperties
<1>4. \A t \in Seq(S) : Len(t) = 0 <=> t = <<>>
  BY EmptySeq
<1>5. /\ SubSeq(s, 1, Len(s) - 1) \in Seq(S)
      /\ Len(SubSeq(s, 1, Len(s) - 1)) = Len(s) - 1
      /\ \A i \in 1 .. Len(s) - 1 : SubSeq(s, 1, Len(s) - 1)[i] = s[i]
  <2>1. /\ (IF 1 <= Len(s) - 1 THEN Len(s) - 1 - 1 + 1 ELSE 0) = Len(s) - 1
        /\ Len(s) - 1 - 1 + 1 = Len(s) - 1
        /\ \A i \in 1 .. Len(s) - 1 : 1 + i - 1 = i
    BY <1>1
  <2>. QED BY <1>3, <2>1
<1>6. s[Len(s)] \in S
  BY <1>1
<1>7. Len(s) = 1 <=> SubSeq(s, 1, Len(s) - 1) = <<>>
  <2>1. SubSeq(s, 1, Len(s) - 1) = <<>> <=> Len(SubSeq(s, 1, Len(s) - 1)) = 0
    BY <1>4, <1>5
  <2>2. Len(s) = 1 <=> Len(s) - 1 = 0
    BY <1>1
  <2>. QED BY <2>1, <2>2, <1>5
<1>8. Len(s) \in Nat \ {0}
  BY <1>1
<1>. QED BY <1>5, <1>6, <1>7, <1>8
-----------------------------------------------------------------------------
(* Induction, for a set: if a number is missing, so is a least one.  (The   *)
(* library's theorem is for a predicate, which no prover here instantiates.)*)
LEMMA Induction ==
  ASSUME NEW S, 0 \in S, \A n \in Nat : n \in S => n + 1 \in S
  PROVE  Nat \subseteq S
<1>. DEFINE R == OpToRel(<, Nat)
            T == Nat \ S
<1>1. SUFFICES ASSUME T # {} PROVE FALSE
  OBVIOUS
<1>2. PICK x \in T : \A y \in T : <<y, x>> \notin R
  <2>1. IsWellFoundedOn(R, Nat)
    BY NatLessThanWellFounded
  <2>. HIDE DEF R
  <2>. QED BY <1>1, <2>1, WFMin
<1>3. \A y \in T : ~ (y < x)
  BY <1>2 DEF OpToRel
<1>4. x # 0 /\ x - 1 \in Nat /\ x - 1 \in S
  BY <1>3
<1>. QED BY <1>4

(***************************************************************************)
(* A sequence is read element by element, beginning with the result a:     *)
(* f[i] is the result after i elements.                                    *)
(***************************************************************************)
IsFold(f, n, a, step, s) ==
  f[0] = a /\ \A i \in 1 .. n : f[i] = step[f[i - 1]][s[i]]

LEMMA FoldExists ==
  ASSUME NEW X, NEW A, NEW a \in A, NEW step \in [A -> [X -> A]], NEW s \in Seq(X)
  PROVE  \E f \in [0 .. Len(s) -> A] : IsFold(f, Len(s), a, step, s)
<1>. DEFINE Folded(n) == \E f \in [0 .. n -> A] : IsFold(f, n, a, step, s)
            N == {n \in Nat : n <= Len(s) => Folded(n)}
<1>1. Len(s) \in Nat /\ \A i \in 1 .. Len(s) : s[i] \in X
  BY LenProperties, ElementOfSeq
<1>2. 0 \in N
  <2>1. [i \in 0 .. 0 |-> a] \in [0 .. 0 -> A] /\ IsFold([i \in 0 .. 0 |-> a], 0, a, step, s)
    BY DEF IsFold
  <2>. QED BY <2>1
<1>3. ASSUME NEW n \in Nat, n \in N PROVE n + 1 \in N
  <2>1. SUFFICES ASSUME n + 1 <= Len(s) PROVE Folded(n + 1)
    OBVIOUS
  <2>2. PICK f \in [0 .. n -> A] : IsFold(f, n, a, step, s)
    BY <1>1, <1>3, <2>1
  <2>. DEFINE g == [i \in 0 .. n + 1 |-> IF i = n + 1 THEN step[f[n]][s[n + 1]] ELSE f[i]]
  <2>3. s[n + 1] \in X /\ f[n] \in A
    BY <1>1, <2>1
  <2>4. step[f[n]][s[n + 1]] \in A
    BY <2>3
  <2>5. g \in [0 .. n + 1 -> A]
    BY <2>4
  <2>6. \A i \in 1 .. n + 1 : g[i] = step[g[i - 1]][s[i]]
    <3>. SUFFICES ASSUME NEW i \in 1 .. n + 1 PROVE g[i] = step[g[i - 1]][s[i]]
      OBVIOUS
    <3>1. g[i - 1] = f[i - 1]
      OBVIOUS
    <3>2. CASE i = n + 1
      BY <3>1, <3>2
    <3>3. CASE i \in 1 .. n
      <4>1. g[i] = f[i] /\ f[i] = step[f[i - 1]][s[i]]
        BY <2>2, <3>3 DEF IsFold
      <4>. QED BY <3>1, <4>1
    <3>. QED BY <3>2, <3>3
  <2>7. g[0] = a
    BY <2>2 DEF IsFold
  <2>. HIDE DEF g
  <2>. QED BY <2>5, <2>6, <2>7 DEF IsFold
<1>. HIDE DEF Folded
<1>4. Nat \subseteq N
  BY <1>2, <1>3, Induction
<1>. QED BY <1>1, <1>4 DEF Folded

SameUpTo(n, s, t) == \A i \in 1 .. n : s[i] = t[i]

(* What follows the first n elements does not matter to their result.       *)
LEMMA FoldsAgree ==
  ASSUME NEW n \in Nat, NEW a, NEW step, NEW s, NEW t, SameUpTo(n, s, t),
         NEW f, NEW g, IsFold(f, n, a, step, s), IsFold(g, n, a, step, t)
  PROVE  f[n] = g[n]
<1>. DEFINE N == {i \in Nat : i <= n => f[i] = g[i]}
<1>1. 0 \in N
  BY DEF IsFold
<1>2. \A i \in Nat : i \in N => i + 1 \in N
  BY DEF IsFold, SameUpTo
<1>3. Nat \subseteq N
  <2>. HIDE DEF N
  <2>. QED BY <1>1, <1>2, Induction
<1>. QED BY <1>3

(* What is defined like a fold is one, and has results of its type.         *)
LikeFold(f, n, a, step, s, A) ==
  f[0] = a /\ \A i \in 1 .. n : f[i - 1] \in A => f[i] = step[f[i - 1]][s[i]]

LEMMA RecursionIsFold ==
  ASSUME NEW X, NEW A, NEW a \in A, NEW step \in [A -> [X -> A]], NEW s \in Seq(X),
         NEW f, LikeFold(f, Len(s), a, step, s, A)
  PROVE  IsFold(f, Len(s), a, step, s) /\ f[Len(s)] \in A
<1>. USE DEF LikeFold
<1>. DEFINE N == {i \in Nat : i <= Len(s) => f[i] \in A}
<1>1. Len(s) \in Nat /\ \A i \in 1 .. Len(s) : s[i] \in X
  BY LenProperties, ElementOfSeq
<1>2. 0 \in N
  OBVIOUS
<1>3. ASSUME NEW i \in Nat, i \in N PROVE i + 1 \in N
  <2>1. SUFFICES ASSUME i + 1 <= Len(s) PROVE f[i + 1] \in A
    OBVIOUS
  <2>2. i + 1 \in 1 .. Len(s) /\ i + 1 - 1 = i /\ f[i] \in A
    BY <1>1, <1>3, <2>1
  <2>3. f[i + 1] = step[f[i]][s[i + 1]] /\ s[i + 1] \in X
    BY <1>1, <2>2
  <2>. QED BY <2>2, <2>3
<1>4. Nat \subseteq N
  <2>. HIDE DEF N
  <2>. QED BY <1>2, <1>3, Induction
<1>5. \A i \in 1 .. Len(s) : i - 1 \in Nat /\ i - 1 <= Len(s)
  BY <1>1
<1>. QED BY <1>1, <1>4, <1>5 DEF IsFold

(* A sequence that grows.                                                   *)
LEMMA FoldGrows ==
  ASSUME NEW X, NEW s \in Seq(X), NEW x \in X, NEW a, NEW step, NEW f, NEW g,
         IsFold(f, Len(s), a, step, s),
         IsFold(g, Len(Append(s, x)), a, step, Append(s, x))
  PROVE  g[Len(Append(s, x))] = step[f[Len(s)]][x]
<1>1. /\ Len(s) \in Nat /\ Len(Append(s, x)) = Len(s) + 1 /\ Append(s, x)[Len(s) + 1] = x
      /\ \A i \in 1 .. Len(s) : Append(s, x)[i] = s[i]
  BY LenProperties, AppendProperties
<1>2. IsFold(g, Len(s), a, step, Append(s, x))
  BY <1>1 DEF IsFold
<1>3. g[Len(s)] = f[Len(s)]
  <2>1. SameUpTo(Len(s), s, Append(s, x))
    BY <1>1 DEF SameUpTo
  <2>. QED BY <1>1, <1>2, <2>1, FoldsAgree
<1>4. g[Len(s) + 1] = step[g[Len(s) + 1 - 1]][x]
  BY <1>1 DEF IsFold
<1>5. Len(s) + 1 - 1 = Len(s)
  BY <1>1
<1>. QED BY <1>1, <1>3, <1>4, <1>5
-----------------------------------------------------------------------------
(* Two sequences, one after the other.                                      *)
LEMMA ConcatFacts ==
  ASSUME NEW S, NEW s \in Seq(S), NEW t \in Seq(S)
  PROVE  /\ s \o t \in Seq(S) /\ Len(s \o t) = Len(s) + Len(t)
         /\ Len(s) \in Nat /\ Len(t) \in Nat
         /\ \A i \in 1 .. Len(s) : (s \o t)[i] = s[i]
         /\ \A i \in 1 .. Len(t) : (s \o t)[Len(s) + i] = t[i]
<1>1. /\ s \o t \in Seq(S) /\ Len(s \o t) = Len(s) + Len(t)
      /\ \A i \in 1 .. Len(s) + Len(t) : (s \o t)[i] = IF i <= Len(s) THEN s[i] ELSE t[i - Len(s)]
  BY ConcatProperties
<1>2. Len(s) \in Nat /\ Len(t) \in Nat
  BY LenProperties
<1>3. \A i \in 1 .. Len(s) : i \in 1 .. Len(s) + Len(t) /\ i <= Len(s)
  BY <1>2
<1>4. \A i \in 1 .. Len(t) : /\ Len(s) + i \in 1 .. Len(s) + Len(t) /\ ~ (Len(s) + i <= Len(s))
                             /\ Len(s) + i - Len(s) = i
  BY <1>2
<1>. QED BY <1>1, <1>2, <1>3, <1>4

(* An element more at the end of the second, or moved to the first.         *)
IsConcat(st, s, t) ==
  /\ Len(st) = Len(s) + Len(t)
  /\ \A i \in 1 .. Len(s) : st[i] = s[i]
  /\ \A i \in 1 .. Len(t) : st[Len(s) + i] = t[i]

IsAppend(se, s, e) ==
  /\ Len(se) = Len(s) + 1 /\ se[Len(s) + 1] = e
  /\ \A i \in 1 .. Len(s) : se[i] = s[i]

LEMMA SameAppended ==
  ASSUME NEW S, NEW s \in Seq(S), NEW t \in Seq(S), NEW st \in Seq(S), NEW te \in Seq(S),
         NEW a \in Seq(S), NEW b \in Seq(S), NEW e,
         IsConcat(st, s, t), IsAppend(te, t, e), IsConcat(a, s, te), IsAppend(b, st, e)
  PROVE  a = b
<1>1. Len(s) \in Nat /\ Len(t) \in Nat
  BY LenProperties
<1>2. Len(te) = Len(t) + 1 /\ Len(st) = Len(s) + Len(t) /\ Len(a) = Len(s) + (Len(t) + 1)
      /\ Len(b) = Len(s) + Len(t) + 1
  BY DEF IsConcat, IsAppend
<1>3. Len(a) = Len(b)
  BY <1>1, <1>2
<1>4. ASSUME NEW i \in 1 .. Len(s) PROVE a[i] = b[i]
  <2>1. i \in 1 .. Len(st)
    BY <1>1, <1>2
  <2>. QED BY <2>1 DEF IsConcat, IsAppend
<1>5. ASSUME NEW i \in 1 .. Len(t) PROVE a[Len(s) + i] = b[Len(s) + i]
  <2>1. Len(s) + i \in 1 .. Len(st) /\ i \in 1 .. Len(te)
    BY <1>1, <1>2
  <2>2. a[Len(s) + i] = te[i] /\ te[i] = t[i]
    BY <2>1 DEF IsConcat, IsAppend
  <2>3. b[Len(s) + i] = st[Len(s) + i] /\ st[Len(s) + i] = t[i]
    BY <2>1 DEF IsConcat, IsAppend
  <2>. QED BY <2>2, <2>3
<1>6. a[Len(a)] = b[Len(a)]
  <2>1. Len(t) + 1 \in 1 .. Len(te) /\ Len(a) = Len(st) + 1
    BY <1>1, <1>2
  <2>2. a[Len(s) + (Len(t) + 1)] = e
    BY <2>1 DEF IsConcat, IsAppend
  <2>3. b[Len(st) + 1] = e
    BY DEF IsAppend
  <2>. QED BY <1>2, <2>1, <2>2, <2>3
<1>7. ASSUME NEW i \in 1 .. Len(a) PROVE a[i] = b[i]
  <2>1. CASE i \in 1 .. Len(s)
    BY <1>4, <2>1
  <2>2. CASE i \notin 1 .. Len(s) /\ i # Len(a)
    <3>1. i - Len(s) \in 1 .. Len(t) /\ Len(s) + (i - Len(s)) = i
      BY <1>1, <1>2, <2>2
    <3>. QED BY <1>5, <3>1
  <2>. QED BY <1>6, <2>1, <2>2
<1>. QED BY <1>3, <1>7, SeqEqual

LEMMA SameMoved ==
  ASSUME NEW S, NEW s \in Seq(S), NEW t \in Seq(S), NEW se \in Seq(S), NEW r \in Seq(S),
         NEW a \in Seq(S), NEW b \in Seq(S),
         Len(t) # 0, Len(r) = Len(t) - 1, \A i \in 1 .. Len(r) : r[i] = t[i + 1],
         IsAppend(se, s, t[1]), IsConcat(a, se, r), IsConcat(b, s, t)
  PROVE  a = b
<1>1. Len(s) \in Nat /\ Len(t) \in Nat
  BY LenProperties
<1>2. Len(se) = Len(s) + 1 /\ Len(b) = Len(s) + Len(t) /\ Len(a) = Len(s) + 1 + (Len(t) - 1)
  BY DEF IsConcat, IsAppend
<1>3. Len(a) = Len(b)
  BY <1>1, <1>2
<1>4. ASSUME NEW i \in 1 .. Len(s) PROVE a[i] = b[i]
  <2>1. i \in 1 .. Len(se)
    BY <1>1, <1>2
  <2>. QED BY <2>1 DEF IsConcat, IsAppend
<1>5. a[Len(s) + 1] = b[Len(s) + 1]
  <2>1. 1 \in 1 .. Len(t) /\ Len(s) + 1 \in 1 .. Len(se)
    BY <1>1, <1>2
  <2>2. a[Len(s) + 1] = t[1]
    BY <2>1 DEF IsConcat, IsAppend
  <2>3. b[Len(s) + 1] = t[1]
    BY <2>1 DEF IsConcat
  <2>. QED BY <2>2, <2>3
<1>6. ASSUME NEW i \in 1 .. Len(r) PROVE a[Len(s) + 1 + i] = b[Len(s) + 1 + i]
  <2>1. i + 1 \in 1 .. Len(t) /\ Len(s) + (i + 1) = Len(s) + 1 + i
    BY <1>1
  <2>2. a[Len(s) + 1 + i] = t[i + 1]
    BY <1>2 DEF IsConcat
  <2>3. b[Len(s) + (i + 1)] = t[i + 1]
    BY <2>1 DEF IsConcat
  <2>. QED BY <2>1, <2>2, <2>3
<1>7. ASSUME NEW i \in 1 .. Len(a) PROVE a[i] = b[i]
  <2>1. CASE i \in 1 .. Len(s)
    BY <1>4, <2>1
  <2>2. CASE i \notin 1 .. Len(s) /\ i # Len(s) + 1
    <3>1. i \in Int /\ i > Len(s) + 1 /\ i <= Len(s) + Len(t)
      <4>1. Len(a) = Len(s) + Len(t)
        BY <1>2, <1>3
      <4>2. i \in 1 .. Len(s) + Len(t)
        BY <4>1
      <4>. QED BY <1>1, <2>2, <4>2
    <3>2. i - Len(s) - 1 \in 1 .. Len(t) - 1 /\ Len(s) + 1 + (i - Len(s) - 1) = i
      BY <1>1, <3>1
    <3>. QED BY <1>6, <3>2
  <2>. QED BY <1>5, <2>1, <2>2
<1>. QED BY <1>3, <1>7, SeqEqual

LEMMA JoinFacts ==
  ASSUME NEW S, NEW s \in Seq(S), NEW t \in Seq(S)
  PROVE  /\ s \o t \in Seq(S) /\ IsConcat(s \o t, s, t)
         /\ \A e \in S : Append(s, e) \in Seq(S) /\ IsAppend(Append(s, e), s, e)
BY ConcatFacts, PushFacts DEF IsConcat, IsAppend

LEMMA ConcatAppend ==
  ASSUME NEW S, NEW s \in Seq(S), NEW t \in Seq(S), NEW e \in S
  PROVE  s \o Append(t, e) = Append(s \o t, e)
<1>1. s \o t \in Seq(S) /\ IsConcat(s \o t, s, t)
  BY JoinFacts
<1>2. Append(t, e) \in Seq(S) /\ IsAppend(Append(t, e), t, e)
  BY JoinFacts
<1>3. s \o Append(t, e) \in Seq(S) /\ IsConcat(s \o Append(t, e), s, Append(t, e))
  BY <1>2, JoinFacts
<1>4. Append(s \o t, e) \in Seq(S) /\ IsAppend(Append(s \o t, e), s \o t, e)
  BY <1>1, JoinFacts
<1>. QED BY <1>1, <1>2, <1>3, <1>4, SameAppended

LEMMA ConcatMoves ==
  ASSUME NEW S, NEW s \in Seq(S), NEW t \in Seq(S), t # << >>
  PROVE  Append(s, Head(t)) \o Tail(t) = s \o t
<1>1. /\ Tail(t) \in Seq(S) /\ Len(Tail(t)) = Len(t) - 1 /\ Head(t) \in S /\ Head(t) = t[1]
      /\ \A i \in 1 .. Len(Tail(t)) : Tail(t)[i] = t[i + 1]
      /\ Len(t) # 0
  BY HeadTailProperties, EmptySeq
<1>2. Append(s, Head(t)) \in Seq(S) /\ IsAppend(Append(s, Head(t)), s, t[1])
  BY <1>1, JoinFacts
<1>3. /\ Append(s, Head(t)) \o Tail(t) \in Seq(S)
      /\ IsConcat(Append(s, Head(t)) \o Tail(t), Append(s, Head(t)), Tail(t))
  BY <1>1, <1>2, JoinFacts
<1>4. s \o t \in Seq(S) /\ IsConcat(s \o t, s, t)
  BY JoinFacts
<1>. DEFINE r == Tail(t)
<1>5. /\ r \in Seq(S) /\ Len(r) = Len(t) - 1 /\ Len(t) # 0
      /\ \A i \in 1 .. Len(r) : r[i] = t[i + 1]
      /\ IsConcat(Append(s, Head(t)) \o r, Append(s, Head(t)), r)
      /\ Append(s, Head(t)) \o r \in Seq(S)
  BY <1>1, <1>3
<1>. HIDE DEF r
<1>6. Append(s, Head(t)) \o r = s \o t
  BY <1>2, <1>4, <1>5, SameMoved
<1>. QED BY <1>6 DEF r
===============================================================================
