------------------------------ MODULE BitmaskSet ------------------------------
(***************************************************************************)
(* The sets of leak numbers kept by every node of the reference graph      *)
(* (bitmask_set.c).  A set is an array of bytes sized for the numbers      *)
(* below "size"; it is modelled by the record [size, bits], where "bits"   *)
(* is the set of positions of the one-bits, the spare ones included.       *)
(*                                                                         *)
(* Element operations look at "size", whole-set operations work on bytes:  *)
(* the two views differ for the spare bits of the last byte, and for       *)
(* operands of different sizes.                                            *)
(***************************************************************************)
EXTENDS Naturals

CONSTANT ByteBits      (* Bits of a byte: 8 in the code. *)

ASSUME ByteBitsAssumption == ByteBits \in Nat \ {0}

Smaller(m, n) == IF m < n THEN m ELSE n

SIZE_IN_BYTES(size) == 1 + size \div ByteBits

(* Positions that exist in a set allocated for "size" numbers. *)
Capacity(size) == ByteBits * SIZE_IN_BYTES(size)

bitMaskSet_new(size) == [size |-> size, bits |-> {}]

bitMapSet_add(s, n) ==
  IF n >= s.size THEN s ELSE [s EXCEPT !.bits = @ \cup {n}]

bitMapSet_remove(s, n) ==
  IF n >= s.size THEN s ELSE [s EXCEPT !.bits = @ \ {n}]

bitMapSet_contains(s, n) == n < s.size /\ n \in s.bits

bitMapSet_isEmpty(s) == s.bits = {}

bitMapSet_addAll(s, o) ==
  LET common == Capacity(Smaller(s.size, o.size))
  IN  [s EXCEPT !.bits = @ \cup {b \in o.bits : b < common}]

(* s := s \cup (o \ e); bytes that e does not have exclude nothing. *)
bitMapSet_addAllWithExclusion(s, o, e) ==
  LET minSize  == Smaller(s.size, o.size)
      exclSize == Smaller(minSize, e.size)
  IN  [s EXCEPT !.bits = @ \cup
         {b \in o.bits : /\ b < Capacity(minSize)
                         /\ b \in e.bits => b >= Capacity(exclSize)}]

(***************************************************************************)
(* The argument of the macro is not parenthesised in its body: the shift   *)
(* applies to the last operand of the conditional expression only, and a   *)
(* first operand smaller than the second is compared over 1 + size bytes,  *)
(* past the end of its array.  ContainsAllInBounds is the case in which    *)
(* every byte that is read belongs to both arrays.                         *)
(***************************************************************************)
ContainsAllBytes(s, o) ==
  IF s.size < o.size THEN 1 + s.size ELSE SIZE_IN_BYTES(o.size)

ContainsAllInBounds(s, o) ==
  ContainsAllBytes(s, o) <= SIZE_IN_BYTES(Smaller(s.size, o.size))

bitMapSet_containsAll(s, o) ==
  \A b \in o.bits : b < ByteBits * ContainsAllBytes(s, o) => b \in s.bits

(* What the constructor and the element operations keep true of a set. *)
IsBitmaskSet(s) ==
  /\ s = [size |-> s.size, bits |-> s.bits]
  /\ s.size \in Nat
  /\ \A b \in s.bits : b \in Nat /\ b < Capacity(s.size)
===============================================================================
