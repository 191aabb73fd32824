------------------------- MODULE MCReferenceTagging -------------------------
(***************************************************************************)
(* A class K, a class L that is loaded while the walks go on, two leaks p  *)
(* and q, two objects x and y that hold them, z an instance of L.          *)
(***************************************************************************)
EXTENDS ReferenceTagging, TLC

CONSTANTS K, L, p, q, x, y, z, Root, app, dumper

Ref(from, to, kind, info) == [from |-> from, to |-> to, kind |-> kind, info |-> info]

static(to)     == Ref(K, to, "static_field", "s")
field(from,to) == Ref(from, to, "field", to)
local(to)      == Ref(Root, to, "stack_local", app)
global(to)     == Ref(Root, to, "jni_global", "none")

MCClassOf  == [o \in {p, q, x, y, z} |-> IF o = z THEN L ELSE K]
TwoLeaks   == 0 :> p @@ 1 :> q
TwoSizes   == 0 :> 10 @@ 1 :> 20
Rules      == {[class |-> K, field |-> y, threshold |-> 15],
               [class |-> K, field |-> "s", threshold |-> 5]}
NoRules    == {}

Heap(refs, changeable, leaks, fanIn, length) ==
  [refs  |-> refs,
   setup |-> [changeable |-> changeable, numberOfLeaks |-> leaks,
              max_fan_in |-> fanIn, reference_chain_length |-> length]]

(* Common holders, cycles, a leak that holds an earlier one, two roots.     *)
SharedReferences ==
  {static(x), field(x, p), field(x, y), field(y, q), field(y, x), field(q, p),
   global(y), local(p)}
SharedHeaps == {Heap(refs, {}, 2, 2, 4) : refs \in SUBSET SharedReferences}

(* What the application may change while the walks go on.                   *)
ChangingReferences ==
  {static(x), field(x, p), field(y, p), field(x, y), field(y, q),
   Ref(L, x, "class_loader", "none"), field(z, y)}
ChangingHeaps ==
  {Heap(refs, ChangingReferences, 2, 2, 4) : refs \in
     {{field(x, p), field(y, p), field(x, y), field(y, q)},
      {static(x), field(y, p), field(x, y), Ref(L, x, "class_loader", "none")}}}

(* All there can be between one leak and the roots.                         *)
DeepReferences ==
  {static(x), field(x, p), field(y, p), field(x, y), field(y, x), field(q, y), static(q),
   local(y), Ref(Root, x, "jni_local", dumper)}
DeepHeaps == {Heap(refs, {}, 1, 4, 3) : refs \in SUBSET DeepReferences}

AllReferences == SharedReferences \cup ChangingReferences \cup DeepReferences
AllHeaps      == SharedHeaps \cup ChangingHeaps \cup DeepHeaps

(* x holds p, and q through y; a root holds x through z.                    *)
ChainReferences == {global(z), field(z, x), field(x, p), field(x, y), field(y, q)}
ChainHeaps      == {Heap(ChainReferences, {}, 2, 4, 5)}

LateReferences == {Ref(L, x, "class_loader", "none"), field(x, p), field(z, x), static(z)}
LateHeaps      == {Heap(LateReferences, {}, 1, 5, 5)}
===============================================================================
