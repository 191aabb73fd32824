---------------------------- MODULE MCFieldIndex ----------------------------
(***************************************************************************)
(* A class C below B below A, two interfaces I and J; interfaces may be    *)
(* inherited several times, from a class, a superclass or an interface.    *)
(***************************************************************************)
EXTENDS FieldIndex

CONSTANTS A, B, C, I, J, f, g, z

MCSuper == [t \in Types |-> CASE t = C -> B [] t = B -> A [] OTHER -> NoType]

InterfacesOf(a, b, c, j) ==
  [t \in Types |-> CASE t = A -> a [] t = B -> b [] t = C -> c [] t = J -> j [] OTHER -> <<>>]

FieldsOf(a, b, c) ==
  [t \in Types |-> CASE t = A -> a [] t = B -> b [] t = C -> c
                     [] t = I -> <<f, g>> [] OTHER -> <<f>>]

MCHierarchies ==
  {[super |-> MCSuper, interfaces |-> InterfacesOf(a, b, c, j), fields |-> fs] :
     a \in {<<I>>}, b \in {<<>>, <<I>>, <<J, I>>}, c \in {<<>>, <<J>>, <<I, J>>},
     j \in {<<>>, <<I>>},
     fs \in {FieldsOf(<<f>>, <<g>>, <<f, g>>), FieldsOf(<<>>, <<g, f>>, <<g>>)}}
=============================================================================
