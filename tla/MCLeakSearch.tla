----------------------------- MODULE MCLeakSearch -----------------------------
(***************************************************************************)
(* Classes, collections and configuration files for the runs of            *)
(* LeakSearch.                                                             *)
(***************************************************************************)
EXTENDS LeakSearch

CONSTANTS cc, k1, k1b, k2, m1, m2, h

(* k1 and k1b have one name, in two class loaders.                          *)
ClassesMC   == {cc, k1, k1b, k2}
nameMC      == (k1 :> <<"K1">>) @@ (k1b :> <<"K1">>) @@ (k2 :> <<"K2">>) @@ (cc :> <<"Class">>)
assignableMC == (k1 :> {1}) @@ (k1b :> {}) @@ (k2 :> {0, 1}) @@ (cc :> {})
ClassMapsMC == {(m1 :> k1) @@ (m2 :> k2) @@ (h :> k1b)}

Line(kind, indent, n, v) == [kind |-> kind, indent |-> indent, name |-> n, value |-> v]
Section(n)      == Line("section", FALSE, n, 0)
Assign(n, v)    == Line("pair", FALSE, n, v)
More(v)         == Line("text", TRUE, <<>>, v)
Indented(line)  == [line EXCEPT !.indent = TRUE]
Junk            == Line("text", FALSE, <<>>, NoNumber)

Classes1 == <<Section("ignore_classes"), Assign(<<"K2">>, NoNumber)>>
Fields1  == <<Section("ignore_referenced_by"), Assign(<<"K1", "f">>, 3), Junk,
              Assign(<<"K2", "f">>, 1), More(2), Assign(<<"K1">>, 1), Assign(<<"K1", "g">>, NoNumber),
              Assign(<<"K1", "g">>, 2)>>
Fields2  == <<Assign(<<"K1", "h">>, 1), More(2), Section("ignore_referenced_by"), More(4),
              Assign(<<"K1", Empty>>, 3), Assign(<<"K1", "f">>, 2), Section("ignore_classes"),
              Assign(<<"Class">>, 0), Assign(<<"K1">>, 0)>>

(* Below a pair an indented pair or section is one more value of it.        *)
Fields3  == <<Indented(Section("ignore_referenced_by")), Indented(Assign(<<"K2", "h">>, 5)),
              Indented(Assign(<<"K2", "g">>, 2)), Indented(Section("ignore_classes")), More(4),
              Assign(<<"K1", "h">>, 6), Assign(NoName, 0), Indented(Assign(<<"K2", "g">>, 7))>>

LinesMC == UNION {ToSet(file) : file \in {Classes1, Fields1, Fields2, Fields3}}
KeysMC  == {<<"K1">>, <<"K2">>, <<"Class">>}
             \cup {line.name : line \in {l \in LinesMC : l.kind = "pair"}}
(* Two of the three names of classes share a bucket.                        *)
hashMC  == [key \in KeysMC |-> IF key = <<"K1">> THEN 5 ELSE IF key = <<"K2">> THEN 7 ELSE 4]

SomeConfigurations == {<<>>, <<Fields3, Classes1, Fields1>>, <<Fields1, Fields2>>}
NoConfiguration    == {<<>>}

AddressSymmetry == Permutations(Addresses)
===============================================================================
