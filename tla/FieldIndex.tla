------------------------------ MODULE FieldIndex ------------------------------
(***************************************************************************)
(* Names and indices of fields (jvm_reference.c:57-228).                   *)
(*                                                                         *)
(* JVMTI tells the field a reference comes from by an index that counts    *)
(* the fields of all interfaces the class implements and those of its      *)
(* superclasses.  Configuration rules and reports use names.  The agent    *)
(* turns the name of a rule into an index when it tags the classes, and    *)
(* the index of a recorded reference into a name when it prints it; both   *)
(* walk over the class, its superclasses and their interfaces.             *)
(***************************************************************************)
EXTENDS Integers, SequencesExt

CONSTANTS
  Types,                  (* Classes and interfaces.                        *)
  NoType,                 (* The superclass of an interface or of Object.   *)
  Names,                  (* Names of fields.                               *)
  NoName,                 (* The null pointer.                              *)
  Hierarchies             (* [super, interfaces, fields] of each type, the  *)
                          (* lists in the order that JVMTI returns.         *)

ASSUME ConstantsAssumption ==
  /\ NoType \notin Types /\ NoName \notin Names
  /\ \A h \in Hierarchies : /\ h.super \in [Types -> Types \cup {NoType}]
                            /\ h.interfaces \in [Types -> Seq(Types)]
                            /\ h.fields \in [Types -> Seq(Names)]

VARIABLES
  hierarchy,     (* Never changed.                                          *)
  initialized,   (* Types the application has initialised.                  *)
  rule,          (* A rule of ignore_referenced_by: class, fieldName, field.*)
  taken,         (* The node of its class has it.                           *)
  reference,     (* The last reference met: the class it comes from, the    *)
                 (* type that declares the field, its name and index.       *)
  ignored,       (* It was ignored ...                                      *)
  printed,       (* ... or printed with this name.                          *)
  pc

vars == <<hierarchy, initialized, rule, taken, reference, ignored, printed, pc>>

super(t)      == hierarchy.super[t]
interfaces(t) == hierarchy.interfaces[t]
fields(t)     == hierarchy.fields[t]
-----------------------------------------------------------------------------
(* What JVMTI documents of the index of the i-th field of d in c.           *)

Superclasses(t) ==
  LET up[n \in Nat] ==
        IF n = 0 THEN {t} ELSE up[n - 1] \cup ({super(c) : c \in up[n - 1]} \ {NoType})
  IN  up[Cardinality(Types)]

Interfaces(t) ==
  LET up[n \in Nat] ==
        IF n = 0 THEN UNION {ToSet(interfaces(c)) : c \in Superclasses(t)}
                 ELSE up[n - 1] \cup UNION {ToSet(interfaces(c)) : c \in up[n - 1]}
  IN  up[Cardinality(Types)]

NumberOfFields(S) == MapThenSumSet(LAMBDA t : Len(fields(t)), S)

JvmtiIndex(c, d, i) ==
  NumberOfFields(Interfaces(c)) + NumberOfFields(Superclasses(d) \ {d}) + i - 1
-----------------------------------------------------------------------------
(* The code.  Each function is called with the index so far and the list of *)
(* the interfaces met so far, and returns both.                             *)

RECURSIVE removeImplementedInterfacesFromIndex(_, _),
          getFieldOffsetInternal(_, _, _), getFieldNameByIndexInternal(_, _)

(* Mutant: an interface counts each time it is met.                         *)
removeImplementedInterfacesFromIndex_Again(t, a) ==
  LET remove(b, i) ==
        LET c == removeImplementedInterfacesFromIndex(i, b)
        IN  [c EXCEPT !.idx = @ - Len(fields(i))]
  IN  FoldLeft(remove, a, interfaces(t))

removeImplementedInterfacesFromIndex(t, a) ==
  LET remove(b, i) ==
        IF i \in b.lstIntr THEN b
        ELSE LET c == removeImplementedInterfacesFromIndex(
                        i, [b EXCEPT !.lstIntr = @ \cup {i}])
             IN  [c EXCEPT !.idx = @ - Len(fields(i))]
  IN  FoldLeft(remove, a, interfaces(t))

(* Mutants of getFieldOffsetInternal: what interfaces take away is not      *)
(* given back; fields are looked for from the class up.                     *)
getFieldOffsetInternal_Minus(t, name, a) ==
  LET own   == [removeImplementedInterfacesFromIndex(t, a) EXCEPT !.found = FALSE]
      above == IF super(t) = NoType THEN own ELSE getFieldOffsetInternal(super(t), name, own)
      i     == SelectInSeq(fields(t), LAMBDA f : f = name)
  IN  IF above.found THEN above
      ELSE IF i # 0 THEN [above EXCEPT !.idx = @ + i - 1, !.found = TRUE]
           ELSE [above EXCEPT !.idx = @ + Len(fields(t))]

getFieldOffsetInternal_OwnFirst(t, name, a) ==
  LET less == removeImplementedInterfacesFromIndex(t, [a EXCEPT !.idx = 0])
      own  == [less EXCEPT !.idx = a.idx - less.idx]
      i    == SelectInSeq(fields(t), LAMBDA f : f = name)
  IN  IF i # 0 THEN [own EXCEPT !.idx = @ + i - 1, !.found = TRUE]
      ELSE LET past == [own EXCEPT !.idx = @ + Len(fields(t))]
           IN  IF super(t) = NoType THEN past ELSE getFieldOffsetInternal(super(t), name, past)

getFieldOffsetInternal(t, name, a) ==
  LET less  == removeImplementedInterfacesFromIndex(t, [a EXCEPT !.idx = 0])
      own   == [less EXCEPT !.idx = a.idx - less.idx]
      above == IF super(t) = NoType THEN own ELSE getFieldOffsetInternal(super(t), name, own)
      i     == SelectInSeq(fields(t), LAMBDA f : f = name)
  IN  IF above.found THEN above
      ELSE IF i # 0 THEN [above EXCEPT !.idx = @ + i - 1, !.found = TRUE]
           ELSE [above EXCEPT !.idx = @ + Len(fields(t))]

getFieldOffset(t, name) ==
  LET res == getFieldOffsetInternal(t, name, [idx |-> 0, lstIntr |-> {}, found |-> FALSE])
  IN  IF res.found THEN res.idx ELSE -1

(* A negative index is only alerted of.                                     *)
getFieldNameByIndexInternal(t, a) ==
  LET own   == removeImplementedInterfacesFromIndex(t, a)
      above == IF super(t) = NoType THEN own ELSE getFieldNameByIndexInternal(super(t), own)
  IN  IF above.name # NoName \/ above.idx < 0 THEN above
      ELSE IF above.idx < Len(fields(t))
           THEN [above EXCEPT !.name = fields(t)[above.idx + 1]]
           ELSE [above EXCEPT !.idx = @ - Len(fields(t))]

getFieldNameByIndex(t, index) ==
  getFieldNameByIndexInternal(t, [idx |-> index, lstIntr |-> {}, name |-> NoName]).name
-----------------------------------------------------------------------------
NoReference == [class |-> NoType, declarer |-> NoType, name |-> NoName, index |-> -1]

Init ==
  /\ hierarchy \in Hierarchies
  /\ initialized \in {S \in SUBSET Types : \A t \in S : Superclasses(t) \subseteq S}
  /\ rule \in [class: Types, fieldName: Names, field: {0}]
  /\ taken = FALSE
  /\ reference = NoReference /\ ignored = FALSE /\ printed = NoName
  /\ pc = "tag"

(* The rule of an initialised class goes to the node of the class.          *)
fillClassIgnoreList ==
  /\ pc = "tag"
  /\ IF rule.class \in initialized
     THEN /\ rule' = [rule EXCEPT !.field = getFieldOffset(rule.class, rule.fieldName)]
          /\ taken' = TRUE
     ELSE UNCHANGED <<rule, taken>>
  /\ pc' = "walk"
  /\ UNCHANGED <<hierarchy, initialized, reference, ignored, printed>>

(* The application initialises a class, between the walks: its superclass   *)
(* is initialised before.                                                   *)
Initialize(t) ==
  /\ pc = "walk" /\ t \notin initialized
  /\ super(t) \in initialized \cup {NoType}
  /\ initialized' = initialized \cup {t}
  /\ UNCHANGED <<hierarchy, rule, taken, reference, ignored, printed, pc>>

(* isFieldIgnored, for a leak smaller than the threshold of the rule.       *)
isFieldIgnored(class, index) == taken /\ class = rule.class /\ index = rule.field

(* JVMTI reports a reference from the i-th field of d in an instance of c,  *)
(* or a static field of c itself.                                           *)
Meet(c, d, i) ==
  /\ pc = "walk"
  /\ reference' = [class |-> c, declarer |-> d, name |-> fields(d)[i],
                   index |-> JvmtiIndex(c, d, i)]
  /\ ignored' = isFieldIgnored(c, reference'.index)
  /\ pc' = IF ignored' THEN "done" ELSE "print"
  /\ UNCHANGED <<hierarchy, initialized, rule, taken, printed>>

(* The two cases of printSingleReference that name a field.                 *)
PrintField ==
  /\ pc = "print"
  /\ printed' = getFieldNameByIndex(reference.class, reference.index)
  /\ pc' = "done"
  /\ UNCHANGED <<hierarchy, initialized, rule, taken, reference, ignored>>

Next ==
  \/ fillClassIgnoreList \/ PrintField
  \/ \E t \in Types : Initialize(t)
  \/ \E c \in initialized : \E d \in Superclasses(c) : \E i \in DOMAIN fields(d) : Meet(c, d, i)

Spec == Init /\ [][Next]_vars
-----------------------------------------------------------------------------
(***************************************************************************)
(* "Ignore leaks detected if they are referenced by these fields": the     *)
(* index that a rule got before the walks selects, among all references    *)
(* met later, those of the field with its name in instances of its class,  *)
(* however the interfaces of the class and its superclasses are shared.    *)
(* Of two fields with one name it is the one of the higher superclass.     *)
(***************************************************************************)
RuleSelectsItsField ==
  pc \in {"print", "done"} =>
    (ignored <=> /\ taken /\ reference.class = rule.class /\ reference.name = rule.fieldName
                 /\ \A s \in Superclasses(reference.declarer) \ {reference.declarer} :
                      rule.fieldName \notin ToSet(fields(s)))

(* A reference is printed with the name of the field it comes from, never   *)
(* another one's and never UNKNOWN_FIELD_NAME.                              *)
PrintedNameIsRight == pc = "done" /\ ~ignored => printed = reference.name
===============================================================================
