--------------------------- MODULE MCAgentLifecycle ---------------------------
(***************************************************************************)
(* What the launchers of the runs ask for.                                 *)
(***************************************************************************)
EXTENDS AgentLifecycle

Asks(known, readable, n, locals, check) ==
  [known |-> known, readable |-> readable, rules |-> n,
   consider_local_references |-> locals, self_check |-> check]

Plain      == Asks(TRUE, TRUE, 1, FALSE, FALSE)
Locals     == Asks(TRUE, TRUE, 1, TRUE, FALSE)
SelfCheck2 == Asks(TRUE, TRUE, 2, FALSE, TRUE)
BadFile    == Asks(TRUE, FALSE, 1, FALSE, TRUE)
BadOption  == Asks(FALSE, TRUE, 1, TRUE, TRUE)

SomeOptions  == {Locals, SelfCheck2, BadFile, BadOption}
ValidOptions == {Plain, Locals, SelfCheck2}

AnyTime  == [patient |-> FALSE, atomic |-> TRUE]
OneByOne == [patient |-> TRUE, atomic |-> FALSE]

AllSettings     == {AnyTime, OneByOne}
AnyTimeOnly     == {AnyTime}
OneByOneOnly    == {OneByOne}
===============================================================================
