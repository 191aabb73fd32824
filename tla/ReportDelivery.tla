---------------------------- MODULE ReportDelivery ----------------------------
(***************************************************************************)
(* What jleaker promises about its reports, without saying how: the target *)
(* VM writes one report at a time, a report reaches at most one launcher,  *)
(* a launcher gets at most one, and it gets all of it unless the target    *)
(* died before all of it was written.  A launcher that gets none gives up, *)
(* or is stopped by its user.                                              *)
(*                                                                         *)
(* ReportSession is the program; it implements this specification.         *)
(***************************************************************************)
EXTENDS Naturals

CONSTANTS
  Launchers,              (* Each attaches once and asks for one dump.      *)
  None

VARIABLES
  alive,                  (* The target VM runs.                            *)
  fate,                   (* Of the report of each dump: "none" (not begun) *)
                          (* "writing", "whole" or "cut".                   *)
  outcome                 (* Of each launcher: [is, report], where is is    *)
                          (* "pending", "nothing", "whole" or "cut".        *)

vars == <<alive, fate, outcome>>

Pending == [is |-> "pending", report |-> None]
Nothing == [is |-> "nothing", report |-> None]

TypeOK ==
  /\ alive \in BOOLEAN
  /\ fate \in [Launchers -> {"none", "writing", "whole", "cut"}]
  /\ outcome \in [Launchers -> {Pending, Nothing}
                                \cup [is: {"whole", "cut"}, report: Launchers]]

Init ==
  /\ alive = TRUE
  /\ fate = [d \in Launchers |-> "none"]
  /\ outcome = [l \in Launchers |-> Pending]
-----------------------------------------------------------------------------
Begin(d) ==
  /\ alive /\ fate[d] = "none"
  /\ \A o \in Launchers : fate[o] # "writing"
  /\ fate' = [fate EXCEPT ![d] = "writing"]
  /\ UNCHANGED <<alive, outcome>>

Complete(d) ==
  /\ alive /\ fate[d] = "writing"
  /\ fate' = [fate EXCEPT ![d] = "whole"]
  /\ UNCHANGED <<alive, outcome>>

(* The target ends, at any time: what it was writing is cut, and nothing is *)
(* written after that.                                                      *)
Die ==
  /\ alive
  /\ alive' = FALSE
  /\ fate' = [d \in Launchers |-> IF fate[d] = "writing" THEN "cut" ELSE fate[d]]
  /\ UNCHANGED outcome

Receive(l, d) ==
  /\ outcome[l] = Pending
  /\ fate[d] \in {"whole", "cut"}
  /\ \A o \in Launchers : outcome[o].report # d
  /\ outcome' = [outcome EXCEPT ![l] = [is |-> fate[d], report |-> d]]
  /\ UNCHANGED <<alive, fate>>

GiveUp(l) ==
  /\ outcome[l] = Pending
  /\ outcome' = [outcome EXCEPT ![l] = Nothing]
  /\ UNCHANGED <<alive, fate>>

Next ==
  \/ Die
  \/ \E d \in Launchers : Begin(d) \/ Complete(d)
  \/ \E l \in Launchers : GiveUp(l) \/ \E d \in Launchers : Receive(l, d)

Spec == Init /\ [][Next]_vars
===============================================================================
