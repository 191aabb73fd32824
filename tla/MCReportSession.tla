--------------------------- MODULE MCReportSession ----------------------------
(***************************************************************************)
(* Instances of ReportSession: launchers come one after the other or       *)
(* whenever they like.                                                     *)
(***************************************************************************)
EXTENDS ReportSession

BothKinds == BOOLEAN
===============================================================================
