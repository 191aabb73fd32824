------------------------- MODULE AgentLifecycleProofs -------------------------
(***************************************************************************)
(* For any number of attaches, whatever they ask for and whenever they     *)
(* come: with an atomic test-and-set, one dump at a time, and none turned  *)
(* away without cause.  For launchers that wait for the dump before: maps  *)
(* exist while they are used, every dump has its own rules, and the        *)
(* allocator's balance is off exactly when something is kept for good.     *)
(***************************************************************************)
EXTENDS AgentLifecycle, TLAPS

(* The builds with an atomic test-and-set: all but the one for Windows.     *)
AtomicBuild == \A s \in Settings : s.atomic

(* What the invariant needs to know about types: those of the variables it  *)
(* speaks of.                                                               *)
FlagTypes ==
  /\ setting \in Settings
  /\ apc  \in [Attaches -> {"waiting", "initAgent", "reset", "options", "load", "put",
                            "failed", "started"}]
  /\ dpc  \in [Attaches -> {"none", "testAndSet", "set", "decide", "refused", "init",
                            "search", "tag", "print", "delete", "null", "check",
                            "selfCheck", "finish", "done"}]
  /\ busy \in [Attaches -> BOOLEAN]
  /\ dumpInProgress \in BOOLEAN

FlagTypedInv == FlagTypes /\ FlagInv

(* With no dumper, none holds the flag.                                     *)
LEMMA FlagInit == Init => FlagTypedInv
BY DEF Init, FlagTypedInv, FlagTypes, FlagInv, HoldsFlag, Dumping, Prepared

(* An attach, up to the start of its dumper, leaves the dumpers alone.      *)
LEMMA FlagParse ==
  ASSUME FlagTypedInv, NEW i \in Attaches, Attach(i) \/ Parse(i)
  PROVE  FlagTypedInv'
<1>1. CASE startDumperThread(i)
  <2>1. dpc[i] = "none"
    BY <1>1 DEF startDumperThread, FlagTypedInv, FlagInv
  <2>2. \A j \in Attaches : HoldsFlag(j)' <=> HoldsFlag(j)
    BY <1>1, <2>1 DEF startDumperThread, FlagTypedInv, FlagTypes, HoldsFlag, Dumping, Prepared
  <2>. QED
    BY <1>1, <2>1, <2>2 DEF startDumperThread, attachTo, FlagTypedInv, FlagTypes, FlagInv, Prepared
<1>2. CASE ~startDumperThread(i)
  <2>1. UNCHANGED <<setting, dpc, busy, dumpInProgress, thread_id>>
    BY <1>2 DEF Attach, Parse, InitAgent, ResetOptions, ParseOptions, ReadRule, PutRule,
                FailParse, dumpVars
  <2>2. /\ apc[i] # "started" /\ dpc[i] = "none"
        /\ \E pc \in {"initAgent", "reset", "options", "load", "put", "failed"} : attachTo(i, pc)
    BY <1>2 DEF Attach, Parse, InitAgent, ResetOptions, ParseOptions, ReadRule, PutRule,
                FailParse, FlagTypedInv, FlagInv
  <2>3. apc' \in [Attaches -> {"waiting", "initAgent", "reset", "options", "load", "put",
                               "failed", "started"}]
    BY <2>2 DEF attachTo, FlagTypedInv, FlagTypes
  <2>4. \A j \in Attaches : apc'[j] # "started" => dpc[j] = "none"
    BY <2>2 DEF attachTo, FlagTypedInv, FlagTypes, FlagInv
  <2>. QED BY <2>1, <2>3, <2>4 DEF FlagTypedInv, FlagTypes, FlagInv, HoldsFlag
<1>. QED BY <1>1, <1>2

(* A dumper takes a free flag, which then nobody else holds, and gives back *)
(* its own; in between it keeps it and its thread data.                     *)
LEMMA FlagDumper ==
  ASSUME AtomicBuild, FlagTypedInv, NEW i \in Attaches, Dumper(i)
  PROVE  FlagTypedInv'
<1>. USE DEF FlagTypedInv, FlagTypes, FlagInv
<1>0. /\ setting' = setting /\ setting.atomic
      /\ apc' = apc /\ dpc[i] # "none" /\ apc[i] = "started"
      /\ \A j \in Attaches \ {i} : dpc'[j] = dpc[j] /\ busy'[j] = busy[j]
  BY DEF AtomicBuild, Dumper, attachVars, Test, Set, Decide, initThreadData, Search, Tag,
         PrintChains, DeleteMaps,
         ClearThreadData, CheckMallocs, SelfCheck, Finish, dumpTo
<1>1. \A j \in Attaches \ {i} : HoldsFlag(j)' <=> HoldsFlag(j)
  BY <1>0 DEF HoldsFlag
<1>2. CASE Test(i)
  <2>1. /\ dumpInProgress' = TRUE /\ dpc'[i] = "decide" /\ busy'[i] = dumpInProgress
        /\ dpc[i] = "testAndSet" /\ thread_id' = thread_id
    BY <1>0, <1>2 DEF Test, dumpTo
  <2>2. ~HoldsFlag(i) /\ (HoldsFlag(i)' <=> ~dumpInProgress)
    BY <2>1 DEF HoldsFlag, Dumping, Prepared
  <2>3. FlagTypes'
    BY <1>0, <1>2 DEF Test, dumpTo
  <2>. QED BY <1>0, <1>1, <2>1, <2>2, <2>3 DEF Prepared
<1>3. CASE Finish(i)
  <2>1. ~HoldsFlag(i)' /\ HoldsFlag(i) /\ dpc'[i] = "done"
    BY <1>3 DEF Finish, dumpTo, HoldsFlag, Dumping, Prepared
  <2>2. FlagTypes'
    BY <1>0, <1>3 DEF Finish, dumpTo
  <2>. QED BY <1>0, <1>1, <1>3, <2>1, <2>2 DEF Finish, Prepared
<1>4. CASE \/ Decide(i) \/ initThreadData(i) \/ Search(i) \/ Tag(i) \/ PrintChains(i)
           \/ DeleteMaps(i) \/ ClearThreadData(i) \/ CheckMallocs(i) \/ SelfCheck(i)
  <2>1. busy' = busy /\ dumpInProgress' = dumpInProgress
    BY <1>4 DEF Decide, initThreadData, Search, Tag, PrintChains, DeleteMaps, ClearThreadData,
                CheckMallocs, SelfCheck
  <2>2. HoldsFlag(i)' <=> HoldsFlag(i)
    BY <1>4, <2>1 DEF Decide, initThreadData, Search, Tag, PrintChains, DeleteMaps, ClearThreadData,
                CheckMallocs, SelfCheck, dumpTo, HoldsFlag, Dumping, Prepared
  <2>3. FlagTypes'
    BY <1>0, <1>4, <2>1 DEF Decide, initThreadData, Search, Tag, PrintChains, DeleteMaps,
                ClearThreadData, CheckMallocs, SelfCheck, dumpTo
  <2>4. dpc'[i] # "set"
    BY <1>4 DEF Decide, initThreadData, Search, Tag, PrintChains, DeleteMaps, ClearThreadData,
                CheckMallocs, SelfCheck, dumpTo
  <2>5. \A j \in Attaches : dpc'[j] \in Prepared => thread_id' = j
    <3>1. CASE initThreadData(i) \/ ClearThreadData(i)
      BY <1>0, <3>1 DEF initThreadData, ClearThreadData, dumpTo, HoldsFlag, Dumping, Prepared
    <3>2. CASE ~(initThreadData(i) \/ ClearThreadData(i))
      <4>1. thread_id' = thread_id
        BY <1>4, <3>2 DEF Decide, Search, Tag, PrintChains, DeleteMaps, CheckMallocs, SelfCheck
      <4>2. dpc'[i] \in Prepared => dpc[i] \in Prepared
        BY <1>4, <3>2 DEF Decide, Search, Tag, PrintChains, DeleteMaps, CheckMallocs, SelfCheck,
                          dumpTo, Prepared
      <4>. QED BY <1>0, <4>1, <4>2
    <3>. QED BY <3>1, <3>2
  <2>. QED BY <1>0, <1>1, <2>1, <2>2, <2>3, <2>4, <2>5
<1>5. ~Set(i)
  BY DEF Set
<1>. QED BY <1>2, <1>3, <1>4, <1>5 DEF Dumper

LEMMA FlagInductive ==
  ASSUME AtomicBuild
  PROVE  FlagTypedInv /\ [Next]_vars => FlagTypedInv'
<1>1. ASSUME FlagTypedInv, Next PROVE FlagTypedInv'
  BY <1>1, FlagParse, FlagDumper DEF Next
<1>2. ASSUME FlagTypedInv, UNCHANGED vars PROVE FlagTypedInv'
  BY <1>2 DEF vars, attachVars, dumpVars, FlagTypedInv, FlagTypes, FlagInv, HoldsFlag
<1>. QED BY <1>1, <1>2

LEMMA FlagCorrect ==
  ASSUME AtomicBuild
  PROVE  Spec => []FlagTypedInv
BY FlagInit, FlagInductive, PTL DEF Spec

(***************************************************************************)
(* dumpInProgress does what it is for, in the builds with an atomic        *)
(* test-and-set: one dumper at a time, with the thread data as its own.    *)
(***************************************************************************)
THEOREM DumpsExcludeEachOther ==
  ASSUME AtomicBuild
  PROVE  Spec => []OneDumpAtATime
<1>1. FlagTypedInv => OneDumpAtATime
  BY DEF FlagTypedInv, FlagInv, OneDumpAtATime, HoldsFlag
<1>. QED BY <1>1, FlagCorrect, PTL

(***************************************************************************)
(* A dumper is turned away only while another one holds the flag.          *)
(***************************************************************************)
THEOREM RefusalsAreJustified ==
  ASSUME AtomicBuild
  PROVE  Spec => RefusedOnlyDuringADump
<1>. DEFINE Justified ==
       \A i \in Attaches :
         dpc[i] = "testAndSet" /\ dpc'[i] # "testAndSet" /\ busy'[i] =>
           \E j \in Attaches \ {i} : HoldsFlag(j)
<1>1. FlagTypedInv /\ Next => Justified
  <2>1. SUFFICES ASSUME FlagTypedInv, Next, NEW i \in Attaches,
                        dpc[i] = "testAndSet", dpc'[i] # "testAndSet", busy'[i]
                 PROVE  \E j \in Attaches \ {i} : HoldsFlag(j)
    OBVIOUS
  <2>2. Test(i)
    <3>1. PICK k \in Attaches : Attach(k) \/ Parse(k) \/ Dumper(k)
      BY <2>1 DEF Next
    <3>2. CASE Attach(k) \/ (Parse(k) /\ ~startDumperThread(k))
      BY <2>1, <3>2 DEF Attach, Parse, InitAgent, ResetOptions, ParseOptions, ReadRule,
                        PutRule, FailParse, dumpVars
    <3>3. CASE startDumperThread(k)
      BY <2>1, <3>3 DEF startDumperThread, FlagTypedInv, FlagTypes
    <3>4. CASE Dumper(k)
      BY <2>1, <3>4 DEF Dumper, Test, Set, Decide, initThreadData, Search, Tag, PrintChains,
           DeleteMaps, ClearThreadData, CheckMallocs, SelfCheck, Finish, dumpTo,
           FlagTypedInv, FlagTypes
    <3>. QED BY <3>1, <3>2, <3>3, <3>4
  <2>3. busy'[i] = dumpInProgress
    BY <2>1, <2>2 DEF Test, FlagTypedInv, FlagTypes
  <2>4. \E j \in Attaches : HoldsFlag(j)
    BY <2>1, <2>3 DEF FlagTypedInv, FlagInv
  <2>5. ~HoldsFlag(i)
    BY <2>1 DEF HoldsFlag, Dumping, Prepared
  <2>. QED BY <2>4, <2>5
<1>2. FlagTypedInv /\ [Next]_vars => [Justified]_vars
  BY <1>1
<1>. QED BY <1>2, FlagCorrect, PTL DEF Spec, RefusedOnlyDuringADump
-----------------------------------------------------------------------------
(***************************************************************************)
(* Launchers that wait.  One thread is at work at a time: the attach       *)
(* thread, for the last launcher that came, or the dumper it started.      *)
(***************************************************************************)
ReadTypes ==
  /\ setting \in Settings
  /\ asked \in [Attaches -> Options]
  /\ apc  \in [Attaches -> {"waiting", "initAgent", "reset", "options", "load", "put",
                            "failed", "started"}]
  /\ dpc  \in [Attaches -> {"none", "testAndSet", "set", "decide", "refused", "init",
                            "search", "tag", "print", "delete", "null", "check",
                            "selfCheck", "finish", "done"}]
  /\ map \in [Attaches -> {"none", "live", "deleted"}] /\ rules \in [Attaches -> Int]
  /\ ignore \in {0} \cup Attaches /\ loaded \in Nat
  /\ consider_local_references \in BOOLEAN /\ self_check \in BOOLEAN

Idle == {"none", "refused", "done"}

TurnsTaken ==
  /\ \A i, j \in Attaches : j < i /\ apc[i] # "waiting" => apc[j] \in {"failed", "started"}
  /\ \A i \in Attaches : apc[i] # "started" => dpc[i] = "none"
  /\ \A i \in Attaches : apc[i] \notin {"waiting", "failed", "started"} =>
                           \A j \in Attaches : dpc[j] \in Idle
  /\ \A i, j \in Attaches : j > i /\ dpc[i] \notin Idle => apc[j] = "waiting"

(* gdata points to the map of the attach that read its options last, unless *)
(* that map was deleted since, and to no rules but that attach's.           *)
MapsFollowTurns ==
  /\ (\A i \in Attaches : dpc[i] # "null") => ignore = 0 \/ map[ignore] = "live"
  /\ \A i \in Attaches : apc[i] \in {"waiting", "initAgent", "reset"} => rules[i] = 0
  /\ \A i \in Attaches :
       apc[i] \in {"options", "load", "put"} =>
         ignore = i /\ rules[i] = loaded /\ loaded <= asked[i].rules
  /\ \A i \in Attaches : apc[i] = "put" => holds = i /\ loaded < asked[i].rules
  /\ \A i \in Attaches :
       apc[i] \in {"load", "put"} => options = i /\ self_check = asked[i].self_check
  /\ \A i \in Attaches :
       dpc[i] \in {"testAndSet", "set", "decide", "init", "search", "tag"} =>
         /\ options = i /\ self_check = asked[i].self_check
         /\ ignore = i /\ rules[i] = asked[i].rules
  /\ consider_local_references <=>
       \E j \in Attaches : /\ apc[j] \notin {"waiting", "initAgent", "reset", "options"}
                           /\ asked[j].consider_local_references

PatientInv == setting.patient => ReadTypes /\ TurnsTaken /\ MapsFollowTurns

LEMMA PatientInit == Init => PatientInv
<1>. SUFFICES ASSUME Init PROVE PatientInv
  OBVIOUS
<1>1. ReadTypes
  <2>1. /\ setting \in Settings /\ asked \in [Attaches -> Options]
        /\ apc = [i \in Attaches |-> "waiting"] /\ dpc = [i \in Attaches |-> "none"]
        /\ map = [i \in Attaches |-> "none"] /\ rules = [i \in Attaches |-> 0]
        /\ ignore = 0 /\ loaded = 0
    BY DEF Init
  <2>2. consider_local_references \in BOOLEAN /\ self_check \in BOOLEAN
    BY DEF Init
  <2>. QED BY <2>1, <2>2 DEF ReadTypes
<1>2. \A i \in Attaches : apc[i] = "waiting" /\ dpc[i] = "none" /\ rules[i] = 0
  BY DEF Init
<1>3. TurnsTaken
  BY <1>2 DEF TurnsTaken, Idle
<1>4. MapsFollowTurns
  BY <1>2 DEF Init, MapsFollowTurns
<1>. QED BY <1>1, <1>3, <1>4 DEF PatientInv

LEMMA OptionTypes ==
  ASSUME ReadTypes, NEW i \in Attaches
  PROVE  /\ asked[i].rules \in Nat /\ asked[i].self_check \in BOOLEAN
         /\ asked[i].consider_local_references \in BOOLEAN
         /\ i \in Nat \ {0}
BY ConstantsAssumption DEF ReadTypes, Attaches

(* A step of the attach thread, at its turn.                                *)
LEMMA PatientAttach ==
  ASSUME PatientInv, setting.patient, NEW i \in Attaches, Attach(i) \/ Parse(i)
  PROVE  PatientInv'
<1>. USE OptionTypes DEF PatientInv, ReadTypes, TurnsTaken, MapsFollowTurns, attachTo, Idle,
                         gdataVars, mapVars, dumpVars, Attaches
<1>1. CASE Attach(i)
  BY <1>1 DEF Attach
<1>2. CASE InitAgent(i)
  BY <1>2 DEF InitAgent
<1>3. CASE ResetOptions(i)
  <2>1. ReadTypes' /\ TurnsTaken'
    <3>1. ReadTypes'
      BY <1>3 DEF ResetOptions
    <3>2. /\ apc[i] = "reset" /\ dpc' = dpc
          /\ \A j \in Attaches : apc'[j] = IF j = i THEN "options" ELSE apc[j]
      BY <1>3 DEF ResetOptions
    <3>3. TurnsTaken'
      BY <3>2
    <3>. QED BY <3>1, <3>3
  <2>2. rules[i] = 0 /\ map'[i] = "live" /\ ignore' = i /\ loaded' = 0 /\ rules' = rules
    BY <1>3 DEF ResetOptions
  <2>3. \A j \in Attaches : j # i => apc[j] \in {"waiting", "failed", "started"}
    BY <1>3 DEF ResetOptions
  <2>4. /\ \A j \in Attaches : dpc[j] \in Idle
        /\ UNCHANGED <<setting, asked, dpc, consider_local_references>>
        /\ \A j \in Attaches : apc'[j] = IF j = i THEN "options" ELSE apc[j]
    BY <1>3 DEF ResetOptions
  <2>5. MapsFollowTurns'
    BY <1>3, <2>2, <2>3, <2>4 DEF ResetOptions
  <2>. QED BY <2>1, <2>4, <2>5
<1>4. CASE ParseOptions(i)
  BY <1>4 DEF ParseOptions
<1>5. CASE ReadRule(i)
  BY <1>5 DEF ReadRule
<1>6. CASE PutRule(i)
  <2>1. /\ apc[i] = "put" /\ holds = i /\ ignore = i /\ map[i] = "live"
        /\ rules[i] = loaded /\ loaded < asked[i].rules
        /\ \A j \in Attaches : j # i => apc[j] \notin {"options", "load", "put"}
        /\ \A j \in Attaches : dpc[j] \in Idle
    BY <1>6 DEF PutRule
  <2>2. /\ \A j \in Attaches : rules'[j] = IF j = i THEN loaded + 1 ELSE rules[j]
        /\ rules' \in [Attaches -> Int] /\ loaded' = loaded + 1 /\ loaded' \in Nat
    BY <1>6, <2>1 DEF PutRule
  <2>3. /\ \A j \in Attaches : apc'[j] = IF j = i THEN "load" ELSE apc[j]
        /\ UNCHANGED <<setting, asked, dpc, options, consider_local_references, self_check,
                       ignore, map>>
    BY <1>6 DEF PutRule
  <2>4. ReadTypes'
    BY <1>6, <2>2, <2>3 DEF PutRule
  <2>5. TurnsTaken'
    BY <2>1, <2>3
  <2>6. MapsFollowTurns'
    BY <2>1, <2>2, <2>3
  <2>. QED BY <2>3, <2>4, <2>5, <2>6
<1>7. CASE FailParse(i)
  BY <1>7 DEF FailParse
<1>8. CASE startDumperThread(i)
  BY <1>8 DEF startDumperThread
<1>. QED BY <1>1, <1>2, <1>3, <1>4, <1>5, <1>6, <1>7, <1>8 DEF Parse

(* A step of a dumper, at its turn.                                         *)
LEMMA PatientDumper ==
  ASSUME PatientInv, setting.patient, NEW i \in Attaches, Dumper(i)
  PROVE  PatientInv'
<1>. USE OptionTypes DEF PatientInv, ReadTypes, TurnsTaken, MapsFollowTurns, Idle,
                         attachVars, gdataVars, mapVars
<1>0. /\ dpc[i] \notin Idle /\ apc[i] = "started"
      /\ \A j \in Attaches \ {i} : dpc[j] \in Idle /\ apc[j] \in {"waiting", "failed", "started"}
  BY DEF Dumper, Test, Set, Decide, initThreadData, Search, Tag, PrintChains, DeleteMaps,
         ClearThreadData, CheckMallocs, SelfCheck, Finish, Attaches
<1>1. UNCHANGED attachVars
  BY DEF Dumper, Test, Set, Decide, initThreadData, Search, Tag, PrintChains, DeleteMaps,
         ClearThreadData, CheckMallocs, SelfCheck, Finish
<1>2. CASE Test(i)
  BY <1>0, <1>1, <1>2 DEF Test, dumpTo
<1>3. CASE Set(i)
  BY <1>0, <1>1, <1>3 DEF Set, dumpTo
<1>4. CASE Decide(i)
  BY <1>0, <1>1, <1>4 DEF Decide, dumpTo
<1>5. CASE initThreadData(i)
  BY <1>0, <1>1, <1>5 DEF initThreadData, dumpTo
<1>6. CASE Search(i)
  BY <1>0, <1>1, <1>6 DEF Search, dumpTo
<1>7. CASE Tag(i)
  BY <1>0, <1>1, <1>7 DEF Tag, dumpTo
<1>8. CASE PrintChains(i)
  BY <1>0, <1>1, <1>8 DEF PrintChains, dumpTo
<1>9. CASE DeleteMaps(i)
  BY <1>0, <1>1, <1>9 DEF DeleteMaps, dumpTo
<1>10. CASE ClearThreadData(i)
  BY <1>0, <1>1, <1>10 DEF ClearThreadData, dumpTo
<1>11. CASE CheckMallocs(i)
  BY <1>0, <1>1, <1>11 DEF CheckMallocs, dumpTo
<1>12. CASE SelfCheck(i)
  BY <1>0, <1>1, <1>12 DEF SelfCheck, dumpTo
<1>13. CASE Finish(i)
  BY <1>0, <1>1, <1>13 DEF Finish, dumpTo
<1>. QED BY <1>2, <1>3, <1>4, <1>5, <1>6, <1>7, <1>8, <1>9, <1>10, <1>11, <1>12, <1>13 DEF Dumper

LEMMA PatientInductive == PatientInv /\ [Next]_vars => PatientInv'
<1>1. ASSUME PatientInv, UNCHANGED vars PROVE PatientInv'
  BY <1>1 DEF vars, attachVars, gdataVars, mapVars, dumpVars, PatientInv, ReadTypes, TurnsTaken,
              MapsFollowTurns
<1>2. ASSUME Next PROVE setting' = setting
  BY <1>2 DEF Next, Attach, Parse, InitAgent, ResetOptions, ParseOptions, ReadRule, PutRule,
              FailParse, startDumperThread, Dumper, Test, Set, Decide, initThreadData, Search, Tag,
              PrintChains, DeleteMaps, ClearThreadData, CheckMallocs, SelfCheck, Finish, attachVars
<1>3. ASSUME PatientInv, Next, setting.patient PROVE PatientInv'
  BY <1>3, PatientAttach, PatientDumper DEF Next
<1>4. ASSUME PatientInv, Next, ~setting.patient PROVE PatientInv'
  BY <1>2, <1>4 DEF PatientInv
<1>. QED BY <1>1, <1>3, <1>4

LEMMA PatientCorrect == Spec => []PatientInv
BY PatientInit, PatientInductive, PTL DEF Spec

(***************************************************************************)
(* Where launchers wait, gdata never points to rule maps that              *)
(* releaseThreadData deleted, but for the step between deleting them and   *)
(* clearing the pointers, and rules are added to maps that exist.          *)
(***************************************************************************)
THEOREM MapsStayLive == Spec => []MapsAreLive
<1>1. PatientInv => MapsAreLive
  <2>1. SUFFICES ASSUME PatientInv, setting.patient PROVE MapsAreLive
    BY DEF MapsAreLive
  <2>2. ReadTypes /\ TurnsTaken /\ MapsFollowTurns
    BY <2>1 DEF PatientInv
  <2>3. ASSUME NEW i \in Attaches, apc[i] = "put" PROVE map[holds] = "live"
    <3>1. \A j \in Attaches : dpc[j] # "null"
      BY <2>2, <2>3 DEF TurnsTaken, Idle
    <3>2. holds = i /\ ignore = i /\ i # 0
      BY <2>2, <2>3, OptionTypes DEF MapsFollowTurns
    <3>. QED BY <2>2, <3>1, <3>2 DEF MapsFollowTurns
  <2>. QED BY <2>2, <2>3 DEF MapsFollowTurns, MapsAreLive
<1>. QED BY <1>1, PatientCorrect, PTL

(***************************************************************************)
(* Where launchers wait, a dump searches and tags with the options and all *)
(* of the rules of its own launcher; local references count if any         *)
(* launcher so far asked for them.                                         *)
(***************************************************************************)
THEOREM RulesAreInForce == Spec => []RulesInForce
<1>1. PatientInv => RulesInForce
  <2>1. SUFFICES ASSUME PatientInv, setting.patient, NEW i \in Attaches,
                        dpc[i] \in {"search", "tag"}
                 PROVE  /\ options = i /\ self_check = asked[i].self_check
                        /\ ignore = i /\ rules[i] = asked[i].rules
                        /\ consider_local_references <=>
                             \E j \in 1 .. i : asked[j].consider_local_references
    BY DEF RulesInForce
  <2>2. ReadTypes /\ TurnsTaken /\ MapsFollowTurns
    BY <2>1 DEF PatientInv
  <2>3. i \in Nat /\ 1 .. i \subseteq Attaches /\ \A j \in Attaches : j \in Nat
    BY ConstantsAssumption DEF Attaches
  <2>4. /\ \A j \in 1 .. i : apc[j] \in {"failed", "started"}
        /\ \A j \in Attaches \ (1 .. i) : apc[j] = "waiting"
    <3>1. apc[i] = "started"
      BY <2>1, <2>2 DEF TurnsTaken
    <3>2. \A j \in 1 .. i : j = i \/ j < i
      BY <2>3
    <3>3. \A j \in Attaches \ (1 .. i) : j > i
      BY <2>3 DEF Attaches
    <3>. QED BY <2>1, <2>2, <2>3, <3>1, <3>2, <3>3 DEF TurnsTaken, Idle
  <2>. QED BY <2>1, <2>2, <2>3, <2>4 DEF MapsFollowTurns
<1>. QED BY <1>1, PatientCorrect, PTL
-----------------------------------------------------------------------------
(***************************************************************************)
(* The balance of the allocator, where launchers wait.  What is allocated  *)
(* and owned by somebody is freed by a dump; the rest is kept for good, in *)
(* the map of an attach that failed or as the text of a JNI local.         *)
(***************************************************************************)
OwnedNow == (IF ignore = 0 THEN 0 ELSE rules[ignore])
            + (IF \E i \in Attaches : apc[i] = "put" THEN 1 ELSE 0)
            + taken + (IF thread_id = 0 THEN 0 ELSE 1)

FailedWithRules(j) == apc[j] = "failed" /\ asked[j].known /\ asked[j].rules > 0

SomethingKept == \/ \E j \in Attaches : FailedWithRules(j) /\ ignore # j
                 \/ \E j \in Attaches : lost[j] > 0

KeptUpTo(i) == \/ \E j \in 1 .. (i - 1) : FailedWithRules(j)
               \/ \E j \in 1 .. i : lost[j] > 0

BalanceTypes ==
  /\ unfreed \in Int /\ taken \in Nat
  /\ rules \in [Attaches -> Nat] /\ lost \in [Attaches -> Nat]
  /\ busy \in [Attaches -> BOOLEAN] /\ alarm \in [Attaches -> BOOLEAN]
  /\ thread_id \in {0} \cup Attaches /\ dumpInProgress \in BOOLEAN

(* The flag never turns a dumper of theirs away, on any build.              *)
NoneRefused ==
  /\ \A i \in Attaches : dpc[i] # "refused" /\ (dpc[i] \in {"set", "decide"} => ~busy[i])
  /\ (\A i \in Attaches : dpc[i] \in {"none", "testAndSet", "set", "done"}) => ~dumpInProgress

(* Whose the map is that gdata points to.                                   *)
MapHasAnOwner ==
  /\ ignore # 0 => apc[ignore] \in {"options", "load", "put", "failed", "started"}
  /\ \A i \in Attaches :
       /\ apc[i] = "options" => rules[i] = 0
       /\ apc[i] \in {"load", "put"} => asked[i].known
       /\ apc[i] = "failed" /\ ignore = i => rules[i] = IF asked[i].known THEN asked[i].rules ELSE 0
       /\ apc[i] = "started" /\ ignore = i =>
            dpc[i] \notin {"none", "check", "selfCheck", "finish", "done"}
       /\ dpc[i] \in {"print", "delete", "null"} => ignore = i
       /\ dpc[i] = "null" => rules[i] = 0
       /\ dpc[i] \in {"check", "selfCheck", "finish"} => ignore = 0

(* When something else is owned, and when a text may have been lost.        *)
OwnedInTurn ==
  /\ \A i \in Attaches : apc[i] \notin {"waiting", "initAgent"} => vmStarted
  /\ ~vmStarted => unfreed = 0
  /\ thread_id = 0 <=> \A i \in Attaches : dpc[i] \notin Prepared
  /\ taken # 0 => \E i \in Attaches : dpc[i] = "print"
  /\ \A i \in Attaches :
       dpc[i] \in {"none", "testAndSet", "set", "decide", "init", "search", "tag", "print"}
         => lost[i] = 0

Balanced == unfreed >= OwnedNow /\ (unfreed = OwnedNow <=> ~SomethingKept)

AlarmsAreRight ==
  \A i \in Attaches : dpc[i] \in {"selfCheck", "finish", "done"} => (alarm[i] <=> KeptUpTo(i))

BalanceInv ==
  /\ PatientInv
  /\ setting.patient => /\ BalanceTypes /\ NoneRefused /\ MapHasAnOwner /\ OwnedInTurn
                        /\ Balanced /\ AlarmsAreRight

LEMMA BalanceInit == Init => BalanceInv
<1>. SUFFICES ASSUME Init, setting.patient PROVE BalanceInv
  BY PatientInit DEF BalanceInv
<1>1. \A i \in Attaches : /\ apc[i] = "waiting" /\ dpc[i] = "none" /\ rules[i] = 0
                          /\ lost[i] = 0
  BY DEF Init
<1>2. NoneRefused /\ MapHasAnOwner /\ OwnedInTurn
  BY <1>1 DEF Init, NoneRefused, MapHasAnOwner, OwnedInTurn, Prepared
<1>3. OwnedNow = 0 /\ unfreed = 0 /\ ~SomethingKept
  BY <1>1 DEF Init, OwnedNow, SomethingKept, FailedWithRules
<1>4. dumpInProgress \in BOOLEAN
  BY DEF Init
<1>5. BalanceTypes
  BY <1>4 DEF Init, BalanceTypes
<1>. QED BY <1>1, <1>2, <1>3, <1>5, PatientInit DEF BalanceInv, Balanced, AlarmsAreRight

(* What the invariant says where launchers wait.                            *)
BalanceParts == /\ ReadTypes /\ TurnsTaken /\ MapsFollowTurns /\ BalanceTypes /\ NoneRefused
                /\ MapHasAnOwner /\ OwnedInTurn /\ Balanced /\ AlarmsAreRight

LEMMA BalanceTyped ==
  ASSUME BalanceInv, setting.patient
  PROVE  /\ BalanceParts
         /\ \A j \in Attaches : /\ asked[j].rules \in Nat /\ asked[j].known \in BOOLEAN
                                /\ j \in Nat \ {0}
<1>1. ReadTypes
  BY DEF BalanceInv, PatientInv
<1>2. \A j \in Attaches : asked[j].rules \in Nat /\ asked[j].known \in BOOLEAN /\ j \in Nat \ {0}
  BY <1>1, ConstantsAssumption DEF ReadTypes, Attaches
<1>. QED BY <1>2 DEF BalanceInv, PatientInv, BalanceParts

AttachTurn(i) ==
  /\ apc[i] \notin {"failed", "started"} /\ dpc[i] = "none"
  /\ \A j \in Attaches : dpc[j] \in Idle
  /\ \A j \in Attaches \ {i} : apc[j] \in {"waiting", "failed", "started"}

DumperTurn(i) ==
  /\ dpc[i] \notin Idle /\ apc[i] = "started"
  /\ \A j \in Attaches \ {i} : /\ dpc[j] \in {"none", "done"}
                               /\ apc[j] \in {"waiting", "failed", "started"}
                               /\ j > i => apc[j] = "waiting" /\ dpc[j] = "none"

LEMMA AttachTurns ==
  ASSUME BalanceInv, setting.patient, NEW i \in Attaches, Attach(i) \/ Parse(i)
  PROVE  AttachTurn(i)
<1>. USE BalanceTyped DEF BalanceParts, TurnsTaken, AttachTurn, Attaches
<1>1. CASE Attach(i)
  BY <1>1 DEF Attach, Idle
<1>2. CASE Parse(i)
  BY <1>2 DEF Parse, InitAgent, ResetOptions, ParseOptions, ReadRule, PutRule, FailParse,
              startDumperThread
<1>. QED BY <1>1, <1>2

LEMMA DumperTurns ==
  ASSUME BalanceInv, setting.patient, NEW i \in Attaches, Dumper(i)
  PROVE  DumperTurn(i)
<1>1. /\ dpc[i] \notin Idle /\ apc[i] = "started"
      /\ \A j \in Attaches \ {i} : dpc[j] \in Idle /\ apc[j] \in {"waiting", "failed", "started"}
  BY BalanceTyped
     DEF BalanceParts, TurnsTaken, Dumper, Test, Set, Decide, initThreadData, Search, Tag,
         PrintChains, DeleteMaps, ClearThreadData, CheckMallocs, SelfCheck, Finish, Idle, Attaches
<1>2. \A j \in Attaches : j > i => apc[j] = "waiting" /\ dpc[j] = "none"
  BY <1>1, BalanceTyped DEF BalanceParts, TurnsTaken
<1>. QED BY <1>1, <1>2, BalanceTyped DEF BalanceParts, NoneRefused, Idle, DumperTurn

ControlParts == BalanceTypes /\ NoneRefused /\ MapHasAnOwner /\ OwnedInTurn

LEMMA ControlAttach ==
  ASSUME BalanceInv, setting.patient, NEW i \in Attaches, Attach(i) \/ Parse(i)
  PROVE  ControlParts'
<1>. USE DEF BalanceParts, ReadTypes, MapsFollowTurns, BalanceTypes, NoneRefused, MapHasAnOwner,
             OwnedInTurn, ControlParts, AttachTurn, Idle, Prepared, attachTo, gdataVars, mapVars,
             dumpVars
<1>0. AttachTurn(i) /\ BalanceParts
      /\ \A j \in Attaches : /\ asked[j].rules \in Nat /\ asked[j].known \in BOOLEAN
                             /\ j \in Nat \ {0}
  BY AttachTurns, BalanceTyped
<1>1. CASE Attach(i)
  BY <1>0, <1>1 DEF Attach
<1>2. CASE InitAgent(i)
  BY <1>0, <1>2 DEF InitAgent
<1>3. CASE ResetOptions(i)
  BY <1>0, <1>3 DEF ResetOptions
<1>4. CASE ParseOptions(i)
  BY <1>0, <1>4 DEF ParseOptions
<1>5. CASE ReadRule(i)
  BY <1>0, <1>5 DEF ReadRule
<1>6. CASE PutRule(i)
  BY <1>0, <1>6 DEF PutRule
<1>7. CASE FailParse(i)
  BY <1>0, <1>7 DEF FailParse
<1>8. CASE startDumperThread(i)
  BY <1>0, <1>8 DEF startDumperThread
<1>. QED BY <1>1, <1>2, <1>3, <1>4, <1>5, <1>6, <1>7, <1>8 DEF Parse

LEMMA ControlDumper ==
  ASSUME BalanceInv, setting.patient, NEW i \in Attaches, Dumper(i)
  PROVE  ControlParts'
<1>. USE DEF BalanceParts, ReadTypes, MapsFollowTurns, BalanceTypes, NoneRefused, MapHasAnOwner,
             OwnedInTurn, ControlParts, DumperTurn, Idle, Prepared, dumpTo, attachVars, gdataVars,
             mapVars
<1>0. DumperTurn(i) /\ BalanceParts
      /\ \A j \in Attaches : /\ asked[j].rules \in Nat /\ asked[j].known \in BOOLEAN
                             /\ j \in Nat \ {0}
  BY DumperTurns, BalanceTyped
<1>1. CASE Test(i)
  <2>1. ~dumpInProgress /\ busy' = [busy EXCEPT ![i] = FALSE]
    <3>1. \A j \in Attaches : dpc[j] \in {"none", "testAndSet", "set", "done"}
      BY <1>0, <1>1 DEF Test
    <3>2. dumpInProgress = FALSE
      BY <1>0, <3>1
    <3>. QED BY <1>1, <3>2 DEF Test
  <2>2. \/ dpc' = [dpc EXCEPT ![i] = "decide"]
        \/ dpc' = [dpc EXCEPT ![i] = "set"] /\ dumpInProgress' = dumpInProgress
    BY <1>1 DEF Test
  <2>3. NoneRefused'
    BY <1>0, <2>1, <2>2
  <2>4. BalanceTypes' /\ MapHasAnOwner' /\ OwnedInTurn'
    <3>1. UNCHANGED <<attachVars, gdataVars, mapVars, alarm, taken, lost, thread_id, unfreed>>
          /\ dumpInProgress' \in BOOLEAN
      BY <1>0, <1>1 DEF Test
    <3>2. BalanceTypes'
      BY <1>0, <2>1, <3>1
    <3>3. MapHasAnOwner'
      BY <1>0, <1>1, <2>2, <3>1 DEF Test
    <3>4. OwnedInTurn'
      BY <1>0, <1>1, <2>2, <3>1 DEF Test
    <3>. QED BY <3>2, <3>3, <3>4
  <2>. QED BY <2>3, <2>4
<1>2. CASE Set(i)
  BY <1>0, <1>2 DEF Set
<1>3. CASE Decide(i)
  BY <1>0, <1>3 DEF Decide
<1>4. CASE initThreadData(i)
  BY <1>0, <1>4 DEF initThreadData
<1>5. CASE Search(i)
  BY <1>0, <1>5 DEF Search
<1>6. CASE Tag(i)
  BY <1>0, <1>6 DEF Tag
<1>7. CASE PrintChains(i)
  BY <1>0, <1>7, ConstantsAssumption DEF PrintChains
<1>8. CASE DeleteMaps(i)
  BY <1>0, <1>8 DEF DeleteMaps
<1>9. CASE ClearThreadData(i)
  BY <1>0, <1>9 DEF ClearThreadData
<1>10. CASE CheckMallocs(i)
  BY <1>0, <1>10 DEF CheckMallocs
<1>11. CASE SelfCheck(i)
  BY <1>0, <1>11 DEF SelfCheck
<1>12. CASE Finish(i)
  <2>1. /\ dumpInProgress' = FALSE /\ dpc[i] = "finish"
        /\ \A j \in Attaches : dpc'[j] = IF j = i THEN "done" ELSE dpc[j]
        /\ dpc' \in [Attaches -> {"none", "testAndSet", "set", "decide", "refused", "init",
                                  "search", "tag", "print", "delete", "null", "check",
                                  "selfCheck", "finish", "done"}]
        /\ UNCHANGED <<attachVars, gdataVars, mapVars, busy, alarm, taken, lost, thread_id,
                       unfreed>>
    BY <1>0, <1>12 DEF Finish
  <2>2. BalanceTypes' /\ MapHasAnOwner'
    <3>1. BalanceTypes'
      BY <1>0, <2>1
    <3>2. ignore = 0 /\ UNCHANGED <<ignore, apc, rules, asked>>
      BY <1>0, <2>1
    <3>3. MapHasAnOwner'
      BY <1>0, <2>1, <3>2
    <3>. QED BY <3>1, <3>3
  <2>3. NoneRefused'
    BY <1>0, <2>1
  <2>4. OwnedInTurn'
    BY <1>0, <2>1
  <2>. QED BY <2>2, <2>3, <2>4
<1>. QED BY <1>1, <1>2, <1>3, <1>4, <1>5, <1>6, <1>7, <1>8, <1>9, <1>10, <1>11, <1>12 DEF Dumper

(* Reading a rule allocates it, putting it into the map hands it over; maps *)
(* that gdata points to no more are kept, with what is in them.             *)
LEMMA BalancedAttach ==
  ASSUME BalanceInv, setting.patient, NEW i \in Attaches, Attach(i) \/ Parse(i)
  PROVE  Balanced'
<1>. DEFINE put == \E j \in Attaches : apc[j] = "put"
<1>0. /\ AttachTurn(i) /\ BalanceParts
      /\ \A j \in Attaches : /\ asked[j].rules \in Nat /\ asked[j].known \in BOOLEAN
                             /\ j \in Nat \ {0}
  BY AttachTurns, BalanceTyped
<1>1. put <=> apc[i] = "put"
  BY <1>0 DEF AttachTurn
<1>2. CASE Attach(i) \/ InitAgent(i) \/ ParseOptions(i) \/ FailParse(i) \/ startDumperThread(i)
  <2>1. UNCHANGED <<ignore, rules, taken, thread_id, asked, lost>> /\ unfreed' = unfreed
    BY <1>0, <1>2 DEF Attach, InitAgent, ParseOptions, FailParse, startDumperThread, mapVars,
                      dumpVars, BalanceParts, OwnedInTurn
  <2>2. /\ \A j \in Attaches \ {i} : apc'[j] = apc[j]
        /\ apc[i] # "put" /\ apc'[i] # "put"
        /\ FailedWithRules(i)' => ignore = i
    BY <1>0, <1>2 DEF Attach, InitAgent, ParseOptions, FailParse, startDumperThread, attachTo,
                      BalanceParts, ReadTypes, MapsFollowTurns, FailedWithRules
  <2>3. ~FailedWithRules(i)
    BY <1>0 DEF AttachTurn, FailedWithRules
  <2>4. OwnedNow' = OwnedNow
    BY <2>1, <2>2 DEF OwnedNow
  <2>5. SomethingKept' <=> SomethingKept
    BY <2>1, <2>2, <2>3 DEF SomethingKept, FailedWithRules
  <2>. QED BY <1>0, <2>1, <2>4, <2>5 DEF BalanceParts, Balanced
<1>3. CASE ResetOptions(i)
  <2>1. /\ UNCHANGED <<rules, taken, thread_id, asked, lost, unfreed>> /\ ignore' = i
        /\ rules[i] = 0 /\ apc[i] = "reset" /\ apc'[i] = "options"
        /\ \A j \in Attaches \ {i} : apc'[j] = apc[j]
    BY <1>0, <1>3 DEF ResetOptions, attachTo, dumpVars, BalanceParts, ReadTypes, MapsFollowTurns
  <2>2. ~put /\ ~put'
    BY <1>1, <2>1
  <2>3. ignore # 0 => /\ ignore \in Attaches /\ ignore # i /\ apc[ignore] = "failed"
                      /\ rules[ignore] = IF asked[ignore].known THEN asked[ignore].rules ELSE 0
    BY <1>0, <2>1 DEF BalanceParts, AttachTurn, MapHasAnOwner, ReadTypes, Idle, NoneRefused
  <2>4. OwnedNow' = OwnedNow - (IF ignore = 0 THEN 0 ELSE rules[ignore])
    BY <1>0, <2>1, <2>2, <2>3 DEF OwnedNow, BalanceParts, BalanceTypes
  <2>5. SomethingKept' <=> SomethingKept \/ (ignore # 0 /\ rules[ignore] > 0)
    BY <1>0, <2>1, <2>3 DEF SomethingKept, FailedWithRules
  <2>6. OwnedNow \in Int /\ (ignore # 0 => rules[ignore] \in Nat)
    BY <1>0 DEF OwnedNow, BalanceParts, BalanceTypes, ReadTypes
  <2>. QED BY <1>0, <2>1, <2>4, <2>5, <2>6 DEF BalanceParts, Balanced, BalanceTypes
<1>4. CASE ReadRule(i)
  <2>1. /\ UNCHANGED <<ignore, rules, taken, thread_id, asked, lost>> /\ unfreed' = unfreed + 1
        /\ apc[i] = "load" /\ apc'[i] = "put"
        /\ \A j \in Attaches \ {i} : apc'[j] = apc[j]
    BY <1>0, <1>4 DEF ReadRule, attachTo, mapVars, dumpVars, BalanceParts, ReadTypes
  <2>2. ~put /\ put'
    BY <1>1, <2>1
  <2>3. OwnedNow' = OwnedNow + 1
    BY <1>0, <2>1, <2>2 DEF OwnedNow, BalanceParts, BalanceTypes, ReadTypes
  <2>4. SomethingKept' <=> SomethingKept
    BY <2>1 DEF SomethingKept, FailedWithRules
  <2>5. OwnedNow \in Int
    BY <1>0 DEF OwnedNow, BalanceParts, BalanceTypes, ReadTypes
  <2>. QED BY <1>0, <2>1, <2>3, <2>4, <2>5 DEF BalanceParts, Balanced, BalanceTypes
<1>5. CASE PutRule(i)
  <2>1. /\ UNCHANGED <<ignore, taken, thread_id, asked, lost, unfreed>>
        /\ apc[i] = "put" /\ apc'[i] = "load"
        /\ \A j \in Attaches \ {i} : apc'[j] = apc[j]
    BY <1>0, <1>5 DEF PutRule, attachTo, dumpVars, BalanceParts, ReadTypes
  <2>2. put /\ ~put'
    BY <1>0, <1>1, <2>1 DEF AttachTurn
  <2>3. ignore = i /\ i # 0 /\ rules'[i] = rules[i] + 1
    <3>1. holds = i /\ ignore = i /\ i # 0
      BY <1>0, <2>1 DEF BalanceParts, MapsFollowTurns
    <3>2. map[i] = "live"
      BY <1>0, <3>1 DEF BalanceParts, MapsFollowTurns, AttachTurn, Idle
    <3>. QED BY <1>5, <3>1, <3>2 DEF PutRule
  <2>4. OwnedNow' = OwnedNow
    BY <1>0, <2>1, <2>2, <2>3 DEF OwnedNow, BalanceParts, BalanceTypes
  <2>5. SomethingKept' <=> SomethingKept
    BY <2>1 DEF SomethingKept, FailedWithRules
  <2>. QED BY <1>0, <2>1, <2>4, <2>5 DEF BalanceParts, Balanced
<1>. QED BY <1>2, <1>3, <1>4, <1>5 DEF Parse

(* A dump moves rules from the map to nodes and frees what it owns, but for *)
(* texts.                                                                   *)
LEMMA BalancedDumper ==
  ASSUME BalanceInv, setting.patient, NEW i \in Attaches, Dumper(i)
  PROVE  Balanced'
<1>. DEFINE put == \E j \in Attaches : apc[j] = "put"
<1>0. /\ DumperTurn(i) /\ BalanceParts
      /\ \A j \in Attaches : /\ asked[j].rules \in Nat /\ asked[j].known \in BOOLEAN
                             /\ j \in Nat \ {0}
  BY DumperTurns, BalanceTyped
<1>1. /\ UNCHANGED <<apc, asked>> /\ ~put
      /\ apc[i] = "started"
  BY <1>0 DEF DumperTurn, Dumper, Test, Set, Decide, initThreadData, Search, Tag, PrintChains,
              DeleteMaps, ClearThreadData, CheckMallocs, SelfCheck, Finish, attachVars
<1>2. /\ unfreed \in Int /\ taken \in Nat /\ rules \in [Attaches -> Nat] /\ lost \in [Attaches -> Nat]
      /\ OwnedNow \in Int /\ OwnedNow = (IF ignore = 0 THEN 0 ELSE rules[ignore]) + taken
                                        + (IF thread_id = 0 THEN 0 ELSE 1)
      /\ ignore \in {0} \cup Attaches
  BY <1>0, <1>1 DEF OwnedNow, BalanceParts, BalanceTypes, ReadTypes
<1>3. CASE Test(i) \/ Set(i) \/ Decide(i) \/ Search(i) \/ CheckMallocs(i) \/ SelfCheck(i) \/ Finish(i)
  <2>1. UNCHANGED <<ignore, rules, taken, thread_id, lost, unfreed>>
    BY <1>3 DEF Test, Set, Decide, Search, CheckMallocs, SelfCheck, Finish, mapVars
  <2>2. OwnedNow' = OwnedNow /\ (SomethingKept' <=> SomethingKept)
    BY <1>1, <2>1 DEF OwnedNow, SomethingKept, FailedWithRules
  <2>. QED BY <1>0, <2>1, <2>2 DEF BalanceParts, Balanced
<1>4. CASE initThreadData(i)
  <2>1. UNCHANGED <<ignore, rules, taken, lost>> /\ unfreed' = unfreed + 1 /\ thread_id' = i
    BY <1>4 DEF initThreadData, mapVars
  <2>2. thread_id = 0
    BY <1>0, <1>4 DEF initThreadData, DumperTurn, BalanceParts, OwnedInTurn, Prepared
  <2>3. OwnedNow' = OwnedNow + 1
    BY <1>0, <1>1, <1>2, <2>1, <2>2 DEF OwnedNow
  <2>4. SomethingKept' <=> SomethingKept
    BY <1>1, <2>1 DEF SomethingKept, FailedWithRules
  <2>. QED BY <1>0, <1>2, <2>1, <2>3, <2>4 DEF BalanceParts, Balanced
<1>5. CASE Tag(i)
  <2>1. PICK n \in 0 .. (IF ignore = 0 THEN 0 ELSE rules[ignore]) :
          /\ taken' = n
          /\ rules' = [m \in Attaches |-> IF m = ignore THEN rules[m] - n ELSE rules[m]]
    BY <1>5 DEF Tag
  <2>2. UNCHANGED <<ignore, thread_id, lost, unfreed>> /\ taken = 0
    BY <1>0, <1>5 DEF Tag, BalanceParts, OwnedInTurn, DumperTurn
  <2>3. /\ ignore = 0 => n = 0
        /\ ignore # 0 => rules'[ignore] = rules[ignore] - n
    BY <1>2, <2>1
  <2>4. OwnedNow' = OwnedNow
    BY <1>1, <1>2, <2>1, <2>2, <2>3 DEF OwnedNow
  <2>5. SomethingKept' <=> SomethingKept
    BY <1>1, <2>2 DEF SomethingKept, FailedWithRules
  <2>. QED BY <1>0, <2>2, <2>4, <2>5 DEF BalanceParts, Balanced
<1>6. CASE PrintChains(i)
  <2>1. PICK n \in 0 .. MaxTexts : lost' = [lost EXCEPT ![i] = n] /\ unfreed' = unfreed + n - taken
    BY <1>6 DEF PrintChains
  <2>2. UNCHANGED <<ignore, rules, thread_id>> /\ taken' = 0 /\ lost[i] = 0 /\ n \in Nat
    BY <1>0, <1>6, <2>1, ConstantsAssumption DEF PrintChains, mapVars, BalanceParts, OwnedInTurn
  <2>3. OwnedNow' = OwnedNow - taken
    BY <1>1, <1>2, <2>2 DEF OwnedNow
  <2>4. SomethingKept' <=> SomethingKept \/ n > 0
    BY <1>1, <1>2, <2>1, <2>2 DEF SomethingKept, FailedWithRules
  <2>5. unfreed' = unfreed + n - taken
    BY <2>1
  <2>6. unfreed >= OwnedNow /\ (unfreed = OwnedNow <=> ~SomethingKept)
    BY <1>0 DEF BalanceParts, Balanced
  <2>7. unfreed' >= OwnedNow' /\ (unfreed' = OwnedNow' <=> unfreed = OwnedNow /\ n = 0)
    BY <1>2, <2>2, <2>3, <2>5, <2>6
  <2>. QED BY <2>2, <2>4, <2>6, <2>7 DEF Balanced
<1>7. CASE DeleteMaps(i)
  <2>1. /\ UNCHANGED <<ignore, taken, thread_id, lost>> /\ ignore = i /\ i # 0
        /\ rules' = [rules EXCEPT ![ignore] = 0] /\ unfreed' = unfreed - rules[ignore]
    BY <1>0, <1>7 DEF DeleteMaps, BalanceParts, MapHasAnOwner
  <2>2. OwnedNow' = OwnedNow - rules[ignore]
    BY <1>1, <1>2, <2>1 DEF OwnedNow
  <2>3. SomethingKept' <=> SomethingKept
    BY <1>1, <2>1 DEF SomethingKept, FailedWithRules
  <2>4. rules[ignore] \in Nat
    BY <1>2, <2>1
  <2>. QED BY <1>0, <1>2, <2>1, <2>2, <2>3, <2>4 DEF BalanceParts, Balanced
<1>8. CASE ClearThreadData(i)
  <2>1. /\ UNCHANGED <<rules, taken, lost>> /\ ignore' = 0 /\ thread_id' = 0 /\ unfreed' = unfreed - 1
        /\ ignore = i /\ i # 0 /\ rules[i] = 0
    BY <1>0, <1>8 DEF ClearThreadData, BalanceParts, MapHasAnOwner
  <2>2. thread_id # 0
    BY <1>0, <1>8 DEF ClearThreadData, BalanceParts, OwnedInTurn, Prepared
  <2>3. OwnedNow' = OwnedNow - 1
    BY <1>1, <1>2, <2>1, <2>2 DEF OwnedNow
  <2>4. SomethingKept' <=> SomethingKept
    BY <1>0, <1>1, <2>1 DEF SomethingKept, FailedWithRules
  <2>. QED BY <1>0, <1>2, <2>1, <2>3, <2>4 DEF BalanceParts, Balanced
<1>. QED BY <1>3, <1>4, <1>5, <1>6, <1>7, <1>8 DEF Dumper

(* What a check has found stays what there was to find: attaches before it  *)
(* are over, and later dumps lose texts of their own.                       *)
LEMMA AlarmsStay ==
  ASSUME BalanceInv, setting.patient, NEW i \in Attaches, Attach(i) \/ Parse(i) \/ Dumper(i)
  PROVE  AlarmsAreRight'
<1>0. /\ BalanceParts
      /\ \/ AttachTurn(i) /\ (Attach(i) \/ Parse(i))
         \/ DumperTurn(i) /\ Dumper(i)
      /\ \A j \in Attaches : j \in Nat \ {0}
  <2>1. BalanceParts /\ \A j \in Attaches : j \in Nat \ {0}
    BY BalanceTyped
  <2>2. CASE Attach(i) \/ Parse(i)
    BY <2>1, <2>2, AttachTurns
  <2>3. CASE Dumper(i)
    BY <2>1, <2>3, DumperTurns
  <2>. QED BY <2>2, <2>3
<1>1. ASSUME NEW k \in Attaches PROVE 1 .. k \subseteq Attaches
  BY ConstantsAssumption DEF Attaches
<1>2. ASSUME NEW k \in Attaches, dpc[k] \in {"selfCheck", "finish", "done"},
             dpc'[k] \in {"selfCheck", "finish", "done"}
      PROVE  alarm'[k] <=> KeptUpTo(k)'
  <2>1. apc[k] = "started" /\ \A j \in 1 .. (k - 1) : apc[j] \in {"failed", "started"}
    <3>1. apc[k] = "started"
      BY <1>0, <1>2 DEF BalanceParts, TurnsTaken
    <3>2. \A j \in 1 .. (k - 1) : j \in Attaches /\ j < k
      BY <1>0, <1>1
    <3>. QED BY <1>0, <3>1, <3>2 DEF BalanceParts, TurnsTaken
  <2>2. CASE Attach(i) \/ Parse(i)
    <3>1. /\ UNCHANGED <<asked, lost, alarm>> /\ \A j \in Attaches \ {i} : apc'[j] = apc[j]
      BY <1>0, <2>2 DEF Attach, Parse, InitAgent, ResetOptions, ParseOptions, ReadRule, PutRule,
           FailParse, startDumperThread, attachTo, dumpVars, BalanceParts, ReadTypes
    <3>2. apc[i] \notin {"failed", "started"}
      BY <1>0, <2>2 DEF AttachTurn, DumperTurn, Attach, Parse, InitAgent, ResetOptions, ParseOptions,
                        ReadRule, PutRule, FailParse, startDumperThread
    <3>3. \A j \in 1 .. (k - 1) : j \in Attaches /\ j # i
      BY <1>0, <1>1, <2>1, <3>2
    <3>4. KeptUpTo(k)' <=> KeptUpTo(k)
      BY <3>1, <3>3 DEF KeptUpTo, FailedWithRules
    <3>. QED BY <1>0, <1>2, <3>1, <3>4 DEF BalanceParts, AlarmsAreRight
  <2>3. CASE Dumper(i) /\ DumperTurn(i)
    <3>0. i >= k
      BY <1>0, <2>1, <2>3 DEF DumperTurn
    <3>1. /\ UNCHANGED <<asked, apc>>
          /\ \A j \in Attaches \ {i} : lost'[j] = lost[j] /\ alarm'[j] = alarm[j]
      BY <1>0, <2>3 DEF Dumper, Test, Set, Decide, initThreadData, Search, Tag, PrintChains,
           DeleteMaps, ClearThreadData, CheckMallocs, SelfCheck, Finish, attachVars, BalanceParts,
           BalanceTypes
    <3>2. i = k => UNCHANGED <<lost, alarm>>
      BY <1>2, <2>3 DEF Dumper, Test, Set, Decide, initThreadData, Search, Tag,
           PrintChains, DeleteMaps, ClearThreadData, CheckMallocs, SelfCheck, Finish
    <3>3. \A j \in 1 .. k : j \in Attaches /\ (j # i \/ i = k)
      BY <1>0, <1>1, <3>0
    <3>4. (KeptUpTo(k)' <=> KeptUpTo(k)) /\ alarm'[k] = alarm[k]
      BY <1>0, <3>1, <3>2, <3>3 DEF KeptUpTo, FailedWithRules
    <3>. QED BY <1>0, <1>2, <3>4 DEF BalanceParts, AlarmsAreRight
  <2>. QED BY <1>0, <2>2, <2>3
<1>3. ASSUME NEW k \in Attaches, dpc[k] \notin {"selfCheck", "finish", "done"},
             dpc'[k] \in {"selfCheck", "finish", "done"}
      PROVE  alarm'[k] <=> KeptUpTo(k)'
  <2>1. k = i /\ CheckMallocs(i) /\ DumperTurn(i)
    <3>1. CASE Attach(i) \/ Parse(i)
      BY <1>0, <1>3, <3>1 DEF Attach, Parse, InitAgent, ResetOptions, ParseOptions, ReadRule, PutRule,
           FailParse, startDumperThread, dumpVars, BalanceParts, ReadTypes
    <3>2. CASE Dumper(i) /\ DumperTurn(i)
      BY <1>0, <1>3, <3>2 DEF Dumper, Test, Set, Decide, initThreadData, Search, Tag, PrintChains,
           DeleteMaps, ClearThreadData, CheckMallocs, SelfCheck, Finish, dumpTo, BalanceParts, ReadTypes
    <3>. QED BY <1>0, <3>1, <3>2
  <2>2. /\ alarm'[k] <=> unfreed # 0
        /\ UNCHANGED <<apc, asked, lost>>
    BY <1>0, <2>1 DEF CheckMallocs, attachVars, BalanceParts, BalanceTypes
  <2>3. OwnedNow = 0 /\ ignore = 0
    <3>1. ignore = 0 /\ taken = 0 /\ thread_id = 0
      BY <1>0, <2>1 DEF CheckMallocs, DumperTurn, BalanceParts, MapHasAnOwner, OwnedInTurn, Prepared
    <3>2. \A j \in Attaches : apc[j] # "put"
      BY <2>1 DEF DumperTurn
    <3>. QED BY <3>1, <3>2 DEF OwnedNow
  <2>4. SomethingKept <=> KeptUpTo(k)
    <3>1. \A j \in Attaches : FailedWithRules(j) => j \in 1 .. (k - 1)
      BY <1>0, <2>1 DEF DumperTurn, FailedWithRules
    <3>2. \A j \in Attaches : lost[j] > 0 => j \in 1 .. k
      BY <1>0, <2>1 DEF DumperTurn, BalanceParts, OwnedInTurn
    <3>3. 1 .. k \subseteq Attaches /\ 1 .. (k - 1) \subseteq 1 .. k /\ \A j \in Attaches : j # 0
      BY <1>0, <1>1
    <3>. QED BY <2>3, <3>1, <3>2, <3>3 DEF SomethingKept, KeptUpTo
  <2>5. KeptUpTo(k)' <=> KeptUpTo(k)
    BY <2>2 DEF KeptUpTo, FailedWithRules
  <2>. QED BY <1>0, <2>2, <2>3, <2>4, <2>5 DEF BalanceParts, Balanced
<1>. QED BY <1>2, <1>3 DEF AlarmsAreRight

LEMMA BalanceInductive == BalanceInv /\ [Next]_vars => BalanceInv'
<1>1. ASSUME BalanceInv, [Next]_vars PROVE PatientInv' /\ setting' = setting
  <2>1. PatientInv'
    BY <1>1, PatientInductive DEF BalanceInv
  <2>2. setting' = setting
    BY <1>1 DEF Next, Attach, Parse, InitAgent, ResetOptions, ParseOptions, ReadRule, PutRule,
         FailParse, startDumperThread, Dumper, Test, Set, Decide, initThreadData, Search, Tag,
         PrintChains, DeleteMaps, ClearThreadData, CheckMallocs, SelfCheck, Finish, vars, attachVars
  <2>. QED BY <2>1, <2>2
<1>2. ASSUME BalanceInv, UNCHANGED vars PROVE BalanceInv'
  <2>1. UNCHANGED <<attachVars, gdataVars, mapVars, dumpVars, unfreed>>
    BY <1>2 DEF vars
  <2>2. /\ (BalanceTypes' <=> BalanceTypes) /\ (NoneRefused' <=> NoneRefused)
        /\ (MapHasAnOwner' <=> MapHasAnOwner) /\ (OwnedInTurn' <=> OwnedInTurn)
    BY <2>1 DEF attachVars, gdataVars, mapVars, dumpVars, BalanceTypes, NoneRefused, MapHasAnOwner,
                OwnedInTurn
  <2>3. (Balanced' <=> Balanced) /\ (AlarmsAreRight' <=> AlarmsAreRight)
    BY <2>1 DEF attachVars, gdataVars, mapVars, dumpVars, Balanced, OwnedNow, SomethingKept,
                FailedWithRules, AlarmsAreRight, KeptUpTo
  <2>. QED BY <1>1, <1>2, <2>2, <2>3 DEF BalanceInv
<1>3. ASSUME BalanceInv, Next PROVE BalanceInv'
  <2>1. PICK i \in Attaches : Attach(i) \/ Parse(i) \/ Dumper(i)
    BY <1>3 DEF Next
  <2>2. ASSUME setting.patient PROVE ControlParts' /\ Balanced' /\ AlarmsAreRight'
    BY <1>3, <2>1, <2>2, ControlAttach, ControlDumper, BalancedAttach, BalancedDumper, AlarmsStay
  <2>. QED BY <1>1, <1>3, <2>2 DEF BalanceInv, ControlParts
<1>. QED BY <1>2, <1>3

(***************************************************************************)
(* Where launchers wait, "Internal jleaker error" is reported exactly      *)
(* after an attach that failed once it had read rules, or once a JNI local *)
(* was printed.                                                            *)
(***************************************************************************)
THEOREM AlarmsAreExact == Spec => []InternalErrorIsExact
<1>1. BalanceInv => InternalErrorIsExact
  BY DEF BalanceInv, AlarmsAreRight, KeptUpTo, FailedWithRules, InternalErrorIsExact
<1>. QED BY <1>1, BalanceInit, BalanceInductive, PTL DEF Spec

(* The types that no invariant above needed.                                *)
OtherTypes ==
  /\ {holds, options} \subseteq 0 .. MaxAttaches
  /\ vmStarted \in BOOLEAN /\ selfCheck \in BOOLEAN
  /\ lost \in [Attaches -> 0 .. MaxTexts]

LEMMA OtherTypesInductive == BalanceInv /\ setting.patient /\ OtherTypes /\ [Next]_vars => OtherTypes'
<1>. SUFFICES ASSUME BalanceInv, setting.patient, OtherTypes, [Next]_vars PROVE OtherTypes'
  OBVIOUS
<1>0. /\ ignore \in 0 .. MaxAttaches /\ self_check \in BOOLEAN /\ MaxAttaches \in Nat
      /\ Attaches \subseteq 0 .. MaxAttaches
  BY BalanceTyped, ConstantsAssumption DEF BalanceParts, ReadTypes, Attaches
<1>1. CASE \E i \in Attaches : Attach(i) \/ Parse(i)
  <2>1. PICK i \in Attaches : Attach(i) \/ Parse(i)
    BY <1>1
  <2>. USE DEF Attach, Parse, InitAgent, ResetOptions, ParseOptions, ReadRule, PutRule, FailParse,
       startDumperThread, gdataVars, mapVars, dumpVars
  <2>2. lost' = lost /\ (holds' = holds \/ holds' = ignore \/ holds' = 0)
    BY <2>1
  <2>3. options' = options \/ options' = i \/ options' = 0
    BY <2>1
  <2>4. vmStarted' = vmStarted \/ vmStarted' = TRUE
    BY <2>1
  <2>5. selfCheck' = selfCheck \/ selfCheck' = self_check
    BY <2>1
  <2>6. {holds', options'} \subseteq 0 .. MaxAttaches /\ lost' \in [Attaches -> 0 .. MaxTexts]
    BY <1>0, <2>2, <2>3 DEF OtherTypes
  <2>7. vmStarted' \in BOOLEAN /\ selfCheck' \in BOOLEAN
    BY <1>0, <2>4, <2>5 DEF OtherTypes
  <2>. QED BY <2>6, <2>7 DEF OtherTypes
<1>2. CASE \E i \in Attaches : Dumper(i)
  <2>1. PICK i \in Attaches : Dumper(i)
    BY <1>2
  <2>2. UNCHANGED <<holds, options, vmStarted, selfCheck>>
    BY <2>1 DEF Dumper, Test, Set, Decide, initThreadData, Search, Tag, PrintChains,
         DeleteMaps, ClearThreadData, CheckMallocs, SelfCheck, Finish, attachVars, gdataVars
  <2>3. lost' = lost \/ \E n \in 0 .. MaxTexts : lost' = [lost EXCEPT ![i] = n]
    BY <2>1 DEF Dumper, Test, Set, Decide, initThreadData, Search, Tag, PrintChains,
         DeleteMaps, ClearThreadData, CheckMallocs, SelfCheck, Finish
  <2>. QED BY <2>2, <2>3 DEF OtherTypes
<1>3. CASE UNCHANGED vars
  BY <1>3 DEF vars, attachVars, gdataVars, dumpVars, OtherTypes
<1>. QED BY <1>1, <1>2, <1>3 DEF Next

(***************************************************************************)
(* Types, where launchers wait: the allocator never counts more frees than *)
(* allocations, so no rule, text or table is freed twice.                  *)
(***************************************************************************)
THEOREM NothingIsFreedTwice ==
  ASSUME \A s \in Settings : s.patient
  PROVE  Spec => []TypeOK
<1>. DEFINE Inv == BalanceInv /\ setting \in Settings /\ OtherTypes
<1>1. Init => Inv
  <2>1. SUFFICES ASSUME Init PROVE OtherTypes
    BY BalanceInit DEF Init
  <2>2. MaxAttaches \in Nat /\ MaxTexts \in Nat
    BY ConstantsAssumption
  <2>3. vmStarted = FALSE /\ selfCheck = FALSE /\ holds = 0 /\ options = 0
        /\ lost = [i \in Attaches |-> 0]
    BY <2>1 DEF Init
  <2>4. vmStarted \in BOOLEAN /\ selfCheck \in BOOLEAN
    BY <2>3
  <2>5. {holds, options} \subseteq 0 .. MaxAttaches /\ lost \in [Attaches -> 0 .. MaxTexts]
    BY <2>2, <2>3
  <2>. QED BY <2>4, <2>5 DEF OtherTypes
<1>2. Inv /\ [Next]_vars => Inv'
  <2>1. SUFFICES ASSUME Inv, [Next]_vars PROVE Inv'
    OBVIOUS
  <2>2. BalanceInv' /\ setting.patient /\ OtherTypes'
    BY <2>1, BalanceInductive, OtherTypesInductive
  <2>3. setting' \in Settings
    BY <2>1 DEF Next, Attach, Parse, InitAgent, ResetOptions, ParseOptions, ReadRule, PutRule,
         FailParse, startDumperThread, Dumper, Test, Set, Decide, initThreadData, Search, Tag,
         PrintChains, DeleteMaps, ClearThreadData, CheckMallocs, SelfCheck, Finish, vars, attachVars
  <2>. QED BY <2>2, <2>3
<1>3. Inv => TypeOK
  <2>1. SUFFICES ASSUME Inv PROVE TypeOK
    OBVIOUS
  <2>2. BalanceParts /\ ignore \in 0 .. MaxAttaches /\ Attaches \subseteq 0 .. MaxAttaches
    BY <2>1, BalanceTyped, ConstantsAssumption DEF BalanceParts, ReadTypes, Attaches
  <2>3. unfreed \in Nat
    <3>1. unfreed \in Int /\ unfreed >= OwnedNow /\ taken \in Nat /\ (ignore # 0 => rules[ignore] \in Nat)
      BY <2>2 DEF BalanceParts, BalanceTypes, Balanced, ReadTypes
    <3>. QED BY <3>1 DEF OwnedNow
  <2>4. /\ apc \in [Attaches -> {"waiting", "initAgent", "reset", "options", "load", "put",
                                 "failed", "started"}]
        /\ dpc \in [Attaches -> {"none", "testAndSet", "set", "decide", "refused", "init",
                                 "search", "tag", "print", "delete", "null", "check",
                                 "selfCheck", "finish", "done"}]
        /\ map \in [Attaches -> {"none", "live", "deleted"}]
        /\ asked \in [Attaches -> Options]
    BY <2>2 DEF BalanceParts, ReadTypes
  <2>5. /\ {holds, options, ignore, thread_id} \subseteq 0 .. MaxAttaches
        /\ {loaded, taken, unfreed} \subseteq Nat
        /\ busy \in [Attaches -> BOOLEAN] /\ alarm \in [Attaches -> BOOLEAN]
        /\ rules \in [Attaches -> Nat] /\ lost \in [Attaches -> 0 .. MaxTexts]
    BY <2>1, <2>2, <2>3, ConstantsAssumption
       DEF BalanceParts, ReadTypes, BalanceTypes, OtherTypes
  <2>6. {vmStarted, dumpInProgress, consider_local_references, self_check, selfCheck}
          \subseteq BOOLEAN
    BY <2>1, <2>2 DEF BalanceParts, ReadTypes, BalanceTypes, OtherTypes
  <2>. QED BY <2>1, <2>4, <2>5, <2>6 DEF TypeOK
<1>. QED BY <1>1, <1>2, <1>3, PTL DEF Spec
===============================================================================
