---------------------------- MODULE AgentLifecycle ----------------------------
(***************************************************************************)
(* The agent in the target VM (jleaker.c), with the thread data it         *)
(* releases (data_struct.c), its allocator (allocator.c) and the check of  *)
(* its own JNI handles (leak_detect.c).                                    *)
(*                                                                         *)
(* A launcher attaches: on the VM's attach thread, one attach at a time,   *)
(* Agent_OnAttach parses the options into the one global structure and     *)
(* starts a dumper thread.  The launcher detaches and another may come     *)
(* while that dumper still runs.  Options, ignore rules, thread data and   *)
(* counters are shared by all of these threads; the only lock is the flag  *)
(* dumpInProgress.                                                         *)
(*                                                                         *)
(* The two maps of ignore rules are created, replaced and deleted together *)
(* and are modelled as one.                                                *)
(***************************************************************************)
EXTENDS Integers

CONSTANTS
  MaxAttaches,            (* How many times a launcher attaches.            *)
  Options,                (* What one may ask for.                          *)
  MaxTexts,               (* Bound on the JNI locals that a dump prints.    *)
  Settings                (* [patient, atomic]: launchers do not attach     *)
                          (* while a dumper runs; test-and-set is one step, *)
                          (* as in all builds but Windows (jleaker.c:295).  *)

Attaches == 1 .. MaxAttaches

ASSUME ConstantsAssumption ==
  /\ MaxAttaches \in Nat /\ MaxTexts \in Nat
  /\ Settings \subseteq [patient: BOOLEAN, atomic: BOOLEAN]
  /\ Options \subseteq [known: BOOLEAN,       (* All options are known.     *)
                        readable: BOOLEAN,    (* So is the last conf file.  *)
                        rules: Nat,           (* Rules in the files.        *)
                        consider_local_references: BOOLEAN,
                        self_check: BOOLEAN]

VARIABLES
  setting,                (* Never changed.                                 *)
  asked,                  (* The options of every attach.                   *)
  apc,                    (* Where each attach is.                          *)
  holds,                  (* The map that sm_put is called with, 0 for NULL *)
  loaded,                 (* Rules the attach has read.                     *)
  dpc,                    (* Where the dumper of each attach is.            *)
  busy,                   (* What each found in dumpInProgress.             *)
  alarm,                  (* Dumps that reported "Internal jleaker error".  *)
  vmStarted, dumpInProgress,
  options,                (* The attach whose values gdata has, 0: defaults *)
  consider_local_references, self_check,
  ignore,                 (* The attach that created the map, 0 for NULL.   *)
  map, rules,             (* State and rules of the map of each attach.     *)
  taken,                  (* Rules that tagging moved to nodes of classes.  *)
  lost,                   (* Texts that the dump of each attach did not     *)
                          (* free.                                          *)
  thread_id,              (* The owner of the thread data, 0 when zeroed.   *)
  selfCheck,              (* The allocator records every allocation.        *)
  unfreed                 (* allocations - frees                            *)

attachVars == <<setting, asked, apc, holds, loaded>>
gdataVars  == <<vmStarted, options, consider_local_references, self_check>>
mapVars    == <<ignore, map, rules>>
dumpVars   == <<dpc, busy, alarm, taken, lost, thread_id, dumpInProgress>>
vars == <<attachVars, gdataVars, mapVars, dumpVars, selfCheck, unfreed>>

Init ==
  /\ setting \in Settings
  /\ asked \in [Attaches -> Options]
  /\ apc = [i \in Attaches |-> "waiting"] /\ holds = 0 /\ loaded = 0
  /\ dpc = [i \in Attaches |-> "none"] /\ busy = [i \in Attaches |-> FALSE]
  /\ alarm = [i \in Attaches |-> FALSE]
  /\ vmStarted = FALSE /\ dumpInProgress = FALSE
  /\ options = 0 /\ consider_local_references = FALSE /\ self_check = FALSE
  /\ ignore = 0
  /\ map = [i \in Attaches |-> "none"] /\ rules = [i \in Attaches |-> 0]
  /\ taken = 0 /\ lost = [i \in Attaches |-> 0] /\ thread_id = 0
  /\ selfCheck = FALSE /\ unfreed = 0
-----------------------------------------------------------------------------
(* The attach thread.                                                       *)

attachTo(i, pc) == apc' = [apc EXCEPT ![i] = pc]

Attach(i) ==
  /\ apc[i] = "waiting"
  /\ \A j \in 1 .. (i - 1) : apc[j] \in {"failed", "started"}
  /\ setting.patient => \A j \in Attaches : dpc[j] \in {"none", "refused", "done"}
  /\ attachTo(i, "initAgent")
  /\ UNCHANGED <<setting, asked, holds, loaded, gdataVars, mapVars, dumpVars, selfCheck, unfreed>>

(* initAgent, up to the call of parse_agent_options.                        *)
InitAgent(i) ==
  /\ apc[i] = "initAgent"
  /\ vmStarted' = TRUE
  /\ IF vmStarted THEN UNCHANGED <<selfCheck, unfreed>>
     ELSE selfCheck' = self_check /\ unfreed' = 0              \* initAllocator
  /\ attachTo(i, "reset")
  /\ UNCHANGED <<setting, asked, holds, loaded, options, consider_local_references, self_check,
                 mapVars, dumpVars>>

(* Mutant of ResetOptions: maps are kept from one attach to the next.       *)
ResetOptions_KeepsMaps(i) ==
  /\ apc[i] = "reset"
  /\ options' = 0 /\ self_check' = FALSE
  /\ loaded' = 0
  /\ attachTo(i, "options")
  /\ UNCHANGED <<setting, asked, holds, vmStarted, consider_local_references, mapVars, dumpVars,
                 selfCheck, unfreed>>

(* The head of parse_agent_options: the defaults and two new maps.          *)
ResetOptions(i) ==
  /\ apc[i] = "reset"
  /\ options' = 0 /\ self_check' = FALSE
  /\ ignore' = i /\ map' = [map EXCEPT ![i] = "live"]
  /\ loaded' = 0
  /\ attachTo(i, "options")
  /\ UNCHANGED <<setting, asked, holds, vmStarted, consider_local_references, rules, dumpVars,
                 selfCheck, unfreed>>

(* The loop over the options, up to the first that is unknown.              *)
ParseOptions(i) ==
  /\ apc[i] = "options"
  /\ options' = i
  /\ consider_local_references' =
       (consider_local_references \/ asked[i].consider_local_references)
  /\ self_check' = asked[i].self_check
  /\ attachTo(i, IF asked[i].known THEN "load" ELSE "failed")
  /\ UNCHANGED <<setting, asked, holds, loaded, vmStarted, mapVars, dumpVars, selfCheck, unfreed>>

(* ini_handler makes an element and reads the pointer to the map ...        *)
ReadRule(i) ==
  /\ apc[i] = "load" /\ loaded < asked[i].rules
  /\ holds' = ignore
  /\ unfreed' = unfreed + 1
  /\ attachTo(i, "put")
  /\ UNCHANGED <<setting, asked, loaded, gdataVars, mapVars, dumpVars, selfCheck>>

(* ... that sm_put adds it to.  Nothing refers to it when there is none; it *)
(* is lost with a map that was deleted, too.                                *)
PutRule(i) ==
  /\ apc[i] = "put"
  /\ rules' = [m \in Attaches |->
                 IF m = holds /\ map[m] = "live" THEN rules[m] + 1 ELSE rules[m]]
  /\ loaded' = loaded + 1 /\ holds' = 0
  /\ attachTo(i, "load")
  /\ UNCHANGED <<setting, asked, gdataVars, ignore, map, dumpVars, selfCheck, unfreed>>

(* A configuration file cannot be read: the attach fails, and only that.    *)
FailParse(i) ==
  /\ apc[i] = "load" /\ loaded = asked[i].rules /\ ~asked[i].readable
  /\ attachTo(i, "failed")
  /\ UNCHANGED <<setting, asked, holds, loaded, gdataVars, mapVars, dumpVars, selfCheck, unfreed>>

startDumperThread(i) ==
  /\ apc[i] = "load" /\ loaded = asked[i].rules /\ asked[i].readable
  /\ attachTo(i, "started")
  /\ dpc' = [dpc EXCEPT ![i] = "testAndSet"]
  /\ UNCHANGED <<setting, asked, holds, loaded, gdataVars, mapVars, busy, alarm, taken, lost,
                 thread_id,
                 dumpInProgress, selfCheck, unfreed>>
-----------------------------------------------------------------------------
(* dumperThreadMain, on the dumper thread of attach i.                      *)

dumpTo(i, pc) == dpc' = [dpc EXCEPT ![i] = pc]

(* __sync_lock_test_and_set.  The function that stands for it on Windows    *)
(* reads the flag and writes it in two steps.                               *)
Test(i) ==
  /\ dpc[i] = "testAndSet"
  /\ busy' = [busy EXCEPT ![i] = dumpInProgress]
  /\ IF setting.atomic THEN dumpInProgress' = TRUE /\ dumpTo(i, "decide")
                         ELSE dumpTo(i, "set") /\ UNCHANGED dumpInProgress
  /\ UNCHANGED <<attachVars, gdataVars, mapVars, alarm, taken, lost, thread_id, selfCheck, unfreed>>

Set(i) ==
  /\ dpc[i] = "set"
  /\ dumpInProgress' = TRUE
  /\ dumpTo(i, "decide")
  /\ UNCHANGED <<attachVars, gdataVars, mapVars, busy, alarm, taken, lost, thread_id, selfCheck,
                 unfreed>>

(* Mutant of Decide: the message, but no return.                            *)
Decide_GoesOn(i) ==
  /\ dpc[i] = "decide"
  /\ dumpTo(i, "init")
  /\ UNCHANGED <<attachVars, gdataVars, mapVars, busy, alarm, taken, lost, thread_id,
                 dumpInProgress, selfCheck, unfreed>>

(* "Another dump is already in progress", or a dump.                        *)
Decide(i) ==
  /\ dpc[i] = "decide"
  /\ dumpTo(i, IF busy[i] THEN "refused" ELSE "init")
  /\ UNCHANGED <<attachVars, gdataVars, mapVars, busy, alarm, taken, lost, thread_id,
                 dumpInProgress, selfCheck, unfreed>>

(* initThreadData, with the table it allocates.                             *)
initThreadData(i) ==
  /\ dpc[i] = "init"
  /\ thread_id' = i
  /\ unfreed' = unfreed + 1
  /\ dumpTo(i, "search")
  /\ UNCHANGED <<attachVars, gdataVars, mapVars, busy, alarm, taken, lost, dumpInProgress,
                 selfCheck>>

(* Collections are found, with size_threshold and ignore_classes.           *)
Search(i) ==
  /\ dpc[i] = "search"
  /\ dumpTo(i, "tag")
  /\ UNCHANGED <<attachVars, gdataVars, mapVars, busy, alarm, taken, lost, thread_id,
                 dumpInProgress, selfCheck, unfreed>>

(* Mutant of Tag: what is moved stays in the map.                           *)
Tag_KeepsInMap(i) ==
  /\ dpc[i] = "tag"
  /\ \E n \in 0 .. (IF ignore = 0 THEN 0 ELSE rules[ignore]) : taken' = n
  /\ dumpTo(i, "print")
  /\ UNCHANGED <<attachVars, gdataVars, mapVars, busy, alarm, lost, thread_id, dumpInProgress,
                 selfCheck, unfreed>>

(* References are tagged: fillClassIgnoreList moves the rules of the        *)
(* classes that are loaded from the map to the nodes of the classes.        *)
Tag(i) ==
  /\ dpc[i] = "tag"
  /\ \E n \in 0 .. (IF ignore = 0 THEN 0 ELSE rules[ignore]) :
       /\ taken' = n
       /\ rules' = [m \in Attaches |-> IF m = ignore THEN rules[m] - n ELSE rules[m]]
  /\ dumpTo(i, "print")
  /\ UNCHANGED <<attachVars, gdataVars, ignore, map, busy, alarm, lost, thread_id, dumpInProgress,
                 selfCheck, unfreed>>

(* Mutant of PrintChains: nodes of classes do not free their rules.         *)
PrintChains_KeepsTaken(i) ==
  /\ dpc[i] = "print"
  /\ \E n \in 0 .. MaxTexts : lost' = [lost EXCEPT ![i] = n] /\ unfreed' = unfreed + n
  /\ taken' = 0
  /\ dumpTo(i, "delete")
  /\ UNCHANGED <<attachVars, gdataVars, mapVars, busy, alarm, thread_id, dumpInProgress,
                 selfCheck>>

(* Chains or direct references are printed, and nodes are freed.  The text  *)
(* of a JNI local is replaced by that of a JNI global and never freed:      *)
(* printSingleReference has no break there (jvm_reference.c:354-384).       *)
PrintChains(i) ==
  /\ dpc[i] = "print"
  /\ \E n \in 0 .. MaxTexts :
       lost' = [lost EXCEPT ![i] = n] /\ unfreed' = unfreed + n - taken
  /\ taken' = 0
  /\ dumpTo(i, "delete")
  /\ UNCHANGED <<attachVars, gdataVars, mapVars, busy, alarm, thread_id, dumpInProgress,
                 selfCheck>>

(* releaseThreadData: sm_delete of the maps ...                             *)
DeleteMaps(i) ==
  /\ dpc[i] = "delete"
  /\ IF ignore = 0 THEN UNCHANGED <<map, rules, unfreed>>
     ELSE /\ map' = [map EXCEPT ![ignore] = "deleted"]
          /\ rules' = [rules EXCEPT ![ignore] = 0]
          /\ unfreed' = unfreed - rules[ignore]
  /\ dumpTo(i, "null")
  /\ UNCHANGED <<attachVars, gdataVars, ignore, busy, alarm, taken, lost, thread_id,
                 dumpInProgress, selfCheck>>

(* Mutant of ClearThreadData: the pointers to the maps remain.              *)
ClearThreadData_KeepsPointers(i) ==
  /\ dpc[i] = "null"
  /\ thread_id' = 0
  /\ unfreed' = unfreed - 1
  /\ dumpTo(i, "check")
  /\ UNCHANGED <<attachVars, gdataVars, mapVars, busy, alarm, taken, lost, dumpInProgress,
                 selfCheck>>

(* ... and the rest of it.                                                  *)
ClearThreadData(i) ==
  /\ dpc[i] = "null"
  /\ ignore' = 0
  /\ thread_id' = 0
  /\ unfreed' = unfreed - 1
  /\ dumpTo(i, "check")
  /\ UNCHANGED <<attachVars, gdataVars, map, rules, busy, alarm, taken, lost, dumpInProgress,
                 selfCheck>>

(* findInternalMallocsLeaks.                                                *)
CheckMallocs(i) ==
  /\ dpc[i] = "check"
  /\ alarm' = [alarm EXCEPT ![i] = (unfreed # 0)]
  /\ dumpTo(i, IF self_check THEN "selfCheck" ELSE "finish")
  /\ UNCHANGED <<attachVars, gdataVars, mapVars, busy, taken, lost, thread_id, dumpInProgress,
                 selfCheck, unfreed>>

(* selfCheck of leak_detect.c: local references of the thread "thread_id"   *)
(* are counted.                                                             *)
SelfCheck(i) ==
  /\ dpc[i] = "selfCheck"
  /\ dumpTo(i, "finish")
  /\ UNCHANGED <<attachVars, gdataVars, mapVars, busy, alarm, taken, lost, thread_id,
                 dumpInProgress, selfCheck, unfreed>>

(* Mutant of Finish: the flag stays.                                        *)
Finish_KeepsFlag(i) ==
  /\ dpc[i] = "finish"
  /\ dumpTo(i, "done")
  /\ UNCHANGED <<attachVars, gdataVars, mapVars, busy, alarm, taken, lost, thread_id,
                 dumpInProgress, selfCheck, unfreed>>

Finish(i) ==
  /\ dpc[i] = "finish"
  /\ dumpInProgress' = FALSE
  /\ dumpTo(i, "done")
  /\ UNCHANGED <<attachVars, gdataVars, mapVars, busy, alarm, taken, lost, thread_id, selfCheck,
                 unfreed>>
-----------------------------------------------------------------------------
Parse(i) ==
  \/ InitAgent(i) \/ ResetOptions(i) \/ ParseOptions(i) \/ ReadRule(i) \/ PutRule(i)
  \/ FailParse(i) \/ startDumperThread(i)

Dumper(i) ==
  \/ Test(i) \/ Set(i) \/ Decide(i) \/ initThreadData(i) \/ Search(i) \/ Tag(i) \/ PrintChains(i)
  \/ DeleteMaps(i) \/ ClearThreadData(i) \/ CheckMallocs(i) \/ SelfCheck(i) \/ Finish(i)

Next == \E i \in Attaches : Attach(i) \/ Parse(i) \/ Dumper(i)

Spec == Init /\ [][Next]_vars

(* The VM runs the dumper threads; when launchers come is up to the users.  *)
FairSpec == Spec /\ \A i \in Attaches : WF_vars(Dumper(i))
-----------------------------------------------------------------------------
TypeOK ==
  /\ setting \in Settings
  /\ asked \in [Attaches -> Options]
  /\ apc \in [Attaches -> {"waiting", "initAgent", "reset", "options", "load", "put",
                           "failed", "started"}]
  /\ dpc \in [Attaches -> {"none", "testAndSet", "set", "decide", "refused", "init",
                           "search", "tag", "print", "delete", "null", "check",
                           "selfCheck", "finish", "done"}]
  /\ {holds, options, ignore, thread_id} \subseteq 0 .. MaxAttaches
  /\ {loaded, taken, unfreed} \subseteq Nat         \* nothing is freed twice
  /\ busy \in [Attaches -> BOOLEAN] /\ alarm \in [Attaches -> BOOLEAN]
  /\ {vmStarted, dumpInProgress, consider_local_references, self_check, selfCheck}
       \subseteq BOOLEAN
  /\ map \in [Attaches -> {"none", "live", "deleted"}]
  /\ rules \in [Attaches -> Nat] /\ lost \in [Attaches -> 0 .. MaxTexts]

(* With thread data, between the flag being taken and given back.           *)
Prepared == {"search", "tag", "print", "delete", "null"}
Dumping  == Prepared \cup {"init", "check", "selfCheck", "finish"}

(* The dumper has found the flag free and has not given it back.            *)
HoldsFlag(i) == dpc[i] \in Dumping \/ (dpc[i] = "decide" /\ ~busy[i])

(***************************************************************************)
(* What dumpInProgress is for (jleaker.c:308): however launchers attach,   *)
(* two dumpers are never past the flag at once, so that the thread data,   *)
(* which is one structure for all threads, belongs to the one that dumps.  *)
(***************************************************************************)
OneDumpAtATime ==
  \A i \in Attaches :
    /\ dpc[i] \in Dumping => \A j \in Attaches \ {i} : dpc[j] \notin Dumping
    /\ dpc[i] \in Prepared => thread_id = i

(***************************************************************************)
(* "Another dump is already in progress" is said only while another dump   *)
(* is in progress: what a finished or a refused dumper left in the flag    *)
(* never turns one away.                                                   *)
(***************************************************************************)
RefusedOnlyDuringADump ==
  [][\A i \in Attaches :
       dpc[i] = "testAndSet" /\ dpc'[i] # "testAndSet" /\ busy'[i] =>
         \E j \in Attaches \ {i} : HoldsFlag(j)]_vars

(***************************************************************************)
(* Why both hold where test-and-set is one step: the flag is set exactly   *)
(* while one dumper holds it, and that one never changes its mind.         *)
(***************************************************************************)
FlagInv ==
  /\ \A i \in Attaches : dpc[i] # "set" /\ (apc[i] # "started" => dpc[i] = "none")
  /\ \A i, j \in Attaches : HoldsFlag(i) /\ HoldsFlag(j) => i = j
  /\ dumpInProgress <=> \E i \in Attaches : HoldsFlag(i)
  /\ \A i \in Attaches : dpc[i] \in Prepared => thread_id = i

(* The flag is always given back, whatever attaches go on beside the dump.  *)
DumpFlagIsReleased == dumpInProgress ~> ~dumpInProgress

(***************************************************************************)
(* Launchers that wait for the dumper of the one before get what they      *)
(* asked for (the three properties that follow).                           *)
(*                                                                         *)
(* The maps that gdata points to exist, except for the thread that is      *)
(* deleting them; so does the map that an attach adds a rule to.           *)
(***************************************************************************)
MapsAreLive ==
  setting.patient =>
    /\ (\A i \in Attaches : dpc[i] # "null") => ignore = 0 \/ map[ignore] = "live"
    /\ \A i \in Attaches : apc[i] = "put" => holds = 0 \/ map[holds] = "live"

(***************************************************************************)
(* A dump looks at the heap with the options and with all of the ignore    *)
(* rules that its own launcher asked for -- but for local references,      *)
(* which it considers if any launcher so far did ask for them.             *)
(***************************************************************************)
RulesInForce ==
  setting.patient =>
    \A i \in Attaches :
      dpc[i] \in {"search", "tag"} =>
        /\ options = i /\ self_check = asked[i].self_check
        /\ ignore = i /\ rules[i] = asked[i].rules
        /\ consider_local_references <=>
             \E j \in 1 .. i : asked[j].consider_local_references

(***************************************************************************)
(* The report "number of mallocs %d, number of frees %d" of allocator.c is *)
(* exact: a dump gives back all that it and its attach took, and reports   *)
(* something only if an attach before it failed after it had read rules,   *)
(* which nobody frees, or if it or one before it printed a JNI local.      *)
(***************************************************************************)
InternalErrorIsExact ==
  setting.patient =>
    \A i \in Attaches :
      dpc[i] \in {"selfCheck", "finish", "done"} =>
        (alarm[i] <=> \/ \E j \in 1 .. (i - 1) : /\ apc[j] = "failed" /\ asked[j].known
                                                 /\ asked[j].rules > 0
                      \/ \E j \in 1 .. i : lost[j] > 0)
-----------------------------------------------------------------------------
(***************************************************************************)
(* What a text of the program says and the code does not do.               *)
(***************************************************************************)

(* "Ignore leaks detected if they are referenced by these fields"           *)
(* (jleaker.conf:12): a dump has the rules of its launcher, also when       *)
(* another launcher attaches before it ends.                                *)
RulesAreNotLost ==
  \A i \in Attaches : dpc[i] = "tag" => ignore = i /\ rules[i] = asked[i].rules
===============================================================================
