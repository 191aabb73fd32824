---------------------------- MODULE ReportSession -----------------------------
(***************************************************************************)
(* From the launchers to the printed reports: the two threads of each      *)
(* launcher (JLeaker.java, JLeakerServer.java), the attach thread and the  *)
(* dumper threads of the target VM (jleaker.c), their connections and the  *)
(* XML they write (agent_util.c, jobject_print.c, jvm_reference.c).        *)
(*                                                                         *)
(* A launcher opens a server socket, hands its port to the agent and       *)
(* waits ten seconds for a connection.  The agent keeps the port in one    *)
(* global, collects garbage, then connects.  If it cannot, the report goes *)
(* to the target's own output.                                             *)
(*                                                                         *)
(* A dump, its dumper thread and its connection have the name of the       *)
(* launcher that asked for it; so has the port of a launcher.              *)
(***************************************************************************)
EXTENDS Integers, Sequences

CONSTANTS
  Launchers,
  None,                   (* No port, no launcher.                          *)
  MaxLeaks,               (* Leaks a search may find.                       *)
  num_elements_to_dump,   (* Elements printed of a collection.              *)
  BufferSize,             (* Elements a connection holds before they are    *)
                          (* read.                                          *)
  Patient                 (* Subset of BOOLEAN: launchers wait for the dump *)
                          (* of the one before, or come at any time.        *)

ASSUME ConstantsAssumption ==
  /\ None \notin Launchers /\ {"stdout", "null"} \cap Launchers = {}
  /\ {MaxLeaks, num_elements_to_dump} \subseteq Nat
  /\ BufferSize \in Nat \ {0}
  /\ Patient \subseteq BOOLEAN

VARIABLES
  patient,                (* Never changed.                                 *)
  main, server,           (* Where the threads of each launcher are.        *)
  m_wasStarted,
  backlog,                (* Connections that wait for accept().            *)
  peer,                   (* The connection that was accepted.              *)
  printed,                (* What the launcher printed.                     *)
  alive,                  (* The target VM runs.                            *)
  attaching, step,        (* Agent_OnAttach: for whom, and where it is.     *)
  tcp_port,
  dumper,                 (* Where the dumper thread of each launcher is.   *)
  dumpInProgress,
  outputStream,           (* "stdout", "null" or a connection.              *)
  conn, to, channel,      (* Each connection: its state at the agent, the   *)
                          (* launcher it went to, what is not read yet.     *)
  console,                (* What the target printed to its own output.     *)
  todo,                   (* Of each dumper: leaks and elements to print.   *)
  xml_depth

launcherVars == <<patient, main, server, m_wasStarted, peer, printed>>
attachVars   == <<attaching, step, tcp_port>>
netVars      == <<backlog, conn, to, channel>>
xmlVars      == <<outputStream, console, todo, xml_depth>>
vars == <<launcherVars, alive, attachVars, dumper, dumpInProgress, netVars, xmlVars>>

Init ==
  /\ patient \in Patient
  /\ main = [l \in Launchers |-> "idle"] /\ server = [l \in Launchers |-> "none"]
  /\ m_wasStarted = [l \in Launchers |-> FALSE]
  /\ backlog = [l \in Launchers |-> << >>] /\ peer = [l \in Launchers |-> None]
  /\ printed = [l \in Launchers |-> << >>]
  /\ alive = TRUE
  /\ attaching = None /\ step = "none" /\ tcp_port = None
  /\ dumper = [d \in Launchers |-> "none"] /\ dumpInProgress = FALSE
  /\ outputStream = "stdout" /\ console = << >>
  /\ conn = [d \in Launchers |-> "none"] /\ to = [d \in Launchers |-> None]
  /\ channel = [d \in Launchers |-> << >>]
  /\ todo = [d \in Launchers |-> [leaks |-> 0, elements |-> 0]]
  /\ xml_depth = 0
-----------------------------------------------------------------------------
(* The main thread of a launcher.                                           *)

mainTo(l, pc) == main' = [main EXCEPT ![l] = pc]

Running(d) == dumper[d] \notin {"none", "refused", "done"}

(* The command line is parsed, the VM attached to, the server started.  All *)
(* that can fail before the server is there ends the launcher.              *)
Launch(l) ==
  /\ main[l] = "idle"
  /\ patient => /\ \A d \in Launchers : ~Running(d)
                /\ \A o \in Launchers : main[o] \in {"idle", "failed", "killed", "done"}
                /\ attaching = None
  /\ \/ /\ alive
        /\ mainTo(l, "waiting") /\ server' = [server EXCEPT ![l] = "new"]
     \/ mainTo(l, "failed") /\ UNCHANGED server
  /\ UNCHANGED <<patient, m_wasStarted, peer, printed, alive, attachVars, dumper,
                 dumpInProgress, netVars, xmlVars>>

(* waitForStart returns; loadAgentPath queues at the attach thread.         *)
Load(l) ==
  /\ main[l] = "waiting" /\ m_wasStarted[l]
  /\ IF alive THEN /\ attaching = None
                   /\ attaching' = l /\ step' = "reset" /\ mainTo(l, "loading")
              ELSE mainTo(l, "failed") /\ UNCHANGED <<attaching, step>>
  /\ UNCHANGED <<patient, server, m_wasStarted, peer, printed, alive, tcp_port, dumper,
                 dumpInProgress, netVars, xmlVars>>

(* The VM goes down with the call of loadAgentPath in it.                   *)
LoadBreaks(l) ==
  /\ main[l] = "loading" /\ ~alive
  /\ mainTo(l, "failed")
  /\ UNCHANGED <<patient, server, m_wasStarted, peer, printed, alive, attachVars, dumper,
                 dumpInProgress, netVars, xmlVars>>
-----------------------------------------------------------------------------
(* The server thread of a launcher.                                         *)

serverTo(l, pc) == server' = [server EXCEPT ![l] = pc]
Listens(l) == server[l] \in {"accepting", "accepted", "timedOut"}

(* The socket that listens is closed: what nobody accepted is reset.        *)
ResetConnections(l, lost) ==
  /\ backlog' = [backlog EXCEPT ![l] = << >>]
  /\ conn' = [d \in Launchers |-> IF d \in lost THEN "reset" ELSE conn[d]]
  /\ channel' = [d \in Launchers |-> IF d \in lost THEN << >> ELSE channel[d]]
  /\ UNCHANGED to

InBacklog(l) == {backlog[l][i] : i \in DOMAIN backlog[l]}

(* Mutant of StartServer: nobody is notified.                               *)
StartServer_Quietly(l) ==
  /\ server[l] = "new"
  /\ serverTo(l, "accepting")
  /\ UNCHANGED <<patient, main, m_wasStarted, peer, printed, alive, attachVars, dumper,
                 dumpInProgress, netVars, xmlVars>>

(* new ServerSocket(0) and the notification, or an IOException.             *)
StartServer(l) ==
  /\ server[l] = "new"
  /\ \/ serverTo(l, "accepting") /\ m_wasStarted' = [m_wasStarted EXCEPT ![l] = TRUE]
     \/ serverTo(l, "noSocket") /\ UNCHANGED m_wasStarted
  /\ UNCHANGED <<patient, main, peer, printed, alive, attachVars, dumper, dumpInProgress,
                 netVars, xmlVars>>

Accept(l) ==
  /\ server[l] = "accepting" /\ backlog[l] # << >>
  /\ peer' = [peer EXCEPT ![l] = Head(backlog[l])]
  /\ backlog' = [backlog EXCEPT ![l] = Tail(@)]
  /\ serverTo(l, "accepted")
  /\ UNCHANGED <<patient, main, m_wasStarted, printed, alive, attachVars, dumper,
                 dumpInProgress, conn, to, channel, xmlVars>>

(* Mutant of CloseServerSocket: it stays open.                              *)
CloseServerSocket_Forgotten(l) ==
  /\ server[l] = "accepted"
  /\ serverTo(l, "reading")
  /\ UNCHANGED <<patient, main, m_wasStarted, peer, printed, alive, attachVars, dumper,
                 dumpInProgress, netVars, xmlVars>>

CloseServerSocket(l) ==
  /\ server[l] = "accepted"
  /\ serverTo(l, "reading")
  /\ ResetConnections(l, InBacklog(l))
  /\ UNCHANGED <<patient, main, m_wasStarted, peer, printed, alive, attachVars, dumper,
                 dumpInProgress, xmlVars>>

(* Ten seconds without a connection ...                                     *)
AcceptTimesOut(l) ==
  /\ server[l] = "accepting" /\ backlog[l] = << >>
  /\ serverTo(l, "timedOut")
  /\ UNCHANGED <<patient, main, m_wasStarted, peer, printed, alive, attachVars, dumper,
                 dumpInProgress, netVars, xmlVars>>

(* Mutant of GiveUp: a new server socket, for another ten seconds.          *)
GiveUp_TriesAgain(l) ==
  /\ server[l] = "timedOut"
  /\ serverTo(l, "accepting")
  /\ ResetConnections(l, InBacklog(l))
  /\ UNCHANGED <<patient, main, m_wasStarted, peer, printed, alive, attachVars, dumper,
                 dumpInProgress, xmlVars>>

(* ... the exception is printed, then the socket is closed.                 *)
GiveUp(l) ==
  /\ server[l] = "timedOut"
  /\ serverTo(l, "failed")
  /\ ResetConnections(l, InBacklog(l))
  /\ UNCHANGED <<patient, main, m_wasStarted, peer, printed, alive, attachVars, dumper,
                 dumpInProgress, xmlVars>>

ReadLine(l) ==
  /\ server[l] = "reading" /\ channel[peer[l]] # << >>
  /\ printed' = [printed EXCEPT ![l] = Append(@, Head(channel[peer[l]]))]
  /\ channel' = [channel EXCEPT ![peer[l]] = Tail(@)]
  /\ UNCHANGED <<patient, main, server, m_wasStarted, peer, alive, attachVars, dumper,
                 dumpInProgress, backlog, conn, to, xmlVars>>

(* Mutant of EndOfStream: nothing to read is taken for the end.             *)
EndOfStream_WhenEmpty(l) ==
  /\ server[l] = "reading" /\ channel[peer[l]] = << >>
  /\ serverTo(l, "ended")
  /\ UNCHANGED <<patient, main, m_wasStarted, peer, printed, alive, attachVars, dumper,
                 dumpInProgress, netVars, xmlVars>>

(* readLine returns null.                                                   *)
EndOfStream(l) ==
  /\ server[l] = "reading" /\ channel[peer[l]] = << >> /\ conn[peer[l]] = "closed"
  /\ serverTo(l, "ended")
  /\ UNCHANGED <<patient, main, m_wasStarted, peer, printed, alive, attachVars, dumper,
                 dumpInProgress, netVars, xmlVars>>

(* The user stops a launcher: both threads end, all its sockets close.      *)
Kill(l) ==
  /\ \/ main[l] \in {"waiting", "loading"}
     \/ server[l] \in {"new", "accepting", "accepted", "timedOut", "reading"}
  /\ mainTo(l, "killed")
  /\ serverTo(l, IF server[l] \in {"noSocket", "failed", "ended"} THEN server[l] ELSE "killed")
  /\ ResetConnections(l, InBacklog(l) \cup
                         (IF server[l] \in {"accepted", "reading"} THEN {peer[l]} ELSE {}))
  /\ UNCHANGED <<patient, m_wasStarted, peer, printed, alive, attachVars, dumper,
                 dumpInProgress, xmlVars>>
-----------------------------------------------------------------------------
(* The attach thread of the target.                                         *)

(* Mutant of ResetOptions: only the first attach parses its options.        *)
ResetOptions_OnlyOnce ==
  /\ alive /\ step = "reset"
  /\ step' = IF tcp_port = None THEN "options" ELSE "files"
  /\ UNCHANGED <<launcherVars, alive, attaching, tcp_port, dumper, dumpInProgress, netVars,
                 xmlVars>>

(* The head of parse_agent_options.                                         *)
ResetOptions ==
  /\ alive /\ step = "reset"
  /\ tcp_port' = None /\ step' = "options"
  /\ UNCHANGED <<launcherVars, alive, attaching, dumper, dumpInProgress, netVars, xmlVars>>

(* Its loop; the launcher names the port last.                              *)
ParseOptions ==
  /\ alive /\ step = "options"
  /\ tcp_port' = attaching /\ step' = "files"
  /\ UNCHANGED <<launcherVars, alive, attaching, dumper, dumpInProgress, netVars, xmlVars>>

(* Agent_OnAttach returns to the launcher, if that is still there: with a   *)
(* dumper thread, or, when a configuration file was bad, with an error.     *)
EndAttach ==
  /\ alive /\ step = "files"
  /\ \E ok \in BOOLEAN :
       /\ dumper' = IF ok THEN [dumper EXCEPT ![attaching] = "testAndSet"] ELSE dumper
       /\ main' = [main EXCEPT ![attaching] = IF @ = "killed" THEN @
                                              ELSE IF ok THEN "done" ELSE "failed"]
  /\ attaching' = None /\ step' = "none"
  /\ UNCHANGED <<patient, server, m_wasStarted, peer, printed, alive, tcp_port,
                 dumpInProgress, netVars, xmlVars>>
-----------------------------------------------------------------------------
(* dumperThreadMain.                                                        *)

dumpTo(d, pc) == dumper' = [dumper EXCEPT ![d] = pc]
dumpVars == <<launcherVars, attachVars>>      (* What no dumper changes.    *)

(* The target ends: exit() in fatal_error, a crash of the agent, or the end *)
(* of the application, which does not wait for agent threads and may be     *)
(* killed.  The system closes what is open, and what was written arrives:   *)
(* each element is flushed before the next.                                 *)
EndTarget ==
  /\ alive /\ alive' = FALSE
  /\ conn' = [d \in Launchers |-> IF conn[d] = "open" THEN "closed" ELSE conn[d]]
  /\ UNCHANGED <<dumpVars, dumper, dumpInProgress, backlog, to, channel, xmlVars>>

(* Mutant of Test: the flag is set but not tested.                          *)
Test_NotTested(d) ==
  /\ alive /\ dumper[d] = "testAndSet"
  /\ dumpInProgress' = TRUE
  /\ dumpTo(d, "gc") /\ outputStream' = "stdout"
  /\ UNCHANGED <<dumpVars, alive, netVars, console, todo, xml_depth>>

(* __sync_lock_test_and_set in one step, and initThreadData, which points   *)
(* the output to stdout.                                                    *)
Test(d) ==
  /\ alive /\ dumper[d] = "testAndSet"
  /\ dumpInProgress' = TRUE
  /\ IF dumpInProgress THEN dumpTo(d, "refused") /\ UNCHANGED outputStream
                       ELSE dumpTo(d, "gc") /\ outputStream' = "stdout"
  /\ UNCHANGED <<dumpVars, alive, netVars, console, todo, xml_depth>>

(* ForceGarbageCollection takes its time.                                   *)
RunGC(d) ==
  /\ alive /\ dumper[d] = "gc"
  /\ dumpTo(d, "connect")
  /\ UNCHANGED <<dumpVars, alive, dumpInProgress, netVars, xmlVars>>

(* establish_connection: to the port that gdata has now.  A connection that *)
(* fails leaves stdout, fdopen that fails leaves a null stream.             *)
establish_connection(d) ==
  /\ alive /\ dumper[d] = "connect"
  /\ xml_depth' = 0
  /\ to' = [to EXCEPT ![d] = tcp_port]
  /\ IF tcp_port # None /\ Listens(tcp_port)
     THEN /\ conn' = [conn EXCEPT ![d] = "open"]
          /\ backlog' = [backlog EXCEPT ![tcp_port] = Append(@, d)]
          /\ outputStream' \in {d, "null"}
     ELSE /\ conn' = [conn EXCEPT ![d] = "failed"]
          /\ UNCHANGED <<backlog, outputStream>>
  /\ dumpTo(d, "begin")
  /\ UNCHANGED <<dumpVars, alive, dumpInProgress, channel, console, todo>>

(* Mutant of myPrintf: what a full connection does not take is lost.        *)
myPrintf_DoesNotBlock(d, kind, tag) ==
  LET e == [by |-> d, kind |-> kind, tag |-> tag]
  IN  /\ outputStream # "null"
      /\ IF outputStream = "stdout"
         THEN console' = Append(console, e) /\ UNCHANGED channel
         ELSE /\ channel' = IF conn[outputStream] = "open" /\ Len(channel[outputStream]) < BufferSize
                            THEN [channel EXCEPT ![outputStream] = Append(@, e)] ELSE channel
              /\ UNCHANGED console

(* myPrintf: blocks while the connection is full; what is written to one    *)
(* that was reset is lost, and nobody looks at the result.                  *)
myPrintf(d, kind, tag) ==
  LET e == [by |-> d, kind |-> kind, tag |-> tag]
  IN  /\ outputStream # "null"
      /\ IF outputStream = "stdout"
         THEN console' = Append(console, e) /\ UNCHANGED channel
         ELSE /\ \/ /\ conn[outputStream] = "open"
                    /\ Len(channel[outputStream]) < BufferSize
                    /\ channel' = [channel EXCEPT ![outputStream] = Append(@, e)]
                 \/ conn[outputStream] # "open" /\ UNCHANGED channel
              /\ UNCHANGED console

complete_xml_element(d, tag) == myPrintf(d, "complete", tag) /\ UNCHANGED xml_depth
open_xml_element(d, tag)     == myPrintf(d, "open", tag)  /\ xml_depth' = xml_depth + 1
close_xml_element(d, tag)    == myPrintf(d, "close", tag) /\ xml_depth' = xml_depth - 1

(* What a step of the dumper that writes changes, and where it goes on.     *)
Write(d, from, next) ==
  /\ alive /\ dumper[d] = from
  /\ dumpTo(d, next)
  /\ UNCHANGED <<dumpVars, alive, dumpInProgress, backlog, conn, to, outputStream>>

BeginReport(d) ==
  /\ Write(d, "begin", "open")
  /\ myPrintf(d, "text", "xml") /\ UNCHANGED <<xml_depth, todo>>

(* The first output to a stream that fdopen did not make.                   *)
NullStream(d) == dumper[d] = "begin" /\ outputStream = "null" /\ EndTarget

OpenReport(d) ==
  /\ Write(d, "open", "search")
  /\ open_xml_element(d, "memory-leaks") /\ UNCHANGED todo

(* The heap is searched: leaks to print, or a fatal error.                  *)
Search(d) ==
  /\ alive /\ dumper[d] = "search"
  /\ \E n \in 0 .. MaxLeaks : todo' = [todo EXCEPT ![d].leaks = n]
  /\ dumpTo(d, "leak")
  /\ UNCHANGED <<dumpVars, alive, dumpInProgress, netVars, outputStream, console, xml_depth>>

SearchFails(d) == dumper[d] = "search" /\ EndTarget

(* The search for the chain of a leak, printed or not, may fail as well     *)
(* (jvm_reference.c:46): two objects have the tag of one node.              *)
ChainFails(d) == dumper[d] = "leak" /\ EndTarget

OpenLeak(d) ==
  /\ todo[d].leaks > 0
  /\ Write(d, "leak", "print_fn")
  /\ open_xml_element(d, "leaking-object")
  /\ todo' = [todo EXCEPT ![d].leaks = @ - 1]

(* printCollection, printMap or printMultiMap, as far as the open element;  *)
(* one tag stands for the three of them.  The call that asks a map for its  *)
(* entries may fail.                                                        *)
OpenCollection(d) ==
  /\ Write(d, "print_fn", "elements")
  /\ open_xml_element(d, "collection")
  /\ \E n \in -1 .. num_elements_to_dump : todo' = [todo EXCEPT ![d].elements = n]

PrintError(d) ==
  /\ todo[d].elements = -1
  /\ Write(d, "elements", "elements")
  /\ complete_xml_element(d, "error")
  /\ todo' = [todo EXCEPT ![d].elements = 0]

(* One turn of printCollectionUsingMethod with an element that has a text.  *)
PrintElement(d) ==
  /\ todo[d].elements > 0
  /\ Write(d, "elements", "elements")
  /\ complete_xml_element(d, "element")
  /\ todo' = [todo EXCEPT ![d].elements = @ - 1]

(* An element that is null, whose toString() fails, or that next() did not  *)
(* return because the application changed the collection: the text is null, *)
(* and escapeString reads it.                                               *)
NullElement(d) == dumper[d] = "elements" /\ todo[d].elements > 0 /\ EndTarget

CloseCollection(d) ==
  /\ todo[d].elements = 0
  /\ Write(d, "elements", "references")
  /\ close_xml_element(d, "collection") /\ UNCHANGED todo

(* printReferenceChainToNode or printAllReferencesToNode, as one element;   *)
(* ChainSearch has them.                                                    *)
PrintReferences(d) ==
  /\ Write(d, "references", "closeLeak")
  /\ complete_xml_element(d, "references") /\ UNCHANGED todo

(* One of them comes from an object, or from a class, that was collected    *)
(* (jvm_reference.c:245, 273).                                              *)
ReferencesFail(d) == dumper[d] = "references" /\ EndTarget

CloseLeak(d) ==
  /\ Write(d, "closeLeak", "leak")
  /\ close_xml_element(d, "leaking-object") /\ UNCHANGED todo

CloseReport(d) ==
  /\ todo[d].leaks = 0
  /\ Write(d, "leak", "close")
  /\ close_xml_element(d, "memory-leaks")
  /\ todo' = [todo EXCEPT ![d] = [leaks |-> 0, elements |-> 0]]

(* Mutant of close_connection: it looks at the stream after the reset.      *)
close_connection_ResetFirst(d) ==
  /\ alive /\ dumper[d] = "close"
  /\ outputStream' = "stdout"
  /\ dumpTo(d, "finish")
  /\ UNCHANGED <<dumpVars, alive, dumpInProgress, netVars, console, todo, xml_depth>>

close_connection(d) ==
  /\ alive /\ dumper[d] = "close"
  /\ outputStream' = "stdout"
  /\ conn' = IF outputStream # "stdout" /\ conn[outputStream] = "open"
             THEN [conn EXCEPT ![outputStream] = "closed"] ELSE conn
  /\ dumpTo(d, "finish")
  /\ UNCHANGED <<dumpVars, alive, dumpInProgress, backlog, to, channel, console, todo, xml_depth>>

Finish(d) ==
  /\ alive /\ dumper[d] = "finish"
  /\ dumpInProgress' = FALSE
  /\ dumpTo(d, "done")
  /\ UNCHANGED <<dumpVars, alive, netVars, xmlVars>>
-----------------------------------------------------------------------------
MainThread(l)   == Load(l) \/ LoadBreaks(l)
ServerThread(l) == \/ StartServer(l) \/ Accept(l) \/ CloseServerSocket(l) \/ AcceptTimesOut(l)
                   \/ GiveUp(l) \/ ReadLine(l) \/ EndOfStream(l)
AttachThread    == ResetOptions \/ ParseOptions \/ EndAttach

PrintLeak(d) == \/ OpenLeak(d) \/ OpenCollection(d) \/ PrintError(d) \/ PrintElement(d)
                \/ CloseCollection(d) \/ PrintReferences(d) \/ CloseLeak(d)

Dumper(d) == \/ Test(d) \/ RunGC(d) \/ establish_connection(d) \/ BeginReport(d) \/ NullStream(d)
             \/ OpenReport(d) \/ Search(d) \/ PrintLeak(d) \/ CloseReport(d)
             \/ close_connection(d) \/ Finish(d)

(* What the heap may do to a dumper.                                        *)
DumpFails(d) == SearchFails(d) \/ ChainFails(d) \/ NullElement(d) \/ ReferencesFail(d)

Next ==
  \/ AttachThread \/ EndTarget
  \/ \E l \in Launchers : \/ Launch(l) \/ MainThread(l) \/ ServerThread(l) \/ Kill(l)
                        \/ Dumper(l) \/ DumpFails(l)

Spec == Init /\ [][Next]_vars

(***************************************************************************)
(* Threads run; the timer of accept() is part of the server thread, as     *)
(* poll() returns in the end.  Users need not come, nobody must kill a     *)
(* launcher or the target, and no dump must fail: a writer that is blocked *)
(* is not helped by a target that might end.                               *)
(***************************************************************************)
Fairness == /\ WF_vars(AttachThread)
            /\ \A l \in Launchers : /\ WF_vars(MainThread(l))
                                    /\ WF_vars(ServerThread(l))
                                    /\ WF_vars(Dumper(l))

FairSpec == Spec /\ Fairness
-----------------------------------------------------------------------------
Element == [by: Launchers, kind: {"text", "complete", "open", "close"},
            tag: {"xml", "memory-leaks", "leaking-object", "collection", "element", "error",
                  "references"}]

TypeOK ==
  /\ patient \in Patient
  /\ main \in [Launchers -> {"idle", "waiting", "loading", "done", "failed", "killed"}]
  /\ server \in [Launchers -> {"none", "new", "noSocket", "accepting", "accepted", "timedOut",
                               "reading", "failed", "ended", "killed"}]
  /\ m_wasStarted \in [Launchers -> BOOLEAN]
  /\ peer \in [Launchers -> Launchers \cup {None}]
  /\ attaching \in Launchers \cup {None} /\ tcp_port \in Launchers \cup {None}
  /\ step \in {"none", "reset", "options", "files"}
  /\ dumper \in [Launchers -> {"none", "testAndSet", "refused", "gc", "connect", "begin", "open",
                               "search", "leak", "print_fn", "elements", "references",
                               "closeLeak", "close", "finish", "done"}]
  /\ {alive, dumpInProgress} \subseteq BOOLEAN
  /\ outputStream \in Launchers \cup {"stdout", "null"}
  /\ conn \in [Launchers -> {"none", "failed", "open", "closed", "reset"}]
  /\ to \in [Launchers -> Launchers \cup {None}]
  /\ backlog \in [Launchers -> Seq(Launchers)]
  /\ {printed, channel} \subseteq [Launchers -> Seq(Element)]
  /\ \A l \in Launchers : Len(channel[l]) <= BufferSize
  /\ console \in Seq(Element)
  /\ todo \in [Launchers -> [leaks: 0 .. MaxLeaks, elements: -1 .. num_elements_to_dump]]
  /\ xml_depth \in Nat                              \* apply_xml_identation counts to it

(* The tags that are open after an element; a tag that is closed without    *)
(* being the last one open leaves its mark for good.                        *)
Nest(open, e) ==
  CASE e.kind = "open" -> Append(open, e.tag)
    [] e.kind = "close" -> IF open # << >> /\ open[Len(open)] = e.tag
                           THEN SubSeq(open, 1, Len(open) - 1)
                           ELSE << "malformed" >> \o open
    [] OTHER -> open

OpenTags(s) ==
  LET open[i \in 0 .. Len(s)] == IF i = 0 THEN << >> ELSE Nest(open[i - 1], s[i])
  IN  open[Len(s)]

(* A report of dump d as far as it goes, and all of it.                     *)
PartOfReport(d, s) ==
  /\ \A i \in DOMAIN s : s[i].by = d /\ (s[i].kind = "text" <=> i = 1)
  /\ Len(s) > 1 => s[2].tag = "memory-leaks"
  /\ \A i \in DOMAIN OpenTags(s) : OpenTags(s)[i] # "malformed"
WholeReport(d, s) == PartOfReport(d, s) /\ Len(s) > 2 /\ OpenTags(s) = << >>

(* What dump d wrote of s.                                                  *)
WithLine(d, lines, e) == IF e.by = d THEN Append(lines, e) ELSE lines

LinesOf(d, s) ==
  LET lines[i \in 0 .. Len(s)] == IF i = 0 THEN << >> ELSE WithLine(d, lines[i - 1], s[i])
  IN  lines[Len(s)]

OnConsole(d) == LinesOf(d, console)

(***************************************************************************)
(* A launcher prints lines of one dump only, from the XML header on and    *)
(* properly nested -- although the output stream and the nesting depth are *)
(* globals (tdata.outputStream, xml_depth at agent_util.c:47), although    *)
(* two dumps may connect to one port, and although the reader takes what   *)
(* it finds.                                                               *)
(***************************************************************************)
OneReportPerLauncher ==
  \A l \in Launchers :
    peer[l] # None => PartOfReport(peer[l], printed[l] \o
                                   (IF server[l] = "killed" THEN << >> ELSE channel[peer[l]]))

(***************************************************************************)
(* A launcher takes the end of the stream for the end of the report        *)
(* (JLeakerServer.java:54).  What it then has is the whole report, unless  *)
(* the target died.                                                        *)
(***************************************************************************)
TruncationMeansDeath ==
  \A l \in Launchers :
    server[l] = "ended" /\ ~WholeReport(peer[l], printed[l]) => ~alive

(***************************************************************************)
(* When a dump is over, its report is somewhere: at the launcher that took *)
(* its connection, in the connection, or in the target's own output when   *)
(* establish_connection failed, whose result nobody looks at               *)
(* (jleaker.c:324).                                                        *)
(***************************************************************************)
ReportsAreAccountedFor ==
  \A d \in Launchers :
    dumper[d] \in {"finish", "done"} =>
      /\ conn[d] # "open"
      /\ conn[d] = "failed" => WholeReport(d, OnConsole(d))
      /\ conn[d] = "closed" =>
           LET l == to[d]
           IN  \/ peer[l] = d /\ WholeReport(d, printed[l] \o channel[d])
               \/ d \in InBacklog(l) /\ WholeReport(d, channel[d])

(***************************************************************************)
(* The timer of accept() and the close of the server socket race with the  *)
(* agent's connect(), which may succeed for a socket that nobody will      *)
(* accept from: the report is lost while the agent writes it.  The         *)
(* launcher it was sent to then shows an exception, was stopped, or has    *)
(* another report.                                                         *)
(***************************************************************************)
LostReportIsNoticed ==
  \A d \in Launchers :
    conn[d] = "reset" => \/ server[to[d]] \in {"failed", "killed"}
                         \/ peer[to[d]] \notin {None, d}

(***************************************************************************)
(* Launchers that wait for the dump of the one before get their own report *)
(* or none: the port that a dump reads after its garbage collection is     *)
(* that of its launcher.                                                   *)
(***************************************************************************)
OwnReport == patient => \A l \in Launchers : peer[l] \in {None, l}

(***************************************************************************)
(* A launcher that has started its server comes to an end -- unless the    *)
(* server socket cannot be created: then nobody sets m_wasStarted and the  *)
(* main thread waits forever (JLeakerServer.java:25).                      *)
(***************************************************************************)
Over(l) == /\ main[l] \in {"done", "failed", "killed"}
           /\ server[l] \in {"ended", "failed", "killed"}
LauncherEnds ==
  \A l \in Launchers : main[l] = "waiting" ~> Over(l) \/ server[l] = "noSocket"

(***************************************************************************)
(* A dump ends although its output goes to a connection that may be full,  *)
(* that nobody may ever accept, or whose launcher may be stopped.          *)
(***************************************************************************)
DumpEnds == dumpInProgress ~> ~dumpInProgress \/ ~alive
-----------------------------------------------------------------------------
(* What the session is, seen from outside.                                  *)

Fate(d) ==
  CASE dumper[d] \in {"none", "testAndSet", "refused", "gc", "connect"} -> "none"
    [] dumper[d] \in {"close", "finish", "done"} -> "whole"      \* All is written.
    [] OTHER -> IF alive THEN "writing" ELSE "cut"

Outcome(l) ==
  CASE server[l] = "ended" ->
         [is |-> IF WholeReport(peer[l], printed[l]) THEN "whole" ELSE "cut", report |-> peer[l]]
    [] \/ server[l] \in {"noSocket", "failed", "killed"}
       \/ server[l] = "none" /\ main[l] = "failed" -> [is |-> "nothing", report |-> None]
    [] OTHER -> [is |-> "pending", report |-> None]

Delivery == INSTANCE ReportDelivery WITH fate <- [d \in Launchers |-> Fate(d)],
                                         outcome <- [l \in Launchers |-> Outcome(l)]

(***************************************************************************)
(* The threads, sockets and timers implement the promise of                *)
(* ReportDelivery.                                                         *)
(***************************************************************************)
DeliversReports == Delivery!Spec
===============================================================================
