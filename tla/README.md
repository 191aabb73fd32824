# A TLA+ model of jleaker

jleaker looks for collections that have grown too large in a running Java
virtual machine.  A Java launcher (`JLeaker.java`) attaches to the target VM and
loads a native agent into it (`src/src/cpp`).  The agent finds the collections
above a size, walks the heap of the target again and again to learn which
objects hold them, looks for a chain of references from a heap root to each of
them, and sends a report back to the launcher.

Line numbers below refer to the files under `src/src/cpp` unless they say
otherwise.  `PROJECT.json` has the same facts for tools: the components, every
run, the source lines of each definition, the hazards, the findings, the
theorems, and for each property a change of the model (a mutant) that breaks it.

## 1. Inventory

| component | state it keeps | operations | interacts with |
|---|---|---|---|
| Agent life cycle (`jleaker.c`) | the global `gdata`: options, maps of ignore rules, `vmStarted`, `dumpInProgress`, the one `ThreadData` | `Agent_OnAttach`, `initAgent`, `parse_agent_options`, `ini_handler`, `startDumperThread`, `dumperThreadMain` | the VM's attach thread calls it; starts dumper threads that run everything below |
| Thread data and nodes (`data_struct.c`) | `ThreadData`; nodes with a reference counter, a list of references, fan-in counts per class, a set of leaks | `initThreadData`, `releaseThreadData`, `newMemoryNode`, `freeMemoryNode`, `addReferenceClass` | tagging creates nodes, the search prunes and marks them, release frees them |
| Search for leaks (`leak_detect.c:333-530`) | JVMTI tags of classes and objects, list of leaks | `tagAllMapsAndCollections`, `searchObjectsForLeaks` | calls `size()` in the target; first nodes of the graph |
| Reference tagging (`leak_detect.c:40-331`) | the node graph, `leaks_finished`, `nodes_found` | `tagReferencesChain`, the heap callback `cbObjectTagReferrer` | JVMTI `FollowReferences`; the application runs between two walks |
| Bitmask sets (`bitmask_set.c`) | arrays of bytes | add, remove, contains, addAll, addAllWithExclusion, containsAll | the leaks of every node, and `leaks_finished` |
| Chain search and report (`jvm_reference.c`) | `visited`, `dead`, `obj` and `leaks_related` of the nodes | `generateReferencesChainForNode`, `printReferencesChainForLeakingNodes` | reads what tagging left; objects may be collected meanwhile |
| Names of fields (`jvm_reference.c:57-228`) | none | `getFieldOffset`, `getFieldNameByIndex` | rules become indices when classes are tagged, indices become names in the report |
| Release (`data_struct.c:18-144`, `leak_detect.c:244-277`) | counters and lists of the nodes | `freeMemoryForLeakList`, `freeMemoryNode`, `untagAllClasses` | last step of a dump |
| Allocator (`allocator.c`) | `allocations`, `frees`, a list of records | `myAlloc`, `myFree`, `findInternalMallocsLeaks` | everybody; checked at the end of each dump |
| Report connection (`agent_util.c`) | socket, output stream, nesting of XML elements | `establish_connection`, `open_xml_element`, `myPrintf`, `close_connection`, ... | the launcher's server |
| Launcher (`JLeaker.java`, `JLeakerServer.java`, `CmdLineParser.java`) | server socket, `m_wasStarted` | start the server, attach, detach, print lines | the agent, over the attach API and TCP |
| Printing of collections (`jobject_print.c`) | JNI handles | `printMap`, `printCollection` | calls into the target, writes to the connection |
| String map (`strmap.c`), INI parser (`ini.c`) | buckets of pairs; section and last name of a file | `sm_put`, `sm_get`, `sm_delete`; `ini_parse_file` | third party; carry the ignore rules from the files to the classes |

### What is hard here

* **Interleaving.** The attach thread rewrites options and rule maps while a
  dumper thread reads them; two dumper threads may meet.  The single lock is the
  flag `dumpInProgress`.  The port, the output stream and the nesting depth are
  globals too.
* **Order.** The JVM reports references in an order of its own; leaks travel from
  node to node over several walks, under an exclusion that grows during the walk.
* **A moving target.** Between two walks, and during the search, the application
  changes references, loads classes, resizes collections and drops objects.
* **Tags as pointers.** A tag outlives the node it points to; addresses are used
  again.
* **Shared marks.** `visited`, `leaks_related` and the reference counters are used
  by one phase after the other and must be left as the next one expects them.
* **Cycles and sharing** in the node graph, for a recursive search and a recursive
  release.
* **Boundaries.** Sets of different sizes compared byte by byte, limits of walks
  and of referrers per class, indices of fields.
* **Failures half way.** A configuration file that cannot be read, a referrer that
  is gone, a server socket that cannot be made, a connection that fails, a target
  that ends or a launcher that is stopped in the middle of a report.
* **Timers.** The launcher accepts for ten seconds; the agent runs a garbage
  collection before it connects.

### What makes the components correct

* Life cycle: one dump at a time; the flag is always given back and nobody is
  turned away without cause; a dump uses its own launcher's options and rules;
  rule maps exist while they are used; the final accounting is exact.
* Rules: each reaches the class that the files name, is there once, and is freed
  once.
* Search for leaks: the leaks are the big collections; a tag that is followed is
  that of a node of this dump; an object found for a node is the node's.
* Tagging: counters, sets and limits are consistent after every callback; a node
  claims a leak only if it leads to it; the walks stop only when a chain is in the
  nodes, nothing is left to find, or the limit is reached.
* Search for chains: reported chains are real, none is missed, the search ends and
  leaves no mark behind.
* Release: each node is freed, once, and not used afterwards.
* Report: a launcher prints one well-formed report, whole unless the target died,
  or shows that it has none; launchers and dumps come to an end.

## 2. The modules

| module | role |
|---|---|
| `BitmaskSet` | the byte-array sets as operators on `[size, bits]`, with the spare bits of the last byte |
| `ReferenceTagging` | the walks and the callback, EXTENDS `BitmaskSet` |
| `MCReferenceTagging` | heaps, rules and leaks for its runs |
| `TaggingProofs` | its theorems |
| `ChainSearch` | the search and the control of the report |
| `ChainSearchProofs` | its theorems |
| `MCChainSearch` | node graphs for its runs |
| `FieldIndex`, `MCFieldIndex` | names and indices of fields, and class hierarchies for it |
| `NodeRelease`, `MCNodeRelease` | the release and its graphs |
| `NodeReleaseProofs` | its theorems |
| `SequenceFacts` | lemmas about sequences, for the proofs: stacks, sequences that are read from end to end, induction |
| `StrMap` | the hash map as operators |
| `IgnoreRules` | parser and handler of the configuration files, EXTENDS `StrMap` |
| `IgnoreRulesProofs` | that the map is a map, and that the parser reads what files say |
| `LeakSearch` | tags, leaks and rules over several dumps, EXTENDS `IgnoreRules` |
| `MCLeakSearch` | classes, collections and configurations for its runs |
| `LeakSearchProofs` | its theorems |
| `AgentLifecycle` | attaches, options, dumper threads, flag, accounting |
| `AgentLifecycleProofs` | its theorems |
| `MCAgentLifecycle` | what launchers ask for |
| `ReportDelivery` | what jleaker promises about reports |
| `ReportSession` | launchers, attach thread, dumpers and connections; implements `ReportDelivery` |
| `ReportProofs` | its theorems |
| `MCReportSession` | instances of it |

The components meet in these places.  `LeakSearch` has the whole dump with the
walks and the release as single steps; `ReferenceTagging` is what happens in its
step `walks`, `ChainSearch` in `print`, `NodeRelease` in `FreeNodes`.
`ReportSession` has the dump as what it writes.  That the nodes which
`ReferenceTagging` leaves are such as `NodeRelease` assumes is a theorem
(`NodesAreFitForRelease` and `CountsAreExact`, section 5).

### ReferenceTagging

A node is attached to an object by the object's tag, so a node is identified with
its object: `tagged` is the set of things whose tag is not 0, `node[x]` the node.
`StartWalk` is the call of `FollowReferences`, `Report(e)` the JVM reporting one
reference, which calls `cbObjectTagReferrer` if the heap filter lets it through,
and `EndWalk` the code after the call.  The JVM stops the application during a
walk, so `Mutate` is possible only when `pc = "loop"`.  The four disjuncts of
`cbObjectTagReferrer` are the returns that change nothing, the assertion in
`addReferenceClass`, the returns after a referrer was counted, and the rest of the
function.

* The references of a node are a set: the callback never looks at their order.
  The counts per class saturate at `max_fan_in`, the only value they are compared
  with.
* Targets of references are not class objects: `java.lang.Class` has the tag 0
  (`tagAllClasses`), and the heap filter drops objects of an untagged class.
* The agent's own JNI handles on the leaks (`OwnHandles`) are reported by the JVM
  like all others; the callback skips those of its thread.
* A class that is loaded after `tagAllClasses` is in `LateClasses`.  The class of a leak
  is none of these: leaks are found before (`leak_detect.c:465`, then `:471`).
* What the model assumes of the JVM (`RootsAssumption`, and the finite heaps of
  `ConstantsAssumption`): roots are reported from a class (statics, constant pool) or
  from no object, and a walk reports finitely many references.
* There is at least one leak: `findLeaksInTaggedObjects` (`leak_detect.c:465`) walks
  only then.

### ChainSearch

The recursion of `generateReferencesChainForNode` is written out: `path` is the
stack of calls, `todo[n]` what the call for `n` has left to scan, `via[n]` the
reference it is in.  `Enter` and `ReturnNull` are the head of the function,
`Skip`, `Descend` and `RootFound` the body of its loop, `NothingFound` and
`ChainFound` what follows the recursive call, `ListEnd` the end.  The node graph
is an input that never changes (`graph`); what the search removes goes from
`leaks_related`.  `Collect(n)` is the garbage collector, for objects on which the
agent holds no handle.  `failed` is a history variable that no guard reads.
`Report` prints what was found: the direct references (`PrintDirect`) or the chain
(`printReferenceChainToNode`), each by `printSingleReference`.  Every object on a
chain is held by the handle of its call; the one thing printed there that no
handle holds is the class of a static field whose class was loaded after
`tagAllClasses`, for its node is then a plain one (`leak_detect.c:126`), and a class
that is unloaded before the chain is printed ends the target
(`jvm_reference.c:242`).

### FieldIndex

The four functions are recursive operators that take the index and the list of
interfaces met so far and return both, as the C functions do through pointers.
`JvmtiIndex` is the external definition: the documented index of a field.
`fillClassIgnoreList` turns the name of a rule into an index when classes are
tagged - only for a class that is initialised -, `Meet` is a reference reported
later and `PrintField` the two cases of `printSingleReference` that name a field.

### NodeRelease

The recursion of `freeMemoryNode` over the graph, called from the two loops that
own nodes.  `Call` is the part of the function up to its loop, `ReleaseReference`
one turn of the loop, `Finish` the part after it.  `Init` assumes exact counters:
`ReferenceCountsAreExact` is that property of `ReferenceTagging`.

### StrMap, IgnoreRules

A map is the array of its buckets.  Strings are compared as a whole, so a key is a
value and its hash is given.  A line of a configuration file is a record: its kind,
whether it is indented, its name as a sequence of parts, and the number that its
value stands for.  `ParseLine` is one turn of the loop of `ini_parse_file` with the
call of `ini_handler`; `LoadRules` reads all files of the option.  `RulesFor` and
`IgnoredNames` say what the same files mean without the parser, by looking back from
each line to its pair and its section; the properties compare the two.  A section or a
pair that is indented below a pair is one more value of that pair and means nothing
(`Stands`); where there is no pair to continue it stands for itself.

### LeakSearch

`Begin` parses the options and runs the garbage collection; `TagClasses` to
`SearchEnds` are `tagAllMapsAndCollections` and `searchObjectsForLeaks`;
`tagAllClasses` gives each class its node and the rules of its name;
`TagReferrer` is what the walks do to tags; `fillClassInMemoryNode` asks for the
object of a node; `FreeNodes` and `Release` give everything back.  The application
loads classes, creates, drops and resizes objects at any point, and the collector
takes what nobody holds.  An object that nothing refers to keeps its tag until it is
collected, and the walks do not visit it.  Nodes have addresses that are used again
- by the next dump, for other objects.

`quiet` is an input that never changes: a VM in which no object becomes garbage
between the collection and the first walk, and in which every dump begins with a
collection.  `FoundObjectIsTheNodes` needs it; LeakSearchStaleTag shows why.
`late` and `expected` are history variables that no guard reads.

### AgentLifecycle

`Attach` to `startDumperThread` are the attach thread, `Test` to `Finish` the
dumper threads; each is cut at the points where the two can meet: reading and
writing of the flag, reading of the map pointers (`ReadRule`) and their use
(`PutRule`), deleting the maps (`DeleteMaps`) and clearing the pointers
(`ClearThreadData`).  The two rule maps are made, replaced and deleted together
and are one map here, identified by the attach that made it; a rule added to a
deleted map is lost.  `unfreed` is `allocations - frees` as far as the parts of the
model allocate: rules, thread data, and `lost`: the text that
`jvm_reference.c:379` makes for a JNI local and drops, because its case falls through
into the next; a dump prints at most `MaxTexts` of them.  `setting` is an input that
never changes: `patient` launchers wait for the dump before, `atomic` is the
test-and-set of all builds but Windows.  `vmInit` and `vmDeath` are left out: an
agent that attaches to a live VM gets no `vmInit`, and what `vmDeath` sets is never
read.

### ReportSession, ReportDelivery

A dump, its dumper thread, its connection, and the port of a launcher have the name
of the launcher.  `Launch`, `Load` and `LoadBreaks` are the main thread of a
launcher, `StartServer` to `EndOfStream` its server thread, `Kill` its user;
`ResetOptions` to `EndAttach` the attach thread as far as it touches the port;
`Test` to `Finish` the dumper thread, with one action for each place that writes.
A connection is a bounded sequence of XML elements: `myPrintf` appends one, blocks
while it is full, and loses the element when the connection was reset.
`ResetConnections` is what TCP does to connections that nobody has accepted when the
listening socket closes.

`EndTarget` is the end of the target: of its application, which does not wait for the
agent's threads and may be killed, so it is possible at any step; and by the agent
itself, in five places that have an action of their own: a stream that `fdopen` could
not make (`NullStream`), the search for leaks or for a chain (`SearchFails`,
`ChainFails`: `fatal_error`), an element without a text (`NullElement`), and a reference
from a collected object (`ReferencesFail`).  What was written arrives, as every element
is flushed; one that is cut in the middle counts as not written.

`ReportDelivery` has no thread, socket or timer: reports are begun one at a time,
completed, or cut when the target dies; a launcher receives at most one, each
report goes to at most one launcher, or the launcher gives up.  `Fate` and
`Outcome` are the refinement mapping; `DeliversReports` is the refinement.  A report is
`whole` from its last line on (`CloseReport`), before its connection is closed: a target
that ends in between has delivered it.

## 3. The runs

All runs that pass stop where the program does, hence `CHECK_DEADLOCK FALSE`: the
walks end, the dump ends, launchers stop coming.

### Runs that pass

**Tagging** - three kinds of heaps.  256 heaps of two leaks (all subsets of eight
references: holders they share, a cycle, a leak that holds an earlier one, a static,
a JNI global and a local root), which do not change, with `max_fan_in = 2`, which is
met at once, since each walk counts a referrer again, and up to four walks.  512
heaps of one leak over nine references, with ignored fields and local references of
the application and of the agent, `max_fan_in = 4`, and three walks: the length of
the longest chain there is, so that a walk less would lose it.  Two heaps that the
application changes up to three times between the walks, with a class `L` that it
loads late.  Two leaks are the least that show the effect of one on the other.
* `LeakBitsHaveProvenance`: a node has a leak's bit only if recorded references
  lead from the leak to it.
* `ReferenceCountsAreExact`: the counter that decides when a node is freed.
* `FanInIsBounded`, `ComparisonsStayInBounds`: limits per class hold over all walks;
  no comparison of two sets leaves their arrays (the macro `SIZE_IN_BYTES` does
  not parenthesise its argument, so a wrong pair of sizes would).
* `SizeCoversLeaks`: thresholds of ignored fields see a size no less than that of
  each leak behind a node.
* `EarlyStopMissesNothing`: if the walks stop before the limit, nothing was left to
  record in the heap that the last walk met, whatever changed before.  `Reachable` is
  the least set of objects that a walk meets, stated as what all closed sets share.
* `FinishedIsFindable`: a leak taken for finished has a chain in the nodes - for
  leaks that do not hold a later one (see below: nested leaks) and when local
  references are considered.
* `LoneLeakIsFound`: what `--reference-chain-length` promises, for a leak that is
  the only one: if a root holds it through that many references, a chain is in the
  nodes.  With two leaks it is not so (TaggingSharedHolder).

**Search** - all node graphs over seven references between two leaks, an object and
roots, and over six with a class and a static field of a class that was loaded late,
with every choice of related nodes that walks can leave; three combinations of options.
* `VisitedMarksTheStack`: `visited` marks exactly the active calls.
* `NoChainIsMissed`: although the search removes leaks from nodes on the way and
  skips nodes on the stack, a leak without a reported chain has none.
* `ReportedChainIsReal`: a reported chain starts at the leak, is connected, ends
  at its only root, and all its objects are held by handles.
* `Terminates`.

**Release** - graphs of two leaks, an inner node and a class, with cycles, a node
that holds itself, two references from one node, and both orders of the leaks.
* `NoUseAfterFree`, `CountersAreExact`, `EverythingIsFreed` (the alerts
  "DETECTED INTERNAL LEAK" and "class not freed!" are never raised),
  `ReleaseTerminates`.

**FieldIndex** - hierarchies of three classes and two interfaces, one of which may
extend the other, inherited from several places; fields of one name in several of
them; every rule for them, and one for a field that does not exist.
* `RuleSelectsItsField`: the index of a rule matches the references through its
  field in instances of its class, and no others.  Where a class and its superclass
  declare one name, it is the superclass's field - and a rule for a class that was
  not initialised when classes were tagged matches nothing.
* `PrintedNameIsRight`: the name in the report is that of the field.

**LeakSearch** - two dumps, the least for one to find what another left; four
classes, two of them of one name in two class loaders, one loaded late, and
`java.lang.Class`; three instances and three addresses for nodes, so that addresses
run out and are used again; sizes below and above the threshold; two of three keys
share a bucket; no files, or one of two sets of files with continuation lines, junk,
names without a field, a pair without a name, indented sections and pairs, and lines
before any section.  The VM is quiet or not.
Addresses are symmetric.
* `LeaksAreTheBigCollections`: a collection that was above the threshold when the
  walk reached it and stayed as it is becomes a leak, unless its class came too late
  to be tagged; nothing that the files exclude does, and no class object, although
  classes have the same tags as their instances.
* `TagsMeanTheirNodes`: while the callback follows tags as pointers, whatever it can
  meet has the tag 0 or that of its own node.
* `FoundObjectIsTheNodes`: in a quiet VM, the object found for a node is the one the
  node was made for.
* `RulesHaveOneOwner`: a rule that was allocated and not freed is in exactly one list,
  of the map or of a class; none is freed twice.
* `RulesReachTheirClass`: one initialised class of each name has all the rules that
  the files hold for it, and no others.

**Attach** - three launchers: the third sees what the first two left.  Two settings:
they come at any time, with an atomic test-and-set; or one after the other, on the
Windows build.
* At any time: `OneDumpAtATime`, `RefusedOnlyDuringADump`, `DumpFlagIsReleased`.
* One after the other: `MapsAreLive`, `RulesInForce` (own options, all own rules;
  local references if *any* launcher so far asked for them), `InternalErrorIsExact`
  (the final check reports something only after an attach that failed once it
  had read rules, or once a JNI local was printed).

**Report** - two launchers, the least that can mix their reports, which wait for one
another or not; a report of up to nine elements (header, one leak, one collection
with one element or an error) through connections that hold three, so that writers
block, and yet the report of a heap without leaks fits: its dump ends before anybody
accepts, and the next one may queue behind it; server sockets that cannot be made, accept timeouts at any moment nobody is
queued, connections queued and reset, launchers stopped, a target that ends at any step.
* `OneReportPerLauncher`: what a launcher prints is one report or the beginning of
  one, of one dump, well nested, although stream and depth are globals and two dumps
  may connect to one port.
* `TruncationMeansDeath`: a launcher takes the end of the stream for the end of the
  report; it is, unless the target died.
* `ReportsAreAccountedFor`: when a dump is over its report is at the launcher, in the
  connection, or in the target's own output.
* `LostReportIsNoticed`: a report that was sent to a socket nobody will accept from is
  lost only where the launcher shows an exception, was stopped, or has another report.
* `OwnReport`: launchers that wait get their own report.
* `DeliversReports`: the session implements `ReportDelivery`.
* `LauncherEnds`, `DumpEnds`: nobody waits forever - but for a main thread whose server
  socket could not be made (see below), and dumps of a target that ended.

### Runs that find a disagreement

| run | what the code does |
|---|---|
| TaggingSharedHolder | a reference that is recorded is not followed again (`leak_detect.c:118`), so a leak met later never travels past a holder it shares with another |
| TaggingLateClass | a class loaded between `tagAllClasses` and a walk gets a plain node; an instance of it then meets the assertion `data_struct.c:113` and ends the target |
| SearchDeadReferrer | a direct reference whose referrer was collected is printed through null pointers (`jvm_reference.c:273`) |
| AttachDuringDump | an attach replaces the rule maps of a dump that runs (`jleaker.c:171`), and the end of that dump deletes the new ones |
| LeakSearchStaleTag | an object that becomes unreachable before the first walk keeps the tag of an earlier dump; a new node gets the address that this tag names, `GetObjectsWithTags` returns two objects, and `fatal_error` (`jvm_reference.c:46`) ends the target |

Each of these has its quoted source in `PROJECT.json`.

### Disagreements without a run of their own

In the walks and the search:

* `leak_detect.c:502`: a leak that an earlier leak holds gets into the spare bits of
  the earlier one's smaller set and is taken for finished without a chain.
  `FinishedIsFindable` leaves such leaks out.
* `leak_detect.c:168` takes local references for roots and finishes a leak, whatever
  `--consider-local-references` says, while the search skips them
  (`JLeaker.java:76`); `FinishedIsFindable` fails when the option is off.
* `jvm_reference.c:517` searches chains under `--show-unreachables`, which
  `JLeaker.java:72` says it does not.
* `leak_detect.c:196`: of two classes of one name only the first that the JVM lists
  gets the rules; `RulesReachTheirClass` says so.
* `size()` is called on class objects as well: they carry the tags of their
  instances.  The call throws and counts as 0.
* `data_struct.c:165`: a target without the optional multi-map class leaves a pending
  exception behind `FindClass`.

In the life cycle:

* `jleaker.c:162` resets every option but `consider_local_references` between
  attaches: `RulesInForce` says so.
* `jleaker.c:411` hands `self_check` to the allocator before it is parsed, and only
  once, so allocations are never recorded.
* `jleaker.c:281` leaves the maps of a failed attach behind; later dumps report it:
  `InternalErrorIsExact` says exactly when.
* `jleaker.c:296`, on Windows: a test-and-set in two steps ("FIXME", `jleaker.c:295`)
  lets two dumps in at once, and a refused dumper may set the flag for good:
  `OneDumpAtATime` and `DumpFlagIsReleased` fail for launchers that do not wait.
* `jleaker.c:349`: the check of JNI handles runs after the thread data was zeroed and
  looks at thread 0; it misses, for instance, the handles of `jobject_print.c:24-25`.
* `jleaker.c:278` looks for a negative result of the parser only: wrong lines are
  passed over in silence.  A path of a configuration file with a comma, or an option
  without its value, is not parsed as meant.

In the report:

* `agent_util.c:194`, `jobject_print.c:58,99`: an element that is null, or whose text
  cannot be had, is escaped through a null pointer (`NullElement`).
* `jvm_reference.c:242`: a static field of a class that was loaded after `tagAllClasses`
  has a plain node for its class, without a handle; if that class is unloaded before it
  is printed, `get_class_name` ends the target (`printSingleReference` in `ChainSearch`,
  `crash`).  SearchDeadReferrer shows the same for the referrer of a field.
* `agent_util.c:360`: when `fdopen` fails the stream is null and the first output ends
  the target (`NullStream`); after a connection that failed the socket stays open.
* The port is read after the garbage collection (`jleaker.c:324`): an attach that does
  not wait redirects the report of the dump that runs.  `OwnReport` holds for launchers
  that wait only.
* `JLeakerServer.java:25`: when the server socket cannot be made nobody notifies the
  main thread, which waits forever; `LauncherEnds` states the exception.
* A report that was cut by the end of the target looks like any other to the
  launcher: `TruncationMeansDeath` says when.

## 4. Fairness

* `ChainSearch`: `WF(Dumper)`, the dumper thread, which takes no lock and waits for
  nothing during the search; `Collect` has none - objects need not die.
* `NodeRelease`: `WF(Next)`, for the same reason: a single thread.
* `AgentLifecycle`: `WF(Dumper(i))` for each dumper thread: the VM schedules its
  threads independently.  No fairness for launchers or for the attach thread.
* `ReportSession`: weak fairness of the attach thread, and for each launcher of its
  main thread, its server thread and its dumper thread: each is a thread of its own,
  scheduled by its VM.  The timer of `accept` is part of the server thread: `accept`
  with a timeout returns.  None for `Launch`, `Kill`, `EndTarget` and the failures of a
  dump (`DumpFails`): users need not do anything, and `DumpEnds` must not hold because a
  dump that is blocked could also fail.  `NullStream` is part of the dumper thread, whose
  next step it is.
* `ReferenceTagging` states no liveness: the number of walks is bounded by
  `reference_chain_length`, and every walk by the references it reports.
  `LeakSearch` states none either: what ends its phases is in the other modules.

## 5. What is proved

The theorems hold for all values of the constants, under the assumptions that the
modules name (`ConstantsAssumption`, `SearchAssumption`, `MapAssumption`,
`LinesAssumption`, `ByteBitsAssumption`, `RootsAssumption`).  Each module has its inductive invariant at the head.

**`ChainSearchProofs`** - any number of nodes, any graph, leaks and options.
* `TypeCorrect`: `Spec => []TypeOK`.
* `StackCorrect`: `Spec => []VisitedMarksTheStack`.  A call is entered only for a
  node that is not marked, and all four ways out (`Pop`) clear the mark of the top.
* `SearchComplete`: `Spec => []NoChainIsMissed`.  That property speaks of the end of
  a search only.  The inductive invariant `SearchInv` says what holds on the way,
  as long as no chain is coming back: each reference that was scanned is no root and
  leads to a node whose call failed or is on the stack (`ScannedLeadsNowhere`), a
  node that lost the leak was visited (`RemovedWereVisited`), and other leaks are
  untouched (`OtherLeaksKept`), which is why one search does not spoil the next.
  When the stack is empty, the failed nodes are the closed set that `HasNoChain`
  asks for (`FailedNodesAreClosed`).
* `ChainsAreReal`: `Spec => []ReportedChainIsReal`.  The calls that have not returned
  are a chain that lacks its end: each waits for the object whose call is above it,
  at a reference that object holds (`StackIsAChain`), and a chain that comes back is
  one for the call it comes back to (`CallsAreForIt`).  `NodesAreSane` is what the
  search relies on and never disturbs.

**`TaggingProofs`** - any heap, any number of leaks, any order of references, any
changes by the application.
* `TaggingTypeCorrect`, `CountsAreExact`, `FanInStaysBounded`, `SizesCoverLeaks`,
  `BitsHaveProvenance`, `ComparisonsInBounds` for the properties of the run Tagging.
  The invariant `NodeInv` is about all nodes, tagged or not.  It is stronger than the
  properties in three places: the count of a class covers its references even after
  some were dropped (`FanInCovers`); the size of a node covers the leaks in the spare
  bits too, since these travel on to larger sets, where they are bits like any other
  (`SizesOfNodes`); and no node has a larger set than `leaks_finished` (`SetTypes`).
* `FinishedLeaksAreFindable`: `Spec => [](NoSpareBits => FinishedIsFindable)`, when
  local references are considered.  `FinishInv` adds that a finished leak has a node
  with its bit and a root (`RootMet`), which stays, since no node loses anything
  (`NothingLost`).  If the search found no root, the nodes it reaches and those of
  classes would be closed in the sense of `LeakBitsHaveProvenance`, and that node
  would be one of them.  `NoSpareBits` leaves out leaks that hold a later one.
* `NothingMissedByEarlyStop`: `Spec => [](NoSpareBits => EarlyStopMissesNothing)`.
  `MetInv` says that a walk has met whatever can be reached through references it has
  reported, so when none is left that is all of `Reachable`.  `Seen(e)` is what the
  callback owes a reference it was called for: if its target has an unfinished leak it
  is recorded, or dropped at `max_fan_in`, or ignored.  What can
  undo that within a walk is that the target gets a leak after its references were
  reported.  That is progress with that leak (`GainIsProgress`), and after progress
  there is another walk; without, what was seen stays seen (`SeenInv`, `SeenRemains`).  Without `NoSpareBits` it is not
  so: a leak object that holds a later leak carries that one as a spare bit, which is no
  progress when it comes.
* `LoneLeakIsAlwaysFound`: `Spec => []LoneLeakIsFound`, when local references are
  considered.  `AloneInv` speaks of heaps with one leak that no change has touched and
  whose fan-in limit is out of the way.  After the walk number k, each object that holds
  the leak through at most k references has it (`FollowInv`): in the walk a reference is
  met in, its target has the leak from the start, so its referrer gets it (`Known`),
  and if a root refers to such a target, the leak is finished (`NoRootHoldsIt`).  What
  makes the proof long is that `fan_in` must be shown not to drop any of these
  references.  A class of referrers is counted in the walk in which the leak comes to
  the object, and once more in the next (`Fresh`, then `Young`); when all its live
  references are recorded the count no longer matters (`Old`).  That is where the factor
  two in `FanInOutOfTheWay` comes from.  The walks do not stop before the chain is
  complete, since up to there each of them takes the leak to a new node.
* `NodesAreFitForRelease`: the references in the nodes are finite in number, none is in
  the node of a class, and every node that has some can be reached from the nodes of
  the leaks.  With `CountsAreExact` that is what `NodeRelease` assumes at its start.

**`NodeReleaseProofs`** - any finite graph of nodes, leaks and classes.
* `ReleaseTypeCorrect`, `CountersStayExact`, `ReleaseIsSafe`, `ReleaseIsComplete`: with
  `Spec => []` before `TypeOK`, `CountersAreExact`, `NoUseAfterFree`,
  `EverythingIsFreed`.  The invariant counts, for each node, the pointers that are left:
  those in lists, that of an owner which has not let go, and that of the call in
  flight (`Counts`); a node with a pointer is allocated (`Kept`); and all references
  that are left can be reached from where the loops still have to go (`Reaches`),
  which is why nothing is forgotten on a cycle.

**`IgnoreRulesProofs`** - any keys, hashes and capacity; files of any lines.
* `PutKeepsMap`, `GetAfterPut`, `NewIsEmpty`.  A key is in one place of one bucket, and
  `sm_get` finds what `sm_put` put, collisions included.
* `RulesAreTheFiles`: after `LoadRules` the map has for each class the rules of
  `RulesFor`, and the ignored names are `IgnoredNames`.  The parser keeps a section and a
  name as it goes forward; the reading looks backward.  `AtLine` says that the two meet
  at each line: the section is that of the last section line that stands, the name is
  that of the pair which the next line would continue, and it is empty exactly where
  there is none (`ContinuesNext`).  `Said` says that the maps hold what the lines so far
  say.  `LinesAssumption` gives the names of pairs, and what precedes their last dot, as
  keys; nothing is assumed about the order or the indentation of lines.
* `RulesAreLoadedOnce`: each rule that is made is in the list of one class, once.

  `ini_parse_file` and `LoadRules` are recursive functions; the proofs unfold them once
  (`FoldExists` in `SequenceFacts`) and go from line to line and from file to file.

**`LeakSearchProofs`** - any classes, instances, rules, files and addresses.
* `SearchTypeCorrect`; `WalksFollowOwnTags` for `TagsMeanTheirNodes`;
  `QuietDumpsFindTheirObjects` for `FoundObjectIsTheNodes`.  `IInv` says for every phase
  which tags classes and instances may have, and that in a quiet VM garbage with an
  old tag is gone before the first node is made (`NoGarbageYet`).
* `SearchFindsTheBigCollections`: `Spec => []LeaksAreTheBigCollections`.  `LInv` has two
  halves.  Nothing else becomes a leak: a tag of a collection is on no object that the
  files exclude, on classes during the first walk, on instances from then on
  (`EligibleClassTags`, `EligibleTags`), so what is taken back by its tag is eligible
  (`EligibleLeaks`).  And nothing is missed: what the first walk tagged and nobody
  resized is on its way at each phase - tagged, to do, or a leak with a node
  (`ExpectedIsFound`).  `RulesAreTheFiles` turns the maps into what the files say.
* `NoRuleIsLostOrFreedTwice`: `Spec => []RulesHaveOneOwner`.  `RInv` states it for the
  lists that keys have in the map and classes in their nodes: together they are the
  rules in use (`LiveIsOwned`), and no two share one (`OwnersAreApart`).
* `ClassesGetTheirRules`: `Spec => []RulesReachTheirClass`.  When classes are tagged the
  map holds what the files say; a class takes the list of its name and leaves none.
* `TakingRulesIsPutting`: the module takes rules out of the map for a set of names in
  one step; that is what a call of `sm_put` for each name does.

**`AgentLifecycleProofs`** - any number of attaches, with any options.
* `DumpsExcludeEachOther`: `Spec => []OneDumpAtATime`, and
  `RefusalsAreJustified`: `Spec => RefusedOnlyDuringADump`, for attaches at any time.
  `AtomicBuild`, an assumption of both, leaves out the Windows build.  Neither is
  inductive: `FlagInv` adds that the flag is set exactly while some dumper holds it
  (`HoldsFlag`: it found the flag free and has not given it back), that at most one
  does, and that the thread data is that of the dumper between `initThreadData` and
  `releaseThreadData`.
* `MapsStayLive` and `RulesAreInForce`: `Spec => []MapsAreLive` and
  `Spec => []RulesInForce`, for launchers that wait, on every build.  `PatientInv` says
  whose turn it is (`TurnsTaken`) and in which state the maps are at each point of a
  turn (`MapsFollowTurns`).
* `AlarmsAreExact`: `Spec => []InternalErrorIsExact`, and `NothingIsFreedTwice`:
  `Spec => []TypeOK` where all launchers wait.  `BalanceInv` compares `unfreed` with
  what somebody owns at each point (`OwnedNow`: rules in the map, the one on its way
  there, those of classes, the thread data).  `Balanced`: it is no less, and equal
  exactly if nothing is kept for good (`SomethingKept`).  At the check nothing is owned.

**`ReportProofs`** - any number of launchers.
* `LossIsNoticed`: `Spec => []LostReportIsNoticed`, for launchers that attach at any
  time.  `NetInv` says where a connection can be: a dump connects once
  (`ConnectsOnce`); a connection in a queue was made to that launcher, which still
  listens and has not accepted it, and is queued once (`Queues`); a connection that was
  accepted belongs to a launcher that listens no more (`Peers`).
* `ReportsAreOwn`: `Spec => []OwnReport`, for launchers that wait for one another.
  `OwnInv`: one turn at a time (`OneTurn`); from the end of a launcher's options to the
  connection of its dump the port is its own (`PortIsOwn`); so queues hold connections
  of the launcher's own dump only (`OwnQueues`).
* `LaunchersPrintOneReport`, `OnlyDeathTruncates`, `NoReportIsMislaid`: `Spec => []` of
  `OneReportPerLauncher`, `TruncationMeansDeath` and `ReportsAreAccountedFor`, for
  launchers that attach at any time and reports of any length.  None of them is
  inductive, and the three have one invariant, `SessionInv`, on top of `NetInv`:
  - one dump at a time goes from `gc` to `finish` (`OneDump`), so the stream is its own
    connection, or the target's output where it could not connect, and `xml_depth` is the
    number of elements it has open (`Streams`); a connection is closed by the end of its
    dump or of the target (`Ends`);
  - what a launcher has accepted is open until it is closed and read to its end
    (`Holds`); what is open or closed is at the launcher it was made to (`Arrives`);
  - the text of a dump is what its launcher has printed and what is in the connection
    (`Text`): its elements are all by that dump and in order (`LinesBy`), those open are
    the ones that its dumper is in (`AsFarAs`, `Nesting`), and of a connection that was
    reset the launcher has the beginning of that.

  Each of the ten actions that write is one of ten `Lines`: where the dumper was, where it
  goes, and the element; the proof looks at those once.  A text that starts badly stays
  bad (`MarksStay`), so the beginning of a report is well nested too (`PartOfPart`).
  `OpenTags` and `LinesOf` are recursive functions over a text; `OpenTagsFacts` and
  `LinesOfFacts` say what they do to one more element, by the induction of
  `SequenceFacts`.
* `SessionDelivers`: `Spec => DeliversReports`, from `SessionInv`.  `establish_connection`
  is `Begin`, `CloseReport` is `Complete`, `EndTarget` is `Die` wherever the dumpers are,
  `EndOfStream` is `Receive` of the report that the launcher has accepted - whole just when
  its dumper has written the last line (`EndOfReport`); a launcher or a server that fails
  or is stopped before that is `GiveUp`; all other steps are none.
* `TypesAreKept`: `Spec => []TypeOK`.  Among the types, that `xml_depth` is never negative.

Only model-checked: all liveness, which is out of the prover's reach; and `FieldIndex`
(`RuleSelectsItsField`, `PrintedNameIsRight`), whose operators are recursive over the
hierarchy of classes, so that a proof would be an induction over it, which the installed
provers cannot do for an operator that is a parameter.  All other invariants of the runs
are theorems, two of them for leaks that hold no later one (`NoSpareBits`) and two when
local references are considered, as said there.

## 6. What is not modelled, and the plan

Not modelled:

* the allocator's list of records: `initAllocator` never gets the option that turns it
  on, so it is never in use; its counters are `unfreed` in `AgentLifecycle`, where each
  update is one step (the lost updates of two threads only falsify the alarm);
* JNI handles that printing a collection leaves behind, which end with the thread;
* limits on lengths of lines and names, and characters as such, in `ini.c`;
  `sm_enum` and `sm_get_count`, which nobody calls; failing allocations, which
  `myAlloc` makes fatal;
* the parser of the launcher's command line beyond failing or not; the socket code of
  the Windows build; `vmInit` and `vmDeath`;
* build files, start scripts, texts, wording and layout of the report.

What could follow: `ChainReport`, the abstract promise of the search (for each leak a
chain, or none exists), with `ChainSearch` shown to implement it; `Dump`, tagging,
search and release composed on one graph, so that the graphs that `MCChainSearch`
assumes are shown to be those that tagging leaves; an allocator with its list and two
threads.
