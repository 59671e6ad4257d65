# jgb in TLA+

jgb is a C++ framework that runs applications made of instances, each with a
task of worker threads, which exchange frames through shared ring buffers and
are configured by trees of parameters loaded from JSON. This directory models
its core in TLA+, checks small instances with TLC and proves the most important
properties of eight parts (ring, task, handles of tasks, registry, log ring,
parameters, schema, paths) with TLAPS.

Modules, runs, findings and the lines each definition stands for are listed in
`PROJECT.json`; a definition keeps the name the code uses where it can.

## 1. The system

| component | source | state | operations |
|---|---|---|---|
| ring buffer | `src/src/buffer.cpp` | write cursor, serial number, owner, list of readers; per reader a cursor, a count of frames, the serial expected, a loan; per writer a reservation and a mutex | request_buffer, commit, cancel, put; request_frame, release; add/clone/remove reader |
| buffer manager | `buffer.cpp` | buffers by name, with reference counts | add_buffer, remove_buffer |
| task, worker | `src/src/core.cpp` | idle or running, threads, run_/exited_/normal_ flags, open readers and writers | start, stop, the thread function, init_io, release_io |
| instance, app, core | `core.cpp` | registry of applications in order, their instances | install, init, create, start, stop, destroy, release, uninstall_all |
| service | `src/misc/service.cpp` | the instances found for its subtasks | create, setup (starts them), exit (stops them), destroy |
| module | `src/src/module.cpp` | loaded libraries | init: installs what its configuration names |
| main | `src/src/main.cpp` | exit flag | installs, waits for SIGINT, uninstalls; SIGUSR1 handler |
| log | `src/src/log.cpp`, `log-buf.cpp`, `src/misc/logfile.cpp` | mutex of stderr; the ring "jgb#log" with one shared writer; current file and size | log a message to stderr and into the ring; write the ring to a file |
| parameters | `src/src/config.cpp`, `config_factory.cpp` | trees of named, typed values with uplinks | load, create, remove, clear, rename, get, set, bind, get_path, copy, update |
| paths | `src/src/helper.cpp` | - | jpath_parse |
| schema | `src/src/schema.cpp` | a range for each declared parameter | schema_factory makes the ranges from declarations; validate judges a tree and lists the results |
| test traffic | `src/misc/*-buffer.cpp`, `*_32u_context.h` | - | write and verify frames |

How they interact. `main` installs `logbuf` and `module`; the init of `module`
installs the other applications from inside its own install. Creating an
instance may start it (services with "auto"). Starting an instance opens the
readers and writers its configuration names through the buffer manager, then
starts worker threads that call the application's loop. Threads of different
tasks meet only in the rings (mutex per reader, mutex per writer, one
shared_mutex per ring, an owner with a condition variable), in the buffer
manager (one mutex) and in the log (the mutex of stderr, the log ring). A stop
sets a flag, interrupts threads by SIGUSR1 and joins them. Parameters are read
and updated through paths and are not protected by locks.

What is hard: the ring lends its own memory without copying, so a wrong cursor
of anybody is garbage for somebody else; a lock (`writer::mutex`) is kept across
calls, from request to commit; two locks and two condition variables with
timeouts are undone in several orders; signal handlers run on the stack of
threads that hold locks; callbacks re-enter the registry; references to buffers
are counted by concurrent tasks; the log uses the ring it logs about; paths are
built upwards and resolved downwards by different code. `PROJECT.json`
("hazards") lists each at its line with the properties that cover it, or why
none does yet.

## 2. The modules

| module | models | checked in | proved in |
|---|---|---|---|
| `RingBuffer` | one ring, its writers, readers and the threads that use them | `MCRingBuffer`, `RB_*` | `RingBufferProofs` |
| `FrameQueue` | what users see of a ring: a broadcast queue with lossy readers | refined by `RingBuffer` (`RB_queue`) | `RingBufferProofs` |
| `Task` | one task: controlling thread, workers, signals, the log's mutex | `MCTask`, `Task_*` | `TaskProofs` |
| `TaskSession` | what callbacks may rely on: setup, loops, exit | refined by `Task` (`Task_single`, `Task_multiple`) | `TaskProofs` |
| `TaskIo` | buffer manager, the opening and closing of handles, the sizing of a ring | `MCTaskIo`, `Io_once` | `TaskIoProofs` |
| `Core` | registry, instances, services, import, as a stack of calls | `MCCore`, `Core_services` | `CoreProofs` |
| `InstanceLife` | the order of an instance's callbacks | refined by `Core` (`Core_services`) | `CoreProofs` |
| `LogBuf` | threads that log, the log ring, the logfile | `MCLogBuf`, `LogBuf_ring` | `LogBufProofs` |
| `JPath` | jpath_parse, a character a step | `MCJPath`, `JPath_all` | `JPathProofs` |
| `Values` | trees of values: loading a document, paths, conversions | used by `Config` and `Schema` | `ConfigProofs` |
| `Config` | two parameter trees: create, remove, clear, rename, set, bind, copy, update | `MCConfig`, `Config_update` | `ConfigProofs` |
| `Schema` | the ranges of a schema and the validation of a tree | `MCSchema`, `Schema_all` | `SchemaProofs` |

Definitions named `X_mutant` are faulty versions of `X`, kept to show that a
property can fail: with `X` replaced by it, its run finds a violation.

**RingBuffer.** `cur`, `serial`, `owner`, `readers_` are the members of
`buffer`; `requested`, `reserved`, `wmutex` those of `writer`; `rcur`, `stored`,
`rserial`, `holding` those of `reader`. `mem` is the set of frame headers intact
in memory: writing a region removes the headers it overlaps (`Overwrite`).
`sharers` and `xwait` are `rw_mutex`, a boost::shared_mutex that closes its gate
to newcomers when an exclusive locker waits. A thread in `request_buffer` is in
one of the stages "share" (has the writer's mutex), "own" (waits for the ring),
"scan" (looks at the readers one by one), "drop" (is about to release a frame of
a discardable reader), "sleep" (waits for a release) and "have" (granted);
`Commit` and `Cancel` end it. `Clear` says when one reader does not stand in the
way of a frame in each of the three places request_buffer may put it;
`GrantTail`, `GrantHead` (which writes the redirect header) and `GrantReset` are
those places.

**Task.** `cpc` is where the controlling thread is in task::start or stop, `tpc`
where each worker's thread is, `hpc` and `pending` its signal handler, `logm` the
mutex of to_stderr. With one worker setup and exit run in the thread
(`ThreadSetupOk`, `ThreadSetupFails`, `Leave`), else in start and stop.

**TaskIo.** A handle is <<task, kind, start, index>>, a buffer object <<name,
number>>. `release_io` walks `readers_` and `writers_`, which nothing empties. A
writer with a size goes through "look" (resize tests `len_`, no lock), "check"
(the assertion that there is no memory yet, no lock either: where it fails a
build with assertions ends, "aborted", and one without goes on) and "resize"
(allocates under rw_mutex); `ring` counts the allocations.

**Core.** One thread, but re-entrant: `stack` holds the calls in progress. A
frame is the function, its application or instance, and its loop counter. `ctx`
holds the places, in a service's list, of the subtasks it has found.

**LogBuf.** The ring is a count of unread frames; what matters is the writer's
mutex, the timeout of 0 and the second try.

**JPath.** A path is a text over four characters; one call of jpath_parse is a
behaviour, one character a step.

**Values.** A tree is flat: a function from locations, <<name, index, name,
...>>, to values. The configs of a tree are its root and the elements of its
objects; "uplinked" says whether the configs of an object know where they are. A
path is a sequence of tokens (slash, name, index), where the first part of a
text is no longer in question (that is `JPath`); a name that contains a slash is
more than one token (`Spelling`). Numbers are counted in parts of one (`Unit`),
so that a real between two integers is a number like any other; what strings
spell (stoll, stod, true and false) is given by tables, `IntegerOf`, `RealOf`
and `BoolOf`, over the strings of a run. `Step` is one token of the walk down,
`PathOf` the way up.

**Config.** `tree` holds the tree in use and the patch that update() brings into
it. `Diff` is the set of elements an update lists, `Updated` the tree afterwards.
An operation of the program is an action; `AppWrites` is the application that
assigns to a variable it has bound.

**Schema.** A schema is a function from paths to declarations, whose fields are
JSON values. `FoundType` makes the range of one declaration (`RangeOf`), in any
order; `Scan` is scan_one_interval over the tokens of a text. `WalkThrough` is
the validation of one range: the configs it comes to (`Reached`), the values
there, and what is listed of them (`OfValue`). The results are a bag of <<path,
code>>, because two entries of one path are a fault.

## 3. What the runs show

Runs that pass, with their bounds:

| run | bounds | shows |
|---|---|---|
| `RB_many` | 3 threads on 2 writers, repeated requests, 1 keeping reader that may be taken away, 72 bytes, lengths 3 and 36, offsets 0 and 4, serials mod 3 | locks: `OneWriterAtATime`, `DeniedUnreachable`; cursors and headers: `CursorFits`, `ChainIntact`, `UnreadUntouched`, `HeldIntact`, `RetryOnce` |
| `RB_queue` | 1 writer; a discardable and a keeping reader, a third attached or cloned later; 56 bytes | refinement of `FrameQueue` (`BroadcastQueue`) |
| `RB_fair` | 2 writers, a reader that comes and goes | liveness: `RequestReturns`, `CommitReturns`, `FrameDelivered` |
| `Task_single` | 1 worker, signals, a handler that logs | `TypeOK`, refinement of `TaskSession` |
| `Task_multiple` | 2 workers, signals, a silent handler | `QuietWhenIdle`, refinement of `TaskSession`, `StopReturns` |
| `Io_once` | source, filter and sink on 2 buffers, each started once; two of them ask for 64 bytes of the same ring; builds with and without assertions | `RefCounts`, `OpenBufferAlive`, `RingSizedOnce`, `NothingLeft` |
| `Core_services` | 4 applications, 5 instances; modules that install each other; a service of services; one create that fails | `NamesUnique`, `CallsReachInstances`, `NothingLeft`, refinement of `InstanceLife`, `ShutdownEnds` |
| `LogBuf_ring` | 2 threads, 3 messages each, room for 2 | `RoomKept`, `LogReturns` |
| `JPath_all` | every text of up to 6 characters | `TypeOK`, `PartFound`, `RefusedRightly` |
| `Config_update` | 2 documents in both trees, 2 names, 2 strings, numbers 0 and 1, 3 operations | `PathRoundTrip`, `SetReadBack`, `UpdateConverges`, `DiffNamesChanges` |
| `Schema_all` | 5 schemas against 7 documents, numbers in halves, ints from -16 to 15 halves, every order of the ranges | `ValuesJudged`, `AbsentReported`, `PathsLeadBack` |

Why these bounds are enough. In 72 bytes a frame of 3 bytes takes 20 and one of
36 takes 52: the tail of the ring is too short for the large one, exactly used
up, or short of a header, and all three placements, the redirect and the reset
occur; in 56 bytes two small frames fit and the third waits, so a discardable
reader loses frames and a clone begins behind its model. Nothing in the ring
looks at more than one reader or writer at a time, so two or three of each show
the interleavings. Serial numbers wrap after 2 or 3 frames instead of 2^32. The
jpath automaton has four states; six characters reach each of them from each
other. The documents hold numbers, strings, null, booleans, nesting, arrays of
objects and an array that is refused; an update looks at one pair of values at
a time, and three operations are enough to create, set or copy on both sides
before it. The buffers of `Io_once` have one reader or writer whose task goes
while others come, which is when a count goes wrong; that two tasks size one ring
is enough, as the third finds it sized like the second. In `Schema_all` the
schemas have each type with and without limits, lengths given by a number, an
interval or not at all, intervals with each bracket, part and blank missing, and
parameters in arrays of objects; the documents have for each a value that fits,
one that does not, one of the wrong type or length, and none.

One run ends in a violation, a disagreement between the code and its own
comment (`buffer.h:77`: a frame a reader holds must not be overwritten):

| run | what happens |
|---|---|
| `RB_overwrite` | a discardable reader borrows a frame between the writer's look at `holding_` and its release(), and the frame is overwritten |

The passing runs keep clear of it: `HeldIntact` is about readers that keep their
frames.

The models hold further places where the code differs from its documentation
or its own assertions, or where it relies on its callers. No property says so:
each is a value of a constant, or a case, that the passing runs leave out or
(`CheckStart`) let happen, named here so that nobody takes a passing run to say
more than it does:

| where | what the code does |
|---|---|
| `RingBuffer!SerialExpected` | a reset moves the cursor of every reader (`buffer.cpp:779`), one that never had a frame included; it misses the serial number, and the assertion at `buffer.cpp:297` fails. In `RB_many` the reader is there before the first frame, the ring of `RB_queue` never resets |
| `RingBuffer!MayRepeat` | a repeated request waits for the mutex its own thread holds; JGB_ERR_DENIED (`buffer.cpp:709`) is never answered. `RB_many` has the step and shows the denial unreachable |
| `Task!HandlerLogs` with `StopReturns` | the handler of SIGUSR1 (`main.cpp:38`) logs on the stack of a thread that holds the log's mutex, and stop() never returns |
| `Task!SendKill` = FALSE | without SIGUSR1 stop() joins a thread that may sit in a blocking call (`core.cpp:168`) |
| `TaskIo!CheckStart` | two tasks that size a new ring at once, with the same size or not: the second has read `len_` = 0, finds the memory of the first and fails the assertion `!start_` (`buffer.cpp:102`), tested before the lock is taken. A debug build ends there; another goes on and finds the length under the lock. `Io_once` has both outcomes: `RingSizedOnce` is about the memory, and does not say that the assertion holds |
| `TaskIo!BufSize` with two sizes | a second resize that read `len_` = 0 replaces, without assertions, memory a writer may already have |
| `TaskIo!MaxStarts` = 2 | a task started twice closes the handles of its first run again (`core.cpp:521`) and drops the references of others: `OpenBufferAlive` fails. All that is said of `TaskIo` is said of tasks that start once |
| `Core!WithApi` | an application without an api is started or stopped through a null pointer (`core.cpp:296`) |
| `Core!InitFails` | destroy without create (`core.cpp:736`) |
| `Core!Subtasks` in the service's own application | the service stops an instance already deleted (`core.cpp:738`) |
| `LogBuf!DebugToBuf` | a debug message about a full log ring (`buffer.cpp:413`) waits for the mutex its thread holds |
| `LogBuf`, step "compare" | the second try of a long message is refused and the assertion `r == n` (`log-buf.cpp:79`) fails |
| `LogBuf`, step "request" | a message that exactly fills the frame has no room for the zero of vsnprintf and is dropped, not tried again (`log-buf.cpp:33`); the model leaves lengths out |
| `LogBuf`, `written` | never increased (`logfile.cpp:142`): the file grows past its size |
| `Config!Spelling` | a number whose name has a slash (`config.cpp:1008`) has a path that leads elsewhere |
| `Config!FreshTypes` with "object" | paths below an object made by the value constructor (`config.cpp:188`) start at the root |
| `Config!Copies` | update() names differences of a copied patch by uplinks that were never set (`config.cpp:686`); `DiffNamesChanges` leaves copies out |
| `Config!Updated` | update() takes content that is not valid (`config.cpp:1535`) |
| `Config!Rename` | rename looks neither whether the new name is taken nor whether it has a slash (`config.cpp:749`); here it is free |
| `Values!Load` | an array longer than object_len_max is written past its end (`config_factory.cpp:129`); the documents are shorter |
| `Schema!RangeOf` | an int range given by several texts fails the assertion `range_val_->len_ == 1` (`schema.cpp:497`) in a debug build; the model is of a build without, and no schema of the run has such a range |
| `Schema!InsideReal` | an upper bound of a real that is excluded is compared with the lower one (`schema.cpp:609`) |
| `Schema!Intervals` | an interval that does not parse keeps its place while the list is cut by one at its end (`schema.cpp:559`) |
| `Schema!Scan` | a malformed upper part is left out without a word when the lower part is good (`schema.cpp:434`) |
| `Schema!Answers` | a string in place of an integer under an interval is judged by its pointer (`schema.cpp:544`) |
| `Schema!EnumTakes` | each string of an array is judged by the number the first one spells (`schema.cpp:283`) |
| `Schema!Narrow` | a number of an enumeration is cut to an int before it is compared (`schema.cpp:186`) |

`ValuesJudged` says nothing about what is listed of an element in the last six
cases (`Plainly`), except that it is listed once. What it says of intervals is
said without the scanner: `WellFormed` is the grammar of the texts and `Within`
what they mean, a bound for each number by the side of the comma it stands on.

## 4. Fairness

* `RingBuffer!WriterFairSpec`: a thread inside a call goes on, timeouts expire,
  and a writer that was given a region commits or cancels it. Getting rw_mutex
  is strongly fair: boost::shared_mutex wakes every waiter when it opens, so a
  thread that finds it open again and again gets it. Readers and the thread that
  attaches them may stop for ever.
* `RingBuffer!ReadersGoOn`, the hypothesis of `FrameDelivered` alone: a reader's
  user goes on requesting and releases what it was lent. The two properties of
  writers hold without it.
* `Task!FairSpec`: threads and handlers are strongly fair, because signals come
  10 ms apart, in which a thread gets ahead, and the log's mutex goes to whoever
  asks again and again; a blocking call need not return; nobody has to start or
  stop a task.
* `Core!FairSpec`: callbacks return.
* `LogBuf!Spec`: weak fairness of each thread. As every thread logs finitely
  often (`MaxLogs`), the mutex is not taken away for ever. The logfile may stand
  still.
* `JPath!Spec`: the loop runs. `TaskIo`, `Config` and `Schema` state no fairness
  and no liveness.

Deadlock is not checked: callers may stop using the ring, tasks may stay idle,
bounded counters run out. That nothing waits for ever is stated as liveness.

## 5. What is proved

For every set of threads, readers, writers, tasks, buffers, applications,
documents and texts, every ring length and every number of workers, from the
assumptions the modules state about their constants and those named here:

* `RingBufferProofs`. `TypeCorrect`, `MutualExclusion` (`OneWriterAtATime`),
  `NeverDenied` (`DeniedUnreachable`), `CursorsFit` (`CursorFits`). The inductive invariant ties the stage
  of a thread to the locks: a thread past "share" has its writer's mutex and
  shares rw_mutex while it waits, a writer that owns the ring belongs to exactly
  one thread that is past "own", a reservation exists only in those stages. None
  of the properties is inductive alone: that no reservation is met in "own"
  needs the mutex to be held from request to commit, and that the owner is one
  needs `owner` to be given back only by its thread. `CursorFits` needs that all
  frame lengths are multiples of four and no smaller than a header.

  On top of it, `ChainInvariance`: from the cursor of every reader in the list as
  many headers as it has frames stored follow each other in memory, each where the
  one before leads (to what comes behind it, or by a redirect to the head), the
  last to the write cursor, and they go round the ring once at most (`Leads`,
  `ChainInv`). A new frame is written over nothing of that because its region lies
  in front of every reader (`RoomInv`), and it does so because each stage of
  request_buffer keeps what it has found out: a reader the scan has passed cannot
  come to stand in the way later, as it only moves towards the write cursor while
  the ring is shared or owned (`ScanInv`), and the list holds a reader exactly from
  its attachment to its removal, once (`ListInv`).
  What users get from that: `UnreadFramesKept` (`UnreadUntouched`), `LoansKept`
  (`HeldIntact`), `OneRetryEnough` (`RetryOnce`) follow from the chain.
  `CountsHold`: as many frames as `stored` says lie on it. `ChainsIntact`
  (`ChainIntact`) and `SerialsExpected` (`SerialExpected`) add the serial
  numbers; they hold where a reset does not meet a reader that came later
  (`SerialsAgree`: the ring never resets, or all readers are there from the
  start), and the code really differs outside of that (section 3).
  `RingImplementsQueue` (`BroadcastQueue`): every step of the ring is a step of
  `FrameQueue` or leaves it unchanged, with no such condition. Its queue of unread
  frames is read off memory by following the chain, a recursive function;
  what it gives when a frame is added or taken is proved by induction over the
  length of the chain, which rests on every set of numbers having a least one
  (`Least`).
* `TaskProofs`. `TypeCorrect`, `IdleIsQuiet` (`QuietWhenIdle`) and
  `SessionsImplemented`: every step of `Task` is a step of `TaskSession` or
  leaves it unchanged. The invariant says which threads exist at each point of
  start and stop (those above the index have been joined or not started yet), and
  who may hold the log's mutex.
* `TaskIoProofs`, when no task starts twice (`MaxStarts` <= 1). `TypeCorrect`
  (`MaxStarts` = 1), `Counted` (`RefCounts`), `NeverDeletedOpen`
  (`OpenBufferAlive`), `AllGivenBack` (`NothingLeft`), and `SizedOnce` (`RingSizedOnce`) when all who name a size for
  a buffer name the same (`SameSize`). A task opens its handles in the order of
  its configuration and closes them in the same order, so what it has open
  follows from its place and from how much it has still to do (`IsOpen`); with
  that in the invariant the references of a buffer are counted over handles and
  over the threads between add_buffer and the handle, or between the handle and
  remove_buffer. `RefCounts` alone is not inductive: a closing task could find a
  handle that was never opened. `SizedOnce` adds that a ring is new or allocated
  once, with the size all of them ask for, and that a task which is past its
  writer has found or made it so. It is about the memory: the assertion of
  `buffer.cpp:102` is a step that may end the process (`CheckStart`), and the
  theorem holds with that step taken either way, not of the assertion.
* `CoreProofs`, when every init succeeds (`AllComeUp`). `UniqueNames`
  (`NamesUnique`), `Shutdown` (`NothingLeft`), `Lifecycle` (`CallbackOrder`,
  refinement of `InstanceLife`), `SubtasksThere` (`CallsReachInstances`). The calls in progress say how far each instance
  is. While an install is on the stack its instances have been created up to the
  frame's counter (`Building`); during the shutdown one frame stands for the
  instances of one application already deleted, and the applications after it
  are gone (`Removing`). A session only begins by way of a frame that was pushed
  when its instance had been created (`Sessions`), and an instance about to be
  destroyed has been stopped or is being stopped by the frame on top
  (`Stopping`). Services start and stop other instances from within their own
  callbacks; that this cannot reach an instance before its create or after its
  destroy is what needs all parts together. `SubtasksThere` needs one assumption
  more, `SubtasksApart`: applications with services import nothing (`service.cpp`
  has no init) and a service names, of the instances of its own application, only
  itself or later ones. Then installs are nested so that an instance a service has
  found belongs to an application entered before it (`Nested`, `Newest`,
  `Reached`), and the shutdown, which goes from the last to the first (`Order`),
  stops the service before that instance is deleted. A service of an earlier
  instance of its own application stops one already deleted, as section 3 says.
* `LogBufProofs`. `RoomIsKept` (`RoomKept`): who was granted room, or asks for
  it, holds the writer's mutex, and the logfile only makes more room.
* `ConfigProofs`. `Converges` (`UpdateConverges`) and `SetReads` (`SetReadBack`)
  without any hypothesis, `PathsRoundTrip` (`PathRoundTrip`) and `DiffNames`
  (`DiffNamesChanges`) when a name is one token of a path (`PlainNames`) and no
  object is made by the value constructor alone (`NoFreshObjects`): outside of
  that the code really differs (section 3, `Config!Spelling` and
  `Config!FreshTypes`). The invariant has three parts. The contents of a value
  are as many as its length says (`Shaped`); then an update changes contents
  only, so the pairs it meets are the same afterwards, and each is equal or one
  it does not take. A location is names and indices in turn, and what it stands
  below is an element that is there (`Grown`); rename, which moves a whole
  subtree, is what makes this hard to keep. The configs of objects have their
  uplinks (`Linked`), in the patch unless it is a copy. From these, what get_path
  writes going up is computed part by part, and the walk of config::get over it
  by induction over the parts (`Least`): it is back at the location at the end of
  each. `DiffNames` adds that the path written in the patch is the one the tree
  itself would write, as an update only pairs objects of equal length. `SetReads` needs
  nothing of how a path came about: the walk goes by types and lengths, which
  set() leaves alone, and a whole number is not changed by being cut to one.
* `SchemaProofs`, when a name is one token of a path (`PlainNames`).
  `AbsencesReported` (`AbsentReported`) and `ListedPathsLeadBack`
  (`PathsLeadBack`). A path tells the place it is about (`Subject`): the value
  config::get comes to or, when it comes to none, the config and the name it
  ends with, which is why two missing parameters never share a path. The names
  on the way to that place are the range's own, so lines of different ranges
  differ (`LineInv`), and a range is walked once. The tree is a loaded one, and
  what is known of its paths is `ConfigProofs`'.
  `ValuesAreJudged` (`ValuesJudged`) has two halves. The first is about pure
  functions: on a text of any length that is well formed the scanner finds the
  brackets, the comma and the numbers, and the interval it makes holds what the
  text means (`ScansRight`); the range that is made of a declaration asks for the
  type and the length that were declared (`FitsAsked`), and what it answers for an
  element is what the declaration plainly wants (`ElementMeant`). The second is
  about the walk: the lines about a value under a range that was walked are those
  its elements make, answered by that range, and no other range adds or takes
  one (`JudgedInv`), whatever the order; a range looks at every value its path
  leads to (`LooksAll`). It takes one assumption more, `PlainSizes`: a "size" is an
  int, or a text that is an interval or that the scanner refuses. A text between
  the two, like one with an upper part that is no number, is cut as section 3
  says (`Schema!Scan`), which the schema did not mean.
* `JPathProofs`. `StaysInText` (`TypeOK`), `ReportsParts` (`PartFound`),
  `RefusesOnlyBroken` (`RefusedRightly`) for texts of every length, and `MovesOn`:
  a successful call on a text that is not empty has moved on, so the loop of its
  callers ends. The invariant says of each state of the automaton what has been
  read so far (only slashes, then a bracket or a name without special
  characters), and, once refused, which character makes a part impossible.

Only model-checked: liveness, and so the fairness, which is out of the prover's
reach. Each safety property of a run is stated by a theorem.

## 6. What is not modelled, and why

* The text of messages, printing, file names and errors of the file system, the
  parsing of JSON (jansson), the loading of libraries: data or pure input and
  output. Regular expressions of a schema appear only as the set of strings each
  matches.
* The data races on run_ and exited_: each access is one step here.
* What freed memory holds: in `TaskIo` closing a deleted handle finds the buffer
  it was on.
* `sync_rd0`'s unlocked look at the list of readers (the reader it keeps may be
  deleted, after which anything may happen), removal of writers in use, commits
  with bad arguments, requests from other threads during an install or a
  shutdown.
* In `Config` assignment and swap, which no code of the repository uses on a tree
  it then asks for paths, the epsilon of is_equal, and the cut of arrays at
  object_len_max. Numbers of the run are 0 and 1, as update and set only compare
  and copy them.
* In `Core` the schema check of a configuration, whose result is only logged; it
  is `Schema`. Services resolve their subtasks when they are created, and only to
  instances that exist then.
* Notifications of condition variables. A wait with a predicate is a step taken
  when the predicate holds, or its timeout; a notification lost between the test
  and the wait would not be seen by `FrameDelivered`.
* The test and traffic applications and the tests: they exercise what is
  modelled; what they assert of the frames they read is `ChainIntact` and
  `BroadcastQueue`.

## 7. Plan

Done: every component of the table in section 1 but the test traffic has its
module, each with the properties that make it correct, and proofs. `RingBuffer`, `Task` and their abstract specifications
came first, because everything else runs on them; then the handles of tasks, the
registry, the log ring, the paths, the parameters and the schema.

Left: in `RingBuffer`, the removal of a writer in use and a commit that is
refused.
