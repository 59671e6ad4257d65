------------------------------- MODULE TaskIo -------------------------------
(***************************************************************************)
(* Who keeps a buffer alive.  buffer_manager (buffer.cpp) finds or creates  *)
(* a buffer by its name and counts the references to it; a task (core.cpp)  *)
(* opens the readers and writers of its configuration when it starts, each  *)
(* with a reference of its own, and closes what its vectors readers_ and    *)
(* writers_ list when it stops or cannot be set up.                         *)
(*                                                                          *)
(* Every task is started and stopped by a thread of its own.  A step is one *)
(* critical section: of buffer_manager's rw_mutex or of a buffer's.         *)
(*                                                                          *)
(* release_io() leaves the vectors as they are, so a task that starts again *)
(* also lists handles deleted long ago.  Closing one reads buf_ from freed  *)
(* memory: it is modelled as finding the buffer that was there.  (When the  *)
(* allocator reuses the memory for a handle opened since, the two entries   *)
(* are one pointer and the same buffer is released as often.)               *)
(*                                                                          *)
(* sync_rd0 is not modelled: how a clone's cursor moves is in RingBuffer.   *)
(***************************************************************************)
EXTENDS Integers, Sequences, FiniteSets

CONSTANTS
    Tasks,
    BufIds,      \* names of buffers
    ReadsFrom,   \* the buf_id of each reader in a task's configuration
    WritesTo,    \* the buf_id of each writer
    BufSize,     \* its buf_size, more than a header; 0: it has none
    MaxStarts    \* bound: how often a task is started

ASSUME IoAssumption ==
    /\ IsFiniteSet(Tasks) /\ "none" \notin BufIds
    /\ ReadsFrom \in [Tasks -> Seq(BufIds)]
    /\ WritesTo \in [Tasks -> Seq(BufIds)]
    /\ BufSize \in [Tasks -> Seq(Nat)]
    /\ \A t \in Tasks : Len(BufSize[t]) = Len(WritesTo[t])
    /\ MaxStarts \in Nat

VARIABLES
    \* buffer_manager and its buffers
    made,      \* buffer objects created so far under each name
    ref,       \* ref_ of the object in buffers_ under each name; 0: there is none
    ring,      \* len_ of that object, and how often its memory was allocated:
               \* start_ is null when that is 0
    \* handles: a reader or writer object is <<task, kind, start, index>>, with
    \* the buffer it is on; a buffer object is <<name, which one>>
    attached,  \* handles in a buffer's readers_ or writers_, not deleted yet
    buf_,      \* the buffer of each handle, left behind when it is deleted
    \* struct task
    readers_, writers_,
    starts,    \* how often it has been started
    \* the thread that starts and stops it
    tpc, buf, todo

managerVars == <<made, ref, ring>>
handleVars  == <<attached, buf_>>
taskVars    == <<readers_, writers_, starts>>
vars == <<managerVars, handleVars, taskVars, tpc, buf, todo>>

NoBuffer == <<"none", 0>>
NoRing == [len |-> 0, news |-> 0]

InManager(b) == b # NoBuffer /\ ref[b[1]] > 0 /\ made[b[1]] = b[2]

-----------------------------------------------------------------------------

\* Mutant: a buffer that is there is not counted once more.
AddBuffer_mutant(id) ==
    /\ IF ref[id] > 0
       THEN UNCHANGED <<made, ring>>
       ELSE /\ made' = [made EXCEPT ![id] = @ + 1]
            /\ ring' = [ring EXCEPT ![id] = NoRing]
    /\ ref' = [ref EXCEPT ![id] = 1]

\* buffer_manager::add_buffer.
AddBuffer(id) ==
    /\ IF ref[id] > 0
       THEN UNCHANGED <<made, ring>>
       ELSE /\ made' = [made EXCEPT ![id] = @ + 1]
            /\ ring' = [ring EXCEPT ![id] = NoRing]
    /\ ref' = [ref EXCEPT ![id] = @ + 1]

\* buffer_manager::remove_buffer: the last one deletes the buffer; one that is
\* not in the list any more is left alone.
RemoveBuffer(b) ==
    ref' = IF InManager(b) THEN [ref EXCEPT ![b[1]] = @ - 1] ELSE ref

\* The handles a start opens, as <<kind, index>>, readers first.
Configured(t) ==
    [i \in 1..Len(ReadsFrom[t]) + Len(WritesTo[t]) |->
        IF i <= Len(ReadsFrom[t]) THEN <<"reader", i>>
                                  ELSE <<"writer", i - Len(ReadsFrom[t])>>]

BufId(t, slot) ==
    IF slot[1] = "reader" THEN ReadsFrom[t][slot[2]] ELSE WritesTo[t][slot[2]]

\* task::start calls init_io.
Start(t) ==
    /\ tpc[t] = "idle"
    /\ starts[t] < MaxStarts
    /\ starts' = [starts EXCEPT ![t] = @ + 1]
    /\ tpc' = [tpc EXCEPT ![t] = "open"]
    /\ todo' = [todo EXCEPT ![t] = Configured(t)]
    /\ UNCHANGED <<managerVars, handleVars, readers_, writers_, buf>>

\* init_io_readers and init_io_writers: the next buffer of the configuration.
FindBuffer(t) ==
    /\ tpc[t] = "open"
    /\ todo[t] # <<>>
    /\ LET id == BufId(t, Head(todo[t])) IN
          /\ AddBuffer(id)
          /\ buf' = [buf EXCEPT ![t] = <<id, made'[id]>>]
    /\ tpc' = [tpc EXCEPT ![t] = "attach"]
    /\ UNCHANGED <<handleVars, taskVars, todo>>

\* buffer::add_reader or add_writer, and the handle is listed.
Attach(t) ==
    LET slot == Head(todo[t])
        h == <<t, slot[1], starts[t], slot[2]>>
    IN
    /\ tpc[t] = "attach"
    /\ attached' = attached \cup {h}
    /\ buf_' = [x \in DOMAIN buf_ \cup {h} |-> IF x = h THEN buf[t] ELSE buf_[x]]
    /\ IF slot[1] = "reader"
       THEN /\ readers_' = [readers_ EXCEPT ![t] = Append(@, h)]
            /\ UNCHANGED writers_
       ELSE /\ writers_' = [writers_ EXCEPT ![t] = Append(@, h)]
            /\ UNCHANGED readers_
    /\ buf' = [buf EXCEPT ![t] = NoBuffer]
    /\ todo' = [todo EXCEPT ![t] = Tail(@)]
    /\ tpc' = [tpc EXCEPT ![t] = IF slot[1] = "writer" /\ BufSize[t][slot[2]] > 0
                                THEN "look" ELSE "open"]
    /\ UNCHANGED <<managerVars, starts>>

\* The buffer the writer opened last is on, and the size it asks for.
Sizing(t) ==
    LET wr == writers_[t][Len(writers_[t])]
    IN  [id |-> buf_[wr][1], size |-> BufSize[t][wr[4]]]

\* buffer::resize looks at len_ before it takes the lock: a buffer that has
\* memory keeps it.
Look(t) ==
    /\ tpc[t] = "look"
    /\ tpc' = [tpc EXCEPT ![t] = IF ring[Sizing(t).id].len > 0 THEN "open" ELSE "check"]
    /\ UNCHANGED <<managerVars, handleVars, taskVars, buf, todo>>

\* It asserts, still without the lock, that there is no memory. Another task may
\* have allocated it since: a build with assertions (DEBUG) ends here, one
\* without goes on.
CheckStart(t) ==
    /\ tpc[t] = "check"
    /\ \/ tpc' = [tpc EXCEPT ![t] = "resize"]
       \/ /\ ring[Sizing(t).id].news > 0
          /\ tpc' = [tpc EXCEPT ![t] = "aborted"]
    /\ UNCHANGED <<managerVars, handleVars, taskVars, buf, todo>>

\* Mutant: len_ is not looked at again.
Resize_mutant(t) ==
    /\ tpc[t] = "resize"
    /\ ring' = [ring EXCEPT ![Sizing(t).id] = [len |-> Sizing(t).size, news |-> @.news + 1]]
    /\ tpc' = [tpc EXCEPT ![t] = "open"]
    /\ UNCHANGED <<made, ref, handleVars, taskVars, buf, todo>>

\* With the lock it looks for the same length only: memory of another length,
\* allocated in between, would be replaced. start_ is set before len_, but the
\* two looks without the lock read one of them each: a look between the two is
\* as good as one before (Look) or after (CheckStart).
Resize(t) ==
    /\ tpc[t] = "resize"
    /\ IF ring[Sizing(t).id].len = Sizing(t).size
       THEN UNCHANGED ring
       ELSE ring' = [ring EXCEPT ![Sizing(t).id] =
                        [len |-> Sizing(t).size, news |-> @.news + 1]]
    /\ tpc' = [tpc EXCEPT ![t] = "open"]
    /\ UNCHANGED <<made, ref, handleVars, taskVars, buf, todo>>

\* init_io is done; setup succeeds, or release_io follows at once.
Opened(t) ==
    /\ tpc[t] = "open"
    /\ todo[t] = <<>>
    /\ \/ /\ tpc' = [tpc EXCEPT ![t] = "running"]
          /\ UNCHANGED todo
       \/ /\ tpc' = [tpc EXCEPT ![t] = "close"]
          /\ todo' = [todo EXCEPT ![t] = readers_[t] \o writers_[t]]
    /\ UNCHANGED <<managerVars, handleVars, taskVars, buf>>

\* Mutant: only the readers are closed.
Stop_mutant(t) ==
    /\ tpc[t] = "running"
    /\ tpc' = [tpc EXCEPT ![t] = "close"]
    /\ todo' = [todo EXCEPT ![t] = readers_[t]]
    /\ UNCHANGED <<managerVars, handleVars, taskVars, buf>>

\* task::stop calls release_io, when the threads are gone.
Stop(t) ==
    /\ tpc[t] = "running"
    /\ tpc' = [tpc EXCEPT ![t] = "close"]
    /\ todo' = [todo EXCEPT ![t] = readers_[t] \o writers_[t]]
    /\ UNCHANGED <<managerVars, handleVars, taskVars, buf>>

\* buffer::remove_reader or remove_writer: deletes the handle if it is there.
Detach(t) ==
    /\ tpc[t] = "close"
    /\ todo[t] # <<>>
    /\ attached' = attached \ {Head(todo[t])}
    /\ buf' = [buf EXCEPT ![t] = buf_[Head(todo[t])]]
    /\ todo' = [todo EXCEPT ![t] = Tail(@)]
    /\ tpc' = [tpc EXCEPT ![t] = "unref"]
    /\ UNCHANGED <<managerVars, buf_, taskVars>>

\* Mutant: the reference is kept.
Unref_mutant(t) ==
    /\ tpc[t] = "unref"
    /\ buf' = [buf EXCEPT ![t] = NoBuffer]
    /\ tpc' = [tpc EXCEPT ![t] = "close"]
    /\ UNCHANGED <<managerVars, handleVars, taskVars, todo>>

Unref(t) ==
    /\ tpc[t] = "unref"
    /\ RemoveBuffer(buf[t])
    /\ buf' = [buf EXCEPT ![t] = NoBuffer]
    /\ tpc' = [tpc EXCEPT ![t] = "close"]
    /\ UNCHANGED <<made, ring, handleVars, taskVars, todo>>

\* The vectors still list what was closed.
Closed(t) ==
    /\ tpc[t] = "close"
    /\ todo[t] = <<>>
    /\ tpc' = [tpc EXCEPT ![t] = "idle"]
    /\ UNCHANGED <<managerVars, handleVars, taskVars, buf, todo>>

-----------------------------------------------------------------------------

Init ==
    /\ made = [id \in BufIds |-> 0]
    /\ ref = [id \in BufIds |-> 0]
    /\ ring = [id \in BufIds |-> NoRing]
    /\ attached = {}
    /\ buf_ = <<>>
    /\ readers_ = [t \in Tasks |-> <<>>]
    /\ writers_ = [t \in Tasks |-> <<>>]
    /\ starts = [t \in Tasks |-> 0]
    /\ tpc = [t \in Tasks |-> "idle"]
    /\ buf = [t \in Tasks |-> NoBuffer]
    /\ todo = [t \in Tasks |-> <<>>]

TaskStep(t) ==
    \/ Start(t) \/ FindBuffer(t) \/ Attach(t)
    \/ Look(t) \/ CheckStart(t) \/ Resize(t)
    \/ Opened(t) \/ Stop(t) \/ Detach(t) \/ Unref(t) \/ Closed(t)

\* A failed assertion ends the process, and with it every thread.
Next ==
    /\ \A t \in Tasks : tpc[t] # "aborted"
    /\ \E t \in Tasks : TaskStep(t)

Spec == Init /\ [][Next]_vars

-----------------------------------------------------------------------------

Handles == Tasks \X {"reader", "writer"} \X (1..MaxStarts) \X Nat
Buffers == (BufIds \X Nat) \cup {NoBuffer}

TypeOK ==
    /\ made \in [BufIds -> Nat]
    /\ ref \in [BufIds -> Nat]
    /\ ring \in [BufIds -> [len : Nat, news : Nat]]
    /\ attached \subseteq Handles
    /\ DOMAIN buf_ \subseteq Handles
    /\ \A h \in DOMAIN buf_ : buf_[h] \in Buffers
    /\ attached \subseteq DOMAIN buf_
    /\ \A t \in Tasks : \A i \in DOMAIN readers_[t] : readers_[t][i] \in DOMAIN buf_
    /\ \A t \in Tasks : \A i \in DOMAIN writers_[t] : writers_[t][i] \in DOMAIN buf_
    /\ starts \in [Tasks -> 0..MaxStarts]
    /\ tpc \in [Tasks -> {"idle", "open", "attach", "look", "check", "resize", "aborted",
                         "running", "close", "unref"}]
    /\ buf \in [Tasks -> Buffers]

\* Every reference counted is one somebody still has to give back: an open
\* handle, or a thread on its way to open or from closing one.
RefCounts ==
    \A id \in BufIds :
        ref[id] = Cardinality({h \in attached : buf_[h] = <<id, made[id]>>})
                  + Cardinality({t \in Tasks : buf[t] = <<id, made[id]>>})

\* A buffer is not deleted while somebody has it open, as the assertion in the
\* destructor of buffer (buffer.cpp:81) means to ensure.
OpenBufferAlive ==
    /\ \A h \in attached : InManager(buf_[h])
    /\ \A t \in Tasks : tpc[t] = "attach" => InManager(buf[t])

\* The memory of a ring is allocated once, however many tasks size it at the same
\* time, and a task that runs has a ring of the size it asked for: also in a build
\* where a task goes on past the assertion of buffer.cpp:102 that another has made
\* false. (They all ask for the same size: MCTaskIo.)
RingSizedOnce ==
    /\ \A id \in BufIds : ring[id].news <= 1
    /\ \A t \in Tasks : tpc[t] = "running" =>
         \A i \in {i \in DOMAIN WritesTo[t] : BufSize[t][i] > 0} :
           ring[WritesTo[t][i]].len = BufSize[t][i]

\* When every task has stopped, no handle is open and no buffer is left.
NothingLeft ==
    (\A t \in Tasks : tpc[t] = "idle") =>
        attached = {} /\ \A id \in BufIds : ref[id] = 0
=============================================================================
