------------------------------- MODULE LogBuf -------------------------------
(* The log path of src/src/log-buf.cpp: every thread that logs puts its      *)
(* message, without waiting, into the ring "jgb#log" through one shared      *)
(* writer; the task of src/misc/logfile.cpp takes the messages out and       *)
(* writes them to a file it is meant to keep below a size.                   *)
(* The ring is RingBuffer's; here it is a count of frames a keeping reader   *)
(* has not released, and the writer's mutex, held from request to commit.    *)
EXTENDS Naturals, FiniteSets

CONSTANTS
    Threads,        \* the threads that log
    Capacity,       \* frames the ring holds before a request finds no room
    FileSize,       \* "size" of the logfile instance, in messages
    DebugToBuf,     \* log_buf_level lets debug messages into the ring
    MaxLogs,        \* bound: messages of each thread
    Nobody          \* the mutex is free

ASSUME LogAssumption ==
    /\ Capacity \in Nat \ {0} /\ FileSize \in Nat \ {0} /\ MaxLogs \in Nat
    /\ DebugToBuf \in BOOLEAN /\ Nobody \notin Threads

\* What vsnprintf makes of a message in the room LOG_SIZE leaves: it fits, it
\* is one byte too long or longer, or there is nothing to write.
Sizes == {"fits", "exact", "long", "none"}

VARIABLES
    holder,     \* the thread that holds the writer's mutex
    unread,     \* frames in the ring that the logfile has not released
    pc,         \* where each thread is
    size,       \* the message it logs
    try,        \* 1, or 2 for the second call of to_buf_lower
    ret,        \* what the second call returned
    logged,     \* messages each thread has started
    file,       \* messages in the current file
    written     \* logfile's count of what it wrote there

vars == <<holder, unread, pc, size, try, ret, logged, file, written>>

Init ==
    /\ holder = Nobody /\ unread = 0
    /\ pc = [t \in Threads |-> "out"]
    /\ size = [t \in Threads |-> "fits"]
    /\ try = [t \in Threads |-> 1]
    /\ ret = [t \in Threads |-> "length"]
    /\ logged = [t \in Threads |-> 0]
    /\ file = 0 /\ written = 0

-----------------------------------------------------------------------------
(* A thread that logs                                                        *)

\* to_buf: the level is below log_buf_level and there is a writer.
Log(t) ==
    /\ pc[t] = "out" /\ logged[t] < MaxLogs
    /\ pc' = [pc EXCEPT ![t] = "lock"]
    /\ \E s \in Sizes : size' = [size EXCEPT ![t] = s]
    /\ try' = [try EXCEPT ![t] = 1]
    /\ logged' = [logged EXCEPT ![t] = @ + 1]
    /\ UNCHANGED <<holder, unread, ret, file, written>>

\* The mutex is not waited for.
Lock_mutant(t) ==
    /\ pc[t] \in {"lock", "nested"}
    /\ holder' = t
    /\ pc' = [pc EXCEPT ![t] = "request"]
    /\ UNCHANGED <<unread, size, try, ret, logged, file, written>>

\* request_buffer waits for the mutex without a time limit, its own thread
\* included ("nested").
Lock(t) ==
    /\ pc[t] \in {"lock", "nested"} /\ holder = Nobody
    /\ holder' = t
    /\ pc' = [pc EXCEPT ![t] = "request"]
    /\ UNCHANGED <<unread, size, try, ret, logged, file, written>>

Granted(t) ==
    /\ pc[t] = "request" /\ unread < Capacity
    /\ pc' = [pc EXCEPT ![t] = "write"]
    /\ UNCHANGED <<holder, unread, size, try, ret, logged, file, written>>

\* The end of a call of to_buf_lower that gave the mutex back: with what r it
\* returned, and where to_buf goes on.
Returned(t, r) ==
    /\ holder' = Nobody
    /\ pc' = [pc EXCEPT ![t] = IF try[t] = 2 THEN "compare" ELSE "out"]
    /\ ret' = [ret EXCEPT ![t] = r]

\* The mutex is kept when the request is refused.
Refused_mutant(t) ==
    /\ pc[t] = "request" /\ unread = Capacity
    /\ pc' = [pc EXCEPT ![t] = "out"]
    /\ UNCHANGED <<holder, ret, unread, size, try, logged, file, written>>

\* The wait for the reader has a timeout of 0 and ends at once. Its debug
\* message is logged with the mutex held and comes back to to_buf.
Refused(t) ==
    /\ pc[t] = "request" /\ unread = Capacity
    /\ IF DebugToBuf
         THEN /\ pc' = [pc EXCEPT ![t] = "nested"]
              /\ UNCHANGED <<holder, ret>>
         ELSE Returned(t, "failed")
    /\ UNCHANGED <<unread, size, try, logged, file, written>>

\* vsnprintf left room: the frame is committed.
Store(t) ==
    /\ pc[t] = "write" /\ size[t] = "fits"
    /\ unread' = unread + 1
    /\ Returned(t, "length")
    /\ UNCHANGED <<size, try, logged, file, written>>

\* Nothing to write, or no room for the terminating zero: the frame is
\* cancelled, and only a length above LOG_SIZE makes to_buf ask again, for
\* LOG_SIZE once more.
Cancel(t) ==
    /\ pc[t] = "write" /\ size[t] /= "fits"
    /\ IF size[t] = "long" /\ try[t] = 1
         THEN /\ pc' = [pc EXCEPT ![t] = "lock"]
              /\ try' = [try EXCEPT ![t] = 2]
              /\ holder' = Nobody
              /\ UNCHANGED ret
         ELSE /\ Returned(t, IF size[t] = "none" THEN "failed" ELSE "length")
              /\ UNCHANGED try
    /\ UNCHANGED <<unread, size, logged, file, written>>

\* to_buf compares what its two calls returned.
Compare(t) ==
    /\ pc[t] = "compare"
    /\ pc' = [pc EXCEPT ![t] = "out"]
    /\ UNCHANGED <<holder, unread, size, try, ret, logged, file, written>>

-----------------------------------------------------------------------------
(* The logfile task                                                          *)

\* request_frame, context::write and release: the file is closed, and the
\* next one opened, when the message and the count exceed the size; a message
\* of a level the instance does not keep is left out. A thread that logs while
\* it waits for this reader has the reader's mutex.
WriteFile ==
    /\ unread > 0
    /\ \A t \in Threads : pc[t] /= "nested"
    /\ unread' = unread - 1
    /\ LET rotate == 1 + written > FileSize
           here   == IF rotate THEN 0 ELSE file
       IN  /\ written' = IF rotate THEN 0 ELSE written
           /\ file' \in {here, here + 1}
    /\ UNCHANGED <<holder, pc, size, try, ret, logged>>

-----------------------------------------------------------------------------
ThreadStep(t) ==
    \/ Log(t) \/ Lock(t) \/ Granted(t) \/ Refused(t)
    \/ Store(t) \/ Cancel(t) \/ Compare(t)

Next == (\E t \in Threads : ThreadStep(t)) \/ WriteFile

\* Threads run, and a mutex that is free for good is given to a thread that
\* waits: as each thread logs finitely often (MaxLogs), weak fairness of each
\* thread is enough for it to get the mutex. The logfile task may stand still.
Spec == Init /\ [][Next]_vars /\ \A t \in Threads : WF_vars(ThreadStep(t))

-----------------------------------------------------------------------------
\* Room granted to a thread is still there when it writes, and nobody else
\* writes meanwhile: the writer's mutex, taken in request_buffer and given
\* back on every way out of to_buf_lower, ties the two together.
RoomKept ==
    \A t \in Threads :
        pc[t] = "write" =>
            /\ unread < Capacity
            /\ \A u \in Threads \ {t} : pc[u] \notin {"request", "write"}

\* A thread that logs goes on, whether or not anybody reads the ring.
LogReturns == \A t \in Threads : pc[t] /= "out" ~> pc[t] = "out"
=============================================================================
