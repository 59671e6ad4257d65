---------------------------- MODULE RingBuffer ----------------------------
(***************************************************************************)
(* The shared frame buffer of src/src/buffer.cpp: one ring of bytes, any    *)
(* number of writers that take turns (owner_), and any number of readers    *)
(* that each consume every frame at their own pace.                         *)
(*                                                                          *)
(* A writer reserves a contiguous region (writer::request_buffer), fills it *)
(* in place and publishes it (writer::commit) or gives it back              *)
(* (writer::cancel).  A reader borrows the oldest frame it has not read     *)
(* (reader::request_frame) and hands it back (reader::release).  Both work  *)
(* on the ring's own memory, so everything rests on where the cursors are.  *)
(*                                                                          *)
(* Grain.  One step is what one thread does between two points where        *)
(* another thread can get in: a mutex it blocks on, a condition variable it *)
(* sleeps on, an unlock followed by a lock.  The acknowledgements of one    *)
(* commit, one short critical section per reader, are one step: each        *)
(* touches only that reader, and the shared lock on rw_mutex keeps the list *)
(* of readers fixed meanwhile.                                              *)
(*                                                                          *)
(* Init is the state just after buffer::resize() on a new buffer.           *)
(***************************************************************************)
EXTENDS Integers, Sequences, FiniteSets

CONSTANTS
    Readers,      \* reader objects
    Writers,      \* writer objects
    Threads,      \* threads that write
    WriterOf,     \* the writer each thread uses; several may share one
    Discardable,  \* readers whose discard_ flag is set
    InitReaders,  \* readers_ at the start, in list order
    BufLen,       \* buffer::len_, in bytes
    FrameLens,    \* the lengths writers ask for
    Offsets,      \* the start_offset values passed to commit
    SerialMod,    \* serial numbers wrap: 2^32 in the code
    NoThread,     \* nobody holds this mutex
    NoWriter,     \* owner_ = nullptr
    MayRepeat     \* TRUE: a caller may request again before it commits

HdrLen == 16      \* sizeof(struct frame_header)
NoPos  == -1      \* a reader's cur_ = nullptr: never acknowledged yet
NoFrame == [pos |-> NoPos, serial |-> 0, len |-> 0, off |-> 0]

\* JGB_ALIGN(x, 4).
Align4(x) == ((x + 3) \div 4) * 4

\* The bytes request_buffer sets aside for a payload of n bytes.
FrameLen(n) == Align4(n) + HdrLen

ASSUME SizeAssumption ==
    /\ BufLen \in Nat /\ BufLen > HdrLen
    /\ SerialMod \in Nat /\ SerialMod > 1
    /\ FrameLens \subseteq Nat \ {0}
    /\ Offsets \subseteq Nat

ASSUME ThreadAssumption ==
    /\ WriterOf \in [Threads -> Writers]
    /\ NoThread \notin Threads
    /\ NoWriter \notin Writers
    /\ MayRepeat \in BOOLEAN

ASSUME ReaderAssumption ==
    /\ Discardable \subseteq Readers
    /\ InitReaders \in Seq(Readers)
    /\ \A i, j \in DOMAIN InitReaders :
          InitReaders[i] = InitReaders[j] => i = j

VARIABLES
    \* struct buffer
    cur,        \* the write cursor, as an offset from start_
    serial,     \* the serial number of the next frame
    owner,      \* the writer that may write now
    mem,        \* the frame headers now intact in the ring's memory
    readers_,   \* the list of attached readers
    \* buffer::Impl::rw_mutex, a boost::shared_mutex
    sharers,    \* threads that hold it shared
    xwait,      \* exclusive_waiting_blocked: newcomers may not share it
    \* struct writer
    wmutex,     \* the thread that holds writer::Impl::mutex
    requested,  \* requested_len_
    reserved,   \* reserved_len_
    \* struct reader
    rcur, stored, rserial, holding,
    \* the callers
    pc,         \* where each writing thread is
    len,        \* the length it asked for
    idx,        \* the reader its wait loop has reached
    rpc,        \* where each reader's thread is, or the reader itself
    frm,        \* the frame that thread was given
    mpc         \* where the thread that attaches and detaches readers is

bufVars    == <<cur, serial, owner, mem, readers_>>
lockVars   == <<sharers, xwait>>
writerVars == <<wmutex, requested, reserved>>
readerVars == <<rcur, stored, rserial, holding>>
callVars   == <<pc, len, idx>>
userVars   == <<rpc, frm>>
vars == <<bufVars, lockVars, writerVars, readerVars, callVars, userVars, mpc>>

-----------------------------------------------------------------------------
(* Memory and cursors.                                                      *)

\* Mutant: serial numbers never wrap.
Inc_mutant(s) == s + 1

Inc(s) == (s + 1) % SerialMod
Headers == [pos : 0..BufLen, serial : 0..SerialMod - 1, len : Nat, off : Nat]

Attached == {readers_[i] : i \in DOMAIN readers_}

\* frame_header::total_len().
TotalLen(h) == Align4(h.off + h.len) + HdrLen

\* A header whose len is 0 sends the reader back to the start of the ring.
IsRedirect(h) == h.len = 0

\* What is left of memory m when the bytes lo..hi-1 are written over.
Overwrite(m, lo, hi) == {h \in m : h.pos + HdrLen <= lo \/ hi <= h.pos}

\* Mutant: the cursor goes back only when nothing at all is left.
Advance_mutant(p) == IF p >= BufLen THEN 0 ELSE p

\* A cursor too close to the end for another header goes back to the start.
Advance(p) == IF p + HdrLen > BufLen THEN 0 ELSE p

\* Mutant: a reader does not go back to the start where a writer does.
NextPos_mutant(h) == IF IsRedirect(h) THEN 0 ELSE h.pos + TotalLen(h)

\* Where the cursor of a reader goes past frame h.
NextPos(h) == IF IsRedirect(h) THEN 0 ELSE Advance(h.pos + TotalLen(h))

HeaderAt(p) == {h \in mem : h.pos = p}

-----------------------------------------------------------------------------
(* The reader's cursor moves: shared by request_frame, by release() called  *)
(* by the reader's user and by release() called by a writer that discards.  *)

\* rd_release_cond.notify_one(): the writer asleep on r looks again.
Wake(r) ==
    pc' = [t \in Threads |->
              IF pc[t] = "sleep" /\ readers_[idx[t]] = r
              THEN "scan" ELSE pc[t]]

\* The frame h under r's cursor is consumed.
Consume(r, h) ==
    /\ rcur' = [rcur EXCEPT ![r] = NextPos(h)]
    /\ stored' = [stored EXCEPT ![r] = @ - 1]
    /\ rserial' = [rserial EXCEPT ![r] = Inc(@)]

-----------------------------------------------------------------------------
(* Reader threads.                                                          *)

\* Mutant: the reader waits for a second frame before it takes the first.
Borrow_mutant(r) ==
    /\ rpc[r] \in {"idle", "retry"}
    /\ stored[r] > 1
    /\ \E h \in HeaderAt(rcur[r]) :
          /\ ~IsRedirect(h)
          /\ frm' = [frm EXCEPT ![r] = h]
    /\ holding' = [holding EXCEPT ![r] = TRUE]
    /\ rpc' = [rpc EXCEPT ![r] = "held"]
    /\ UNCHANGED <<bufVars, lockVars, writerVars, rcur, stored, rserial,
                   callVars, mpc>>

\* request_frame finds a frame of data: it lends it to the caller.
Borrow(r) ==
    /\ rpc[r] \in {"idle", "retry"}
    /\ stored[r] > 0
    /\ \E h \in HeaderAt(rcur[r]) :
          /\ ~IsRedirect(h)
          /\ frm' = [frm EXCEPT ![r] = h]
    /\ holding' = [holding EXCEPT ![r] = TRUE]
    /\ rpc' = [rpc EXCEPT ![r] = "held"]
    /\ UNCHANGED <<bufVars, lockVars, writerVars, rcur, stored, rserial,
                   callVars, mpc>>

\* Mutant: the redirect header is counted off but the cursor stays on it.
FollowRedirect_mutant(r) ==
    /\ rpc[r] \in {"idle", "retry"}
    /\ stored[r] > 0
    /\ \E h \in HeaderAt(rcur[r]) : IsRedirect(h)
    /\ stored' = [stored EXCEPT ![r] = @ - 1]
    /\ rserial' = [rserial EXCEPT ![r] = Inc(@)]
    /\ Wake(r)
    /\ rpc' = [rpc EXCEPT ![r] = IF @ = "idle" THEN "retry" ELSE "idle"]
    /\ UNCHANGED <<bufVars, lockVars, writerVars, rcur, holding, len, idx, frm, mpc>>

\* request_frame finds a redirect header: the cursor returns to the start and
\* the call is tried once more; a second redirect would be reported to the
\* caller as JGB_ERR_RETRY.
FollowRedirect(r) ==
    /\ rpc[r] \in {"idle", "retry"}
    /\ stored[r] > 0
    /\ \E h \in HeaderAt(rcur[r]) : IsRedirect(h) /\ Consume(r, h)
    /\ Wake(r)
    /\ rpc' = [rpc EXCEPT ![r] = IF @ = "idle" THEN "retry" ELSE "idle"]
    /\ UNCHANGED <<bufVars, lockVars, writerVars, holding, len, idx, frm, mpc>>

\* The second attempt finds nothing until its timeout.  (A first attempt that
\* times out changes nothing.)
RetryTimeout(r) ==
    /\ rpc[r] = "retry"
    /\ stored[r] = 0
    /\ rpc' = [rpc EXCEPT ![r] = "idle"]
    /\ UNCHANGED <<bufVars, lockVars, writerVars, readerVars, callVars, frm, mpc>>

\* The caller hands its frame back: reader::release() consumes whatever is
\* under the cursor by then, or nothing.
Release(r) ==
    /\ rpc[r] = "held"
    /\ rpc' = [rpc EXCEPT ![r] = "idle"]
    /\ frm' = [frm EXCEPT ![r] = NoFrame]
    /\ \/ /\ stored[r] > 0
          /\ \E h \in HeaderAt(rcur[r]) : Consume(r, h)
          /\ holding' = [holding EXCEPT ![r] = FALSE]
          /\ Wake(r)
       \/ /\ stored[r] = 0
          /\ UNCHANGED <<readerVars, pc>>
    /\ UNCHANGED <<bufVars, lockVars, writerVars, len, idx, mpc>>

-----------------------------------------------------------------------------
(* Writer threads: writer::request_buffer.                                  *)

\* unlock_shared(): the last one out lets the exclusive waiter have a go.
Unshare(t) ==
    /\ sharers' = sharers \ {t}
    /\ xwait' = (xwait /\ sharers # {t})

\* The call returns and its locals go; p is where the thread is then.
Return(t, p) ==
    /\ Unshare(t)
    /\ pc' = [pc EXCEPT ![t] = p]
    /\ len' = [len EXCEPT ![t] = 0]
    /\ idx' = [idx EXCEPT ![t] = 1]

\* Give up: every lock is released and the call returns an error.
Abandon(t) ==
    /\ wmutex' = [wmutex EXCEPT ![WriterOf[t]] = NoThread]
    /\ Return(t, "idle")

\* Mutant: the writer's mutex is not respected.
LockWriter_mutant(t) ==
    /\ pc[t] = "idle"
    /\ \E n \in FrameLens :
          /\ FrameLen(n) <= BufLen
          /\ len' = [len EXCEPT ![t] = n]
    /\ wmutex' = [wmutex EXCEPT ![WriterOf[t]] = t]
    /\ pc' = [pc EXCEPT ![t] = "share"]
    /\ UNCHANGED <<bufVars, lockVars, requested, reserved, readerVars, idx,
                   userVars, mpc>>

\* The arguments are good and the writer's mutex is free.
LockWriter(t) ==
    /\ pc[t] = "idle"
    /\ wmutex[WriterOf[t]] = NoThread
    /\ \E n \in FrameLens :
          /\ FrameLen(n) <= BufLen
          /\ len' = [len EXCEPT ![t] = n]
    /\ wmutex' = [wmutex EXCEPT ![WriterOf[t]] = t]
    /\ pc' = [pc EXCEPT ![t] = "share"]
    /\ UNCHANGED <<bufVars, lockVars, requested, reserved, readerVars, idx,
                   userVars, mpc>>

\* shared_lock on rw_mutex.
ShareList(t) ==
    /\ pc[t] = "share"
    /\ ~xwait
    /\ sharers' = sharers \cup {t}
    /\ pc' = [pc EXCEPT ![t] = "own"]
    /\ UNCHANGED <<bufVars, xwait, writerVars, readerVars, len, idx, userVars, mpc>>

\* Mutant: another writer's ownership is overridden.
TakeOwnership_mutant(t) ==
    /\ pc[t] = "own"
    /\ owner' = WriterOf[t]
    /\ reserved' = [reserved EXCEPT ![WriterOf[t]] = FrameLen(len[t])]
    /\ pc' = [pc EXCEPT ![t] = "scan"]
    /\ UNCHANGED <<cur, serial, mem, readers_, lockVars, wmutex, requested,
                   readerVars, len, idx, userVars, mpc>>

\* acquire_buffer_ownership() succeeds.  A reservation not yet committed makes
\* the request fail with JGB_ERR_DENIED.
TakeOwnership(t) ==
    LET w == WriterOf[t] IN
    /\ pc[t] = "own"
    /\ owner \in {NoWriter, w}
    /\ IF reserved[w] > 0
       THEN /\ owner' = NoWriter
            /\ Abandon(t)
            /\ UNCHANGED reserved
       ELSE /\ owner' = w
            /\ reserved' = [reserved EXCEPT ![w] = FrameLen(len[t])]
            /\ pc' = [pc EXCEPT ![t] = "scan"]
            /\ UNCHANGED <<lockVars, wmutex, len, idx>>
    /\ UNCHANGED <<cur, serial, mem, readers_, requested, readerVars, userVars, mpc>>

\* Mutant: the wait for the ring has no timeout.
OwnershipTimeout_mutant(t) ==
    /\ FALSE
    /\ Abandon(t)
    /\ UNCHANGED <<bufVars, requested, reserved, readerVars, userVars, mpc>>

\* acquire_buffer_ownership() times out.
OwnershipTimeout(t) ==
    /\ pc[t] = "own"
    /\ owner \notin {NoWriter, WriterOf[t]}
    /\ Abandon(t)
    /\ UNCHANGED <<bufVars, requested, reserved, readerVars, userVars, mpc>>

\* The three ways to place a frame of n bytes: after the cursor, before it
\* behind a redirect header, or at the start of a ring nobody is reading.
FitsTail(n) == cur + n <= BufLen
FitsHead(n) == ~FitsTail(n) /\ n <= cur
NeedsReset(n) == ~FitsTail(n) /\ ~FitsHead(n)

\* Mutant: a full ring is taken for an empty one.
Clear_mutant(r, n) ==
    \/ rcur[r] = NoPos
    \/ rcur[r] = cur
    \/ FitsTail(n) /\ cur < rcur[r] /\ cur + n <= rcur[r]
    \/ FitsTail(n) /\ cur > rcur[r]
    \/ FitsHead(n) /\ cur > rcur[r] /\ n <= rcur[r]

\* wait_reader_scenario_1, _2 and _3: reader r is out of the way.
Clear(r, n) ==
    \/ rcur[r] = NoPos
    \/ rcur[r] = cur /\ stored[r] = 0
    \/ FitsTail(n) /\ cur < rcur[r] /\ cur + n <= rcur[r]
    \/ FitsTail(n) /\ cur > rcur[r]
    \/ FitsHead(n) /\ cur > rcur[r] /\ n <= rcur[r]

Scanning(t) == pc[t] = "scan" /\ idx[t] <= Len(readers_)

\* This reader is out of the way; the loop moves on.
PassReader(t) ==
    /\ Scanning(t)
    /\ Clear(readers_[idx[t]], reserved[WriterOf[t]])
    /\ idx' = [idx EXCEPT ![t] = @ + 1]
    /\ UNCHANGED <<bufVars, lockVars, writerVars, readerVars, pc, len, userVars, mpc>>

\* wait_reader_release() on this reader: it sees a discardable reader that
\* holds nothing and unlocks, or goes to sleep until the reader moves.
WaitReader(t) ==
    LET r == readers_[idx[t]] IN
    /\ Scanning(t)
    /\ ~Clear(r, reserved[WriterOf[t]])
    /\ pc' = [pc EXCEPT ![t] =
                 IF r \in Discardable /\ ~holding[r] THEN "drop" ELSE "sleep"]
    /\ UNCHANGED <<bufVars, lockVars, writerVars, readerVars, len, idx, userVars, mpc>>

\* rd->release() called by the writer, the reader's mutex retaken.
DropFrame(t) ==
    LET r == readers_[idx[t]] IN
    /\ pc[t] = "drop"
    /\ pc' = [pc EXCEPT ![t] = "scan"]
    /\ \/ /\ stored[r] > 0
          /\ \E h \in HeaderAt(rcur[r]) : Consume(r, h)
          /\ holding' = [holding EXCEPT ![r] = FALSE]
       \/ /\ stored[r] = 0
          /\ UNCHANGED readerVars
    /\ UNCHANGED <<bufVars, lockVars, writerVars, len, idx, userVars, mpc>>

\* The wait times out: the reservation is withdrawn.
ReaderTimeout(t) ==
    /\ pc[t] = "sleep"
    /\ reserved' = [reserved EXCEPT ![WriterOf[t]] = 0]
    /\ owner' = NoWriter
    /\ Abandon(t)
    /\ UNCHANGED <<cur, serial, mem, readers_, requested, readerVars, userVars, mpc>>

\* Every reader is out of the way.
AllClear(t) == pc[t] = "scan" /\ idx[t] > Len(readers_)

\* request_buffer returns 0: from here on the caller may write over the region.
Granted(t) ==
    /\ requested' = [requested EXCEPT ![WriterOf[t]] = len[t]]
    /\ Return(t, "have")
    /\ UNCHANGED <<owner, readers_, wmutex, reserved, userVars, mpc>>

\* ack_readers(): every attached reader has one more frame to read; a new
\* reader starts with this one.
AckReaders ==
    /\ rcur' = [r \in Readers |->
                   IF r \in Attached /\ rcur[r] = NoPos THEN cur ELSE rcur[r]]
    /\ rserial' = [r \in Readers |->
                   IF r \in Attached /\ rcur[r] = NoPos THEN serial ELSE rserial[r]]
    /\ stored' = [r \in Readers |-> IF r \in Attached THEN stored[r] + 1 ELSE stored[r]]
    /\ serial' = Inc(serial)

GrantTail(t) ==
    LET n == reserved[WriterOf[t]] IN
    /\ AllClear(t)
    /\ FitsTail(n)
    /\ mem' = Overwrite(mem, cur, cur + n)
    /\ Granted(t)
    /\ UNCHANGED <<cur, serial, readerVars>>

\* A redirect header is published at the old cursor when it fits there.
GrantHead(t) ==
    LET n == reserved[WriterOf[t]]
        h == [pos |-> cur, serial |-> serial, len |-> 0, off |-> 0]
    IN
    /\ AllClear(t)
    /\ FitsHead(n)
    /\ IF cur + HdrLen <= BufLen
       THEN /\ mem' = Overwrite(Overwrite(mem, cur, cur + HdrLen) \cup {h}, 0, n)
            /\ AckReaders
       ELSE /\ mem' = Overwrite(mem, 0, n)
            /\ UNCHANGED <<rcur, rserial, stored, serial>>
    /\ cur' = 0
    /\ Granted(t)
    /\ UNCHANGED holding

\* Every reader, acknowledged or not, is moved to the start.
GrantReset(t) ==
    LET n == reserved[WriterOf[t]] IN
    /\ AllClear(t)
    /\ NeedsReset(n)
    /\ rcur' = [r \in Readers |-> IF r \in Attached THEN 0 ELSE rcur[r]]
    /\ mem' = Overwrite(mem, 0, n)
    /\ cur' = 0
    /\ Granted(t)
    /\ UNCHANGED <<serial, stored, rserial, holding>>

-----------------------------------------------------------------------------
(* Writer threads: writer::commit and cancel, by the thread that requested. *)

\* Both end by releasing the reservation, the ownership and the writer.
Finished(t) ==
    /\ reserved' = [reserved EXCEPT ![WriterOf[t]] = 0]
    /\ owner' = NoWriter
    /\ wmutex' = [wmutex EXCEPT ![WriterOf[t]] = NoThread]
    /\ pc' = [pc EXCEPT ![t] = "idle"]
    /\ UNCHANGED <<readers_, lockVars, requested, len, idx, userVars, mpc>>

\* commit(n, o) with a valid payload; wrong arguments change nothing.
Commit(t) ==
    /\ pc[t] = "have"
    /\ ~xwait
    /\ \E n \in FrameLens, o \in Offsets :
          LET h == [pos |-> cur, serial |-> serial, len |-> n, off |-> o] IN
          /\ n + o <= requested[WriterOf[t]]
          /\ mem' = Overwrite(mem, cur, cur + HdrLen) \cup {h}
          /\ cur' = Advance(cur + TotalLen(h))
    /\ AckReaders
    /\ Finished(t)
    /\ UNCHANGED holding

\* commit(0): the region goes back unpublished.
Cancel(t) ==
    /\ pc[t] = "have"
    /\ ~xwait
    /\ Finished(t)
    /\ UNCHANGED <<cur, serial, mem, readerVars>>

\* request_buffer again before commit: writer::Impl::mutex is not recursive
\* and this thread holds it already.
RequestAgain(t) ==
    /\ MayRepeat
    /\ pc[t] = "have"
    /\ pc' = [pc EXCEPT ![t] = "relock"]
    /\ UNCHANGED <<bufVars, lockVars, writerVars, readerVars, len, idx, userVars, mpc>>

-----------------------------------------------------------------------------
(* The thread that attaches and detaches readers: rw_mutex held exclusively.*)
(* A reader object is created once and deleted once.                        *)

\* An add_reader begins: the object does not exist yet.
WantAdd(r) ==
    /\ mpc = "idle"
    /\ rpc[r] = "none"
    /\ mpc' = "want"
    /\ rpc' = [rpc EXCEPT ![r] = "coming"]
    /\ UNCHANGED <<bufVars, lockVars, writerVars, readerVars, callVars, frm>>

\* A remove_reader begins: the reader's own thread is done with it.
WantRemove(r) ==
    /\ mpc = "idle"
    /\ rpc[r] = "idle"
    /\ mpc' = "want"
    /\ rpc' = [rpc EXCEPT ![r] = "leaving"]
    /\ UNCHANGED <<bufVars, lockVars, writerVars, readerVars, callVars, frm>>

\* It finds the list shared and keeps newcomers out until the sharers leave.
BlockSharers ==
    /\ mpc = "want"
    /\ sharers # {}
    /\ ~xwait
    /\ xwait' = TRUE
    /\ UNCHANGED <<bufVars, sharers, writerVars, readerVars, callVars, userVars, mpc>>

Exclusive ==
    /\ mpc = "want"
    /\ sharers = {}
    /\ mpc' = "idle"
    /\ UNCHANGED <<cur, serial, owner, mem, lockVars, writerVars, callVars, frm>>

\* buffer::add_reader(bool): the reader starts at the next frame acknowledged.
AddReader(r) ==
    /\ rpc[r] = "coming"
    /\ Exclusive
    /\ readers_' = Append(readers_, r)
    /\ rpc' = [rpc EXCEPT ![r] = "idle"]
    /\ UNCHANGED readerVars

\* Mutant: the clone does not count the frames its model has still to read.
CloneReader_mutant(r, src) ==
    /\ rpc[r] = "coming"
    /\ r \notin Discardable
    /\ src \in Attached
    /\ Exclusive
    /\ readers_' = Append(readers_, r)
    /\ rpc' = [rpc EXCEPT ![r] = "idle"]
    /\ rcur' = [rcur EXCEPT ![r] = rcur[src]]
    /\ rserial' = [rserial EXCEPT ![r] = rserial[src]]
    /\ UNCHANGED <<stored, holding>>

\* buffer::add_reader(reader*): the clone, never discardable, starts where
\* its model is.
CloneReader(r, src) ==
    /\ rpc[r] = "coming"
    /\ r \notin Discardable
    /\ src \in Attached
    /\ Exclusive
    /\ readers_' = Append(readers_, r)
    /\ rpc' = [rpc EXCEPT ![r] = "idle"]
    /\ rcur' = [rcur EXCEPT ![r] = rcur[src]]
    /\ stored' = [stored EXCEPT ![r] = stored[src]]
    /\ rserial' = [rserial EXCEPT ![r] = rserial[src]]
    /\ UNCHANGED holding

\* buffer::remove_reader: the reader leaves the list and is deleted.
RemoveReader(r) ==
    /\ rpc[r] = "leaving"
    /\ Exclusive
    /\ \E i \in DOMAIN readers_ :
          /\ readers_[i] = r
          /\ readers_' = [j \in 1..Len(readers_) - 1 |->
                             readers_[IF j < i THEN j ELSE j + 1]]
    /\ rpc' = [rpc EXCEPT ![r] = "gone"]
    /\ rcur' = [rcur EXCEPT ![r] = NoPos]
    /\ stored' = [stored EXCEPT ![r] = 0]
    /\ rserial' = [rserial EXCEPT ![r] = 0]
    /\ holding' = [holding EXCEPT ![r] = FALSE]

-----------------------------------------------------------------------------

Init ==
    /\ cur = 0
    /\ serial = 0
    /\ owner = NoWriter
    /\ mem = {}
    /\ readers_ = InitReaders
    /\ sharers = {}
    /\ xwait = FALSE
    /\ wmutex = [w \in Writers |-> NoThread]
    /\ requested = [w \in Writers |-> 0]
    /\ reserved = [w \in Writers |-> 0]
    /\ rcur = [r \in Readers |-> NoPos]
    /\ stored = [r \in Readers |-> 0]
    /\ rserial = [r \in Readers |-> 0]
    /\ holding = [r \in Readers |-> FALSE]
    /\ pc = [t \in Threads |-> "idle"]
    /\ len = [t \in Threads |-> 0]
    /\ idx = [t \in Threads |-> 1]
    /\ rpc = [r \in Readers |-> IF r \in Attached THEN "idle" ELSE "none"]
    /\ frm = [r \in Readers |-> NoFrame]
    /\ mpc = "idle"

WriterStep(t) ==
    \/ LockWriter(t) \/ ShareList(t) \/ TakeOwnership(t) \/ OwnershipTimeout(t)
    \/ PassReader(t) \/ WaitReader(t) \/ DropFrame(t) \/ ReaderTimeout(t)
    \/ GrantTail(t) \/ GrantHead(t) \/ GrantReset(t)
    \/ Commit(t) \/ Cancel(t) \/ RequestAgain(t)

ReaderStep(r) ==
    \/ Borrow(r) \/ FollowRedirect(r) \/ RetryTimeout(r) \/ Release(r)

ManagerStep ==
    \/ BlockSharers
    \/ \E r \in Readers :
          WantAdd(r) \/ WantRemove(r) \/ AddReader(r) \/ RemoveReader(r)
    \/ \E r, src \in Readers : CloneReader(r, src)

Next ==
    \/ \E t \in Threads : WriterStep(t)
    \/ \E r \in Readers : ReaderStep(r)
    \/ ManagerStep

Spec == Init /\ [][Next]_vars

-----------------------------------------------------------------------------
(* Fairness.  No thread is stopped for good inside a call, timeouts expire,  *)
(* and a writer that was given a region commits or cancels it.  Locking is   *)
(* strongly fair: a thread that finds rw_mutex open again and again gets it. *)
(* A reader's user goes on requesting and releases what it was lent.  Nobody *)
(* has to start writing, and nobody has to attach or detach a reader.        *)

Locking(t) == ShareList(t) \/ Commit(t) \/ Cancel(t)

Waiting(t) ==
    \/ TakeOwnership(t) \/ OwnershipTimeout(t) \/ PassReader(t) \/ WaitReader(t)
    \/ DropFrame(t) \/ ReaderTimeout(t) \/ GrantTail(t) \/ GrantHead(t) \/ GrantReset(t)

WriterFairSpec ==
    Spec /\ \A t \in Threads : SF_vars(Locking(t)) /\ WF_vars(Waiting(t))

ReadersGoOn == \A r \in Readers : WF_vars(ReaderStep(r))

-----------------------------------------------------------------------------
(* What the buffer promises.                                                *)

TypeOK ==
    /\ cur \in 0..BufLen
    /\ serial \in 0..SerialMod - 1
    /\ owner \in Writers \cup {NoWriter}
    /\ mem \subseteq Headers
    /\ readers_ \in Seq(Readers)
    /\ sharers \subseteq Threads
    /\ xwait \in BOOLEAN
    /\ wmutex \in [Writers -> Threads \cup {NoThread}]
    /\ requested \in [Writers -> Nat]
    /\ reserved \in [Writers -> Nat]
    /\ rcur \in [Readers -> 0..BufLen \cup {NoPos}]
    /\ stored \in [Readers -> Nat]
    /\ rserial \in [Readers -> 0..SerialMod - 1]
    /\ holding \in [Readers -> BOOLEAN]
    /\ pc \in [Threads -> {"idle", "share", "own", "scan", "drop", "sleep",
                           "have", "relock"}]
    /\ len \in [Threads -> Nat]
    /\ idx \in [Threads -> Nat]
    /\ rpc \in [Readers -> {"none", "coming", "idle", "retry", "held",
                            "leaving", "gone"}]
    /\ frm \in [Readers -> Headers \cup {NoFrame}]
    /\ mpc \in {"idle", "want"}

\* The stages of a call in which a thread owns the ring.
Owning(t) == pc[t] \in {"scan", "drop", "sleep", "have", "relock"}

\* Two threads never own the ring at once, whether through two writers (owner_)
\* or through one (writer::Impl::mutex); who owns it is who owner_ names.
OneWriterAtATime ==
    /\ \A t, u \in Threads : Owning(t) /\ Owning(u) => t = u
    /\ \A t \in Threads :
          Owning(t) => owner = WriterOf[t] /\ wmutex[WriterOf[t]] = t

\* No request is refused with JGB_ERR_DENIED for a reservation not committed
\* yet (buffer.cpp:709): the writer's mutex, held from request to commit,
\* keeps every thread from getting that far.
DeniedUnreachable ==
    \A t \in Threads : pc[t] = "own" => reserved[WriterOf[t]] = 0

\* Every cursor leaves room for a header before the end of the ring: the header
\* that commit, the redirect and the readers access is inside it.
CursorFits ==
    /\ cur + HdrLen <= BufLen
    /\ \A r \in Readers : rcur[r] + HdrLen <= BufLen

\* The header at each position, and the position after it.
Found == [p \in NoPos..BufLen |->
             IF HeaderAt(p) = {} THEN NoFrame ELSE CHOOSE h \in HeaderAt(p) : TRUE]
After == [p \in NoPos..BufLen |-> NextPos(Found[p])]

\* Where r's cursor is after it has passed n more headers.
Trail(r) == LET at[n \in 0..stored[r]] == IF n = 0 THEN rcur[r] ELSE After[at[n - 1]]
            IN at

\* The headers r has still to read, in the order it will read them.
Unread(r) == [n \in 1..stored[r] |-> Found[Trail(r)[n - 1]]]

\* What a reader counts as stored is what it finds: that many intact headers,
\* with the serial numbers it expects (the assertion at buffer.cpp:297), that
\* lead it to the write cursor.
ChainIntact ==
    \A r \in Attached : rcur[r] # NoPos =>
        /\ \A n \in 1..stored[r] :
              /\ Unread(r)[n] # NoFrame
              /\ Unread(r)[n].serial = (rserial[r] + n - 1) % SerialMod
        /\ Trail(r)[stored[r]] = cur

\* The assertion request_frame makes of the header it finds (buffer.cpp:297).
SerialExpected ==
    \A r \in Readers :
        rpc[r] \in {"idle", "retry"} /\ stored[r] > 0 =>
            Found[rcur[r]].serial = rserial[r]

Disjoint(lo, hi, h) == h.pos + TotalLen(h) <= lo \/ hi <= h.pos

\* The region a writer is filling shares no byte with a frame that some reader
\* has still to read.
UnreadUntouched ==
    \A t \in Threads, r \in Attached :
        pc[t] = "have" =>
            \A n \in 1..stored[r] :
                Disjoint(cur, cur + reserved[WriterOf[t]], Unread(r)[n])

\* The frame r was lent is under its cursor, and out of the region being filled.
LoanSafe(r) ==
    rpc[r] = "held" =>
        /\ frm[r] \in HeaderAt(rcur[r])
        /\ \A t \in Threads :
              pc[t] = "have" => Disjoint(cur, cur + reserved[WriterOf[t]], frm[r])

\* A frame that a reader without discard_ holds is not overwritten.
HeldIntact == \A r \in Readers \ Discardable : LoanSafe(r)

\* The comment on reader::holding_ (include/buffer.h:77) promises it to every
\* reader: "a frame already held by a reader must not be overwritten".
HeldNeverOverwritten == \A r \in Readers : LoanSafe(r)

\* A redirect header is never followed by another: one more attempt is enough
\* and request_frame never answers JGB_ERR_RETRY.  (A writer that drops the
\* frame in between can make a discardable reader meet two in one call.)
RetryOnce ==
    \A r \in Readers \ Discardable :
        rpc[r] = "retry" /\ stored[r] > 0 =>
            \A h \in HeaderAt(rcur[r]) : ~IsRedirect(h)

\* Every request that holds the writer's mutex comes to an end, granted or not,
\* even if the readers never move: timeouts break what the locks tie up.
RequestReturns ==
    \A t \in Threads :
        pc[t] \in {"share", "own", "scan", "drop", "sleep"} ~> pc[t] \in {"have", "idle"}

\* Every reservation is given back: commit and cancel get through rw_mutex even
\* when an exclusive locker and threads waiting for the ring are in the way.
CommitReturns == \A t \in Threads : pc[t] = "have" ~> pc[t] = "idle"

\* The frames of data among the first m headers of q.
Data(q, m) ==
    LET upto[n \in 0..m] ==
            IF n = 0 THEN <<>>
            ELSE LET h == q[n]
                 IN  IF IsRedirect(h) THEN upto[n - 1] ELSE Append(upto[n - 1], h)
    IN upto[m]

\* The frames of data r has still to read.
DataUnread(r) == Data(Unread(r), stored[r])

\* What a user is given of a frame: where it lies is the ring's business.
Payload(h) == [serial |-> h.serial, len |-> h.len, off |-> h.off]

PayloadsUnread(r) ==
    LET hs == DataUnread(r) IN [n \in DOMAIN hs |-> Payload(hs[n])]

\* Seen from its users the ring is a broadcast queue.
Queue == INSTANCE FrameQueue WITH
    Lossy    <- Discardable,
    Frames   <- [serial : 0..SerialMod - 1, len : FrameLens, off : Offsets],
    NoFrame  <- Payload(NoFrame),
    attached <- Attached,
    queue    <- [r \in Readers |-> IF r \in Attached /\ rcur[r] # NoPos
                                   THEN PayloadsUnread(r) ELSE <<>>],
    lent     <- [r \in Readers |-> Payload(frm[r])]

\* Every step of the ring is a step of that queue or leaves it as it is: frames
\* arrive in the order of their commits, each once, whatever wraps around.
BroadcastQueue == Queue!QSpec

\* Every frame of data that waits for a reader without discard_ is lent to it
\* in the end, unless the reader is taken away, if the readers' users go on.
FrameDelivered == ReadersGoOn =>
    \A r \in Readers \ Discardable, s \in 0..SerialMod - 1 :
        (\E n \in DOMAIN DataUnread(r) : DataUnread(r)[n].serial = s)
            ~> \/ rpc[r] = "held" /\ frm[r].serial = s
               \/ rpc[r] = "leaving"
=============================================================================
