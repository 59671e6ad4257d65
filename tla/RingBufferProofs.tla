------------------------- MODULE RingBufferProofs -------------------------
(***************************************************************************)
(* RingBuffer for every number of readers, writers and threads, every ring  *)
(* size and every set of frame lengths. The inductive invariant has two     *)
(* parts.  IInv: the locks give the ring to one thread at a time, and       *)
(* cursors and reservations stay inside it.  CInv, on top of it: what a     *)
(* reader has still to read is a chain of intact headers that leads it to   *)
(* the write cursor, and no writer fills a region that has one of those     *)
(* frames in it.                                                            *)
(* What its users get from that comes after it: frames nobody writes over   *)
(* before they are read, in the order of their serial numbers, and in the   *)
(* end the broadcast queue of FrameQueue.                                   *)
(***************************************************************************)
EXTENDS RingBuffer, SequenceTheorems, TLAPS, WellFoundedInduction

-----------------------------------------------------------------------------
(* Sizes.                                                                   *)

\* JGB_ALIGN rounds up, by less than 4.
LEMMA AlignBounds ==
    ASSUME NEW x \in Nat
    PROVE  Align4(x) \in Nat /\ x <= Align4(x) /\ Align4(x) <= x + 3
BY DEF Align4

\* A shorter payload never needs more room.
LEMMA AlignMonotonic ==
    ASSUME NEW x \in Nat, NEW y \in Nat, x <= y
    PROVE  Align4(x) <= Align4(y)
BY DEF Align4

\* A reservation has room for its header and its payload.
LEMMA FrameLenBounds ==
    ASSUME NEW n \in Nat
    PROVE  FrameLen(n) \in Nat /\ FrameLen(n) >= n + HdrLen /\ FrameLen(n) > 0
BY AlignBounds DEF FrameLen, HdrLen

\* Wherever a cursor goes after a frame that fits, a header fits there too.
LEMMA AdvanceFits ==
    ASSUME NEW p \in 0..BufLen
    PROVE  Advance(p) \in 0..BufLen /\ Advance(p) + HdrLen <= BufLen
BY SizeAssumption DEF Advance, HdrLen

LEMMA IncType ==
    ASSUME NEW s \in 0..SerialMod - 1
    PROVE  Inc(s) \in 0..SerialMod - 1
BY SizeAssumption DEF Inc

-----------------------------------------------------------------------------
(* The inductive invariant.                                                 *)

\* A request past its mutex and its shared lock; one that holds the list shared.
Inside(t) == pc[t] # "idle"
Listing(t) == pc[t] \in {"own", "scan", "drop", "sleep"}

\* Who holds which lock.
LockInv ==
    /\ \A t \in Threads : Inside(t) => wmutex[WriterOf[t]] = t
    /\ \A t \in Threads : Owning(t) => owner = WriterOf[t]
    /\ \A t \in Threads : t \in sharers <=> Listing(t)
    /\ \A w \in Writers : reserved[w] > 0 =>
          \E t \in Threads : Owning(t) /\ WriterOf[t] = w

\* What fits where.
SizeInv ==
    /\ CursorFits
    /\ \A h \in mem : h.pos + TotalLen(h) <= BufLen
    /\ \A t \in Threads : pc[t] = "share" \/ Listing(t) =>
          len[t] \in FrameLens /\ FrameLen(len[t]) <= BufLen
    /\ \A t \in Threads : pc[t] \in {"scan", "drop", "sleep"} =>
          reserved[WriterOf[t]] = FrameLen(len[t])
    /\ \A t \in Threads : pc[t] \in {"have", "relock"} =>
          /\ reserved[WriterOf[t]] = FrameLen(requested[WriterOf[t]])
          /\ cur + reserved[WriterOf[t]] <= BufLen

IInv == TypeOK /\ LockInv /\ SizeInv

LEMMA InitIInv == Init => IInv
<1> SUFFICES ASSUME Init PROVE IInv
  OBVIOUS
<1> USE SizeAssumption, ThreadAssumption, ReaderAssumption DEF Init
<1>1. TypeOK
  <2>1. readers_ \in Seq(Readers) /\ rpc \in [Readers -> {"idle", "none"}]
    OBVIOUS
  <2>2. cur \in 0..BufLen /\ serial \in 0..SerialMod - 1
    OBVIOUS
  <2>3. rcur \in [Readers -> {NoPos}] /\ frm \in [Readers -> {NoFrame}]
    OBVIOUS
  <2>4. rserial \in [Readers -> 0..SerialMod - 1]
    OBVIOUS
  <2>5. rcur \in [Readers -> 0..BufLen \cup {NoPos}] /\ frm \in [Readers -> Headers \cup {NoFrame}]
    OBVIOUS
  <2>6. mem \subseteq Headers
    OBVIOUS
  <2>7. QED
    BY <2>1, <2>2, <2>3, <2>4, <2>5, <2>6 DEF TypeOK
<1>2. LockInv
  BY DEF LockInv, Inside, Owning, Listing
<1>3. SizeInv
  BY DEF SizeInv, CursorFits, Listing, NoPos, HdrLen
<1>4. QED
  BY <1>1, <1>2, <1>3 DEF IInv

-----------------------------------------------------------------------------
(* The locks.                                                               *)

\* The part of TypeOK the locks rest on.
LockType ==
    /\ owner \in Writers \cup {NoWriter}
    /\ sharers \subseteq Threads
    /\ xwait \in BOOLEAN
    /\ wmutex \in [Writers -> Threads \cup {NoThread}]
    /\ reserved \in [Writers -> Nat]
    /\ pc \in [Threads -> {"idle", "share", "own", "scan", "drop", "sleep",
                           "have", "relock"}]

\* A thread waiting for the ring finds no reservation on its own writer.
LEMMA NothingReserved ==
    ASSUME LockType, LockInv, NEW t \in Threads, pc[t] = "own"
    PROVE  reserved[WriterOf[t]] = 0
BY ThreadAssumption DEF LockType, LockInv, Owning, Inside

\* Whoever leaves rw_mutex is at no place any more where it is shared.
LEMMA SharersLeave ==
    ASSUME LockType, LockInv, NEW t \in Threads, Listing(t), NEW p \in {"idle", "have"},
           Return(t, p)
    PROVE  \A u \in Threads : u \in sharers' <=> Listing(u)'
<1>1. sharers' = sharers \ {t} /\ pc' = [pc EXCEPT ![t] = p] /\ t \in sharers
  BY DEF Return, Unshare, LockInv
<1> QED
  BY <1>1 DEF LockInv, LockType, Listing

\* The calls a writing thread makes, step by step.
LEMMA WriterLockStep ==
    ASSUME LockType, LockInv, NEW t \in Threads, WriterStep(t)
    PROVE  LockInv'
<1> USE ThreadAssumption DEF LockType, LockInv, Inside, Owning, Listing
<1>1. CASE LockWriter(t)
  BY <1>1 DEF LockWriter, bufVars, lockVars
<1>2. CASE ShareList(t)
  BY <1>2 DEF ShareList, bufVars, writerVars
<1>3. CASE TakeOwnership(t)
  <2>1. pc[t] = "own" /\ owner \in {NoWriter, WriterOf[t]} /\ reserved[WriterOf[t]] = 0
    BY <1>3, NothingReserved DEF TakeOwnership
  <2>2. /\ pc' = [pc EXCEPT ![t] = "scan"]
        /\ owner' = WriterOf[t]
        /\ reserved' = [reserved EXCEPT ![WriterOf[t]] = FrameLen(len[t])]
        /\ UNCHANGED <<sharers, wmutex, xwait, mpc>>
    BY <1>3, <2>1 DEF TakeOwnership, lockVars
  <2>3. QED
    BY <2>1, <2>2
<1>4. CASE OwnershipTimeout(t)
  <2>1. /\ pc[t] = "own" /\ reserved[WriterOf[t]] = 0
        /\ pc' = [pc EXCEPT ![t] = "idle"]
        /\ wmutex' = [wmutex EXCEPT ![WriterOf[t]] = NoThread]
        /\ UNCHANGED <<owner, reserved>>
    BY <1>4, NothingReserved DEF OwnershipTimeout, Abandon, Return, bufVars
  <2>2. QED
    BY <1>4, <2>1, SharersLeave DEF OwnershipTimeout, Abandon
<1>5. CASE PassReader(t)
  BY <1>5 DEF PassReader, bufVars, lockVars, writerVars
<1>6. CASE WaitReader(t)
  BY <1>6 DEF WaitReader, Scanning, bufVars, lockVars, writerVars
<1>7. CASE DropFrame(t)
  BY <1>7 DEF DropFrame, bufVars, lockVars, writerVars
<1>8. CASE ReaderTimeout(t)
  <2>1. /\ pc[t] = "sleep"
        /\ pc' = [pc EXCEPT ![t] = "idle"]
        /\ wmutex' = [wmutex EXCEPT ![WriterOf[t]] = NoThread]
        /\ reserved' = [reserved EXCEPT ![WriterOf[t]] = 0]
        /\ owner' = NoWriter
    BY <1>8 DEF ReaderTimeout, Abandon, Return
  <2>2. QED
    BY <1>8, <2>1, SharersLeave DEF ReaderTimeout, Abandon
<1>9. CASE GrantTail(t) \/ GrantHead(t) \/ GrantReset(t)
  <2>1. pc[t] = "scan" /\ Granted(t)
    BY <1>9 DEF GrantTail, GrantHead, GrantReset, AllClear
  <2>2. /\ pc' = [pc EXCEPT ![t] = "have"]
        /\ UNCHANGED <<owner, wmutex, reserved>>
    BY <2>1 DEF Granted, Return
  <2>3. QED
    BY <2>1, <2>2, SharersLeave DEF Granted
<1>10. CASE Commit(t) \/ Cancel(t)
  BY <1>10 DEF Commit, Cancel, Finished, lockVars
<1>11. CASE RequestAgain(t)
  BY <1>11 DEF RequestAgain, bufVars, lockVars, writerVars
<1>12. QED
  BY <1>1, <1>2, <1>3, <1>4, <1>5, <1>6, <1>7, <1>8, <1>9, <1>10, <1>11 DEF WriterStep

LEMMA LockStep == IInv /\ [Next]_vars => LockInv'
<1> SUFFICES ASSUME IInv, [Next]_vars PROVE LockInv'
  OBVIOUS
<1>1. LockType /\ LockInv
  BY DEF IInv, TypeOK, LockType
<1> USE <1>1 DEF LockType, LockInv, Inside, Owning, Listing
<1>2. ASSUME NEW t \in Threads, WriterStep(t) PROVE LockInv'
  BY <1>2, WriterLockStep
<1>3. ASSUME NEW r \in Readers, ReaderStep(r) PROVE LockInv'
  <2>1. /\ \/ UNCHANGED pc
           \/ pc' = [t \in Threads |->
                        IF pc[t] = "sleep" /\ readers_[idx[t]] = r THEN "scan" ELSE pc[t]]
        /\ UNCHANGED <<owner, sharers, xwait, wmutex, reserved, mpc>>
    BY <1>3 DEF ReaderStep, Borrow, FollowRedirect, RetryTimeout, Release, Wake,
                bufVars, lockVars, writerVars, callVars
  <2>2. QED
    BY <2>1
<1>4. ASSUME ManagerStep PROVE LockInv'
  <2>1. /\ UNCHANGED <<owner, sharers, wmutex, reserved, pc>>
        /\ \/ xwait' = xwait /\ (mpc' = mpc \/ mpc = "idle" \/ sharers = {})
           \/ xwait' /\ mpc = "want" /\ mpc' = "want" /\ sharers # {}
    BY <1>4 DEF ManagerStep, BlockSharers, WantAdd, WantRemove, AddReader, RemoveReader,
                CloneReader, Exclusive, bufVars, lockVars, writerVars, callVars
  <2>2. QED
    BY <2>1
<1>5. CASE UNCHANGED vars
  BY <1>5 DEF vars, bufVars, lockVars, writerVars, callVars
<1>6. QED
  BY <1>2, <1>3, <1>4, <1>5 DEF Next

-----------------------------------------------------------------------------
(* Cursors and memory.                                                      *)

LEMMA OneOwner == LockInv => OneWriterAtATime
BY DEF LockInv, OneWriterAtATime, Inside, Owning

LEMMA OverwriteShrinks ==
    ASSUME NEW m, NEW lo, NEW hi
    PROVE  Overwrite(m, lo, hi) \subseteq m
BY DEF Overwrite

LEMMA TotalLenType ==
    ASSUME NEW h \in Headers
    PROVE  TotalLen(h) \in Nat /\ TotalLen(h) >= HdrLen
BY AlignBounds DEF TotalLen, Headers, HdrLen

\* A reader's cursor stays where a header fits.
LEMMA NextPosFits ==
    ASSUME TypeOK, SizeInv, NEW h \in mem
    PROVE  NextPos(h) \in 0..BufLen /\ NextPos(h) + HdrLen <= BufLen
<1>1. h \in Headers /\ h.pos \in 0..BufLen
  BY DEF TypeOK, Headers
<1>2. h.pos + TotalLen(h) \in 0..BufLen
  BY <1>1, TotalLenType, SizeAssumption DEF SizeInv, HdrLen
<1>3. 0 + HdrLen <= BufLen /\ 0 \in 0..BufLen
  BY SizeAssumption DEF HdrLen
<1>4. QED
  BY <1>2, <1>3, AdvanceFits DEF NextPos

\* What a reader's cursor may do in one step: stay, or go past a header.
LEMMA ConsumeFits ==
    ASSUME TypeOK, SizeInv, NEW r \in Readers, stored[r] > 0,
           NEW h \in HeaderAt(rcur[r]), Consume(r, h)
    PROVE  /\ rcur' \in [Readers -> 0..BufLen \cup {NoPos}]
           /\ stored' \in [Readers -> Nat]
           /\ rserial' \in [Readers -> 0..SerialMod - 1]
           /\ \A x \in Readers : rcur'[x] + HdrLen <= BufLen
<1>1. NextPos(h) \in 0..BufLen /\ NextPos(h) + HdrLen <= BufLen
  BY NextPosFits DEF HeaderAt
<1>2. rcur' \in [Readers -> 0..BufLen \cup {NoPos}]
  BY <1>1 DEF Consume, TypeOK
<1>3. stored' \in [Readers -> Nat]
  BY DEF Consume, TypeOK
<1>4. rserial' \in [Readers -> 0..SerialMod - 1]
  BY IncType DEF Consume, TypeOK
<1>5. \A x \in Readers : rcur'[x] + HdrLen <= BufLen
  BY <1>1 DEF Consume, TypeOK, SizeInv, CursorFits
<1>6. QED
  BY <1>2, <1>3, <1>4, <1>5

\* Acknowledging moves no cursor but those of new readers, to the write cursor.
LEMMA AckFits ==
    ASSUME TypeOK, SizeInv, AckReaders
    PROVE  /\ rcur' \in [Readers -> 0..BufLen \cup {NoPos}]
           /\ stored' \in [Readers -> Nat]
           /\ rserial' \in [Readers -> 0..SerialMod - 1]
           /\ serial' \in 0..SerialMod - 1
           /\ \A x \in Readers : rcur'[x] + HdrLen <= BufLen
<1>1. rcur' \in [Readers -> 0..BufLen \cup {NoPos}]
  BY DEF AckReaders, TypeOK
<1>2. stored' \in [Readers -> Nat]
  BY DEF AckReaders, TypeOK
<1>3. rserial' \in [Readers -> 0..SerialMod - 1] /\ serial' \in 0..SerialMod - 1
  BY IncType DEF AckReaders, TypeOK
<1>4. \A x \in Readers : rcur'[x] + HdrLen <= BufLen
  BY DEF AckReaders, SizeInv, CursorFits
<1>5. QED
  BY <1>1, <1>2, <1>3, <1>4

\* The frame a commit publishes lies inside the region that was reserved.
LEMMA CommitFits ==
    ASSUME TypeOK, SizeInv, NEW t \in Threads, pc[t] = "have",
           NEW n \in FrameLens, NEW o \in Offsets, n + o <= requested[WriterOf[t]],
           NEW h, h = [pos |-> cur, serial |-> serial, len |-> n, off |-> o]
    PROVE  h \in Headers /\ cur + TotalLen(h) \in 0..BufLen
<1>1. n \in Nat /\ o \in Nat /\ WriterOf[t] \in Writers
  BY SizeAssumption, ThreadAssumption
<1>2. requested[WriterOf[t]] \in Nat /\ cur \in 0..BufLen /\ serial \in 0..SerialMod - 1
  BY <1>1 DEF TypeOK
<1>3. h \in Headers
  BY <1>1, <1>2 DEF Headers
<1>4. TotalLen(h) <= FrameLen(requested[WriterOf[t]])
  <2>1. h.off + h.len = o + n /\ o + n \in Nat /\ o + n <= requested[WriterOf[t]]
    BY <1>1, <1>2
  <2>2. Align4(h.off + h.len) <= Align4(requested[WriterOf[t]])
    BY <1>2, <2>1, AlignMonotonic
  <2>3. Align4(h.off + h.len) \in Nat /\ Align4(requested[WriterOf[t]]) \in Nat
    BY <1>2, <2>1, AlignBounds
  <2>4. QED
    BY <2>2, <2>3 DEF TotalLen, FrameLen, HdrLen
<1>5. cur + FrameLen(requested[WriterOf[t]]) <= BufLen
  BY DEF SizeInv
<1>6. TotalLen(h) \in Nat /\ FrameLen(requested[WriterOf[t]]) \in Nat
  BY <1>2, <1>3, TotalLenType, FrameLenBounds
<1>7. QED
  BY <1>2, <1>3, <1>4, <1>5, <1>6, SizeAssumption

\* A redirect header takes no more room than there is before the end.
LEMMA RedirectFits ==
    ASSUME TypeOK, SizeInv,
           NEW h, h = [pos |-> cur, serial |-> serial, len |-> 0, off |-> 0]
    PROVE  h \in Headers /\ h.pos + TotalLen(h) <= BufLen
<1>1. h \in Headers
  BY DEF Headers, TypeOK
<1>2. TotalLen(h) = HdrLen
  BY DEF TotalLen, Align4, HdrLen
<1>3. QED
  BY <1>1, <1>2 DEF SizeInv, CursorFits

\* The values of the ring itself and of its readers' cursors after a step.
RingType ==
    /\ cur \in 0..BufLen
    /\ serial \in 0..SerialMod - 1
    /\ mem \subseteq Headers
    /\ readers_ \in Seq(Readers)
    /\ rcur \in [Readers -> 0..BufLen \cup {NoPos}]
    /\ stored \in [Readers -> Nat]
    /\ rserial \in [Readers -> 0..SerialMod - 1]

RingFits ==
    /\ CursorFits
    /\ \A h \in mem : h.pos + TotalLen(h) <= BufLen

LEMMA GrantRing ==
    ASSUME TypeOK, SizeInv, NEW t \in Threads, GrantTail(t) \/ GrantHead(t) \/ GrantReset(t)
    PROVE  RingType' /\ RingFits'
<1>0. 0 \in 0..BufLen /\ 0 + HdrLen <= BufLen
  BY SizeAssumption DEF HdrLen
<1>1. CASE GrantTail(t)
  <2>1. mem' \subseteq mem /\ UNCHANGED <<cur, serial, readers_, readerVars>>
    BY <1>1, OverwriteShrinks DEF GrantTail, Granted
  <2>2. QED
    BY <2>1 DEF TypeOK, SizeInv, RingType, RingFits, CursorFits, readerVars
<1>2. CASE GrantHead(t)
  <2> DEFINE h == [pos |-> cur, serial |-> serial, len |-> 0, off |-> 0]
  <2>1. /\ mem' \subseteq mem \cup {h} /\ AckReaders
        /\ cur' = 0 /\ readers_' = readers_
    BY <1>2, OverwriteShrinks DEF GrantHead, Granted, SizeInv, CursorFits
  <2>2. h \in Headers /\ h.pos + TotalLen(h) <= BufLen
    BY RedirectFits
  <2> HIDE DEF h
  <2>3. /\ rcur' \in [Readers -> 0..BufLen \cup {NoPos}]
        /\ stored' \in [Readers -> Nat]
        /\ rserial' \in [Readers -> 0..SerialMod - 1]
        /\ serial' \in 0..SerialMod - 1
        /\ \A x \in Readers : rcur'[x] + HdrLen <= BufLen
    BY <2>1, AckFits
  <2>4. mem' \subseteq Headers /\ \A x \in mem' : x.pos + TotalLen(x) <= BufLen
    BY <2>1, <2>2 DEF TypeOK, SizeInv
  <2>5. QED
    BY <1>0, <2>1, <2>3, <2>4 DEF RingType, RingFits, CursorFits, TypeOK
<1>3. CASE GrantReset(t)
  <2>1. /\ mem' \subseteq mem /\ cur' = 0
        /\ rcur' = [r \in Readers |-> IF r \in Attached THEN 0 ELSE rcur[r]]
        /\ UNCHANGED <<serial, readers_, stored, rserial>>
    BY <1>3, OverwriteShrinks DEF GrantReset, Granted
  <2>2. /\ rcur' \in [Readers -> 0..BufLen \cup {NoPos}]
        /\ \A x \in Readers : rcur'[x] + HdrLen <= BufLen
    BY <1>0, <2>1 DEF TypeOK, SizeInv, CursorFits
  <2>3. mem' \subseteq Headers /\ \A x \in mem' : x.pos + TotalLen(x) <= BufLen
    BY <2>1 DEF TypeOK, SizeInv
  <2>4. QED
    BY <1>0, <2>1, <2>2, <2>3 DEF RingType, RingFits, CursorFits, TypeOK
<1>4. QED
  BY <1>1, <1>2, <1>3

LEMMA CommitRing ==
    ASSUME TypeOK, SizeInv, NEW t \in Threads, Commit(t)
    PROVE  RingType' /\ RingFits'
<1>1. PICK n \in FrameLens, o \in Offsets :
          /\ n + o <= requested[WriterOf[t]]
          /\ mem' = Overwrite(mem, cur, cur + HdrLen)
                       \cup {[pos |-> cur, serial |-> serial, len |-> n, off |-> o]}
          /\ cur' = Advance(cur + TotalLen([pos |-> cur, serial |-> serial,
                                            len |-> n, off |-> o]))
  BY DEF Commit
<1> DEFINE h == [pos |-> cur, serial |-> serial, len |-> n, off |-> o]
<1>2. pc[t] = "have" /\ AckReaders /\ readers_' = readers_
  BY DEF Commit, Finished
<1>3. h \in Headers /\ cur + TotalLen(h) \in 0..BufLen /\ h.pos = cur
  BY <1>1, <1>2, CommitFits
<1>4. mem' \subseteq mem \cup {h} /\ cur' = Advance(cur + TotalLen(h))
  BY <1>1, OverwriteShrinks
<1> HIDE DEF h
<1>5. cur' \in 0..BufLen /\ cur' + HdrLen <= BufLen
  BY <1>3, <1>4, AdvanceFits
<1>6. mem' \subseteq Headers /\ \A x \in mem' : x.pos + TotalLen(x) <= BufLen
  BY <1>3, <1>4 DEF TypeOK, SizeInv
<1>7. /\ rcur' \in [Readers -> 0..BufLen \cup {NoPos}]
      /\ stored' \in [Readers -> Nat]
      /\ rserial' \in [Readers -> 0..SerialMod - 1]
      /\ serial' \in 0..SerialMod - 1
      /\ \A x \in Readers : rcur'[x] + HdrLen <= BufLen
  BY <1>2, AckFits
<1>8. QED
  BY <1>2, <1>5, <1>6, <1>7 DEF RingType, RingFits, CursorFits, TypeOK

\* What a reader, or a writer that drops a frame, does to the cursors.
LEMMA ConsumeRing ==
    ASSUME TypeOK, SizeInv, NEW r, UNCHANGED bufVars,
           \/ UNCHANGED <<rcur, stored, rserial>>
           \/ stored[r] > 0 /\ \E h \in HeaderAt(rcur[r]) : Consume(r, h)
    PROVE  RingType' /\ RingFits'
<1>1. CASE UNCHANGED <<rcur, stored, rserial>>
  BY <1>1 DEF bufVars, TypeOK, SizeInv, RingType, RingFits, CursorFits
<1>2. ASSUME r \in Readers, stored[r] > 0, NEW h \in HeaderAt(rcur[r]), Consume(r, h)
      PROVE  RingType' /\ RingFits'
  <2>1. /\ rcur' \in [Readers -> 0..BufLen \cup {NoPos}]
        /\ stored' \in [Readers -> Nat]
        /\ rserial' \in [Readers -> 0..SerialMod - 1]
        /\ \A x \in Readers : rcur'[x] + HdrLen <= BufLen
    BY <1>2, ConsumeFits
  <2>2. QED
    BY <2>1 DEF bufVars, TypeOK, SizeInv, RingType, RingFits, CursorFits
<1>3. ASSUME r \notin Readers, NEW h, Consume(r, h) PROVE UNCHANGED <<rcur, stored, rserial>>
  BY <1>3 DEF Consume, TypeOK
<1>4. QED
  BY <1>1, <1>2, <1>3

LEMMA ManagerRing ==
    ASSUME TypeOK, SizeInv, ManagerStep
    PROVE  RingType' /\ RingFits'
<1>1. UNCHANGED <<cur, serial, mem>>
  BY DEF ManagerStep, BlockSharers, WantAdd, WantRemove, AddReader, RemoveReader,
         CloneReader, Exclusive, bufVars
<1>2. ASSUME NEW r \in Readers, readers_' = Append(readers_, r)
      PROVE readers_' \in Seq(Readers)
  BY <1>2 DEF TypeOK
<1>3. ASSUME NEW r \in Readers, RemoveReader(r)
      PROVE  RingType' /\ RingFits'
  <2>1. PICK i \in DOMAIN readers_ :
            readers_' = [j \in 1..Len(readers_) - 1 |-> readers_[IF j < i THEN j ELSE j + 1]]
    BY <1>3 DEF RemoveReader
  <2>2. readers_' \in Seq(Readers)
    <3>0. readers_ \in Seq(Readers)
      BY DEF TypeOK
    <3>1. readers_ \in Seq(Readers) /\ Len(readers_) \in Nat /\ i \in 1..Len(readers_)
      BY <3>0
    <3>2. \A j \in 1..Len(readers_) - 1 :
              readers_[IF j < i THEN j ELSE j + 1] \in Readers
      BY <3>1
    <3>3. QED
      BY <2>1, <3>1, <3>2, IsASeq
  <2>3. /\ rcur' \in [Readers -> 0..BufLen \cup {NoPos}]
        /\ stored' \in [Readers -> Nat]
        /\ \A x \in Readers : rcur'[x] + HdrLen <= BufLen
    <3>1. /\ rcur' = [rcur EXCEPT ![r] = NoPos]
          /\ stored' = [stored EXCEPT ![r] = 0]
      BY <1>3 DEF RemoveReader
    <3>2. /\ rcur \in [Readers -> 0..BufLen \cup {NoPos}]
          /\ stored \in [Readers -> Nat]
          /\ \A x \in Readers : rcur[x] + HdrLen <= BufLen
      BY DEF TypeOK, SizeInv, CursorFits
    <3>3. NoPos + HdrLen <= BufLen
      BY SizeAssumption DEF NoPos, HdrLen
    <3>4. QED
      BY <3>1, <3>2, <3>3
  <2>4. rserial' \in [Readers -> 0..SerialMod - 1]
    BY <1>3, SizeAssumption DEF RemoveReader, TypeOK
  <2>5. QED
    BY <1>1, <2>2, <2>3, <2>4 DEF RingType, RingFits, TypeOK, SizeInv, CursorFits
<1>4. ASSUME NEW r \in Readers, NEW src \in Readers, CloneReader(r, src)
      PROVE  RingType' /\ RingFits'
  <2>1. readers_' \in Seq(Readers)
    BY <1>2, <1>4 DEF CloneReader
  <2>2. /\ rcur' = [rcur EXCEPT ![r] = rcur[src]]
        /\ stored' = [stored EXCEPT ![r] = stored[src]]
        /\ rserial' = [rserial EXCEPT ![r] = rserial[src]]
    BY <1>4 DEF CloneReader
  <2>3. QED
    BY <1>1, <2>1, <2>2 DEF RingType, RingFits, TypeOK, SizeInv, CursorFits
<1>5. ASSUME NEW r \in Readers, AddReader(r) PROVE RingType' /\ RingFits'
  <2>1. readers_' \in Seq(Readers) /\ UNCHANGED readerVars
    BY <1>2, <1>5 DEF AddReader
  <2>2. QED
    BY <1>1, <2>1 DEF readerVars, RingType, RingFits, TypeOK, SizeInv, CursorFits
<1>6. ASSUME BlockSharers \/ \E r \in Readers : WantAdd(r) \/ WantRemove(r)
      PROVE  RingType' /\ RingFits'
  BY <1>6 DEF BlockSharers, WantAdd, WantRemove, bufVars, readerVars,
              RingType, RingFits, TypeOK, SizeInv, CursorFits
<1>7. QED
  BY <1>3, <1>4, <1>5, <1>6 DEF ManagerStep

-----------------------------------------------------------------------------
(* One step of a writing thread, of a reader, of the manager.               *)

\* The rest of TypeOK.
CallType ==
    /\ requested \in [Writers -> Nat]
    /\ holding \in [Readers -> BOOLEAN]
    /\ len \in [Threads -> Nat]
    /\ idx \in [Threads -> Nat]
    /\ rpc \in [Readers -> {"none", "coming", "idle", "retry", "held",
                            "leaving", "gone"}]
    /\ frm \in [Readers -> Headers \cup {NoFrame}]
    /\ mpc \in {"idle", "want"}

\* What a request that is under way has asked for and set aside.
CallSizes ==
    /\ \A t \in Threads : pc[t] = "share" \/ Listing(t) =>
          len[t] \in FrameLens /\ FrameLen(len[t]) <= BufLen
    /\ \A t \in Threads : pc[t] \in {"scan", "drop", "sleep"} =>
          reserved[WriterOf[t]] = FrameLen(len[t])
    /\ \A t \in Threads : pc[t] \in {"have", "relock"} =>
          /\ reserved[WriterOf[t]] = FrameLen(requested[WriterOf[t]])
          /\ cur + reserved[WriterOf[t]] <= BufLen

LEMMA TypeParts == TypeOK <=> RingType /\ LockType /\ CallType
BY DEF TypeOK, RingType, LockType, CallType

LEMMA SizeParts == SizeInv <=> RingFits /\ CallSizes
BY DEF SizeInv, RingFits, CallSizes

LEMMA AbandonTypes ==
    ASSUME TypeOK, NEW t \in Threads, Abandon(t)
    PROVE  /\ sharers' \subseteq Threads /\ xwait' \in BOOLEAN
           /\ wmutex' \in [Writers -> Threads \cup {NoThread}]
           /\ pc' \in [Threads -> {"idle", "share", "own", "scan", "drop", "sleep",
                                   "have", "relock"}]
           /\ len' \in [Threads -> Nat] /\ idx' \in [Threads -> Nat]
BY DEF Abandon, Return, Unshare, TypeOK

LEMMA WriterTypes ==
    ASSUME TypeOK, SizeInv, NEW t \in Threads, WriterStep(t)
    PROVE  LockType' /\ CallType'
<1>1. WriterOf[t] \in Writers /\ Nat # {}
  BY ThreadAssumption
<1>2. \A n \in Nat : FrameLen(n) \in Nat
  BY FrameLenBounds
<1> USE <1>1 DEF LockType, CallType, TypeOK
<1>3. CASE LockWriter(t)
  BY <1>3, SizeAssumption DEF LockWriter, bufVars, lockVars, readerVars, userVars
<1>4. CASE ShareList(t)
  BY <1>4 DEF ShareList, bufVars, writerVars, readerVars, userVars
<1>5. CASE TakeOwnership(t)
  <2>1. UNCHANGED <<requested, holding, rpc, frm, mpc>>
    BY <1>5 DEF TakeOwnership, readerVars, userVars
  <2>2. CASE reserved[WriterOf[t]] > 0
    <3>1. Abandon(t) /\ owner' = NoWriter /\ reserved' = reserved
      BY <1>5, <2>2 DEF TakeOwnership
    <3>2. QED
      BY <2>1, <3>1, AbandonTypes
  <2>3. CASE ~(reserved[WriterOf[t]] > 0)
    <3>1. /\ owner' = WriterOf[t]
          /\ reserved' = [reserved EXCEPT ![WriterOf[t]] = FrameLen(len[t])]
          /\ pc' = [pc EXCEPT ![t] = "scan"]
          /\ UNCHANGED <<lockVars, wmutex, len, idx>>
      BY <1>5, <2>3 DEF TakeOwnership
    <3>2. FrameLen(len[t]) \in Nat
      BY <1>2
    <3>3. QED
      BY <2>1, <3>1, <3>2 DEF lockVars
  <2>4. QED
    BY <2>2, <2>3
<1>6. CASE OwnershipTimeout(t)
  <2>1. /\ Abandon(t)
        /\ UNCHANGED <<owner, requested, reserved, holding, rpc, frm, mpc>>
    BY <1>6 DEF OwnershipTimeout, bufVars, readerVars, userVars
  <2>2. QED
    BY <2>1, AbandonTypes
<1>7. CASE PassReader(t)
  <2>1. /\ idx' = [idx EXCEPT ![t] = @ + 1]
        /\ UNCHANGED <<owner, lockVars, writerVars, holding, pc, len, userVars, mpc>>
    BY <1>7 DEF PassReader, bufVars, readerVars
  <2>2. QED
    BY <2>1 DEF lockVars, writerVars, userVars
<1>8. CASE WaitReader(t)
  BY <1>8 DEF WaitReader, bufVars, lockVars, writerVars, readerVars, userVars
<1>9. CASE DropFrame(t)
  BY <1>9 DEF DropFrame, bufVars, lockVars, writerVars, readerVars, userVars
<1>10. CASE ReaderTimeout(t)
  BY <1>10 DEF ReaderTimeout, Abandon, Return, Unshare, readerVars, userVars
<1>11. CASE GrantTail(t) \/ GrantHead(t) \/ GrantReset(t)
  <2>1. Granted(t) /\ holding' = holding
    BY <1>11 DEF GrantTail, GrantHead, GrantReset, readerVars
  <2>2. QED
    BY <2>1 DEF Granted, Return, Unshare, userVars
<1>12. CASE Commit(t) \/ Cancel(t)
  <2>1. Finished(t) /\ holding' = holding
    BY <1>12 DEF Commit, Cancel, readerVars
  <2>2. QED
    BY <2>1 DEF Finished, lockVars, userVars
<1>13. CASE RequestAgain(t)
  BY <1>13 DEF RequestAgain, bufVars, lockVars, writerVars, readerVars, userVars
<1>14. QED
  BY <1>3, <1>4, <1>5, <1>6, <1>7, <1>8, <1>9, <1>10, <1>11, <1>12, <1>13 DEF WriterStep

LEMMA WriterRing ==
    ASSUME TypeOK, SizeInv, NEW t \in Threads, WriterStep(t)
    PROVE  RingType' /\ RingFits'
<1>1. CASE GrantTail(t) \/ GrantHead(t) \/ GrantReset(t)
  BY <1>1, GrantRing
<1>2. CASE Commit(t)
  BY <1>2, CommitRing
<1>3. CASE DropFrame(t)
  BY <1>3, ConsumeRing DEF DropFrame, readerVars
<1>4. CASE \/ LockWriter(t) \/ ShareList(t) \/ TakeOwnership(t) \/ OwnershipTimeout(t)
           \/ PassReader(t) \/ WaitReader(t) \/ ReaderTimeout(t) \/ Cancel(t)
           \/ RequestAgain(t)
  <2>1. UNCHANGED <<cur, serial, mem, readers_, rcur, stored, rserial>>
    BY <1>4 DEF LockWriter, ShareList, TakeOwnership, OwnershipTimeout, PassReader,
                WaitReader, ReaderTimeout, Cancel, Finished, RequestAgain,
                bufVars, readerVars
  <2>2. QED
    BY <2>1 DEF RingType, RingFits, TypeOK, SizeInv, CursorFits
<1>5. QED
  BY <1>1, <1>2, <1>3, <1>4 DEF WriterStep

LEMMA WriterSizes ==
    ASSUME IInv, NEW t \in Threads, WriterStep(t)
    PROVE  CallSizes'
<1>1. TypeOK /\ LockInv /\ SizeInv /\ OneWriterAtATime /\ LockType
  BY OneOwner, TypeParts DEF IInv
<1>2. WriterOf \in [Threads -> Writers]
  BY ThreadAssumption
<1>3. requested \in [Writers -> Nat] /\ len \in [Threads -> Nat] /\ cur \in 0..BufLen
  BY <1>1 DEF TypeOK
\* Of two threads only one owns the ring, and no other thread uses its writer.
<1>4. \A u \in Threads \ {t} : Inside(t) /\ Inside(u) => WriterOf[u] # WriterOf[t]
  BY <1>1 DEF LockInv
<1>5. \A u \in Threads \ {t} : Owning(t) => ~Owning(u)
  BY <1>1 DEF OneWriterAtATime
<1> USE <1>2, <1>3 DEF CallSizes, LockType, Listing, Inside, Owning
<1>6. CASE LockWriter(t)
  <2>1. PICK n \in FrameLens : FrameLen(n) <= BufLen /\ len' = [len EXCEPT ![t] = n]
    BY <1>6 DEF LockWriter
  <2>2. /\ pc' = [pc EXCEPT ![t] = "share"]
        /\ UNCHANGED <<cur, reserved, requested>>
    BY <1>6 DEF LockWriter, bufVars
  <2>3. QED
    BY <1>1, <2>1, <2>2 DEF SizeInv
<1>7. CASE ShareList(t)
  <2>1. /\ pc' = [pc EXCEPT ![t] = "own"] /\ pc[t] = "share"
        /\ UNCHANGED <<cur, reserved, requested, len>>
    BY <1>7 DEF ShareList, bufVars, writerVars
  <2>2. QED
    BY <1>1, <2>1 DEF SizeInv
<1>8. CASE TakeOwnership(t)
  <2>1. pc[t] = "own" /\ reserved[WriterOf[t]] = 0
    BY <1>1, <1>8, NothingReserved DEF TakeOwnership
  <2>2. /\ pc' = [pc EXCEPT ![t] = "scan"]
        /\ reserved' = [reserved EXCEPT ![WriterOf[t]] = FrameLen(len[t])]
        /\ UNCHANGED <<cur, requested, len>>
    BY <1>8, <2>1 DEF TakeOwnership
  <2>3. QED
    BY <1>1, <1>4, <2>1, <2>2 DEF SizeInv
<1>9. CASE OwnershipTimeout(t)
  <2>1. /\ pc' = [pc EXCEPT ![t] = "idle"] /\ len' = [len EXCEPT ![t] = 0]
        /\ UNCHANGED <<cur, reserved, requested>>
    BY <1>9 DEF OwnershipTimeout, Abandon, Return, bufVars
  <2>2. QED
    BY <1>1, <2>1 DEF SizeInv
<1>10. CASE PassReader(t) \/ WaitReader(t) \/ DropFrame(t)
  <2>1. pc'[t] \in {"scan", "drop", "sleep"} /\ \A u \in Threads \ {t} : pc'[u] = pc[u]
    BY <1>1, <1>10 DEF PassReader, WaitReader, DropFrame, Scanning
  <2>2. /\ pc[t] \in {"scan", "drop"}
        /\ UNCHANGED <<cur, reserved, requested, len>>
    BY <1>10 DEF PassReader, WaitReader, DropFrame, Scanning, bufVars, writerVars
  <2>3. QED
    BY <1>1, <2>1, <2>2 DEF SizeInv
<1>11. CASE ReaderTimeout(t)
  <2>1. /\ pc' = [pc EXCEPT ![t] = "idle"] /\ len' = [len EXCEPT ![t] = 0]
        /\ reserved' = [reserved EXCEPT ![WriterOf[t]] = 0] /\ pc[t] = "sleep"
        /\ UNCHANGED <<cur, requested>>
    BY <1>11 DEF ReaderTimeout, Abandon, Return
  <2>2. QED
    BY <1>1, <1>4, <2>1 DEF SizeInv
<1>12. CASE GrantTail(t) \/ GrantHead(t) \/ GrantReset(t)
  <2>1. /\ pc[t] = "scan" /\ pc' = [pc EXCEPT ![t] = "have"]
        /\ requested' = [requested EXCEPT ![WriterOf[t]] = len[t]]
        /\ len' = [len EXCEPT ![t] = 0] /\ reserved' = reserved
    BY <1>12 DEF GrantTail, GrantHead, GrantReset, AllClear, Granted, Return
  <2>2. reserved[WriterOf[t]] = FrameLen(len[t]) /\ FrameLen(len[t]) <= BufLen
    BY <1>1, <2>1 DEF SizeInv
  <2>3. cur' + reserved[WriterOf[t]] <= BufLen
    <3>1. cur' = 0 \/ (cur' = cur /\ cur + reserved[WriterOf[t]] <= BufLen)
      BY <1>12 DEF GrantTail, GrantHead, GrantReset, FitsTail
    <3>2. FrameLen(len[t]) \in Nat
      BY FrameLenBounds
    <3>3. QED
      BY <2>2, <3>1, <3>2
  <2>4. QED
    BY <1>1, <1>4, <1>5, <2>1, <2>2, <2>3 DEF SizeInv
<1>13. CASE Commit(t) \/ Cancel(t)
  <2>1. /\ pc[t] = "have" /\ pc' = [pc EXCEPT ![t] = "idle"]
        /\ reserved' = [reserved EXCEPT ![WriterOf[t]] = 0]
        /\ UNCHANGED <<requested, len>>
    BY <1>13 DEF Commit, Cancel, Finished
  <2>2. QED
    BY <1>1, <1>4, <1>5, <2>1 DEF SizeInv
<1>14. CASE RequestAgain(t)
  <2>1. /\ pc[t] = "have" /\ pc' = [pc EXCEPT ![t] = "relock"]
        /\ UNCHANGED <<cur, reserved, requested, len>>
    BY <1>14 DEF RequestAgain, bufVars, writerVars
  <2>2. QED
    BY <1>1, <2>1 DEF SizeInv
<1>15. QED
  BY <1>6, <1>7, <1>8, <1>9, <1>10, <1>11, <1>12, <1>13, <1>14 DEF WriterStep

LEMMA ReaderPreserves ==
    ASSUME IInv, NEW r \in Readers, ReaderStep(r)
    PROVE  TypeOK' /\ SizeInv'
<1>1. TypeOK /\ SizeInv
  BY DEF IInv
<1>2. RingType' /\ RingFits'
  <2>1. UNCHANGED bufVars
    BY DEF ReaderStep, Borrow, FollowRedirect, RetryTimeout, Release
  <2>2. \/ UNCHANGED <<rcur, stored, rserial>>
        \/ stored[r] > 0 /\ \E h \in HeaderAt(rcur[r]) : Consume(r, h)
    BY DEF ReaderStep, Borrow, FollowRedirect, RetryTimeout, Release, readerVars
  <2>3. QED
    BY <1>1, <2>1, <2>2, ConsumeRing
<1>3. /\ \/ UNCHANGED pc
         \/ pc' = [t \in Threads |->
                      IF pc[t] = "sleep" /\ readers_[idx[t]] = r THEN "scan" ELSE pc[t]]
      /\ UNCHANGED <<cur, owner, lockVars, writerVars, len, idx, mpc>>
  BY DEF ReaderStep, Borrow, FollowRedirect, RetryTimeout, Release, Wake, bufVars, callVars
<1>4. LockType'
  BY <1>1, <1>3 DEF LockType, TypeOK, lockVars, writerVars
<1>5. CallSizes'
  BY <1>1, <1>3 DEF SizeInv, CallSizes, Listing, TypeOK, writerVars
<1>6. CallType'
  <2>1. holding' \in [Readers -> BOOLEAN]
    BY <1>1 DEF TypeOK, ReaderStep, Borrow, FollowRedirect, RetryTimeout, Release, readerVars
  <2>2. rpc' \in [Readers -> {"none", "coming", "idle", "retry", "held", "leaving", "gone"}]
    BY <1>1 DEF TypeOK, ReaderStep, Borrow, FollowRedirect, RetryTimeout, Release
  <2>3. frm' \in [Readers -> Headers \cup {NoFrame}]
    <3>1. \/ UNCHANGED frm
          \/ \E h \in mem \cup {NoFrame} : frm' = [frm EXCEPT ![r] = h]
      BY DEF ReaderStep, Borrow, FollowRedirect, RetryTimeout, Release, HeaderAt
    <3>2. mem \subseteq Headers /\ frm \in [Readers -> Headers \cup {NoFrame}]
      BY <1>1 DEF TypeOK
    <3>3. QED
      BY <3>1, <3>2
  <2>4. QED
    BY <1>1, <1>3, <2>1, <2>2, <2>3 DEF CallType, TypeOK, writerVars
<1>7. QED
  BY <1>2, <1>4, <1>5, <1>6
     DEF TypeOK, RingType, LockType, CallType, SizeInv, RingFits, CallSizes

LEMMA ManagerPreserves ==
    ASSUME IInv, ManagerStep
    PROVE  TypeOK' /\ SizeInv'
<1>1. TypeOK /\ SizeInv
  BY DEF IInv
<1>2. RingType' /\ RingFits'
  BY <1>1, ManagerRing
<1>3. /\ UNCHANGED <<cur, owner, sharers, writerVars, callVars, frm>>
      /\ xwait' \in BOOLEAN /\ mpc' \in {"idle", "want"}
  BY <1>1 DEF ManagerStep, BlockSharers, WantAdd, WantRemove, AddReader, RemoveReader,
              CloneReader, Exclusive, bufVars, lockVars, userVars, TypeOK
<1>4. LockType' /\ CallSizes'
  BY <1>1, <1>3 DEF LockType, TypeOK, SizeInv, CallSizes, Listing, writerVars, callVars
<1>5. holding' \in [Readers -> BOOLEAN]
  <2>1. \/ UNCHANGED holding
        \/ \E r \in Readers : holding' = [holding EXCEPT ![r] = FALSE]
    BY DEF ManagerStep, BlockSharers, WantAdd, WantRemove, AddReader, RemoveReader,
           CloneReader, readerVars
  <2>2. holding \in [Readers -> BOOLEAN]
    BY <1>1 DEF TypeOK
  <2>3. QED
    BY <2>1, <2>2
<1>6. rpc' \in [Readers -> {"none", "coming", "idle", "retry", "held", "leaving", "gone"}]
  <2>1. \/ UNCHANGED rpc
        \/ \E r \in Readers, p \in {"coming", "idle", "leaving", "gone"} :
              rpc' = [rpc EXCEPT ![r] = p]
    BY DEF ManagerStep, BlockSharers, WantAdd, WantRemove, AddReader, RemoveReader,
           CloneReader, userVars
  <2>2. rpc \in [Readers -> {"none", "coming", "idle", "retry", "held", "leaving", "gone"}]
    BY <1>1 DEF TypeOK
  <2>3. QED
    BY <2>1, <2>2
<1>7. CallType'
  BY <1>1, <1>3, <1>5, <1>6 DEF CallType, TypeOK, writerVars, callVars
<1>8. QED
  BY <1>2, <1>4, <1>7
     DEF TypeOK, RingType, LockType, CallType, SizeInv, RingFits, CallSizes

LEMMA NextIInv == IInv /\ [Next]_vars => IInv'
<1> SUFFICES ASSUME IInv, [Next]_vars PROVE IInv'
  OBVIOUS
<1>1. TypeOK /\ SizeInv
  BY DEF IInv
<1>2. LockInv'
  BY LockStep
<1>3. ASSUME NEW t \in Threads, WriterStep(t) PROVE TypeOK' /\ SizeInv'
  <2>1. RingType' /\ RingFits' /\ LockType' /\ CallType' /\ CallSizes'
    BY <1>1, <1>3, WriterRing, WriterTypes, WriterSizes
  <2>2. QED
    BY <2>1 DEF TypeOK, RingType, LockType, CallType, SizeInv, RingFits, CallSizes
<1>4. CASE UNCHANGED vars
  <2>1. TypeOK'
    BY <1>1, <1>4 DEF TypeOK, vars, bufVars, lockVars, writerVars, readerVars, callVars, userVars
  <2>2. SizeInv'
    BY <1>1, <1>4 DEF SizeInv, CursorFits, Listing,
                      vars, bufVars, writerVars, readerVars, callVars
  <2>3. QED
    BY <1>2, <2>1, <2>2 DEF IInv
<1>5. QED
  BY <1>2, <1>3, <1>4, ReaderPreserves, ManagerPreserves DEF Next, IInv

-----------------------------------------------------------------------------
(* What follows from the locks and the sizes.                               *)

LEMMA Invariance == Spec => []IInv
BY InitIInv, NextIInv, PTL DEF Spec

\* Whatever the threads do, every variable keeps its type: cursors stay in the
\* ring, serial numbers below 2^32, counts of frames do not go negative.
THEOREM TypeCorrect == Spec => []TypeOK
<1>1. IInv => TypeOK
  BY DEF IInv
<1>2. QED
  BY <1>1, Invariance, PTL

\* owner_ and the writers' mutexes give the ring to one thread at a time,
\* however many writers there are and however many threads share one.
THEOREM MutualExclusion == Spec => []OneWriterAtATime
<1>1. IInv => OneWriterAtATime
  BY OneOwner DEF IInv
<1>2. QED
  BY <1>1, Invariance, PTL

\* The branch at buffer.cpp:709 that answers JGB_ERR_DENIED is never taken.
THEOREM NeverDenied == Spec => []DeniedUnreachable
<1>1. IInv => DeniedUnreachable
  BY NothingReserved DEF IInv, TypeOK, LockType, DeniedUnreachable
<1>2. QED
  BY <1>1, Invariance, PTL

\* No header is ever read or written past the end of the ring.
THEOREM CursorsFit == Spec => []CursorFits
<1>1. IInv => CursorFits
  BY DEF IInv, SizeInv
<1>2. QED
  BY <1>1, Invariance, PTL

-----------------------------------------------------------------------------
(* Chains, as facts about a set M of headers, a write cursor c and the       *)
(* serial number s of the next frame.                                       *)

\* The header that will be written next, as far as it is known.
Coming(c, s) == [pos |-> c, serial |-> s, len |-> 0, off |-> 0]

\* m headers of M, the first at p, that lead to the write cursor; the header
\* still to come follows the last.
Chain(M, c, s, p, m, q) ==
    /\ q \in [1 .. m + 1 -> Headers]
    /\ q[1].pos = p
    /\ q[m + 1] = Coming(c, s)
    /\ \A i \in 1 .. m : /\ q[i] \in M
                         /\ q[i + 1].pos = NextPos(q[i])
                         /\ q[i + 1].serial = Inc(q[i].serial)

\* They lie in the ring in that order from the first to its end, and from the
\* k-th on, if there is one, from the start of the ring on, up to the first at
\* most.
Laid(m, q, k) ==
    /\ \A i, j \in 1 .. m + 1 :
          i < j /\ (i < k <=> j < k) => q[i].pos + TotalLen(q[i]) <= q[j].pos
    /\ k <= m + 1 => q[m + 1].pos <= q[1].pos

\* A reader at p with m frames stored can read them all.
Leads(M, c, s, p, m) ==
    \E q : Chain(M, c, s, p, m, q) /\ \E k \in 2 .. m + 2 : Laid(m, q, k)

\* The headers of M have each their place.
HeadersApart(M) ==
    \A g, h \in M : g # h => g.pos + HdrLen <= h.pos \/ h.pos + HdrLen <= g.pos

\* A writer that sets n bytes aside at c passes a reader at p with m frames.
Room(c, n, p, m) == m = 0 \/ p < c \/ c + n <= p

LEMMA HeaderShape ==
    ASSUME NEW h \in Headers
    PROVE  /\ h.pos \in 0 .. BufLen /\ h.pos \in Int
           /\ h.serial \in 0 .. SerialMod - 1
           /\ TotalLen(h) \in Nat /\ TotalLen(h) >= HdrLen /\ TotalLen(h) > 0
<1>1. h.pos \in 0 .. BufLen /\ h.serial \in 0 .. SerialMod - 1
  BY DEF Headers
<1> QED
  BY <1>1, TotalLenType, SizeAssumption DEF HdrLen

LEMMA ComingShape ==
    ASSUME NEW c \in 0 .. BufLen, NEW s \in 0 .. SerialMod - 1
    PROVE  Coming(c, s) \in Headers
BY DEF Coming, Headers

\* The parts of a chain.
LEMMA ChainEnds ==
    ASSUME NEW M, NEW c \in 0 .. BufLen, NEW s, NEW p, NEW m \in Nat, NEW q,
           Chain(M, c, s, p, m, q)
    PROVE  /\ q[1].pos = p /\ q[m + 1].pos = c /\ q[m + 1].serial = s
           /\ p \in 0 .. BufLen /\ p \in Int /\ c \in Int
           /\ m = 0 => p = c
           /\ TotalLen(q[1]) \in Nat /\ TotalLen(q[1]) > 0
<1>1. q[1].pos = p /\ q[m + 1].pos = c /\ q[m + 1].serial = s
  BY DEF Chain, Coming
<1>2. 1 \in 1 .. m + 1 /\ c \in Int
  BY SizeAssumption
<1>3. q[1] \in Headers
  BY <1>2 DEF Chain
<1> QED
  BY <1>1, <1>2, <1>3, HeaderShape

LEMMA ChainParts ==
    ASSUME NEW M, NEW c, NEW s, NEW p, NEW m \in Nat, NEW q, Chain(M, c, s, p, m, q),
           NEW i \in 1 .. m
    PROVE  /\ q[i] \in M /\ q[i] \in Headers
           /\ q[i].pos \in Int /\ TotalLen(q[i]) \in Nat /\ TotalLen(q[i]) > 0
<1>1. q[i] \in M /\ q[i] \in Headers
  BY DEF Chain
<1> QED
  BY <1>1, HeaderShape

\* A chain that has not come back to the start ends beyond where it begins, and
\* one that has ends before.
LEMMA WayRound ==
    ASSUME NEW M, NEW c \in 0 .. BufLen, NEW s, NEW p, NEW m \in Nat \ {0}, NEW q,
           NEW k \in 2 .. m + 2, Chain(M, c, s, p, m, q), Laid(m, q, k)
    PROVE  IF k = m + 2 THEN p < c ELSE c <= p
<1>1. /\ q[1].pos = p /\ q[m + 1].pos = c /\ c \in Int /\ p \in Int
      /\ TotalLen(q[1]) \in Nat /\ TotalLen(q[1]) > 0
  BY ChainEnds
<1>2. k = m + 2 => q[1].pos + TotalLen(q[1]) <= q[m + 1].pos
  <2>1. 1 \in 1 .. m + 1 /\ m + 1 \in 1 .. m + 1 /\ 1 < m + 1
    OBVIOUS
  <2> QED
    BY <2>1 DEF Laid
<1>3. k # m + 2 => q[m + 1].pos <= q[1].pos
  BY DEF Laid
<1> QED
  BY <1>1, <1>2, <1>3

\* Where the headers of a chain lie.
LEMMA ChainPlaces ==
    ASSUME NEW M, NEW c \in 0 .. BufLen, NEW s, NEW p, NEW m \in Nat, NEW q,
           NEW k \in 2 .. m + 2, Chain(M, c, s, p, m, q), Laid(m, q, k), NEW i \in 1 .. m
    PROVE  /\ i < k => p <= q[i].pos
           /\ k = m + 2 \/ k <= i => q[i].pos + TotalLen(q[i]) <= c
<1>1. /\ q[1].pos = p /\ q[m + 1].pos = c /\ c \in Int /\ p \in Int
      /\ TotalLen(q[1]) \in Nat /\ TotalLen(q[1]) > 0
  BY ChainEnds
<1>0. q[i].pos \in Int
  BY ChainParts
<1>2. i < k /\ i # 1 => q[1].pos + TotalLen(q[1]) <= q[i].pos
  <2>1. 1 \in 1 .. m + 1 /\ i \in 1 .. m + 1 /\ (i # 1 => 1 < i) /\ 1 < k
    OBVIOUS
  <2> QED
    BY <2>1 DEF Laid
<1>3. k = m + 2 \/ k <= i => q[i].pos + TotalLen(q[i]) <= q[m + 1].pos
  <2>1. m + 1 \in 1 .. m + 1 /\ i \in 1 .. m + 1 /\ i < m + 1
    OBVIOUS
  <2>2. k = m + 2 \/ k <= i => (i < k <=> m + 1 < k)
    OBVIOUS
  <2> QED
    BY <2>1, <2>2 DEF Laid
<1> QED
  BY <1>0, <1>1, <1>2, <1>3

\* A region set aside at the write cursor has nothing of the chain in it.
LEMMA RegionFree ==
    ASSUME NEW M, NEW c \in 0 .. BufLen, NEW s, NEW p, NEW m \in Nat, NEW q,
           NEW k \in 2 .. m + 2, Chain(M, c, s, p, m, q), Laid(m, q, k),
           NEW n \in Nat, Room(c, n, p, m), NEW i \in 1 .. m
    PROVE  Disjoint(c, c + n, q[i])
<1>1. /\ IF k = m + 2 THEN p < c ELSE c <= p
      /\ i < k => p <= q[i].pos
      /\ k = m + 2 \/ k <= i => q[i].pos + TotalLen(q[i]) <= c
  <2>1. m \in Nat \ {0}
    OBVIOUS
  <2> QED
    BY <2>1, WayRound, ChainPlaces
<1>2. c \in Int /\ p \in Int
  BY ChainEnds
<1>5. q[i].pos \in Int
  BY ChainParts
<1>6. m # 0
  OBVIOUS
<1>3. CASE k = m + 2 \/ k <= i
  BY <1>1, <1>3 DEF Disjoint
<1>4. CASE k # m + 2 /\ i < k
  BY <1>1, <1>2, <1>4, <1>5, <1>6 DEF Disjoint, Room
<1> QED
  BY <1>3, <1>4

\* What a chain needs of memory is its headers.
LEMMA ChainElsewhere ==
    ASSUME NEW M, NEW N, NEW c, NEW s, NEW p, NEW m \in Nat, NEW q,
           Chain(M, c, s, p, m, q), \A i \in 1 .. m : q[i] \in N
    PROVE  Chain(N, c, s, p, m, q)
BY DEF Chain

\* Nothing is stored for a reader at the write cursor.
LEMMA NothingToRead ==
    ASSUME NEW M, NEW c \in 0 .. BufLen, NEW s \in 0 .. SerialMod - 1
    PROVE  Leads(M, c, s, c, 0)
<1> DEFINE q == [i \in 1 .. 0 + 1 |-> Coming(c, s)]
<1>1. Chain(M, c, s, c, 0, q)
  <2>1. q \in [1 .. 0 + 1 -> Headers]
    BY ComingShape
  <2>2. q[1].pos = c /\ q[0 + 1] = Coming(c, s)
    BY DEF Coming
  <2> QED
    BY <2>1, <2>2 DEF Chain
<1>2. Laid(0, q, 2)
  BY DEF Laid
<1>3. 2 \in 2 .. 0 + 2
  OBVIOUS
<1> QED
  BY <1>1, <1>2, <1>3 DEF Leads

LEMMA NothingStored ==
    ASSUME NEW M, NEW c \in 0 .. BufLen, NEW s, NEW p, Leads(M, c, s, p, 0)
    PROVE  p = c
<1>1. PICK q : Chain(M, c, s, p, 0, q)
  BY DEF Leads
<1> QED
  BY <1>1, ChainEnds

\* A reader that has read the first header goes on with the others.
LEMMA ChainConsumed ==
    ASSUME NEW M, NEW c \in 0 .. BufLen, NEW s, NEW p, NEW m \in Nat \ {0}, NEW q,
           Chain(M, c, s, p, m, q)
    PROVE  Chain(M, c, s, NextPos(q[1]), m - 1, [i \in 1 .. m |-> q[i + 1]])
<1> DEFINE z == [i \in 1 .. m |-> q[i + 1]]
<1>1. m - 1 + 1 = m /\ \A i \in 1 .. m : i + 1 \in 1 .. m + 1
  OBVIOUS
<1>2. z \in [1 .. m -> Headers]
  BY <1>1 DEF Chain
<1>3. z[1].pos = NextPos(q[1])
  <2>1. 1 \in 1 .. m
    OBVIOUS
  <2> QED
    BY <2>1 DEF Chain
<1>4. z[m] = Coming(c, s)
  BY DEF Chain
<1>5. ASSUME NEW i \in 1 .. m - 1
      PROVE  /\ z[i] \in M /\ z[i + 1].pos = NextPos(z[i])
             /\ z[i + 1].serial = Inc(z[i].serial)
  <2>1. i + 1 \in 1 .. m /\ i \in 1 .. m
    OBVIOUS
  <2>2. z[i] = q[i + 1] /\ z[i + 1] = q[i + 1 + 1]
    BY <2>1
  <2> QED
    BY <2>1, <2>2 DEF Chain
<1> HIDE DEF z
<1>6. Chain(M, c, s, NextPos(q[1]), m - 1, z)
  BY <1>1, <1>2, <1>3, <1>4, <1>5 DEF Chain
<1> QED
  BY <1>6 DEF z

LEMMA LaidConsumed ==
    ASSUME NEW M, NEW c \in 0 .. BufLen, NEW s, NEW p, NEW m \in Nat \ {0}, NEW q,
           NEW k \in 2 .. m + 2, Chain(M, c, s, p, m, q), Laid(m, q, k)
    PROVE  \E k2 \in 2 .. m + 1 : Laid(m - 1, [i \in 1 .. m |-> q[i + 1]], k2)
<1> DEFINE z == [i \in 1 .. m |-> q[i + 1]]
           k2 == IF k = 2 THEN m + 1 ELSE k - 1
<1>2. k2 \in 2 .. m + 1 /\ m - 1 + 1 = m
  OBVIOUS
<1>3. ASSUME NEW i \in 1 .. m, NEW j \in 1 .. m, i < j, i < k2 <=> j < k2
      PROVE  z[i].pos + TotalLen(z[i]) <= z[j].pos
  <2>1. i + 1 \in 1 .. m + 1 /\ j + 1 \in 1 .. m + 1 /\ i + 1 < j + 1
    BY <1>3
  <2>2. i + 1 < k <=> j + 1 < k
    BY <1>3
  <2> QED
    BY <2>1, <2>2 DEF Laid
<1>4. ASSUME k2 <= m PROVE z[m].pos <= z[1].pos
  <2>1. k > 2 /\ k <= m + 1 /\ m > 1
    BY <1>4
  <2>2. 1 \in 1 .. m + 1 /\ 2 \in 1 .. m + 1 /\ 1 < k /\ 2 < k
    BY <2>1
  <2>3. q[1].pos + TotalLen(q[1]) <= q[2].pos
    BY <2>2 DEF Laid
  <2>4. q[m + 1].pos <= q[1].pos
    BY <2>1 DEF Laid
  <2>5. /\ q[1].pos \in Int /\ q[2].pos \in Int /\ q[m + 1].pos \in Int
        /\ TotalLen(q[1]) \in Nat
    <3>1. 1 \in 1 .. m /\ 2 \in 1 .. m
      BY <2>1
    <3>2. q[1].pos \in Int /\ TotalLen(q[1]) \in Nat /\ q[2].pos \in Int
      BY <3>1, ChainParts
    <3>3. q[m + 1].pos \in Int
      BY ChainEnds
    <3> QED
      BY <3>2, <3>3
  <2>6. q[m + 1].pos <= q[1 + 1].pos
    BY <2>3, <2>4, <2>5
  <2> QED
    BY <2>6
<1> HIDE DEF z, k2
<1>5. Laid(m - 1, z, k2)
  BY <1>2, <1>3, <1>4 DEF Laid
<1> QED
  BY <1>2, <1>5 DEF z

LEMMA LeadsConsumed ==
    ASSUME NEW M, HeadersApart(M), M \subseteq Headers, NEW c \in 0 .. BufLen, NEW s, NEW p,
           NEW m \in Nat \ {0}, Leads(M, c, s, p, m), NEW h \in M, h.pos = p
    PROVE  Leads(M, c, s, NextPos(h), m - 1)
<1>1. PICK q : Chain(M, c, s, p, m, q) /\ \E k \in 2 .. m + 2 : Laid(m, q, k)
  BY DEF Leads
<1>2. q[1] = h
  <2>1. 1 \in 1 .. m
    OBVIOUS
  <2>2. q[1] \in M /\ q[1].pos = p /\ p \in Int
    BY <1>1, <2>1, ChainParts, ChainEnds
  <2> QED
    BY <2>2 DEF HeadersApart, HdrLen
<1>3. m - 1 \in Nat /\ m - 1 + 2 = m + 1
  OBVIOUS
<1>4. Chain(M, c, s, NextPos(h), m - 1, [i \in 1 .. m |-> q[i + 1]])
  BY <1>1, <1>2, ChainConsumed
<1>5. \E k \in 2 .. m + 1 : Laid(m - 1, [i \in 1 .. m |-> q[i + 1]], k)
  BY <1>1, LaidConsumed
<1> QED
  BY <1>3, <1>4, <1>5 DEF Leads

\* The chain q with the header h instead of the one that was still to come.
Extended(q, m, h, next) ==
    [i \in 1 .. m + 2 |-> IF i <= m THEN q[i] ELSE IF i = m + 1 THEN h ELSE next]

\* A header published at the write cursor becomes the last of the chain.
LEMMA ChainExtended ==
    ASSUME NEW M, NEW c \in 0 .. BufLen, NEW s \in 0 .. SerialMod - 1, NEW p, NEW m \in Nat,
           NEW q, Chain(M, c, s, p, m, q),
           NEW N, \A i \in 1 .. m : q[i] \in N,
           NEW h \in N, h \in Headers, h.pos = c, h.serial = s,
           NextPos(h) \in 0 .. BufLen,
           NEW z, z = Extended(q, m, h, Coming(NextPos(h), Inc(s)))
    PROVE  Chain(N, NextPos(h), Inc(s), p, m + 1, z)
<1>0. z = [i \in 1 .. m + 2 |-> IF i <= m THEN q[i]
                                ELSE IF i = m + 1 THEN h ELSE Coming(NextPos(h), Inc(s))]
  BY DEF Extended
<1>1. m + 1 + 1 = m + 2 /\ m + 1 \in Nat
  OBVIOUS
<1>2. Coming(NextPos(h), Inc(s)) \in Headers
  BY ComingShape, IncType
<1>3. z \in [1 .. m + 2 -> Headers]
  <2>1. \A i \in 1 .. m + 2 : i <= m => q[i] \in Headers
    BY DEF Chain
  <2> QED
    BY <1>0, <1>2, <2>1
<1>4. z[1].pos = p
  <2>1. m = 0 => p = c
    BY ChainEnds
  <2>2. q[1].pos = p
    BY ChainEnds
  <2>3. 1 \in 1 .. m + 2
    OBVIOUS
  <2> QED
    BY <1>0, <2>1, <2>2, <2>3
<1>5. z[m + 2] = Coming(NextPos(h), Inc(s)) /\ z[m + 1] = h
  BY <1>0
<1>6. ASSUME NEW i \in 1 .. m
      PROVE  /\ z[i] \in N /\ z[i + 1].pos = NextPos(z[i])
             /\ z[i + 1].serial = Inc(z[i].serial)
  <2>1. z[i] = q[i] /\ z[i + 1] = (IF i = m THEN h ELSE q[i + 1])
    BY <1>0
  <2>2. q[i + 1].pos = NextPos(q[i]) /\ q[i + 1].serial = Inc(q[i].serial)
    BY DEF Chain
  <2>3. q[m + 1].pos = c /\ q[m + 1].serial = s
    BY ChainEnds
  <2> QED
    BY <2>1, <2>2, <2>3
<1>7. z[m + 1] \in N /\ z[m + 2].pos = NextPos(h) /\ z[m + 2].serial = Inc(h.serial)
  BY <1>5 DEF Coming
<1>8. ASSUME NEW i \in 1 .. m + 1
      PROVE  /\ z[i] \in N /\ z[i + 1].pos = NextPos(z[i])
             /\ z[i + 1].serial = Inc(z[i].serial)
  <2>1. CASE i = m + 1
    BY <1>5, <1>7, <2>1
  <2>2. CASE i # m + 1
    <3>1. i \in 1 .. m
      BY <2>2
    <3> QED
      BY <1>6, <3>1
  <2> QED
    BY <2>1, <2>2
<1> QED
  BY <1>1, <1>3, <1>4, <1>5, <1>8 DEF Chain

\* The new header lies behind the last of those it follows, and the cursor goes
\* on behind it or, if the chain has not been there yet, at the start.
LEMMA LaidExtended ==
    ASSUME NEW M, NEW c \in 0 .. BufLen, NEW s \in 0 .. SerialMod - 1, NEW p, NEW m \in Nat,
           NEW q, Chain(M, c, s, p, m, q), NEW k \in 2 .. m + 2, Laid(m, q, k),
           NEW h \in Headers, h.pos = c, NEW c2 \in 0 .. BufLen,
           \/ c2 = c + TotalLen(h) /\ Room(c, TotalLen(h), p, m)
           \/ c2 = 0 /\ (m = 0 \/ p < c),
           NEW z, z = Extended(q, m, h, Coming(c2, Inc(s)))
    PROVE  \E k2 \in 2 .. m + 3 : Laid(m + 1, z, k2)
<1>0. z = [i \in 1 .. m + 2 |-> IF i <= m THEN q[i]
                                ELSE IF i = m + 1 THEN h ELSE Coming(c2, Inc(s))]
  BY DEF Extended
<1>1. /\ q[1].pos = p /\ q[m + 1].pos = c /\ p \in Int /\ c \in Int /\ 0 <= p
      /\ m = 0 => p = c
  BY ChainEnds, SizeAssumption
<1>2. /\ TotalLen(h) \in Nat /\ TotalLen(h) > 0 /\ c2 \in Int
  BY HeaderShape, SizeAssumption
<1>3. m # 0 => IF k = m + 2 THEN p < c ELSE c <= p
  <2> SUFFICES ASSUME m # 0 PROVE IF k = m + 2 THEN p < c ELSE c <= p
    OBVIOUS
  <2>1. m \in Nat \ {0}
    OBVIOUS
  <2> QED
    BY <2>1, WayRound
<1>4. z[1].pos = p /\ z[m + 1] = h /\ z[m + 2].pos = c2 /\ \A i \in 1 .. m : z[i] = q[i]
  BY <1>0, <1>1 DEF Coming
\* Up to the new header nothing has changed.
<1>5. ASSUME NEW i \in 1 .. m + 1, NEW j \in 1 .. m + 1, i < j, i < k <=> j < k
      PROVE  z[i].pos + TotalLen(z[i]) <= z[j].pos
  <2>1. q[i].pos + TotalLen(q[i]) <= q[j].pos
    BY <1>5 DEF Laid
  <2>2. i \in 1 .. m /\ z[i] = q[i] /\ z[j].pos = q[j].pos
    BY <1>1, <1>4, <1>5
  <2> QED
    BY <2>1, <2>2
<1>6. \A i \in 1 .. m + 1 : z[i].pos \in Int /\ TotalLen(z[i]) \in Nat
  <2>1. \A i \in 1 .. m : q[i].pos \in Int /\ TotalLen(q[i]) \in Nat
    BY ChainParts
  <2>2. z[m + 1].pos \in Int /\ TotalLen(z[m + 1]) \in Nat
    BY <1>1, <1>2, <1>4
  <2> QED
    BY <1>4, <2>1, <2>2
<1>7. CASE c2 = c + TotalLen(h) /\ Room(c, TotalLen(h), p, m)
  <2> DEFINE k2 == IF k = m + 2 THEN m + 3 ELSE k
  <2>1. ASSUME NEW i \in 1 .. m + 2, NEW j \in 1 .. m + 2, i < j, i < k2 <=> j < k2
        PROVE  z[i].pos + TotalLen(z[i]) <= z[j].pos
    <3>1. CASE j <= m + 1
      <4>1. i \in 1 .. m + 1 /\ j \in 1 .. m + 1 /\ (i < k <=> j < k)
        BY <2>1, <3>1
      <4> QED
        BY <1>5, <2>1, <4>1
    <3>2. CASE j = m + 2 /\ i <= m
      <4>1. i < k <=> m + 1 < k
        BY <2>1, <3>2
      <4>2. i \in 1 .. m + 1 /\ m + 1 \in 1 .. m + 1 /\ i < m + 1
        BY <3>2
      <4>3. z[i].pos + TotalLen(z[i]) <= z[m + 1].pos
        BY <1>5, <4>1, <4>2
      <4>4. z[i].pos \in Int /\ TotalLen(z[i]) \in Nat
        BY <1>6, <4>2
      <4>5. z[m + 1].pos = c /\ z[j].pos = c2
        BY <1>4, <3>2
      <4> QED
        BY <1>1, <1>2, <1>7, <4>3, <4>4, <4>5
    <3>3. CASE j = m + 2 /\ i = m + 1
      BY <1>1, <1>4, <1>7, <3>3
    <3> QED
      BY <2>1, <3>1, <3>2, <3>3
  <2>2. k2 <= m + 2 => z[m + 2].pos <= z[1].pos
    BY <1>1, <1>2, <1>3, <1>4, <1>7 DEF Room
  <2>3. k2 \in 2 .. m + 3 /\ m + 1 + 1 = m + 2
    OBVIOUS
  <2> HIDE DEF k2
  <2> QED
    BY <2>1, <2>2, <2>3 DEF Laid
<1>8. CASE c2 = 0 /\ (m = 0 \/ p < c)
  <2>1. k = m + 2
    BY <1>1, <1>3, <1>8
  <2>2. ASSUME NEW i \in 1 .. m + 2, NEW j \in 1 .. m + 2, i < j, i < m + 2 <=> j < m + 2
        PROVE  z[i].pos + TotalLen(z[i]) <= z[j].pos
    <3>1. i \in 1 .. m + 1 /\ j \in 1 .. m + 1 /\ (i < k <=> j < k)
      BY <2>1, <2>2
    <3> QED
      BY <1>5, <2>2, <3>1
  <2>3. z[m + 2].pos <= z[1].pos
    BY <1>1, <1>4, <1>8
  <2>4. m + 2 \in 2 .. m + 3 /\ m + 1 + 1 = m + 2
    OBVIOUS
  <2> QED
    BY <2>2, <2>3, <2>4 DEF Laid
<1> QED
  BY <1>7, <1>8

LEMMA LeadsExtended ==
    ASSUME NEW M, NEW c \in 0 .. BufLen, NEW s \in 0 .. SerialMod - 1, NEW p, NEW m \in Nat,
           NEW q, Chain(M, c, s, p, m, q), NEW k \in 2 .. m + 2, Laid(m, q, k),
           NEW N, \A i \in 1 .. m : q[i] \in N,
           NEW h \in N, h \in Headers, h.pos = c, h.serial = s,
           NextPos(h) \in 0 .. BufLen,
           \/ NextPos(h) = c + TotalLen(h) /\ Room(c, TotalLen(h), p, m)
           \/ NextPos(h) = 0 /\ (m = 0 \/ p < c)
    PROVE  Leads(N, NextPos(h), Inc(s), p, m + 1)
<1>1. Chain(N, NextPos(h), Inc(s), p, m + 1, Extended(q, m, h, Coming(NextPos(h), Inc(s))))
  BY ChainExtended
<1>2. \E k2 \in 2 .. m + 3 : Laid(m + 1, Extended(q, m, h, Coming(NextPos(h), Inc(s))), k2)
  BY LaidExtended
<1>3. m + 1 + 2 = m + 3
  OBVIOUS
<1> QED
  BY <1>1, <1>2, <1>3 DEF Leads

\* Reading on, a reader stays behind the write cursor or in front of it, or has
\* read all there is.
LEMMA LeadsOn ==
    ASSUME NEW M, HeadersApart(M), M \subseteq Headers, NEW c \in 0 .. BufLen, NEW s, NEW p,
           NEW m \in Nat \ {0}, Leads(M, c, s, p, m), NEW h \in M, h.pos = p
    PROVE  /\ p \in Int /\ NextPos(h) \in Int
           /\ m = 1 => NextPos(h) = c
           /\ m # 1 => \/ NextPos(h) < c /\ (p < c => p < NextPos(h))
                       \/ c <= p /\ p < NextPos(h)
<1>1. PICK q : Chain(M, c, s, p, m, q) /\ \E k \in 2 .. m + 2 : Laid(m, q, k)
  BY DEF Leads
<1>2. PICK k \in 2 .. m + 2 : Laid(m, q, k)
  BY <1>1
<1>3. /\ q[1].pos = p /\ p \in Int /\ c \in Int /\ q[m + 1].pos = c
      /\ TotalLen(q[1]) \in Nat /\ TotalLen(q[1]) > 0
  BY <1>1, ChainEnds
<1>4. IF k = m + 2 THEN p < c ELSE c <= p
  BY <1>1, <1>2, WayRound
<1>5. q[1] = h
  <2>1. 1 \in 1 .. m
    OBVIOUS
  <2>2. q[1] \in M
    BY <1>1, <2>1, ChainParts
  <2> QED
    BY <1>3, <2>2 DEF HeadersApart, HdrLen
<1>6. q[2].pos = NextPos(h)
  <2>1. 1 \in 1 .. m
    OBVIOUS
  <2>2. q[1 + 1].pos = NextPos(q[1])
    BY <1>1, <2>1 DEF Chain
  <2> QED
    BY <1>5, <2>2
<1>7. CASE m = 1
  BY <1>3, <1>6, <1>7
<1>8. CASE m # 1
  <2>1. 2 \in 1 .. m /\ 1 \in 1 .. m + 1 /\ 2 \in 1 .. m + 1 /\ m + 1 \in 1 .. m + 1 /\ 2 < m + 1
    BY <1>8
  <2>2. q[2].pos \in Int /\ TotalLen(q[2]) \in Nat /\ TotalLen(q[2]) > 0
    BY <1>1, <2>1, ChainParts
  <2>3. k > 2 => q[1].pos + TotalLen(q[1]) <= q[2].pos
    BY <1>2, <2>1 DEF Laid
  <2>4. k = m + 2 \/ k = 2 => q[2].pos + TotalLen(q[2]) <= q[m + 1].pos
    BY <1>2, <2>1 DEF Laid
  <2>5. NextPos(h) \in Int
    BY <1>6, <2>2
  <2>6. CASE k = m + 2
    BY <1>3, <1>4, <1>6, <1>8, <2>2, <2>3, <2>4, <2>6
  <2>7. CASE k = 2
    BY <1>3, <1>4, <1>6, <1>8, <2>2, <2>4, <2>7
  <2>8. CASE k # 2 /\ k # m + 2
    BY <1>3, <1>4, <1>6, <1>8, <2>2, <2>3, <2>8
  <2> QED
    BY <2>6, <2>7, <2>8
<1> QED
  BY <1>7, <1>8

-----------------------------------------------------------------------------
(* What a writer does to the chains.                                        *)

LEMMA ApartShrinks ==
    ASSUME NEW M, NEW N, N \subseteq M, HeadersApart(M)
    PROVE  HeadersApart(N)
BY DEF HeadersApart

LEMMA ApartAdded ==
    ASSUME NEW M, HeadersApart(M), NEW h
    PROVE  HeadersApart(Overwrite(M, h.pos, h.pos + HdrLen) \cup {h})
BY DEF HeadersApart, Overwrite

\* Bytes set aside where there is room cost no reader a frame.
LEMMA LeadsReserved ==
    ASSUME NEW M, M \subseteq Headers, NEW c \in 0 .. BufLen, NEW s, NEW p, NEW m \in Nat,
           Leads(M, c, s, p, m), NEW n \in Nat, Room(c, n, p, m)
    PROVE  Leads(Overwrite(M, c, c + n), c, s, p, m)
<1>1. PICK q : Chain(M, c, s, p, m, q) /\ \E k \in 2 .. m + 2 : Laid(m, q, k)
  BY DEF Leads
<1>2. ASSUME NEW i \in 1 .. m PROVE q[i] \in Overwrite(M, c, c + n)
  <2>1. Disjoint(c, c + n, q[i])
    BY <1>1, RegionFree
  <2>2. q[i] \in M /\ q[i] \in Headers
    BY <1>1, ChainParts
  <2>3. q[i].pos \in Int /\ TotalLen(q[i]) \in Nat /\ TotalLen(q[i]) >= HdrLen
    BY <2>2, HeaderShape
  <2> QED
    BY <2>1, <2>2, <2>3, SizeAssumption DEF Disjoint, Overwrite, HdrLen
<1>3. Chain(Overwrite(M, c, c + n), c, s, p, m, q)
  BY <1>1, <1>2, ChainElsewhere
<1> QED
  BY <1>1, <1>3 DEF Leads

\* A frame published in the bytes set aside.
LEMMA LeadsCommitted ==
    ASSUME NEW M, M \subseteq Headers, NEW c \in 0 .. BufLen, NEW s \in 0 .. SerialMod - 1,
           NEW p, p + HdrLen <= BufLen, NEW m \in Nat, Leads(M, c, s, p, m),
           NEW n \in Nat, HdrLen <= n, Room(c, n, p, m),
           NEW h \in Headers, h.pos = c, h.serial = s, ~IsRedirect(h),
           TotalLen(h) <= n, c + n <= BufLen
    PROVE  Leads(Overwrite(M, c, c + HdrLen) \cup {h}, NextPos(h), Inc(s), p, m + 1)
<1> DEFINE N == Overwrite(M, c, c + HdrLen) \cup {h}
<1>1. PICK q : Chain(M, c, s, p, m, q) /\ \E k \in 2 .. m + 2 : Laid(m, q, k)
  BY DEF Leads
<1>2. PICK k \in 2 .. m + 2 : Laid(m, q, k)
  BY <1>1
<1>3. p \in Int /\ c \in Int /\ TotalLen(h) \in Nat /\ TotalLen(h) > 0 /\ BufLen \in Int
  BY <1>1, ChainEnds, HeaderShape, SizeAssumption
<1>4. \A i \in 1 .. m : q[i] \in N
  <2> SUFFICES ASSUME NEW i \in 1 .. m PROVE q[i] \in N
    OBVIOUS
  <2>1. Disjoint(c, c + n, q[i])
    BY <1>1, <1>2, RegionFree
  <2>2. q[i] \in M /\ q[i] \in Headers
    BY <1>1, ChainParts
  <2>3. q[i].pos \in Int /\ TotalLen(q[i]) \in Nat /\ TotalLen(q[i]) >= HdrLen
    BY <2>2, HeaderShape
  <2> QED
    BY <1>3, <2>1, <2>2, <2>3 DEF Disjoint, Overwrite, HdrLen
<1>5. NextPos(h) = Advance(c + TotalLen(h)) /\ c + TotalLen(h) \in 0 .. BufLen
  BY <1>3 DEF NextPos
<1>6. NextPos(h) \in 0 .. BufLen
  BY <1>5, AdvanceFits
<1>7. \/ NextPos(h) = c + TotalLen(h)
      \/ NextPos(h) = 0 /\ c + TotalLen(h) + HdrLen > BufLen
  BY <1>5 DEF Advance
<1>8. \/ NextPos(h) = c + TotalLen(h) /\ Room(c, TotalLen(h), p, m)
      \/ NextPos(h) = 0 /\ (m = 0 \/ p < c)
  BY <1>3, <1>7 DEF Room, HdrLen
<1>9. h \in N
  OBVIOUS
<1> HIDE DEF N
<1>10. Leads(N, NextPos(h), Inc(s), p, m + 1)
  BY <1>1, <1>2, <1>4, <1>6, <1>8, <1>9, LeadsExtended
<1> QED
  BY <1>10 DEF N

\* A redirect header published at the write cursor, which goes back to the
\* start, where the first n bytes are set aside.
LEMMA LeadsRedirected ==
    ASSUME NEW M, M \subseteq Headers, NEW c \in 0 .. BufLen, NEW s \in 0 .. SerialMod - 1,
           NEW p, NEW m \in Nat, Leads(M, c, s, p, m),
           NEW n \in Nat, n <= c, m = 0 \/ (p < c /\ n <= p)
    PROVE  Leads(Overwrite(Overwrite(M, c, c + HdrLen) \cup {Coming(c, s)}, 0, n),
                 0, Inc(s), p, m + 1)
<1> DEFINE h == Coming(c, s)
           N == Overwrite(Overwrite(M, c, c + HdrLen) \cup {h}, 0, n)
<1>1. PICK q : Chain(M, c, s, p, m, q) /\ \E k \in 2 .. m + 2 : Laid(m, q, k)
  BY DEF Leads
<1>2. PICK k \in 2 .. m + 2 : Laid(m, q, k)
  BY <1>1
<1>3. p \in Int /\ c \in Int /\ BufLen \in Int
  BY <1>1, ChainEnds, SizeAssumption
<1>4. \A i \in 1 .. m : q[i] \in N
  <2> SUFFICES ASSUME NEW i \in 1 .. m PROVE q[i] \in N
    OBVIOUS
  <2>1. m \in Nat \ {0} /\ p < c
    OBVIOUS
  <2>2. k = m + 2
    BY <1>1, <1>2, <1>3, <2>1, WayRound
  <2>3. p <= q[i].pos /\ q[i].pos + TotalLen(q[i]) <= c
    BY <1>1, <1>2, <2>2, ChainPlaces
  <2>4. q[i] \in M /\ q[i] \in Headers
    BY <1>1, ChainParts
  <2>5. q[i].pos \in Int /\ TotalLen(q[i]) \in Nat /\ TotalLen(q[i]) >= HdrLen
    BY <2>4, HeaderShape
  <2> QED
    BY <1>3, <2>1, <2>3, <2>4, <2>5 DEF Overwrite, HdrLen
<1>5. h \in Headers /\ h.pos = c /\ h.serial = s
  BY ComingShape DEF Coming
<1>6. h \in N
  BY <1>3, <1>5 DEF Overwrite
<1>7. NextPos(h) = 0 /\ 0 \in 0 .. BufLen
  BY SizeAssumption DEF NextPos, IsRedirect, Coming
<1> HIDE DEF N, h
<1>8. Leads(N, NextPos(h), Inc(s), p, m + 1)
  BY <1>1, <1>2, <1>4, <1>5, <1>6, <1>7, LeadsExtended
<1> QED
  BY <1>7, <1>8 DEF N, h

-----------------------------------------------------------------------------
(* The inductive invariant.                                                 *)

\* The stages of a request that looks for a place, and of one that has it.
Placing(t) == pc[t] \in {"scan", "drop", "sleep"}
Filling(t) == pc[t] \in {"have", "relock"}

\* Where a reader goes on: a new one starts with the next frame.
From(r) == IF rcur[r] = NoPos THEN cur ELSE rcur[r]

\* Who is in the list, once each, and who has no frames to read.
ListInv ==
    /\ \A i, j \in DOMAIN readers_ : readers_[i] = readers_[j] => i = j
    /\ \A r \in Readers : r \in Attached <=> rpc[r] \in {"idle", "retry", "held", "leaving"}
    /\ \A r \in Readers : r \notin Attached => rcur[r] = NoPos
    /\ \A r \in Readers : rcur[r] = NoPos => stored[r] = 0

\* A scan of the list begins at its start and drops frames of its members only;
\* the readers it has passed stay out of the way.
ScanInv ==
    /\ \A t \in Threads : idx[t] >= 1 /\ (~Placing(t) => idx[t] = 1)
    /\ \A t \in Threads : pc[t] = "drop" =>
          idx[t] \in DOMAIN readers_ /\ readers_[idx[t]] \in Discardable
    /\ \A t \in Threads : Placing(t) =>
          \A i \in DOMAIN readers_ :
             i < idx[t] => Clear(readers_[i], reserved[WriterOf[t]])

\* The bytes set aside are in front of every reader that has frames to read.
RoomInv ==
    \A t \in Threads, r \in Attached :
        Filling(t) => Room(cur, reserved[WriterOf[t]], From(r), stored[r])

ChainInv ==
    /\ HeadersApart(mem)
    /\ \A r \in Attached : Leads(mem, cur, serial, From(r), stored[r])

CInv == IInv /\ ListInv /\ ScanInv /\ RoomInv /\ ChainInv

-----------------------------------------------------------------------------
(* What a step may do to the ring.                                          *)

ringVars == <<cur, serial, mem, readers_, rcur, stored, rserial>>

\* An attached reader loses the frame under its cursor.
Reads(r) ==
    /\ r \in Attached
    /\ stored[r] > 0
    /\ \E h \in HeaderAt(rcur[r]) : Consume(r, h)
    /\ UNCHANGED <<cur, serial, mem, readers_>>

Places(t) == GrantTail(t) \/ GrantHead(t) \/ GrantReset(t)

Relists(r) == AddReader(r) \/ RemoveReader(r) \/ \E src \in Readers : CloneReader(r, src)

LEMMA AttachedReaders == ASSUME readers_ \in Seq(Readers) PROVE Attached \subseteq Readers
BY DEF Attached

LEMMA StepKinds ==
    ASSUME CInv, [Next]_vars
    PROVE  \/ UNCHANGED ringVars
           \/ \E r \in Attached : Reads(r)
           \/ \E t \in Threads : Places(t) \/ Commit(t)
           \/ \E r \in Readers : Relists(r)
<1>1. readers_ \in Seq(Readers)
  BY DEF CInv, IInv, TypeOK
<1>2. ASSUME NEW t \in Threads, WriterStep(t), ~Places(t), ~Commit(t)
      PROVE  UNCHANGED ringVars \/ \E r \in Attached : Reads(r)
  <2>1. CASE DropFrame(t)
    <3> DEFINE r == readers_[idx[t]]
    <3>1. pc[t] = "drop" /\ UNCHANGED <<cur, serial, mem, readers_>>
      BY <2>1 DEF DropFrame, bufVars
    <3>2. r \in Attached
      BY <3>1 DEF Attached, CInv, ScanInv
    <3>3. \/ stored[r] > 0 /\ \E h \in HeaderAt(rcur[r]) : Consume(r, h)
          \/ UNCHANGED <<rcur, stored, rserial>>
      BY <2>1 DEF DropFrame, readerVars
    <3> HIDE DEF r
    <3> QED
      BY <3>1, <3>2, <3>3 DEF Reads, ringVars
  <2>2. CASE \/ LockWriter(t) \/ ShareList(t) \/ TakeOwnership(t) \/ OwnershipTimeout(t)
             \/ PassReader(t) \/ WaitReader(t) \/ ReaderTimeout(t) \/ Cancel(t)
             \/ RequestAgain(t)
    BY <2>2 DEF LockWriter, ShareList, TakeOwnership, OwnershipTimeout, PassReader,
                WaitReader, ReaderTimeout, Cancel, Finished, RequestAgain,
                bufVars, readerVars, ringVars
  <2> QED
    BY <1>2, <2>1, <2>2 DEF WriterStep, Places
<1>3. ASSUME NEW r \in Readers, ReaderStep(r)
      PROVE  UNCHANGED ringVars \/ \E x \in Attached : Reads(x)
  <2>1. UNCHANGED bufVars
    BY <1>3 DEF ReaderStep, Borrow, FollowRedirect, RetryTimeout, Release
  <2>2. rpc[r] \in {"idle", "retry", "held"}
    BY <1>3 DEF ReaderStep, Borrow, FollowRedirect, RetryTimeout, Release
  <2>3. r \in Attached
    BY <2>2 DEF CInv, ListInv
  <2>4. \/ UNCHANGED <<rcur, stored, rserial>>
        \/ stored[r] > 0 /\ \E h \in HeaderAt(rcur[r]) : Consume(r, h)
    BY <1>3 DEF ReaderStep, Borrow, FollowRedirect, RetryTimeout, Release, readerVars
  <2> QED
    BY <2>1, <2>3, <2>4 DEF Reads, ringVars, bufVars
<1>4. ASSUME ManagerStep
      PROVE  UNCHANGED ringVars \/ \E r \in Readers : Relists(r)
  BY <1>4 DEF ManagerStep, Relists, BlockSharers, WantAdd, WantRemove, bufVars, readerVars,
              ringVars
<1>5. CASE UNCHANGED vars
  BY <1>5 DEF vars, bufVars, readerVars, ringVars
<1> QED
  BY <1>2, <1>3, <1>4, <1>5 DEF Next

-----------------------------------------------------------------------------
(* The list of readers.                                                     *)

LEMMA ListAppended ==
    ASSUME readers_ \in Seq(Readers), NEW r \in Readers, readers_' = Append(readers_, r)
    PROVE  /\ Attached' = Attached \cup {r}
           /\ \A i \in DOMAIN readers_ : i \in DOMAIN readers_' /\ readers_'[i] = readers_[i]
           /\ \A i \in DOMAIN readers_' : i \notin DOMAIN readers_ => readers_'[i] = r
           /\ r \notin Attached /\ (\A i, j \in DOMAIN readers_ : readers_[i] = readers_[j] => i = j)
                 => \A i, j \in DOMAIN readers_' : readers_'[i] = readers_'[j] => i = j
<1>1. /\ Len(readers_) \in Nat /\ DOMAIN readers_ = 1 .. Len(readers_)
      /\ DOMAIN readers_' = 1 .. Len(readers_) + 1
      /\ \A i \in 1 .. Len(readers_) : readers_'[i] = readers_[i]
      /\ readers_'[Len(readers_) + 1] = r
  OBVIOUS
<1>2. Attached' = Attached \cup {r}
  <2>1. ASSUME NEW x \in Attached' PROVE x \in Attached \cup {r}
    BY <1>1 DEF Attached
  <2>2. ASSUME NEW x \in Attached \cup {r} PROVE x \in Attached'
    <3>1. CASE x = r
      <4>1. Len(readers_) + 1 \in DOMAIN readers_'
        BY <1>1
      <4> QED
        BY <1>1, <3>1, <4>1 DEF Attached
    <3>2. CASE x \in Attached
      BY <1>1, <3>2 DEF Attached
    <3> QED
      BY <3>1, <3>2
  <2> QED
    BY <2>1, <2>2
<1>3. \A i \in DOMAIN readers_' : i \notin DOMAIN readers_ => i = Len(readers_) + 1
  BY <1>1
<1>4. ASSUME r \notin Attached, \A i, j \in DOMAIN readers_ : readers_[i] = readers_[j] => i = j,
             NEW i \in DOMAIN readers_', NEW j \in DOMAIN readers_', readers_'[i] = readers_'[j]
      PROVE  i = j
  BY <1>1, <1>3, <1>4 DEF Attached
<1> QED
  BY <1>1, <1>2, <1>3, <1>4

LEMMA ListShrunk ==
    ASSUME readers_ \in Seq(Readers), NEW r,
           \A i, j \in DOMAIN readers_ : readers_[i] = readers_[j] => i = j,
           NEW d \in DOMAIN readers_, readers_[d] = r,
           readers_' = [j \in 1 .. Len(readers_) - 1 |-> readers_[IF j < d THEN j ELSE j + 1]]
    PROVE  /\ Attached' = Attached \ {r}
           /\ \A i, j \in DOMAIN readers_' : readers_'[i] = readers_'[j] => i = j
<1> DEFINE at(j) == IF j < d THEN j ELSE j + 1
<1>1. /\ Len(readers_) \in Nat /\ DOMAIN readers_ = 1 .. Len(readers_)
      /\ DOMAIN readers_' = 1 .. Len(readers_) - 1
      /\ \A j \in 1 .. Len(readers_) - 1 : readers_'[j] = readers_[at(j)]
  OBVIOUS
<1>2. \A j \in 1 .. Len(readers_) - 1 : at(j) \in DOMAIN readers_ /\ at(j) # d
  BY <1>1
<1>3. \A i \in DOMAIN readers_ : i # d => \E j \in 1 .. Len(readers_) - 1 : at(j) = i
  <2> SUFFICES ASSUME NEW i \in DOMAIN readers_, i # d
               PROVE  \E j \in 1 .. Len(readers_) - 1 : at(j) = i
    OBVIOUS
  <2>1. CASE i < d
    <3>1. i \in 1 .. Len(readers_) - 1 /\ at(i) = i
      BY <1>1, <2>1
    <3> QED
      BY <3>1
  <2>2. CASE ~(i < d)
    <3>1. i - 1 \in 1 .. Len(readers_) - 1 /\ at(i - 1) = i
      BY <1>1, <2>2
    <3> QED
      BY <3>1
  <2> QED
    BY <2>1, <2>2
<1>4. \A i, j \in 1 .. Len(readers_) - 1 : at(i) = at(j) => i = j
  BY <1>1
<1> HIDE DEF at
<1>5. Attached' = Attached \ {r}
  <2>1. ASSUME NEW x \in Attached' PROVE x \in Attached /\ x # r
    <3>1. PICK j \in DOMAIN readers_' : x = readers_'[j]
      BY <2>1 DEF Attached
    <3> QED
      BY <1>1, <1>2, <3>1 DEF Attached
  <2>2. ASSUME NEW x \in Attached, x # r PROVE x \in Attached'
    <3>1. PICK i \in DOMAIN readers_ : x = readers_[i]
      BY <2>2 DEF Attached
    <3>2. PICK j \in 1 .. Len(readers_) - 1 : at(j) = i
      BY <1>3, <2>2, <3>1
    <3> QED
      BY <1>1, <3>1, <3>2 DEF Attached
  <2> QED
    BY <2>1, <2>2
<1>6. \A i, j \in DOMAIN readers_' : readers_'[i] = readers_'[j] => i = j
  BY <1>1, <1>2, <1>4
<1> QED
  BY <1>5, <1>6

LEMMA SameList == ASSUME UNCHANGED readers_ PROVE Attached' = Attached
BY DEF Attached

\* Attached, a reader is in one of four states, which only attaching and
\* detaching it changes.
LEMMA UsersStay ==
    ASSUME CInv, [Next]_vars, ~ \E x \in Readers : Relists(x), NEW r \in Readers
    PROVE  /\ UNCHANGED readers_
           /\ rpc'[r] \in {"idle", "retry", "held", "leaving"}
                 <=> rpc[r] \in {"idle", "retry", "held", "leaving"}
<1>0. rpc \in [Readers -> {"none", "coming", "idle", "retry", "held", "leaving", "gone"}]
  BY DEF CInv, IInv, TypeOK
<1>1. ASSUME NEW t \in Threads, WriterStep(t) PROVE UNCHANGED <<readers_, rpc>>
  BY <1>1 DEF WriterStep, LockWriter, ShareList, TakeOwnership, OwnershipTimeout, PassReader,
              WaitReader, DropFrame, ReaderTimeout, GrantTail, GrantHead, GrantReset, Granted,
              Commit, Cancel, Finished, RequestAgain, bufVars, userVars
<1>2. ASSUME NEW x \in Readers, ReaderStep(x)
      PROVE  /\ UNCHANGED readers_
             /\ \E p \in {"idle", "retry", "held"} : rpc' = [rpc EXCEPT ![x] = p]
             /\ rpc[x] \in {"idle", "retry", "held"}
  BY <1>2 DEF ReaderStep, Borrow, FollowRedirect, RetryTimeout, Release, bufVars
<1>3. ASSUME ManagerStep
      PROVE  /\ UNCHANGED readers_
             /\ \/ UNCHANGED rpc
                \/ \E x \in Readers : rpc[x] = "none" /\ rpc' = [rpc EXCEPT ![x] = "coming"]
                \/ \E x \in Readers : rpc[x] = "idle" /\ rpc' = [rpc EXCEPT ![x] = "leaving"]
  BY <1>3 DEF ManagerStep, Relists, BlockSharers, WantAdd, WantRemove, bufVars, userVars
<1>4. CASE UNCHANGED vars
  BY <1>4 DEF vars, bufVars, userVars
<1>5. CASE \E t \in Threads : WriterStep(t)
  BY <1>1, <1>5
<1>6. CASE \E x \in Readers : ReaderStep(x)
  BY <1>0, <1>2, <1>6
<1>7. CASE ManagerStep
  BY <1>0, <1>3, <1>7
<1> QED
  BY <1>4, <1>5, <1>6, <1>7 DEF Next

LEMMA ListStep == ASSUME CInv, [Next]_vars PROVE ListInv'
<1>1. TypeOK /\ SizeInv /\ ListInv
  BY DEF CInv, IInv
<1>2. /\ readers_ \in Seq(Readers) /\ Attached \subseteq Readers
      /\ rcur \in [Readers -> 0 .. BufLen \cup {NoPos}] /\ stored \in [Readers -> Nat]
      /\ cur \in 0 .. BufLen /\ NoPos \notin 0 .. BufLen
      /\ rpc \in [Readers -> {"none", "coming", "idle", "retry", "held", "leaving", "gone"}]
  BY <1>1, AttachedReaders DEF TypeOK, NoPos
<1>3. CASE ~ \E x \in Readers : Relists(x)
  <2>1. UNCHANGED readers_ /\ Attached' = Attached
    <3>1. CASE Readers = {}
      <4>1. UNCHANGED readers_
        BY <1>3, <3>1, StepKinds DEF Reads, ringVars, Places, GrantTail, GrantHead,
           GrantReset, Granted, Commit, Finished
      <4> QED
        BY <4>1, SameList
    <3>2. CASE Readers # {}
      BY <1>3, <3>2, UsersStay, SameList
    <3> QED
      BY <3>1, <3>2
  <2>2. \A r \in Readers :
            r \in Attached' <=> rpc'[r] \in {"idle", "retry", "held", "leaving"}
    BY <1>1, <1>3, <2>1, UsersStay DEF ListInv
  <2>3. /\ \A r \in Readers : r \notin Attached => rcur'[r] = NoPos
        /\ \A r \in Readers : rcur'[r] = NoPos => stored'[r] = 0
    <3>1. CASE UNCHANGED ringVars
      BY <1>1, <3>1 DEF ringVars, ListInv
    <3>2. CASE \E r \in Attached : Reads(r)
      <4>1. PICK r \in Attached, h \in mem : h \in HeaderAt(rcur[r]) /\ Consume(r, h)
        BY <3>2 DEF Reads, HeaderAt
      <4>2. /\ rcur' = [rcur EXCEPT ![r] = NextPos(h)]
            /\ stored' = [stored EXCEPT ![r] = @ - 1]
            /\ NextPos(h) # NoPos
        BY <1>1, <1>2, <4>1, NextPosFits DEF Consume
      <4> QED
        BY <1>1, <1>2, <4>1, <4>2 DEF ListInv
    <3>3. CASE \E t \in Threads : Places(t) \/ Commit(t)
      <4>1. \/ UNCHANGED <<rcur, stored>>
            \/ AckReaders
            \/ /\ rcur' = [r \in Readers |-> IF r \in Attached THEN 0 ELSE rcur[r]]
               /\ UNCHANGED stored
        BY <3>3 DEF Places, GrantTail, GrantHead, GrantReset, Commit, readerVars
      <4>2. cur # NoPos /\ 0 # NoPos
        BY <1>2 DEF NoPos
      <4> QED
        BY <1>1, <1>2, <4>1, <4>2 DEF ListInv, AckReaders
    <3> QED
      BY <1>3, <3>1, <3>2, <3>3, StepKinds
  <2> QED
    BY <1>1, <2>1, <2>2, <2>3 DEF ListInv
<1>4. ASSUME NEW r \in Readers, AddReader(r) PROVE ListInv'
  <2>1. /\ rpc[r] = "coming" /\ readers_' = Append(readers_, r)
        /\ rpc' = [rpc EXCEPT ![r] = "idle"] /\ UNCHANGED <<rcur, stored>>
    BY <1>4 DEF AddReader, readerVars
  <2>2. r \notin Attached
    BY <1>1, <2>1 DEF ListInv
  <2>3. /\ Attached' = Attached \cup {r}
        /\ \A i, j \in DOMAIN readers_' : readers_'[i] = readers_'[j] => i = j
    BY <1>1, <1>2, <2>1, <2>2, ListAppended DEF ListInv
  <2> QED
    BY <1>1, <1>2, <2>1, <2>3 DEF ListInv
<1>5. ASSUME NEW r \in Readers, NEW src \in Readers, CloneReader(r, src) PROVE ListInv'
  <2>1. /\ rpc[r] = "coming" /\ readers_' = Append(readers_, r)
        /\ rpc' = [rpc EXCEPT ![r] = "idle"]
        /\ rcur' = [rcur EXCEPT ![r] = rcur[src]] /\ stored' = [stored EXCEPT ![r] = stored[src]]
    BY <1>5 DEF CloneReader
  <2>2. r \notin Attached
    BY <1>1, <2>1 DEF ListInv
  <2>3. /\ Attached' = Attached \cup {r}
        /\ \A i, j \in DOMAIN readers_' : readers_'[i] = readers_'[j] => i = j
    BY <1>1, <1>2, <2>1, <2>2, ListAppended DEF ListInv
  <2> QED
    BY <1>1, <1>2, <2>1, <2>3 DEF ListInv
<1>6. ASSUME NEW r \in Readers, RemoveReader(r) PROVE ListInv'
  <2>1. PICK d \in DOMAIN readers_ :
            /\ readers_[d] = r
            /\ readers_' = [j \in 1 .. Len(readers_) - 1 |->
                               readers_[IF j < d THEN j ELSE j + 1]]
    BY <1>6 DEF RemoveReader
  <2>2. /\ rpc' = [rpc EXCEPT ![r] = "gone"]
        /\ rcur' = [rcur EXCEPT ![r] = NoPos] /\ stored' = [stored EXCEPT ![r] = 0]
    BY <1>6 DEF RemoveReader
  <2>3. /\ Attached' = Attached \ {r}
        /\ \A i, j \in DOMAIN readers_' : readers_'[i] = readers_'[j] => i = j
    BY <1>1, <1>2, <2>1, ListShrunk DEF ListInv
  <2> QED
    BY <1>1, <1>2, <2>2, <2>3 DEF ListInv
<1> QED
  BY <1>3, <1>4, <1>5, <1>6 DEF Relists

-----------------------------------------------------------------------------
(* The scan of the readers.                                                 *)

\* A reader has a header under its cursor, and only one.
LEMMA UnderCursor ==
    ASSUME CInv, NEW r \in Attached, stored[r] > 0, NEW h \in HeaderAt(rcur[r])
    PROVE  /\ h \in mem /\ h \in Headers /\ From(r) = rcur[r] /\ h.pos = From(r)
           /\ stored[r] \in Nat \ {0}
           /\ Leads(mem, cur, serial, From(r), stored[r])
           /\ NextPos(h) \in 0 .. BufLen /\ NextPos(h) # NoPos
<1>1. TypeOK /\ SizeInv /\ Attached \subseteq Readers
  BY AttachedReaders DEF CInv, IInv, TypeOK
<1>2. h \in mem /\ h \in Headers /\ h.pos = rcur[r] /\ stored[r] \in Nat
  BY <1>1 DEF HeaderAt, TypeOK
<1>3. rcur[r] # NoPos
  BY <1>1 DEF CInv, ListInv
<1>4. NextPos(h) \in 0 .. BufLen /\ NextPos(h) # NoPos
  BY <1>1, <1>2, NextPosFits DEF NoPos
<1> QED
  BY <1>2, <1>3, <1>4 DEF From, CInv, ChainInv

\* A reader that is out of the way stays so while it reads.
LEMMA ClearStays ==
    ASSUME CInv, UNCHANGED ringVars \/ \E r \in Attached : Reads(r),
           NEW x \in Attached, NEW n \in Nat, Clear(x, n)
    PROVE  Clear(x, n)'
<1>1. CASE UNCHANGED ringVars
  BY <1>1 DEF ringVars, Clear, FitsTail, FitsHead
<1>2. ASSUME NEW r \in Attached, Reads(r) PROVE Clear(x, n)'
  <2>1. PICK h \in HeaderAt(rcur[r]) : Consume(r, h)
    BY <1>2 DEF Reads
  <2>2. /\ UNCHANGED cur /\ stored[r] > 0
        /\ rcur' = [rcur EXCEPT ![r] = NextPos(h)]
        /\ stored' = [stored EXCEPT ![r] = @ - 1]
    BY <1>2, <2>1 DEF Reads, Consume
  <2>3. Attached \subseteq Readers /\ cur \in 0 .. BufLen
    BY AttachedReaders DEF CInv, IInv, TypeOK
  <2>4. rcur \in [Readers -> 0 .. BufLen \cup {NoPos}] /\ stored \in [Readers -> Nat]
    BY DEF CInv, IInv, TypeOK
  <2>5. CASE x # r
    <3>1. rcur'[x] = rcur[x] /\ stored'[x] = stored[x]
      BY <2>2, <2>3, <2>4, <2>5
    <3> QED
      BY <2>2, <3>1 DEF Clear, FitsTail, FitsHead
  <2>6. CASE x = r
    <3>1. rcur'[r] = NextPos(h) /\ stored'[r] = stored[r] - 1
      BY <2>2, <2>3, <2>4
    <3>2. /\ h \in mem /\ From(r) = rcur[r] /\ h.pos = From(r)
          /\ stored[r] \in Nat \ {0} /\ Leads(mem, cur, serial, From(r), stored[r])
          /\ NextPos(h) # NoPos
      BY <2>1, <2>2, UnderCursor
    <3>3. HeadersApart(mem) /\ mem \subseteq Headers
      BY DEF CInv, ChainInv, IInv, TypeOK
    <3>4. /\ rcur[r] \in Int /\ NextPos(h) \in Int /\ rcur[r] # NoPos
          /\ stored[r] = 1 => NextPos(h) = cur
          /\ stored[r] # 1 => \/ NextPos(h) < cur /\ (rcur[r] < cur => rcur[r] < NextPos(h))
                              \/ cur <= rcur[r] /\ rcur[r] < NextPos(h)
      <4>1. /\ From(r) \in Int /\ NextPos(h) \in Int
            /\ stored[r] = 1 => NextPos(h) = cur
            /\ stored[r] # 1 => \/ NextPos(h) < cur /\ (From(r) < cur => From(r) < NextPos(h))
                                \/ cur <= From(r) /\ From(r) < NextPos(h)
        BY <2>3, <3>2, <3>3, LeadsOn
      <4>2. rcur[r] # NoPos
        BY <2>2, <2>3 DEF CInv, ListInv
      <4> QED
        BY <3>2, <4>1, <4>2
    <3>5. cur \in Int /\ BufLen \in Int
      BY <2>3, SizeAssumption
    <3>6. CASE stored[r] = 1
      BY <2>2, <2>6, <3>1, <3>4, <3>6 DEF Clear
    <3>7. CASE stored[r] # 1
      BY <2>2, <2>6, <3>1, <3>2, <3>4, <3>5, <3>7 DEF Clear, FitsTail, FitsHead
    <3> QED
      BY <3>6, <3>7
  <2> QED
    BY <2>5, <2>6
<1> QED
  BY <1>1, <1>2

\* What the others leave alone of a thread that owns the ring.
LEMMA OthersStep ==
    ASSUME CInv, [Next]_vars, NEW t \in Threads, ~WriterStep(t)
    PROVE  /\ idx'[t] = idx[t]
           /\ Placing(t)' <=> Placing(t)
           /\ Filling(t)' <=> Filling(t)
           /\ pc'[t] = "drop" <=> pc[t] = "drop"
           /\ Owning(t) => /\ cur' = cur /\ reserved'[WriterOf[t]] = reserved[WriterOf[t]]
                           /\ \A u \in Threads : ~(Places(u) \/ Commit(u))
           /\ Placing(t) => readers_' = readers_ /\ ~ \E r \in Readers : Relists(r)
<1>1. TypeOK /\ LockInv /\ OneWriterAtATime
  BY OneOwner DEF CInv, IInv
<1>2. /\ pc \in [Threads -> {"idle", "share", "own", "scan", "drop", "sleep", "have", "relock"}]
      /\ idx \in [Threads -> Nat] /\ reserved \in [Writers -> Nat]
      /\ WriterOf \in [Threads -> Writers]
  BY <1>1, ThreadAssumption DEF TypeOK
<1>3. ASSUME NEW u \in Threads, Places(u) \/ Commit(u) \/ ReaderTimeout(u) \/ Cancel(u)
      PROVE  Owning(u)
  BY <1>3 DEF Places, GrantTail, GrantHead, GrantReset, AllClear, Commit, ReaderTimeout, Cancel,
              Owning
<1>4. ASSUME NEW u \in Threads, Places(u) \/ Commit(u) PROVE WriterStep(u)
  BY <1>4 DEF WriterStep, Places
<1>5. Owning(t) => \A u \in Threads : ~(Places(u) \/ Commit(u))
  BY <1>1, <1>3, <1>4 DEF OneWriterAtATime
<1>6. Placing(t) => ~ \E r \in Readers : Relists(r)
  BY <1>1 DEF Relists, AddReader, RemoveReader, CloneReader, Exclusive, Placing, LockInv, Listing
<1>7. ASSUME NEW u \in Threads, WriterStep(u)
      PROVE  /\ idx'[t] = idx[t] /\ pc'[t] = pc[t] /\ readers_' = readers_
             /\ Owning(t) => cur' = cur /\ reserved'[WriterOf[t]] = reserved[WriterOf[t]]
  <2>1. u # t
    BY <1>7
  <2>2. idx'[t] = idx[t] /\ pc'[t] = pc[t] /\ readers_' = readers_
    BY <1>2, <1>7, <2>1
       DEF WriterStep, LockWriter, ShareList, TakeOwnership, OwnershipTimeout, PassReader,
           WaitReader, DropFrame, ReaderTimeout, GrantTail, GrantHead, GrantReset, Granted,
           Abandon, Return, Commit, Cancel, Finished, RequestAgain, bufVars
  <2>3. SUFFICES ASSUME Owning(t)
                 PROVE  cur' = cur /\ reserved'[WriterOf[t]] = reserved[WriterOf[t]]
    BY <2>2
  <2>4. ~Owning(u)
    BY <1>1, <2>1, <2>3 DEF OneWriterAtATime
  <2>5. CASE TakeOwnership(u)
    <3>1. WriterOf[u] # WriterOf[t]
      BY <1>1, <2>1, <2>3, <2>5 DEF TakeOwnership, LockInv, Inside, Owning
    <3> QED
      BY <1>2, <2>5, <3>1 DEF TakeOwnership
  <2>6. CASE \/ LockWriter(u) \/ ShareList(u) \/ OwnershipTimeout(u) \/ PassReader(u)
             \/ WaitReader(u) \/ DropFrame(u) \/ RequestAgain(u)
    BY <2>6 DEF LockWriter, ShareList, OwnershipTimeout, PassReader, WaitReader, DropFrame,
                RequestAgain, bufVars, writerVars
  <2> QED
    BY <1>3, <1>7, <2>4, <2>5, <2>6 DEF WriterStep, Places
<1>8. ASSUME NEW r \in Readers, ReaderStep(r)
      PROVE  /\ idx'[t] = idx[t] /\ readers_' = readers_ /\ cur' = cur /\ reserved' = reserved
             /\ pc'[t] = pc[t] \/ (pc[t] = "sleep" /\ pc'[t] = "scan")
  <2>1. UNCHANGED <<bufVars, writerVars, idx>>
    BY <1>8 DEF ReaderStep, Borrow, FollowRedirect, RetryTimeout, Release, callVars
  <2>2. UNCHANGED pc \/ Wake(r)
    BY <1>8 DEF ReaderStep, Borrow, FollowRedirect, RetryTimeout, Release, callVars
  <2>3. pc'[t] = pc[t] \/ (pc[t] = "sleep" /\ pc'[t] = "scan")
    <3>1. CASE UNCHANGED pc
      BY <3>1
    <3>2. CASE Wake(r)
      <4>1. pc' = [u \in Threads |-> IF pc[u] = "sleep" /\ readers_[idx[u]] = r
                                     THEN "scan" ELSE pc[u]]
        BY <3>2 DEF Wake
      <4>2. pc'[t] = IF pc[t] = "sleep" /\ readers_[idx[t]] = r THEN "scan" ELSE pc[t]
        BY <4>1
      <4> QED
        BY <4>2
    <3> QED
      BY <2>2, <3>1, <3>2
  <2> QED
    BY <2>1, <2>3 DEF bufVars, writerVars
<1>9. ASSUME ManagerStep
      PROVE  /\ UNCHANGED <<idx, pc, cur, reserved>>
             /\ readers_' = readers_ \/ \E r \in Readers : Relists(r)
  BY <1>9 DEF ManagerStep, Relists, BlockSharers, WantAdd, WantRemove, AddReader, RemoveReader,
              CloneReader, Exclusive, bufVars, writerVars, callVars
<1>10. CASE UNCHANGED vars
  BY <1>5, <1>6, <1>10 DEF vars, bufVars, writerVars, callVars, Placing, Filling
<1>11. CASE \E u \in Threads : WriterStep(u)
  BY <1>5, <1>6, <1>7, <1>11 DEF Placing, Filling
<1>12. CASE \E r \in Readers : ReaderStep(r)
  BY <1>5, <1>6, <1>8, <1>12 DEF Placing, Filling
<1>13. CASE ManagerStep
  BY <1>5, <1>6, <1>9, <1>13 DEF Placing, Filling
<1> QED
  BY <1>10, <1>11, <1>12, <1>13 DEF Next

\* Of the thread's own steps.
LEMMA OwnScan ==
    ASSUME CInv, NEW t \in Threads, WriterStep(t)
    PROVE  /\ idx'[t] >= 1
           /\ ~Placing(t)' => idx'[t] = 1
           /\ pc'[t] = "drop" => /\ idx[t] \in DOMAIN readers_ /\ idx'[t] = idx[t]
                                 /\ readers_[idx[t]] \in Discardable
           /\ Placing(t)' => /\ UNCHANGED <<cur, readers_>>
                             /\ \/ idx'[t] = 1
                                \/ /\ reserved'[WriterOf[t]] = reserved[WriterOf[t]]
                                   /\ Placing(t)
                                   /\ ~(Places(t) \/ Commit(t))
                                   /\ \/ idx'[t] = idx[t]
                                      \/ /\ idx'[t] = idx[t] + 1
                                         /\ Clear(readers_[idx[t]], reserved[WriterOf[t]])
<1>1. /\ pc \in [Threads -> {"idle", "share", "own", "scan", "drop", "sleep", "have", "relock"}]
      /\ idx \in [Threads -> Nat] /\ readers_ \in Seq(Readers)
  BY DEF CInv, IInv, TypeOK
<1>2. idx[t] >= 1 /\ (~Placing(t) => idx[t] = 1)
  BY DEF CInv, ScanInv
<1>3. CASE LockWriter(t) \/ ShareList(t) \/ Commit(t) \/ Cancel(t) \/ RequestAgain(t)
  <2>1. /\ pc[t] \in {"idle", "share", "have"} /\ idx' = idx
        /\ \E p \in {"share", "own", "idle", "relock"} : pc' = [pc EXCEPT ![t] = p]
    BY <1>3 DEF LockWriter, ShareList, Commit, Cancel, Finished, RequestAgain
  <2> QED
    BY <1>1, <1>2, <2>1 DEF Placing
<1>4. CASE TakeOwnership(t)
  <2>1. pc[t] = "own"
    BY <1>4 DEF TakeOwnership
  <2>2. CASE reserved[WriterOf[t]] > 0
    <3>1. pc' = [pc EXCEPT ![t] = "idle"] /\ idx' = [idx EXCEPT ![t] = 1]
      BY <1>4, <2>2 DEF TakeOwnership, Abandon, Return
    <3> QED
      BY <1>1, <3>1 DEF Placing
  <2>3. CASE ~(reserved[WriterOf[t]] > 0)
    <3>1. pc' = [pc EXCEPT ![t] = "scan"] /\ idx' = idx /\ UNCHANGED <<cur, readers_>>
      BY <1>4, <2>3 DEF TakeOwnership
    <3> QED
      BY <1>1, <1>2, <2>1, <3>1 DEF Placing
  <2> QED
    BY <2>2, <2>3
<1>5. CASE OwnershipTimeout(t) \/ ReaderTimeout(t) \/ Places(t)
  <2>1. /\ idx' = [idx EXCEPT ![t] = 1]
        /\ \E p \in {"idle", "have"} : pc' = [pc EXCEPT ![t] = p]
    BY <1>5 DEF OwnershipTimeout, ReaderTimeout, Abandon, Return, Places, GrantTail, GrantHead,
                GrantReset, Granted
  <2> QED
    BY <1>1, <2>1 DEF Placing
<1>6. CASE PassReader(t) \/ WaitReader(t) \/ DropFrame(t)
  <2>1. UNCHANGED <<cur, readers_, reserved>> /\ Placing(t)
    BY <1>6 DEF PassReader, WaitReader, DropFrame, bufVars, writerVars, Scanning, Placing
  <2>2. ~(Places(t) \/ Commit(t))
    <3>1. \A u : Places(u) \/ Commit(u) => pc'[u] # pc[u] \/ u \notin Threads
      BY <1>1 DEF Places, GrantTail, GrantHead, GrantReset, AllClear, Granted, Return, Commit,
         Finished
    <3>2. CASE PassReader(t)
      BY <3>1, <3>2 DEF PassReader
    <3>3. CASE WaitReader(t)
      <4>1. pc'[t] \in {"drop", "sleep"} /\ pc[t] = "scan"
        BY <1>1, <3>3 DEF WaitReader, Scanning
      <4>2. \A u \in Threads : Places(u) \/ Commit(u) => pc'[u] \in {"have", "idle"}
        BY <1>1 DEF Places, GrantTail, GrantHead, GrantReset, AllClear, Granted, Return, Commit,
           Finished
      <4> QED
        BY <4>1, <4>2
    <3>4. CASE DropFrame(t)
      <4>1. pc[t] = "drop"
        BY <3>4 DEF DropFrame
      <4> QED
        BY <4>1 DEF Places, GrantTail, GrantHead, GrantReset, AllClear, Commit
    <3> QED
      BY <1>6, <3>2, <3>3, <3>4
  <2>3. CASE PassReader(t)
    <3>1. /\ idx' = [idx EXCEPT ![t] = @ + 1] /\ pc' = pc /\ pc[t] = "scan"
          /\ Clear(readers_[idx[t]], reserved[WriterOf[t]])
      BY <2>3 DEF PassReader, Scanning
    <3> QED
      BY <1>1, <1>2, <2>1, <2>2, <3>1 DEF Placing
  <2>4. CASE WaitReader(t)
    <3>1. /\ idx' = idx /\ pc[t] = "scan" /\ idx[t] <= Len(readers_)
          /\ pc' = [pc EXCEPT ![t] = IF readers_[idx[t]] \in Discardable /\ ~holding[readers_[idx[t]]]
                                     THEN "drop" ELSE "sleep"]
      BY <2>4 DEF WaitReader, Scanning
    <3>2. idx[t] \in DOMAIN readers_
      BY <1>1, <1>2, <3>1
    <3>3. pc'[t] = "drop" => readers_[idx[t]] \in Discardable
      BY <1>1, <3>1
    <3>4. Placing(t)'
      BY <1>1, <3>1 DEF Placing
    <3> QED
      BY <1>2, <2>1, <2>2, <3>1, <3>2, <3>3, <3>4
  <2>5. CASE DropFrame(t)
    <3>1. idx' = idx /\ pc' = [pc EXCEPT ![t] = "scan"]
      BY <2>5 DEF DropFrame
    <3> QED
      BY <1>1, <1>2, <2>1, <2>2, <3>1 DEF Placing
  <2> QED
    BY <1>6, <2>3, <2>4, <2>5
<1> QED
  BY <1>3, <1>4, <1>5, <1>6 DEF WriterStep, Places

LEMMA ScanStep == ASSUME CInv, [Next]_vars PROVE ScanInv'
<1>1. /\ readers_ \in Seq(Readers) /\ idx \in [Threads -> Nat]
      /\ \A t \in Threads : reserved[WriterOf[t]] \in Nat
  BY ThreadAssumption DEF CInv, IInv, TypeOK
<1>2. ASSUME NEW t \in Threads
      PROVE  /\ idx'[t] >= 1 /\ (~Placing(t)' => idx'[t] = 1)
             /\ pc'[t] = "drop" =>
                   idx'[t] \in DOMAIN readers_' /\ readers_'[idx'[t]] \in Discardable
             /\ Placing(t)' =>
                   \A i \in DOMAIN readers_' :
                      i < idx'[t] => Clear(readers_[i], reserved[WriterOf[t]])'
  <2>1. CASE ~WriterStep(t)
    <3>1. /\ idx'[t] = idx[t]
          /\ Placing(t)' <=> Placing(t)
          /\ pc'[t] = "drop" <=> pc[t] = "drop"
          /\ Placing(t) => /\ reserved'[WriterOf[t]] = reserved[WriterOf[t]]
                           /\ readers_' = readers_ /\ ~ \E r \in Readers : Relists(r)
                           /\ \A u \in Threads : ~(Places(u) \/ Commit(u))
      BY <2>1, OthersStep DEF Placing, Owning
    <3>2. pc[t] = "drop" => Placing(t)
      BY DEF Placing
    <3>3. ASSUME Placing(t), NEW i \in DOMAIN readers_, i < idx[t]
          PROVE  Clear(readers_[i], reserved[WriterOf[t]])'
      <4>1. UNCHANGED ringVars \/ \E r \in Attached : Reads(r)
        BY <3>1, <3>3, StepKinds
      <4>2. Clear(readers_[i], reserved[WriterOf[t]]) /\ readers_[i] \in Attached
        BY <3>3 DEF CInv, ScanInv, Attached
      <4>3. PICK x \in Attached, n \in Nat : x = readers_[i] /\ n = reserved[WriterOf[t]]
        BY <1>1, <4>2
      <4>4. Clear(x, n)'
        BY <4>1, <4>2, <4>3, ClearStays
      <4> QED
        BY <3>1, <3>3, <4>3, <4>4 DEF Clear, FitsTail, FitsHead
    <3>4. idx[t] >= 1 /\ (~Placing(t) => idx[t] = 1)
      BY DEF CInv, ScanInv
    <3>5. pc[t] = "drop" => idx[t] \in DOMAIN readers_ /\ readers_[idx[t]] \in Discardable
      BY DEF CInv, ScanInv
    <3> QED
      BY <3>1, <3>2, <3>3, <3>4, <3>5
  <2>2. CASE WriterStep(t)
    <3>1. /\ idx'[t] >= 1
          /\ ~Placing(t)' => idx'[t] = 1
          /\ pc'[t] = "drop" => /\ idx[t] \in DOMAIN readers_ /\ idx'[t] = idx[t]
                                /\ readers_[idx[t]] \in Discardable
          /\ pc'[t] = "drop" => readers_' = readers_
      BY <2>2, OwnScan DEF Placing
    <3>2. ASSUME Placing(t)', NEW i \in DOMAIN readers_', i < idx'[t]
          PROVE  Clear(readers_[i], reserved[WriterOf[t]])'
      <4>1. /\ UNCHANGED <<cur, readers_>>
            /\ reserved'[WriterOf[t]] = reserved[WriterOf[t]]
            /\ Placing(t)
            /\ ~(Places(t) \/ Commit(t))
            /\ \/ idx'[t] = idx[t]
               \/ /\ idx'[t] = idx[t] + 1
                  /\ Clear(readers_[idx[t]], reserved[WriterOf[t]])
        <5>1. idx'[t] # 1
          BY <1>1, <3>2
        <5> QED
          BY <2>2, <3>2, <5>1, OwnScan
      <4>2. i < idx[t] \/ i = idx[t]
        BY <1>1, <3>2, <4>1
      <4>3. Clear(readers_[i], reserved[WriterOf[t]]) /\ readers_[i] \in Attached
        BY <1>1, <3>2, <4>1, <4>2 DEF CInv, ScanInv, Attached
      <4>4. UNCHANGED ringVars \/ \E r \in Attached : Reads(r)
        <5>1. OneWriterAtATime /\ Owning(t)
          BY <4>1, OneOwner DEF CInv, IInv, Placing, Owning
        <5>2. \A u \in Threads : Places(u) \/ Commit(u) => Owning(u)
          BY DEF Places, GrantTail, GrantHead, GrantReset, AllClear, Commit, Owning
        <5>3. \A u \in Threads : ~(Places(u) \/ Commit(u))
          BY <4>1, <5>1, <5>2 DEF OneWriterAtATime
        <5>4. ~ \E r \in Readers : Relists(r)
          BY <4>1 DEF CInv, IInv, LockInv, Relists, AddReader, RemoveReader, CloneReader,
                      Exclusive, Placing, Listing
        <5> QED
          BY <5>3, <5>4, StepKinds
      <4>5. PICK x \in Attached, n \in Nat : x = readers_[i] /\ n = reserved[WriterOf[t]]
        BY <1>1, <4>3
      <4>6. Clear(x, n)'
        BY <4>3, <4>4, <4>5, ClearStays
      <4> QED
        BY <4>1, <4>5, <4>6 DEF Clear, FitsTail, FitsHead
    <3> QED
      BY <3>1, <3>2
  <2> QED
    BY <2>1, <2>2
<1> QED
  BY <1>2 DEF ScanInv

-----------------------------------------------------------------------------
(* The chains and the room in front of them.                                *)

\* What the values are that the lemmas about chains are used with.
LEMMA ChainTypes ==
    ASSUME CInv
    PROVE  /\ mem \subseteq Headers /\ HeadersApart(mem)
           /\ cur \in 0 .. BufLen /\ cur \in Int /\ serial \in 0 .. SerialMod - 1
           /\ cur + HdrLen <= BufLen
           /\ Attached \subseteq Readers
           /\ \A r \in Attached :
                 /\ stored[r] \in Nat /\ From(r) \in 0 .. BufLen /\ From(r) \in Int
                 /\ From(r) + HdrLen <= BufLen
                 /\ From(r) # NoPos
                 /\ stored[r] = 0 => From(r) = cur
                 /\ Leads(mem, cur, serial, From(r), stored[r])
<1>1. TypeOK /\ CursorFits /\ ListInv /\ ChainInv
  BY DEF CInv, IInv, SizeInv
<1>2. /\ cur \in 0 .. BufLen /\ cur \in Int /\ 0 <= cur
      /\ rcur \in [Readers -> 0 .. BufLen \cup {NoPos}] /\ stored \in [Readers -> Nat]
      /\ Attached \subseteq Readers
  BY <1>1, AttachedReaders, SizeAssumption DEF TypeOK
<1>3. ASSUME NEW r \in Attached
      PROVE  /\ From(r) \in 0 .. BufLen /\ From(r) \in Int
             /\ From(r) + HdrLen <= BufLen /\ From(r) # NoPos
             /\ Leads(mem, cur, serial, From(r), stored[r])
  BY <1>1, <1>2, SizeAssumption DEF From, NoPos, ChainInv, CursorFits
<1>4. ASSUME NEW r \in Attached, stored[r] = 0 PROVE From(r) = cur
  BY <1>2, <1>3, <1>4, NothingStored
<1> QED
  BY <1>1, <1>2, <1>3, <1>4 DEF TypeOK, CursorFits, ChainInv

\* What a reader that is out of the way has to do with the place of n bytes.
LEMMA ClearMeans ==
    ASSUME CInv, NEW r \in Attached, NEW n \in Nat, Clear(r, n)
    PROVE  /\ FitsTail(n) => Room(cur, n, From(r), stored[r])
           /\ FitsHead(n) => stored[r] = 0 \/ (From(r) < cur /\ n <= From(r))
           /\ NeedsReset(n) => stored[r] = 0
<1>1. Attached \subseteq Readers
  BY ChainTypes
<1>2. rcur[r] = NoPos => stored[r] = 0
  BY <1>1 DEF CInv, ListInv
<1>3. rcur[r] # NoPos => From(r) = rcur[r]
  BY DEF From
<1> QED
  BY <1>2, <1>3 DEF Clear, Room, NeedsReset, FitsHead

\* While it reads, the region stays in front of it.
LEMMA RoomStays ==
    ASSUME CInv, UNCHANGED ringVars \/ \E r \in Attached : Reads(r),
           NEW x \in Attached, NEW n \in Nat, Room(cur, n, From(x), stored[x])
    PROVE  Room(cur, n, From(x), stored[x])'
<1>1. CASE UNCHANGED ringVars
  BY <1>1 DEF ringVars, Room, From
<1>2. ASSUME NEW r \in Attached, Reads(r) PROVE Room(cur, n, From(x), stored[x])'
  <2>1. PICK h \in HeaderAt(rcur[r]) : Consume(r, h)
    BY <1>2 DEF Reads
  <2>2. /\ UNCHANGED cur /\ stored[r] > 0
        /\ rcur' = [rcur EXCEPT ![r] = NextPos(h)]
        /\ stored' = [stored EXCEPT ![r] = @ - 1]
    BY <1>2, <2>1 DEF Reads, Consume
  <2>3. /\ Attached \subseteq Readers /\ rcur \in [Readers -> 0 .. BufLen \cup {NoPos}]
        /\ stored \in [Readers -> Nat] /\ cur \in 0 .. BufLen /\ cur \in Int
    BY ChainTypes DEF CInv, IInv, TypeOK
  <2>4. CASE x # r
    <3>1. rcur'[x] = rcur[x] /\ stored'[x] = stored[x]
      BY <2>2, <2>3, <2>4
    <3> QED
      BY <2>2, <3>1 DEF Room, From
  <2>5. CASE x = r
    <3>1. /\ h \in mem /\ h.pos = From(r) /\ stored[r] \in Nat \ {0} /\ NextPos(h) # NoPos
          /\ Leads(mem, cur, serial, From(r), stored[r])
      BY <2>1, <2>2, UnderCursor
    <3>2. From(r)' = NextPos(h) /\ stored'[r] = stored[r] - 1 /\ cur' = cur
      BY <2>2, <2>3, <3>1 DEF From
    <3>3. /\ From(r) \in Int /\ NextPos(h) \in Int
          /\ stored[r] # 1 => \/ NextPos(h) < cur
                              \/ cur <= From(r) /\ From(r) < NextPos(h)
      BY <2>3, <3>1, ChainTypes, LeadsOn
    <3> QED
      BY <2>3, <2>5, <3>1, <3>2, <3>3 DEF Room
  <2> QED
    BY <2>4, <2>5
<1> QED
  BY <1>1, <1>2

\* A writer that has a place passed every reader.
LEMMA AllPassed ==
    ASSUME CInv, NEW t \in Threads, AllClear(t)
    PROVE  /\ reserved[WriterOf[t]] \in Nat /\ HdrLen <= reserved[WriterOf[t]]
           /\ reserved[WriterOf[t]] <= BufLen
           /\ \A r \in Attached : Clear(r, reserved[WriterOf[t]])
<1>1. len[t] \in FrameLens /\ reserved[WriterOf[t]] = FrameLen(len[t]) /\ FrameLen(len[t]) <= BufLen
  BY DEF CInv, IInv, SizeInv, AllClear, Listing
<1>2. len[t] \in Nat
  BY <1>1, SizeAssumption
<1>3. FrameLen(len[t]) \in Nat /\ FrameLen(len[t]) >= len[t] + HdrLen
  BY <1>2, FrameLenBounds
<1>4. /\ readers_ \in Seq(Readers) /\ idx[t] \in Nat
      /\ pc[t] = "scan" /\ idx[t] > Len(readers_)
  BY DEF CInv, IInv, TypeOK, AllClear
<1>5. ASSUME NEW r \in Attached PROVE Clear(r, reserved[WriterOf[t]])
  <2>1. PICK i \in DOMAIN readers_ : r = readers_[i]
    BY DEF Attached
  <2>2. i < idx[t]
    BY <1>4, <2>1
  <2> QED
    BY <1>4, <2>1, <2>2 DEF CInv, ScanInv, Placing
<1> QED
  BY <1>1, <1>2, <1>3, <1>5 DEF HdrLen

\* Redirecting, a writer acknowledges a frame to every reader and goes back to
\* the start.
LEMMA Redirecting ==
    ASSUME CInv, NEW t \in Threads, GrantHead(t)
    PROVE  /\ mem' = Overwrite(Overwrite(mem, cur, cur + HdrLen) \cup {Coming(cur, serial)},
                               0, reserved[WriterOf[t]])
           /\ AckReaders /\ cur' = 0 /\ reserved[WriterOf[t]] <= cur
           /\ UNCHANGED <<readers_, reserved>>
BY ChainTypes DEF GrantHead, Granted, FitsHead, Coming

\* What an acknowledgement changes for an attached reader.
LEMMA Acknowledged ==
    ASSUME CInv, AckReaders, UNCHANGED readers_
    PROVE  /\ Attached' = Attached /\ serial' = Inc(serial)
           /\ \A r \in Attached : From(r)' = From(r) /\ stored'[r] = stored[r] + 1
                                  /\ rcur'[r] = From(r)
<1>1. Attached \subseteq Readers /\ \A r \in Attached : From(r) # NoPos
  BY ChainTypes
<1>2. \A r \in Attached : rcur'[r] = From(r) /\ stored'[r] = stored[r] + 1
  BY <1>1 DEF AckReaders, From
<1>3. Attached' = Attached
  BY SameList
<1> QED
  BY <1>1, <1>2, <1>3 DEF AckReaders, From

\* A reader that joins goes on where another one does, or at the write cursor.
LEMMA Joining ==
    ASSUME CInv, NEW x \in Readers, Relists(x)
    PROVE  /\ UNCHANGED <<cur, serial, mem>>
           /\ \A r \in Attached' : \/ r \in Attached /\ r # x
                                      /\ UNCHANGED <<rcur[r], stored[r], rserial[r]>>
                                   \/ \E src \in Attached :
                                         /\ rcur'[r] = rcur[src] /\ stored'[r] = stored[src]
                                         /\ rserial'[r] = rserial[src]
                                   \/ rcur'[r] = NoPos /\ stored'[r] = 0
<1>1. ListInv /\ readers_ \in Seq(Readers) /\ Attached \subseteq Readers
  BY AttachedReaders DEF CInv, IInv, TypeOK
<1>2. /\ rcur \in [Readers -> 0 .. BufLen \cup {NoPos}] /\ stored \in [Readers -> Nat]
      /\ rserial \in [Readers -> 0 .. SerialMod - 1]
  BY DEF CInv, IInv, TypeOK
<1>3. UNCHANGED <<cur, serial, mem>>
  BY DEF Relists, AddReader, RemoveReader, CloneReader, Exclusive
<1>4. CASE AddReader(x)
  <2>1. /\ rpc[x] = "coming" /\ readers_' = Append(readers_, x)
        /\ UNCHANGED <<rcur, stored, rserial>>
    BY <1>4 DEF AddReader, readerVars
  <2>2. x \notin Attached /\ rcur[x] = NoPos /\ stored[x] = 0
    BY <1>1, <2>1 DEF ListInv
  <2>3. Attached' = Attached \cup {x}
    BY <1>1, <2>1, ListAppended
  <2> QED
    BY <1>3, <2>1, <2>2, <2>3
<1>5. ASSUME NEW src \in Readers, CloneReader(x, src)
      PROVE  \A r \in Attached' : \/ r \in Attached /\ r # x
                                     /\ UNCHANGED <<rcur[r], stored[r], rserial[r]>>
                                  \/ /\ src \in Attached
                                     /\ rcur'[r] = rcur[src] /\ stored'[r] = stored[src]
                                     /\ rserial'[r] = rserial[src]
  <2>1. /\ rpc[x] = "coming" /\ readers_' = Append(readers_, x) /\ src \in Attached
        /\ rcur' = [rcur EXCEPT ![x] = rcur[src]] /\ stored' = [stored EXCEPT ![x] = stored[src]]
        /\ rserial' = [rserial EXCEPT ![x] = rserial[src]]
    BY <1>5 DEF CloneReader
  <2>2. Attached' = Attached \cup {x} /\ x \notin Attached
    BY <1>1, <2>1, ListAppended DEF ListInv
  <2> QED
    BY <1>1, <1>2, <2>1, <2>2
<1>6. CASE RemoveReader(x)
  <2>1. PICK d \in DOMAIN readers_ :
            /\ readers_[d] = x
            /\ readers_' = [j \in 1 .. Len(readers_) - 1 |->
                               readers_[IF j < d THEN j ELSE j + 1]]
    BY <1>6 DEF RemoveReader
  <2>2. Attached' = Attached \ {x}
    BY <1>1, <2>1, ListShrunk DEF ListInv
  <2>3. /\ rcur' = [rcur EXCEPT ![x] = NoPos] /\ stored' = [stored EXCEPT ![x] = 0]
        /\ rserial' = [rserial EXCEPT ![x] = 0]
    BY <1>6 DEF RemoveReader
  <2> QED
    BY <1>1, <1>2, <1>3, <2>2, <2>3
<1> QED
  BY <1>3, <1>4, <1>5, <1>6 DEF Relists

LEMMA RoomStep == ASSUME CInv, [Next]_vars PROVE RoomInv'
<1>1. /\ Attached \subseteq Readers /\ cur \in Int
      /\ \A t \in Threads : reserved[WriterOf[t]] \in Nat
  BY ChainTypes, ThreadAssumption DEF CInv, IInv, TypeOK
<1> SUFFICES ASSUME NEW t \in Threads, Filling(t)', NEW r \in Attached'
             PROVE  Room(cur, reserved[WriterOf[t]], From(r), stored[r])'
  BY DEF RoomInv
\* The region was there before: only the reader may have moved, or joined.
<1>2. ASSUME Filling(t), UNCHANGED cur, reserved'[WriterOf[t]] = reserved[WriterOf[t]],
             \A u \in Threads : ~(Places(u) \/ Commit(u))
      PROVE  Room(cur, reserved[WriterOf[t]], From(r), stored[r])'
  <2>1. \A x \in Attached : Room(cur, reserved[WriterOf[t]], From(x), stored[x])
    BY <1>2 DEF CInv, RoomInv
  <2>2. CASE UNCHANGED ringVars \/ \E x \in Attached : Reads(x)
    <3>1. Attached' = Attached
      BY <2>2, SameList DEF Reads, ringVars
    <3>2. PICK n \in Nat : n = reserved[WriterOf[t]]
      BY <1>1
    <3>3. PICK x \in Attached : x = r
      BY <3>1
    <3>4. Room(cur, n, From(x), stored[x])'
      BY <2>1, <2>2, <3>2, <3>3, RoomStays
    <3> QED
      BY <1>2, <3>2, <3>3, <3>4 DEF Room, From
  <2>3. ASSUME NEW x \in Readers, Relists(x)
        PROVE  Room(cur, reserved[WriterOf[t]], From(r), stored[r])'
    <3>1. \/ r \in Attached /\ UNCHANGED <<rcur[r], stored[r]>>
          \/ \E src \in Attached : rcur'[r] = rcur[src] /\ stored'[r] = stored[src]
          \/ stored'[r] = 0
      BY <2>3, Joining
    <3>2. CASE r \in Attached /\ UNCHANGED <<rcur[r], stored[r]>>
      BY <1>2, <2>1, <3>2 DEF Room, From
    <3>3. ASSUME NEW src \in Attached, rcur'[r] = rcur[src], stored'[r] = stored[src]
          PROVE  Room(cur, reserved[WriterOf[t]], From(r), stored[r])'
      BY <1>2, <2>1, <3>3 DEF Room, From
    <3>4. CASE stored'[r] = 0
      BY <3>4 DEF Room
    <3> QED
      BY <3>1, <3>2, <3>3, <3>4
  <2> QED
    BY <1>2, <2>2, <2>3, StepKinds
<1>3. CASE ~WriterStep(t)
  <2>1. Filling(t) /\ Owning(t)
    BY <1>3, OthersStep DEF Filling, Owning
  <2> QED
    BY <1>2, <1>3, <2>1, OthersStep
<1>4. CASE RequestAgain(t)
  <2>1. /\ Filling(t) /\ Owning(t) /\ UNCHANGED <<cur, reserved>>
        /\ UNCHANGED ringVars
    BY <1>4 DEF RequestAgain, Filling, Owning, bufVars, writerVars, readerVars, ringVars
  <2>2. Attached' = Attached
    BY <2>1, SameList DEF ringVars
  <2> QED
    BY <2>1, <2>2 DEF CInv, RoomInv, Room, From, ringVars
<1>5. ASSUME Places(t) PROVE Room(cur, reserved[WriterOf[t]], From(r), stored[r])'
  <2>1. AllClear(t) /\ UNCHANGED <<readers_, reserved>>
    BY <1>5 DEF Places, GrantTail, GrantHead, GrantReset, Granted
  <2>2. Attached' = Attached /\ r \in Attached
    BY <2>1, SameList
  <2>3. PICK n \in Nat : n = reserved[WriterOf[t]]
    BY <1>1
  <2>4. Clear(r, n)
    BY <2>1, <2>2, <2>3, AllPassed
  <2>5. /\ FitsTail(n) => Room(cur, n, From(r), stored[r])
        /\ FitsHead(n) => stored[r] = 0 \/ (From(r) < cur /\ n <= From(r))
        /\ NeedsReset(n) => stored[r] = 0
    BY <2>2, <2>4, ClearMeans
  <2>6. reserved'[WriterOf[t]] = n
    BY <2>1, <2>3
  <2>7. CASE GrantTail(t)
    <3>1. FitsTail(n) /\ UNCHANGED <<cur, rcur, stored>>
      BY <2>3, <2>7 DEF GrantTail, readerVars
    <3> QED
      BY <2>5, <2>6, <3>1 DEF Room, From
  <2>8. CASE GrantHead(t)
    <3>1. FitsHead(n) /\ cur' = 0 /\ n <= cur /\ AckReaders
      BY <2>3, <2>8, Redirecting DEF GrantHead
    <3>2. From(r)' = From(r)
      BY <2>1, <2>2, <3>1, Acknowledged
    <3>3. stored[r] = 0 => From(r) = cur
      BY <2>2, ChainTypes
    <3>4. n <= From(r)
      BY <2>5, <3>1, <3>3
    <3> QED
      BY <2>6, <3>1, <3>2, <3>4 DEF Room
  <2>9. CASE GrantReset(t)
    <3>1. NeedsReset(n) /\ UNCHANGED stored
      BY <2>3, <2>9 DEF GrantReset
    <3> QED
      BY <2>5, <3>1 DEF Room
  <2> QED
    BY <1>5, <2>7, <2>8, <2>9 DEF Places
<1>6. CASE WriterStep(t) /\ ~Places(t) /\ ~RequestAgain(t)
  <2>1. pc \in [Threads -> {"idle", "share", "own", "scan", "drop", "sleep", "have", "relock"}]
    BY DEF CInv, IInv, TypeOK
  <2>2. pc'[t] \notin {"have", "relock"}
    BY <1>6, <2>1
       DEF WriterStep, Places, LockWriter, ShareList, TakeOwnership, OwnershipTimeout, PassReader,
           WaitReader, DropFrame, ReaderTimeout, Abandon, Return, Commit, Cancel, Finished,
           Scanning
  <2> QED
    BY <2>2 DEF Filling
<1> QED
  BY <1>3, <1>4, <1>5, <1>6

LEMMA ChainStep == ASSUME CInv, [Next]_vars PROVE ChainInv'
<1>1. /\ mem \subseteq Headers /\ HeadersApart(mem)
      /\ cur \in 0 .. BufLen /\ cur \in Int /\ serial \in 0 .. SerialMod - 1
      /\ cur + HdrLen <= BufLen /\ Attached \subseteq Readers
      /\ rcur \in [Readers -> 0 .. BufLen \cup {NoPos}] /\ stored \in [Readers -> Nat]
  BY ChainTypes DEF CInv, IInv, TypeOK
<1>2. \A r \in Attached :
         /\ stored[r] \in Nat /\ From(r) \in 0 .. BufLen /\ From(r) \in Int
         /\ From(r) + HdrLen <= BufLen
         /\ Leads(mem, cur, serial, From(r), stored[r])
  BY ChainTypes
<1>3. CASE UNCHANGED ringVars
  <2>1. Attached' = Attached /\ \A r \in Attached : From(r)' = From(r) /\ stored'[r] = stored[r]
    BY <1>3, SameList DEF ringVars, From
  <2> QED
    BY <1>1, <1>2, <1>3, <2>1 DEF ringVars, ChainInv
<1>4. ASSUME NEW r \in Attached, Reads(r) PROVE ChainInv'
  <2>1. PICK h \in HeaderAt(rcur[r]) : Consume(r, h)
    BY <1>4 DEF Reads
  <2>2. /\ UNCHANGED <<cur, serial, mem, readers_>> /\ stored[r] > 0
        /\ rcur' = [rcur EXCEPT ![r] = NextPos(h)]
        /\ stored' = [stored EXCEPT ![r] = @ - 1]
    BY <1>4, <2>1 DEF Reads, Consume
  <2>3. Attached' = Attached
    BY <2>2, SameList
  <2>4. /\ h \in mem /\ h.pos = From(r) /\ stored[r] \in Nat \ {0} /\ NextPos(h) # NoPos
    BY <2>1, <2>2, UnderCursor
  <2>5. From(r)' = NextPos(h) /\ stored'[r] = stored[r] - 1
    BY <1>1, <2>2, <2>4 DEF From
  <2>6. Leads(mem, cur, serial, NextPos(h), stored[r] - 1)
    BY <1>1, <1>2, <2>4, LeadsConsumed
  <2>7. \A x \in Attached : x # r => From(x)' = From(x) /\ stored'[x] = stored[x]
    BY <1>1, <2>2 DEF From
  <2>8. \A x \in Attached : Leads(mem, cur, serial, From(x)', stored'[x])
    BY <1>2, <2>5, <2>6, <2>7
  <2> QED
    BY <1>1, <2>2, <2>3, <2>8 DEF ChainInv
<1>5. ASSUME NEW t \in Threads, GrantTail(t) PROVE ChainInv'
  <2>1. /\ AllClear(t) /\ FitsTail(reserved[WriterOf[t]])
        /\ mem' = Overwrite(mem, cur, cur + reserved[WriterOf[t]])
        /\ UNCHANGED <<cur, serial, rcur, stored, readers_>>
    BY <1>5 DEF GrantTail, Granted, readerVars
  <2>2. PICK n \in Nat : n = reserved[WriterOf[t]] /\ \A r \in Attached : Clear(r, n)
    BY <2>1, AllPassed
  <2>3. Attached' = Attached /\ \A r \in Attached : From(r)' = From(r)
    BY <2>1, SameList DEF From
  <2>4. \A r \in Attached : Leads(Overwrite(mem, cur, cur + n), cur, serial, From(r), stored[r])
    BY <1>1, <1>2, <2>1, <2>2, ClearMeans, LeadsReserved
  <2>5. HeadersApart(Overwrite(mem, cur, cur + n))
    BY <1>1, OverwriteShrinks, ApartShrinks
  <2> QED
    BY <2>1, <2>2, <2>3, <2>4, <2>5 DEF ChainInv
<1>6. ASSUME NEW t \in Threads, GrantHead(t) PROVE ChainInv'
  <2>1. /\ mem' = Overwrite(Overwrite(mem, cur, cur + HdrLen) \cup {Coming(cur, serial)},
                            0, reserved[WriterOf[t]])
        /\ AckReaders /\ cur' = 0 /\ reserved[WriterOf[t]] <= cur /\ UNCHANGED readers_
    BY <1>6, Redirecting
  <2>2. AllClear(t) /\ FitsHead(reserved[WriterOf[t]])
    BY <1>6 DEF GrantHead
  <2>3. PICK n \in Nat : n = reserved[WriterOf[t]] /\ \A r \in Attached : Clear(r, n)
    BY <2>2, AllPassed
  <2>4. /\ Attached' = Attached /\ serial' = Inc(serial)
        /\ \A r \in Attached : From(r)' = From(r) /\ stored'[r] = stored[r] + 1
    BY <2>1, Acknowledged
  <2>5. \A r \in Attached : stored[r] = 0 \/ (From(r) < cur /\ n <= From(r))
    BY <2>2, <2>3, ClearMeans
  <2>6. \A r \in Attached :
           Leads(Overwrite(Overwrite(mem, cur, cur + HdrLen) \cup {Coming(cur, serial)}, 0, n),
                 0, Inc(serial), From(r), stored[r] + 1)
    BY <1>1, <1>2, <2>1, <2>3, <2>5, LeadsRedirected
  <2>7. HeadersApart(mem')
    <3>1. HeadersApart(Overwrite(mem, cur, cur + HdrLen) \cup {Coming(cur, serial)})
      BY <1>1, ApartAdded DEF Coming
    <3> QED
      BY <2>1, <3>1, OverwriteShrinks, ApartShrinks
  <2> QED
    BY <2>1, <2>3, <2>4, <2>6, <2>7 DEF ChainInv
<1>7. ASSUME NEW t \in Threads, GrantReset(t) PROVE ChainInv'
  <2>1. /\ AllClear(t) /\ NeedsReset(reserved[WriterOf[t]])
        /\ mem' = Overwrite(mem, 0, reserved[WriterOf[t]]) /\ cur' = 0
        /\ rcur' = [r \in Readers |-> IF r \in Attached THEN 0 ELSE rcur[r]]
        /\ UNCHANGED <<serial, stored, readers_>>
    BY <1>7 DEF GrantReset, Granted
  <2>2. PICK n \in Nat : n = reserved[WriterOf[t]] /\ \A r \in Attached : Clear(r, n)
    BY <2>1, AllPassed
  <2>3. \A r \in Attached : stored[r] = 0
    BY <2>1, <2>2, ClearMeans
  <2>4. Attached' = Attached /\ \A r \in Attached : From(r)' = 0
    BY <1>1, <2>1, SameList DEF From, NoPos
  <2>5. 0 \in 0 .. BufLen
    BY SizeAssumption
  <2>6. \A M : Leads(M, 0, serial, 0, 0)
    BY <1>1, <2>5, NothingToRead
  <2>7. HeadersApart(mem')
    BY <1>1, <2>1, OverwriteShrinks, ApartShrinks
  <2> QED
    BY <2>1, <2>3, <2>4, <2>6, <2>7 DEF ChainInv
<1>8. ASSUME NEW t \in Threads, Commit(t) PROVE ChainInv'
  <2>1. PICK n \in FrameLens, o \in Offsets :
            /\ n + o <= requested[WriterOf[t]]
            /\ mem' = Overwrite(mem, cur, cur + HdrLen)
                         \cup {[pos |-> cur, serial |-> serial, len |-> n, off |-> o]}
            /\ cur' = Advance(cur + TotalLen([pos |-> cur, serial |-> serial,
                                              len |-> n, off |-> o]))
    BY <1>8 DEF Commit
  <2> DEFINE h == [pos |-> cur, serial |-> serial, len |-> n, off |-> o]
             l == reserved[WriterOf[t]]
  <2>2. pc[t] = "have" /\ AckReaders /\ readers_' = readers_
    BY <1>8 DEF Commit, Finished
  <2>3. /\ Attached' = Attached /\ serial' = Inc(serial)
        /\ \A r \in Attached : From(r)' = From(r) /\ stored'[r] = stored[r] + 1
    BY <2>2, Acknowledged
  <2>4. h \in Headers /\ h.pos = cur /\ h.serial = serial /\ ~IsRedirect(h)
    BY <2>1, <2>2, CommitFits, SizeAssumption DEF CInv, IInv, IsRedirect
  <2>5. l \in Nat /\ HdrLen <= l /\ TotalLen(h) <= l /\ cur + l <= BufLen
    <3>1. /\ l = FrameLen(requested[WriterOf[t]]) /\ cur + l <= BufLen
          /\ requested[WriterOf[t]] \in Nat /\ n \in Nat /\ o \in Nat
      BY <2>1, <2>2, SizeAssumption, ThreadAssumption DEF CInv, IInv, SizeInv, TypeOK
    <3>2. l \in Nat /\ l >= requested[WriterOf[t]] + HdrLen
      BY <3>1, FrameLenBounds
    <3>3. Align4(o + n) <= Align4(requested[WriterOf[t]])
      BY <2>1, <3>1, AlignMonotonic
    <3>4. Align4(o + n) \in Nat /\ Align4(requested[WriterOf[t]]) \in Nat
      BY <3>1, AlignBounds
    <3>5. TotalLen(h) = Align4(o + n) + HdrLen
      BY DEF TotalLen
    <3> HIDE DEF h, l
    <3> QED
      BY <3>1, <3>2, <3>3, <3>4, <3>5 DEF FrameLen, HdrLen
  <2>6. mem' = Overwrite(mem, cur, cur + HdrLen) \cup {h} /\ cur' = NextPos(h)
    BY <2>1, <2>4 DEF NextPos
  <2>7. \A r \in Attached : Room(cur, l, From(r), stored[r])
    BY <2>2 DEF CInv, RoomInv, Filling
  <2>8. HeadersApart(mem')
    BY <1>1, <2>4, <2>6, ApartAdded
  <2> HIDE DEF h, l
  <2>9. \A r \in Attached :
           Leads(Overwrite(mem, cur, cur + HdrLen) \cup {h}, NextPos(h), Inc(serial),
                 From(r), stored[r] + 1)
    BY <1>1, <1>2, <2>4, <2>5, <2>7, LeadsCommitted
  <2> QED
    BY <2>3, <2>6, <2>8, <2>9 DEF ChainInv
<1>9. ASSUME NEW x \in Readers, Relists(x) PROVE ChainInv'
  <2>1. UNCHANGED <<cur, serial, mem>>
    BY <1>9, Joining
  <2>2. ASSUME NEW r \in Attached'
        PROVE  Leads(mem, cur, serial, From(r)', stored'[r])
    <3>1. \/ r \in Attached /\ UNCHANGED <<rcur[r], stored[r]>>
          \/ \E src \in Attached : rcur'[r] = rcur[src] /\ stored'[r] = stored[src]
          \/ rcur'[r] = NoPos /\ stored'[r] = 0
      BY <1>9, Joining
    <3>2. CASE r \in Attached /\ UNCHANGED <<rcur[r], stored[r]>>
      BY <1>2, <2>1, <3>2 DEF From
    <3>3. ASSUME NEW src \in Attached, rcur'[r] = rcur[src], stored'[r] = stored[src]
          PROVE  Leads(mem, cur, serial, From(r)', stored'[r])
      <4>1. From(r)' = From(src)
        BY <2>1, <3>3 DEF From
      <4> QED
        BY <1>2, <3>3, <4>1
    <3>4. CASE rcur'[r] = NoPos /\ stored'[r] = 0
      <4>1. From(r)' = cur
        BY <2>1, <3>4 DEF From
      <4> QED
        BY <1>1, <3>4, <4>1, NothingToRead
    <3> QED
      BY <3>1, <3>2, <3>3, <3>4
  <2> QED
    BY <1>1, <2>1, <2>2 DEF ChainInv
<1> QED
  BY <1>3, <1>4, <1>5, <1>6, <1>7, <1>8, <1>9, StepKinds DEF Places

LEMMA InitCInv == Init => CInv
<1> SUFFICES ASSUME Init PROVE CInv
  OBVIOUS
<1>1. IInv
  BY InitIInv
<1>2. /\ cur = 0 /\ mem = {} /\ serial = 0 /\ readers_ = InitReaders
      /\ rcur = [r \in Readers |-> NoPos] /\ stored = [r \in Readers |-> 0]
      /\ pc = [t \in Threads |-> "idle"] /\ idx = [t \in Threads |-> 1]
      /\ rpc = [r \in Readers |-> IF r \in Attached THEN "idle" ELSE "none"]
  BY DEF Init
<1>3. Attached \subseteq Readers
  BY <1>1, AttachedReaders DEF IInv, TypeOK
<1>4. ListInv
  BY <1>2, ReaderAssumption DEF ListInv
<1>5. ScanInv /\ RoomInv
  BY <1>2 DEF ScanInv, RoomInv, Placing, Filling
<1>6. ChainInv
  <2>1. HeadersApart(mem)
    BY <1>2 DEF HeadersApart
  <2>2. 0 \in 0 .. BufLen /\ 0 \in 0 .. SerialMod - 1
    BY SizeAssumption
  <2>3. ASSUME NEW r \in Attached PROVE Leads(mem, cur, serial, From(r), stored[r])
    <3>1. From(r) = cur /\ stored[r] = 0
      BY <1>2, <1>3 DEF From
    <3> QED
      BY <1>2, <2>2, <3>1, NothingToRead
  <2> QED
    BY <2>1, <2>3 DEF ChainInv
<1> QED
  BY <1>1, <1>4, <1>5, <1>6 DEF CInv

LEMMA NextCInv == CInv /\ [Next]_vars => CInv'
<1> SUFFICES ASSUME CInv, [Next]_vars PROVE CInv'
  OBVIOUS
<1>1. IInv'
  BY NextIInv DEF CInv
<1> QED
  BY <1>1, ListStep, ScanStep, RoomStep, ChainStep DEF CInv

LEMMA ChainInvariance == Spec => []CInv
BY InitCInv, NextCInv, PTL DEF Spec


-----------------------------------------------------------------------------
(* What a reader finds.                                                     *)

\* Every set of numbers has a least one, which is what induction rests on.
LEMMA Least ==
    ASSUME NEW T, T \subseteq Nat, T # {}
    PROVE  \E n \in T : \A m \in T : n <= m
<1>1. PICK n \in T : \A m \in T : <<m, n>> \notin OpToRel(<, Nat)
  BY WFMin, NatLessThanWellFounded, Zenon
<1>2. \A m \in T : ~ (m < n)
  BY <1>1, Zenon DEF OpToRel
<1> QED
  <2>1. \A m \in T : m \in Int
    OBVIOUS
  <2> QED
    BY <1>2, <2>1

LEMMA Induction ==
    ASSUME NEW S, 0 \in S, \A n \in Nat : n \in S => n + 1 \in S
    PROVE  Nat \subseteq S
<1> DEFINE T == Nat \ S
<1>1. SUFFICES ASSUME T # {} PROVE FALSE
  OBVIOUS
<1>2. PICK n \in T : \A m \in T : n <= m
  BY <1>1, Least
<1>3. n - 1 \in Nat /\ n - 1 \in S
  BY <1>2
<1> QED
  BY <1>2, <1>3

\* A header in memory is the one found at its place.
LEMMA FoundThere ==
    ASSUME CInv, NEW h \in mem
    PROVE  Found[h.pos] = h /\ After[h.pos] = NextPos(h) /\ h # NoFrame
<1>1. mem \subseteq Headers /\ HeadersApart(mem)
  BY ChainTypes
<1>2. h.pos \in 0 .. BufLen /\ h.pos \in Int /\ h.pos \in NoPos .. BufLen
  BY <1>1, HeaderShape, SizeAssumption DEF NoPos
<1>3. HeaderAt(h.pos) = {h}
  <2>1. ASSUME NEW g \in HeaderAt(h.pos) PROVE g = h
    <3>1. g \in mem /\ g.pos = h.pos
      BY DEF HeaderAt
    <3> QED
      BY <1>1, <1>2, <3>1 DEF HeadersApart, HdrLen
  <2> QED
    BY <2>1 DEF HeaderAt
<1>4. Found[h.pos] = h
  BY <1>2, <1>3 DEF Found
<1>5. After[h.pos] = NextPos(h)
  BY <1>2, <1>4 DEF After
<1> QED
  BY <1>2, <1>4, <1>5 DEF NoPos, NoFrame

\* The trail of a reader passes the headers of its chain.
LEMMA TrailOfChain ==
    ASSUME CInv, NEW r \in Attached, rcur[r] # NoPos,
           NEW q, Chain(mem, cur, serial, From(r), stored[r], q)
    PROVE  /\ \A n \in 0 .. stored[r] : Trail(r)[n] = q[n + 1].pos
           /\ \A n \in 1 .. stored[r] : Unread(r)[n] = q[n] /\ q[n] # NoFrame
           /\ Trail(r)[stored[r]] = cur
<1>1. stored[r] \in Nat /\ From(r) = rcur[r] /\ cur \in 0 .. BufLen
  BY ChainTypes DEF From
<1> DEFINE m == stored[r]
           step(f) == [n \in 0 .. m |-> IF n = 0 THEN rcur[r] ELSE After[f[n - 1]]]
           g == [n \in 0 .. m |-> q[n + 1].pos]
<1>2. q[1].pos = rcur[r] /\ q[m + 1].pos = cur
  BY <1>1, ChainEnds
<1>3. ASSUME NEW n \in 1 .. m
      PROVE  /\ q[n] \in mem /\ After[q[n].pos] = q[n + 1].pos
             /\ Found[q[n].pos] = q[n] /\ q[n] # NoFrame
  <2>1. q[n] \in mem /\ q[n + 1].pos = NextPos(q[n])
    BY DEF Chain
  <2> QED
    BY <2>1, FoundThere
<1>4. g = step(g)
  <2>1. ASSUME NEW n \in 0 .. m
        PROVE  g[n] = IF n = 0 THEN rcur[r] ELSE After[g[n - 1]]
    <3>1. CASE n = 0
      BY <1>2, <3>1
    <3>2. CASE n # 0
      <4>1. n \in 1 .. m /\ n - 1 \in 0 .. m /\ n - 1 + 1 = n
        BY <1>1, <3>2
      <4> QED
        BY <1>3, <3>2, <4>1
    <3> QED
      BY <3>1, <3>2
  <2> QED
    BY <2>1
<1>5. Trail(r) = step(Trail(r))
  BY <1>4 DEF Trail
<1>6. \A n \in 0 .. m : Trail(r)[n] = q[n + 1].pos
  <2> DEFINE S == {n \in Nat : n <= m => Trail(r)[n] = q[n + 1].pos}
  <2>1. 0 \in S
    BY <1>1, <1>2, <1>5
  <2>2. ASSUME NEW n \in Nat, n \in S PROVE n + 1 \in S
    <3>1. SUFFICES ASSUME n + 1 <= m PROVE Trail(r)[n + 1] = q[n + 1 + 1].pos
      OBVIOUS
    <3>2. n + 1 \in 1 .. m /\ n + 1 \in 0 .. m /\ n + 1 # 0 /\ n + 1 - 1 = n
      BY <1>1, <3>1
    <3>3. Trail(r)[n + 1] = After[Trail(r)[n]]
      <4>1. PICK k \in 0 .. m : k = n + 1
        BY <3>2
      <4>2. k # 0 /\ k - 1 = n
        BY <4>1
      <4>3. Trail(r)[k] = After[Trail(r)[k - 1]]
        BY <1>5, <4>2
      <4> QED
        BY <4>1, <4>2, <4>3
    <3>4. Trail(r)[n] = q[n + 1].pos
      BY <1>1, <2>2, <3>1
    <3> QED
      BY <1>3, <3>2, <3>3, <3>4
  <2> HIDE DEF S
  <2>3. Nat \subseteq S
    BY <2>1, <2>2, Induction
  <2> QED
    BY <1>1, <2>3 DEF S
<1>7. \A n \in 1 .. m : Unread(r)[n] = q[n] /\ q[n] # NoFrame
  <2> SUFFICES ASSUME NEW n \in 1 .. m PROVE Unread(r)[n] = q[n] /\ q[n] # NoFrame
    OBVIOUS
  <2>1. n - 1 \in 0 .. m /\ n - 1 + 1 = n
    BY <1>1
  <2>2. Trail(r)[n - 1] = q[n].pos
    BY <1>6, <2>1
  <2>3. Unread(r)[n] = Found[Trail(r)[n - 1]]
    BY DEF Unread
  <2> QED
    BY <1>3, <2>2, <2>3
<1>8. m \in 0 .. m
  BY <1>1
<1> QED
  BY <1>2, <1>6, <1>7, <1>8

\* What a reader has still to read is a chain that leads it to the write cursor.
LEMMA UnreadChain ==
    ASSUME CInv, NEW r \in Attached, rcur[r] # NoPos
    PROVE  /\ \A n \in 1 .. stored[r] : Unread(r)[n] # NoFrame /\ Unread(r)[n] \in mem
           /\ Trail(r)[stored[r]] = cur
<1>1. PICK q : Chain(mem, cur, serial, From(r), stored[r], q)
  BY ChainTypes DEF Leads
<1>2. \A n \in 1 .. stored[r] : q[n] \in mem
  BY <1>1 DEF Chain
<1> QED
  BY <1>1, <1>2, TrailOfChain

\* The regions writers fill are free of what readers have still to read.
THEOREM UnreadFramesKept == Spec => []UnreadUntouched
<1>1. CInv => UnreadUntouched
  <2> SUFFICES ASSUME CInv, NEW t \in Threads, NEW r \in Attached, pc[t] = "have",
                      NEW n \in 1 .. stored[r]
               PROVE  Disjoint(cur, cur + reserved[WriterOf[t]], Unread(r)[n])
    BY DEF UnreadUntouched
  <2>1. /\ cur \in 0 .. BufLen /\ stored[r] \in Nat /\ r \in Readers
        /\ Leads(mem, cur, serial, From(r), stored[r])
    BY ChainTypes
  <2>2. rcur[r] # NoPos
    BY <2>1 DEF CInv, ListInv
  <2>3. PICK q : /\ Chain(mem, cur, serial, From(r), stored[r], q)
                 /\ \E k \in 2 .. stored[r] + 2 : Laid(stored[r], q, k)
    BY <2>1 DEF Leads
  <2>4. PICK l \in Nat : l = reserved[WriterOf[t]]
    BY ThreadAssumption DEF CInv, IInv, TypeOK
  <2>5. Room(cur, l, From(r), stored[r])
    BY <2>4 DEF CInv, RoomInv, Filling
  <2>6. Disjoint(cur, cur + l, q[n])
    BY <2>1, <2>3, <2>5, RegionFree
  <2>7. Unread(r)[n] = q[n]
    BY <2>2, <2>3, TrailOfChain
  <2> QED
    BY <2>4, <2>6, <2>7
<1> QED
  BY <1>1, ChainInvariance, PTL

-----------------------------------------------------------------------------
(* What a reader without discard_ holds, and what it meets when it tries a    *)
(* second time.                                                             *)

\* The frame it was lent is still the one under its cursor.
LoanInv ==
    \A r \in Readers \ Discardable :
        rpc[r] = "held" => /\ stored[r] > 0
                           /\ frm[r] \in mem /\ frm[r].pos = rcur[r] /\ ~IsRedirect(frm[r])

\* A second attempt begins at the start of the ring, where no redirect header is.
RetryInv ==
    /\ \A h \in mem : IsRedirect(h) => h.pos > 0
    /\ \A r \in Readers \ Discardable : rpc[r] = "retry" => rcur[r] = 0

UserInv == CInv /\ LoanInv /\ RetryInv

\* Between two steps of its own user nobody but a writer that publishes a frame
\* does anything to it, and then it only gains a frame.
LEMMA LeftAlone ==
    ASSUME CInv, [Next]_vars, NEW r \in Readers \ Discardable, ~ReaderStep(r),
           rpc'[r] \in {"held", "retry"}
    PROVE  /\ rpc'[r] = rpc[r] /\ frm'[r] = frm[r] /\ r \in Attached /\ r \in Attached'
           /\ \/ UNCHANGED <<mem, rcur[r], stored[r]>>
              \/ \E t \in Threads : Places(t) \/ Commit(t)
<1>0. /\ rpc \in [Readers -> {"none", "coming", "idle", "retry", "held", "leaving", "gone"}]
      /\ frm \in [Readers -> Headers \cup {NoFrame}]
      /\ rcur \in [Readers -> 0 .. BufLen \cup {NoPos}] /\ stored \in [Readers -> Nat]
      /\ ListInv
  BY DEF CInv, IInv, TypeOK
<1>1. ASSUME rpc'[r] = rpc[r] PROVE r \in Attached /\ r \in Attached'
  <2>1. ListInv'
    BY ListStep
  <2> QED
    BY <1>0, <1>1, <2>1 DEF ListInv
<1>2. ASSUME NEW t \in Threads, WriterStep(t)
      PROVE  /\ UNCHANGED <<rpc, frm>>
             /\ \/ UNCHANGED <<mem, rcur[r], stored[r]>>
                \/ Places(t) \/ Commit(t)
  <2>1. UNCHANGED <<rpc, frm>>
    BY <1>2 DEF WriterStep, LockWriter, ShareList, TakeOwnership, OwnershipTimeout, PassReader,
                WaitReader, DropFrame, ReaderTimeout, GrantTail, GrantHead, GrantReset, Granted,
                Commit, Cancel, Finished, RequestAgain, userVars
  <2>2. CASE DropFrame(t)
    <3>1. readers_[idx[t]] \in Discardable
      BY <2>2 DEF DropFrame, CInv, ScanInv
    <3>2. readers_[idx[t]] # r /\ mem' = mem
      BY <2>2, <3>1 DEF DropFrame, bufVars
    <3>3. UNCHANGED <<rcur[r], stored[r]>>
      BY <1>0, <2>2, <3>2 DEF DropFrame, Consume, readerVars
    <3> QED
      BY <2>1, <3>2, <3>3
  <2>3. CASE \/ LockWriter(t) \/ ShareList(t) \/ TakeOwnership(t) \/ OwnershipTimeout(t)
             \/ PassReader(t) \/ WaitReader(t) \/ ReaderTimeout(t) \/ Cancel(t)
             \/ RequestAgain(t)
    <3>1. UNCHANGED <<mem, rcur, stored>>
      BY <2>3 DEF LockWriter, ShareList, TakeOwnership, OwnershipTimeout, PassReader,
                  WaitReader, ReaderTimeout, Cancel, Finished, RequestAgain,
                  bufVars, readerVars
    <3> QED
      BY <2>1, <3>1
  <2> QED
    BY <1>2, <2>1, <2>2, <2>3 DEF WriterStep, Places
<1>3. ASSUME NEW x \in Readers, ReaderStep(x), x # r
      PROVE  rpc'[r] = rpc[r] /\ frm'[r] = frm[r] /\ UNCHANGED <<mem, rcur[r], stored[r]>>
  <2>1. mem' = mem /\ rpc'[r] = rpc[r] /\ frm'[r] = frm[r]
    BY <1>0, <1>3 DEF ReaderStep, Borrow, FollowRedirect, RetryTimeout, Release, bufVars
  <2>2. UNCHANGED <<rcur[r], stored[r]>>
    BY <1>0, <1>3 DEF ReaderStep, Borrow, FollowRedirect, RetryTimeout, Release, Consume,
                      readerVars
  <2> QED
    BY <2>1, <2>2
<1>4. ASSUME ManagerStep
      PROVE  rpc'[r] = rpc[r] /\ frm'[r] = frm[r] /\ UNCHANGED <<mem, rcur[r], stored[r]>>
  <2>1. UNCHANGED <<mem, frm>>
    BY <1>4 DEF ManagerStep, BlockSharers, WantAdd, WantRemove, AddReader, RemoveReader,
                CloneReader, Exclusive, bufVars, userVars
  <2>2. CASE BlockSharers
    BY <2>1, <2>2 DEF BlockSharers, userVars, readerVars
  <2>3. ASSUME NEW x \in Readers, WantAdd(x) \/ WantRemove(x) \/ AddReader(x)
        PROVE  rpc'[r] = rpc[r] /\ UNCHANGED <<rcur[r], stored[r]>>
    BY <1>0, <2>3 DEF WantAdd, WantRemove, AddReader, readerVars
  <2>4. ASSUME NEW x \in Readers, RemoveReader(x)
        PROVE  rpc'[r] = rpc[r] /\ UNCHANGED <<rcur[r], stored[r]>>
    BY <1>0, <2>4 DEF RemoveReader
  <2>5. ASSUME NEW x \in Readers, NEW src \in Readers, CloneReader(x, src)
        PROVE  rpc'[r] = rpc[r] /\ UNCHANGED <<rcur[r], stored[r]>>
    BY <1>0, <2>5 DEF CloneReader
  <2> QED
    BY <1>4, <2>1, <2>2, <2>3, <2>4, <2>5 DEF ManagerStep
<1>5. CASE UNCHANGED vars
  BY <1>1, <1>5 DEF vars, bufVars, readerVars, userVars
<1> QED
  BY <1>1, <1>2, <1>3, <1>4, <1>5 DEF Next

\* A writer that publishes a frame spares the header under a reader's cursor.
LEMMA FirstSpared ==
    ASSUME CInv, [Next]_vars, NEW t \in Threads, Places(t) \/ Commit(t),
           NEW r \in Attached, r \in Attached', stored[r] > 0,
           NEW h \in mem, h.pos = rcur[r]
    PROVE  h \in mem' /\ rcur'[r] = rcur[r] /\ stored'[r] > 0
<1>1. /\ mem \subseteq Headers /\ HeadersApart(mem) /\ cur \in Int /\ cur \in 0 .. BufLen
      /\ r \in Readers /\ stored[r] \in Nat /\ Attached \subseteq Readers
  BY ChainTypes
<1>2. From(r) = rcur[r] /\ rcur[r] # NoPos /\ rcur[r] \in Int
  <2>1. rcur[r] # NoPos
    BY <1>1 DEF CInv, ListInv
  <2> QED
    BY <2>1, ChainTypes DEF From
<1>3. ~GrantReset(t)
  <2>1. SUFFICES ASSUME GrantReset(t) PROVE FALSE
    OBVIOUS
  <2>2. PICK n \in Nat : n = reserved[WriterOf[t]] /\ Clear(r, n) /\ NeedsReset(n)
    BY <2>1, AllPassed DEF GrantReset
  <2> QED
    BY <1>1, <2>2, ClearMeans
\* Where the new header goes there is none that the reader has still to read.
<1>4. rcur[r] # cur
  <2>1. PICK n \in Nat : /\ n = reserved[WriterOf[t]] /\ n >= HdrLen
                         /\ Room(cur, n, From(r), stored[r]) \/ From(r) < cur
    <3>1. CASE Commit(t)
      <4>1. pc[t] = "have"
        BY <3>1 DEF Commit
      <4>2. /\ reserved[WriterOf[t]] = FrameLen(requested[WriterOf[t]])
            /\ requested[WriterOf[t]] \in Nat
        BY <4>1, ThreadAssumption DEF CInv, IInv, SizeInv, TypeOK
      <4>3. FrameLen(requested[WriterOf[t]]) \in Nat /\ FrameLen(requested[WriterOf[t]]) >= HdrLen
        BY <4>2, FrameLenBounds DEF HdrLen
      <4>4. Room(cur, reserved[WriterOf[t]], From(r), stored[r])
        BY <4>1 DEF CInv, RoomInv, Filling
      <4> QED
        BY <4>2, <4>3, <4>4
    <3>2. CASE Places(t)
      <4>1. AllClear(t)
        BY <3>2 DEF Places, GrantTail, GrantHead, GrantReset
      <4>2. PICK n \in Nat : n = reserved[WriterOf[t]] /\ n >= HdrLen /\ Clear(r, n)
        BY <4>1, AllPassed DEF HdrLen
      <4>3. FitsTail(n) \/ FitsHead(n)
        BY <1>3, <3>2, <4>2 DEF Places, GrantTail, GrantHead
      <4> QED
        BY <1>1, <4>2, <4>3, ClearMeans
    <3> QED
      BY <3>1, <3>2
  <2> QED
    BY <1>1, <1>2, <2>1 DEF Room, HdrLen
<1>5. \E g : g.pos = cur /\ mem' \subseteq mem \cup {g}
  <2>1. CASE GrantTail(t)
    <3>1. mem' \subseteq mem
      BY <2>1, OverwriteShrinks DEF GrantTail
    <3>2. Coming(cur, serial).pos = cur
      BY DEF Coming
    <3> QED
      BY <3>1, <3>2
  <2>2. CASE GrantHead(t)
    <3>1. mem' \subseteq mem \cup {Coming(cur, serial)}
      BY <2>2, Redirecting, OverwriteShrinks
    <3>2. Coming(cur, serial).pos = cur
      BY DEF Coming
    <3> QED
      BY <3>1, <3>2
  <2>3. CASE Commit(t)
    <3>1. PICK n \in FrameLens, o \in Offsets :
              mem' = Overwrite(mem, cur, cur + HdrLen)
                        \cup {[pos |-> cur, serial |-> serial, len |-> n, off |-> o]}
      BY <2>3 DEF Commit
    <3>2. mem' \subseteq mem \cup {[pos |-> cur, serial |-> serial, len |-> n, off |-> o]}
      BY <3>1, OverwriteShrinks
    <3>3. [pos |-> cur, serial |-> serial, len |-> n, off |-> o].pos = cur
      OBVIOUS
    <3> QED
      BY <3>2, <3>3
  <2> QED
    BY <1>3, <2>1, <2>2, <2>3 DEF Places
<1>6. rcur'[r] = rcur[r] /\ stored'[r] > 0
  <2>1. \/ UNCHANGED <<rcur, stored>>
        \/ AckReaders
    BY <1>3 DEF Places, GrantTail, GrantHead, Commit, readerVars
  <2>2. AckReaders => rcur'[r] = rcur[r] /\ stored'[r] = stored[r] + 1
    BY <1>1, <1>2 DEF AckReaders
  <2> QED
    BY <1>1, <2>1, <2>2
<1>7. \E h2 \in mem' : h2.pos = rcur[r]
  <2>1. CInv'
    BY NextCInv
  <2>2. PICK q, m : m = stored'[r] /\ Chain(mem', cur', serial', From(r)', m, q)
    BY <2>1 DEF CInv, ChainInv, Leads
  <2>3. From(r)' = rcur[r] /\ m \in Nat \ {0}
    BY <1>1, <1>2, <1>6, <2>1, <2>2 DEF From, CInv, IInv, TypeOK
  <2>4. 1 \in 1 .. m
    BY <2>3
  <2> QED
    BY <2>2, <2>3, <2>4 DEF Chain
<1>8. PICK h2 \in mem' : h2.pos = rcur[r]
  BY <1>7
<1>9. h2 \in mem
  BY <1>4, <1>5, <1>8
<1>10. h2 = h
  BY <1>1, <1>2, <1>8, <1>9 DEF HeadersApart, HdrLen
<1> QED
  BY <1>6, <1>8, <1>10

LEMMA LoanStep == ASSUME UserInv, [Next]_vars PROVE LoanInv'
<1>0. /\ CInv /\ LoanInv
      /\ rpc \in [Readers -> {"none", "coming", "idle", "retry", "held", "leaving", "gone"}]
      /\ frm \in [Readers -> Headers \cup {NoFrame}]
  BY DEF UserInv, CInv, IInv, TypeOK
<1> SUFFICES ASSUME NEW r \in Readers \ Discardable, rpc'[r] = "held"
             PROVE  /\ stored'[r] > 0
                    /\ frm'[r] \in mem' /\ frm'[r].pos = rcur'[r] /\ ~IsRedirect(frm'[r])
  BY DEF LoanInv, IsRedirect
<1>1. CASE ReaderStep(r)
  <2>1. Borrow(r)
    BY <1>0, <1>1 DEF ReaderStep, FollowRedirect, RetryTimeout, Release
  <2>2. PICK h \in HeaderAt(rcur[r]) : ~IsRedirect(h) /\ frm' = [frm EXCEPT ![r] = h]
    BY <2>1 DEF Borrow
  <2>3. stored[r] > 0 /\ UNCHANGED <<mem, rcur, stored>>
    BY <2>1 DEF Borrow, bufVars
  <2>4. frm'[r] = h /\ h \in mem /\ h.pos = rcur[r]
    BY <1>0, <2>2 DEF HeaderAt
  <2> QED
    BY <2>2, <2>3, <2>4
<1>2. CASE ~ReaderStep(r)
  <2>1. /\ rpc[r] = "held" /\ frm'[r] = frm[r] /\ r \in Attached /\ r \in Attached'
        /\ \/ UNCHANGED <<mem, rcur[r], stored[r]>>
           \/ \E t \in Threads : Places(t) \/ Commit(t)
    BY <1>0, <1>2, LeftAlone
  <2>2. stored[r] > 0 /\ frm[r] \in mem /\ frm[r].pos = rcur[r] /\ ~IsRedirect(frm[r])
    BY <1>0, <2>1 DEF LoanInv
  <2>3. CASE UNCHANGED <<mem, rcur[r], stored[r]>>
    BY <2>1, <2>2, <2>3
  <2>4. ASSUME NEW t \in Threads, Places(t) \/ Commit(t)
        PROVE  frm[r] \in mem' /\ rcur'[r] = rcur[r] /\ stored'[r] > 0
    BY <1>0, <2>1, <2>2, <2>4, FirstSpared
  <2> QED
    BY <2>1, <2>2, <2>3, <2>4
<1> QED
  BY <1>1, <1>2

LEMMA RetryStep == ASSUME UserInv, [Next]_vars PROVE RetryInv'
<1>0. /\ CInv /\ RetryInv
      /\ rpc \in [Readers -> {"none", "coming", "idle", "retry", "held", "leaving", "gone"}]
      /\ rcur \in [Readers -> 0 .. BufLen \cup {NoPos}] /\ stored \in [Readers -> Nat]
      /\ mem \subseteq Headers /\ cur \in Int
  BY ChainTypes DEF UserInv, CInv, IInv, TypeOK
<1>1. \A h \in mem' : IsRedirect(h) => h.pos > 0
  <2>1. CASE UNCHANGED mem
    BY <1>0, <2>1 DEF RetryInv
  <2>2. ASSUME NEW t \in Threads, GrantTail(t) \/ GrantReset(t) PROVE mem' \subseteq mem
    BY <2>2, OverwriteShrinks DEF GrantTail, GrantReset
  <2>3. ASSUME NEW t \in Threads, GrantHead(t) PROVE \A h \in mem' : IsRedirect(h) => h.pos > 0
    <3>1. mem' \subseteq mem \cup {Coming(cur, serial)}
      BY <1>0, <2>3, Redirecting, OverwriteShrinks
    <3>2. PICK n \in Nat : n = reserved[WriterOf[t]] /\ HdrLen <= n /\ n <= cur
      BY <1>0, <2>3, Redirecting, AllPassed DEF GrantHead
    <3>3. Coming(cur, serial).pos > 0
      BY <1>0, <3>2 DEF Coming, HdrLen
    <3> QED
      BY <1>0, <3>1, <3>3 DEF RetryInv
  <2>4. ASSUME NEW t \in Threads, Commit(t) PROVE \A h \in mem' : IsRedirect(h) => h.pos > 0
    <3>1. PICK n \in FrameLens, o \in Offsets :
              mem' = Overwrite(mem, cur, cur + HdrLen)
                        \cup {[pos |-> cur, serial |-> serial, len |-> n, off |-> o]}
      BY <2>4 DEF Commit
    <3>2. mem' \subseteq mem \cup {[pos |-> cur, serial |-> serial, len |-> n, off |-> o]}
      BY <3>1, OverwriteShrinks
    <3>3. n # 0
      BY SizeAssumption
    <3> QED
      BY <1>0, <3>2, <3>3 DEF RetryInv, IsRedirect
  <2>5. ASSUME NEW x \in Readers, Relists(x) PROVE UNCHANGED mem
    BY <1>0, <2>5, Joining
  <2> QED
    BY <1>0, <2>1, <2>2, <2>3, <2>4, <2>5, StepKinds DEF ringVars, Reads, Places, RetryInv
<1>2. ASSUME NEW r \in Readers \ Discardable, rpc'[r] = "retry" PROVE rcur'[r] = 0
  <2>1. CASE ReaderStep(r)
    <3>1. FollowRedirect(r)
      BY <1>0, <1>2, <2>1 DEF ReaderStep, Borrow, RetryTimeout, Release
    <3>2. \E h \in HeaderAt(rcur[r]) : IsRedirect(h) /\ rcur' = [rcur EXCEPT ![r] = NextPos(h)]
      BY <3>1 DEF FollowRedirect, Consume
    <3> QED
      BY <1>0, <3>2 DEF NextPos
  <2>2. CASE ~ReaderStep(r)
    <3>1. /\ rpc[r] = "retry" /\ r \in Attached
          /\ \/ UNCHANGED <<mem, rcur[r], stored[r]>>
             \/ \E t \in Threads : Places(t) \/ Commit(t)
      BY <1>0, <1>2, <2>2, LeftAlone
    <3>2. rcur[r] = 0
      BY <1>0, <3>1 DEF RetryInv
    <3>3. ASSUME NEW t \in Threads, Places(t) \/ Commit(t) PROVE rcur'[r] = 0
      <4>1. \/ UNCHANGED rcur
            \/ AckReaders
            \/ rcur' = [x \in Readers |-> IF x \in Attached THEN 0 ELSE rcur[x]]
        BY <3>3 DEF Places, GrantTail, GrantHead, GrantReset, Commit, readerVars
      <4> QED
        BY <3>1, <3>2, <4>1 DEF AckReaders, NoPos
    <3> QED
      BY <3>1, <3>2, <3>3
  <2> QED
    BY <2>1, <2>2
<1> QED
  BY <1>1, <1>2 DEF RetryInv, IsRedirect

LEMMA InitUserInv == Init => UserInv
<1> SUFFICES ASSUME Init PROVE UserInv
  OBVIOUS
<1>1. CInv
  BY InitCInv
<1>2. \A r \in Readers : rpc[r] \in {"idle", "none"}
  BY DEF Init
<1>3. mem = {}
  BY DEF Init
<1> QED
  BY <1>1, <1>2, <1>3 DEF UserInv, LoanInv, RetryInv

LEMMA NextUserInv == UserInv /\ [Next]_vars => UserInv'
BY NextCInv, LoanStep, RetryStep DEF UserInv

LEMMA UserInvariance == Spec => []UserInv
BY InitUserInv, NextUserInv, PTL DEF Spec

\* A frame lent to a reader without discard_ stays under its cursor and out of
\* the region being filled until it is released (wait_reader_release).
THEOREM LoansKept == Spec => []HeldIntact
<1>1. UserInv => HeldIntact
  <2> SUFFICES ASSUME UserInv, NEW r \in Readers \ Discardable, rpc[r] = "held"
               PROVE  /\ frm[r] \in HeaderAt(rcur[r])
                      /\ \A t \in Threads :
                            pc[t] = "have" =>
                               Disjoint(cur, cur + reserved[WriterOf[t]], frm[r])
    BY DEF HeldIntact, LoanSafe
  <2>1. /\ CInv /\ stored[r] > 0 /\ frm[r] \in mem /\ frm[r].pos = rcur[r]
    BY DEF UserInv, LoanInv
  <2>2. r \in Attached
    BY <2>1 DEF CInv, ListInv
  <2>3. /\ cur \in 0 .. BufLen /\ stored[r] \in Nat \ {0} /\ mem \subseteq Headers
        /\ HeadersApart(mem) /\ Leads(mem, cur, serial, From(r), stored[r])
    BY <2>1, <2>2, ChainTypes
  <2>4. rcur[r] # NoPos /\ From(r) = rcur[r] /\ rcur[r] \in Int
    <3>1. rcur[r] # NoPos
      BY <2>1 DEF CInv, ListInv
    <3> QED
      BY <2>1, <2>2, <3>1, ChainTypes DEF From
  <2>5. PICK q : /\ Chain(mem, cur, serial, From(r), stored[r], q)
                 /\ \E k \in 2 .. stored[r] + 2 : Laid(stored[r], q, k)
    BY <2>3 DEF Leads
  <2>6. 1 \in 1 .. stored[r] /\ q[1] = frm[r]
    <3>1. 1 \in 1 .. stored[r]
      BY <2>3
    <3>2. q[1] \in mem /\ q[1].pos = rcur[r]
      BY <2>4, <2>5, <3>1 DEF Chain
    <3> QED
      BY <2>1, <2>3, <2>4, <3>1, <3>2 DEF HeadersApart, HdrLen
  <2>7. ASSUME NEW t \in Threads, pc[t] = "have"
        PROVE  Disjoint(cur, cur + reserved[WriterOf[t]], frm[r])
    <3>1. PICK l \in Nat : l = reserved[WriterOf[t]]
      BY <2>1, ThreadAssumption DEF CInv, IInv, TypeOK
    <3>2. Room(cur, l, From(r), stored[r])
      BY <2>1, <2>2, <2>7, <3>1 DEF CInv, RoomInv, Filling
    <3>3. Disjoint(cur, cur + l, q[1])
      BY <2>3, <2>5, <2>6, <3>2, RegionFree
    <3> QED
      BY <2>6, <3>1, <3>3
  <2> QED
    BY <2>1, <2>7 DEF HeaderAt
<1> QED
  BY <1>1, UserInvariance, PTL

\* request_frame never needs a third attempt: no redirect header lies at the
\* start of the ring, where a redirect header leads.
THEOREM OneRetryEnough == Spec => []RetryOnce
<1>1. UserInv => RetryOnce
  BY DEF UserInv, RetryInv, RetryOnce, HeaderAt
<1> QED
  BY <1>1, UserInvariance, PTL

-----------------------------------------------------------------------------
(* Serial numbers.                                                          *)

\* Two numbers with the same remainder after the same multiple of SerialMod are
\* the same.
LEMMA OneRemainder ==
    ASSUME NEW d \in Int, NEW e \in Int, NEW a \in 0 .. SerialMod - 1, NEW b \in 0 .. SerialMod - 1,
           SerialMod * d + a = SerialMod * e + b
    PROVE  a = b
<1>0. SerialMod \in Nat /\ SerialMod > 1
  BY SizeAssumption
<1>1. SerialMod * (d - e) = b - a /\ SerialMod * (e - d) = a - b
  BY <1>0
<1>2. \A n \in Nat : n > 0 => SerialMod * n >= SerialMod
  BY <1>0
<1>3. CASE d > e
  BY <1>0, <1>1, <1>2, <1>3
<1>4. CASE d < e
  BY <1>0, <1>1, <1>2, <1>4
<1> QED
  BY <1>0, <1>3, <1>4

LEMMA Remainder ==
    ASSUME NEW x \in Nat
    PROVE  \E d \in Int : x = SerialMod * d + (x % SerialMod) /\ x % SerialMod \in 0 .. SerialMod - 1
<1>1. x = SerialMod * (x \div SerialMod) + (x % SerialMod) /\ x % SerialMod \in 0 .. SerialMod - 1
  BY SizeAssumption
<1>2. x \div SerialMod \in Int
  BY SizeAssumption
<1> QED
  BY <1>1, <1>2

\* Counting on from a remainder.
LEMMA CountOn ==
    ASSUME NEW x \in Nat, NEW y \in Nat
    PROVE  ((x % SerialMod) + y) % SerialMod = (x + y) % SerialMod
<1>1. PICK d \in Int, a \in 0 .. SerialMod - 1 : a = x % SerialMod /\ x = SerialMod * d + a
  BY Remainder
<1>2. a + y \in Nat /\ x + y \in Nat
  BY SizeAssumption
<1>3. PICK e \in Int, b \in 0 .. SerialMod - 1 :
          b = (a + y) % SerialMod /\ a + y = SerialMod * e + b
  BY <1>2, Remainder
<1>4. PICK f \in Int, g \in 0 .. SerialMod - 1 :
          g = (x + y) % SerialMod /\ x + y = SerialMod * f + g
  BY <1>2, Remainder
<1>5. SerialMod * (d + e) + b = SerialMod * f + g
  <2>1. SerialMod * d + SerialMod * e = SerialMod * (d + e)
    BY SizeAssumption
  <2> QED
    BY <1>1, <1>3, <1>4, <2>1, SizeAssumption
<1>6. b = g
  BY <1>5, OneRemainder
<1> QED
  BY <1>1, <1>3, <1>4, <1>6

LEMMA SmallRemainder ==
    ASSUME NEW x \in 0 .. SerialMod - 1
    PROVE  x % SerialMod = x
<1>1. x \in Nat
  BY SizeAssumption
<1>2. PICK d \in Int : x = SerialMod * d + (x % SerialMod) /\ x % SerialMod \in 0 .. SerialMod - 1
  BY <1>1, Remainder
<1>3. SerialMod * 0 + x = SerialMod * d + (x % SerialMod)
  BY <1>2, SizeAssumption
<1> QED
  BY <1>2, <1>3, OneRemainder

\* Remainders that agree after the same number of steps agreed before.
LEMMA CountBack ==
    ASSUME NEW a \in 0 .. SerialMod - 1, NEW b \in 0 .. SerialMod - 1, NEW n \in Nat,
           (a + n) % SerialMod = (b + n) % SerialMod
    PROVE  a = b
<1>1. a + n \in Nat /\ b + n \in Nat
  BY SizeAssumption
<1>2. PICK d \in Int : a + n = SerialMod * d + ((a + n) % SerialMod)
  BY <1>1, Remainder
<1>3. PICK e \in Int : b + n = SerialMod * e + ((b + n) % SerialMod)
  BY <1>1, Remainder
<1>4. SerialMod * e + a = SerialMod * d + b
  BY <1>1, <1>2, <1>3, SizeAssumption
<1> QED
  BY <1>4, OneRemainder

\* A reader expects the serial number that comes out when its last frame is the
\* one published last.  The two ways to keep that so when the ring is reset
\* (buffer.cpp:779): every frame that fits in the ring fits twice, so that it
\* never is, or no reader joins later, so that none is still waiting for its
\* first frame then.
NeverReset == \A n \in FrameLens : FrameLen(n) <= BufLen => FrameLen(n) + FrameLen(n) <= BufLen
NobodyJoins == \A r \in Readers : \E i \in DOMAIN InitReaders : InitReaders[i] = r
SerialsAgree == NeverReset \/ NobodyJoins

NewcomersInv ==
    NobodyJoins => /\ \A r \in Readers : rpc[r] \notin {"none", "coming"}
                   /\ \A r \in Attached : rcur[r] = NoPos => cur = 0

SerialInv ==
    \A r \in Attached : rcur[r] # NoPos => (rserial[r] + stored[r]) % SerialMod = serial

NumberedInv == CInv /\ NewcomersInv /\ SerialInv

LEMMA NewcomersStep == ASSUME CInv, NewcomersInv, [Next]_vars PROVE NewcomersInv'
<1> SUFFICES ASSUME NobodyJoins PROVE NewcomersInv'
  BY DEF NewcomersInv, NobodyJoins
<1>0. /\ rpc \in [Readers -> {"none", "coming", "idle", "retry", "held", "leaving", "gone"}]
      /\ rcur \in [Readers -> 0 .. BufLen \cup {NoPos}] /\ Attached \subseteq Readers
      /\ \A r \in Readers : rpc[r] \notin {"none", "coming"}
      /\ \A r \in Attached : rcur[r] = NoPos => cur = 0
      /\ cur \in 0 .. BufLen /\ 0 # NoPos
  BY AttachedReaders DEF NewcomersInv, CInv, IInv, TypeOK, NoPos
<1>1. \A r \in Readers : rpc'[r] \notin {"none", "coming"}
  <2>1. ASSUME NEW t \in Threads, WriterStep(t) PROVE UNCHANGED rpc
    BY <2>1 DEF WriterStep, LockWriter, ShareList, TakeOwnership, OwnershipTimeout, PassReader,
                WaitReader, DropFrame, ReaderTimeout, GrantTail, GrantHead, GrantReset, Granted,
                Commit, Cancel, Finished, RequestAgain, userVars
  <2>2. ASSUME NEW x \in Readers, ReaderStep(x)
        PROVE  \E p \in {"idle", "retry", "held"} : rpc' = [rpc EXCEPT ![x] = p]
    BY <2>2 DEF ReaderStep, Borrow, FollowRedirect, RetryTimeout, Release
  <2>3. ASSUME ManagerStep
        PROVE  \/ UNCHANGED rpc
               \/ \E x \in Readers, p \in {"leaving", "idle", "gone"} : rpc' = [rpc EXCEPT ![x] = p]
    BY <1>0, <2>3 DEF ManagerStep, BlockSharers, WantAdd, WantRemove, AddReader, RemoveReader,
                      CloneReader, userVars
  <2>4. CASE UNCHANGED vars
    BY <1>0, <2>4 DEF vars, userVars
  <2> QED
    BY <1>0, <2>1, <2>2, <2>3, <2>4 DEF Next
<1>2. \A r \in Attached' : rcur'[r] = NoPos => cur' = 0
  <2>1. CASE UNCHANGED ringVars
    BY <1>0, <2>1, SameList DEF ringVars
  <2>2. ASSUME NEW r \in Attached, Reads(r)
        PROVE  \A x \in Attached' : rcur'[x] = NoPos => cur' = 0
    <3>1. PICK h \in HeaderAt(rcur[r]) : Consume(r, h)
      BY <2>2 DEF Reads
    <3>2. NextPos(h) # NoPos /\ Attached' = Attached /\ cur' = cur
      BY <2>2, <3>1, UnderCursor, SameList DEF Reads
    <3> QED
      BY <1>0, <3>1, <3>2 DEF Consume
  <2>3. ASSUME NEW t \in Threads, Places(t) \/ Commit(t)
        PROVE  \A x \in Attached' : rcur'[x] = NoPos => cur' = 0
    <3>1. Attached' = Attached
      BY <2>3, SameList DEF Places, GrantTail, GrantHead, GrantReset, Granted, Commit, Finished
    <3>2. \/ UNCHANGED <<rcur, cur>> \/ cur' = 0 \/ AckReaders
      BY <2>3 DEF Places, GrantTail, GrantHead, GrantReset, Commit, readerVars
    <3>3. cur # NoPos
      BY <1>0, ChainTypes DEF NoPos
    <3> QED
      BY <1>0, <3>1, <3>2, <3>3 DEF AckReaders
  <2>4. ASSUME NEW x \in Readers, Relists(x)
        PROVE  \A r \in Attached' : rcur'[r] = NoPos => cur' = 0
    <3>1. RemoveReader(x)
      BY <1>0, <2>4 DEF Relists, AddReader, CloneReader
    <3>2. UNCHANGED cur
      BY <2>4, Joining
    <3>3. PICK d \in DOMAIN readers_ :
              /\ readers_[d] = x
              /\ readers_' = [j \in 1 .. Len(readers_) - 1 |->
                                 readers_[IF j < d THEN j ELSE j + 1]]
      BY <3>1 DEF RemoveReader
    <3>4. readers_ \in Seq(Readers) /\ ListInv
      BY DEF CInv, IInv, TypeOK
    <3>5. Attached' = Attached \ {x}
      BY <3>3, <3>4, ListShrunk DEF ListInv
    <3>6. rcur' = [rcur EXCEPT ![x] = NoPos]
      BY <3>1 DEF RemoveReader
    <3> QED
      BY <1>0, <3>2, <3>5, <3>6
  <2> QED
    BY <2>1, <2>2, <2>3, <2>4, StepKinds
<1> QED
  BY <1>1, <1>2 DEF NewcomersInv

\* No reader is still waiting for its first frame when the ring is reset.
LEMMA ResetLate ==
    ASSUME CInv, NewcomersInv, SerialsAgree, NEW t \in Threads, GrantReset(t), NEW r \in Attached
    PROVE  rcur[r] # NoPos
<1>1. AllClear(t) /\ NeedsReset(reserved[WriterOf[t]])
  BY DEF GrantReset
<1>2. PICK n \in Nat : n = reserved[WriterOf[t]] /\ n <= BufLen
  BY <1>1, AllPassed
<1>3. cur \in Int /\ cur >= 0
  BY ChainTypes, SizeAssumption
<1>4. cur + n > BufLen /\ n > cur /\ BufLen \in Int
  BY <1>1, <1>2, <1>3, SizeAssumption DEF NeedsReset, FitsTail, FitsHead
<1>5. ~NeverReset
  <2>1. len[t] \in FrameLens /\ n = FrameLen(len[t])
    BY <1>1, <1>2 DEF CInv, IInv, SizeInv, AllClear, Listing
  <2> QED
    BY <1>2, <1>3, <1>4, <2>1 DEF NeverReset
<1>6. cur # 0
  BY <1>2, <1>4
<1> QED
  BY <1>5, <1>6 DEF SerialsAgree, NewcomersInv

LEMMA SerialStep ==
    ASSUME NumberedInv, SerialsAgree, [Next]_vars
    PROVE  SerialInv'
<1>0. /\ CInv /\ NewcomersInv /\ SerialInv /\ Attached \subseteq Readers
      /\ rcur \in [Readers -> 0 .. BufLen \cup {NoPos}] /\ stored \in [Readers -> Nat]
      /\ rserial \in [Readers -> 0 .. SerialMod - 1] /\ serial \in 0 .. SerialMod - 1
      /\ \A r \in Readers : rserial[r] \in Nat /\ stored[r] \in Nat
      /\ serial \in Nat
  BY AttachedReaders, SizeAssumption DEF NumberedInv, CInv, IInv, TypeOK
<1>1. CASE UNCHANGED ringVars
  BY <1>0, <1>1, SameList DEF ringVars, SerialInv
<1>2. ASSUME NEW r \in Attached, Reads(r) PROVE SerialInv'
  <2>1. PICK h \in HeaderAt(rcur[r]) : Consume(r, h)
    BY <1>2 DEF Reads
  <2>2. /\ Attached' = Attached /\ serial' = serial /\ stored[r] > 0
        /\ rcur[r] # NoPos
    BY <1>0, <1>2, SameList DEF Reads, CInv, ListInv
  <2>3. /\ stored' = [stored EXCEPT ![r] = @ - 1]
        /\ rserial' = [rserial EXCEPT ![r] = (rserial[r] + 1) % SerialMod]
        /\ rcur' = [rcur EXCEPT ![r] = NextPos(h)]
    BY <2>1 DEF Consume, Inc
  <2>4. (rserial'[r] + stored'[r]) % SerialMod = serial
    <3>1. rserial[r] + 1 \in Nat /\ stored[r] - 1 \in Nat
      BY <1>0, <2>2
    <3>2. (((rserial[r] + 1) % SerialMod) + (stored[r] - 1)) % SerialMod
             = ((rserial[r] + 1) + (stored[r] - 1)) % SerialMod
      BY <3>1, CountOn
    <3>3. (rserial[r] + 1) + (stored[r] - 1) = rserial[r] + stored[r]
      BY <1>0
    <3>4. rserial'[r] = (rserial[r] + 1) % SerialMod /\ stored'[r] = stored[r] - 1
      BY <1>0, <2>3
    <3> QED
      BY <1>0, <2>2, <3>2, <3>3, <3>4 DEF SerialInv
  <2>5. \A x \in Attached : x # r => /\ rserial'[x] = rserial[x] /\ stored'[x] = stored[x]
                                     /\ rcur'[x] = rcur[x]
    BY <1>0, <2>3
  <2> QED
    BY <1>0, <2>2, <2>4, <2>5 DEF SerialInv
<1>3. ASSUME AckReaders, UNCHANGED readers_ PROVE SerialInv'
  <2>1. Attached' = Attached /\ serial' = (serial + 1) % SerialMod
    BY <1>3, SameList DEF AckReaders, Inc
  <2>2. ASSUME NEW r \in Attached PROVE (rserial'[r] + stored'[r]) % SerialMod = serial'
    <3>1. CASE rcur[r] = NoPos
      <4>1. rserial'[r] = serial /\ stored'[r] = stored[r] + 1 /\ stored[r] = 0
        BY <1>0, <1>3, <3>1 DEF AckReaders, CInv, ListInv
      <4> QED
        BY <1>0, <2>1, <4>1
    <3>2. CASE rcur[r] # NoPos
      <4>1. rserial'[r] = rserial[r] /\ stored'[r] = stored[r] + 1
        BY <1>0, <1>3, <3>2 DEF AckReaders
      <4>2. rserial[r] + stored[r] \in Nat
        BY <1>0
      <4>3. (((rserial[r] + stored[r]) % SerialMod) + 1) % SerialMod
               = ((rserial[r] + stored[r]) + 1) % SerialMod
        BY <4>2, CountOn
      <4>4. (rserial[r] + stored[r]) % SerialMod = serial
        BY <1>0, <3>2 DEF SerialInv
      <4>5. rserial[r] + (stored[r] + 1) = (rserial[r] + stored[r]) + 1
        BY <1>0
      <4> QED
        BY <2>1, <4>1, <4>3, <4>4, <4>5
    <3> QED
      BY <3>1, <3>2
  <2> QED
    BY <2>1, <2>2 DEF SerialInv
<1>4. ASSUME NEW t \in Threads, Places(t) \/ Commit(t) PROVE SerialInv'
  <2>1. UNCHANGED readers_ /\ Attached' = Attached
    BY <1>4, SameList DEF Places, GrantTail, GrantHead, GrantReset, Granted, Commit, Finished
  <2>2. CASE GrantTail(t)
    BY <1>0, <2>1, <2>2 DEF GrantTail, readerVars, SerialInv
  <2>3. CASE GrantReset(t)
    <3>1. UNCHANGED <<serial, rserial, stored>>
      BY <2>3 DEF GrantReset
    <3>2. \A r \in Attached : rcur[r] # NoPos
      BY <1>0, <2>3, ResetLate
    <3> QED
      BY <1>0, <2>1, <3>1, <3>2 DEF SerialInv
  <2>4. CASE GrantHead(t) \/ Commit(t)
    BY <1>0, <1>3, <2>1, <2>4, Redirecting DEF Commit
  <2> QED
    BY <1>4, <2>2, <2>3, <2>4 DEF Places
<1>5. ASSUME NEW x \in Readers, Relists(x) PROVE SerialInv'
  <2>1. UNCHANGED serial
    BY <1>0, <1>5, Joining
  <2>2. ASSUME NEW r \in Attached', rcur'[r] # NoPos
        PROVE  (rserial'[r] + stored'[r]) % SerialMod = serial
    <3>1. \/ r \in Attached /\ UNCHANGED <<rcur[r], stored[r], rserial[r]>>
          \/ \E src \in Attached : /\ rcur'[r] = rcur[src] /\ stored'[r] = stored[src]
                                   /\ rserial'[r] = rserial[src]
      BY <1>0, <1>5, <2>2, Joining
    <3> QED
      BY <1>0, <2>2, <3>1 DEF SerialInv
  <2> QED
    BY <2>1, <2>2 DEF SerialInv
<1> QED
  BY <1>0, <1>1, <1>2, <1>4, <1>5, StepKinds DEF NumberedInv

LEMMA NumberedInvariance == SerialsAgree => (Spec => []NumberedInv)
<1>1. Init => NumberedInv
  <2> SUFFICES ASSUME Init PROVE NumberedInv
    OBVIOUS
  <2>1. CInv
    BY InitCInv
  <2>2. /\ cur = 0 /\ readers_ = InitReaders /\ rcur = [r \in Readers |-> NoPos]
        /\ rpc = [r \in Readers |-> IF r \in Attached THEN "idle" ELSE "none"]
    BY DEF Init
  <2>3. Attached \subseteq Readers
    BY <2>1, ChainTypes
  <2>4. NobodyJoins => \A r \in Readers : r \in Attached
    BY <2>2 DEF NobodyJoins, Attached
  <2>5. NewcomersInv
    BY <2>2, <2>4 DEF NewcomersInv
  <2>6. SerialInv
    BY <2>2, <2>3 DEF SerialInv
  <2> QED
    BY <2>1, <2>5, <2>6 DEF NumberedInv
<1>2. SerialsAgree /\ NumberedInv /\ [Next]_vars => NumberedInv'
  BY NextCInv, NewcomersStep, SerialStep DEF NumberedInv
<1>3. ASSUME SerialsAgree PROVE Spec => []NumberedInv
  <2>1. NumberedInv /\ [Next]_vars => NumberedInv'
    BY <1>2, <1>3
  <2> QED
    BY <1>1, <2>1, PTL DEF Spec
<1> QED
  BY <1>3

\* The headers of a chain are numbered one after another, so the first has the
\* number that leads to the number of the next frame.
LEMMA ChainNumbers ==
    ASSUME NEW M, NEW c \in 0 .. BufLen, NEW s \in 0 .. SerialMod - 1, NEW p, NEW m \in Nat,
           NEW q, Chain(M, c, s, p, m, q), NEW a \in 0 .. SerialMod - 1,
           (a + m) % SerialMod = s
    PROVE  \A n \in 0 .. m : q[n + 1].serial = (a + n) % SerialMod
<1> DEFINE b == q[1].serial
           S == {n \in Nat : n <= m => q[n + 1].serial = (b + n) % SerialMod}
<1>1. b \in 0 .. SerialMod - 1 /\ b \in Nat
  <2>1. 1 \in 1 .. m + 1
    OBVIOUS
  <2>2. q[1] \in Headers
    BY <2>1 DEF Chain
  <2> QED
    BY <2>2, HeaderShape, SizeAssumption
<1> HIDE DEF b
<1>2. 0 \in S
  <2>1. q[0 + 1].serial = b
    BY DEF b
  <2>2. (b + 0) % SerialMod = b
    BY <1>1, SmallRemainder
  <2> QED
    BY <2>1, <2>2
<1>3. ASSUME NEW n \in Nat, n \in S PROVE n + 1 \in S
  <2>1. SUFFICES ASSUME n + 1 <= m PROVE q[n + 1 + 1].serial = (b + (n + 1)) % SerialMod
    OBVIOUS
  <2>2. n + 1 \in 1 .. m /\ b + n \in Nat
    BY <1>1, <2>1
  <2>3. q[n + 1 + 1].serial = (q[n + 1].serial + 1) % SerialMod
    BY <2>2 DEF Chain, Inc
  <2>4. q[n + 1].serial = (b + n) % SerialMod
    BY <1>3, <2>1
  <2>5. (((b + n) % SerialMod) + 1) % SerialMod = ((b + n) + 1) % SerialMod
    BY <2>2, CountOn
  <2>6. (b + n) + 1 = b + (n + 1)
    BY <1>1
  <2> QED
    BY <2>3, <2>4, <2>5, <2>6
<1> HIDE DEF S
<1>4. Nat \subseteq S
  BY <1>2, <1>3, Induction
<1>5. \A n \in 0 .. m : q[n + 1].serial = (b + n) % SerialMod
  BY <1>4 DEF S
<1>6. q[m + 1].serial = s
  BY ChainEnds
<1>7. (b + m) % SerialMod = s
  BY <1>5, <1>6
<1>8. a = b
  BY <1>1, <1>7, CountBack
<1> QED
  BY <1>5, <1>8

LEMMA NumbersFit ==
    ASSUME NumberedInv, NEW r \in Attached, rcur[r] # NoPos, NEW n \in 1 .. stored[r]
    PROVE  Unread(r)[n].serial = (rserial[r] + n - 1) % SerialMod
<1>1. /\ CInv /\ SerialInv /\ Attached \subseteq Readers /\ stored[r] \in Nat
      /\ serial \in 0 .. SerialMod - 1 /\ cur \in 0 .. BufLen
      /\ Leads(mem, cur, serial, From(r), stored[r])
  BY ChainTypes DEF NumberedInv
<1>2. PICK q : Chain(mem, cur, serial, From(r), stored[r], q)
  BY <1>1 DEF Leads
<1>3. PICK a \in 0 .. SerialMod - 1 : a = rserial[r]
  BY <1>1 DEF CInv, IInv, TypeOK
<1>4. (a + stored[r]) % SerialMod = serial
  BY <1>1, <1>3 DEF SerialInv
<1>5. \A k \in 0 .. stored[r] : q[k + 1].serial = (a + k) % SerialMod
  BY <1>1, <1>2, <1>4, ChainNumbers
<1>6. n - 1 \in 0 .. stored[r] /\ (n - 1) + 1 = n
  BY <1>1
<1>7. q[n].serial = (a + (n - 1)) % SerialMod
  BY <1>5, <1>6
<1>8. Unread(r)[n] = q[n]
  BY <1>1, <1>2, TrailOfChain
<1>9. a + (n - 1) = rserial[r] + n - 1
  BY <1>1, <1>3, SizeAssumption
<1> QED
  BY <1>7, <1>8, <1>9

\* Whatever wraps around and whoever reads, drops, joins or leaves: a reader
\* finds as many intact headers as it counts, and behind the last of them the
\* write cursor.
THEOREM CountsHold ==
    Spec => [](\A r \in Attached : rcur[r] # NoPos =>
                   /\ \A n \in 1 .. stored[r] : Unread(r)[n] # NoFrame
                   /\ Trail(r)[stored[r]] = cur)
<1>1. CInv => \A r \in Attached : rcur[r] # NoPos =>
                  /\ \A n \in 1 .. stored[r] : Unread(r)[n] # NoFrame
                  /\ Trail(r)[stored[r]] = cur
  BY UnreadChain
<1> QED
  BY <1>1, ChainInvariance, PTL

\* With the serial numbers it expects, if no reset of the ring meets a reader
\* that has had no frame yet.
THEOREM ChainsIntact == SerialsAgree => (Spec => []ChainIntact)
<1>1. NumberedInv => ChainIntact
  BY UnreadChain, NumbersFit DEF NumberedInv, ChainIntact
<1>2. ASSUME SerialsAgree PROVE Spec => []ChainIntact
  <2>1. Spec => []NumberedInv
    BY <1>2, NumberedInvariance
  <2> QED
    BY <1>1, <2>1, PTL
<1> QED
  BY <1>2

\* Then the assertion in request_frame (buffer.cpp:297) never fails.
THEOREM SerialsExpected == SerialsAgree => (Spec => []SerialExpected)
<1>1. NumberedInv => SerialExpected
  <2> SUFFICES ASSUME NumberedInv, NEW r \in Readers, rpc[r] \in {"idle", "retry"},
                      stored[r] > 0
               PROVE  Found[rcur[r]].serial = rserial[r]
    BY DEF SerialExpected
  <2>1. /\ CInv /\ r \in Attached /\ rcur[r] # NoPos
    BY DEF NumberedInv, CInv, ListInv
  <2>2. /\ stored[r] \in Nat \ {0} /\ cur \in 0 .. BufLen
        /\ rserial[r] \in 0 .. SerialMod - 1
        /\ Leads(mem, cur, serial, From(r), stored[r])
    BY <2>1, ChainTypes DEF CInv, IInv, TypeOK
  <2>3. PICK q : Chain(mem, cur, serial, From(r), stored[r], q)
    BY <2>2 DEF Leads
  <2>4. 1 \in 1 .. stored[r]
    BY <2>2
  <2>5. q[1] \in mem /\ q[1].pos = rcur[r]
    BY <2>1, <2>3, <2>4 DEF Chain, From
  <2>6. Found[rcur[r]] = q[1] /\ Unread(r)[1] = q[1]
    BY <2>1, <2>3, <2>4, <2>5, FoundThere, TrailOfChain
  <2>7. Unread(r)[1].serial = (rserial[r] + 1 - 1) % SerialMod
    BY <2>1, <2>4, NumbersFit
  <2>8. rserial[r] + 1 - 1 = rserial[r]
    BY <2>2, SizeAssumption
  <2>9. rserial[r] % SerialMod = rserial[r]
    BY <2>2, SmallRemainder
  <2> QED
    BY <2>6, <2>7, <2>8, <2>9
<1>2. ASSUME SerialsAgree PROVE Spec => []SerialExpected
  <2>1. Spec => []NumberedInv
    BY <1>2, NumberedInvariance
  <2> QED
    BY <1>1, <2>1, PTL
<1> QED
  BY <1>2

-----------------------------------------------------------------------------
(* The broadcast queue.                                                     *)

\* f[n] is what is data of the first n headers of q.
Filters(q, m, f) ==
    f = [n \in 0 .. m |->
            IF n = 0 THEN <<>>
            ELSE IF IsRedirect(q[n]) THEN f[n - 1] ELSE Append(f[n - 1], q[n])]

LEMMA FilterSteps ==
    ASSUME NEW q, NEW m \in Nat, NEW f, Filters(q, m, f)
    PROVE  /\ f[0] = <<>>
           /\ \A n \in 1 .. m :
                 f[n] = IF IsRedirect(q[n]) THEN f[n - 1] ELSE Append(f[n - 1], q[n])
<1> DEFINE g == [n \in 0 .. m |->
                    IF n = 0 THEN <<>>
                    ELSE IF IsRedirect(q[n]) THEN f[n - 1] ELSE Append(f[n - 1], q[n])]
<1>1. f = g
  BY DEF Filters
<1>2. g[0] = <<>>
  OBVIOUS
<1>3. \A n \in 1 .. m :
         g[n] = IF IsRedirect(q[n]) THEN f[n - 1] ELSE Append(f[n - 1], q[n])
  OBVIOUS
<1> HIDE DEF g
<1> QED
  BY <1>1, <1>2, <1>3

LEMMA FilterOneMore ==
    ASSUME NEW q, NEW k \in Nat, NEW f, Filters(q, k, f)
    PROVE  \E g : Filters(q, k + 1, g)
<1> DEFINE last == IF IsRedirect(q[k + 1]) THEN f[k] ELSE Append(f[k], q[k + 1])
           g == [n \in 0 .. k + 1 |-> IF n <= k THEN f[n] ELSE last]
           new(n) == IF n = 0 THEN <<>>
                     ELSE IF IsRedirect(q[n]) THEN g[n - 1] ELSE Append(g[n - 1], q[n])
<1>1. /\ f[0] = <<>>
      /\ \A n \in 1 .. k :
            f[n] = IF IsRedirect(q[n]) THEN f[n - 1] ELSE Append(f[n - 1], q[n])
  BY FilterSteps
<1>2. \A n \in 0 .. k : g[n] = f[n]
  OBVIOUS
<1>3. g[k + 1] = last
  OBVIOUS
<1>4. ASSUME NEW n \in 0 .. k + 1 PROVE g[n] = new(n)
  <2>1. CASE n = 0
    BY <1>1, <1>2, <2>1
  <2>2. CASE n \in 1 .. k
    <3>1. g[n] = f[n] /\ g[n - 1] = f[n - 1] /\ n # 0
      BY <1>2, <2>2
    <3> QED
      BY <1>1, <2>2, <3>1
  <2>3. CASE n = k + 1
    <3>1. k \in 0 .. k /\ n - 1 = k /\ n # 0
      BY <2>3
    <3> HIDE DEF g
    <3> QED
      BY <1>2, <1>3, <2>3, <3>1
  <2> QED
    BY <2>1, <2>2, <2>3
<1>5. g = [n \in 0 .. k + 1 |-> new(n)]
  <2>1. g = [n \in 0 .. k + 1 |-> g[n]]
    OBVIOUS
  <2> HIDE DEF g
  <2> QED
    BY <1>4, <2>1
<1> HIDE DEF g
<1> QED
  BY <1>5 DEF Filters

LEMMA FilterExists == \A q : \A m \in Nat : \E f : Filters(q, m, f)
<1> SUFFICES ASSUME NEW q PROVE \A m \in Nat : \E f : Filters(q, m, f)
  OBVIOUS
<1> DEFINE S == {m \in Nat : \E f : Filters(q, m, f)}
<1>1. 0 \in S
  <2>1. Filters(q, 0, [n \in 0 .. 0 |-> <<>>])
    BY DEF Filters
  <2> QED
    BY <2>1
<1>2. \A n \in Nat : n \in S => n + 1 \in S
  BY FilterOneMore
<1> HIDE DEF S
<1>3. Nat \subseteq S
  BY <1>1, <1>2, Induction
<1> QED
  BY <1>3 DEF S

LEMMA DataFilters == ASSUME NEW q, NEW m \in Nat PROVE \E f : Filters(q, m, f) /\ Data(q, m) = f[m]
<1> DEFINE upto == CHOOSE f : Filters(q, m, f)
<1>1. Filters(q, m, upto)
  BY FilterExists
<1>2. Data(q, m) = upto[m]
  BY DEF Data, Filters
<1> HIDE DEF upto
<1> QED
  BY <1>1, <1>2

\* Two lists that begin alike have the same data there.
LEMMA FiltersAgree ==
    ASSUME NEW q, NEW z, NEW m \in Nat, NEW l \in Nat, NEW f, Filters(q, m, f),
           NEW g, Filters(z, l, g), NEW k \in Nat, k <= m, k <= l,
           \A i \in 1 .. k : q[i] = z[i]
    PROVE  f[k] = g[k]
<1> DEFINE S == {n \in Nat : n <= k => f[n] = g[n]}
<1>1. 0 \in S
  BY FilterSteps
<1>2. ASSUME NEW n \in Nat, n \in S PROVE n + 1 \in S
  <2>1. SUFFICES ASSUME n + 1 <= k PROVE f[n + 1] = g[n + 1]
    OBVIOUS
  <2>2. PICK i \in 1 .. k : i = n + 1
    BY <2>1
  <2>3. i \in 1 .. m /\ i \in 1 .. l /\ i - 1 = n /\ q[i] = z[i]
    BY <2>2
  <2>4. f[n] = g[n]
    BY <1>2, <2>1
  <2>5. f[i] = g[i]
    BY <2>3, <2>4, FilterSteps
  <2> QED
    BY <2>2, <2>5
<1> HIDE DEF S
<1>3. Nat \subseteq S
  BY <1>1, <1>2, Induction
<1> QED
  BY <1>3 DEF S

LEMMA SameData ==
    ASSUME NEW q, NEW z, NEW m \in Nat, \A i \in 1 .. m : q[i] = z[i]
    PROVE  Data(q, m) = Data(z, m)
<1>1. PICK f : Filters(q, m, f) /\ Data(q, m) = f[m]
  BY DataFilters
<1>2. PICK g : Filters(z, m, g) /\ Data(z, m) = g[m]
  BY DataFilters
<1> QED
  BY <1>1, <1>2, FiltersAgree

LEMMA NoData == ASSUME NEW q PROVE Data(q, 0) = <<>>
BY DataFilters, FilterSteps

LEMMA DataAppended ==
    ASSUME NEW q, NEW m \in Nat
    PROVE  Data(q, m + 1) = IF IsRedirect(q[m + 1]) THEN Data(q, m)
                                                    ELSE Append(Data(q, m), q[m + 1])
<1>1. PICK f : Filters(q, m, f) /\ Data(q, m) = f[m]
  BY DataFilters
<1>2. PICK l \in Nat : l = m + 1
  OBVIOUS
<1>3. PICK g : Filters(q, l, g) /\ Data(q, l) = g[l]
  BY DataFilters
<1>4. l \in 1 .. l /\ l - 1 = m /\ m <= l
  BY <1>2
<1>5. g[l] = IF IsRedirect(q[l]) THEN g[m] ELSE Append(g[m], q[l])
  BY <1>3, <1>4, FilterSteps
<1>6. g[m] = f[m]
  BY <1>1, <1>3, <1>4, FiltersAgree
<1> QED
  BY <1>1, <1>2, <1>3, <1>5, <1>6

LEMMA DataType ==
    ASSUME NEW q, NEW m \in Nat, NEW X, \A i \in 1 .. m : q[i] \in X
    PROVE  Data(q, m) \in Seq(X)
<1> DEFINE S == {n \in Nat : n <= m => Data(q, n) \in Seq(X)}
<1>1. 0 \in S
  BY NoData, EmptySeq
<1>2. ASSUME NEW n \in Nat, n \in S PROVE n + 1 \in S
  <2>1. SUFFICES ASSUME n + 1 <= m PROVE Data(q, n + 1) \in Seq(X)
    OBVIOUS
  <2>2. Data(q, n) \in Seq(X) /\ q[n + 1] \in X
    BY <1>2, <2>1
  <2>3. Append(Data(q, n), q[n + 1]) \in Seq(X)
    BY <2>2, AppendProperties
  <2> QED
    BY <2>2, <2>3, DataAppended
<1> HIDE DEF S
<1>3. Nat \subseteq S
  BY <1>1, <1>2, Induction
<1> QED
  BY <1>3 DEF S

\* Without the first header the data lack that one, if it was data.
LEMMA DataConsumed ==
    ASSUME NEW q, NEW m \in Nat \ {0}, NEW X, \A i \in 1 .. m : q[i] \in X,
           NEW z, \A i \in 1 .. m - 1 : z[i] = q[i + 1]
    PROVE  /\ IsRedirect(q[1]) => Data(q, m) = Data(z, m - 1)
           /\ ~IsRedirect(q[1]) => /\ Data(q, m) # <<>>
                                   /\ Head(Data(q, m)) = q[1]
                                   /\ Tail(Data(q, m)) = Data(z, m - 1)
<1> DEFINE Shifted(n) ==
              /\ IsRedirect(q[1]) => Data(q, n + 1) = Data(z, n)
              /\ ~IsRedirect(q[1]) => /\ Data(q, n + 1) # <<>>
                                      /\ Head(Data(q, n + 1)) = q[1]
                                      /\ Tail(Data(q, n + 1)) = Data(z, n)
           S == {n \in Nat : n <= m - 1 => Shifted(n)}
<1>1. 0 \in S
  <2>1. Data(q, 0) = <<>> /\ Data(z, 0) = <<>>
    BY NoData
  <2>2. Data(q, 0 + 1) = IF IsRedirect(q[0 + 1]) THEN Data(q, 0) ELSE Append(Data(q, 0), q[0 + 1])
    BY DataAppended
  <2>3. 0 + 1 = 1 /\ <<>> \in Seq(X) /\ q[1] \in X
    OBVIOUS
  <2>4. /\ Append(<<>>, q[1]) # <<>> /\ Head(Append(<<>>, q[1])) = q[1]
        /\ Tail(Append(<<>>, q[1])) = <<>>
    BY <2>3, AppendProperties, HeadTailAppend
  <2>5. Shifted(0)
    BY <2>1, <2>2, <2>3, <2>4
  <2> QED
    BY <2>5
<1>2. ASSUME NEW n \in Nat, n \in S PROVE n + 1 \in S
  <2>1. SUFFICES ASSUME n + 1 <= m - 1 PROVE Shifted(n + 1)
    OBVIOUS
  <2>2. PICK k \in 1 .. m - 1 : k = n + 1
    BY <2>1
  <2>3. /\ z[k] = q[k + 1] /\ q[k + 1] \in X /\ k \in Nat /\ k <= m
    BY <2>2
  <2>4. Data(q, k) \in Seq(X)
    BY <2>3, DataType
  <2>5. Data(q, k + 1) = IF IsRedirect(q[k + 1]) THEN Data(q, k) ELSE Append(Data(q, k), q[k + 1])
    BY <2>3, DataAppended
  <2>6. Data(z, k) = IF IsRedirect(z[k]) THEN Data(z, n) ELSE Append(Data(z, n), z[k])
    BY <2>2, DataAppended
  <2>7. /\ IsRedirect(q[1]) => Data(q, k) = Data(z, n)
        /\ ~IsRedirect(q[1]) => /\ Data(q, k) # <<>>
                                /\ Head(Data(q, k)) = q[1]
                                /\ Tail(Data(q, k)) = Data(z, n)
    BY <1>2, <2>1, <2>2
  <2>8. Data(q, k) # <<>> => /\ Append(Data(q, k), q[k + 1]) # <<>>
                             /\ Head(Append(Data(q, k), q[k + 1])) = Head(Data(q, k))
                             /\ Tail(Append(Data(q, k), q[k + 1]))
                                   = Append(Tail(Data(q, k)), q[k + 1])
    BY <2>3, <2>4, AppendProperties, HeadTailAppend
  <2>9. Shifted(k)
    BY <2>3, <2>5, <2>6, <2>7, <2>8
  <2> HIDE DEF Shifted
  <2> QED
    BY <2>2, <2>9
<1> HIDE DEF S
<1>3. Nat \subseteq S
  BY <1>1, <1>2, Induction
<1>4. m - 1 \in Nat /\ m - 1 + 1 = m
  OBVIOUS
<1>5. PICK k \in Nat : k = m - 1
  BY <1>4
<1> HIDE DEF Shifted
<1>6. Shifted(k)
  BY <1>3, <1>5 DEF S
<1> QED
  BY <1>4, <1>5, <1>6 DEF Shifted

\* What the users are given.
Payloads(s) == [n \in DOMAIN s |-> Payload(s[n])]

LEMMA PayloadsNone == Payloads(<<>>) = <<>>
BY DEF Payloads

LEMMA PayloadsAppended ==
    ASSUME NEW X, NEW s \in Seq(X), NEW h \in X
    PROVE  Payloads(Append(s, h)) = Append(Payloads(s), Payload(h))
<1> DEFINE P == {Payload(x) : x \in X}
<1>1. /\ Len(s) \in Nat /\ DOMAIN s = 1 .. Len(s) /\ \A i \in 1 .. Len(s) : s[i] \in X
  BY LenProperties, ElementOfSeq
<1>2. Payloads(s) \in [1 .. Len(s) -> P]
  BY <1>1 DEF Payloads
<1>3. Payloads(s) \in Seq(P) /\ Len(Payloads(s)) = Len(s)
  BY <1>1, <1>2, IsASeq
<1>4. /\ Append(s, h) \in Seq(X) /\ Len(Append(s, h)) = Len(s) + 1
      /\ \A i \in 1 .. Len(s) : Append(s, h)[i] = s[i]
      /\ Append(s, h)[Len(s) + 1] = h
      /\ DOMAIN Append(s, h) = 1 .. Len(s) + 1
  BY AppendProperties, LenProperties
<1>5. Payload(h) \in P
  OBVIOUS
<1> HIDE DEF P
<1>6. /\ Append(Payloads(s), Payload(h)) \in Seq(P)
      /\ Len(Append(Payloads(s), Payload(h))) = Len(s) + 1
      /\ \A i \in 1 .. Len(s) : Append(Payloads(s), Payload(h))[i] = Payloads(s)[i]
      /\ Append(Payloads(s), Payload(h))[Len(s) + 1] = Payload(h)
  BY <1>3, <1>5, AppendProperties
<1>7. Append(Payloads(s), Payload(h)) = [i \in 1 .. Len(s) + 1 |-> Append(Payloads(s), Payload(h))[i]]
  BY <1>6, LenProperties
<1>8. Payloads(Append(s, h)) = [i \in 1 .. Len(s) + 1 |-> Payload(Append(s, h)[i])]
  BY <1>4 DEF Payloads
<1>9. ASSUME NEW i \in 1 .. Len(s) + 1
      PROVE  Payload(Append(s, h)[i]) = Append(Payloads(s), Payload(h))[i]
  <2>1. CASE i = Len(s) + 1
    BY <1>4, <1>6, <2>1
  <2>2. CASE i \in 1 .. Len(s)
    <3>1. Payloads(s)[i] = Payload(s[i])
      BY <1>1, <2>2 DEF Payloads
    <3> QED
      BY <1>4, <1>6, <2>2, <3>1
  <2>3. i = Len(s) + 1 \/ i \in 1 .. Len(s)
    BY <1>1
  <2> QED
    BY <2>1, <2>2, <2>3
<1> QED
  BY <1>7, <1>8, <1>9

LEMMA PayloadsConsumed ==
    ASSUME NEW X, NEW s \in Seq(X), s # <<>>
    PROVE  /\ Payloads(s) # <<>> /\ Head(Payloads(s)) = Payload(Head(s))
           /\ Tail(Payloads(s)) = Payloads(Tail(s))
<1> DEFINE P == {Payload(x) : x \in X}
<1>1. /\ Len(s) \in Nat \ {0} /\ DOMAIN s = 1 .. Len(s) /\ \A i \in 1 .. Len(s) : s[i] \in X
  BY LenProperties, ElementOfSeq, EmptySeq
<1>2. Payloads(s) \in [1 .. Len(s) -> P]
  BY <1>1 DEF Payloads
<1>3. Payloads(s) \in Seq(P) /\ Len(Payloads(s)) = Len(s) /\ Payloads(s) # <<>>
  BY <1>1, <1>2, IsASeq, EmptySeq
<1>4. \A i \in 1 .. Len(s) : Payloads(s)[i] = Payload(s[i])
  BY <1>1 DEF Payloads
<1>5. Head(s) = s[1] /\ Head(Payloads(s)) = Payloads(s)[1]
  BY <1>1, <1>3
<1>6. /\ Tail(s) \in Seq(X) /\ Len(Tail(s)) = Len(s) - 1
      /\ \A i \in 1 .. Len(s) - 1 : Tail(s)[i] = s[i + 1]
      /\ DOMAIN Tail(s) = 1 .. Len(s) - 1
  BY HeadTailProperties, LenProperties
<1> HIDE DEF P
<1>7. /\ Tail(Payloads(s)) \in Seq(P) /\ Len(Tail(Payloads(s))) = Len(s) - 1
      /\ \A i \in 1 .. Len(s) - 1 : Tail(Payloads(s))[i] = Payloads(s)[i + 1]
  BY <1>3, HeadTailProperties
<1>8. Tail(Payloads(s)) = [i \in 1 .. Len(s) - 1 |-> Tail(Payloads(s))[i]]
  BY <1>7, LenProperties
<1>9. Payloads(Tail(s)) = [i \in 1 .. Len(s) - 1 |-> Payload(Tail(s)[i])]
  BY <1>6 DEF Payloads
<1>10. ASSUME NEW i \in 1 .. Len(s) - 1 PROVE Payload(Tail(s)[i]) = Tail(Payloads(s))[i]
  <2>1. i + 1 \in 1 .. Len(s)
    BY <1>1
  <2> QED
    BY <1>4, <1>6, <1>7, <2>1
<1> QED
  BY <1>1, <1>3, <1>4, <1>5, <1>8, <1>9, <1>10
-----------------------------------------------------------------------------

\* What the queue holds for a reader.
Waits(r) == IF r \in Attached /\ rcur[r] # NoPos THEN PayloadsUnread(r) ELSE <<>>

\* It is the data of the chain.
WaitsForData ==
    \A r \in Attached : \A q :
        Chain(mem, cur, serial, From(r), stored[r], q)
           => Waits(r) = Payloads(Data(q, stored[r]))

LEMMA WaitsChain == CInv => WaitsForData
<1> SUFFICES ASSUME CInv, NEW r \in Attached,
                    NEW q, Chain(mem, cur, serial, From(r), stored[r], q)
             PROVE  Waits(r) = Payloads(Data(q, stored[r]))
  BY DEF WaitsForData
<1>1. stored[r] \in Nat
  BY ChainTypes
<1>2. CASE rcur[r] = NoPos
  <2>1. stored[r] = 0
    BY <1>2, ChainTypes DEF CInv, ListInv
  <2> QED
    BY <1>2, <2>1, NoData, PayloadsNone DEF Waits
<1>3. CASE rcur[r] # NoPos
  <2>1. \A n \in 1 .. stored[r] : Unread(r)[n] = q[n]
    BY <1>3, TrailOfChain
  <2>2. Data(Unread(r), stored[r]) = Data(q, stored[r])
    BY <1>1, <2>1, SameData
  <2> QED
    BY <1>3, <2>2 DEF Waits, PayloadsUnread, DataUnread, Payloads
<1> QED
  BY <1>2, <1>3

LEMMA WaitsChainNext == CInv' => WaitsForData'
BY WaitsChain, PTL

\* Two chains from one place pass the same headers as long as what is written in
\* between stays out of the first.
LEMMA SameChain ==
    ASSUME NEW M, HeadersApart(M), NEW c \in 0 .. BufLen, NEW s, NEW p, NEW m \in Nat, NEW q,
           Chain(M, c, s, p, m, q), \A i \in 1 .. m : q[i].pos # c,
           NEW g, g.pos = c, NEW N, N \subseteq M \cup {g},
           NEW d, NEW t, NEW l \in Nat, m <= l, NEW z, Chain(N, d, t, p, l, z)
    PROVE  /\ \A i \in 1 .. m : z[i] = q[i]
           /\ z[m + 1].pos = c
<1>1. ASSUME NEW i \in 1 .. m, z[i].pos = q[i].pos
      PROVE  z[i] = q[i] /\ z[i + 1].pos = q[i + 1].pos
  <2>1. i \in 1 .. l
    OBVIOUS
  <2>2. q[i] \in M /\ q[i].pos \in Int
    BY ChainParts
  <2>3. q[i + 1].pos = NextPos(q[i])
    BY DEF Chain
  <2>4. z[i] \in N /\ z[i + 1].pos = NextPos(z[i])
    BY <2>1 DEF Chain
  <2>5. z[i] \in M
    BY <1>1, <2>4
  <2>6. z[i] = q[i]
    BY <1>1, <2>2, <2>5 DEF HeadersApart, HdrLen
  <2> QED
    BY <2>3, <2>4, <2>6
<1> DEFINE S == {n \in Nat : n <= m => z[n + 1].pos = q[n + 1].pos}
<1>2. 0 \in S
  BY DEF Chain
<1>3. ASSUME NEW n \in Nat, n \in S PROVE n + 1 \in S
  <2>1. SUFFICES ASSUME n + 1 <= m PROVE z[n + 1 + 1].pos = q[n + 1 + 1].pos
    OBVIOUS
  <2>2. PICK i \in 1 .. m : i = n + 1
    BY <2>1
  <2>3. z[i].pos = q[i].pos
    BY <1>3, <2>2
  <2>4. z[i + 1].pos = q[i + 1].pos
    BY <1>1, <2>3
  <2> QED
    BY <2>2, <2>4
<1> HIDE DEF S
<1>4. Nat \subseteq S
  BY <1>2, <1>3, Induction
<1>5. ASSUME NEW i \in 1 .. m PROVE z[i] = q[i]
  <2>1. PICK n \in Nat : n + 1 = i
    <3>1. i - 1 \in Nat /\ (i - 1) + 1 = i
      OBVIOUS
    <3> QED
      BY <3>1
  <2>2. z[i].pos = q[i].pos
    BY <1>4, <2>1 DEF S
  <2> QED
    BY <1>1, <2>2
<1>6. z[m + 1].pos = q[m + 1].pos
  BY <1>4 DEF S
<1>7. q[m + 1].pos = c
  BY ChainEnds
<1> QED
  BY <1>5, <1>6, <1>7

\* No header of a chain is where the next one will be written.
LEMMA ComingApart ==
    ASSUME NEW M, NEW c \in 0 .. BufLen, NEW s, NEW p, NEW m \in Nat, NEW q,
           NEW k \in 2 .. m + 2, Chain(M, c, s, p, m, q), Laid(m, q, k),
           Room(c, HdrLen, p, m), NEW i \in 1 .. m
    PROVE  q[i].pos # c
<1>1. Disjoint(c, c + HdrLen, q[i])
  BY RegionFree DEF HdrLen
<1>2. q[i].pos \in Int /\ TotalLen(q[i]) \in Nat /\ TotalLen(q[i]) > 0
  BY ChainParts
<1> QED
  BY <1>1, <1>2 DEF Disjoint, HdrLen

\* What waits for a reader, before and after a step.

LEMMA WaitsSame ==
    ASSUME CInv, CInv', UNCHANGED <<cur, serial, mem>>, NEW x \in Attached, NEW y \in Attached',
           From(y)' = From(x), stored'[y] = stored[x]
    PROVE  Waits(y)' = Waits(x)
<1>1. PICK q : Chain(mem, cur, serial, From(x), stored[x], q)
  BY ChainTypes DEF Leads
<1>2. Waits(x) = Payloads(Data(q, stored[x]))
  BY <1>1, WaitsChain DEF WaitsForData
<1>3. Waits(y)' = Payloads(Data(q, stored'[y]))
  BY <1>1, WaitsChainNext DEF WaitsForData
<1> QED
  BY <1>2, <1>3

LEMMA WaitsFirst ==
    ASSUME CInv, NEW r \in Attached, stored[r] > 0, NEW h \in HeaderAt(rcur[r]), ~IsRedirect(h)
    PROVE  Waits(r) # <<>> /\ Head(Waits(r)) = Payload(h)
<1>1. PICK q : Chain(mem, cur, serial, From(r), stored[r], q)
  BY ChainTypes DEF Leads
<1>2. /\ h \in mem /\ h.pos = From(r) /\ From(r) \in Int /\ stored[r] \in Nat \ {0}
      /\ HeadersApart(mem)
  BY UnderCursor, ChainTypes
<1>3. 1 \in 1 .. stored[r]
  BY <1>2
<1>4. q[1] = h
  <2>1. q[1] \in mem /\ q[1].pos = From(r)
    BY <1>1, <1>3 DEF Chain
  <2> QED
    BY <1>2, <2>1 DEF HeadersApart, HdrLen
<1>5. \A i \in 1 .. stored[r] : q[i] \in Headers
  BY <1>1, <1>2, ChainParts
<1>6. Data(q, stored[r]) \in Seq(Headers)
  BY <1>2, <1>5, DataType
<1>7. Data(q, stored[r]) # <<>> /\ Head(Data(q, stored[r])) = h
  <2>1. PICK z : z = [i \in 1 .. stored[r] |-> q[i + 1]]
    OBVIOUS
  <2>2. \A i \in 1 .. stored[r] - 1 : z[i] = q[i + 1]
    BY <1>2, <2>1
  <2> QED
    BY <1>2, <1>4, <1>5, <2>2, DataConsumed
<1> QED
  BY <1>1, <1>6, <1>7, PayloadsConsumed, WaitsChain DEF WaitsForData

LEMMA WaitsRead ==
    ASSUME CInv, CInv', NEW r \in Attached, r \in Attached', stored[r] > 0,
           NEW h \in HeaderAt(rcur[r]), Consume(r, h), UNCHANGED <<cur, serial, mem>>
    PROVE  Waits(r)' = IF IsRedirect(h) THEN Waits(r) ELSE Tail(Waits(r))
<1>1. PICK q : Chain(mem, cur, serial, From(r), stored[r], q)
  BY ChainTypes DEF Leads
<1>2. /\ h \in mem /\ h.pos = From(r) /\ From(r) \in Int /\ stored[r] \in Nat \ {0}
      /\ HeadersApart(mem) /\ NextPos(h) # NoPos /\ cur \in 0 .. BufLen
  BY UnderCursor, ChainTypes
<1>3. 1 \in 1 .. stored[r]
  BY <1>2
<1>4. q[1] = h
  <2>1. q[1] \in mem /\ q[1].pos = From(r)
    BY <1>1, <1>3 DEF Chain
  <2> QED
    BY <1>2, <2>1 DEF HeadersApart, HdrLen
<1>5. PICK z : z = [i \in 1 .. stored[r] |-> q[i + 1]]
  OBVIOUS
<1>6. Chain(mem, cur, serial, NextPos(h), stored[r] - 1, z)
  BY <1>1, <1>2, <1>4, <1>5, ChainConsumed
<1>7. From(r)' = NextPos(h) /\ stored'[r] = stored[r] - 1
  <2>1. /\ rcur \in [Readers -> 0 .. BufLen \cup {NoPos}] /\ stored \in [Readers -> Nat]
        /\ r \in Readers
    BY AttachedReaders DEF CInv, IInv, TypeOK
  <2>2. rcur'[r] = NextPos(h) /\ stored'[r] = stored[r] - 1
    BY <2>1 DEF Consume
  <2> QED
    BY <1>2, <2>2 DEF From
<1>8. Waits(r)' = Payloads(Data(z, stored[r] - 1))
  BY <1>6, <1>7, WaitsChainNext DEF WaitsForData
<1>9. Waits(r) = Payloads(Data(q, stored[r]))
  BY <1>1, WaitsChain DEF WaitsForData
<1>10. \A i \in 1 .. stored[r] : q[i] \in Headers
  BY <1>1, <1>2, ChainParts
<1>11. Data(q, stored[r]) \in Seq(Headers)
  BY <1>2, <1>10, DataType
<1>12. \A i \in 1 .. stored[r] - 1 : z[i] = q[i + 1]
  BY <1>2, <1>5
<1>13. /\ IsRedirect(h) => Data(q, stored[r]) = Data(z, stored[r] - 1)
       /\ ~IsRedirect(h) => /\ Data(q, stored[r]) # <<>>
                            /\ Tail(Data(q, stored[r])) = Data(z, stored[r] - 1)
  BY <1>2, <1>4, <1>10, <1>12, DataConsumed
<1> QED
  BY <1>8, <1>9, <1>11, <1>13, PayloadsConsumed

LEMMA WaitsWritten ==
    ASSUME CInv, CInv', NEW r \in Attached, r \in Attached', From(r)' = From(r),
           Room(cur, HdrLen, From(r), stored[r]),
           NEW g, g.pos = cur, mem' \subseteq mem \cup {g}
    PROVE  /\ stored'[r] = stored[r] => Waits(r)' = Waits(r)
           /\ stored'[r] = stored[r] + 1 /\ g \in mem' =>
                 Waits(r)' = IF IsRedirect(g) THEN Waits(r) ELSE Append(Waits(r), Payload(g))
<1>0. PICK m \in Nat : m = stored[r]
  BY ChainTypes
<1>1. PICK q : /\ Chain(mem, cur, serial, From(r), m, q)
               /\ \E k \in 2 .. m + 2 : Laid(m, q, k)
  BY <1>0, ChainTypes DEF Leads
<1>2. /\ HeadersApart(mem) /\ cur \in 0 .. BufLen /\ cur \in Int /\ mem \subseteq Headers
  BY ChainTypes
<1>3. \A i \in 1 .. m : q[i].pos # cur
  BY <1>0, <1>1, <1>2, ComingApart
<1>4. stored'[r] \in Nat /\ HeadersApart(mem') /\ mem' \subseteq Headers
      /\ Leads(mem', cur', serial', From(r)', stored'[r])
  <2>1. r \in Readers
    BY AttachedReaders DEF CInv, IInv, TypeOK
  <2> QED
    BY <2>1 DEF CInv, ChainInv, IInv, TypeOK
<1>5. PICK l \in Nat : l = stored'[r]
  BY <1>4
<1>6. PICK z : Chain(mem', cur', serial', From(r), l, z)
  BY <1>4, <1>5 DEF Leads
<1>7. SUFFICES ASSUME l = m \/ l = m + 1
               PROVE  /\ l = m => Waits(r)' = Waits(r)
                      /\ l = m + 1 /\ g \in mem' =>
                           Waits(r)' = IF IsRedirect(g) THEN Waits(r)
                                                       ELSE Append(Waits(r), Payload(g))
  BY <1>0, <1>5
<1>8. (\A i \in 1 .. m : z[i] = q[i]) /\ z[m + 1].pos = cur
  BY <1>1, <1>2, <1>3, <1>6, <1>7, SameChain
<1>9. Waits(r) = Payloads(Data(q, m)) /\ Waits(r)' = Payloads(Data(z, l))
  BY <1>0, <1>1, <1>5, <1>6, WaitsChain, WaitsChainNext DEF WaitsForData
<1>10. Data(z, m) = Data(q, m)
  BY <1>8, SameData
<1>11. ASSUME l = m + 1, g \in mem'
       PROVE  Waits(r)' = IF IsRedirect(g) THEN Waits(r) ELSE Append(Waits(r), Payload(g))
  <2>1. m + 1 \in 1 .. l
    BY <1>11
  <2>2. z[m + 1] \in mem'
    BY <1>6, <2>1 DEF Chain
  <2>3. z[m + 1] = g
    BY <1>2, <1>4, <1>8, <1>11, <2>2 DEF HeadersApart, HdrLen
  <2>4. Data(z, m + 1) = IF IsRedirect(g) THEN Data(q, m) ELSE Append(Data(q, m), g)
    BY <1>10, <2>3, DataAppended
  <2>5. Data(q, m) \in Seq(Headers) /\ g \in Headers
    <3>1. \A i \in 1 .. m : q[i] \in Headers
      BY <1>1, <1>2, ChainParts
    <3> QED
      BY <1>4, <1>11, <3>1, DataType
  <2> QED
    BY <1>9, <1>11, <2>4, <2>5, PayloadsAppended
<1> QED
  BY <1>9, <1>10, <1>11

-----------------------------------------------------------------------------
(* The steps of the queue.                                                  *)

\* What Queue is given for its queue and for its lent.
Holds == [r \in Readers |-> IF r \in Attached /\ rcur[r] # NoPos
                            THEN PayloadsUnread(r) ELSE <<>>]
Lent == [r \in Readers |-> Payload(frm[r])]

\* A user has a frame of data from request_frame to release, and at no other time.
LentInv ==
    \A r \in Readers : /\ rpc[r] = "held" => ~IsRedirect(frm[r])
                       /\ rpc[r] # "held" => frm[r] = NoFrame

QueueInv == UserInv /\ LentInv

LEMMA HoldsWaits ==
    /\ Holds = [r \in Readers |-> Waits(r)]
    /\ \A r \in Readers : r \notin Attached \/ rcur[r] = NoPos => Waits(r) = <<>>
BY DEF Holds, Waits

LEMMA HoldsWaitsNext ==
    /\ Holds' = [r \in Readers |-> Waits(r)']
    /\ \A r \in Readers : r \notin Attached' \/ rcur'[r] = NoPos => Waits(r)' = <<>>
BY DEF Holds, Waits

LEMMA HoldsSame ==
    ASSUME CInv, CInv', Attached' = Attached, \A r \in Attached : Waits(r)' = Waits(r)
    PROVE  Holds' = Holds
<1>1. \A r \in Readers : Waits(r)' = Waits(r)
  BY HoldsWaits, HoldsWaitsNext
<1> QED
  BY <1>1, HoldsWaits, HoldsWaitsNext

LEMMA RingSame ==
    ASSUME CInv, CInv', UNCHANGED ringVars
    PROVE  Attached' = Attached /\ Holds' = Holds
<1>1. UNCHANGED <<cur, serial, mem, readers_, rcur, stored>>
  BY DEF ringVars
<1>2. Attached' = Attached
  BY <1>1, SameList
<1>3. \A r \in Attached : From(r)' = From(r) /\ stored'[r] = stored[r]
  BY <1>1 DEF From
<1>4. \A r \in Attached : Waits(r)' = Waits(r)
  BY <1>1, <1>2, <1>3, WaitsSame
<1> QED
  BY <1>2, <1>4, HoldsSame

LEMMA HoldsRead ==
    ASSUME CInv, CInv', NEW r \in Attached, stored[r] > 0, NEW h \in HeaderAt(rcur[r]),
           Consume(r, h), UNCHANGED <<cur, serial, mem, readers_>>
    PROVE  /\ Attached' = Attached
           /\ IsRedirect(h) => Holds' = Holds
           /\ ~IsRedirect(h) => /\ Holds' = [Holds EXCEPT ![r] = Tail(@)]
                                /\ Holds[r] # <<>> /\ Head(Holds[r]) = Payload(h)
<1>1. Attached' = Attached /\ Attached \subseteq Readers
  BY SameList, ChainTypes
<1>2. Waits(r)' = IF IsRedirect(h) THEN Waits(r) ELSE Tail(Waits(r))
  BY <1>1, WaitsRead
<1>3. ASSUME NEW x \in Attached, x # r PROVE Waits(x)' = Waits(x)
  <2>1. rcur'[x] = rcur[x] /\ stored'[x] = stored[x]
    BY <1>1, <1>3 DEF Consume, CInv, IInv, TypeOK
  <2>2. From(x)' = From(x)
    BY <2>1 DEF From
  <2> QED
    BY <1>1, <2>1, <2>2, WaitsSame
<1>4. IsRedirect(h) => Holds' = Holds
  BY <1>1, <1>2, <1>3, HoldsSame
<1>5. ASSUME ~IsRedirect(h)
      PROVE  /\ Holds' = [Holds EXCEPT ![r] = Tail(@)]
             /\ Holds[r] # <<>> /\ Head(Holds[r]) = Payload(h)
  <2>1. \A x \in Readers : Waits(x)' = IF x = r THEN Tail(Waits(x)) ELSE Waits(x)
    BY <1>1, <1>2, <1>3, <1>5, HoldsWaits, HoldsWaitsNext
  <2>2. Waits(r) # <<>> /\ Head(Waits(r)) = Payload(h)
    BY <1>5, WaitsFirst
  <2> QED
    BY <1>1, <2>1, <2>2, HoldsWaits, HoldsWaitsNext
<1> QED
  BY <1>1, <1>4, <1>5

LEMMA HoldsPlaced ==
    ASSUME CInv, CInv', NEW t \in Threads, Places(t)
    PROVE  Attached' = Attached /\ Holds' = Holds
<1>1. /\ cur \in 0 .. BufLen /\ cur \in Int /\ mem \subseteq Headers /\ Attached \subseteq Readers
      /\ \A r \in Attached : From(r) \in Int /\ stored[r] \in Nat
  BY ChainTypes
<1>2. readers_' = readers_ /\ AllClear(t)
  BY DEF Places, GrantTail, GrantHead, GrantReset, Granted
<1>3. Attached' = Attached
  BY <1>2, SameList
<1>4. PICK n \in Nat : /\ n = reserved[WriterOf[t]] /\ HdrLen <= n
                       /\ \A r \in Attached : Clear(r, n)
  BY <1>2, AllPassed
<1>5. CASE GrantReset(t)
  <2>1. \A r \in Attached : stored[r] = 0 /\ stored'[r] = 0
    BY <1>4, <1>5, ClearMeans DEF GrantReset
  <2>2. ASSUME NEW r \in Attached PROVE Waits(r)' = Waits(r)
    <3>1. PICK q : Chain(mem, cur, serial, From(r), stored[r], q)
      BY ChainTypes DEF Leads
    <3>2. Leads(mem', cur', serial', From(r)', stored'[r])
      BY <1>3 DEF CInv, ChainInv
    <3>3. PICK z : Chain(mem', cur', serial', From(r)', stored'[r], z)
      BY <3>2 DEF Leads
    <3>4. Waits(r) = Payloads(Data(q, 0)) /\ Waits(r)' = Payloads(Data(z, 0))
      BY <1>3, <2>1, <3>1, <3>3, WaitsChain, WaitsChainNext DEF WaitsForData
    <3> QED
      BY <3>4, NoData
  <2> QED
    BY <1>3, <2>2, HoldsSame
<1>6. CASE GrantTail(t)
  <2>1. mem' \subseteq mem /\ UNCHANGED <<cur, rcur, stored>>
    BY <1>6, OverwriteShrinks DEF GrantTail, readerVars
  <2>2. ASSUME NEW r \in Attached PROVE Waits(r)' = Waits(r)
    <3>1. From(r)' = From(r) /\ stored'[r] = stored[r]
      BY <2>1 DEF From
    <3>2. Room(cur, HdrLen, From(r), stored[r])
      <4>1. Room(cur, n, From(r), stored[r])
        BY <1>4, <1>6, ClearMeans DEF GrantTail
      <4> QED
        BY <1>1, <1>4, <4>1 DEF Room, HdrLen
    <3>3. PICK g : g = Coming(cur, serial)
      OBVIOUS
    <3>4. g.pos = cur /\ mem' \subseteq mem \cup {g}
      BY <2>1, <3>3 DEF Coming
    <3> QED
      BY <1>3, <3>1, <3>2, <3>4, WaitsWritten
  <2> QED
    BY <1>3, <2>2, HoldsSame
<1>7. CASE GrantHead(t)
  <2>1. PICK g : g = Coming(cur, serial)
    OBVIOUS
  <2>2. g.pos = cur /\ IsRedirect(g) /\ g.pos + HdrLen > n
    <3>1. n <= cur
      BY <1>4, <1>7 DEF GrantHead, FitsHead
    <3> QED
      BY <1>1, <1>4, <2>1, <3>1 DEF Coming, IsRedirect, HdrLen
  <2>3. /\ mem' = Overwrite(Overwrite(mem, cur, cur + HdrLen) \cup {g}, 0, n)
        /\ AckReaders
    BY <1>4, <1>7, <2>1, Redirecting
  <2>4. mem' \subseteq mem \cup {g} /\ g \in mem'
    <3>1. n <= g.pos
      BY <1>4, <1>7, <2>2 DEF GrantHead, FitsHead
    <3>2. g \in mem'
      BY <2>3, <3>1 DEF Overwrite
    <3> QED
      BY <2>3, <3>2, OverwriteShrinks
  <2>5. ASSUME NEW r \in Attached PROVE Waits(r)' = Waits(r)
    <3>1. From(r)' = From(r) /\ stored'[r] = stored[r] + 1
      BY <1>2, <2>3, Acknowledged
    <3>2. Room(cur, HdrLen, From(r), stored[r])
      BY <1>4, <1>7, ClearMeans DEF GrantHead, Room
    <3> QED
      BY <1>3, <2>2, <2>4, <3>1, <3>2, WaitsWritten
  <2> QED
    BY <1>3, <2>5, HoldsSame
<1> QED
  BY <1>3, <1>5, <1>6, <1>7 DEF Places

LEMMA HoldsCommitted ==
    ASSUME CInv, CInv', NEW t \in Threads, Commit(t)
    PROVE  /\ Attached' = Attached
           /\ \E f \in [serial : 0 .. SerialMod - 1, len : FrameLens, off : Offsets] :
                 Holds' = [r \in Readers |->
                              IF r \in Attached THEN Append(Holds[r], f) ELSE Holds[r]]
<1>1. PICK n \in FrameLens, o \in Offsets :
          /\ n + o <= requested[WriterOf[t]]
          /\ mem' = Overwrite(mem, cur, cur + HdrLen)
                       \cup {[pos |-> cur, serial |-> serial, len |-> n, off |-> o]}
  BY DEF Commit
<1>2. pc[t] = "have" /\ AckReaders /\ readers_' = readers_
  BY DEF Commit, Finished
<1>3. PICK h : h = [pos |-> cur, serial |-> serial, len |-> n, off |-> o]
  OBVIOUS
<1>4. /\ h.pos = cur /\ ~IsRedirect(h)
      /\ Payload(h) \in [serial : 0 .. SerialMod - 1, len : FrameLens, off : Offsets]
  <2>1. n # 0 /\ serial \in 0 .. SerialMod - 1
    BY SizeAssumption, ChainTypes
  <2> QED
    BY <1>3, <2>1 DEF IsRedirect, Payload
<1>5. mem' \subseteq mem \cup {h} /\ h \in mem'
  BY <1>1, <1>3, OverwriteShrinks
<1>6. /\ Attached' = Attached /\ Attached \subseteq Readers
      /\ \A r \in Attached : From(r)' = From(r) /\ stored'[r] = stored[r] + 1
  BY <1>2, Acknowledged, ChainTypes
<1>7. ASSUME NEW r \in Attached PROVE Waits(r)' = Append(Waits(r), Payload(h))
  <2>1. Room(cur, HdrLen, From(r), stored[r])
    <3>1. Room(cur, reserved[WriterOf[t]], From(r), stored[r])
      BY <1>2 DEF CInv, RoomInv, Filling
    <3>2. /\ reserved[WriterOf[t]] = FrameLen(requested[WriterOf[t]])
          /\ requested[WriterOf[t]] \in Nat
      BY <1>2, ThreadAssumption DEF CInv, IInv, SizeInv, TypeOK
    <3>3. FrameLen(requested[WriterOf[t]]) \in Nat /\ FrameLen(requested[WriterOf[t]]) >= HdrLen
      BY <3>2, FrameLenBounds DEF HdrLen
    <3>4. cur \in Int /\ From(r) \in Int
      BY ChainTypes
    <3> QED
      BY <3>1, <3>2, <3>3, <3>4 DEF Room, HdrLen
  <2> QED
    BY <1>4, <1>5, <1>6, <2>1, WaitsWritten
<1>8. \A r \in Readers : Waits(r)' = IF r \in Attached THEN Append(Waits(r), Payload(h))
                                                      ELSE Waits(r)
  BY <1>6, <1>7, HoldsWaits, HoldsWaitsNext
<1>9. Holds' = [r \in Readers |-> IF r \in Attached THEN Append(Holds[r], Payload(h))
                                                    ELSE Holds[r]]
  BY <1>8, HoldsWaits, HoldsWaitsNext
<1> QED
  BY <1>4, <1>6, <1>9

LEMMA LentStep == ASSUME QueueInv, [Next]_vars PROVE LentInv'
<1>1. /\ rpc \in [Readers -> {"none", "coming", "idle", "retry", "held", "leaving", "gone"}]
      /\ frm \in [Readers -> Headers \cup {NoFrame}]
  BY DEF QueueInv, UserInv, CInv, IInv, TypeOK
<1>2. LentInv
  BY DEF QueueInv
<1>3. ASSUME NEW r \in Readers, rpc' = [rpc EXCEPT ![r] = rpc'[r]], rpc'[r] # "held",
             frm' = frm, rpc[r] # "held"
      PROVE  LentInv'
  BY <1>1, <1>2, <1>3 DEF LentInv
<1>4. ASSUME NEW t \in Threads, WriterStep(t) PROVE LentInv'
  <2>1. UNCHANGED <<rpc, frm>>
    BY <1>4 DEF WriterStep, LockWriter, ShareList, TakeOwnership, OwnershipTimeout, PassReader,
                WaitReader, DropFrame, ReaderTimeout, GrantTail, GrantHead, GrantReset, Granted,
                Commit, Cancel, Finished, RequestAgain, userVars
  <2> QED
    BY <1>2, <2>1 DEF LentInv
<1>5. ASSUME NEW r \in Readers, ReaderStep(r) PROVE LentInv'
  <2>1. CASE Borrow(r)
    <3>1. PICK h \in HeaderAt(rcur[r]) : ~IsRedirect(h) /\ frm' = [frm EXCEPT ![r] = h]
      BY <2>1 DEF Borrow
    <3>2. rpc' = [rpc EXCEPT ![r] = "held"]
      BY <2>1 DEF Borrow
    <3> QED
      BY <1>1, <1>2, <3>1, <3>2 DEF LentInv
  <2>2. CASE FollowRedirect(r)
    BY <1>1, <1>3, <2>2 DEF FollowRedirect
  <2>3. CASE RetryTimeout(r)
    BY <1>1, <1>3, <2>3 DEF RetryTimeout
  <2>4. CASE Release(r)
    <3>1. rpc' = [rpc EXCEPT ![r] = "idle"] /\ frm' = [frm EXCEPT ![r] = NoFrame]
      BY <2>4 DEF Release
    <3> QED
      BY <1>1, <1>2, <3>1 DEF LentInv
  <2> QED
    BY <1>5, <2>1, <2>2, <2>3, <2>4 DEF ReaderStep
<1>6. CASE ManagerStep
  <2>1. CASE BlockSharers
    BY <1>2, <2>1 DEF BlockSharers, userVars, LentInv
  <2>2. ASSUME NEW r \in Readers, WantAdd(r) \/ WantRemove(r) \/ AddReader(r) \/ RemoveReader(r)
        PROVE  LentInv'
    BY <1>1, <1>3, <2>2 DEF WantAdd, WantRemove, AddReader, RemoveReader, Exclusive
  <2>3. ASSUME NEW r \in Readers, NEW src \in Readers, CloneReader(r, src)
        PROVE  LentInv'
    BY <1>1, <1>3, <2>3 DEF CloneReader, Exclusive
  <2> QED
    BY <1>6, <2>1, <2>2, <2>3 DEF ManagerStep
<1>7. CASE UNCHANGED vars
  BY <1>2, <1>7 DEF vars, userVars, LentInv
<1> QED
  BY <1>4, <1>5, <1>6, <1>7 DEF Next

LEMMA QueueInvariance == Spec => []QueueInv
<1>1. Init => QueueInv
  <2>1. Init => LentInv
    BY DEF Init, LentInv
  <2> QED
    BY <2>1, InitUserInv DEF QueueInv
<1>2. QueueInv /\ [Next]_vars => QueueInv'
  BY LentStep, NextUserInv DEF QueueInv
<1> QED
  BY <1>1, <1>2, PTL DEF Spec

LEMMA InitQueue == Init => Queue!QInit
<1> SUFFICES ASSUME Init PROVE Queue!QInit
  OBVIOUS
<1>1. /\ readers_ \in Seq(Readers) /\ rcur = [r \in Readers |-> NoPos]
      /\ frm = [r \in Readers |-> NoFrame]
  BY ReaderAssumption DEF Init
<1>2. Attached \subseteq Readers
  BY <1>1, AttachedReaders
<1>3. Holds = [r \in Readers |-> <<>>]
  BY <1>1 DEF Holds
<1>4. Lent = [r \in Readers |-> Payload(NoFrame)]
  BY <1>1 DEF Lent
<1> QED
  BY <1>2, <1>3, <1>4 DEF Queue!QInit, Holds, Lent

\* The steps of the queue, in terms of the ring.
QStutters == UNCHANGED <<Attached, Holds, Lent>>

LEMMA ReaderQueue ==
    ASSUME QueueInv, QueueInv', NEW r \in Readers, ReaderStep(r)
    PROVE  Queue!QNext \/ QStutters
<1>1. /\ frm \in [Readers -> Headers \cup {NoFrame}] /\ CInv /\ CInv' /\ LentInv
      /\ HeadersApart(mem) /\ LoanInv
  BY ChainTypes DEF QueueInv, UserInv, CInv, IInv, TypeOK
<1>2. UNCHANGED <<cur, serial, mem, readers_>>
  BY DEF ReaderStep, Borrow, FollowRedirect, RetryTimeout, Release, bufVars
<1>3. rpc[r] \in {"idle", "retry", "held"}
  BY DEF ReaderStep, Borrow, FollowRedirect, RetryTimeout, Release
<1>4. r \in Attached
  BY <1>1, <1>3 DEF CInv, ListInv
<1>5. ASSUME UNCHANGED <<rcur, stored, rserial>> PROVE Attached' = Attached /\ Holds' = Holds
  BY <1>1, <1>2, <1>5, RingSame DEF ringVars
<1>6. CASE Borrow(r)
  <2>1. PICK h \in HeaderAt(rcur[r]) : ~IsRedirect(h) /\ frm' = [frm EXCEPT ![r] = h]
    BY <1>6 DEF Borrow
  <2>2. stored[r] > 0 /\ rpc[r] # "held" /\ UNCHANGED <<rcur, stored, rserial>>
    BY <1>6 DEF Borrow
  <2>3. Waits(r) # <<>> /\ Head(Waits(r)) = Payload(h)
    BY <1>1, <1>4, <2>1, <2>2, WaitsFirst
  <2>4. Holds[r] # <<>> /\ Head(Holds[r]) = Payload(h)
    BY <2>3, HoldsWaits
  <2>5. Lent[r] = Payload(NoFrame) /\ Lent' = [Lent EXCEPT ![r] = Payload(h)]
    BY <1>1, <2>1, <2>2 DEF Lent, LentInv
  <2>6. Queue!Lend(r)
    BY <1>5, <2>2, <2>4, <2>5 DEF Queue!Lend, Holds, Lent
  <2> QED
    BY <2>6 DEF Queue!QNext
<1>7. CASE FollowRedirect(r)
  <2>1. PICK h \in HeaderAt(rcur[r]) : IsRedirect(h) /\ Consume(r, h)
    BY <1>7 DEF FollowRedirect
  <2>2. stored[r] > 0 /\ frm' = frm
    BY <1>7 DEF FollowRedirect
  <2>3. Attached' = Attached /\ Holds' = Holds
    BY <1>1, <1>2, <1>4, <2>1, <2>2, HoldsRead
  <2> QED
    BY <2>2, <2>3 DEF QStutters, Lent
<1>8. CASE RetryTimeout(r)
  BY <1>5, <1>8 DEF RetryTimeout, readerVars, QStutters, Lent
<1>9. CASE Release(r)
  <2>1. rpc[r] = "held" /\ frm' = [frm EXCEPT ![r] = NoFrame]
    BY <1>9 DEF Release
  <2>2. Lent[r] # Payload(NoFrame) /\ Lent' = [Lent EXCEPT ![r] = Payload(NoFrame)]
    <3>1. frm[r].len # 0
      BY <1>1, <2>1 DEF LentInv, IsRedirect
    <3>2. Payload(frm[r]).len # 0 /\ Payload(NoFrame).len = 0
      BY <3>1 DEF Payload, NoFrame
    <3> QED
      BY <1>1, <2>1, <3>2 DEF Lent
  <2>3. CASE r \in Discardable
    <3>1. /\ Attached' = Attached
          /\ Holds' \in {Holds, [Holds EXCEPT ![r] = IF @ = <<>> THEN @ ELSE Tail(@)]}
      <4>1. CASE stored[r] = 0 /\ UNCHANGED readerVars
        BY <1>5, <4>1 DEF readerVars
      <4>2. CASE stored[r] > 0 /\ \E h \in HeaderAt(rcur[r]) : Consume(r, h)
        <5>1. PICK h \in HeaderAt(rcur[r]) : Consume(r, h)
          BY <4>2
        <5>2. /\ Attached' = Attached /\ (IsRedirect(h) => Holds' = Holds)
              /\ ~IsRedirect(h) => Holds' = [Holds EXCEPT ![r] = Tail(@)] /\ Holds[r] # <<>>
          BY <1>1, <1>2, <1>4, <4>2, <5>1, HoldsRead
        <5> QED
          BY <5>2
      <4> QED
        BY <1>9, <4>1, <4>2 DEF Release
    <3>2. Queue!FinishLate(r)
      BY <2>2, <2>3, <3>1 DEF Queue!FinishLate, Holds, Lent
    <3> QED
      BY <3>2 DEF Queue!QNext
  <2>4. CASE r \notin Discardable
    <3>1. /\ stored[r] > 0 /\ frm[r] \in mem /\ frm[r].pos = rcur[r] /\ ~IsRedirect(frm[r])
      BY <1>1, <2>1, <2>4 DEF LoanInv
    <3>2. PICK h \in HeaderAt(rcur[r]) : Consume(r, h)
      BY <1>9, <3>1 DEF Release
    <3>3. h = frm[r]
      <4>1. h \in mem /\ h.pos = rcur[r] /\ h.pos \in Int
        BY <1>1, <1>4, <3>1, <3>2, UnderCursor, HeaderShape DEF HeaderAt
      <4> QED
        BY <1>1, <3>1, <4>1 DEF HeadersApart, HdrLen
    <3>4. /\ Attached' = Attached /\ Holds' = [Holds EXCEPT ![r] = Tail(@)]
          /\ Holds[r] # <<>> /\ Head(Holds[r]) = Payload(frm[r])
      BY <1>1, <1>2, <1>4, <3>1, <3>2, <3>3, HoldsRead
    <3>5. Head(Holds[r]) = Lent[r]
      BY <3>4 DEF Lent
    <3>6. Queue!Finish(r)
      BY <2>2, <3>4, <3>5 DEF Queue!Finish, Holds, Lent
    <3> QED
      BY <3>6 DEF Queue!QNext
  <2> QED
    BY <2>3, <2>4
<1> QED
  BY <1>6, <1>7, <1>8, <1>9 DEF ReaderStep

LEMMA WriterQueue ==
    ASSUME QueueInv, QueueInv', NEW t \in Threads, WriterStep(t)
    PROVE  Queue!QNext \/ QStutters
<1>1. CInv /\ CInv'
  BY DEF QueueInv, UserInv
<1>2. frm' = frm
  BY DEF WriterStep, LockWriter, ShareList, TakeOwnership, OwnershipTimeout, PassReader,
         WaitReader, DropFrame, ReaderTimeout, GrantTail, GrantHead, GrantReset, Granted,
         Commit, Cancel, Finished, RequestAgain, userVars
<1>3. Lent' = Lent
  BY <1>2 DEF Lent
<1>4. CASE Commit(t)
  <2>1. PICK f \in [serial : 0 .. SerialMod - 1, len : FrameLens, off : Offsets] :
               Holds' = [r \in Readers |->
                            IF r \in Attached THEN Append(Holds[r], f) ELSE Holds[r]]
    BY <1>1, <1>4, HoldsCommitted
  <2>2. Attached' = Attached
    BY <1>1, <1>4, HoldsCommitted
  <2>3. Queue!Publish(f)
    BY <1>3, <2>1, <2>2 DEF Queue!Publish, Holds, Lent
  <2> QED
    BY <2>3 DEF Queue!QNext
<1>5. CASE Places(t)
  BY <1>1, <1>3, <1>5, HoldsPlaced DEF QStutters
<1>6. CASE DropFrame(t)
  <2>1. PICK r : r = readers_[idx[t]]
    OBVIOUS
  <2>2. pc[t] = "drop" /\ UNCHANGED <<cur, serial, mem, readers_>>
    BY <1>6 DEF DropFrame, bufVars
  <2>3. r \in Attached /\ r \in Discardable /\ r \in Readers
    BY <1>1, <2>1, <2>2, ReaderAssumption DEF Attached, CInv, ScanInv
  <2>4. CASE stored[r] = 0 /\ UNCHANGED readerVars
    BY <1>1, <1>3, <2>2, <2>4, RingSame DEF readerVars, ringVars, QStutters
  <2>5. CASE stored[r] > 0 /\ \E h \in HeaderAt(rcur[r]) : Consume(r, h)
    <3>1. PICK h \in HeaderAt(rcur[r]) : Consume(r, h)
      BY <2>5
    <3>2. /\ Attached' = Attached /\ (IsRedirect(h) => Holds' = Holds)
          /\ ~IsRedirect(h) => Holds' = [Holds EXCEPT ![r] = Tail(@)] /\ Holds[r] # <<>>
      BY <1>1, <2>2, <2>3, <2>5, <3>1, HoldsRead
    <3>3. CASE IsRedirect(h)
      BY <1>3, <3>2, <3>3 DEF QStutters
    <3>4. CASE ~IsRedirect(h)
      <4>1. Queue!Drop(r)
        BY <1>3, <2>3, <3>2, <3>4 DEF Queue!Drop, Holds, Lent
      <4> QED
        BY <2>3, <4>1 DEF Queue!QNext
    <3> QED
      BY <3>3, <3>4
  <2> QED
    BY <1>6, <2>1, <2>4, <2>5 DEF DropFrame
<1>7. CASE \/ LockWriter(t) \/ ShareList(t) \/ TakeOwnership(t) \/ OwnershipTimeout(t)
           \/ PassReader(t) \/ WaitReader(t) \/ ReaderTimeout(t) \/ Cancel(t)
           \/ RequestAgain(t)
  <2>1. UNCHANGED ringVars
    BY <1>7 DEF LockWriter, ShareList, TakeOwnership, OwnershipTimeout, PassReader,
                WaitReader, ReaderTimeout, Cancel, Finished, RequestAgain,
                bufVars, readerVars, ringVars
  <2> QED
    BY <1>1, <1>3, <2>1, RingSame DEF QStutters
<1> QED
  BY <1>4, <1>5, <1>6, <1>7 DEF WriterStep, Places

LEMMA ManagerQueue ==
    ASSUME QueueInv, QueueInv', ManagerStep
    PROVE  Queue!QNext \/ QStutters
<1>1. /\ CInv /\ CInv' /\ LentInv /\ Attached \subseteq Readers
      /\ ListInv /\ readers_ \in Seq(Readers)
      /\ rcur \in [Readers -> 0 .. BufLen \cup {NoPos}] /\ stored \in [Readers -> Nat]
  BY ChainTypes DEF QueueInv, UserInv, CInv, IInv, TypeOK
<1>2. frm' = frm
  BY DEF ManagerStep, BlockSharers, WantAdd, WantRemove, AddReader, RemoveReader,
         CloneReader, Exclusive, userVars
<1>3. Lent' = Lent
  BY <1>2 DEF Lent
<1>4. CASE BlockSharers \/ \E r \in Readers : WantAdd(r) \/ WantRemove(r)
  <2>1. UNCHANGED ringVars
    BY <1>4 DEF BlockSharers, WantAdd, WantRemove, bufVars, readerVars, ringVars
  <2> QED
    BY <1>1, <1>3, <2>1, RingSame DEF QStutters
<1>5. ASSUME NEW r \in Readers, AddReader(r) PROVE Queue!Attach(r)
  <2>1. r \notin Attached /\ rcur[r] = NoPos
    BY <1>1, <1>5 DEF AddReader, ListInv
  <2>2. Attached' = Attached \cup {r} /\ UNCHANGED <<cur, serial, mem, rcur, stored>>
    BY <1>1, <1>5, ListAppended DEF AddReader, Exclusive, readerVars
  <2>3. ASSUME NEW x \in Attached PROVE Waits(x)' = Waits(x)
    <3>1. From(x)' = From(x)
      BY <2>2 DEF From
    <3> QED
      BY <1>1, <2>2, <3>1, WaitsSame
  <2>4. \A x \in Readers : Waits(x)' = Waits(x)
    BY <2>1, <2>2, <2>3, HoldsWaits, HoldsWaitsNext
  <2>5. Holds' = Holds
    BY <2>4, HoldsWaits, HoldsWaitsNext
  <2> QED
    BY <1>3, <2>1, <2>2, <2>5 DEF Queue!Attach, Holds, Lent
<1>6. ASSUME NEW r \in Readers, NEW src \in Readers, CloneReader(r, src) PROVE Queue!Attach(r)
  <2>1. r \notin Attached /\ src \in Attached
    BY <1>1, <1>6 DEF CloneReader, ListInv
  <2>2. /\ Attached' = Attached \cup {r} /\ UNCHANGED <<cur, serial, mem>>
        /\ rcur' = [rcur EXCEPT ![r] = rcur[src]] /\ stored' = [stored EXCEPT ![r] = stored[src]]
    BY <1>1, <1>6, ListAppended DEF CloneReader, Exclusive
  <2>3. ASSUME NEW x \in Attached PROVE Waits(x)' = Waits(x)
    <3>1. x # r /\ rcur'[x] = rcur[x] /\ stored'[x] = stored[x]
      BY <1>1, <2>1, <2>2
    <3>2. From(x)' = From(x)
      BY <2>2, <3>1 DEF From
    <3> QED
      BY <1>1, <2>2, <3>1, <3>2, WaitsSame
  <2>4. Waits(r)' = Waits(src)
    <3>1. rcur'[r] = rcur[src] /\ stored'[r] = stored[src]
      BY <1>1, <2>2
    <3>2. From(r)' = From(src)
      BY <2>2, <3>1 DEF From
    <3> QED
      BY <1>1, <2>1, <2>2, <3>1, <3>2, WaitsSame
  <2>5. \A x \in Readers : Waits(x)' = IF x = r THEN Waits(src) ELSE Waits(x)
    BY <2>2, <2>3, <2>4, HoldsWaits, HoldsWaitsNext
  <2>6. Holds' = [Holds EXCEPT ![r] = Holds[src]]
    BY <1>1, <2>1, <2>5, HoldsWaits, HoldsWaitsNext
  <2> QED
    BY <1>3, <2>1, <2>2, <2>6 DEF Queue!Attach, Holds, Lent
<1>7. ASSUME NEW r \in Readers, RemoveReader(r) PROVE Queue!Detach(r)
  <2>1. rpc[r] = "leaving" /\ UNCHANGED <<cur, serial, mem>>
    BY <1>7 DEF RemoveReader, Exclusive
  <2>2. r \in Attached /\ Lent[r] = Payload(NoFrame)
    BY <1>1, <2>1 DEF ListInv, LentInv, Lent
  <2>3. Attached' = Attached \ {r}
    BY <1>1, <1>7, ListShrunk DEF RemoveReader, ListInv
  <2>4. ASSUME NEW x \in Attached, x # r PROVE Waits(x)' = Waits(x)
    <3>1. rcur'[x] = rcur[x] /\ stored'[x] = stored[x]
      BY <1>1, <1>7, <2>4 DEF RemoveReader
    <3>2. From(x)' = From(x)
      BY <2>1, <3>1 DEF From
    <3> QED
      BY <1>1, <2>1, <2>3, <2>4, <3>1, <3>2, WaitsSame
  <2>5. \A x \in Readers : Waits(x)' = IF x = r THEN <<>> ELSE Waits(x)
    BY <2>3, <2>4, HoldsWaits, HoldsWaitsNext
  <2>6. Holds' = [Holds EXCEPT ![r] = <<>>]
    BY <2>5, HoldsWaits, HoldsWaitsNext
  <2> QED
    BY <1>3, <2>2, <2>3, <2>6 DEF Queue!Detach, Holds, Lent
<1> QED
  BY <1>4, <1>5, <1>6, <1>7 DEF ManagerStep, Queue!QNext

\* The ring is a broadcast queue: whatever a thread does is, seen by the users,
\* a publication that every attached reader gets at the end of its queue, a loan
\* of the first frame, its return, a frame dropped for a reader with discard_, a
\* reader that comes or goes, or nothing.
THEOREM RingImplementsQueue == Spec => BroadcastQueue
<1>1. QueueInv /\ QueueInv' /\ [Next]_vars => Queue!QNext \/ QStutters
  <2> SUFFICES ASSUME QueueInv, QueueInv', [Next]_vars PROVE Queue!QNext \/ QStutters
    OBVIOUS
  <2>1. CASE UNCHANGED vars
    <3>1. UNCHANGED ringVars /\ frm' = frm
      BY <2>1 DEF vars, bufVars, readerVars, userVars, ringVars
    <3> QED
      BY <3>1, RingSame DEF QStutters, Lent, QueueInv, UserInv
  <2> QED
    BY <2>1, ReaderQueue, WriterQueue, ManagerQueue DEF Next
<1>2. QStutters => UNCHANGED Queue!qvars
  BY DEF QStutters, Queue!qvars, Holds, Lent
<1>3. QueueInv /\ QueueInv' /\ [Next]_vars => [Queue!QNext]_(Queue!qvars)
  BY <1>1, <1>2
<1> QED
  BY <1>3, InitQueue, QueueInvariance, PTL DEF Spec, BroadcastQueue, Queue!QSpec
=============================================================================
