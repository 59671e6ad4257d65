---------------------------- MODULE FrameQueue ----------------------------
(***************************************************************************)
(* What src/src/buffer.cpp promises its users, without memory, cursors,     *)
(* locks or waiting: a broadcast queue.  A frame that is published goes to   *)
(* every reader attached at that moment; each reader is lent the frames in   *)
(* that order, one at a time, each once.  Only a lossy reader (discard_) can *)
(* miss a frame.  RingBuffer implements this.                                *)
(***************************************************************************)
EXTENDS Naturals, Sequences

CONSTANTS
    Readers,    \* the reader objects
    Lossy,      \* those with discard_ set
    Frames,     \* what may be published
    NoFrame     \* nothing is lent

VARIABLES
    attached,   \* the readers a publication reaches
    queue,      \* what each of them has still to finish, the lent frame first
    lent        \* the frame each reader's user is working on

qvars == <<attached, queue, lent>>

\* A writer's commit.
Publish(f) ==
    /\ queue' = [r \in Readers |->
                    IF r \in attached THEN Append(queue[r], f) ELSE queue[r]]
    /\ UNCHANGED <<attached, lent>>

\* A reader's request_frame.
Lend(r) ==
    /\ lent[r] = NoFrame
    /\ queue[r] # <<>>
    /\ lent' = [lent EXCEPT ![r] = Head(queue[r])]
    /\ UNCHANGED <<attached, queue>>

\* A reader's release: the frame it was lent is the one that goes.
Finish(r) ==
    /\ lent[r] # NoFrame
    /\ queue[r] # <<>>
    /\ Head(queue[r]) = lent[r]
    /\ queue' = [queue EXCEPT ![r] = Tail(@)]
    /\ lent' = [lent EXCEPT ![r] = NoFrame]
    /\ UNCHANGED attached

\* A writer that needs room takes the oldest frame of a lossy reader, even the
\* one it is working on.
Drop(r) ==
    /\ r \in Lossy
    /\ queue[r] # <<>>
    /\ queue' = [queue EXCEPT ![r] = Tail(@)]
    /\ UNCHANGED <<attached, lent>>

\* A lossy reader whose frame was dropped under it releases, and with that
\* loses the next one if there is one.
FinishLate(r) ==
    /\ r \in Lossy
    /\ lent[r] # NoFrame
    /\ queue' \in {queue, [queue EXCEPT ![r] = IF @ = <<>> THEN @ ELSE Tail(@)]}
    /\ lent' = [lent EXCEPT ![r] = NoFrame]
    /\ UNCHANGED attached

\* A new reader starts with nothing, or with what some reader has still to read.
Attach(r) ==
    /\ r \notin attached
    /\ attached' = attached \cup {r}
    /\ \/ UNCHANGED queue
       \/ \E src \in attached : queue' = [queue EXCEPT ![r] = queue[src]]
    /\ UNCHANGED lent

Detach(r) ==
    /\ r \in attached
    /\ lent[r] = NoFrame
    /\ attached' = attached \ {r}
    /\ queue' = [queue EXCEPT ![r] = <<>>]
    /\ UNCHANGED lent

QInit ==
    /\ attached \subseteq Readers
    /\ queue = [r \in Readers |-> <<>>]
    /\ lent = [r \in Readers |-> NoFrame]

QNext ==
    \/ \E r \in Readers :
          Lend(r) \/ Finish(r) \/ Drop(r) \/ FinishLate(r) \/ Attach(r) \/ Detach(r)
    \/ \E f \in Frames : Publish(f)

QSpec == QInit /\ [][QNext]_qvars
=============================================================================
