---------------------------- MODULE LogBufProofs ----------------------------
(* RoomKept for any number of threads that log and any size of the ring.     *)
(* Between the grant and the write only the writer's mutex protects the room: *)
(* a thread that has asked has the mutex (one that comes back to to_buf from *)
(* a refused request included, which waits for it), so nobody else asks, and *)
(* the logfile only makes more room.                                         *)
EXTENDS LogBuf, TLAPS

Stages == {"out", "lock", "nested", "request", "write", "compare"}

Types ==
    /\ holder \in Threads \cup {Nobody}
    /\ unread \in 0 .. Capacity
    /\ pc \in [Threads -> Stages]

\* Who has asked for room holds the mutex.
Holds == \A t \in Threads : pc[t] \in {"request", "write", "nested"} => holder = t

Room == \A t \in Threads : pc[t] = "write" => unread < Capacity

IInv == Types /\ Holds /\ Room

-----------------------------------------------------------------------------
LEMMA InitInv == Init => IInv
BY LogAssumption DEF Init, IInv, Types, Holds, Room, Stages

\* The end of a call frees the mutex, and its thread is past the write.
LEMMA ReturnedInv ==
    ASSUME IInv, NEW t \in Threads, pc[t] \in {"request", "write"},
           NEW r, Returned(t, r), unread' \in 0 .. Capacity
    PROVE  IInv'
<1>1. holder = t
  BY DEF IInv, Holds
<1>2. /\ holder' = Nobody
      /\ pc' = [pc EXCEPT ![t] = IF try[t] = 2 THEN "compare" ELSE "out"]
  BY DEF Returned
<1>3. pc'[t] \in {"out", "compare"} /\ \A u \in Threads \ {t} : pc'[u] = pc[u]
  BY <1>2 DEF IInv, Types
<1>4. \A u \in Threads : pc'[u] \notin {"request", "write", "nested"}
  BY <1>1, <1>3 DEF IInv, Holds
<1>5. Types'
  BY <1>2 DEF IInv, Types, Stages
<1> QED
  BY <1>4, <1>5 DEF IInv, Holds, Room

LEMMA NextInv == IInv /\ [Next]_vars => IInv'
<1> SUFFICES ASSUME IInv, [Next]_vars PROVE IInv'
  OBVIOUS
<1> USE LogAssumption
<1>1. CASE UNCHANGED vars
  BY <1>1 DEF IInv, Types, Holds, Room, vars
<1>2. ASSUME NEW t \in Threads, ThreadStep(t) PROVE IInv'
  <2>1. CASE Log(t)
    BY <2>1 DEF Log, IInv, Types, Holds, Room, Stages
  <2>2. CASE Lock(t)
    BY <2>2 DEF Lock, IInv, Types, Holds, Room, Stages
  <2>3. CASE Granted(t)
    BY <2>3 DEF Granted, IInv, Types, Holds, Room, Stages
  <2>4. CASE Refused(t)
    <3>1. CASE DebugToBuf
      BY <2>4, <3>1 DEF Refused, IInv, Types, Holds, Room, Stages
    <3>2. CASE ~DebugToBuf
      <4>1. Returned(t, "failed") /\ pc[t] = "request" /\ unread' = unread
        BY <2>4, <3>2 DEF Refused
      <4> QED
        BY <4>1, ReturnedInv DEF IInv, Types
    <3> QED
      BY <3>1, <3>2
  <2>5. CASE Store(t)
    <3>1. Returned(t, "length") /\ pc[t] = "write" /\ unread' = unread + 1
      BY <2>5 DEF Store
    <3>2. unread < Capacity
      BY <3>1 DEF IInv, Room
    <3>3. unread' \in 0 .. Capacity
      BY <3>1, <3>2 DEF IInv, Types
    <3> QED
      BY <3>1, <3>3, ReturnedInv
  <2>6. CASE Cancel(t)
    <3>1. CASE size[t] = "long" /\ try[t] = 1
      <4>1. /\ pc[t] = "write" /\ pc' = [pc EXCEPT ![t] = "lock"]
            /\ holder' = Nobody /\ unread' = unread
        BY <2>6, <3>1 DEF Cancel
      <4>2. holder = t
        BY <4>1 DEF IInv, Holds
      <4> QED
        BY <4>1, <4>2 DEF IInv, Types, Holds, Room, Stages
    <3>2. CASE ~(size[t] = "long" /\ try[t] = 1)
      <4>1. Returned(t, IF size[t] = "none" THEN "failed" ELSE "length")
            /\ pc[t] = "write" /\ unread' = unread
        BY <2>6, <3>2 DEF Cancel
      <4> QED
        BY <4>1, ReturnedInv DEF IInv, Types
    <3> QED
      BY <3>1, <3>2
  <2>7. CASE Compare(t)
    BY <2>7 DEF Compare, IInv, Types, Holds, Room, Stages
  <2> QED
    BY <1>2, <2>1, <2>2, <2>3, <2>4, <2>5, <2>6, <2>7 DEF ThreadStep
<1>3. CASE WriteFile
  BY <1>3 DEF WriteFile, IInv, Types, Holds, Room
<1> QED
  BY <1>1, <1>2, <1>3 DEF Next

-----------------------------------------------------------------------------
\* Room granted to a thread is still there when it writes, and nobody else has
\* asked meanwhile, in a ring of any size that any number of threads log to.
THEOREM RoomIsKept == Spec => []RoomKept
<1>1. IInv => RoomKept
  BY DEF IInv, Types, Holds, Room, RoomKept
<1> QED
  BY InitInv, NextInv, <1>1, PTL DEF Spec
=============================================================================
