------------------------- MODULE SessionClockProofs -------------------------
(***************************************************************************)
(* What holds of SessionClock for all intervals, timeouts and waits.       *)
(***************************************************************************)
EXTENDS SessionClock, TLAPS

USE ClockAssumption

(* The types of the flags and of the clocks, which different provers take. *)
Flags ==
    /\ mode \in {"select", "queueing", "closed"}
    /\ busy \in BOOLEAN
    /\ alive \in BOOLEAN
    /\ unread \in BOOLEAN

Clocks ==
    /\ silence \in Nat
    /\ tickIn \in 0..Interval
    /\ blocked \in 0..MaxBlocked
    /\ waited \in Nat
    /\ quiet \in 0..ServerGap

LEMMA ClockTypes == Spec => []TypeOK
<1>1. TypeOK <=> Flags /\ Clocks
  BY DEF TypeOK, Flags, Clocks
<1>2. Init => Flags
  BY Zenon DEF Init, Flags
<1>3. Init => Clocks
  BY DEF Init, Clocks
<1>4. Flags /\ Clocks /\ [Next]_vars => Flags' /\ Clocks'
  <2> SUFFICES ASSUME Flags, Clocks, [Next]_vars PROVE Flags' /\ Clocks'
    OBVIOUS
  <2>1. CASE FrameArrives \/ ServerDies
    <3>1. Flags'
      BY <2>1, Zenon DEF Flags, FrameArrives, ServerDies
    <3>2. Clocks'
      BY <2>1 DEF Clocks, FrameArrives, ServerDies
    <3> QED
      BY <3>1, <3>2
  <2>2. CASE ReadFrame \/ Completion \/ Resume
    <3>1. Flags'
      BY <2>2, Zenon DEF Flags, ReadFrame, Completion, Resume, Queue
    <3>2. Clocks'
      BY <2>2 DEF Clocks, ReadFrame, Completion, Resume, Queue
    <3> QED
      BY <3>1, <3>2
  <2>3. CASE Heartbeat
    <3>1. Flags'
      BY <2>3, Zenon DEF Flags, Heartbeat
    <3>2. Clocks'
      BY <2>3 DEF Clocks, Heartbeat
    <3> QED
      BY <3>1, <3>2
  <2>4. CASE Advance
    <3>1. Flags'
      BY <2>4, Zenon DEF Flags, Advance
    <3>2. Clocks'
      BY <2>4 DEF Flags, Clocks, Advance
    <3> QED
      BY <3>1, <3>2
  <2>5. CASE UNCHANGED vars
    BY <2>5 DEF Flags, Clocks, vars
  <2> QED
    BY <2>1, <2>2, <2>3, <2>4, <2>5 DEF Next
<1> QED
  BY <1>1, <1>2, <1>3, <1>4, PTL DEF Spec

(* What the reader has waited since its last frame: a busy worker may have *)
(* refused the request that the frame was; a worker that is idle again may *)
(* have queued its answer besides, and queues nothing more before the next *)
(* frame.                                                                  *)
WaitInv ==
    /\ mode = "select" => waited <= IF busy THEN MaxBlocked ELSE 2 * MaxBlocked
    /\ mode = "queueing" => waited <= blocked + IF busy THEN 0 ELSE MaxBlocked

(* Time moves the silence and the tick against each other unless the tick  *)
(* is due, and then only while the reader waits; a tick is set only when   *)
(* the silence is within the timeout.                                      *)
SilenceInv == mode # "closed" => silence + tickIn <= Timeout + Interval + waited

LEMMA WaitHolds == Spec => []WaitInv
<1>1. Init => WaitInv
  BY DEF Init, WaitInv
<1>2. TypeOK /\ WaitInv /\ [Next]_vars => WaitInv'
  <2> SUFFICES ASSUME TypeOK, WaitInv, [Next]_vars PROVE WaitInv'
    OBVIOUS
  <2> USE DEF TypeOK, WaitInv
  <2>1. CASE FrameArrives \/ ServerDies
    BY <2>1 DEF FrameArrives, ServerDies
  <2>2. CASE ReadFrame
    BY <2>2 DEF ReadFrame, Queue
  <2>3. CASE Completion
    BY <2>3 DEF Completion, Queue
  <2>4. CASE Resume
    BY <2>4 DEF Resume
  <2>5. CASE Heartbeat
    BY <2>5 DEF Heartbeat
  <2>6. CASE Advance
    BY <2>6 DEF Advance
  <2>7. CASE UNCHANGED vars
    BY <2>7 DEF vars
  <2> QED
    BY <2>1, <2>2, <2>3, <2>4, <2>5, <2>6, <2>7 DEF Next
<1> QED
  BY <1>1, <1>2, ClockTypes, PTL DEF Spec

(* A dead path is noticed a heartbeat after the timeout, and what the      *)
(* reader waits since its last frame, two waits at most, comes on top.     *)
THEOREM DeadServerIsNoticed == Spec => []DeadServerNoticed
<1>1. Init => SilenceInv
  BY DEF Init, SilenceInv
<1>2. TypeOK /\ SilenceInv /\ [Next]_vars => SilenceInv'
  <2> SUFFICES ASSUME TypeOK, SilenceInv, [Next]_vars PROVE SilenceInv'
    OBVIOUS
  <2> USE DEF TypeOK, SilenceInv
  <2>1. CASE FrameArrives \/ ServerDies
    BY <2>1 DEF FrameArrives, ServerDies
  <2>2. CASE ReadFrame \/ Completion \/ Resume
    BY <2>2 DEF ReadFrame, Completion, Resume, Queue
  <2>3. CASE Heartbeat
    BY <2>3 DEF Heartbeat
  <2>4. CASE Advance
    BY <2>4 DEF Advance
  <2>5. CASE UNCHANGED vars
    BY <2>5 DEF vars
  <2> QED
    BY <2>1, <2>2, <2>3, <2>4, <2>5 DEF Next
<1>3. TypeOK /\ WaitInv /\ SilenceInv => DeadServerNoticed
  BY DEF TypeOK, WaitInv, SilenceInv, DeadServerNoticed
<1> QED
  BY <1>1, <1>2, <1>3, ClockTypes, WaitHolds, PTL DEF Spec

-----------------------------------------------------------------------------
(* With a live server the reader is behind by the server's gap and by what *)
(* it has waited; while it has read everything, by the gap alone. Only a   *)
(* silence beyond the timeout ends the connection.                         *)
LiveInv ==
    alive =>
        /\ mode # "closed" /\ ~unread => silence <= quiet
        /\ silence <= ServerGap + waited
        /\ mode = "closed" => silence > Timeout

(* The heartbeat closes the connection of a live server only after a wait  *)
(* of the reader that the timeout does not allow for.                      *)
THEOREM OnlyAWaitCanDeceive == Spec => []OnlyAWaitDeceives
<1>1. Init => LiveInv
  BY DEF Init, LiveInv
<1>2. TypeOK /\ LiveInv /\ [Next]_vars => LiveInv'
  <2> SUFFICES ASSUME TypeOK, LiveInv, [Next]_vars PROVE LiveInv'
    OBVIOUS
  <2> USE DEF TypeOK, LiveInv
  <2>1. CASE FrameArrives \/ ServerDies
    BY <2>1 DEF FrameArrives, ServerDies
  <2>2. CASE ReadFrame
    BY <2>2 DEF ReadFrame, Queue
  <2>3. CASE Completion
    BY <2>3 DEF Completion, Queue
  <2>4. CASE Resume
    BY <2>4 DEF Resume
  <2>5. CASE Heartbeat
    BY <2>5 DEF Heartbeat
  <2>6. CASE Advance
    BY <2>6 DEF Advance
  <2>7. CASE UNCHANGED vars
    BY <2>7 DEF vars
  <2> QED
    BY <2>1, <2>2, <2>3, <2>4, <2>5, <2>6, <2>7 DEF Next
<1>3. TypeOK /\ LiveInv => OnlyAWaitDeceives
  BY DEF TypeOK, LiveInv, OnlyAWaitDeceives
<1> QED
  BY <1>1, <1>2, <1>3, ClockTypes, PTL DEF Spec
=============================================================================
