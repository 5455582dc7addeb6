---------------------------- MODULE SessionClock ----------------------------
(***************************************************************************)
(* The heartbeat of Session::run with clocks: when the reader decides that *)
(* the server is gone, and what it has not read by then. The reader        *)
(* serves whatever its select finds ready at once, in any order, unless it *)
(* is blocked in the bulk.send().await of queue_ws_response. Time advances *)
(* in units; an arm that becomes ready within a unit is ready at its end.  *)
(***************************************************************************)
EXTENDS Naturals

CONSTANTS
    Interval,   \* Timing.heartbeat_interval
    Timeout,    \* Timing.heartbeat_timeout
    ServerGap,  \* a live server sends a frame at least this often
    MaxBlocked  \* the longest wait for a place in the bulk channel

ASSUME ClockAssumption ==
    /\ Interval \in Nat \ {0}
    /\ Timeout \in Nat
    /\ ServerGap \in Nat \ {0}
    /\ MaxBlocked \in Nat

VARIABLES
    mode,     \* the reader is at its select, in bulk.send, or has returned
    silence,  \* last_inbound.elapsed()
    tickIn,   \* the time until heartbeat.tick() is ready
    busy,     \* active_task is some task
    blocked,  \* how long the reader has been in bulk.send
    waited,   \* history: its time in bulk.send since it last read a frame
    alive,    \* the server is there, and so is the path to it
    quiet,    \* the time since a live server's last frame arrived
    unread    \* frames are at the socket and have not been read

vars == <<mode, silence, tickIn, busy, blocked, waited, alive, quiet, unread>>

Init ==
    /\ mode = "select"
    /\ silence = 0
    /\ tickIn = Interval
    /\ busy = FALSE
    /\ blocked = 0
    /\ waited = 0
    /\ alive = TRUE
    /\ quiet = 0
    /\ unread = FALSE

-----------------------------------------------------------------------------
(* The server sends a frame, or the connection dies silently.              *)
FrameArrives ==
    /\ alive
    /\ mode # "closed"
    /\ quiet' = 0
    /\ unread' = TRUE
    /\ UNCHANGED <<mode, silence, tickIn, busy, blocked, waited, alive>>

ServerDies ==
    /\ alive
    /\ mode # "closed"
    /\ alive' = FALSE
    /\ UNCHANGED <<mode, silence, tickIn, busy, blocked, waited, quiet, unread>>

(* queue_ws_response: the reader goes on, or waits for the bulk channel.   *)
Queue ==
    /\ mode' \in {"select", "queueing"}
    /\ blocked' = 0

\* Mutant: a request for a busy worker is not noted as a sign of life.
ReadFrameUnnoted ==
    /\ mode = "select"
    /\ unread
    /\ unread' \in BOOLEAN
    /\ waited' = 0
    /\ \/ busy' = TRUE /\ silence' = 0 /\ UNCHANGED <<mode, blocked>>
       \/ UNCHANGED busy /\ silence' = 0 /\ UNCHANGED <<mode, blocked>>
       \/ busy /\ UNCHANGED <<busy, silence>> /\ Queue
    /\ UNCHANGED <<tickIn, alive, quiet>>

(* The read.next() arm: the frame is noted before it is handled. A request *)
(* makes an idle worker busy, and a busy one queues a 503 for it.          *)
ReadFrame ==
    /\ mode = "select"
    /\ unread
    /\ unread' \in BOOLEAN
    /\ silence' = 0
    /\ waited' = 0
    /\ \/ busy' = TRUE /\ UNCHANGED <<mode, blocked>>
       \/ UNCHANGED <<busy, mode, blocked>>
       \/ busy /\ UNCHANGED busy /\ Queue
    /\ UNCHANGED <<tickIn, alive, quiet>>

(* The completion arm: what the scrape left over is queued.                *)
Completion ==
    /\ mode = "select"
    /\ busy
    /\ busy' = FALSE
    /\ Queue
    /\ UNCHANGED <<silence, tickIn, waited, alive, quiet, unread>>

(* The bulk channel took the response.                                     *)
Resume ==
    /\ mode = "queueing"
    /\ mode' = "select"
    /\ blocked' = 0
    /\ UNCHANGED <<silence, tickIn, busy, waited, alive, quiet, unread>>

\* Mutant: a connection with a scrape in progress is never given up.
HeartbeatUnlessBusy ==
    /\ mode = "select"
    /\ tickIn = 0
    /\ IF silence > Timeout /\ ~busy
       THEN mode' = "closed" /\ UNCHANGED tickIn
       ELSE tickIn' = Interval /\ UNCHANGED mode
    /\ UNCHANGED <<silence, busy, blocked, waited, alive, quiet, unread>>

(* The heartbeat arm: the connection is given up, or the next tick is due  *)
(* an interval from now (MissedTickBehavior::Delay).                       *)
Heartbeat ==
    /\ mode = "select"
    /\ tickIn = 0
    /\ IF silence > Timeout
       THEN mode' = "closed" /\ UNCHANGED tickIn
       ELSE tickIn' = Interval /\ UNCHANGED mode
    /\ UNCHANGED <<silence, busy, blocked, waited, alive, quiet, unread>>

(* A unit of time passes: not while the select has a frame or a tick to    *)
(* serve, not beyond the longest wait, and not beyond what a live server   *)
(* lets pass without a frame.                                              *)
Advance ==
    /\ mode = "select" => ~unread /\ tickIn > 0
    /\ mode = "queueing" => blocked < MaxBlocked
    /\ mode # "closed"
    /\ alive => quiet < ServerGap
    /\ silence' = silence + 1
    /\ quiet' = IF alive THEN quiet + 1 ELSE quiet
    /\ tickIn' = IF tickIn > 0 THEN tickIn - 1 ELSE 0
    /\ blocked' = IF mode = "queueing" THEN blocked + 1 ELSE 0
    /\ waited' = IF mode = "queueing" THEN waited + 1 ELSE waited
    /\ UNCHANGED <<mode, busy, alive, unread>>

Next ==
    \/ FrameArrives \/ ServerDies
    \/ ReadFrame \/ Completion \/ Resume \/ Heartbeat
    \/ Advance

Spec == Init /\ [][Next]_vars

-----------------------------------------------------------------------------
(* Every variable has its type, and no wait exceeds its bound.             *)
TypeOK ==
    /\ mode \in {"select", "queueing", "closed"}
    /\ silence \in Nat
    /\ tickIn \in 0..Interval
    /\ busy \in BOOLEAN
    /\ blocked \in 0..MaxBlocked
    /\ waited \in Nat
    /\ alive \in BOOLEAN
    /\ quiet \in 0..ServerGap
    /\ unread \in BOOLEAN

(* A dead path is noticed: without a frame a connection outlives the       *)
(* timeout by one heartbeat and by what its reader has waited in bulk.send *)
(* since the last frame, when it missed ticks. It waits there twice at     *)
(* most: to refuse the request that this frame was, and for the answer of  *)
(* the scrape that was in progress.                                        *)
DeadServerNoticed ==
    mode # "closed" =>
        /\ silence <= Timeout + Interval + waited
        /\ waited <= 2 * MaxBlocked

(* The heartbeat ends the connection of a live server for one reason only: *)
(* since the last frame it read, the reader has waited in bulk.send for    *)
(* longer than the timeout without the gap between two frames. A frame     *)
(* that the reader could have read, or has, never counts as silence.       *)
OnlyAWaitDeceives ==
    alive /\ mode = "closed" => waited + ServerGap > Timeout

(* A connection whose server sends frames is not closed by the heartbeat.  *)
(* README: "The connection is closed after 45 seconds without any frame    *)
(* from the server".                                                       *)
LiveServerKept == alive => mode # "closed"
=============================================================================
