-------------------------- MODULE ConnectionState --------------------------
(***************************************************************************)
(* The state of one WebSocket connection of a worker (run_connection in    *)
(* src/worker.rs), and the operations its tasks share.                     *)
(*                                                                         *)
(* Four tasks run concurrently: the reader (Session::run and               *)
(* Session::finish), the scrape task that the reader spawns for a request, *)
(* the busy-response actor and the writer, which owns the write half.      *)
(* They share the control, bulk, busy-response and completion channels.    *)
(* A request is known by its uid; a response body is known by the class of *)
(* it that the code tells apart.                                           *)
(***************************************************************************)
EXTENDS Naturals, Sequences, FiniteSets, SequencesExt

CONSTANTS
    Uids,           \* the requests the server may send on this connection
    NoUid,          \* no request
    Protocol,       \* the wire protocol: 1, 2 or 3
    ScrapeResults,  \* the classes of body an exporter may return
    Tight,          \* the memory budget or the message limit may refuse a body
    ControlCap,     \* CONTROL_QUEUE_CAPACITY (32)
    BulkCap,        \* BULK_QUEUE_CAPACITY (8)
    BusyCap,        \* BUSY_RESPONSE_QUEUE_CAPACITY (8)
    PostMax         \* BUSY_RESPONSE_CONCURRENCY (4)

ASSUME NoUidAssumption == NoUid \notin Uids
ASSUME ProtocolAssumption == Protocol \in 1..3
ASSUME ScrapeAssumption == ScrapeResults \subseteq {"small", "large", "error"}
ASSUME TightAssumption == Tight \in BOOLEAN
ASSUME CapAssumption ==
    /\ ControlCap \in Nat \ {0}
    /\ BulkCap \in Nat \ {0}
    /\ BusyCap \in Nat \ {0}
    /\ PostMax \in Nat \ {0}

VARIABLES
    shutdown,    \* the worker's CancellationToken is cancelled
    reader,      \* where Session::run and Session::finish are
    cause,       \* why Session::run returned
    active,      \* Session.active_task: the request of the joined task
    tasks,       \* the scrape tasks that run, with the response they post
    completion,  \* the completion channel, of capacity 1
    control,     \* the control channel
    bulk,        \* the bulk channel of encoded responses
    waiting,     \* senders blocked in bulk.send().await, oldest first
    actor,       \* where run_busy_response_actor is
    busyq,       \* the busy-response channel, the 503s by their uid
    posts,       \* the 503s the actor is posting
    writer,      \* where run_writer is
    upload,      \* the response the writer is sending
    net,         \* POSTed responses on their way to the server
    wire,        \* per uid, the copies the server received, in order
    fate         \* per uid, what the client has made of the request

readerVars == <<reader, cause, active>>
scrapeVars == <<tasks, completion>>
bulkVars == <<bulk, waiting>>
actorVars == <<actor, busyq, posts>>
writerVars == <<writer, upload>>
serverVars == <<net, wire>>
vars == <<shutdown, readerVars, scrapeVars, control, bulkVars, actorVars,
          writerVars, serverVars, fate>>

-----------------------------------------------------------------------------
(* A "heartbeat" frame is a ping or a pong, as text or of the WebSocket.    *)
(* "large" is a body over FALLBACK_AFTER_TIMEOUT_LIMIT, "small" one within  *)
(* it, "error" a response with an error status and an empty or short body  *)
(* and "busy" the 503 of a request that found the worker busy.             *)
Answers == {"small", "large", "error", "busy"}

Responses == [uid : Uids, answer : Answers]
NoResponse == [uid |-> NoUid, answer |-> "none"]
Response(u, a) == [uid |-> u, answer |-> a]

Tasks == [uid : Uids, answer : Answers \cup {"pending"}]
Completions == [uid : Uids, answer : Answers \cup {"none"}]
Frames == {"register", "heartbeat", "ready", "close"}
Copies == [via : {"post", "frame"}, answer : Answers]
Senders == {"session", "actor"}

(* The reader runs in Session::run, at its select or in bulk.send().await;  *)
(* the other values are the awaits of Session::finish and run_connection.  *)
Running == {"select", "queueing"}
Finish == {"finishing", "flushing", "killing", "reaping"}

(* run_writer has returned or was aborted: its receivers are dropped.      *)
Stopped == {"closed", "drained", "failed", "aborted"}
WriterStopped == writer \in Stopped

(* Session::finish has dropped the session's senders. A reader that awaits *)
(* the writer a second time panics, which drops them as well.              *)
SendersDropped == reader \in {"flushing", "killing", "reaping", "ended", "panicked"}
ActorGone == actor \in {"returned", "aborted"}

-----------------------------------------------------------------------------
\* Mutant: a control channel that takes one frame too many.
ControlRoomOffByOne(q) == ~WriterStopped /\ Len(q) <= ControlCap

(* try_send on the control channel: the frame is dropped when the channel  *)
(* is full or its receiver is gone.                                        *)
ControlRoom(q) == ~WriterStopped /\ Len(q) < ControlCap
Offer(q, frame) == IF ControlRoom(q) THEN Append(q, frame) ELSE q

\* Mutant: a new sender takes a free place past the blocked senders.
BulkRoomBarging == Len(bulk) < BulkCap

\* Mutant: the channel has one place too many.
BulkRoomOffByOne == Len(bulk) + Len(waiting) <= BulkCap

(* A permit of the bulk channel is free for a new sender. Permits go to    *)
(* blocked senders first, oldest first.                                    *)
BulkRoom == Len(bulk) + Len(waiting) < BulkCap

\* Mutant: the last free permit is never given to a waiter.
AdmittedOffByOne(i) == i < BulkCap - Len(bulk)

(* The waiters that hold a permit and only have to push their response.    *)
Admitted(i) == i <= BulkCap - Len(bulk)

(* The sender waiting in place i no longer waits.                          *)
Leaves(s, i) ==
    /\ i \in DOMAIN waiting
    /\ waiting[i].sender = s
    /\ waiting' = RemoveAt(waiting, i)

Settle(u, f) == fate' = [fate EXCEPT ![u] = f]

(* bounded_response_json encodes the response as it is, or as an empty 500 *)
(* when the memory budget or the message limit refuses the body.           *)
Encodings(a) == {a} \cup (IF Tight THEN {"error"} ELSE {})

\* Mutant: try_send in place of send: a full channel drops the response.
QueueResponseOrDrop(s, r, outcome) ==
    /\ outcome = "done"
    /\ Settle(r.uid, "owed")
    /\ bulk' = IF ~WriterStopped /\ BulkRoom THEN Append(bulk, r) ELSE bulk
    /\ UNCHANGED waiting

(* queue_ws_response called by sender s ends in one of three ways: it is   *)
(* "done" (the response is pushed, or dropped because even the empty 500   *)
(* was refused), it is "blocked" until the bulk channel has a permit for   *)
(* the response, or it is "broken" because the writer is gone.             *)
Outcomes == {"done", "blocked", "broken"}
QueueResponse(s, r, outcome) ==
    \/ /\ Tight
       /\ outcome = "done"
       /\ Settle(r.uid, "dropped")
       /\ UNCHANGED bulkVars
    \/ /\ WriterStopped
       /\ outcome = "broken"
       /\ Settle(r.uid, "owed")
       /\ UNCHANGED bulkVars
    \/ /\ ~WriterStopped
       /\ Settle(r.uid, "owed")
       /\ \E a \in Encodings(r.answer) :
            \/ /\ BulkRoom
               /\ outcome = "done"
               /\ bulk' = Append(bulk, Response(r.uid, a))
               /\ UNCHANGED waiting
            \/ /\ ~BulkRoom
               /\ outcome = "blocked"
               /\ waiting' = Append(waiting, [sender |-> s, item |-> Response(r.uid, a)])
               /\ UNCHANGED bulk

(* A blocked sender that holds a permit pushes its response.               *)
PushWaiting(s) ==
    /\ ~WriterStopped
    /\ \E i \in DOMAIN waiting :
        /\ Admitted(i)
        /\ Leaves(s, i)
        /\ bulk' = Append(bulk, waiting[i].item)

\* Mutant: a writer that failed does not wake the blocked senders.
GiveUpWaitingUnlessFailed(s) ==
    /\ writer \in {"closed", "drained", "aborted"}
    /\ \E i \in DOMAIN waiting : Leaves(s, i)

(* bulk.send fails a blocked sender once the writer is gone.               *)
GiveUpWaiting(s) ==
    /\ WriterStopped
    /\ \E i \in DOMAIN waiting : Leaves(s, i)

(* post_response: the form may be refused by the budget or lost before it  *)
(* leaves, or it is on its way from now on, whatever becomes of the caller.*)
SendPost(r) == net' \in {net, net \cup {r}}
PostArrived(u) == \E i \in DOMAIN wire[u] : wire[u][i].via = "post"

Receive(u, via, a) ==
    wire' = [wire EXCEPT ![u] = Append(@, [via |-> via, answer |-> a])]
=============================================================================
