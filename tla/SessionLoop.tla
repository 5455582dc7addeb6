---------------------------- MODULE SessionLoop ----------------------------
(***************************************************************************)
(* Session::run, the select loop that reads every server frame and starts  *)
(* every answer, and what ends a connection: Session::finish and the end   *)
(* of run_connection. Time is abstracted: a heartbeat may tick or expire   *)
(* whenever the loop is at its select, a timeout may expire at any moment. *)
(* Frames that change nothing (pongs, unknown or invalid text, binary) are *)
(* left out.                                                               *)
(***************************************************************************)
EXTENDS ConnectionState

AtSelect == reader = "select"
Idle == active = NoUid

(* Session::run returns because the client ends the connection ("goodbye"),*)
(* because the server closed it ("reply"), because the writer was found to *)
(* have ended ("writer") or because a read or a queued send failed.        *)
EndRun(why) ==
    /\ reader' = "finishing"
    /\ cause' = why

(* The ends that come with a close frame for the server: its own returned, *)
(* or one with a reason.                                                   *)
Farewells == {"goodbye", "reply"}

-----------------------------------------------------------------------------
(* The arms of the select, in the order of the source. Any enabled arm may *)
(* be taken: the select is not biased.                                     *)

ShutdownArm ==
    /\ AtSelect
    /\ shutdown
    /\ EndRun("goodbye")
    /\ UNCHANGED <<shutdown, active, scrapeVars, control, bulkVars, actorVars,
                   writerVars, serverVars, fate>>

WriterArm ==
    /\ AtSelect
    /\ WriterStopped
    /\ EndRun("writer")
    /\ UNCHANGED <<shutdown, active, scrapeVars, control, bulkVars, actorVars,
                   writerVars, serverVars, fate>>

HeartbeatExpires ==
    /\ AtSelect
    /\ EndRun("goodbye")
    /\ UNCHANGED <<shutdown, active, scrapeVars, control, bulkVars, actorVars,
                   writerVars, serverVars, fate>>

(* A text ping and a WebSocket ping.                                       *)
HeartbeatTick ==
    /\ AtSelect
    /\ control' = Offer(Offer(control, "heartbeat"), "heartbeat")
    /\ UNCHANGED <<shutdown, readerVars, scrapeVars, bulkVars, actorVars,
                   writerVars, serverVars, fate>>

(* queue_ws_response called by the reader, whose run ends if it fails.     *)
SessionQueues(r) ==
    \E outcome \in Outcomes :
        /\ QueueResponse("session", r, outcome)
        /\ \/ /\ outcome # "broken"
              /\ reader' = IF outcome = "blocked" THEN "queueing" ELSE "select"
              /\ UNCHANGED cause
           \/ /\ outcome = "broken"
              /\ EndRun("error")

(* The scrape has ended: its task is joined, the worker is idle again and  *)
(* what the task left over is queued for the WebSocket.                    *)
CompletionArm ==
    /\ AtSelect
    /\ ~Idle
    /\ completion # <<>>
    /\ completion' = Tail(completion)
    /\ active' = NoUid
    /\ LET r == Head(completion) IN
        \/ /\ r.answer = "none"
           /\ UNCHANGED <<reader, cause, bulkVars, fate>>
        \/ /\ r.answer # "none"
           /\ SessionQueues(r)
    /\ UNCHANGED <<shutdown, tasks, control, actorVars, writerVars, serverVars>>

(* A text ping or a WebSocket ping from the server.                        *)
ReadPing ==
    /\ AtSelect
    /\ control' = Offer(control, "heartbeat")
    /\ UNCHANGED <<shutdown, readerVars, scrapeVars, bulkVars, actorVars,
                   writerVars, serverVars, fate>>

(* The server asks whether this worker can take a request; a busy worker   *)
(* and wire v1 leave the question unanswered.                              *)
ReadReady ==
    /\ AtSelect
    /\ Protocol >= 2
    /\ Idle
    /\ control' = Offer(control, "ready")
    /\ UNCHANGED <<shutdown, readerVars, scrapeVars, bulkVars, actorVars,
                   writerVars, serverVars, fate>>

\* Mutant: a busy worker starts a second scrape.
ReadRequestWhileBusy(u) ==
    /\ AtSelect
    /\ fate[u] = "unseen"
    /\ active' = u
    /\ tasks' = tasks \cup {[uid |-> u, answer |-> "pending"]}
    /\ Settle(u, "owed")
    /\ UNCHANGED <<shutdown, reader, cause, completion, control, bulkVars,
                   actorVars, writerVars, serverVars>>

(* A request for an idle worker.                                           *)
ReadRequest(u) ==
    /\ AtSelect
    /\ Idle
    /\ fate[u] = "unseen"
    /\ active' = u
    /\ tasks' = tasks \cup {[uid |-> u, answer |-> "pending"]}
    /\ Settle(u, "owed")
    /\ UNCHANGED <<shutdown, reader, cause, completion, control, bulkVars,
                   actorVars, writerVars, serverVars>>

BusyRoom == ~ActorGone /\ Len(busyq) < BusyCap

(* A request for a busy worker: answer_busy answers it with a 503, unless  *)
(* the budget refuses even that.                                           *)
ReadRequestBusy(u) ==
    /\ AtSelect
    /\ ~Idle
    /\ fate[u] = "unseen"
    /\ \/ /\ Tight
          /\ Settle(u, "dropped")
          /\ UNCHANGED <<reader, cause, bulkVars, busyq>>
       \/ /\ Protocol = 3
          /\ BusyRoom
          /\ busyq' = Append(busyq, u)
          /\ Settle(u, "owed")
          /\ UNCHANGED <<reader, cause, bulkVars>>
       \/ /\ ~(Protocol = 3 /\ BusyRoom)
          /\ SessionQueues(Response(u, "busy"))
          /\ UNCHANGED busyq
    /\ UNCHANGED <<shutdown, active, scrapeVars, control, actor, posts,
                   writerVars, serverVars>>

ReadClose ==
    /\ AtSelect
    /\ EndRun("reply")
    /\ UNCHANGED <<shutdown, active, scrapeVars, control, bulkVars, actorVars,
                   writerVars, serverVars, fate>>

(* The read half failed, or ended without a close frame.                   *)
ReadFails ==
    /\ AtSelect
    /\ EndRun("error")
    /\ UNCHANGED <<shutdown, active, scrapeVars, control, bulkVars, actorVars,
                   writerVars, serverVars, fate>>

-----------------------------------------------------------------------------
(* The reader blocked in bulk.send().await: no arm of the select runs.     *)

ReaderPushes ==
    /\ reader = "queueing"
    /\ PushWaiting("session")
    /\ reader' = "select"
    /\ UNCHANGED <<shutdown, cause, active, scrapeVars, control, actorVars,
                   writerVars, serverVars, fate>>

ReaderSendFails ==
    /\ reader = "queueing"
    /\ GiveUpWaiting("session")
    /\ EndRun("error")
    /\ UNCHANGED <<shutdown, active, scrapeVars, control, bulk, actorVars,
                   writerVars, serverVars, fate>>

-----------------------------------------------------------------------------
\* Mutant: writer_done is not looked at.
FinishTaskUnchecked ==
    /\ reader = "finishing"
    /\ tasks' = {}
    /\ completion' = <<>>
    /\ active' = NoUid
    /\ \/ /\ cause \in Farewells
          /\ ControlRoom(control)
          /\ control' = Append(control, "close")
          /\ reader' = "flushing"
       \/ /\ ~(cause \in Farewells /\ ControlRoom(control))
          /\ reader' = "killing"
          /\ UNCHANGED control
    /\ UNCHANGED <<shutdown, cause, bulkVars, actorVars, writerVars,
                   serverVars, fate>>

(* Session::finish: the scrape task is aborted; unless the writer has been *)
(* joined, the senders are dropped around a last try_send of the farewell. *)
FinishTask ==
    /\ reader = "finishing"
    /\ tasks' = {}
    /\ completion' = <<>>
    /\ active' = NoUid
    /\ \/ /\ cause = "writer"
          /\ reader' = "reaping"
          /\ UNCHANGED control
       \/ /\ cause \in Farewells
          /\ ControlRoom(control)
          /\ control' = Append(control, "close")
          /\ reader' = "flushing"
       \/ /\ cause # "writer"
          /\ ~(cause \in Farewells /\ ControlRoom(control))
          /\ reader' = "killing"
          /\ UNCHANGED control
    /\ UNCHANGED <<shutdown, cause, bulkVars, actorVars, writerVars,
                   serverVars, fate>>

(* The writer's JoinHandle is awaited to its end. The writer arm of the    *)
(* select may have done so already: a handle that is awaited again panics. *)
JoinWriter == reader' = IF cause = "writer" THEN "panicked" ELSE "reaping"

(* The writer ended within close_timeout, or it did not.                   *)
Flushed ==
    /\ reader = "flushing"
    /\ WriterStopped
    /\ JoinWriter
    /\ UNCHANGED <<shutdown, cause, active, scrapeVars, control, bulkVars,
                   actorVars, writerVars, serverVars, fate>>

FlushTimesOut ==
    /\ reader = "flushing"
    /\ ~WriterStopped
    /\ reader' = "killing"
    /\ UNCHANGED <<shutdown, cause, active, scrapeVars, control, bulkVars,
                   actorVars, writerVars, serverVars, fate>>
=============================================================================
