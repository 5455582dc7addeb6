------------------------------- MODULE Writer -------------------------------
(***************************************************************************)
(* run_writer: the task that owns the write half of the WebSocket. Control *)
(* frames go before queued responses; a frame that cannot be sent in time  *)
(* ends the task, which drops both queues.                                 *)
(***************************************************************************)
EXTENDS ConnectionState

StopWriter(how) ==
    /\ writer' = how
    /\ control' = <<>>
    /\ bulk' = <<>>
    /\ upload' = NoResponse

(* The frame in hand may or may not have reached the server when sending   *)
(* it failed, timed out or was aborted.                                    *)
UploadCutOff ==
    \/ UNCHANGED wire
    \/ writer = "bulk" /\ Receive(upload.uid, "frame", upload.answer)

TakeControl ==
    /\ writer = "select"
    /\ control # <<>>
    /\ writer' = IF Head(control) = "close" THEN "closing" ELSE "control"
    /\ control' = Tail(control)
    /\ UNCHANGED <<shutdown, readerVars, scrapeVars, bulkVars, actorVars,
                   upload, serverVars, fate>>

ControlSent ==
    /\ writer = "control"
    /\ writer' = "select"
    /\ UNCHANGED <<shutdown, readerVars, scrapeVars, control, bulkVars,
                   actorVars, upload, serverVars, fate>>

\* Mutant: a select that is not biased to the control channel.
TakeBulkUnbiased ==
    /\ writer = "select"
    /\ bulk # <<>>
    /\ writer' = "bulk"
    /\ upload' = Head(bulk)
    /\ bulk' = Tail(bulk)
    /\ UNCHANGED <<shutdown, readerVars, scrapeVars, control, waiting,
                   actorVars, serverVars, fate>>

(* The select is biased: the bulk channel is received from only when no    *)
(* control frame is queued.                                                *)
TakeBulk ==
    /\ writer = "select"
    /\ control = <<>>
    /\ bulk # <<>>
    /\ writer' = "bulk"
    /\ upload' = Head(bulk)
    /\ bulk' = Tail(bulk)
    /\ UNCHANGED <<shutdown, readerVars, scrapeVars, control, waiting,
                   actorVars, serverVars, fate>>

BulkSent ==
    /\ writer = "bulk"
    /\ writer' = "select"
    /\ upload' = NoResponse
    /\ Receive(upload.uid, "frame", upload.answer)
    /\ Settle(upload.uid, "answered")
    /\ UNCHANGED <<shutdown, readerVars, scrapeVars, control, bulkVars,
                   actorVars, net>>

\* Mutant: a frame that failed is put back and sent again.
SendFailsAndRetries ==
    /\ writer = "bulk"
    /\ writer' = "select"
    /\ upload' = NoResponse
    /\ bulk' = <<upload>> \o bulk
    /\ UploadCutOff
    /\ UNCHANGED <<shutdown, readerVars, scrapeVars, control, waiting, actorVars, net, fate>>

(* send_ws returned an error or timed out.                                 *)
SendFails ==
    /\ writer \in {"control", "bulk"}
    /\ StopWriter("failed")
    /\ UploadCutOff
    /\ UNCHANGED <<shutdown, readerVars, scrapeVars, waiting, actorVars, net, fate>>

(* The close frame was sent or not, the sink is closed or its timeout ran  *)
(* out: the task returns Ok in every case.                                 *)
CloseDone ==
    /\ writer = "closing"
    /\ StopWriter("closed")
    /\ UNCHANGED <<shutdown, readerVars, scrapeVars, waiting, actorVars,
                   serverVars, fate>>

(* Both channels are closed and empty: every sender is dropped.            *)
Drained ==
    /\ writer = "select"
    /\ SendersDropped
    /\ ActorGone
    /\ control = <<>>
    /\ bulk = <<>>
    /\ StopWriter("drained")
    /\ UNCHANGED <<shutdown, readerVars, scrapeVars, waiting, actorVars,
                   serverVars, fate>>

WriterNext ==
    \/ TakeControl
    \/ ControlSent
    \/ TakeBulk
    \/ BulkSent
    \/ SendFails
    \/ CloseDone
    \/ Drained
=============================================================================
