----------------------------- MODULE Connection -----------------------------
(***************************************************************************)
(* One connection from the moment run_connection has spawned its tasks to  *)
(* its return: the composition of the reader, the scrape task, the busy    *)
(* actor and the writer, with a server that sends what it likes.           *)
(***************************************************************************)
EXTENDS SessionLoop, Scrape, BusyActor, Writer

(* The WebSocket is open and the register message is queued.               *)
Init ==
    /\ shutdown = FALSE
    /\ reader = "select"
    /\ cause = "none"
    /\ active = NoUid
    /\ tasks = {}
    /\ completion = <<>>
    /\ control = <<"register">>
    /\ bulk = <<>>
    /\ waiting = <<>>
    /\ actor = "select"
    /\ busyq = <<>>
    /\ posts = {}
    /\ writer = "select"
    /\ upload = NoResponse
    /\ net = {}
    /\ wire = [u \in Uids |-> <<>>]
    /\ fate = [u \in Uids |-> "unseen"]

(* The CancellationToken is cancelled, by a signal or by the supervisor.   *)
(* Once Session::run has returned the connection reads it no more.         *)
Cancel ==
    /\ ~shutdown
    /\ reader \in Running
    /\ shutdown' = TRUE
    /\ UNCHANGED <<readerVars, scrapeVars, control, bulkVars, actorVars,
                   writerVars, serverVars, fate>>

(* The farewell was not queued or not flushed in time: finish aborts the   *)
(* writer, wherever it is, and awaits it.                                  *)
Kill ==
    /\ reader = "killing"
    /\ JoinWriter
    /\ \/ /\ WriterStopped
          /\ UNCHANGED <<control, bulk, writerVars, wire>>
       \/ /\ ~WriterStopped
          /\ StopWriter("aborted")
          /\ UploadCutOff
    /\ UNCHANGED <<shutdown, cause, active, scrapeVars, waiting, actorVars, net, fate>>

\* Mutant: the busy actor is left running.
ReapDetached ==
    /\ reader = "reaping"
    /\ reader' = "ended"
    /\ UNCHANGED <<shutdown, cause, active, scrapeVars, control, bulkVars,
                   actorVars, writerVars, serverVars, fate>>

(* run_connection aborts the busy actor, awaits it and returns.            *)
Reap ==
    /\ reader = "reaping"
    /\ reader' = "ended"
    /\ actor' = IF ActorGone THEN actor ELSE "aborted"
    /\ busyq' = <<>>
    /\ posts' = {}
    /\ waiting' = <<>>
    /\ UNCHANGED <<shutdown, cause, active, scrapeVars, control, bulk,
                   writerVars, serverVars, fate>>

SelectNext ==
    \/ ShutdownArm
    \/ WriterArm
    \/ HeartbeatExpires
    \/ HeartbeatTick
    \/ CompletionArm
    \/ ReadPing
    \/ ReadReady
    \/ \E u \in Uids : ReadRequest(u) \/ ReadRequestBusy(u)
    \/ ReadClose
    \/ ReadFails

FinishNext ==
    \/ FinishTask
    \/ Flushed
    \/ FlushTimesOut
    \/ Kill
    \/ Reap

(* The connection has ended: nothing has to happen any more.               *)
Ended ==
    /\ reader = "ended"
    /\ UNCHANGED vars

Next ==
    \/ Cancel
    \/ SelectNext
    \/ ReaderPushes
    \/ ReaderSendFails
    \/ FinishNext
    \/ ScrapeNext
    \/ PostArrives
    \/ ActorNext
    \/ WriterNext
    \/ Ended

Spec == Init /\ [][Next]_vars

-----------------------------------------------------------------------------
(* The runtime runs every task that can run, and every wait on the network *)
(* has a timeout: exporter calls, POSTs, frames, the flush of the farewell.*)
(* The select of the reader is fair between its ready arms. The writer's   *)
(* is biased: it takes a bulk response if it is at its select again and    *)
(* again with no control frame queued, which is all that is assumed of it. *)
(* Nothing is assumed of the server, of the heartbeat or of the arrival of *)
(* a POST.                                                                 *)
Fairness ==
    /\ WF_vars(ShutdownArm)
    /\ WF_vars(CompletionArm)
    /\ WF_vars(WriterArm)
    /\ WF_vars(ReaderPushes \/ ReaderSendFails \/ FinishNext)
    /\ WF_vars(ScrapeNext)
    /\ WF_vars(ActorNext)
    /\ WF_vars(TakeControl \/ ControlSent \/ BulkSent \/ SendFails \/ CloseDone \/ Drained)
    /\ SF_vars(TakeBulk)

-----------------------------------------------------------------------------
(* Every variable has its type, and the channels and the actor keep within *)
(* their capacities.                                                       *)
TypeOK ==
    /\ shutdown \in BOOLEAN
    /\ reader \in Running \cup Finish \cup {"ended", "panicked"}
    /\ cause \in Farewells \cup {"none", "writer", "error"}
    /\ active \in Uids \cup {NoUid}
    /\ tasks \subseteq Tasks
    /\ completion \in Seq(Completions) /\ Len(completion) <= 1
    /\ control \in Seq(Frames) /\ Len(control) <= ControlCap
    /\ bulk \in Seq(Responses) /\ Len(bulk) <= BulkCap
    /\ waiting \in Seq([sender : Senders, item : Responses])
    /\ actor \in {"select", "queueing"} \cup {"returned", "aborted"}
    /\ busyq \in Seq(Uids) /\ Len(busyq) <= BusyCap
    /\ posts \subseteq Uids
    /\ writer \in {"select", "control", "bulk", "closing"} \cup Stopped
    /\ upload \in IF writer = "bulk" THEN Responses ELSE {NoResponse}
    /\ net \subseteq Responses
    /\ wire \in [Uids -> Seq(Copies)]
    /\ fate \in [Uids -> {"unseen", "owed", "answered", "dropped"}]

(* At most one scrape runs: its task, or what it has reported, belongs to  *)
(* the active request, and a worker that is idle has neither.              *)
OneScrape ==
    /\ \A t \in tasks : t.uid = active
    /\ \A t1, t2 \in tasks : t1 = t2
    /\ \A i \in DOMAIN completion : completion[i].uid = active /\ tasks = {}

(* The places that hold the response of request u, or the promise of it.   *)
At(q, u) == Cardinality({i \in DOMAIN q : q[i].uid = u})
HoldCount(u) ==
    Cardinality({t \in tasks : t.uid = u})
    + Cardinality({i \in DOMAIN completion :
                      completion[i].uid = u /\ completion[i].answer # "none"})
    + At(bulk, u)
    + Cardinality({i \in DOMAIN waiting : waiting[i].item.uid = u})
    + Cardinality({i \in DOMAIN busyq : busyq[i] = u})
    + Cardinality(posts \cap {u})
    + (IF upload.uid = u THEN 1 ELSE 0)

(* While the reader and the writer run, a request that is owed an answer   *)
(* is held in exactly one place and a request that is settled in none:     *)
(* no queue, blocked sender, fallback or task loses a response or keeps    *)
(* two of it. Once one of them has stopped, nothing is held twice.         *)
NoRequestLost ==
    \A u \in Uids :
        IF reader \in Running /\ ~WriterStopped
        THEN HoldCount(u) = IF fate[u] = "owed" THEN 1 ELSE 0
        ELSE HoldCount(u) <= 1

(* The copies of an answer that the server received agree: at most one by  *)
(* POST (and only on wire v3) and one as a frame, the same response except *)
(* that the frame may be the empty 500 of a response that did not fit.     *)
CopiesAgree ==
    \A u \in Uids : \A i, j \in DOMAIN wire[u] :
        /\ wire[u][i].via = "post" => Protocol = 3
        /\ wire[u][i].via = wire[u][j].via => i = j
        /\ wire[u][i].via = "post" /\ wire[u][j].via = "frame"
             => wire[u][j].answer \in Encodings(wire[u][i].answer)

(* The register message is the first frame on the connection: while it is  *)
(* queued it is first and nothing has been written, though requests may    *)
(* already have been read and answered.                                    *)
RegisterFirst ==
    (\E i \in DOMAIN control : control[i] = "register") =>
        /\ Head(control) = "register"
        /\ writer = "select"
        /\ \A u \in Uids : \A i \in DOMAIN wire[u] : wire[u][i].via = "post"

(* The farewell overtakes every queued response: once it is queued the     *)
(* writer finishes the frame it is sending but starts no other response.   *)
FarewellFirst ==
    [][reader = "flushing" => upload' \in {upload, NoResponse}]_vars

(* A connection that has ended left nothing behind: no task runs, no queue *)
(* holds a response and no sender waits.                                   *)
NoOrphans ==
    reader = "ended" =>
        /\ tasks = {} /\ active = NoUid
        /\ WriterStopped /\ ActorGone
        /\ control = <<>> /\ bulk = <<>> /\ waiting = <<>> /\ busyq = <<>>
        /\ completion = <<>> /\ posts = {} /\ upload = NoResponse

(* The writer's JoinHandle, which the select and finish both await, is     *)
(* never awaited again after it has ended: writer_done says whether it has,*)
(* wherever the reader learned that the writer is gone (its own arm, a     *)
(* failed send, the flush).                                                *)
JoinedOnce == reader # "panicked"

(* A sender that is blocked in bulk.send().await never gets further from  *)
(* its permit: whoever else finds a permit, queues behind it or gives up,  *)
(* the responses before its own get no more, and a permit that it holds,   *)
(* as Admitted says, is not taken back.                                    *)
NoOvertaking ==
    [][\A i \in DOMAIN waiting, k \in DOMAIN waiting' :
          waiting[i] = waiting'[k] =>
              \/ k <= BulkCap - Len(bulk')
              \/ Len(bulk') + k <= Len(bulk) + i]_vars

(* However fast the server sends requests, the busy actor has no more than *)
(* PostMax answers in hand, and the client holds no more responses than    *)
(* its channels have places for, besides one that is being scraped, one    *)
(* that is being written and one for which the reader itself waits.        *)
InHand == Cardinality(posts) + (IF actor = "queueing" THEN 1 ELSE 0)
Backpressure ==
    /\ InHand <= PostMax
    /\ Cardinality({u \in Uids : HoldCount(u) > 0})
         <= BulkCap + (IF Protocol = 3 THEN BusyCap + PostMax ELSE 0) + 3

(* The server never sees a frame for a request after the client learned    *)
(* that the request's answer was delivered, or gave the request up.        *)
(* This and the rest of Delivery's promises hold of every step.            *)
D == INSTANCE Delivery WITH
        open <- reader # "ended",
        PostAllowed <- Protocol = 3,
        copies <- [u \in Uids |-> [i \in DOMAIN wire[u] |-> wire[u][i].via]]
Delivers == D!Spec

-----------------------------------------------------------------------------
(* README.md: reading never waits for a network write. It does: the reader *)
(* that queues a response for a full bulk channel waits for the upload.    *)
ReadingNeverWaits == ~(reader = "queueing" /\ writer = "bulk")

(* README.md: the client sends a close frame when it ends a connection     *)
(* itself. The writer is about to be aborted, without having taken the     *)
(* frame, because its upload is still going on after close_timeout.        *)
FarewellWritten == ~(reader = "killing" /\ cause = "goodbye" /\ writer = "bulk")

-----------------------------------------------------------------------------
(* Once a shutdown is requested the connection ends, even when the reader  *)
(* is blocked behind a slow upload or the server keeps sending.            *)
ShutdownCompletes == shutdown ~> (reader = "ended")

(* A reader that is blocked behind the bulk channel runs again.            *)
ReaderResumes == (reader = "queueing") ~> (reader # "queueing")

(* As long as the control channel runs empty again and again, the bulk     *)
(* responses are not starved by it and every request read is answered or   *)
(* given up, or the connection ends.                                       *)
Served == \A u \in Uids :
    (fate[u] = "owed") ~> (fate[u] # "owed" \/ reader = "ended")
ServedUnlessFlooded ==
    []<>((writer = "select" /\ control = <<>>) \/ WriterStopped) => Served
=============================================================================
