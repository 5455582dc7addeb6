-------------------------- MODULE ConnectionSafety --------------------------
(***************************************************************************)
(* Safety invariants of Connection, for every value of its constants. Each *)
(* has an inductive strengthening, proved on top of the type invariant.    *)
(***************************************************************************)
EXTENDS ConnectionProofs

USE NoUidAssumption, ProtocolAssumption, CapAssumption
USE DEF vars, readerVars, scrapeVars, bulkVars, actorVars, writerVars, serverVars

-----------------------------------------------------------------------------
(* One scrape at a time.                                                   *)
LEMMA ScrapeOneScrape == TypeOK /\ OneScrape /\ ScrapeNext => OneScrape'
<1> SUFFICES ASSUME TypeOK, OneScrape, NEW t \in tasks, ScrapeStep(t)
             PROVE  OneScrape'
  BY DEF ScrapeNext
<1>1. t.uid = active /\ tasks = {t} /\ completion = <<>>
  <2>1. DOMAIN completion = 1..Len(completion) /\ Len(completion) \in Nat
    BY DEF TypeOK
  <2>2. \A i \in DOMAIN completion : FALSE
    BY DEF OneScrape
  <2> QED
    BY <2>1, <2>2 DEF OneScrape, TypeOK
<1>2. ASSUME NEW a, Report(t, a), active' = active
      PROVE  OneScrape'
  BY <1>1, <1>2 DEF OneScrape, Report
<1>3. ASSUME NEW a, tasks' = (tasks \ {t}) \cup {[t EXCEPT !.answer = a]},
             UNCHANGED <<completion, active>>
      PROVE  OneScrape'
  <2>1. [t EXCEPT !.answer = a].uid = active
    BY <1>1 DEF TypeOK, Tasks
  <2> QED
    BY <1>1, <1>3, <2>1 DEF OneScrape
<1>4. CASE ExporterAnswers(t)
  BY <1>2, <1>3, <1>4 DEF ExporterAnswers
<1> QED
  BY <1>2, <1>4 DEF ScrapeStep, ExporterRefused, PostAccepted, PostFallsBack,
                    PostAbandoned

LEMMA ReaderOneScrape ==
    TypeOK /\ OneScrape /\ (SelectNext \/ FinishNext) => OneScrape'
<1> SUFFICES ASSUME TypeOK, OneScrape, SelectNext \/ FinishNext
             PROVE  OneScrape'
  OBVIOUS
<1>1. CASE UNCHANGED <<active, tasks, completion>>
  BY <1>1 DEF OneScrape
<1>2. CASE CompletionArm
  <2>1. completion # <<>> /\ completion' = Tail(completion) /\ Len(completion) <= 1
    BY <1>2 DEF CompletionArm, TypeOK
  <2>2. completion' = <<>>
    BY <2>1 DEF TypeOK
  <2>3. 1 \in DOMAIN completion
    BY <2>1 DEF TypeOK
  <2>4. tasks = {} /\ tasks' = {}
    BY <1>2, <2>3 DEF OneScrape, CompletionArm
  <2> QED
    BY <2>2, <2>4 DEF OneScrape
<1>3. ASSUME NEW u \in Uids, ReadRequest(u)
      PROVE  OneScrape'
  <2>1. active = NoUid
    BY <1>3 DEF ReadRequest, Idle
  <2>2. tasks = {}
    BY <2>1 DEF OneScrape, TypeOK, Tasks
  <2>3. completion = <<>>
    <3>1. \A i \in DOMAIN completion : completion[i] \in Completions
      BY DEF TypeOK
    <3>2. \A i \in DOMAIN completion : completion[i].uid \in Uids
      BY <3>1 DEF Completions
    <3>3. DOMAIN completion = {}
      BY <2>1, <3>2 DEF OneScrape
    <3> QED
      BY <3>3 DEF TypeOK
  <2> QED
    BY <1>3, <2>2, <2>3 DEF OneScrape, ReadRequest
<1>4. CASE FinishTask
  BY <1>4 DEF OneScrape, FinishTask
<1> QED
  BY <1>1, <1>2, <1>3, <1>4
     DEF SelectNext, FinishNext, ShutdownArm, WriterArm, HeartbeatExpires,
         HeartbeatTick, ReadPing, ReadReady, ReadRequestBusy, ReadClose, ReadFails,
         Flushed, JoinWriter, FlushTimesOut, Kill, Reap

(* No two scrapes run on one connection, and what a scrape has reported is *)
(* the answer of the request the worker is busy with.                      *)
THEOREM OneScrapeAtATime == Spec => []OneScrape
<1>1. Init => OneScrape
  BY DEF Init, OneScrape
<1>2. TypeOK /\ OneScrape /\ [Next]_vars => OneScrape'
  <2> SUFFICES ASSUME TypeOK, OneScrape, [Next]_vars,
                      UNCHANGED <<active, tasks, completion>>
               PROVE  OneScrape'
    BY ScrapeOneScrape, ReaderOneScrape
       DEF Next, Cancel, ReaderPushes, ReaderSendFails, PostArrives, ActorNext,
           ActorTakes, BusyPostAccepted, BusyPostFails, ActorPushes,
           ActorSendFails, ActorDone, WriterNext, TakeControl, ControlSent,
           TakeBulk, BulkSent, SendFails, CloseDone, Drained, Ended
  <2> QED
    BY DEF OneScrape
<1> QED
  BY <1>1, <1>2, TypeCorrect, PTL DEF Spec

-----------------------------------------------------------------------------
(* The register message, while it is queued, is the first of its channel   *)
(* and the only one, the writer has taken nothing and no frame was sent.   *)
RegisterInv ==
    \A i \in DOMAIN control : control[i] = "register" =>
        /\ i = 1
        /\ writer = "select"
        /\ \A u \in Uids : \A j \in DOMAIN wire[u] : wire[u][j].via = "post"

LEMMA OfferRegister ==
    ASSUME NEW q \in Seq(Frames), NEW frame \in Frames \ {"register"},
           NEW i \in DOMAIN Offer(q, frame), Offer(q, frame)[i] = "register"
    PROVE  i \in DOMAIN q /\ q[i] = "register"
<1>1. CASE ControlRoom(q)
  BY <1>1, AppendProperties DEF Offer
<1> QED
  BY <1>1 DEF Offer

(* Every action but those of the writer only adds frames other than the    *)
(* register message, and lets nothing but POSTs arrive.                    *)
LEMMA ReaderRegisterInv ==
    ASSUME TypeOK, RegisterInv, SelectNext \/ FinishNext
    PROVE  RegisterInv'
<1>1. CASE UNCHANGED <<control, writer, wire>>
  BY <1>1 DEF RegisterInv
<1>2. ASSUME NEW frame \in Frames \ {"register"}, control' = Offer(control, frame),
             UNCHANGED <<writer, wire>>
      PROVE  RegisterInv'
  BY <1>2, OfferRegister DEF RegisterInv, TypeOK
<1>3. CASE HeartbeatTick
  <2> DEFINE q == Offer(control, "heartbeat")
  <2>1. "heartbeat" \in Frames \ {"register"}
    BY DEF Frames
  <2>2. q \in Seq(Frames)
    BY <2>1, OfferType DEF TypeOK
  <2>3. control' = Offer(q, "heartbeat") /\ UNCHANGED <<writer, wire>>
    BY <1>3 DEF HeartbeatTick
  <2>4. ASSUME NEW i \in DOMAIN control', control'[i] = "register"
        PROVE  i \in DOMAIN control /\ control[i] = "register"
    <3> HIDE DEF q
    <3>1. i \in DOMAIN q /\ q[i] = "register"
      BY <2>1, <2>2, <2>3, <2>4, OfferRegister
    <3> QED
      BY <2>1, <3>1, OfferRegister DEF q, TypeOK
  <2> QED
    BY <2>3, <2>4 DEF RegisterInv
<1>4. CASE ReadPing \/ ReadReady
  BY <1>2, <1>4 DEF ReadPing, ReadReady, Frames
<1>5. CASE FinishTask
  <2>1. CASE ControlRoom(control) /\ control' = Append(control, "close")
    BY <1>2, <1>5, <2>1 DEF FinishTask, Offer, Frames
  <2>2. CASE UNCHANGED control
    BY <1>1, <1>5, <2>2 DEF FinishTask
  <2> QED
    BY <1>5, <2>1, <2>2 DEF FinishTask
<1>6. CASE Kill
  <2>1. CASE UNCHANGED <<control, writer, wire>>
    BY <1>1, <2>1
  <2>2. CASE StopWriter("aborted")
    BY <2>2 DEF StopWriter, RegisterInv
  <2> QED
    BY <1>6, <2>1, <2>2 DEF Kill, JoinWriter
<1> QED
  BY <1>1, <1>3, <1>4, <1>5, <1>6
     DEF SelectNext, FinishNext, ShutdownArm, WriterArm, HeartbeatExpires,
         CompletionArm, ReadRequest, ReadRequestBusy, ReadClose, ReadFails, Flushed,
         FlushTimesOut, Reap

LEMMA WriterRegisterInv ==
    ASSUME TypeOK, RegisterInv, WriterNext
    PROVE  RegisterInv'
<1>1. CASE control' = <<>>
  BY <1>1 DEF RegisterInv
<1>2. CASE TakeControl
  <2>1. control # <<>> /\ control' = Tail(control)
    BY <1>2 DEF TakeControl
  <2>2. \A i \in DOMAIN control' : i + 1 \in DOMAIN control /\ i + 1 # 1
                                  /\ control'[i] = control[i + 1]
    BY <2>1, HeadTailProperties DEF TypeOK
  <2> QED
    BY <2>2 DEF RegisterInv
<1>3. CASE ControlSent \/ BulkSent
  <2>1. \A i \in DOMAIN control : control[i] # "register"
    BY <1>3 DEF RegisterInv, ControlSent, BulkSent
  <2> QED
    BY <1>3, <2>1 DEF RegisterInv, ControlSent, BulkSent
<1>4. CASE TakeBulk
  BY <1>4 DEF RegisterInv, TakeBulk
<1> QED
  BY <1>1, <1>2, <1>3, <1>4
     DEF WriterNext, SendFails, CloseDone, Drained, StopWriter

LEMMA PostRegisterInv ==
    ASSUME TypeOK, RegisterInv, PostArrives
    PROVE  RegisterInv'
<1> PICK r \in net : Receive(r.uid, "post", r.answer)
  BY DEF PostArrives
<1>1. r.uid \in Uids /\ r.answer \in Answers
  BY DEF TypeOK, Responses
<1>2. UNCHANGED <<control, writer>>
  BY DEF PostArrives
<1>3. ASSUME NEW u \in Uids, \A j \in DOMAIN wire[u] : wire[u][j].via = "post"
      PROVE  \A j \in DOMAIN wire'[u] : wire'[u][j].via = "post"
  <2> DEFINE c == [via |-> "post", answer |-> r.answer]
  <2>1. c \in Copies /\ c.via = "post" /\ wire[u] \in Seq(Copies)
    BY <1>1 DEF Copies, TypeOK
  <2>2. wire'[u] = IF u = r.uid THEN Append(wire[u], c) ELSE wire[u]
    BY DEF Receive, TypeOK
  <2> HIDE DEF c
  <2> QED
    BY <1>3, <2>1, <2>2, AppendProperties
<1> QED
  BY <1>2, <1>3 DEF RegisterInv

(* Nothing is written on a connection before its register message.         *)
THEOREM RegisterIsFirst == Spec => []RegisterFirst
<1>1. Init => RegisterInv
  BY DEF Init, RegisterInv
<1>2. TypeOK /\ RegisterInv /\ [Next]_vars => RegisterInv'
  <2> SUFFICES ASSUME TypeOK, RegisterInv, [Next]_vars, UNCHANGED <<control, writer, wire>>
               PROVE  RegisterInv'
    BY ReaderRegisterInv, WriterRegisterInv, PostRegisterInv
       DEF Next, Cancel, ReaderPushes, ReaderSendFails, ScrapeNext, ScrapeStep,
           ExporterRefused, ExporterAnswers, PostAccepted, PostFallsBack,
           PostAbandoned, ActorNext, ActorTakes, BusyPostAccepted,
           BusyPostFails, ActorPushes, ActorSendFails, ActorDone, Ended
  <2> QED
    BY DEF RegisterInv
<1>3. TypeOK /\ RegisterInv => RegisterFirst
  <2> SUFFICES ASSUME TypeOK, RegisterInv, NEW i \in DOMAIN control,
                      control[i] = "register"
               PROVE  RegisterFirst
    BY DEF RegisterFirst
  <2>1. i = 1 /\ control # <<>> /\ Head(control) = control[1]
    BY DEF RegisterInv, TypeOK
  <2> QED
    BY <2>1 DEF RegisterInv, RegisterFirst
<1> QED
  BY <1>1, <1>2, <1>3, TypeCorrect, PTL DEF Spec

-----------------------------------------------------------------------------
(* What has stopped holds nothing, and the reader goes through the stages  *)
(* of its end only when the tasks it has to wait for have stopped.         *)
StoppedInv ==
    /\ WriterStopped => control = <<>> /\ bulk = <<>>
    /\ ActorGone => busyq = <<>> /\ posts = {}
    /\ SendersDropped => tasks = {} /\ active = NoUid /\ completion = <<>>
    /\ cause = "writer" => WriterStopped
    /\ reader \in {"reaping", "ended"} => WriterStopped
    /\ reader = "ended" => ActorGone /\ waiting = <<>>

USE DEF Stopped, WriterStopped, ActorGone, SendersDropped

LEMMA QueueResponseStopped ==
    ASSUME NEW s, NEW r, NEW outcome, QueueResponse(s, r, outcome), WriterStopped
    PROVE  UNCHANGED bulkVars
BY DEF QueueResponse

LEMMA SessionQueuesStopped ==
    ASSUME StoppedInv, NEW r, SessionQueues(r), reader = "select",
           UNCHANGED <<control, actor, posts, writer>>,
           ActorGone => UNCHANGED busyq
    PROVE  StoppedInv'
<1>1. reader' \in {"select", "queueing", "finishing"}
  BY DEF SessionQueues, EndRun
<1>2. cause' = cause \/ cause' = "error"
  BY DEF SessionQueues, EndRun
<1>3. WriterStopped => bulk' = bulk
  BY QueueResponseStopped DEF SessionQueues
<1> QED
  BY <1>1, <1>2, <1>3 DEF StoppedInv

LEMMA SelectStopped == StoppedInv /\ SelectNext => StoppedInv'
<1> SUFFICES ASSUME StoppedInv, SelectNext PROVE StoppedInv'
  OBVIOUS
<1> USE DEF AtSelect
<1>1. CASE ShutdownArm \/ WriterArm \/ HeartbeatExpires \/ ReadClose \/ ReadFails
  BY <1>1 DEF StoppedInv, ShutdownArm, WriterArm, HeartbeatExpires, ReadClose,
              ReadFails, EndRun
<1>2. CASE HeartbeatTick \/ ReadPing \/ ReadReady
  BY <1>2 DEF StoppedInv, HeartbeatTick, ReadPing, ReadReady, Offer, ControlRoom
<1>3. CASE CompletionArm
  <2>1. CASE SessionQueues(Head(completion))
    BY <1>3, <2>1, SessionQueuesStopped DEF CompletionArm
  <2>2. CASE UNCHANGED <<reader, cause, bulkVars>>
    BY <1>3, <2>2 DEF StoppedInv, CompletionArm
  <2> QED
    BY <1>3, <2>1, <2>2 DEF CompletionArm
<1>4. ASSUME NEW u \in Uids, ReadRequest(u)
      PROVE  StoppedInv'
  BY <1>4 DEF StoppedInv, ReadRequest
<1>5. ASSUME NEW u \in Uids, ReadRequestBusy(u)
      PROVE  StoppedInv'
  <2>1. CASE SessionQueues(Response(u, "busy")) /\ UNCHANGED busyq
    BY <1>5, <2>1, SessionQueuesStopped DEF ReadRequestBusy
  <2>2. CASE UNCHANGED <<reader, cause, bulkVars>> /\ (ActorGone => UNCHANGED busyq)
    BY <1>5, <2>2 DEF StoppedInv, ReadRequestBusy
  <2> QED
    BY <1>5, <2>1, <2>2 DEF ReadRequestBusy, BusyRoom
<1> QED
  BY <1>1, <1>2, <1>3, <1>4, <1>5 DEF SelectNext

LEMMA FinishStopped ==
    ASSUME TypeOK, StoppedInv, ReaderPushes \/ ReaderSendFails \/ FinishNext \/ Cancel
    PROVE  StoppedInv'
<1>1. CASE ReaderPushes
  BY <1>1 DEF StoppedInv, ReaderPushes, PushWaiting
<1>2. CASE ReaderSendFails
  BY <1>2 DEF StoppedInv, ReaderSendFails, GiveUpWaiting, EndRun
<1>3. CASE FinishTask
  <2>1. /\ tasks' = {} /\ active' = NoUid /\ completion' = <<>>
        /\ reader' \in {"flushing", "killing", "reaping"}
        /\ reader' = "reaping" => WriterStopped
        /\ WriterStopped => control' = control
        /\ UNCHANGED <<cause, bulkVars, actorVars, writerVars>>
    BY <1>3 DEF StoppedInv, FinishTask, ControlRoom
  <2> QED
    BY <2>1 DEF StoppedInv
<1>4. CASE Flushed \/ FlushTimesOut
  BY <1>4 DEF StoppedInv, Flushed, JoinWriter, FlushTimesOut
<1>5. CASE Kill
  <2>1. CASE WriterStopped /\ UNCHANGED <<control, bulk, writerVars>>
    BY <1>5, <2>1 DEF StoppedInv, Kill, JoinWriter
  <2>2. CASE StopWriter("aborted")
    BY <1>5, <2>2 DEF StoppedInv, Kill, JoinWriter, StopWriter
  <2> QED
    BY <1>5, <2>1, <2>2 DEF Kill, JoinWriter
<1>6. CASE Reap
  BY <1>6 DEF StoppedInv, Reap
<1>7. CASE Cancel
  BY <1>7 DEF StoppedInv, Cancel
<1> QED
  BY <1>1, <1>2, <1>3, <1>4, <1>5, <1>6, <1>7 DEF FinishNext

LEMMA ScrapeStopped == StoppedInv /\ (ScrapeNext \/ PostArrives) => StoppedInv'
<1> SUFFICES ASSUME StoppedInv, ScrapeNext \/ PostArrives PROVE StoppedInv'
  OBVIOUS
<1>1. CASE ScrapeNext
  <2>1. UNCHANGED <<control, bulkVars, actorVars, writerVars, readerVars>>
    BY <1>1 DEF ScrapeNext, ScrapeStep, ExporterRefused, ExporterAnswers,
                PostAccepted, PostFallsBack, PostAbandoned
  <2>2. ~SendersDropped
    BY <1>1 DEF StoppedInv, ScrapeNext
  <2> QED
    BY <2>1, <2>2 DEF StoppedInv
<1>2. CASE PostArrives
  BY <1>2 DEF StoppedInv, PostArrives
<1> QED
  BY <1>1, <1>2

LEMMA ActorStopped == TypeOK /\ StoppedInv /\ ActorNext => StoppedInv'
<1> SUFFICES ASSUME TypeOK, StoppedInv, ActorNext PROVE StoppedInv'
  OBVIOUS
<1>1. actor \in {"select", "queueing"} /\ reader # "ended"
  BY DEF StoppedInv, ActorNext, ActorTakes, BusyPostAccepted, BusyPostFails,
         ActorPushes, ActorSendFails, ActorDone
<1>2. /\ UNCHANGED <<readerVars, scrapeVars, control, writerVars>>
      /\ WriterStopped => bulk' = bulk
  BY QueueResponseStopped
     DEF ActorNext, ActorTakes, BusyPostAccepted, BusyPostFails, ActorPushes,
         PushWaiting, ActorSendFails, ActorDone
<1>3. actor' \in {"select", "queueing"} \/ (actor' = "returned" /\ busyq' = <<>> /\ posts' = {})
  BY <1>1 DEF ActorNext, ActorTakes, BusyPostAccepted, BusyPostFails,
         ActorPushes, ActorSendFails, ActorDone, ActorReturns
<1> QED
  BY <1>1, <1>2, <1>3 DEF StoppedInv

LEMMA WriterStoppedInv == TypeOK /\ StoppedInv /\ WriterNext => StoppedInv'
<1> SUFFICES ASSUME TypeOK, StoppedInv, WriterNext PROVE StoppedInv'
  OBVIOUS
<1>1. /\ ~WriterStopped
      /\ WriterStopped' => control' = <<>> /\ bulk' = <<>>
      /\ UNCHANGED <<readerVars, scrapeVars, waiting, actorVars>>
  BY DEF WriterNext, TakeControl, ControlSent, TakeBulk, BulkSent, SendFails,
         CloseDone, Drained, StopWriter
<1> QED
  BY <1>1 DEF StoppedInv

(* When run_connection returns, no task of the connection runs any more,   *)
(* no channel holds anything and nobody waits.                             *)
THEOREM NothingIsLeftBehind == Spec => []NoOrphans
<1>1. Init => StoppedInv
  BY DEF Init, StoppedInv
<1>2. TypeOK /\ StoppedInv /\ [Next]_vars => StoppedInv'
  <2> SUFFICES ASSUME TypeOK, StoppedInv, Ended \/ UNCHANGED vars
               PROVE  StoppedInv'
    BY SelectStopped, FinishStopped, ScrapeStopped, ActorStopped, WriterStoppedInv
       DEF Next
  <2> QED
    BY DEF StoppedInv, Ended
<1>3. TypeOK /\ StoppedInv => NoOrphans
  BY DEF TypeOK, StoppedInv, NoOrphans
<1> QED
  BY <1>1, <1>2, <1>3, TypeCorrect, PTL DEF Spec

(* What the reader still awaits of the writer it has not joined before: it *)
(* leaves its run for the stages that await the writer only while          *)
(* writer_done is unset, and polls the writer's arm no more from then on.  *)
JoinInv ==
    /\ reader \in {"flushing", "killing"} => cause # "writer"
    /\ reader # "panicked"

(* The reader never awaits the writer's JoinHandle after it has ended,     *)
(* whichever way it learned of that (Session::run, Session::finish).       *)
THEOREM WriterIsJoinedOnce == Spec => []JoinedOnce
<1>1. Init => JoinInv
  BY DEF Init, JoinInv
<1>2. JoinInv /\ [Next]_vars => JoinInv'
  <2> SUFFICES ASSUME JoinInv, [Next]_vars PROVE JoinInv'
    OBVIOUS
  <2>1. CASE UNCHANGED <<reader, cause>>
    BY <2>1 DEF JoinInv
  <2>2. CASE reader' \in {"select", "queueing", "finishing"}
    BY <2>2 DEF JoinInv
  <2>3. CASE FinishTask
    <3>1. cause' = cause
      BY <2>3 DEF FinishTask
    <3>2. reader' = "reaping" \/ (cause # "writer" /\ reader' \in {"flushing", "killing"})
      BY <2>3 DEF FinishTask, Farewells
    <3> QED
      BY <3>1, <3>2 DEF JoinInv
  <2>4. CASE Flushed
    <3>1. cause # "writer" /\ JoinWriter /\ cause' = cause
      BY <2>4 DEF JoinInv, Flushed
    <3> QED
      BY <3>1 DEF JoinInv, JoinWriter
  <2>5. CASE FlushTimesOut
    BY <2>5 DEF JoinInv, FlushTimesOut
  <2>6. CASE Kill
    <3>1. cause # "writer" /\ JoinWriter /\ cause' = cause
      BY <2>6 DEF JoinInv, Kill
    <3> QED
      BY <3>1 DEF JoinInv, JoinWriter
  <2>7. CASE Reap
    BY <2>7 DEF JoinInv, Reap
  <2>8. ASSUME SelectNext
        PROVE  UNCHANGED <<reader, cause>> \/ reader' \in {"select", "queueing", "finishing"}
    BY <2>8 DEF SelectNext, ShutdownArm, WriterArm, HeartbeatExpires, HeartbeatTick,
                CompletionArm, ReadPing, ReadReady, ReadRequest, ReadRequestBusy,
                ReadClose, ReadFails, SessionQueues, EndRun
  <2>9. ASSUME ReaderPushes \/ ReaderSendFails
        PROVE  reader' \in {"select", "finishing"}
    BY <2>9 DEF ReaderPushes, ReaderSendFails, EndRun
  <2>10. ASSUME Cancel \/ ScrapeNext \/ PostArrives \/ ActorNext \/ WriterNext \/ Ended
        PROVE  UNCHANGED <<reader, cause>>
    BY <2>10 DEF Cancel, ScrapeNext, ScrapeStep, ExporterRefused, ExporterAnswers,
                PostAccepted, PostFallsBack, PostAbandoned, PostArrives, ActorNext,
                ActorTakes, BusyPostAccepted, BusyPostFails, ActorPushes, ActorSendFails,
                ActorDone, WriterNext, TakeControl, ControlSent, TakeBulk, BulkSent,
                SendFails, CloseDone, Drained, Ended
  <2> QED
    BY <2>1, <2>2, <2>3, <2>4, <2>5, <2>6, <2>7, <2>8, <2>9, <2>10
       DEF Next, FinishNext
<1>3. JoinInv => JoinedOnce
  BY DEF JoinInv, JoinedOnce
<1> QED
  BY <1>1, <1>2, <1>3, PTL DEF Spec

-----------------------------------------------------------------------------
(* A waiting sender, and the senders that wait.                            *)
Waiter == [sender : Senders, item : Responses]
Blocked(q) == {q[i].sender : i \in 1..Len(q)}
Once(q) == \A i, j \in 1..Len(q) : q[i].sender = q[j].sender => i = j

(* A task waits in the channel exactly when it is blocked, at most once.   *)
BlockedInv ==
    /\ Once(waiting)
    /\ "session" \in Blocked(waiting) <=> reader = "queueing"
    /\ "actor" \in Blocked(waiting) <=> actor = "queueing"

LEMMA AppendBlocks ==
    ASSUME NEW q \in Seq(Waiter), NEW e \in Waiter
    PROVE  /\ Append(q, e) \in Seq(Waiter)
           /\ Blocked(Append(q, e)) = Blocked(q) \cup {e.sender}
           /\ Once(q) /\ e.sender \notin Blocked(q) => Once(Append(q, e))
<1>1. /\ Append(q, e) \in Seq(Waiter)
      /\ Len(Append(q, e)) = Len(q) + 1
      /\ \A i \in 1..Len(q) : Append(q, e)[i] = q[i]
      /\ Append(q, e)[Len(q) + 1] = e
  BY AppendProperties
<1> DEFINE p == Append(q, e)
<1> HIDE DEF p
<1>2. /\ Len(q) \in Nat /\ Len(p) = Len(q) + 1
      /\ \A i \in 1..Len(q) : p[i] = q[i]
      /\ p[Len(q) + 1] = e
  BY <1>1, LenProperties DEF p
<1>3. Blocked(p) = Blocked(q) \cup {e.sender}
  BY <1>2 DEF Blocked
<1>4. ASSUME Once(q), e.sender \notin Blocked(q) PROVE Once(p)
  BY <1>2, <1>4 DEF Once, Blocked
<1> QED
  BY <1>1, <1>3, <1>4 DEF p

LEMMA LeavingUnblocks ==
    ASSUME NEW q \in Seq(Waiter), Once(q), NEW k \in 1..Len(q)
    PROVE  /\ Once(RemoveAt(q, k))
           /\ Blocked(RemoveAt(q, k)) = Blocked(q) \ {q[k].sender}
<1> DEFINE p == RemoveAt(q, k)
<1>1. /\ Len(q) \in Nat /\ Len(p) = Len(q) - 1
      /\ \A j \in 1..(Len(q) - 1) : p[j] = IF j < k THEN q[j] ELSE q[j + 1]
  BY RemoveAtProperties, LenProperties
<1> HIDE DEF p
<1>2. Once(p)
  BY <1>1 DEF Once
<1>3. Blocked(p) \subseteq Blocked(q) \ {q[k].sender}
  BY <1>1 DEF Once, Blocked
<1>4. ASSUME NEW i \in 1..Len(q), i # k
      PROVE  q[i].sender \in Blocked(p)
  <2>1. CASE i < k
    BY <1>1, <2>1 DEF Blocked
  <2>2. CASE i > k
    <3>1. i - 1 \in 1..(Len(q) - 1) /\ ~(i - 1 < k) /\ (i - 1) + 1 = i
      BY <1>1, <2>2
    <3> QED
      BY <1>1, <3>1 DEF Blocked
  <2> QED
    BY <1>4, <2>1, <2>2
<1>5. Blocked(q) \ {q[k].sender} \subseteq Blocked(p)
  BY <1>4 DEF Blocked
<1> QED
  BY <1>2, <1>3, <1>5 DEF p

(* queue_ws_response blocks its caller or leaves the waiting senders alone.*)
LEMMA QueueResponseBlocks ==
    ASSUME TypeOK, BlockedInv, NEW s \in Senders, s \notin Blocked(waiting),
           NEW r \in Responses, NEW outcome, QueueResponse(s, r, outcome)
    PROVE  IF outcome = "blocked"
           THEN Once(waiting') /\ Blocked(waiting') = Blocked(waiting) \cup {s}
           ELSE waiting' = waiting
<1>1. CASE outcome = "blocked"
  <2>1. PICK a \in Encodings(r.answer) :
          waiting' = Append(waiting, [sender |-> s, item |-> Response(r.uid, a)])
    BY <1>1 DEF QueueResponse
  <2>2. r.uid \in Uids /\ a \in Answers
    BY EncodingsType DEF Responses
  <2>3. [sender |-> s, item |-> Response(r.uid, a)] \in Waiter
    BY <2>2 DEF Waiter, Response, Responses
  <2>4. waiting \in Seq(Waiter) /\ Once(waiting)
    BY DEF TypeOK, Waiter, BlockedInv
  <2> QED
    BY <1>1, <2>1, <2>3, <2>4, AppendBlocks
<1>2. CASE outcome # "blocked"
  BY <1>2 DEF QueueResponse
<1> QED
  BY <1>1, <1>2

(* A sender that leaves is the one that was blocked.                       *)
LEMMA LeavesUnblocks ==
    ASSUME TypeOK, BlockedInv, NEW s, PushWaiting(s) \/ GiveUpWaiting(s)
    PROVE  Once(waiting') /\ Blocked(waiting') = Blocked(waiting) \ {s}
<1>1. PICK k : Leaves(s, k)
  BY DEF PushWaiting, GiveUpWaiting
<1>2. waiting \in Seq(Waiter) /\ Once(waiting)
  BY DEF TypeOK, Waiter, BlockedInv
<1>3. k \in 1..Len(waiting) /\ waiting[k].sender = s /\ waiting' = RemoveAt(waiting, k)
  BY <1>1, <1>2 DEF Leaves
<1> QED
  BY <1>2, <1>3, LeavingUnblocks

LEMMA SessionQueuesBlocks ==
    ASSUME TypeOK, BlockedInv, NEW r \in Responses, SessionQueues(r),
           reader = "select", UNCHANGED actor
    PROVE  BlockedInv'
<1>1. PICK outcome \in Outcomes :
        /\ QueueResponse("session", r, outcome)
        /\ \/ /\ outcome # "broken"
              /\ reader' = IF outcome = "blocked" THEN "queueing" ELSE "select"
           \/ /\ outcome = "broken"
              /\ reader' = "finishing"
  BY DEF SessionQueues, EndRun
<1>2. "session" \notin Blocked(waiting)
  BY DEF BlockedInv
<1>3. IF outcome = "blocked"
      THEN Once(waiting') /\ Blocked(waiting') = Blocked(waiting) \cup {"session"}
      ELSE waiting' = waiting
  BY <1>1, <1>2, QueueResponseBlocks DEF Senders
<1> QED
  BY <1>1, <1>3 DEF BlockedInv

LEMMA SelectBlocks == TypeOK /\ BlockedInv /\ SelectNext => BlockedInv'
<1> SUFFICES ASSUME TypeOK, BlockedInv, SelectNext PROVE BlockedInv'
  OBVIOUS
<1>1. reader = "select" /\ UNCHANGED actor
  BY DEF SelectNext, AtSelect, ShutdownArm, WriterArm, HeartbeatExpires, HeartbeatTick,
         CompletionArm, ReadPing, ReadReady, ReadRequest, ReadRequestBusy, ReadClose, ReadFails
<1>2. CASE UNCHANGED waiting /\ reader' \in {"select", "finishing"}
  BY <1>1, <1>2 DEF BlockedInv
<1>3. CASE CompletionArm
  <2>1. Head(completion) \in Completions
    BY <1>3 DEF TypeOK, CompletionArm
  <2>2. CASE Head(completion).answer # "none" /\ SessionQueues(Head(completion))
    <3>1. Head(completion) \in Responses
      BY <2>1, <2>2 DEF Completions, Responses
    <3> QED
      BY <1>1, <2>2, <3>1, SessionQueuesBlocks
  <2> QED
    BY <1>1, <1>2, <1>3, <2>2 DEF CompletionArm
<1>4. ASSUME NEW u \in Uids, ReadRequestBusy(u) PROVE BlockedInv'
  <2>1. Response(u, "busy") \in Responses
    BY DEF Response, Responses, Answers
  <2>2. CASE SessionQueues(Response(u, "busy"))
    BY <1>1, <2>1, <2>2, SessionQueuesBlocks
  <2> QED
    BY <1>1, <1>2, <1>4, <2>2 DEF ReadRequestBusy
<1> QED
  BY <1>1, <1>2, <1>3, <1>4
     DEF SelectNext, ShutdownArm, WriterArm, HeartbeatExpires, HeartbeatTick, ReadPing,
         ReadReady, ReadRequest, ReadClose, ReadFails, EndRun

LEMMA ActorBlocks == TypeOK /\ BlockedInv /\ ActorNext => BlockedInv'
<1> SUFFICES ASSUME TypeOK, BlockedInv, ActorNext PROVE BlockedInv'
  OBVIOUS
<1>1. ASSUME NEW u \in posts, BusyPostFails(u) PROVE BlockedInv'
  <2>1. PICK outcome \in Outcomes :
          /\ QueueResponse("actor", Response(u, "busy"), outcome)
          /\ \/ /\ outcome # "broken"
                /\ actor' = IF outcome = "blocked" THEN "queueing" ELSE "select"
             \/ /\ outcome = "broken"
                /\ actor' = "returned"
    BY <1>1 DEF BusyPostFails, ActorReturns
  <2>2. "actor" \notin Blocked(waiting) /\ UNCHANGED reader
    BY <1>1 DEF BlockedInv, BusyPostFails
  <2>3. Response(u, "busy") \in Responses
    BY DEF TypeOK, Response, Responses, Answers
  <2>4. IF outcome = "blocked"
        THEN Once(waiting') /\ Blocked(waiting') = Blocked(waiting) \cup {"actor"}
        ELSE waiting' = waiting
    BY <2>1, <2>2, <2>3, QueueResponseBlocks DEF Senders
  <2> QED
    BY <2>1, <2>2, <2>4 DEF BlockedInv
<1>2. CASE ActorPushes \/ ActorSendFails
  <2>1. Once(waiting') /\ Blocked(waiting') = Blocked(waiting) \ {"actor"}
    BY <1>2, LeavesUnblocks DEF ActorPushes, ActorSendFails
  <2>2. actor' \in {"select", "returned"} /\ UNCHANGED reader
    BY <1>2 DEF ActorPushes, ActorSendFails, ActorReturns
  <2> QED
    BY <2>1, <2>2 DEF BlockedInv
<1>3. ASSUME actor = "select", actor' \in {"select", "returned"}, UNCHANGED <<waiting, reader>>
      PROVE  BlockedInv'
  BY <1>3 DEF BlockedInv
<1> QED
  BY <1>1, <1>2, <1>3 DEF ActorNext, ActorTakes, BusyPostAccepted, ActorDone, ActorReturns

LEMMA FinishBlocks ==
    TypeOK /\ BlockedInv /\ (ReaderPushes \/ ReaderSendFails \/ FinishNext) => BlockedInv'
<1> SUFFICES ASSUME TypeOK, BlockedInv, ReaderPushes \/ ReaderSendFails \/ FinishNext
             PROVE  BlockedInv'
  OBVIOUS
<1>1. CASE ReaderPushes \/ ReaderSendFails
  <2>1. Once(waiting') /\ Blocked(waiting') = Blocked(waiting) \ {"session"}
    BY <1>1, LeavesUnblocks DEF ReaderPushes, ReaderSendFails
  <2>2. reader' \in {"select", "finishing"} /\ UNCHANGED actor
    BY <1>1 DEF ReaderPushes, ReaderSendFails, EndRun
  <2> QED
    BY <2>1, <2>2 DEF BlockedInv
<1>2. CASE FinishTask \/ Flushed \/ FlushTimesOut \/ Kill
  <2>1. /\ reader # "queueing" /\ reader' # "queueing"
        /\ UNCHANGED <<waiting, actor>>
    BY <1>2 DEF FinishTask, Flushed, JoinWriter, FlushTimesOut, Kill
  <2> QED
    BY <2>1 DEF BlockedInv
<1>3. CASE Reap
  <2>1. waiting' = <<>> /\ reader' = "ended" /\ actor' # "queueing"
    BY <1>3 DEF Reap, ActorGone
  <2> QED
    BY <2>1 DEF BlockedInv, Blocked, Once
<1> QED
  BY <1>1, <1>2, <1>3 DEF FinishNext

LEMMA BlockedHolds == Spec => []BlockedInv
<1>1. Init => BlockedInv
  BY DEF Init, BlockedInv, Blocked, Once
<1>2. TypeOK /\ BlockedInv /\ [Next]_vars => BlockedInv'
  <2> SUFFICES ASSUME BlockedInv, UNCHANGED <<reader, actor, waiting>> PROVE BlockedInv'
    BY SelectBlocks, ActorBlocks, FinishBlocks
       DEF Next, Cancel, Ended, ScrapeNext, ScrapeStep, ExporterRefused, ExporterAnswers,
           PostAccepted, PostFallsBack, PostAbandoned, PostArrives, WriterNext, TakeControl,
           ControlSent, TakeBulk, BulkSent, SendFails, CloseDone, Drained
  <2> QED
    BY DEF BlockedInv
<1> QED
  BY <1>1, <1>2, TypeCorrect, PTL DEF Spec

-----------------------------------------------------------------------------
(* What a step does to the bulk channel and to the senders that wait for   *)
(* it: the channel loses responses, a new sender finds a permit, a sender  *)
(* begins to wait, one stops waiting, or run_connection drops them all.    *)
Advance ==
    \/ waiting' = waiting /\ Len(bulk') <= Len(bulk)
    \/ waiting' = waiting /\ BulkRoom /\ Len(bulk') = Len(bulk) + 1
    \/ bulk' = bulk /\ \E w \in Waiter : waiting' = Append(waiting, w)
    \/ \E s \in Senders : PushWaiting(s)
    \/ bulk' = bulk /\ \E s \in Senders : GiveUpWaiting(s)
    \/ waiting' = <<>>

LEMMA QueueResponseAdvances ==
    ASSUME TypeOK, NEW s \in Senders, NEW r \in Responses, NEW outcome,
           QueueResponse(s, r, outcome)
    PROVE  Advance
<1>1. bulk \in Seq(Responses) /\ Len(bulk) \in Nat
  BY DEF TypeOK
<1>2. ASSUME NEW a \in Encodings(r.answer)
      PROVE  /\ Response(r.uid, a) \in Responses
             /\ Len(Append(bulk, Response(r.uid, a))) = Len(bulk) + 1
  <2>1. Response(r.uid, a) \in Responses
    BY EncodingsType DEF Response, Responses
  <2> QED
    BY <1>1, <2>1, AppendProperties
<1>3. CASE UNCHANGED bulkVars
  BY <1>1, <1>3 DEF Advance
<1>4. ASSUME NEW a \in Encodings(r.answer), BulkRoom,
             bulk' = Append(bulk, Response(r.uid, a)), UNCHANGED waiting
      PROVE  Advance
  BY <1>2, <1>4 DEF Advance
<1>5. ASSUME NEW a \in Encodings(r.answer), UNCHANGED bulk,
             waiting' = Append(waiting, [sender |-> s, item |-> Response(r.uid, a)])
      PROVE  Advance
  <2>1. [sender |-> s, item |-> Response(r.uid, a)] \in Waiter
    BY <1>2 DEF Waiter
  <2> QED
    BY <1>5, <2>1 DEF Advance
<1> QED
  BY <1>3, <1>4, <1>5 DEF QueueResponse

LEMMA StepsAdvance == TypeOK /\ [Next]_vars => Advance
<1> SUFFICES ASSUME TypeOK, [Next]_vars PROVE Advance
  OBVIOUS
<1>1. bulk \in Seq(Responses) /\ Len(bulk) \in Nat
  BY DEF TypeOK
<1>2. CASE UNCHANGED bulkVars
  BY <1>1, <1>2 DEF Advance
<1>3. CASE UNCHANGED waiting /\ bulk' = <<>>
  BY <1>1, <1>3 DEF Advance
<1>4. CASE SelectNext
  <2>1. ASSUME NEW r \in Responses, SessionQueues(r) PROVE Advance
    BY <2>1, QueueResponseAdvances DEF SessionQueues, Senders
  <2>2. CASE CompletionArm
    <3>1. Head(completion) \in Completions
      BY <2>2 DEF TypeOK, CompletionArm
    <3>2. CASE Head(completion).answer # "none" /\ SessionQueues(Head(completion))
      <4>1. Head(completion) \in Responses
        BY <3>1, <3>2 DEF Completions, Responses
      <4> QED
        BY <2>1, <3>2, <4>1
    <3> QED
      BY <1>2, <2>2, <3>2 DEF CompletionArm
  <2>3. ASSUME NEW u \in Uids, ReadRequestBusy(u) PROVE Advance
    <3>1. Response(u, "busy") \in Responses
      BY DEF Response, Responses, Answers
    <3> QED
      BY <1>2, <2>1, <2>3, <3>1 DEF ReadRequestBusy
  <2> QED
    BY <1>2, <1>4, <2>2, <2>3
       DEF SelectNext, ShutdownArm, WriterArm, HeartbeatExpires, HeartbeatTick, ReadPing,
           ReadReady, ReadRequest, ReadClose, ReadFails
<1>5. CASE ReaderPushes \/ ReaderSendFails
  BY <1>5 DEF Advance, ReaderPushes, ReaderSendFails, Senders
<1>6. CASE FinishNext
  BY <1>2, <1>3, <1>6 DEF Advance, FinishNext, FinishTask, Flushed, JoinWriter, FlushTimesOut, Kill,
                          StopWriter, Reap
<1>7. CASE ActorNext
  <2>1. ASSUME NEW u \in posts, BusyPostFails(u) PROVE Advance
    <3>1. Response(u, "busy") \in Responses
      BY DEF TypeOK, Response, Responses, Answers
    <3> QED
      BY <2>1, <3>1, QueueResponseAdvances DEF BusyPostFails, Senders
  <2>2. CASE ActorPushes \/ ActorSendFails
    BY <2>2 DEF Advance, ActorPushes, ActorSendFails, Senders
  <2> QED
    BY <1>2, <1>7, <2>1, <2>2 DEF ActorNext, ActorTakes, BusyPostAccepted, ActorDone
<1>8. CASE WriterNext
  <2>1. CASE TakeBulk
    <3>1. Len(bulk') <= Len(bulk)
      BY <1>1, <2>1 DEF TakeBulk
    <3> QED
      BY <2>1, <3>1 DEF Advance, TakeBulk
  <2> QED
    BY <1>2, <1>3, <1>8, <2>1
       DEF WriterNext, TakeControl, ControlSent, BulkSent, SendFails, CloseDone, Drained,
           StopWriter
<1> QED
  BY <1>2, <1>4, <1>5, <1>6, <1>7, <1>8
     DEF Next, Cancel, Ended, ScrapeNext, ScrapeStep, ExporterRefused, ExporterAnswers,
         PostAccepted, PostFallsBack, PostAbandoned, PostArrives

(* With b responses in the channel the waiter in place i is followed by    *)
(* itself in place k with b2 of them: no further away from its permit.     *)
Nearer(b, b2, i, k) == k <= BulkCap - b2 \/ b2 + k <= b + i

LEMMA LeavingAdvances ==
    ASSUME NEW q \in Seq(Waiter), Once(q), NEW j \in 1..Len(q), NEW i \in 1..Len(q),
           NEW k \in 1..(Len(q) - 1), q[i] = RemoveAt(q, j)[k]
    PROVE  k = IF i < j THEN i ELSE i - 1
<1>1. /\ Len(q) \in Nat
      /\ RemoveAt(q, j)[k] = IF k < j THEN q[k] ELSE q[k + 1]
  BY RemoveAtProperties, LenProperties
<1>2. CASE k < j
  <2>1. k \in 1..Len(q) /\ q[i].sender = q[k].sender
    BY <1>1, <1>2
  <2>2. i = k
    BY <2>1 DEF Once
  <2> QED
    BY <1>2, <2>2
<1>3. CASE ~(k < j)
  <2>1. k + 1 \in 1..Len(q) /\ q[i].sender = q[k + 1].sender
    BY <1>1, <1>3
  <2>2. i = k + 1
    BY <2>1 DEF Once
  <2> QED
    BY <1>3, <2>2
<1> QED
  BY <1>2, <1>3

(* A sender that waits for the bulk channel never gets further from its    *)
(* permit: nobody overtakes it, and a permit it has been given is not      *)
(* taken back while another task pushes, waits or gives up (bulk.send in   *)
(* queue_ws_response, called by the reader and by the busy actor).         *)
THEOREM NobodyOvertakes == Spec => NoOvertaking
<1>1. ASSUME TypeOK, TypeOK', BlockedInv, BlockedInv', Advance,
             NEW i \in DOMAIN waiting, NEW k \in DOMAIN waiting', waiting[i] = waiting'[k]
      PROVE  Nearer(Len(bulk), Len(bulk'), i, k)
  <2>1. /\ waiting \in Seq(Waiter) /\ waiting' \in Seq(Waiter)
        /\ Once(waiting) /\ Once(waiting')
        /\ Len(waiting) \in Nat /\ Len(waiting') \in Nat
        /\ i \in 1..Len(waiting) /\ k \in 1..Len(waiting')
        /\ bulk \in Seq(Responses)
        /\ Len(bulk) \in Nat /\ Len(bulk') \in Nat
    <3>1. /\ waiting \in Seq(Waiter) /\ waiting' \in Seq(Waiter)
          /\ bulk \in Seq(Responses) /\ bulk' \in Seq(Responses)
      BY <1>1 DEF TypeOK, Waiter
    <3>2. /\ Len(waiting) \in Nat /\ Len(waiting') \in Nat
          /\ i \in 1..Len(waiting) /\ k \in 1..Len(waiting')
          /\ Len(bulk) \in Nat /\ Len(bulk') \in Nat
      BY <1>1, <3>1
    <3>3. Once(waiting) /\ (Once(waiting))'
      BY <1>1 DEF BlockedInv
    <3> QED
      BY <3>1, <3>2, <3>3 DEF Once
  <2>2. ASSUME waiting' = waiting, Len(bulk') <= Len(bulk) \/ (BulkRoom /\ Len(bulk') = Len(bulk) + 1)
        PROVE  Nearer(Len(bulk), Len(bulk'), i, k)
    <3>1. waiting[i].sender = waiting[k].sender
      BY <1>1, <2>2
    <3>2. i = k
      BY <2>1, <2>2, <3>1 DEF Once
    <3> QED
      BY <2>1, <2>2, <3>2 DEF Nearer, BulkRoom
  <2>3. ASSUME NEW w \in Waiter, bulk' = bulk, waiting' = Append(waiting, w)
        PROVE  Nearer(Len(bulk), Len(bulk'), i, k)
    <3>1. /\ Len(waiting') = Len(waiting) + 1
          /\ waiting'[i] = waiting[i]
      BY <2>1, <2>3, AppendProperties
    <3>2. i \in 1..Len(waiting') /\ waiting'[i].sender = waiting'[k].sender
      BY <1>1, <2>1, <3>1
    <3>3. i = k
      BY <2>1, <3>2 DEF Once
    <3> QED
      BY <2>1, <2>3, <3>3 DEF Nearer
  <2>4. ASSUME NEW s, NEW j, Leaves(s, j)
        PROVE  /\ j \in 1..Len(waiting)
               /\ waiting[j].sender = s
               /\ k = IF i < j THEN i ELSE i - 1
    <3>1. j \in 1..Len(waiting) /\ waiting' = RemoveAt(waiting, j) /\ waiting[j].sender = s
      BY <2>1, <2>4 DEF Leaves
    <3>2. Len(waiting') = Len(waiting) - 1
      BY <2>1, <3>1, RemoveAtProperties
    <3> QED
      BY <1>1, <2>1, <3>1, <3>2, LeavingAdvances
  <2>5. ASSUME NEW s, PushWaiting(s)
        PROVE  Nearer(Len(bulk), Len(bulk'), i, k)
    <3>1. PICK j : Admitted(j) /\ Leaves(s, j) /\ j \in DOMAIN waiting
                   /\ bulk' = Append(bulk, waiting[j].item)
      BY <2>5 DEF PushWaiting
    <3>2. j \in 1..Len(waiting) /\ k = IF i < j THEN i ELSE i - 1
      BY <2>4, <3>1
    <3>3. waiting[j] \in Waiter
      BY <2>1, <3>2, ElementOfSeq
    <3>4. Len(bulk') = Len(bulk) + 1
      BY <2>1, <3>1, <3>3, AppendProperties DEF Waiter
    <3> QED
      BY <2>1, <3>1, <3>2, <3>4 DEF Nearer, Admitted
  <2>6. ASSUME NEW s, GiveUpWaiting(s), bulk' = bulk
        PROVE  Nearer(Len(bulk), Len(bulk'), i, k)
    <3>1. PICK j : Leaves(s, j)
      BY <2>6 DEF GiveUpWaiting
    <3>2. j \in 1..Len(waiting) /\ k = IF i < j THEN i ELSE i - 1
      BY <2>4, <3>1
    <3> QED
      BY <2>1, <2>6, <3>2 DEF Nearer
  <2>7. waiting' # <<>>
    BY <2>1
  <2> QED
    BY <1>1, <2>2, <2>3, <2>5, <2>6, <2>7 DEF Advance
<1>2. TypeOK /\ TypeOK' /\ BlockedInv /\ BlockedInv' /\ [Next]_vars
        => [\A i \in DOMAIN waiting, k \in DOMAIN waiting' :
               waiting[i] = waiting'[k] =>
                   \/ k <= BulkCap - Len(bulk')
                   \/ Len(bulk') + k <= Len(bulk) + i]_vars
  BY <1>1, StepsAdvance DEF Nearer
<1> QED
  BY <1>2, TypeCorrect, BlockedHolds, PTL DEF Spec, NoOvertaking
=============================================================================
