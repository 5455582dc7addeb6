-------------------------- MODULE ConnectionProofs --------------------------
(***************************************************************************)
(* What holds of Connection for every set of requests, every protocol and  *)
(* every capacity of the channels.                                         *)
(***************************************************************************)
EXTENDS Connection, SequenceTheorems, FiniteSetTheorems, TLAPS

USE NoUidAssumption, ProtocolAssumption, ScrapeAssumption, TightAssumption,
    CapAssumption

-----------------------------------------------------------------------------
(* Removing one element of a sequence leaves a shorter sequence over the   *)
(* same set, with the elements before and after the removed one.           *)
LEMMA RemoveAtProperties ==
    ASSUME NEW S, NEW s \in Seq(S), NEW i \in 1..Len(s)
    PROVE  /\ RemoveAt(s, i) \in Seq(S)
           /\ Len(RemoveAt(s, i)) = Len(s) - 1
           /\ \A j \in 1..(Len(s) - 1) :
                RemoveAt(s, i)[j] = IF j < i THEN s[j] ELSE s[j + 1]
<1>1. \A j \in 1..Len(s) : s[j] \in S
  BY ElementOfSeq
<1> DEFINE a == SubSeq(s, 1, i - 1)
           b == SubSeq(s, i + 1, Len(s))
<1>2. /\ a \in Seq(S)
      /\ Len(a) = i - 1
      /\ \A j \in 1..(i - 1) : a[j] = s[j]
  <2>1. \A j \in 1..(i - 1) : s[j] \in S
    BY <1>1
  <2> QED
    BY <2>1, SubSeqProperties
<1>3. /\ b \in Seq(S)
      /\ Len(b) = Len(s) - i
      /\ \A j \in 1..(Len(s) - i) : b[j] = s[i + j]
  <2>1. \A j \in (i + 1)..Len(s) : s[j] \in S
    BY <1>1
  <2> QED
    BY <2>1, SubSeqProperties
<1> HIDE DEF a, b
<1>4. /\ a \o b \in Seq(S)
      /\ Len(a \o b) = Len(a) + Len(b)
      /\ \A j \in 1..(Len(a) + Len(b)) :
            (a \o b)[j] = IF j <= Len(a) THEN a[j] ELSE b[j - Len(a)]
  BY <1>2, <1>3, ConcatProperties
<1>5. RemoveAt(s, i) = a \o b
  BY DEF RemoveAt, a, b
<1> QED
  BY <1>2, <1>3, <1>4, <1>5

(* A response is encoded as a response.                                    *)
LEMMA EncodingsType ==
    ASSUME NEW a \in Answers
    PROVE  Encodings(a) \subseteq Answers
BY DEF Encodings, Answers

-----------------------------------------------------------------------------
(* What queue_ws_response leaves of the bulk channel and the fates.        *)
LEMMA QueueResponseType ==
    ASSUME TypeOK, NEW s \in Senders, NEW u \in Uids, NEW a \in Answers,
           NEW outcome, QueueResponse(s, [uid |-> u, answer |-> a], outcome)
    PROVE  /\ bulk' \in Seq(Responses) /\ Len(bulk') <= BulkCap
           /\ waiting' \in Seq([sender : Senders, item : Responses])
           /\ fate' \in [Uids -> {"unseen", "owed", "answered", "dropped"}]
<1>1. CASE Settle(u, "dropped") /\ UNCHANGED bulkVars
  BY <1>1 DEF TypeOK, Settle, bulkVars
<1>2. CASE Settle(u, "owed") /\ UNCHANGED bulkVars
  BY <1>2 DEF TypeOK, Settle, bulkVars
<1>3. ASSUME NEW e \in Encodings(a), Settle(u, "owed"), BulkRoom,
             bulk' = Append(bulk, Response(u, e)), UNCHANGED waiting
      PROVE  /\ bulk' \in Seq(Responses) /\ Len(bulk') <= BulkCap
             /\ waiting' \in Seq([sender : Senders, item : Responses])
             /\ fate' \in [Uids -> {"unseen", "owed", "answered", "dropped"}]
  BY <1>3, EncodingsType DEF TypeOK, Settle, BulkRoom, Response, Responses
<1>4. ASSUME NEW e \in Encodings(a), Settle(u, "owed"),
             waiting' = Append(waiting, [sender |-> s, item |-> Response(u, e)]),
             UNCHANGED bulk
      PROVE  /\ bulk' \in Seq(Responses) /\ Len(bulk') <= BulkCap
             /\ waiting' \in Seq([sender : Senders, item : Responses])
             /\ fate' \in [Uids -> {"unseen", "owed", "answered", "dropped"}]
  BY <1>4, EncodingsType DEF TypeOK, Settle, Response, Responses
<1> QED
  BY <1>1, <1>2, <1>3, <1>4 DEF QueueResponse

(* What the push and the failure of a blocked sender leave of the channel. *)
LEMMA WaitingType ==
    ASSUME TypeOK, NEW s \in Senders
    PROVE  /\ PushWaiting(s) =>
                /\ bulk' \in Seq(Responses) /\ Len(bulk') <= BulkCap
                /\ waiting' \in Seq([sender : Senders, item : Responses])
           /\ GiveUpWaiting(s) =>
                waiting' \in Seq([sender : Senders, item : Responses])
<1>1. ASSUME NEW i, Leaves(s, i)
      PROVE  /\ i \in 1..Len(waiting)
             /\ waiting[i].item \in Responses
             /\ waiting' \in Seq([sender : Senders, item : Responses])
  <2> DEFINE W == [sender : Senders, item : Responses]
  <2>1. waiting \in Seq(W) /\ i \in 1..Len(waiting) /\ waiting' = RemoveAt(waiting, i)
    BY <1>1 DEF TypeOK, Leaves
  <2> HIDE DEF W
  <2>2. waiting[i] \in W /\ waiting' \in Seq(W)
    BY <2>1, RemoveAtProperties
  <2> QED
    BY <2>1, <2>2 DEF W
<1>2. ASSUME NEW i, Leaves(s, i), Admitted(i), bulk' = Append(bulk, waiting[i].item)
      PROVE  bulk' \in Seq(Responses) /\ Len(bulk') <= BulkCap
  BY <1>1, <1>2 DEF TypeOK, Admitted
<1> QED
  BY <1>1, <1>2 DEF PushWaiting, GiveUpWaiting

(* A copy that arrives, and a request that is settled, keep their types.   *)
LEMMA ReceiveType ==
    ASSUME TypeOK, NEW u \in Uids, NEW via \in {"post", "frame"}, NEW a \in Answers,
           Receive(u, via, a)
    PROVE  wire' \in [Uids -> Seq(Copies)]
<1>1. [via |-> via, answer |-> a] \in Copies
  BY DEF Copies
<1>2. wire \in [Uids -> Seq(Copies)]
  BY DEF TypeOK
<1>3. Append(wire[u], [via |-> via, answer |-> a]) \in Seq(Copies)
  BY <1>1, <1>2, AppendProperties
<1> QED
  BY <1>2, <1>3 DEF Receive

LEMMA SettleType ==
    ASSUME TypeOK, NEW u, NEW f \in {"unseen", "owed", "answered", "dropped"},
           Settle(u, f)
    PROVE  fate' \in [Uids -> {"unseen", "owed", "answered", "dropped"}]
BY DEF TypeOK, Settle

(* What the writer holds is a response while it sends one.                 *)
LEMMA UploadType ==
    ASSUME TypeOK, writer = "bulk"
    PROVE  upload.uid \in Uids /\ upload.answer \in Answers
BY DEF TypeOK, Responses

(* The frames of the actions, expanded in every proof about a step.        *)
USE DEF vars, readerVars, scrapeVars, bulkVars, actorVars, writerVars, serverVars

LEMMA CutOffType ==
    ASSUME TypeOK, UploadCutOff
    PROVE  wire' \in [Uids -> Seq(Copies)]
<1>1. CASE UNCHANGED wire
  BY <1>1 DEF TypeOK
<1>2. CASE writer = "bulk" /\ Receive(upload.uid, "frame", upload.answer)
  BY <1>2, UploadType, ReceiveType
<1> QED
  BY <1>1, <1>2 DEF UploadCutOff

-----------------------------------------------------------------------------
LEMMA WriterTypeOK == TypeOK /\ WriterNext => TypeOK'
<1> SUFFICES ASSUME TypeOK, WriterNext PROVE TypeOK'
  OBVIOUS
<1>1. CASE TakeControl
  BY <1>1 DEF TypeOK, TakeControl
<1>2. CASE ControlSent
  BY <1>2 DEF TypeOK, ControlSent
<1>3. CASE TakeBulk
  BY <1>3 DEF TypeOK, TakeBulk
<1>4. CASE BulkSent
  <2>1. wire' \in [Uids -> Seq(Copies)]
    BY <1>4, UploadType, ReceiveType DEF BulkSent
  <2>2. fate' \in [Uids -> {"unseen", "owed", "answered", "dropped"}]
    BY <1>4, SettleType DEF BulkSent
  <2> QED
    BY <1>4, <2>1, <2>2 DEF TypeOK, BulkSent
<1>5. CASE SendFails
  <2>1. wire' \in [Uids -> Seq(Copies)]
    BY <1>5, CutOffType DEF SendFails
  <2> QED
    BY <1>5, <2>1 DEF TypeOK, SendFails, StopWriter, Stopped
<1>6. CASE CloseDone
  BY <1>6 DEF TypeOK, CloseDone, StopWriter, Stopped
<1>7. CASE Drained
  BY <1>7 DEF TypeOK, Drained, StopWriter, Stopped
<1> QED
  BY <1>1, <1>2, <1>3, <1>4, <1>5, <1>6, <1>7 DEF WriterNext

LEMMA ScrapeTypeOK == TypeOK /\ (ScrapeNext \/ PostArrives) => TypeOK'
<1> SUFFICES ASSUME TypeOK, ScrapeNext \/ PostArrives PROVE TypeOK'
  OBVIOUS
<1>1. ASSUME NEW t \in tasks, NEW a \in Answers \cup {"none"}, Report(t, a)
      PROVE  /\ tasks' \subseteq Tasks
             /\ completion' \in Seq(Completions) /\ Len(completion') <= 1
  <2>1. tasks' \subseteq Tasks
    BY <1>1 DEF TypeOK, Report
  <2>2. CASE reader \in Running
    <3>1. [uid |-> t.uid, answer |-> a] \in Completions
      BY DEF TypeOK, Tasks, Completions
    <3>2. completion' = <<[uid |-> t.uid, answer |-> a]>>
      BY <1>1, <2>2 DEF Report
    <3> QED
      BY <2>1, <3>1, <3>2
  <2>3. CASE reader \notin Running
    BY <1>1, <2>1, <2>3 DEF TypeOK, Report
  <2> QED
    BY <2>2, <2>3
<1>2. ASSUME NEW t \in tasks
      PROVE  t.uid \in Uids /\ t.answer \in Answers \cup {"pending"}
  BY <1>2 DEF TypeOK, Tasks
<1>3. ASSUME NEW t \in tasks, ExporterRefused(t)
      PROVE  TypeOK'
  <2>1. fate' \in [Uids -> {"unseen", "owed", "answered", "dropped"}]
    BY <1>3, SettleType DEF ExporterRefused
  <2> QED
    BY <1>1, <1>3, <2>1 DEF TypeOK, ExporterRefused
<1>4. ASSUME NEW t \in tasks, NEW a \in ScrapeResults,
             tasks' = (tasks \ {t}) \cup {[t EXCEPT !.answer = a]}
      PROVE  tasks' \subseteq Tasks
  BY <1>2, <1>4 DEF TypeOK, Tasks, Answers
<1>5. ASSUME NEW t \in tasks, ExporterAnswers(t)
      PROVE  TypeOK'
  <2> PICK a \in ScrapeResults :
        \/ /\ tasks' = (tasks \ {t}) \cup {[t EXCEPT !.answer = a]}
           /\ SendPost(Response(t.uid, a))
           /\ UNCHANGED completion
        \/ Report(t, a) /\ UNCHANGED net
    BY <1>5 DEF ExporterAnswers
  <2>1. tasks' \subseteq Tasks /\ completion' \in Seq(Completions) /\ Len(completion') <= 1
    BY <1>1, <1>4 DEF TypeOK, Answers
  <2>2. net' \subseteq Responses
    <3>1. a \in Answers
      BY DEF Answers
    <3>2. Response(t.uid, a) \in Responses
      BY <1>2, <3>1 DEF Response, Responses
    <3> QED
      BY <3>2 DEF TypeOK, SendPost
  <2> QED
    BY <1>5, <2>1, <2>2 DEF TypeOK, ExporterAnswers
<1>6. ASSUME NEW t \in tasks, PostAccepted(t)
      PROVE  TypeOK'
  <2>1. fate' \in [Uids -> {"unseen", "owed", "answered", "dropped"}]
    BY <1>6, SettleType DEF PostAccepted
  <2> QED
    BY <1>1, <1>6, <2>1 DEF TypeOK, PostAccepted
<1>7. ASSUME NEW t \in tasks, PostFallsBack(t)
      PROVE  TypeOK'
  BY <1>1, <1>2, <1>7 DEF TypeOK, PostFallsBack
<1>8. ASSUME NEW t \in tasks, PostAbandoned(t)
      PROVE  TypeOK'
  <2>1. fate' \in [Uids -> {"unseen", "owed", "answered", "dropped"}]
    BY <1>8, SettleType DEF PostAbandoned
  <2> QED
    BY <1>1, <1>8, <2>1 DEF TypeOK, PostAbandoned
<1>9. CASE PostArrives
  <2> PICK r \in net : net' = net \ {r} /\ Receive(r.uid, "post", r.answer)
    BY <1>9 DEF PostArrives
  <2>1. r.uid \in Uids /\ r.answer \in Answers
    BY DEF TypeOK, Responses
  <2>2. wire' \in [Uids -> Seq(Copies)]
    BY <2>1, ReceiveType
  <2> QED
    BY <1>9, <2>2 DEF TypeOK, PostArrives
<1> QED
  BY <1>3, <1>5, <1>6, <1>7, <1>8, <1>9 DEF ScrapeNext, ScrapeStep

LEMMA ActorTypeOK == TypeOK /\ ActorNext => TypeOK'
<1> SUFFICES ASSUME TypeOK, ActorNext PROVE TypeOK'
  OBVIOUS
<1>1. CASE ActorTakes
  <2>1. Head(busyq) \in Uids /\ busyq' \in Seq(Uids) /\ Len(busyq') <= BusyCap
    BY <1>1 DEF TypeOK, ActorTakes
  <2>2. net' \subseteq Responses
    BY <1>1, <2>1 DEF TypeOK, ActorTakes, SendPost, Response, Responses, Answers
  <2> QED
    BY <1>1, <2>1, <2>2 DEF TypeOK, ActorTakes
<1>2. ASSUME NEW u \in posts, BusyPostAccepted(u)
      PROVE  TypeOK'
  <2>1. fate' \in [Uids -> {"unseen", "owed", "answered", "dropped"}]
    BY <1>2, SettleType DEF BusyPostAccepted
  <2> QED
    BY <1>2, <2>1 DEF TypeOK, BusyPostAccepted
<1>3. ASSUME NEW u \in posts, BusyPostFails(u)
      PROVE  TypeOK'
  <2>1. PICK outcome \in Outcomes :
          /\ QueueResponse("actor", Response(u, "busy"), outcome)
          /\ \/ /\ actor' = IF outcome = "blocked" THEN "queueing" ELSE "select"
                /\ posts' = posts \ {u}
                /\ UNCHANGED busyq
             \/ ActorReturns
    BY <1>3 DEF BusyPostFails
  <2>2. /\ bulk' \in Seq(Responses) /\ Len(bulk') <= BulkCap
        /\ waiting' \in Seq([sender : Senders, item : Responses])
        /\ fate' \in [Uids -> {"unseen", "owed", "answered", "dropped"}]
    BY <2>1, QueueResponseType DEF TypeOK, Senders, Answers, Response
  <2>3. CASE /\ actor' = IF outcome = "blocked" THEN "queueing" ELSE "select"
             /\ posts' = posts \ {u}
             /\ UNCHANGED busyq
    BY <1>3, <2>2, <2>3 DEF TypeOK, BusyPostFails
  <2>4. CASE ActorReturns
    BY <1>3, <2>2, <2>4 DEF TypeOK, BusyPostFails, ActorReturns
  <2> QED
    BY <2>1, <2>3, <2>4
<1>4. CASE ActorPushes
  <2>1. /\ bulk' \in Seq(Responses) /\ Len(bulk') <= BulkCap
        /\ waiting' \in Seq([sender : Senders, item : Responses])
    BY <1>4, WaitingType DEF ActorPushes, Senders
  <2> QED
    BY <1>4, <2>1 DEF TypeOK, ActorPushes
<1>5. CASE ActorSendFails
  <2>1. waiting' \in Seq([sender : Senders, item : Responses])
    BY <1>5, WaitingType DEF ActorSendFails, Senders
  <2> QED
    BY <1>5, <2>1 DEF TypeOK, ActorSendFails, ActorReturns
<1>6. CASE ActorDone
  BY <1>6 DEF TypeOK, ActorDone, ActorReturns
<1> QED
  BY <1>1, <1>2, <1>3, <1>4, <1>5, <1>6 DEF ActorNext

LEMMA SessionQueuesType ==
    ASSUME TypeOK, NEW r \in Responses, SessionQueues(r)
    PROVE  /\ reader' \in Running \cup Finish \cup {"ended", "panicked"}
           /\ cause' \in Farewells \cup {"none", "writer", "error"}
           /\ bulk' \in Seq(Responses) /\ Len(bulk') <= BulkCap
           /\ waiting' \in Seq([sender : Senders, item : Responses])
           /\ fate' \in [Uids -> {"unseen", "owed", "answered", "dropped"}]
<1>1. PICK outcome \in Outcomes :
        /\ QueueResponse("session", r, outcome)
        /\ \/ /\ reader' = IF outcome = "blocked" THEN "queueing" ELSE "select"
              /\ UNCHANGED cause
           \/ EndRun("error")
  BY DEF SessionQueues
<1>2. PICK u \in Uids, a \in Answers : r = [uid |-> u, answer |-> a]
  BY DEF Responses
<1>3. /\ bulk' \in Seq(Responses) /\ Len(bulk') <= BulkCap
      /\ waiting' \in Seq([sender : Senders, item : Responses])
      /\ fate' \in [Uids -> {"unseen", "owed", "answered", "dropped"}]
  BY <1>1, <1>2, QueueResponseType DEF Senders
<1>4. /\ reader' \in Running \cup Finish \cup {"ended", "panicked"}
      /\ cause' \in Farewells \cup {"none", "writer", "error"}
  BY <1>1 DEF TypeOK, EndRun, Running, Finish
<1> QED
  BY <1>3, <1>4

LEMMA OfferType ==
    ASSUME NEW q \in Seq(Frames), Len(q) <= ControlCap, NEW frame \in Frames
    PROVE  Offer(q, frame) \in Seq(Frames) /\ Len(Offer(q, frame)) <= ControlCap
<1>1. CASE ControlRoom(q)
  BY <1>1, AppendProperties DEF Offer, ControlRoom
<1> QED
  BY <1>1 DEF Offer

LEMMA SelectTypeOK == TypeOK /\ SelectNext => TypeOK'
<1> SUFFICES ASSUME TypeOK, SelectNext PROVE TypeOK'
  OBVIOUS
<1>1. CASE ShutdownArm \/ WriterArm \/ HeartbeatExpires \/ ReadClose \/ ReadFails
  BY <1>1 DEF TypeOK, ShutdownArm, WriterArm, HeartbeatExpires, ReadClose, ReadFails,
              EndRun, Finish, Farewells
<1>2. CASE HeartbeatTick \/ ReadPing \/ ReadReady
  <2>1. control' \in Seq(Frames) /\ Len(control') <= ControlCap
    <3>1. {"heartbeat", "ready"} \subseteq Frames
      BY DEF Frames
    <3>2. control \in Seq(Frames) /\ Len(control) <= ControlCap
      BY DEF TypeOK
    <3>3. CASE HeartbeatTick
      <4> DEFINE q == Offer(control, "heartbeat")
      <4>1. q \in Seq(Frames) /\ Len(q) <= ControlCap
        BY <3>1, <3>2, OfferType
      <4> HIDE DEF q
      <4>2. Offer(q, "heartbeat") \in Seq(Frames) /\ Len(Offer(q, "heartbeat")) <= ControlCap
        BY <3>1, <4>1, OfferType
      <4> QED
        BY <3>3, <4>2 DEF HeartbeatTick, q
    <3>4. CASE ReadPing \/ ReadReady
      BY <3>1, <3>2, <3>4, OfferType DEF ReadPing, ReadReady
    <3> QED
      BY <1>2, <3>3, <3>4
  <2> QED
    BY <1>2, <2>1 DEF TypeOK, HeartbeatTick, ReadPing, ReadReady
<1>3. CASE CompletionArm
  <2> DEFINE r == Head(completion)
  <2>1. /\ r \in Completions
        /\ completion' \in Seq(Completions) /\ Len(completion') <= 1
    BY <1>3 DEF TypeOK, CompletionArm
  <2>2. CASE r.answer = "none" /\ UNCHANGED <<reader, cause, bulkVars, fate>>
    BY <1>3, <2>1, <2>2 DEF TypeOK, CompletionArm
  <2>3. CASE r.answer # "none" /\ SessionQueues(r)
    <3>1. r \in Responses
      BY <2>1, <2>3 DEF Completions, Responses
    <3> HIDE DEF r
    <3> QED
      BY <1>3, <2>1, <2>3, <3>1, SessionQueuesType DEF TypeOK, CompletionArm
  <2> QED
    BY <1>3, <2>2, <2>3 DEF CompletionArm
<1>4. ASSUME NEW u \in Uids, ReadRequest(u)
      PROVE  TypeOK'
  <2>1. [uid |-> u, answer |-> "pending"] \in Tasks
    BY DEF Tasks
  <2>2. fate' \in [Uids -> {"unseen", "owed", "answered", "dropped"}]
    BY <1>4, SettleType DEF ReadRequest
  <2> QED
    BY <1>4, <2>1, <2>2 DEF TypeOK, ReadRequest
<1>5. ASSUME NEW u \in Uids, ReadRequestBusy(u)
      PROVE  TypeOK'
  <2>1. CASE Settle(u, "dropped") /\ UNCHANGED <<reader, cause, bulkVars, busyq>>
    <3>1. fate' \in [Uids -> {"unseen", "owed", "answered", "dropped"}]
      BY <2>1, SettleType
    <3> QED
      BY <1>5, <2>1, <3>1 DEF TypeOK, ReadRequestBusy
  <2>2. CASE /\ BusyRoom
             /\ busyq' = Append(busyq, u)
             /\ Settle(u, "owed")
             /\ UNCHANGED <<reader, cause, bulkVars>>
    <3>1. fate' \in [Uids -> {"unseen", "owed", "answered", "dropped"}]
      BY <2>2, SettleType
    <3>2. busyq' \in Seq(Uids) /\ Len(busyq') <= BusyCap
      BY <2>2 DEF TypeOK, BusyRoom
    <3> QED
      BY <1>5, <2>2, <3>1, <3>2 DEF TypeOK, ReadRequestBusy
  <2>3. CASE SessionQueues(Response(u, "busy")) /\ UNCHANGED busyq
    <3>1. Response(u, "busy") \in Responses
      BY DEF Response, Responses, Answers
    <3> QED
      BY <1>5, <2>3, <3>1, SessionQueuesType DEF TypeOK, ReadRequestBusy
  <2> QED
    BY <1>5, <2>1, <2>2, <2>3 DEF ReadRequestBusy
<1> QED
  BY <1>1, <1>2, <1>3, <1>4, <1>5 DEF SelectNext

LEMMA ReaderTypeOK ==
    TypeOK /\ (ReaderPushes \/ ReaderSendFails \/ FinishNext \/ Cancel) => TypeOK'
<1> SUFFICES ASSUME TypeOK,
                    ReaderPushes \/ ReaderSendFails \/ FinishNext \/ Cancel
             PROVE  TypeOK'
  OBVIOUS
<1>1. CASE ReaderPushes
  <2>1. /\ bulk' \in Seq(Responses) /\ Len(bulk') <= BulkCap
        /\ waiting' \in Seq([sender : Senders, item : Responses])
    BY <1>1, WaitingType DEF ReaderPushes, Senders
  <2> QED
    BY <1>1, <2>1 DEF TypeOK, ReaderPushes, Running
<1>2. CASE ReaderSendFails
  <2>1. waiting' \in Seq([sender : Senders, item : Responses])
    BY <1>2, WaitingType DEF ReaderSendFails, Senders
  <2> QED
    BY <1>2, <2>1 DEF TypeOK, ReaderSendFails, EndRun, Finish
<1>3. CASE FinishTask
  <2>1. control' \in Seq(Frames) /\ Len(control') <= ControlCap
    <3>1. control \in Seq(Frames) /\ Len(control) <= ControlCap /\ "close" \in Frames
      BY DEF TypeOK, Frames
    <3>2. CASE ControlRoom(control) /\ control' = Append(control, "close")
      BY <3>1, <3>2, AppendProperties DEF ControlRoom
    <3>3. CASE UNCHANGED control
      BY <3>1, <3>3
    <3> QED
      BY <1>3, <3>2, <3>3 DEF FinishTask
  <2>2. reader' \in Finish
    BY <1>3 DEF FinishTask, Finish
  <2> QED
    BY <1>3, <2>1, <2>2 DEF TypeOK, FinishTask
<1>4. CASE Flushed \/ FlushTimesOut
  BY <1>4 DEF TypeOK, Flushed, JoinWriter, FlushTimesOut, Finish
<1>5. CASE Kill
  <2>1. wire' \in [Uids -> Seq(Copies)]
    BY <1>5, CutOffType DEF Kill, JoinWriter, TypeOK
  <2>2. CASE UNCHANGED <<control, bulk, writerVars>>
    BY <1>5, <2>1, <2>2 DEF TypeOK, Kill, JoinWriter, Finish
  <2>3. CASE StopWriter("aborted")
    BY <1>5, <2>1, <2>3 DEF TypeOK, Kill, JoinWriter, StopWriter, Stopped, Finish
  <2> QED
    BY <1>5, <2>2, <2>3 DEF Kill, JoinWriter
<1>6. CASE Reap
  BY <1>6 DEF TypeOK, Reap
<1>7. CASE Cancel
  BY <1>7 DEF TypeOK, Cancel
<1> QED
  BY <1>1, <1>2, <1>3, <1>4, <1>5, <1>6, <1>7 DEF FinishNext

-----------------------------------------------------------------------------
(* Every variable keeps its type and every channel its capacity, in every  *)
(* behaviour of a connection.                                              *)
THEOREM TypeCorrect == Spec => []TypeOK
<1>1. Init => TypeOK
  <2> SUFFICES ASSUME Init PROVE TypeOK
    OBVIOUS
  <2>1. control \in Seq(Frames) /\ Len(control) <= ControlCap
    BY DEF Init, Frames
  <2>2. wire \in [Uids -> Seq(Copies)]
    BY DEF Init
  <2>3. /\ fate \in [Uids -> {"unseen", "owed", "answered", "dropped"}]
        /\ upload \in IF writer = "bulk" THEN Responses ELSE {NoResponse}
    BY DEF Init
  <2>4. /\ completion \in Seq(Completions) /\ Len(completion) <= 1
        /\ bulk \in Seq(Responses) /\ Len(bulk) <= BulkCap
        /\ waiting \in Seq([sender : Senders, item : Responses])
        /\ busyq \in Seq(Uids) /\ Len(busyq) <= BusyCap
    BY DEF Init
  <2>5. /\ shutdown \in BOOLEAN
        /\ reader \in Running \cup Finish \cup {"ended", "panicked"}
        /\ cause \in Farewells \cup {"none", "writer", "error"}
        /\ active \in Uids \cup {NoUid}
        /\ tasks \subseteq Tasks /\ posts \subseteq Uids /\ net \subseteq Responses
        /\ actor \in {"select", "queueing"} \cup {"returned", "aborted"}
        /\ writer \in {"select", "control", "bulk", "closing"} \cup Stopped
    BY DEF Init, Running
  <2> QED
    BY <2>1, <2>2, <2>3, <2>4, <2>5 DEF TypeOK
<1>2. TypeOK /\ [Next]_vars => TypeOK'
  <2> SUFFICES ASSUME TypeOK, [Next]_vars PROVE TypeOK'
    OBVIOUS
  <2>1. CASE Ended \/ UNCHANGED vars
    BY <2>1 DEF TypeOK, Ended
  <2> QED
    BY <2>1, WriterTypeOK, ScrapeTypeOK, ActorTypeOK, SelectTypeOK, ReaderTypeOK
       DEF Next
<1> QED
  BY <1>1, <1>2, PTL DEF Spec
=============================================================================
