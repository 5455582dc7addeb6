-------------------------- MODULE ConnectionDelivery --------------------------
(***************************************************************************)
(* What the server receives from a connection, for every value of the      *)
(* constants of Connection: the copies of an answer agree, the connection  *)
(* implements Delivery, and the farewell overtakes the queued responses.   *)
(***************************************************************************)
EXTENDS ConnectionAccounting

USE DEF vars, readerVars, scrapeVars, bulkVars, actorVars, writerVars, serverVars

-----------------------------------------------------------------------------
(* The elements of a sequence.                                             *)
Got(w) == {w[i] : i \in DOMAIN w}

LEMMA GotAppend ==
    ASSUME NEW S, NEW q \in Seq(S), NEW e \in S
    PROVE  Got(Append(q, e)) = Got(q) \cup {e}
<1> DEFINE p == Append(q, e)
           n == Len(q) + 1
<1>1. /\ Len(q) \in Nat /\ DOMAIN q = 1..Len(q) /\ DOMAIN p = 1..n
      /\ \A i \in 1..Len(q) : p[i] = q[i]
      /\ p[n] = e
  BY AppendProperties, LenProperties
<1> HIDE DEF p
<1>2. \A i \in 1..n : i \in 1..Len(q) \/ i = n
  BY <1>1
<1>3. \A i \in 1..Len(q) : i \in 1..n
  BY <1>1
<1>4. n \in 1..n
  BY <1>1
<1> HIDE DEF n
<1>5. Got(p) \subseteq Got(q) \cup {e}
  BY <1>1, <1>2 DEF Got
<1>6. Got(q) \cup {e} \subseteq Got(p)
  BY <1>1, <1>3, <1>4 DEF Got
<1> QED
  BY <1>5, <1>6 DEF p

LEMMA GotTail ==
    ASSUME NEW S, NEW q \in Seq(S), q # <<>>
    PROVE  /\ Head(q) \in Got(q) /\ Got(Tail(q)) \subseteq Got(q)
<1>1. /\ Len(q) \in Nat \ {0} /\ DOMAIN q = 1..Len(q)
      /\ Head(q) = q[1]
      /\ DOMAIN Tail(q) = 1..(Len(q) - 1)
      /\ \A i \in 1..(Len(q) - 1) : Tail(q)[i] = q[i + 1]
  BY HeadTailProperties, EmptySeq, LenProperties
<1>2. 1 \in 1..Len(q) /\ \A i \in 1..(Len(q) - 1) : i + 1 \in 1..Len(q)
  BY <1>1
<1> QED
  BY <1>1, <1>2 DEF Got

LEMMA GotHeadTail ==
    ASSUME NEW S, NEW q \in Seq(S), q # <<>>, NEW e \in Got(q)
    PROVE  e = Head(q) \/ e \in Got(Tail(q))
<1>1. /\ Len(q) \in Nat \ {0} /\ DOMAIN q = 1..Len(q)
      /\ Head(q) = q[1]
      /\ DOMAIN Tail(q) = 1..(Len(q) - 1)
      /\ \A i \in 1..(Len(q) - 1) : Tail(q)[i] = q[i + 1]
  BY HeadTailProperties, EmptySeq, LenProperties
<1>2. PICK k \in 1..Len(q) : e = q[k]
  BY <1>1 DEF Got
<1>3. CASE k = 1
  BY <1>1, <1>2, <1>3
<1>4. CASE k # 1
  <2>1. k - 1 \in 1..(Len(q) - 1) /\ Tail(q)[k - 1] = q[k]
    BY <1>1, <1>2, <1>4
  <2> QED
    BY <1>1, <1>2, <2>1 DEF Got
<1> QED
  BY <1>3, <1>4

LEMMA GotRemoved ==
    ASSUME NEW S, NEW q \in Seq(S), NEW k \in 1..Len(q)
    PROVE  q[k] \in Got(q) /\ Got(RemoveAt(q, k)) \subseteq Got(q)
<1> DEFINE p == RemoveAt(q, k)
<1>1. /\ p \in Seq(S)
      /\ Len(p) = Len(q) - 1
      /\ \A j \in 1..(Len(q) - 1) : p[j] = IF j < k THEN q[j] ELSE q[j + 1]
  BY RemoveAtProperties
<1> HIDE DEF p
<1>2. DOMAIN p = 1..(Len(q) - 1) /\ DOMAIN q = 1..Len(q) /\ Len(q) \in Nat
  BY <1>1, LenProperties
<1>3. \A j \in 1..(Len(q) - 1) : j \in 1..Len(q) /\ j + 1 \in 1..Len(q)
  BY <1>2
<1> QED
  BY <1>1, <1>2, <1>3 DEF Got, p

LEMMA GotEmpty == Got(<<>>) = {}
BY DEF Got

LEMMA GotTyped ==
    ASSUME NEW S, NEW q \in Seq(S)
    PROVE  Got(q) \subseteq S
BY ElementOfSeq, LenProperties DEF Got

(* A place that is counted as empty has no element for u.                  *)
LEMMA NoneCounted ==
    ASSUME NEW u
    PROVE  /\ \A q \in Seq(Responses) : At(q, u) = 0 => \A d \in Got(q) : d.uid # u
           /\ \A q \in Seq(Waiter) : Held(q, u) = 0 => \A d \in Got(q) : d.item.uid # u
           /\ \A q \in Seq(Uids) : Uses(q, u) = 0 => u \notin Got(q)
<1>1. \A q \in Seq(Uids) : Uses(q, u) = 0 => u \notin Got(q)
  <2> SUFFICES ASSUME NEW q \in Seq(Uids), Uses(q, u) = 0 PROVE u \notin Got(q)
    OBVIOUS
  <2>1. {i \in DOMAIN q : q[i] = u} = {}
    BY UsesIsNat, FS_EmptySet DEF Uses
  <2> QED
    BY <2>1 DEF Got
<1>2. \A q \in Seq(Responses) : At(q, u) = 0 => \A d \in Got(q) : d.uid # u
  <2> SUFFICES ASSUME NEW q \in Seq(Responses), At(q, u) = 0
               PROVE  \A d \in Got(q) : d.uid # u
    OBVIOUS
  <2>1. IsFiniteSet({i \in DOMAIN q : q[i].uid = u})
    <3>1. DOMAIN q = 1..Len(q) /\ Len(q) \in Nat
      BY LenProperties
    <3>2. IsFiniteSet(1..Len(q))
      BY <3>1, FS_Interval
    <3>3. {i \in DOMAIN q : q[i].uid = u} \in SUBSET (1..Len(q))
      BY <3>1
    <3> QED
      BY <3>2, <3>3, FS_Subset
  <2>2. {i \in DOMAIN q : q[i].uid = u} = {}
    BY <2>1, FS_EmptySet DEF At
  <2> QED
    BY <2>2 DEF Got
<1>3. \A q \in Seq(Waiter) : Held(q, u) = 0 => \A d \in Got(q) : d.item.uid # u
  <2> SUFFICES ASSUME NEW q \in Seq(Waiter), Held(q, u) = 0
               PROVE  \A d \in Got(q) : d.item.uid # u
    OBVIOUS
  <2>1. IsFiniteSet({i \in DOMAIN q : q[i].item.uid = u})
    <3>1. DOMAIN q = 1..Len(q) /\ Len(q) \in Nat
      BY LenProperties
    <3>2. IsFiniteSet(1..Len(q))
      BY <3>1, FS_Interval
    <3>3. {i \in DOMAIN q : q[i].item.uid = u} \in SUBSET (1..Len(q))
      BY <3>1
    <3> QED
      BY <3>2, <3>3, FS_Subset
  <2>2. {i \in DOMAIN q : q[i].item.uid = u} = {}
    BY <2>1, FS_EmptySet DEF Held
  <2> QED
    BY <2>2 DEF Got
<1> QED
  BY <1>1, <1>2, <1>3

(* A response that is in one place is in no other.                         *)
LEMMA HeldInOnePlace ==
    ASSUME TypeOK, AmountInv, NEW u \in Uids
    PROVE  /\ HasUpload(upload, u) = 1 =>
                /\ HasTask(tasks, u) = 0 /\ HasReport(completion, u) = 0 /\ At(bulk, u) = 0
                /\ Held(waiting, u) = 0 /\ Uses(busyq, u) = 0 /\ HasPost(posts, u) = 0
           /\ HasTask(tasks, u) = 1 =>
                /\ HasReport(completion, u) = 0 /\ At(bulk, u) = 0 /\ Held(waiting, u) = 0
                /\ Uses(busyq, u) = 0 /\ HasPost(posts, u) = 0 /\ HasUpload(upload, u) = 0
           /\ Uses(busyq, u) >= 1 =>
                /\ HasTask(tasks, u) = 0 /\ HasReport(completion, u) = 0 /\ At(bulk, u) = 0
                /\ Held(waiting, u) = 0 /\ Uses(busyq, u) = 1
                /\ HasPost(posts, u) = 0 /\ HasUpload(upload, u) = 0
<1>1. /\ HasTask(tasks, u) \in 0..1 /\ HasReport(completion, u) \in 0..1
      /\ At(bulk, u) \in Nat /\ Held(waiting, u) \in Nat /\ Uses(busyq, u) \in Nat
      /\ HasPost(posts, u) \in 0..1 /\ HasUpload(upload, u) \in 0..1
  BY AmountIsNat
<1>2. HasTask(tasks, u) + HasReport(completion, u) + At(bulk, u) + Held(waiting, u)
         + Uses(busyq, u) + HasPost(posts, u) + HasUpload(upload, u) \in 0..1
  BY DEF AmountInv, Amount
<1>3. HasUpload(upload, u) = 1 =>
        /\ HasTask(tasks, u) = 0 /\ HasReport(completion, u) = 0 /\ At(bulk, u) = 0
        /\ Held(waiting, u) = 0 /\ Uses(busyq, u) = 0 /\ HasPost(posts, u) = 0
  BY ONLY <1>1, <1>2
<1>4. HasTask(tasks, u) = 1 =>
        /\ HasReport(completion, u) = 0 /\ At(bulk, u) = 0 /\ Held(waiting, u) = 0
        /\ Uses(busyq, u) = 0 /\ HasPost(posts, u) = 0 /\ HasUpload(upload, u) = 0
  BY ONLY <1>1, <1>2
<1>5. Uses(busyq, u) >= 1 =>
        /\ HasTask(tasks, u) = 0 /\ HasReport(completion, u) = 0 /\ At(bulk, u) = 0
        /\ Held(waiting, u) = 0 /\ Uses(busyq, u) = 1
        /\ HasPost(posts, u) = 0 /\ HasUpload(upload, u) = 0
  BY ONLY <1>1, <1>2
<1> QED
  BY <1>3, <1>4, <1>5

-----------------------------------------------------------------------------
(* The copies that the server has of an answer.                            *)
HasCopy(w, via) == \E c \in Got(w) : c.via = via
Distinct(w) == \A i, j \in DOMAIN w : w[i].via = w[j].via => i = j

LEMMA ReceiveMoves ==
    ASSUME TypeOK, NEW u \in Uids, NEW via \in {"post", "frame"}, NEW a \in Answers,
           Receive(u, via, a), NEW v \in Uids
    PROVE  /\ v # u => wire'[v] = wire[v]
           /\ Got(wire'[u]) = Got(wire[u]) \cup {[via |-> via, answer |-> a]}
           /\ ~HasCopy(wire[u], via) /\ Distinct(wire[u]) => Distinct(wire'[u])
<1> DEFINE c == [via |-> via, answer |-> a]
<1>1. wire \in [Uids -> Seq(Copies)] /\ wire[u] \in Seq(Copies) /\ c \in Copies
  BY DEF TypeOK, Copies
<1>2. wire'[u] = Append(wire[u], c) /\ (v # u => wire'[v] = wire[v])
  BY <1>1 DEF Receive
<1>3. Got(wire'[u]) = Got(wire[u]) \cup {c}
  BY <1>1, <1>2, GotAppend
<1>4. ASSUME ~HasCopy(wire[u], via), Distinct(wire[u])
      PROVE  Distinct(wire'[u])
  <2> DEFINE q == wire[u]
             p == Append(q, c)
  <2>0. q \in Seq(Copies) /\ c \in Copies
    BY <1>1
  <2>3. c.via = via
    OBVIOUS
  <2> HIDE DEF q, c
  <2>1. /\ Len(q) \in Nat /\ DOMAIN q = 1..Len(q) /\ DOMAIN p = 1..(Len(q) + 1)
        /\ \A i \in 1..Len(q) : p[i] = q[i]
        /\ p[Len(q) + 1] = c
    BY <2>0, AppendProperties, LenProperties
  <2>2. \A i \in DOMAIN q : q[i].via # via
    BY <1>4 DEF HasCopy, Got, q
  <2>4. \A i, j \in DOMAIN q : q[i].via = q[j].via => i = j
    BY <1>4 DEF Distinct, q
  <2> HIDE DEF p
  <2>5. \A i \in 1..(Len(q) + 1) : i \in 1..Len(q) \/ i = Len(q) + 1
    BY <2>1
  <2>6. \A i, j \in DOMAIN p : p[i].via = p[j].via => i = j
    BY <2>1, <2>2, <2>3, <2>4, <2>5
  <2> QED
    BY <1>2, <2>6 DEF Distinct, p, q
<1> QED
  BY <1>2, <1>3, <1>4

(* What the server has received grows by the arrival of a POST, or by the  *)
(* frame in the hand of the writer, which holds it no longer.              *)
FrameArrives ==
    /\ writer = "bulk"
    /\ Receive(upload.uid, "frame", upload.answer)
    /\ upload' = NoResponse
    /\ bulk' \in {bulk, <<>>}
    /\ fate' \in {fate, [fate EXCEPT ![upload.uid] = "answered"]}
    /\ UNCHANGED <<tasks, completion, waiting, busyq, posts, net>>

LEMMA WireSteps == [Next]_vars => UNCHANGED wire \/ PostArrives \/ FrameArrives
<1> SUFFICES ASSUME [Next]_vars, ~PostArrives PROVE UNCHANGED wire \/ FrameArrives
  OBVIOUS
<1>1. CASE WriterNext \/ Kill
  BY <1>1 DEF WriterNext, TakeControl, ControlSent, TakeBulk, BulkSent, SendFails, CloseDone,
              Drained, Kill, StopWriter, UploadCutOff, FrameArrives, Settle
<1>2. CASE SelectNext
  BY <1>2 DEF SelectNext, ShutdownArm, WriterArm, HeartbeatExpires, HeartbeatTick, CompletionArm,
              ReadPing, ReadReady, ReadRequest, ReadRequestBusy, ReadClose, ReadFails
<1>3. CASE ActorNext \/ ScrapeNext
  BY <1>3 DEF ActorNext, ActorTakes, BusyPostAccepted, BusyPostFails, ActorPushes, ActorSendFails,
              ActorDone, ScrapeNext, ScrapeStep, ExporterRefused, ExporterAnswers, PostAccepted,
              PostFallsBack, PostAbandoned
<1> QED
  BY <1>1, <1>2, <1>3 DEF Next, Cancel, Ended, ReaderPushes, ReaderSendFails, FinishNext,
                          FinishTask, Flushed, JoinWriter, FlushTimesOut, Reap

(* A request whose answer went out as a frame is done with.                *)
FrameInv ==
    \A u \in Uids :
        HasCopy(wire[u], "frame") => Amount(u) = 0 /\ fate[u] # "unseen"

LEMMA FrameIsLast ==
    ASSUME TypeOK, AmountInv, FrameInv, AmountStep, FrameArrives, NEW u, u = upload.uid
    PROVE  /\ u \in Uids /\ upload.answer \in Answers
           /\ fate[u] = "owed"
           /\ ~HasCopy(wire[u], "frame")
           /\ Amount(u)' = 0
           /\ fate'[u] # "unseen"
<1>1. u \in Uids /\ upload.answer \in Answers
  BY UploadType DEF FrameArrives
<1>2. HasUpload(upload, u) = 1
  BY DEF HasUpload, One
<1>3. /\ HasTask(tasks, u) = 0 /\ HasReport(completion, u) = 0 /\ At(bulk, u) = 0
      /\ Held(waiting, u) = 0 /\ Uses(busyq, u) = 0 /\ HasPost(posts, u) = 0
  BY <1>1, <1>2, HeldInOnePlace
<1>4. Amount(u) = 1
  BY <1>2, <1>3 DEF Amount
<1>5. fate[u] = "owed"
  BY <1>1, <1>4 DEF AmountInv
<1>6. ~HasCopy(wire[u], "frame")
  BY <1>1, <1>4 DEF FrameInv
<1>7. At(bulk', u) = 0 /\ HasUpload(upload', u) = 0
  BY <1>1, <1>3, NothingIsHeld DEF FrameArrives
<1>8. Amount(u)' = 0
  BY <1>3, <1>7 DEF FrameArrives, Amount
<1>9. fate'[u] # "unseen"
  BY <1>1, <1>5 DEF FrameArrives, TypeOK
<1> QED
  BY <1>1, <1>5, <1>6, <1>8, <1>9

LEMMA FrameMoves ==
    ASSUME TypeOK, AmountInv, FrameInv, AmountStep, [Next]_vars
    PROVE  FrameInv'
<1>1. CASE UNCHANGED wire
  BY <1>1 DEF FrameInv, AmountStep
<1>2. CASE PostArrives
  <2>1. PICK r \in net : Receive(r.uid, "post", r.answer)
    BY <1>2 DEF PostArrives
  <2>2. r.uid \in Uids /\ r.answer \in Answers
    BY DEF TypeOK, Responses
  <2>3. \A u \in Uids : HasCopy(wire'[u], "frame") => HasCopy(wire[u], "frame")
    BY <2>1, <2>2, ReceiveMoves DEF HasCopy
  <2> QED
    BY <2>3 DEF FrameInv, AmountStep
<1>3. CASE FrameArrives
  <2>1. \A u \in Uids : u = upload.uid \/ wire'[u] = wire[u]
    BY <1>3, FrameIsLast, ReceiveMoves DEF FrameArrives
  <2> SUFFICES ASSUME NEW u \in Uids, HasCopy(wire'[u], "frame")
               PROVE  Amount(u)' = 0 /\ fate'[u] # "unseen"
    BY DEF FrameInv
  <2>2. CASE u = upload.uid
    BY <1>3, <2>2, FrameIsLast
  <2>3. CASE u # upload.uid
    BY <2>1, <2>3 DEF FrameInv, AmountStep
  <2> QED
    BY <2>2, <2>3
<1> QED
  BY <1>1, <1>2, <1>3, WireSteps

-----------------------------------------------------------------------------
(* The POST of u, if there will be one, has not been started: its request  *)
(* was not read, is being scraped or is queued for the busy actor.         *)
Pending(f, T, q, u) ==
    \/ f[u] = "unseen"
    \/ \E t \in T : t.uid = u /\ t.answer = "pending"
    \/ u \in Got(q)

(* A request is posted once, on wire v3.                                   *)
PostInv ==
    /\ busyq # <<>> => Protocol = 3
    /\ \A r \in net : Protocol = 3 /\ ~HasCopy(wire[r.uid], "post")
    /\ \A r1, r2 \in net : r1.uid = r2.uid => r1 = r2
    /\ \A u \in Uids :
        /\ Distinct(wire[u])
        /\ HasCopy(wire[u], "post") => Protocol = 3
        /\ Pending(fate, tasks, busyq, u) =>
             ~HasCopy(wire[u], "post") /\ \A r \in net : r.uid # u

(* No step makes a request pending, but for the first reading of it.       *)
Forward ==
    /\ \A u \in Uids : fate'[u] = "unseen" => fate[u] = "unseen"
    /\ \A t \in tasks' : t.answer = "pending" => t \in tasks \/ fate[t.uid] = "unseen"
    /\ \A u \in Got(busyq') : u \in Got(busyq) \/ fate[u] = "unseen"
    /\ busyq' # <<>> => busyq # <<>> \/ Protocol = 3

LEMMA ForwardPending ==
    Forward => \A u \in Uids : Pending(fate', tasks', busyq', u) => Pending(fate, tasks, busyq, u)
BY DEF Forward, Pending

LEMMA SettlesForward ==
    ASSUME TypeOK, NEW v, NEW f, f # "unseen", Settle(v, f)
    PROVE  \A u \in Uids : fate'[u] = "unseen" => fate[u] = "unseen"
BY DEF TypeOK, Settle

LEMMA QueueResponseSettles ==
    ASSUME TypeOK, NEW s, NEW r, NEW outcome, QueueResponse(s, r, outcome)
    PROVE  \A u \in Uids : fate'[u] = "unseen" => fate[u] = "unseen"
<1>1. Settle(r.uid, "owed") \/ Settle(r.uid, "dropped")
  BY DEF QueueResponse
<1> QED
  BY <1>1, SettlesForward

LEMMA SelectForward == TypeOK /\ SelectNext => Forward
<1> SUFFICES ASSUME TypeOK, SelectNext PROVE Forward
  OBVIOUS
<1>1. CASE UNCHANGED <<fate, tasks, busyq>>
  BY <1>1 DEF Forward
<1>2. CASE CompletionArm
  <2>1. UNCHANGED <<tasks, busyq>>
    BY <1>2 DEF CompletionArm
  <2>2. \A u \in Uids : fate'[u] = "unseen" => fate[u] = "unseen"
    BY <1>2, QueueResponseSettles DEF CompletionArm, SessionQueues
  <2> QED
    BY <2>1, <2>2 DEF Forward
<1>3. ASSUME NEW u \in Uids, ReadRequest(u) PROVE Forward
  <2>1. /\ fate[u] = "unseen" /\ Settle(u, "owed") /\ UNCHANGED busyq
        /\ tasks' = tasks \cup {[uid |-> u, answer |-> "pending"]}
    BY <1>3 DEF ReadRequest
  <2>2. \A v \in Uids : fate'[v] = "unseen" => fate[v] = "unseen"
    BY <2>1, SettlesForward
  <2> QED
    BY <2>1, <2>2 DEF Forward
<1>4. ASSUME NEW u \in Uids, ReadRequestBusy(u) PROVE Forward
  <2>1. fate[u] = "unseen" /\ UNCHANGED tasks
    BY <1>4 DEF ReadRequestBusy
  <2>2. \A v \in Uids : fate'[v] = "unseen" => fate[v] = "unseen"
    BY <1>4, SettlesForward, QueueResponseSettles DEF ReadRequestBusy, SessionQueues
  <2>3. UNCHANGED busyq \/ (Protocol = 3 /\ busyq' = Append(busyq, u))
    BY <1>4 DEF ReadRequestBusy
  <2>4. \A v \in Got(busyq') : v \in Got(busyq) \/ v = u
    <3>1. busyq \in Seq(Uids)
      BY DEF TypeOK
    <3>2. Got(Append(busyq, u)) = Got(busyq) \cup {u}
      BY <3>1, GotAppend
    <3> QED
      BY <2>3, <3>2
  <2> QED
    BY <2>1, <2>2, <2>3, <2>4 DEF Forward
<1> QED
  BY <1>1, <1>2, <1>3, <1>4
     DEF SelectNext, ShutdownArm, WriterArm, HeartbeatExpires, HeartbeatTick, ReadPing,
         ReadReady, ReadClose, ReadFails

LEMMA ActorForward == TypeOK /\ ActorNext => Forward
<1> SUFFICES ASSUME TypeOK, ActorNext PROVE Forward
  OBVIOUS
<1>1. UNCHANGED tasks /\ busyq \in Seq(Uids)
  BY DEF TypeOK, ActorNext, ActorTakes, BusyPostAccepted, BusyPostFails, ActorPushes,
         ActorSendFails, ActorDone
<1>2. \/ UNCHANGED busyq
      \/ busyq' = <<>>
      \/ busyq # <<>> /\ busyq' = Tail(busyq)
  BY DEF ActorNext, ActorTakes, BusyPostAccepted, BusyPostFails, ActorPushes,
         ActorSendFails, ActorDone, ActorReturns
<1>3. Got(busyq') \subseteq Got(busyq) /\ (busyq' # <<>> => busyq # <<>>)
  BY <1>1, <1>2, GotTail, GotEmpty
<1>4. \A u \in Uids : fate'[u] = "unseen" => fate[u] = "unseen"
  <2>1. CASE UNCHANGED fate
    BY <2>1
  <2>2. ASSUME NEW u \in posts, BusyPostAccepted(u)
        PROVE  \A v \in Uids : fate'[v] = "unseen" => fate[v] = "unseen"
    BY <2>2, SettlesForward DEF BusyPostAccepted
  <2>3. ASSUME NEW u \in posts, BusyPostFails(u)
        PROVE  \A v \in Uids : fate'[v] = "unseen" => fate[v] = "unseen"
    BY <2>3, QueueResponseSettles DEF BusyPostFails
  <2> QED
    BY <2>1, <2>2, <2>3 DEF ActorNext, ActorTakes, ActorPushes, ActorSendFails, ActorDone
<1> QED
  BY <1>1, <1>3, <1>4 DEF Forward

LEMMA ScrapeForward == TypeOK /\ ScrapeNext => Forward
<1> SUFFICES ASSUME TypeOK, NEW t \in tasks, ScrapeStep(t) PROVE Forward
  BY DEF ScrapeNext
<1>1. UNCHANGED busyq
  BY DEF ScrapeStep, ExporterRefused, ExporterAnswers, PostAccepted, PostFallsBack, PostAbandoned
<1>2. \A u \in Uids : fate'[u] = "unseen" => fate[u] = "unseen"
  <2>1. CASE UNCHANGED fate
    BY <2>1
  <2>2. CASE Settle(t.uid, "answered") \/ Settle(t.uid, "dropped")
    BY <2>2, SettlesForward
  <2> QED
    BY <2>1, <2>2 DEF ScrapeStep, ExporterRefused, ExporterAnswers, PostAccepted, PostFallsBack,
                      PostAbandoned
<1>3. \A x \in tasks' : x.answer = "pending" => x \in tasks
  <2>1. ASSUME NEW a, Report(t, a)
        PROVE  \A x \in tasks' : x.answer = "pending" => x \in tasks
    BY <2>1 DEF Report
  <2>2. ASSUME NEW a \in ScrapeResults, tasks' = (tasks \ {t}) \cup {[t EXCEPT !.answer = a]}
        PROVE  \A x \in tasks' : x.answer = "pending" => x \in tasks
    <3>1. a # "pending"
      BY ScrapeAssumption
    <3>2. [t EXCEPT !.answer = a].answer = a
      BY DEF TypeOK, Tasks
    <3> QED
      BY <2>2, <3>1, <3>2
  <2> QED
    BY <2>1, <2>2 DEF ScrapeStep, ExporterRefused, ExporterAnswers, PostAccepted, PostFallsBack,
                      PostAbandoned
<1> QED
  BY <1>1, <1>2, <1>3 DEF Forward

LEMMA StepsForward == TypeOK /\ [Next]_vars => Forward
<1> SUFFICES ASSUME TypeOK, [Next]_vars PROVE Forward
  OBVIOUS
<1>1. CASE UNCHANGED fate /\ (UNCHANGED tasks \/ tasks' = {}) /\ (UNCHANGED busyq \/ busyq' = <<>>)
  BY <1>1, GotEmpty DEF Forward
<1>2. CASE BulkSent
  <2>1. UNCHANGED <<tasks, busyq>> /\ Settle(upload.uid, "answered")
    BY <1>2 DEF BulkSent
  <2> QED
    BY <2>1, SettlesForward DEF Forward
<1> QED
  BY <1>1, <1>2, SelectForward, ActorForward, ScrapeForward
     DEF Next, Cancel, ReaderPushes, ReaderSendFails, FinishNext, FinishTask, Flushed,
         FlushTimesOut, Kill, JoinWriter, Reap, PostArrives, WriterNext, TakeControl,
         ControlSent, TakeBulk,
         SendFails, CloseDone, Drained, Ended

(* The POST of the response r to u is started.                             *)
PostStarts(r) ==
    /\ Protocol = 3
    /\ r \in Responses
    /\ net' \in {net, net \cup {r}}
    /\ UNCHANGED wire
    /\ Pending(fate, tasks, busyq, r.uid)
    /\ ~Pending(fate', tasks', busyq', r.uid)

(* The scrape task posts what the exporter answered.                       *)
TaskPosts(t, a) ==
    /\ Protocol = 3
    /\ t.answer = "pending"
    /\ tasks' = (tasks \ {t}) \cup {[t EXCEPT !.answer = a]}
    /\ SendPost(Response(t.uid, a))
    /\ UNCHANGED <<completion, bulkVars, busyq, posts, upload, wire, fate>>

LEMMA ScrapePosts ==
    ASSUME TypeOK, OneScrape, AmountInv, NEW t \in tasks, NEW a \in ScrapeResults,
           TaskPosts(t, a)
    PROVE  PostStarts(Response(t.uid, a))
<1> DEFINE u == t.uid
<1>1. u \in Uids /\ a \in Answers /\ a # "pending" /\ busyq \in Seq(Uids)
  BY ScrapeAssumption DEF TypeOK, Tasks, Answers
<1>2. tasks' = {[t EXCEPT !.answer = a]} /\ [t EXCEPT !.answer = a].answer = a
  BY DEF OneScrape, TypeOK, Tasks, TaskPosts
<1>3. HasTask(tasks, u) = 1
  BY DEF HasTask, One
<1>4. Uses(busyq, u) = 0 /\ Amount(u) # 0
  BY <1>1, <1>3, HeldInOnePlace, NothingHolds
<1>5. u \notin Got(busyq) /\ fate[u] = "owed"
  BY <1>1, <1>4, NoneCounted DEF AmountInv
<1>6. Response(t.uid, a) \in Responses /\ Response(t.uid, a).uid = u
  BY <1>1 DEF Responses, Response
<1> QED
  BY <1>1, <1>2, <1>5, <1>6 DEF PostStarts, Pending, SendPost, TaskPosts

LEMMA ActorPosts ==
    ASSUME TypeOK, AmountInv, PostInv, ActorTakes
    PROVE  PostStarts(Response(Head(busyq), "busy"))
<1> DEFINE u == Head(busyq)
<1>1. /\ busyq \in Seq(Uids) /\ busyq # <<>> /\ busyq' = Tail(busyq)
      /\ SendPost(Response(u, "busy"))
      /\ UNCHANGED <<wire, fate, tasks>>
      /\ Protocol = 3
  BY DEF TypeOK, ActorTakes, PostInv
<1>2. u \in Got(busyq) /\ u \in Uids
  BY <1>1, GotTail, HeadTailProperties
<1> HIDE DEF u
<1>3. Uses(busyq', u) = Uses(busyq, u) - 1 /\ Uses(busyq', u) \in Nat
  <2>1. Uses(busyq', u) = Uses(busyq, u) - One(u = u)
    BY <1>1, UsesOfTail DEF u
  <2>2. busyq' \in Seq(Uids)
    BY <1>1, HeadTailProperties
  <2> QED
    BY <2>1, <2>2, UsesIsNat DEF One
<1>4. Uses(busyq, u) >= 1
  <2>1. Uses(busyq, u) \in Nat
    BY <1>1, UsesIsNat
  <2> QED
    BY <1>3, <2>1
<1>5. HasTask(tasks, u) = 0 /\ Uses(busyq, u) = 1
  BY <1>2, <1>4, HeldInOnePlace
<1>6. Uses(busyq', u) = 0
  BY <1>3, <1>5
<1>7. u \notin Got(busyq')
  <2>1. busyq' \in Seq(Uids)
    BY <1>1, HeadTailProperties
  <2> QED
    BY <1>6, <2>1, NoneCounted
<1>8. \A t \in tasks : t.uid # u
  BY <1>5 DEF HasTask, One
<1>9. fate[u] = "owed"
  <2>1. Amount(u) # 0
    BY <1>5, NothingHolds
  <2> QED
    BY <1>2, <2>1 DEF AmountInv
<1>10. Response(u, "busy") \in Responses /\ Response(u, "busy").uid = u
  BY <1>2 DEF Response, Responses, Answers
<1>11. PostStarts(Response(u, "busy"))
  BY <1>1, <1>2, <1>7, <1>8, <1>9, <1>10 DEF PostStarts, Pending, SendPost
<1> QED
  BY <1>11 DEF u

LEMMA NetSteps ==
    ASSUME [Next]_vars
    PROVE  \/ UNCHANGED net
           \/ PostArrives
           \/ ActorTakes
           \/ \E t \in tasks : \E a \in ScrapeResults : TaskPosts(t, a)
<1>1. ASSUME NEW t \in tasks, ScrapeStep(t)
      PROVE  UNCHANGED net \/ \E a \in ScrapeResults : TaskPosts(t, a)
  BY <1>1 DEF ScrapeStep, ExporterRefused, ExporterAnswers, PostAccepted, PostFallsBack,
              PostAbandoned, TaskPosts
<1>2. CASE SelectNext
  BY <1>2 DEF SelectNext, ShutdownArm, WriterArm, HeartbeatExpires, HeartbeatTick, CompletionArm,
              ReadPing, ReadReady, ReadRequest, ReadRequestBusy, ReadClose, ReadFails
<1>3. CASE ActorNext /\ ~ActorTakes
  BY <1>3 DEF ActorNext, BusyPostAccepted, BusyPostFails, ActorPushes, ActorSendFails, ActorDone
<1>4. CASE WriterNext \/ ReaderPushes \/ ReaderSendFails \/ FinishNext
  BY <1>4 DEF ReaderPushes, ReaderSendFails, FinishNext, FinishTask, Flushed, JoinWriter,
              FlushTimesOut, Kill,
              Reap, WriterNext, TakeControl, ControlSent, TakeBulk, BulkSent, SendFails, CloseDone,
              Drained
<1> QED
  BY <1>1, <1>2, <1>3, <1>4 DEF Next, Cancel, Ended, ScrapeNext

LEMMA PostSteps ==
    ASSUME TypeOK, OneScrape, AmountInv, PostInv, [Next]_vars
    PROVE  UNCHANGED net \/ PostArrives \/ \E r \in Responses : PostStarts(r)
BY NetSteps, ScrapePosts, ActorPosts DEF PostStarts

LEMMA PostMoves ==
    ASSUME TypeOK, OneScrape, AmountInv, PostInv, FrameInv, AmountStep, [Next]_vars
    PROVE  PostInv'
<1>1. /\ \A u \in Uids : Pending(fate', tasks', busyq', u) => Pending(fate, tasks, busyq, u)
      /\ busyq' # <<>> => Protocol = 3
  BY StepsForward, ForwardPending DEF Forward, PostInv
<1>2. net \subseteq Responses /\ \A r \in Responses : r.uid \in Uids /\ r.answer \in Answers
  BY DEF TypeOK, Responses
<1>3. CASE UNCHANGED <<net, wire>>
  BY <1>1, <1>3 DEF PostInv
<1>4. CASE PostArrives
  <2>1. PICK r \in net : net' = net \ {r} /\ Receive(r.uid, "post", r.answer)
    BY <1>4 DEF PostArrives
  <2>2. /\ r.uid \in Uids /\ Protocol = 3 /\ ~HasCopy(wire[r.uid], "post")
        /\ ~Pending(fate, tasks, busyq, r.uid)
    BY <1>2 DEF PostInv
  <2>3. \A u \in Uids : u # r.uid => wire'[u] = wire[u]
    BY <1>2, <2>1, ReceiveMoves
  <2>4. Distinct(wire'[r.uid])
    BY <1>2, <2>1, <2>2, ReceiveMoves DEF PostInv
  <2>5. \A x \in net' : x \in net /\ x.uid # r.uid
    BY <2>1 DEF PostInv
  <2> QED
    BY <1>1, <1>2, <2>2, <2>3, <2>4, <2>5 DEF PostInv
<1>5. CASE FrameArrives
  <2> DEFINE v == upload.uid
  <2>1. v \in Uids /\ upload.answer \in Answers /\ ~HasCopy(wire[v], "frame")
    BY <1>5, FrameIsLast
  <2>2. /\ \A u \in Uids : u # v => wire'[u] = wire[u]
        /\ Got(wire'[v]) = Got(wire[v]) \cup {[via |-> "frame", answer |-> upload.answer]}
        /\ Distinct(wire[v]) => Distinct(wire'[v])
    BY <1>5, <2>1, ReceiveMoves DEF FrameArrives
  <2> HIDE DEF v
  <2>3. \A u \in Uids : /\ HasCopy(wire'[u], "post") => HasCopy(wire[u], "post")
                        /\ Distinct(wire[u]) => Distinct(wire'[u])
    BY <2>2 DEF HasCopy
  <2>4. UNCHANGED net
    BY <1>5 DEF FrameArrives
  <2> QED
    BY <1>1, <1>2, <2>3, <2>4 DEF PostInv
<1>6. ASSUME NEW r \in Responses, PostStarts(r) PROVE PostInv'
  <2>1. /\ Protocol = 3 /\ net' \in {net, net \cup {r}} /\ UNCHANGED wire /\ r.uid \in Uids
        /\ ~HasCopy(wire[r.uid], "post") /\ \A x \in net : x.uid # r.uid
        /\ ~Pending(fate', tasks', busyq', r.uid)
    BY <1>2, <1>6 DEF PostStarts, PostInv
  <2> QED
    BY <1>1, <2>1 DEF PostInv
<1>7. UNCHANGED <<net, wire>> \/ PostArrives \/ FrameArrives \/ \E r \in Responses : PostStarts(r)
  BY PostSteps, WireSteps
<1> QED
  BY <1>3, <1>4, <1>5, <1>6, <1>7

-----------------------------------------------------------------------------
(* An answer p that was posted for u and what the client holds for u: what *)
(* is not encoded is p itself, what is encoded, or was written as a frame, *)
(* is an encoding of p.                                                    *)
WasPosted(n, g, u, p) ==
    \/ \E r \in n : r.uid = u /\ r.answer = p
    \/ \E c \in Got(g) : c.via = "post" /\ c.answer = p
RawIs(T, c, P, u, p) ==
    /\ \A t \in T : t.uid = u => t.answer = p
    /\ \A d \in Got(c) : d.uid = u /\ d.answer # "none" => d.answer = p
    /\ u \in P => p = "busy"
QueuedIn(b, w, u, E) ==
    /\ \A d \in Got(b) : d.uid = u => d.answer \in E
    /\ \A d \in Got(w) : d.item.uid = u => d.item.answer \in E
WrittenIn(r, g, u, E) ==
    /\ r.uid = u => r.answer \in E
    /\ \A c \in Got(g) : c.via = "frame" => c.answer \in E

Agrees(u, p) ==
    /\ RawIs(tasks, completion, posts, u, p)
    /\ QueuedIn(bulk, waiting, u, Encodings(p))
    /\ WrittenIn(upload, wire[u], u, Encodings(p))

AgreeInv ==
    \A u \in Uids : \A p : WasPosted(net, wire[u], u, p) => Agrees(u, p)

(* What was posted after a step was posted before it, or is the one POST   *)
(* that the step starts.                                                   *)
LEMMA OldPost ==
    ASSUME TypeOK, OneScrape, AmountInv, PostInv, FrameInv, AmountStep, [Next]_vars,
           NEW u \in Uids, NEW p, WasPosted(net', wire'[u], u, p)
    PROVE  \/ ~Pending(fate, tasks, busyq, u) /\ WasPosted(net, wire[u], u, p)
           \/ net' # net /\ ~PostArrives /\ net' = net \cup {[uid |-> u, answer |-> p]}
<1>1. net \subseteq Responses /\ \A r \in Responses : r.uid \in Uids /\ r.answer \in Answers
  BY DEF TypeOK, Responses
<1>2. CASE WasPosted(net, wire[u], u, p)
  BY <1>2 DEF PostInv, HasCopy, WasPosted
<1>3. CASE UNCHANGED <<net, wire>>
  BY <1>2, <1>3
<1>4. CASE PostArrives
  <2>1. PICK r \in net : net' = net \ {r} /\ Receive(r.uid, "post", r.answer)
    BY <1>4 DEF PostArrives
  <2>2. CASE r.uid = u
    <3>1. Got(wire'[u]) = Got(wire[u]) \cup {[via |-> "post", answer |-> r.answer]}
      BY <1>1, <2>1, <2>2, ReceiveMoves
    <3>2. WasPosted(net, wire[u], u, p)
      BY <2>1, <2>2, <3>1 DEF WasPosted
    <3> QED
      BY <1>2, <3>2
  <2>3. CASE r.uid # u
    <3>1. wire'[u] = wire[u]
      BY <1>1, <2>1, <2>3, ReceiveMoves
    <3>2. WasPosted(net, wire[u], u, p)
      BY <2>1, <3>1 DEF WasPosted
    <3> QED
      BY <1>2, <3>2
  <2> QED
    BY <2>2, <2>3
<1>5. CASE FrameArrives
  <2> DEFINE v == upload.uid
  <2>1. v \in Uids /\ upload.answer \in Answers
    BY <1>5, FrameIsLast
  <2>2. /\ u # v => wire'[u] = wire[u]
        /\ Got(wire'[v]) = Got(wire[v]) \cup {[via |-> "frame", answer |-> upload.answer]}
    BY <1>5, <2>1, ReceiveMoves DEF FrameArrives
  <2> HIDE DEF v
  <2>3. \A c \in Got(wire'[u]) : c.via = "post" => c \in Got(wire[u])
    BY <2>2
  <2>4. WasPosted(net, wire[u], u, p)
    BY <1>5, <2>3 DEF FrameArrives, WasPosted
  <2> QED
    BY <1>2, <2>4
<1>6. ASSUME NEW r \in Responses, PostStarts(r), ~WasPosted(net, wire[u], u, p), ~PostArrives
      PROVE  net' # net /\ ~PostArrives /\ net' = net \cup {[uid |-> u, answer |-> p]}
  <2>1. UNCHANGED wire /\ net' \in {net, net \cup {r}}
    BY <1>6 DEF PostStarts
  <2>2. r.uid = u /\ r.answer = p /\ net' # net
    BY <1>6, <2>1 DEF WasPosted
  <2>3. r = [uid |-> u, answer |-> p]
    BY <2>2 DEF Responses
  <2> QED
    BY <1>6, <2>1, <2>2, <2>3
<1> QED
  BY <1>2, <1>3, <1>4, <1>5, <1>6, PostSteps, WireSteps

LEMMA NewPostAgrees ==
    ASSUME TypeOK, OneScrape, AmountInv, PostInv, FrameInv, [Next]_vars,
           NEW u \in Uids, NEW p, ~PostArrives, net' # net,
           net' = net \cup {[uid |-> u, answer |-> p]}
    PROVE  Agrees(u, p)'
<1>1. bulk \in Seq(Responses) /\ waiting \in Seq(Waiter) /\ busyq \in Seq(Uids)
  BY DEF TypeOK, Waiter
<1>2. ASSUME /\ HasReport(completion, u) = 0 /\ At(bulk, u) = 0 /\ Held(waiting, u) = 0
             /\ HasUpload(upload, u) = 0
             /\ Amount(u) # 0
             /\ UNCHANGED <<completion, bulkVars, upload, wire>>
             /\ \A t \in tasks' : t.uid = u => t.answer = p
             /\ u \in posts' => p = "busy"
      PROVE  Agrees(u, p)'
  <2>1. /\ \A d \in Got(bulk) : d.uid # u
        /\ \A d \in Got(waiting) : d.item.uid # u
    BY <1>1, <1>2, NoneCounted
  <2>2. \A d \in Got(completion) : ~(d.uid = u /\ d.answer # "none")
    BY <1>2 DEF HasReport, One, Got
  <2>3. upload.uid # u
    BY <1>2 DEF HasUpload, One
  <2>4. \A c \in Got(wire[u]) : c.via # "frame"
    BY <1>2 DEF FrameInv, HasCopy
  <2> QED
    BY <1>2, <2>1, <2>2, <2>3, <2>4 DEF Agrees, RawIs, QueuedIn, WrittenIn
<1>3. ASSUME NEW t \in tasks, NEW a \in ScrapeResults, TaskPosts(t, a)
      PROVE  Agrees(u, p)'
  <2>1. t.uid = u /\ a = p
    BY <1>3 DEF TaskPosts, SendPost, Response
  <2>2. HasTask(tasks, u) = 1
    BY <2>1 DEF HasTask, One
  <2>3. /\ HasReport(completion, u) = 0 /\ At(bulk, u) = 0 /\ Held(waiting, u) = 0
        /\ HasUpload(upload, u) = 0 /\ HasPost(posts, u) = 0 /\ Amount(u) # 0
    BY <2>2, HeldInOnePlace, NothingHolds
  <2>4. \A x \in tasks' : x.answer = p
    BY <1>3, <2>1 DEF OneScrape, TaskPosts, TypeOK, Tasks
  <2>5. u \notin posts'
    BY <1>3, <2>3 DEF TaskPosts, HasPost, One
  <2> QED
    BY <1>2, <1>3, <2>3, <2>4, <2>5 DEF TaskPosts
<1>4. CASE ActorTakes
  <2>1. /\ Head(busyq) = u /\ p = "busy" /\ busyq # <<>>
        /\ UNCHANGED <<tasks, completion, bulkVars, upload, wire>>
    BY <1>4 DEF ActorTakes, SendPost, Response
  <2>2. Uses(busyq, u) >= 1
    <3>1. Uses(Tail(busyq), u) = Uses(busyq, u) - One(Head(busyq) = u)
      BY <1>1, <2>1, UsesOfTail
    <3>2. Uses(Tail(busyq), u) \in Nat /\ Uses(busyq, u) \in Nat
      BY <1>1, <2>1, HeadTailProperties, UsesIsNat
    <3> QED
      BY <2>1, <3>1, <3>2 DEF One
  <2>3. /\ HasReport(completion, u) = 0 /\ At(bulk, u) = 0 /\ Held(waiting, u) = 0
        /\ HasUpload(upload, u) = 0 /\ HasTask(tasks, u) = 0 /\ Amount(u) # 0
    <3>1. Uses(busyq, u) # 0
      BY <2>2
    <3> QED
      BY <2>2, <3>1, HeldInOnePlace, NothingHolds
  <2>4. \A x \in tasks' : x.uid # u
    BY <2>1, <2>3 DEF HasTask, One
  <2> QED
    BY <1>2, <2>1, <2>3, <2>4
<1> QED
  BY <1>3, <1>4, NetSteps

(* A response that is queued, or leaves the queue of the blocked senders,  *)
(* stays an encoding of what was posted.                                   *)
LEMMA QueueResponseQueued ==
    ASSUME TypeOK, NEW s \in Senders, NEW r \in Responses, NEW outcome,
           QueueResponse(s, r, outcome), NEW u, NEW E, QueuedIn(bulk, waiting, u, E),
           r.uid = u => Encodings(r.answer) \subseteq E
    PROVE  QueuedIn(bulk', waiting', u, E)
<1>1. bulk \in Seq(Responses) /\ waiting \in Seq(Waiter)
  BY DEF TypeOK, Waiter
<1>2. CASE UNCHANGED bulkVars
  BY <1>2
<1>3. ASSUME NEW a \in Encodings(r.answer),
             \/ bulk' = Append(bulk, Response(r.uid, a)) /\ UNCHANGED waiting
             \/ waiting' = Append(waiting, [sender |-> s, item |-> Response(r.uid, a)])
                /\ UNCHANGED bulk
      PROVE  QueuedIn(bulk', waiting', u, E)
  <2> DEFINE e == Response(r.uid, a)
             x == [sender |-> s, item |-> e]
  <2>1. e \in Responses /\ e.uid = r.uid /\ e.answer = a
    BY EncodingsType DEF Responses, Response
  <2>2. x \in Waiter /\ x.item = e
    BY <2>1 DEF Waiter
  <2>3. Got(Append(bulk, e)) = Got(bulk) \cup {e}
    BY <1>1, <2>1, GotAppend
  <2>4. Got(Append(waiting, x)) = Got(waiting) \cup {x}
    BY <1>1, <2>2, GotAppend
  <2>5. e.uid = u => e.answer \in E
    BY <2>1
  <2>6. \/ bulk' = Append(bulk, e) /\ waiting' = waiting
        \/ waiting' = Append(waiting, x) /\ bulk' = bulk
    BY <1>3
  <2> HIDE DEF e, x
  <2> QED
    BY <2>2, <2>3, <2>4, <2>5, <2>6 DEF QueuedIn
<1> QED
  BY <1>2, <1>3 DEF QueueResponse

LEMMA LeavesQueued ==
    ASSUME TypeOK, NEW s, PushWaiting(s) \/ (GiveUpWaiting(s) /\ UNCHANGED bulk),
           NEW u, NEW E, QueuedIn(bulk, waiting, u, E)
    PROVE  QueuedIn(bulk', waiting', u, E)
<1>1. bulk \in Seq(Responses) /\ waiting \in Seq(Waiter)
  BY DEF TypeOK, Waiter
<1>2. PICK k : Leaves(s, k) /\ (UNCHANGED bulk \/ bulk' = Append(bulk, waiting[k].item))
  BY DEF PushWaiting, GiveUpWaiting
<1>3. k \in 1..Len(waiting) /\ waiting' = RemoveAt(waiting, k)
  BY <1>1, <1>2, LenProperties DEF Leaves
<1>4. waiting[k] \in Got(waiting) /\ Got(waiting') \subseteq Got(waiting)
  BY <1>1, <1>3, GotRemoved
<1>5. waiting[k].item \in Responses
  BY <1>1, <1>4, GotTyped DEF Waiter
<1>6. Got(Append(bulk, waiting[k].item)) = Got(bulk) \cup {waiting[k].item}
  BY <1>1, <1>5, GotAppend
<1> QED
  BY <1>2, <1>4, <1>6 DEF QueuedIn

LEMMA SessionQueued ==
    ASSUME TypeOK, NEW r \in Responses, SessionQueues(r), NEW u, NEW E,
           QueuedIn(bulk, waiting, u, E), r.uid = u => Encodings(r.answer) \subseteq E
    PROVE  QueuedIn(bulk', waiting', u, E)
BY QueueResponseQueued DEF SessionQueues, Senders

(* No step changes what the client holds for a request that was posted,    *)
(* other than by encoding it.                                              *)
LEMMA SelectAgrees ==
    ASSUME TypeOK, SelectNext, NEW u \in Uids, NEW p, ~Pending(fate, tasks, busyq, u), Agrees(u, p)
    PROVE  Agrees(u, p)'
<1> DEFINE E == Encodings(p)
<1>1. UNCHANGED <<upload, wire, posts>>
  BY DEF SelectNext, ShutdownArm, WriterArm, HeartbeatExpires, HeartbeatTick, CompletionArm,
         ReadPing, ReadReady, ReadRequest, ReadRequestBusy, ReadClose, ReadFails
<1>2. CASE UNCHANGED <<tasks, completion, bulkVars>>
  BY <1>1, <1>2 DEF Agrees
<1>3. CASE CompletionArm
  <2> DEFINE r == Head(completion)
  <2>1. /\ completion \in Seq(Completions) /\ completion # <<>> /\ completion' = Tail(completion)
        /\ UNCHANGED tasks
    BY <1>3 DEF TypeOK, CompletionArm
  <2>2. r \in Got(completion) /\ Got(completion') \subseteq Got(completion) /\ r \in Completions
    BY <2>1, GotTail, HeadTailProperties
  <2>3. RawIs(tasks', completion', posts', u, p)
    BY <1>1, <2>1, <2>2 DEF Agrees, RawIs
  <2>4. UNCHANGED bulkVars \/ (r.answer # "none" /\ SessionQueues(r))
    BY <1>3 DEF CompletionArm
  <2>5. r.uid = u /\ r.answer # "none" => r.answer = p
    BY <2>2 DEF Agrees, RawIs
  <2>6. r.answer # "none" => r \in Responses
    BY <2>2 DEF Completions, Responses
  <2> HIDE DEF r
  <2>7. QueuedIn(bulk', waiting', u, E)
    BY <2>4, <2>5, <2>6, SessionQueued DEF Agrees
  <2> QED
    BY <1>1, <2>3, <2>7 DEF Agrees
<1>4. ASSUME NEW v \in Uids, ReadRequest(v) PROVE Agrees(u, p)'
  <2>1. /\ fate[v] = "unseen" /\ UNCHANGED <<completion, bulkVars>>
        /\ tasks' = tasks \cup {[uid |-> v, answer |-> "pending"]}
    BY <1>4 DEF ReadRequest
  <2>2. v # u
    BY <2>1 DEF Pending
  <2>3. \A t \in tasks' : t.uid = u => t \in tasks
    BY <2>1, <2>2
  <2> QED
    BY <1>1, <2>1, <2>3 DEF Agrees, RawIs
<1>5. ASSUME NEW v \in Uids, ReadRequestBusy(v) PROVE Agrees(u, p)'
  <2>1. /\ fate[v] = "unseen" /\ UNCHANGED <<tasks, completion>>
        /\ UNCHANGED bulkVars \/ SessionQueues(Response(v, "busy"))
    BY <1>5 DEF ReadRequestBusy
  <2>2. v # u
    BY <2>1 DEF Pending
  <2>3. Response(v, "busy") \in Responses /\ Response(v, "busy").uid # u
    BY <2>2 DEF Response, Responses, Answers
  <2>4. QueuedIn(bulk', waiting', u, E)
    BY <2>1, <2>3, SessionQueued DEF Agrees
  <2> QED
    BY <1>1, <2>1, <2>4 DEF Agrees
<1> QED
  BY <1>2, <1>3, <1>4, <1>5
     DEF SelectNext, ShutdownArm, WriterArm, HeartbeatExpires, HeartbeatTick, ReadPing,
         ReadReady, ReadClose, ReadFails

LEMMA ScrapeAgrees ==
    ASSUME TypeOK, OneScrape, NEW t \in tasks, ScrapeStep(t),
           NEW u \in Uids, NEW p, ~Pending(fate, tasks, busyq, u), Agrees(u, p)
    PROVE  Agrees(u, p)'
<1>1. UNCHANGED <<bulkVars, upload, wire, posts>>
  BY DEF ScrapeStep, ExporterRefused, ExporterAnswers, PostAccepted, PostFallsBack, PostAbandoned
<1>2. t.uid = u => t.answer # "pending" /\ t.answer = p
  BY DEF Pending, Agrees, RawIs
<1>3. tasks = {t}
  BY DEF OneScrape
<1>4. ASSUME NEW a, Report(t, a), t.uid = u => a \in {"none", t.answer}
      PROVE  Agrees(u, p)'
  <2>1. /\ tasks' = {}
        /\ UNCHANGED completion \/ completion' = <<[uid |-> t.uid, answer |-> a]>>
    BY <1>3, <1>4 DEF Report
  <2>2. Got(<<[uid |-> t.uid, answer |-> a]>>) = {[uid |-> t.uid, answer |-> a]}
    BY DEF Got
  <2>3. RawIs(tasks', completion', posts', u, p)
    <3>1. CASE UNCHANGED completion
      BY <1>1, <2>1, <3>1 DEF Agrees, RawIs
    <3>2. CASE completion' = <<[uid |-> t.uid, answer |-> a]>>
      BY <1>1, <1>2, <1>4, <2>1, <2>2, <3>2 DEF Agrees, RawIs
    <3> QED
      BY <2>1, <3>1, <3>2
  <2> QED
    BY <1>1, <2>3 DEF Agrees
<1>5. CASE ExporterAnswers(t) /\ t.uid # u
  <2>1. ASSUME NEW a, tasks' = (tasks \ {t}) \cup {[t EXCEPT !.answer = a]}, UNCHANGED completion
        PROVE  Agrees(u, p)'
    <3>1. [t EXCEPT !.answer = a].uid = t.uid
      BY DEF TypeOK, Tasks
    <3>2. \A x \in tasks' : x.uid # u
      BY <1>3, <1>5, <2>1, <3>1
    <3> QED
      BY <1>1, <2>1, <3>2 DEF Agrees, RawIs
  <2> QED
    BY <1>4, <1>5, <2>1 DEF ExporterAnswers
<1>6. CASE ~ExporterAnswers(t)
  BY <1>4, <1>6 DEF ScrapeStep, ExporterRefused, PostAccepted, PostFallsBack, PostAbandoned
<1>7. t.uid = u => ~ExporterAnswers(t)
  BY <1>2 DEF ExporterAnswers
<1> QED
  BY <1>5, <1>6, <1>7

LEMMA ActorAgrees ==
    ASSUME TypeOK, ActorNext, NEW u \in Uids, NEW p, ~Pending(fate, tasks, busyq, u), Agrees(u, p)
    PROVE  Agrees(u, p)'
<1>1. UNCHANGED <<tasks, completion, upload, wire>>
  BY DEF ActorNext, ActorTakes, BusyPostAccepted, BusyPostFails, ActorPushes, ActorSendFails,
         ActorDone
<1>2. u \in posts' => u \in posts
  <2>1. CASE ActorTakes
    <3>1. busyq \in Seq(Uids) /\ busyq # <<>> /\ posts' = posts \cup {Head(busyq)}
      BY <2>1 DEF TypeOK, ActorTakes
    <3>2. Head(busyq) # u
      BY <3>1, GotTail DEF Pending
    <3> QED
      BY <3>1, <3>2
  <2>2. CASE ~ActorTakes
    BY <2>2 DEF ActorNext, BusyPostAccepted, BusyPostFails, ActorPushes, ActorSendFails, ActorDone,
                ActorReturns
  <2> QED
    BY <2>1, <2>2
<1>3. QueuedIn(bulk', waiting', u, Encodings(p))
  <2>1. ASSUME NEW v \in posts, BusyPostFails(v) PROVE QueuedIn(bulk', waiting', u, Encodings(p))
    <3>1. Response(v, "busy") \in Responses /\ Response(v, "busy").answer = "busy"
          /\ Response(v, "busy").uid = v
      BY DEF TypeOK, Response, Responses, Answers
    <3>2. v = u => p = "busy"
      BY DEF Agrees, RawIs
    <3>3. PICK outcome : QueueResponse("actor", Response(v, "busy"), outcome)
      BY <2>1 DEF BusyPostFails
    <3> QED
      BY <3>1, <3>2, <3>3, QueueResponseQueued DEF Agrees, Senders
  <2>2. CASE ActorPushes \/ ActorSendFails
    BY <2>2, LeavesQueued DEF ActorPushes, ActorSendFails, Agrees
  <2>3. CASE UNCHANGED bulkVars
    BY <2>3 DEF Agrees
  <2> QED
    BY <2>1, <2>2, <2>3 DEF ActorNext, ActorTakes, BusyPostAccepted, ActorDone
<1> QED
  BY <1>1, <1>2, <1>3 DEF Agrees, RawIs

LEMMA WriterAgrees ==
    ASSUME TypeOK, WriterNext \/ Kill, NEW u \in Uids, NEW p, Agrees(u, p)
    PROVE  Agrees(u, p)'
<1>1. UNCHANGED <<tasks, completion, waiting, posts>>
  BY DEF WriterNext, TakeControl, ControlSent, TakeBulk, BulkSent, SendFails, CloseDone, Drained,
         Kill
<1>2. CASE UNCHANGED <<bulk, upload, wire>>
  BY <1>1, <1>2 DEF Agrees
<1>3. CASE TakeBulk
  <2>1. /\ bulk \in Seq(Responses) /\ bulk # <<>> /\ bulk' = Tail(bulk) /\ upload' = Head(bulk)
        /\ UNCHANGED wire
    BY <1>3 DEF TypeOK, TakeBulk
  <2>2. Head(bulk) \in Got(bulk) /\ Got(bulk') \subseteq Got(bulk)
    BY <2>1, GotTail
  <2> QED
    BY <1>1, <2>1, <2>2 DEF Agrees, RawIs, QueuedIn, WrittenIn
<1>4. CASE bulk' \in {bulk, <<>>} /\ upload' = NoResponse /\ UNCHANGED wire
  <2>1. NoResponse.uid # u
    BY NoUidAssumption DEF NoResponse
  <2> QED
    BY <1>1, <1>4, <2>1, GotEmpty DEF Agrees, RawIs, QueuedIn, WrittenIn
<1>5. CASE FrameArrives
  <2>1. NoResponse.uid # u
    BY NoUidAssumption DEF NoResponse
  <2> DEFINE v == upload.uid
             c == [via |-> "frame", answer |-> upload.answer]
  <2>2. v \in Uids /\ upload.answer \in Answers
    BY <1>5, UploadType DEF FrameArrives
  <2>3. (u # v => wire'[u] = wire[u]) /\ Got(wire'[v]) = Got(wire[v]) \cup {c}
    BY <1>5, <2>2, ReceiveMoves DEF FrameArrives
  <2>4. c.answer = upload.answer
    OBVIOUS
  <2>5. u = v => upload.answer \in Encodings(p)
    BY DEF Agrees, WrittenIn
  <2> HIDE DEF v, c
  <2>6. \A x \in Got(wire'[u]) : x \in Got(wire[u]) \/ (u = v /\ x = c)
    BY <2>3
  <2>7. \A x \in Got(wire'[u]) : x.via = "frame" => x.answer \in Encodings(p)
    BY <2>4, <2>5, <2>6 DEF Agrees, WrittenIn
  <2>8. WrittenIn(upload', wire'[u], u, Encodings(p))
    BY <1>5, <2>1, <2>7 DEF FrameArrives, WrittenIn
  <2>9. QueuedIn(bulk', waiting', u, Encodings(p))
    BY <1>1, <1>5, GotEmpty DEF FrameArrives, Agrees, QueuedIn
  <2> QED
    BY <1>1, <2>8, <2>9 DEF Agrees
<1> QED
  BY <1>2, <1>3, <1>4, <1>5
     DEF WriterNext, TakeControl, ControlSent, BulkSent, SendFails, CloseDone, Drained,
         Kill, JoinWriter,
         StopWriter, UploadCutOff, FrameArrives, Settle

LEMMA OldPostAgrees ==
    ASSUME TypeOK, OneScrape, [Next]_vars, NEW u \in Uids, NEW p,
           ~Pending(fate, tasks, busyq, u), Agrees(u, p), wire'[u] = wire[u] \/ WriterNext \/ Kill
    PROVE  Agrees(u, p)'
<1>1. CASE /\ UNCHANGED <<bulk, upload>> /\ wire'[u] = wire[u]
           /\ tasks' \in {tasks, {}} /\ completion' \in {completion, <<>>}
           /\ waiting' \in {waiting, <<>>} /\ posts' \in {posts, {}}
  BY <1>1, GotEmpty DEF Agrees, RawIs, QueuedIn, WrittenIn
<1>2. CASE ReaderPushes \/ ReaderSendFails
  <2>1. QueuedIn(bulk', waiting', u, Encodings(p))
    BY <1>2, LeavesQueued DEF ReaderPushes, ReaderSendFails, Agrees
  <2> QED
    BY <1>2, <2>1 DEF ReaderPushes, ReaderSendFails, Agrees
<1>3. CASE WriterNext \/ Kill
  BY <1>3, WriterAgrees
<1>4. CASE SelectNext
  BY <1>4, SelectAgrees
<1>5. CASE ScrapeNext
  BY <1>5, ScrapeAgrees DEF ScrapeNext
<1>6. CASE ActorNext
  BY <1>6, ActorAgrees
<1> QED
  BY <1>1, <1>2, <1>3, <1>4, <1>5, <1>6
     DEF Next, Cancel, Ended, FinishNext, FinishTask, Flushed, JoinWriter, FlushTimesOut,
         Reap, PostArrives

LEMMA AgreeMoves ==
    ASSUME TypeOK, OneScrape, AmountInv, PostInv, FrameInv, AgreeInv, AmountStep, [Next]_vars
    PROVE  AgreeInv'
<1> SUFFICES ASSUME NEW u \in Uids, NEW p, WasPosted(net', wire'[u], u, p)
             PROVE  Agrees(u, p)'
  BY DEF AgreeInv
<1>1. CASE net' # net /\ ~PostArrives /\ net' = net \cup {[uid |-> u, answer |-> p]}
  BY <1>1, NewPostAgrees
<1>2. CASE ~Pending(fate, tasks, busyq, u) /\ WasPosted(net, wire[u], u, p)
  <2>1. Agrees(u, p)
    BY <1>2 DEF AgreeInv
  <2>2. CASE PostArrives
    <3>1. PICK r \in net : Receive(r.uid, "post", r.answer)
      BY <2>2 DEF PostArrives
    <3>2. r.uid \in Uids /\ r.answer \in Answers
      BY DEF TypeOK, Responses
    <3>3. \A c \in Got(wire'[u]) : c \in Got(wire[u]) \/ c.via # "frame"
      BY <3>1, <3>2, ReceiveMoves
    <3> QED
      BY <2>1, <2>2, <3>3 DEF PostArrives, Agrees, WrittenIn
  <2>3. CASE UNCHANGED wire \/ WriterNext \/ Kill
    BY <1>2, <2>1, <2>3, OldPostAgrees
  <2>4. UNCHANGED wire \/ PostArrives \/ WriterNext \/ Kill
    BY DEF Next, Cancel, Ended, ReaderPushes, ReaderSendFails, FinishNext, FinishTask, Flushed,
           FlushTimesOut, Reap, SelectNext, ShutdownArm, WriterArm, HeartbeatExpires,
           HeartbeatTick, CompletionArm, ReadPing, ReadReady, ReadRequest, ReadRequestBusy,
           ReadClose, ReadFails, ActorNext, ActorTakes, BusyPostAccepted, BusyPostFails,
           ActorPushes, ActorSendFails, ActorDone, ScrapeNext, ScrapeStep, ExporterRefused,
           ExporterAnswers, PostAccepted, PostFallsBack, PostAbandoned
  <2> QED
    BY <2>2, <2>3, <2>4
<1> QED
  BY <1>1, <1>2, OldPost

(* What holds of the copies and the answers in every state.                *)
DeliveryInv == PostInv /\ FrameInv /\ AgreeInv

LEMMA DeliveryHolds == Spec => []DeliveryInv
<1>1. Init => DeliveryInv
  <2> SUFFICES ASSUME Init PROVE DeliveryInv
    OBVIOUS
  <2>1. \A u \in Uids : Got(wire[u]) = {} /\ Distinct(wire[u])
    BY GotEmpty DEF Init, Distinct
  <2> QED
    BY <2>1 DEF Init, DeliveryInv, PostInv, FrameInv, AgreeInv, HasCopy, WasPosted
<1>2. TypeOK /\ OneScrape /\ AmountInv /\ DeliveryInv /\ [Next]_vars => DeliveryInv'
  BY AmountMoves, PostMoves, FrameMoves, AgreeMoves DEF DeliveryInv
<1> QED
  BY <1>1, <1>2, TypeCorrect, OneScrapeAtATime, AmountHolds, PTL DEF Spec

(* The copies of an answer agree, for any number of requests and any       *)
(* capacities: at most one arrives by POST, only on wire v3, and one as a  *)
(* frame, and the frame carries what was posted or the empty 500 of a      *)
(* response that did not fit.                                              *)
THEOREM AnswersAgree == Spec => []CopiesAgree
<1>1. TypeOK /\ DeliveryInv => CopiesAgree
  <2> SUFFICES ASSUME TypeOK, DeliveryInv, NEW u \in Uids,
                      NEW i \in DOMAIN wire[u], NEW j \in DOMAIN wire[u]
               PROVE  /\ wire[u][i].via = "post" => Protocol = 3
                      /\ wire[u][i].via = wire[u][j].via => i = j
                      /\ wire[u][i].via = "post" /\ wire[u][j].via = "frame"
                           => wire[u][j].answer \in Encodings(wire[u][i].answer)
    BY DEF CopiesAgree
  <2>1. wire[u][i] \in Got(wire[u]) /\ wire[u][j] \in Got(wire[u])
    BY DEF Got
  <2>2. wire[u][i].via = "post" => Protocol = 3
    BY <2>1 DEF DeliveryInv, PostInv, HasCopy
  <2>3. wire[u][i].via = wire[u][j].via => i = j
    BY DEF DeliveryInv, PostInv, Distinct
  <2>4. ASSUME wire[u][i].via = "post", wire[u][j].via = "frame"
        PROVE  wire[u][j].answer \in Encodings(wire[u][i].answer)
    <3>1. WasPosted(net, wire[u], u, wire[u][i].answer)
      BY <2>1, <2>4 DEF WasPosted
    <3>2. Agrees(u, wire[u][i].answer)
      BY <3>1 DEF DeliveryInv, AgreeInv
    <3> QED
      BY <2>1, <2>4, <3>2 DEF Agrees, WrittenIn
  <2> QED
    BY <2>2, <2>3, <2>4
<1> QED
  BY <1>1, DeliveryHolds, TypeCorrect, PTL

-----------------------------------------------------------------------------
(* A response that the client holds is owed.                               *)
LEMMA HeldIsOwed ==
    ASSUME TypeOK, AmountInv
    PROVE  /\ \A t \in tasks : t.uid \in Uids /\ fate[t.uid] = "owed"
           /\ \A i \in DOMAIN completion :
                completion[i].answer # "none" => fate[completion[i].uid] = "owed"
           /\ \A u \in posts : u \in Uids /\ fate[u] = "owed"
<1>1. \A u \in Uids : fate[u] # "owed" =>
        HasTask(tasks, u) = 0 /\ HasReport(completion, u) = 0 /\ HasPost(posts, u) = 0
  BY NothingHolds DEF AmountInv
<1>2. \A t \in tasks : t.uid \in Uids
  BY DEF TypeOK, Tasks
<1>3. \A i \in DOMAIN completion : completion[i].uid \in Uids
  <2>1. completion \in Seq(Completions)
    BY DEF TypeOK
  <2>2. \A i \in DOMAIN completion : completion[i] \in Completions
    BY <2>1, GotTyped DEF Got
  <2> QED
    BY <2>2 DEF Completions
<1>4. posts \subseteq Uids
  BY DEF TypeOK
<1>5. \A u \in Uids : fate[u] # "owed" =>
        /\ \A t \in tasks : t.uid # u
        /\ \A i \in DOMAIN completion : ~(completion[i].uid = u /\ completion[i].answer # "none")
        /\ u \notin posts
  BY <1>1 DEF HasTask, HasReport, HasPost, One
<1> QED
  BY <1>2, <1>3, <1>4, <1>5

(* A step settles what it may settle: a request that is read becomes owed  *)
(* or is refused; one that is owed is given up, or is answered because its *)
(* POST has arrived.                                                       *)
Settled(u) ==
    \/ fate[u] = "unseen" /\ (Settle(u, "owed") \/ Settle(u, "dropped"))
    \/ fate[u] = "owed" /\ Settle(u, "dropped")
    \/ fate[u] = "owed" /\ HasCopy(wire[u], "post") /\ Settle(u, "answered")
FateStep ==
    /\ UNCHANGED wire
    /\ UNCHANGED fate \/ \E u \in Uids : Settled(u)
    /\ reader # "ended" /\ reader' # "ended"

LEMMA QueueResponseFates ==
    ASSUME TypeOK, NEW s, NEW r \in Responses, NEW outcome, QueueResponse(s, r, outcome),
           fate[r.uid] \in {"unseen", "owed"}
    PROVE  UNCHANGED fate \/ \E u \in Uids : Settled(u)
<1>1. r.uid \in Uids /\ fate \in [Uids -> {"unseen", "owed", "answered", "dropped"}]
  BY DEF TypeOK, Responses
<1>2. Settle(r.uid, "owed") \/ Settle(r.uid, "dropped")
  BY DEF QueueResponse
<1>3. CASE fate[r.uid] = "owed" /\ Settle(r.uid, "owed")
  BY <1>1, <1>3 DEF Settle
<1> QED
  BY <1>1, <1>2, <1>3 DEF Settled

LEMMA SelectFates == TypeOK /\ AmountInv /\ SelectNext => FateStep
<1> SUFFICES ASSUME TypeOK, AmountInv, SelectNext PROVE FateStep
  OBVIOUS
<1>1. UNCHANGED wire
  BY DEF SelectNext, ShutdownArm, WriterArm, HeartbeatExpires, HeartbeatTick, CompletionArm,
         ReadPing, ReadReady, ReadRequest, ReadRequestBusy, ReadClose, ReadFails
<1>2. reader = "select" /\ reader' \in {"select", "queueing", "finishing"}
  BY DEF SelectNext, ShutdownArm, WriterArm, HeartbeatExpires, HeartbeatTick, CompletionArm,
         ReadPing, ReadReady, ReadRequest, ReadRequestBusy, ReadClose, ReadFails, AtSelect,
         EndRun, SessionQueues
<1>3. CASE CompletionArm
  <2>1. completion \in Seq(Completions) /\ completion # <<>>
    BY <1>3 DEF TypeOK, CompletionArm
  <2>2. 1 \in DOMAIN completion /\ Head(completion) = completion[1] /\ completion[1] \in Completions
    BY <2>1, HeadTailProperties, EmptySeq, LenProperties, ElementOfSeq
  <2>3. CASE Head(completion).answer # "none" /\ SessionQueues(Head(completion))
    <3>1. Head(completion) \in Responses /\ fate[Head(completion).uid] = "owed"
      BY <2>2, <2>3, HeldIsOwed DEF Completions, Responses
    <3> QED
      BY <1>1, <1>2, <2>3, <3>1, QueueResponseFates DEF SessionQueues, FateStep
  <2> QED
    BY <1>1, <1>2, <1>3, <2>3 DEF CompletionArm, FateStep
<1>4. ASSUME NEW u \in Uids, ReadRequest(u) PROVE FateStep
  BY <1>1, <1>2, <1>4 DEF ReadRequest, FateStep, Settled
<1>5. ASSUME NEW u \in Uids, ReadRequestBusy(u) PROVE FateStep
  <2>1. fate[u] = "unseen"
    BY <1>5 DEF ReadRequestBusy
  <2>2. CASE Settle(u, "owed") \/ Settle(u, "dropped")
    BY <1>1, <1>2, <2>1, <2>2 DEF FateStep, Settled
  <2>3. CASE SessionQueues(Response(u, "busy"))
    <3>1. Response(u, "busy") \in Responses /\ Response(u, "busy").uid = u
      BY DEF Response, Responses, Answers
    <3> QED
      BY <1>1, <1>2, <2>1, <2>3, <3>1, QueueResponseFates DEF SessionQueues, FateStep
  <2> QED
    BY <1>5, <2>2, <2>3 DEF ReadRequestBusy
<1> QED
  BY <1>1, <1>2, <1>3, <1>4, <1>5
     DEF SelectNext, ShutdownArm, WriterArm, HeartbeatExpires, HeartbeatTick, ReadPing,
         ReadReady, ReadClose, ReadFails, FateStep

LEMMA PostArrivedIsCopy == \A u \in Uids : PostArrived(u) => HasCopy(wire[u], "post")
BY DEF PostArrived, HasCopy, Got

LEMMA ScrapeFates == TypeOK /\ AmountInv /\ NoOrphans /\ ScrapeNext => FateStep
<1> SUFFICES ASSUME TypeOK, AmountInv, NoOrphans, NEW t \in tasks, ScrapeStep(t) PROVE FateStep
  BY DEF ScrapeNext
<1>1. t.uid \in Uids /\ fate[t.uid] = "owed"
  BY HeldIsOwed
<1>2. reader # "ended" /\ UNCHANGED <<reader, wire>>
  BY DEF NoOrphans, ScrapeStep, ExporterRefused, ExporterAnswers, PostAccepted, PostFallsBack,
         PostAbandoned
<1> QED
  BY <1>1, <1>2, PostArrivedIsCopy
     DEF ScrapeStep, ExporterRefused, ExporterAnswers, PostAccepted, PostFallsBack,
         PostAbandoned, FateStep, Settled

LEMMA ActorFates == TypeOK /\ AmountInv /\ NoOrphans /\ ActorNext => FateStep
<1> SUFFICES ASSUME TypeOK, AmountInv, NoOrphans, ActorNext PROVE FateStep
  OBVIOUS
<1>1. UNCHANGED <<reader, wire>>
  BY DEF ActorNext, ActorTakes, BusyPostAccepted, BusyPostFails, ActorPushes, ActorSendFails,
         ActorDone
<1>2. reader # "ended"
  BY DEF ActorNext, ActorTakes, BusyPostAccepted, BusyPostFails, ActorPushes, ActorSendFails,
         ActorDone, NoOrphans, ActorGone
<1>3. ASSUME NEW u \in posts, BusyPostAccepted(u) PROVE FateStep
  BY <1>1, <1>2, <1>3, HeldIsOwed, PostArrivedIsCopy DEF BusyPostAccepted, FateStep, Settled
<1>4. ASSUME NEW u \in posts, BusyPostFails(u) PROVE FateStep
  <2>1. /\ Response(u, "busy") \in Responses
        /\ Response(u, "busy").uid = u
        /\ fate[u] = "owed"
    BY HeldIsOwed DEF Response, Responses, Answers
  <2>2. PICK outcome \in Outcomes : QueueResponse("actor", Response(u, "busy"), outcome)
    BY <1>4 DEF BusyPostFails
  <2> QED
    BY <1>1, <1>2, <2>1, <2>2, QueueResponseFates DEF FateStep
<1> QED
  BY <1>1, <1>2, <1>3, <1>4 DEF ActorNext, ActorTakes, ActorPushes, ActorSendFails, ActorDone, FateStep

(* A step of the connection that reads, settles or stops holding a request *)
(* is one of Delivery's, and so is the arrival of an answer.               *)
LEMMA StepsOfDelivery ==
    ASSUME TypeOK, AmountInv, NoOrphans, [Next]_vars
    PROVE  \/ FateStep
           \/ UNCHANGED <<reader, fate, wire>>
           \/ PostArrives
           \/ FrameArrives /\ UNCHANGED reader
           \/ FrameArrives /\ reader = "killing" /\ reader' # "ended"
           \/ UNCHANGED <<fate, wire>> /\ reader # "ended"
<1>1. CASE WriterNext
  BY <1>1 DEF WriterNext, TakeControl, ControlSent, TakeBulk, BulkSent, SendFails, CloseDone,
              Drained, StopWriter, UploadCutOff, FrameArrives, Settle
<1>2. CASE Kill
  BY <1>2 DEF Kill, JoinWriter, StopWriter, UploadCutOff, FrameArrives
<1>3. CASE UNCHANGED vars
  BY <1>3
<1> QED
  BY <1>1, <1>2, <1>3, SelectFates, ScrapeFates, ActorFates
     DEF Next, Cancel, Ended, ReaderPushes, ReaderSendFails, FinishNext, FinishTask, Flushed,
         FlushTimesOut, Reap

(* The ways by which the copies of an answer arrived.                      *)
Ways(w) == [i \in DOMAIN w |-> w[i].via]

LEMMA WaysOfAppend ==
    ASSUME NEW w \in Seq(Copies), NEW c \in Copies
    PROVE  Ways(Append(w, c)) = Append(Ways(w), c.via)
<1> DEFINE n == Len(w)
           p == Append(w, c)
<1>1. /\ n \in Nat /\ DOMAIN w = 1..n /\ DOMAIN p = 1..(n + 1)
      /\ \A i \in 1..n : p[i] = w[i]
      /\ p[n + 1] = c
  BY AppendProperties, LenProperties
<1>2. \A i \in 1..n : w[i].via \in {"post", "frame"}
  <2>1. \A i \in DOMAIN w : w[i] \in Copies
    BY GotTyped DEF Got
  <2> QED
    BY <1>1, <2>1 DEF Copies
<1> HIDE DEF n, p
<1>3. Ways(w) = [i \in 1..n |-> w[i].via] /\ Ways(p) = [i \in 1..(n + 1) |-> p[i].via]
  BY <1>1 DEF Ways
<1>4. Ways(w) \in Seq({"post", "frame"}) /\ Len(Ways(w)) = n
  BY <1>1, <1>2, <1>3
<1>5. c.via \in {"post", "frame"}
  BY DEF Copies
<1>6. /\ Append(Ways(w), c.via) \in Seq({"post", "frame"})
      /\ Len(Append(Ways(w), c.via)) = n + 1
      /\ \A i \in 1..n : Append(Ways(w), c.via)[i] = Ways(w)[i]
      /\ Append(Ways(w), c.via)[n + 1] = c.via
  BY <1>4, <1>5, AppendProperties
<1>7. /\ Ways(p) \in Seq({"post", "frame"}) /\ Len(Ways(p)) = n + 1
      /\ \A i \in 1..n : Ways(p)[i] = Ways(w)[i]
      /\ Ways(p)[n + 1] = c.via
  BY <1>1, <1>2, <1>3, <1>5
<1>8. \A i \in 1..(n + 1) : Ways(p)[i] = Append(Ways(w), c.via)[i]
  BY <1>1, <1>6, <1>7
<1>9. Ways(p) = Append(Ways(w), c.via)
  BY <1>6, <1>7, <1>8, SeqEqual
<1> QED
  BY <1>9 DEF p

LEMMA ReceiveArrives ==
    ASSUME TypeOK, NEW u \in Uids, NEW via \in {"post", "frame"}, NEW a \in Answers,
           Receive(u, via, a)
    PROVE  D!Arrive(u, via)
<1> DEFINE c == [via |-> via, answer |-> a]
           before == [v \in Uids |-> [i \in DOMAIN wire[v] |-> wire[v][i].via]]
           after == [v \in Uids |-> [i \in DOMAIN wire'[v] |-> wire'[v][i].via]]
<1>1. wire \in [Uids -> Seq(Copies)] /\ c \in Copies /\ c.via = via
  BY DEF TypeOK, Copies
<1>2. wire'[u] = Append(wire[u], c) /\ \A v \in Uids : v # u => wire'[v] = wire[v]
  BY <1>1 DEF Receive
<1>3. Ways(wire'[u]) = Append(Ways(wire[u]), via)
  BY <1>1, <1>2, WaysOfAppend
<1>4. before = [v \in Uids |-> Ways(wire[v])] /\ after = [v \in Uids |-> Ways(wire'[v])]
  BY DEF Ways
<1> HIDE DEF before, after
<1>5. after = [before EXCEPT ![u] = Append(before[u], via)]
  BY <1>2, <1>3, <1>4
<1> QED
  BY <1>5 DEF D!Arrive, before, after

LEMMA CopyIsWay ==
    ASSUME NEW u \in Uids, NEW via
    PROVE  D!Has(u, via) <=> HasCopy(wire[u], via)
BY DEF D!Has, HasCopy, Got

LEMMA DeliveryStep ==
    ASSUME TypeOK, OneScrape, AmountInv, NoOrphans, DeliveryInv, [Next]_vars
    PROVE  [D!Next]_(D!vars)
<1>1. AmountStep /\ PostInv /\ FrameInv
  BY AmountMoves DEF DeliveryInv
<1>2. CASE FateStep
  <2>1. CASE UNCHANGED fate
    BY <1>2, <2>1 DEF FateStep, D!vars
  <2>2. ASSUME NEW u \in Uids, Settled(u) PROVE D!Next
    <3>1. D!Read(u) \/ D!Confirm(u) \/ D!Drop(u)
      BY <1>2, <2>2, CopyIsWay
         DEF FateStep, Settled, Settle, D!Read, D!Confirm, D!Drop, D!Set
    <3> QED
      BY <3>1 DEF D!Next
  <2> QED
    BY <1>2, <2>1, <2>2 DEF FateStep
<1>3. CASE PostArrives
  <2>1. PICK r \in net : Receive(r.uid, "post", r.answer)
    BY <1>3 DEF PostArrives
  <2>2. r.uid \in Uids /\ r.answer \in Answers
    BY DEF TypeOK, Responses
  <2>3. /\ Protocol = 3
        /\ ~HasCopy(wire[r.uid], "post")
        /\ fate[r.uid] # "unseen"
    BY <1>1, <2>2 DEF PostInv, Pending
  <2>4. UNCHANGED <<reader, fate>>
    BY <1>3 DEF PostArrives
  <2>5. D!Post(r.uid)
    BY <2>1, <2>2, <2>3, <2>4, ReceiveArrives, CopyIsWay DEF D!Post
  <2> QED
    BY <2>2, <2>5 DEF D!Next
<1>4. CASE FrameArrives /\ (UNCHANGED reader \/ (reader = "killing" /\ reader' # "ended"))
  <2>1. PICK u : /\ u = upload.uid
                 /\ u \in Uids /\ upload.answer \in Answers
                 /\ fate[u] = "owed" /\ ~HasCopy(wire[u], "frame")
    BY <1>1, <1>4, FrameIsLast
  <2>2. D!Arrive(u, "frame")
    <3>1. Receive(u, "frame", upload.answer)
      BY <1>4, <2>1 DEF FrameArrives, Receive
    <3> QED
      BY <2>1, <3>1, ReceiveArrives
  <2>3. reader # "ended" /\ reader' # "ended"
    BY <1>4 DEF FrameArrives, NoOrphans, WriterStopped, Stopped
  <2>4. D!Frame(u)
    BY <1>4, <2>1, <2>2, <2>3, CopyIsWay DEF FrameArrives, D!Frame, D!Set
  <2> QED
    BY <2>1, <2>4 DEF D!Next
<1>5. CASE UNCHANGED <<reader, fate, wire>>
  BY <1>5 DEF D!vars
<1>6. CASE UNCHANGED <<fate, wire>> /\ reader # "ended"
  BY <1>6 DEF D!Next, D!Close, D!vars
<1> QED
  BY <1>2, <1>3, <1>4, <1>5, <1>6, StepsOfDelivery

(* The connection keeps what Delivery promises, for any number of requests *)
(* and any capacities: whatever its tasks and queues do, a request is read *)
(* once, settled once, and its answer arrives at most once in each way and *)
(* never as a frame once it is settled.                                    *)
THEOREM ImplementsDelivery == Spec => Delivers
<1>1. Init => D!Init
  BY DEF Init, D!Init
<1>2. /\ TypeOK /\ OneScrape /\ AmountInv /\ NoOrphans /\ DeliveryInv
      /\ [Next]_vars
      => [D!Next]_(D!vars)
  BY DeliveryStep
<1> QED
  BY <1>1, <1>2, TypeCorrect, OneScrapeAtATime, AmountHolds, NothingIsLeftBehind, DeliveryHolds,
     PTL DEF Spec, Delivers, D!Spec

-----------------------------------------------------------------------------
(* While the reader waits for the farewell to be flushed, the writer has   *)
(* still to take it from the control channel, is sending it or has stopped.*)
FlushInv ==
    reader = "flushing" => "close" \in Got(control) \/ writer = "closing" \/ WriterStopped

LEMMA FlushMoves == TypeOK /\ FlushInv /\ [Next]_vars => FlushInv'
<1> SUFFICES ASSUME TypeOK, FlushInv, [Next]_vars PROVE FlushInv'
  OBVIOUS
<1>1. control \in Seq(Frames) /\ "close" \in Frames
  BY DEF TypeOK, Frames
<1>2. CASE TakeControl
  <2>1. "close" \in Got(control) => Head(control) = "close" \/ "close" \in Got(Tail(control))
    BY <1>1, <1>2, GotHeadTail DEF TakeControl
  <2> QED
    BY <1>2, <2>1 DEF TakeControl, FlushInv, WriterStopped, Stopped
<1>3. CASE WriterNext /\ ~TakeControl
  BY <1>3 DEF WriterNext, ControlSent, TakeBulk, BulkSent, SendFails, CloseDone, Drained,
              StopWriter, FlushInv, WriterStopped, Stopped, SendersDropped
<1>4. CASE FinishTask
  <2>1. Got(Append(control, "close")) = Got(control) \cup {"close"}
    BY <1>1, GotAppend
  <2> QED
    BY <1>4, <2>1 DEF FinishTask, FlushInv
<1>5. CASE UNCHANGED <<control, writer, reader>>
  BY <1>5 DEF FlushInv, WriterStopped
<1>6. CASE reader' # "flushing"
  BY <1>6 DEF FlushInv
<1> QED
  BY <1>2, <1>3, <1>4, <1>5, <1>6
     DEF Next, Cancel, Ended, SelectNext, ShutdownArm, WriterArm, HeartbeatExpires,
         HeartbeatTick, CompletionArm, SessionQueues, ReadPing, ReadReady, ReadRequest,
         ReadRequestBusy, ReadClose, ReadFails, AtSelect, EndRun, ReaderPushes, ReaderSendFails,
         FinishNext, Flushed, JoinWriter, FlushTimesOut, Kill, Reap, ScrapeNext, ScrapeStep,
         ExporterRefused, ExporterAnswers, PostAccepted, PostFallsBack, PostAbandoned,
         PostArrives, ActorNext, ActorTakes, BusyPostAccepted, BusyPostFails, ActorPushes,
         ActorSendFails, ActorDone

(* The farewell overtakes every queued response, whatever the capacities:  *)
(* while the reader waits for it to be flushed the writer starts none.     *)
THEOREM FarewellOvertakes == Spec => FarewellFirst
<1>1. Init => FlushInv
  BY DEF Init, FlushInv
<1>2. TypeOK /\ FlushInv /\ [Next]_vars => FlushInv'
  BY FlushMoves
<1>3. FlushInv /\ [Next]_vars => [reader = "flushing" => upload' \in {upload, NoResponse}]_vars
  <2> SUFFICES ASSUME FlushInv, Next, reader = "flushing"
               PROVE  upload' \in {upload, NoResponse}
    OBVIOUS
  <2>1. CASE TakeBulk
    BY <2>1, GotEmpty DEF TakeBulk, FlushInv, WriterStopped, Stopped
  <2> QED
    BY <2>1
       DEF Next, Cancel, Ended, SelectNext, ShutdownArm, WriterArm, HeartbeatExpires,
           HeartbeatTick, CompletionArm, ReadPing, ReadReady, ReadRequest, ReadRequestBusy,
           ReadClose, ReadFails, AtSelect, ReaderPushes, ReaderSendFails, FinishNext,
           FinishTask, Flushed, JoinWriter, FlushTimesOut, Kill, Reap, StopWriter,
           ScrapeNext, ScrapeStep,
           ExporterRefused, ExporterAnswers, PostAccepted, PostFallsBack, PostAbandoned,
           PostArrives, ActorNext, ActorTakes, BusyPostAccepted, BusyPostFails, ActorPushes,
           ActorSendFails, ActorDone, WriterNext, TakeControl, ControlSent, BulkSent,
           SendFails, CloseDone, Drained
<1> QED
  BY <1>1, <1>2, <1>3, TypeCorrect, PTL DEF Spec, FarewellFirst
=============================================================================
