------------------------ MODULE ConnectionAccounting ------------------------
(***************************************************************************)
(* The accounting of the requests, for every value of the constants of     *)
(* Connection: a request that is owed an answer is held in one place.      *)
(***************************************************************************)
EXTENDS ConnectionSafety

USE DEF vars, readerVars, scrapeVars, bulkVars, actorVars, writerVars, serverVars

-----------------------------------------------------------------------------
(* How many elements of a sequence are u.                                  *)
Uses(q, u) == Cardinality({i \in DOMAIN q : q[i] = u})
One(condition) == IF condition THEN 1 ELSE 0

LEMMA UsesIsNat ==
    ASSUME NEW S, NEW q \in Seq(S), NEW u
    PROVE  /\ IsFiniteSet({i \in DOMAIN q : q[i] = u})
           /\ Uses(q, u) \in Nat
<1>1. DOMAIN q = 1..Len(q) /\ Len(q) \in Nat
  BY LenProperties
<1>2. IsFiniteSet(1..Len(q))
  BY <1>1, FS_Interval
<1>3. {i \in DOMAIN q : q[i] = u} \in SUBSET (1..Len(q))
  BY <1>1
<1> QED
  BY <1>2, <1>3, FS_Subset, FS_CardinalityType DEF Uses

LEMMA UsesOfEmpty ==
    ASSUME NEW u
    PROVE  Uses(<<>>, u) = 0
<1>1. {i \in DOMAIN <<>> : <<>>[i] = u} = {}
  OBVIOUS
<1> QED
  BY <1>1, FS_EmptySet DEF Uses

LEMMA UsesOfAppend ==
    ASSUME NEW S, NEW q \in Seq(S), NEW e \in S, NEW u
    PROVE  Uses(Append(q, e), u) = Uses(q, u) + One(e = u)
<1> DEFINE p == Append(q, e)
           I == {i \in DOMAIN q : q[i] = u}
           J == {i \in DOMAIN p : p[i] = u}
           n == Len(q) + 1
<1>1. /\ DOMAIN p = 1..n /\ DOMAIN q = 1..(n - 1) /\ n \in Nat \ {0}
      /\ \A i \in 1..(n - 1) : p[i] = q[i]
      /\ p[n] = e
  BY AppendProperties, LenProperties
<1>2. IsFiniteSet(I) /\ Cardinality(I) \in Nat
  BY UsesIsNat DEF Uses
<1>3. n \notin I
  BY <1>1
<1>4. J = IF e = u THEN I \cup {n} ELSE I
  <2> HIDE DEF p, n
  <2> QED
    BY <1>1
<1>5. Cardinality(J) = Cardinality(I) + One(e = u)
  <2> HIDE DEF I, J, n
  <2>1. Cardinality(I \cup {n}) = Cardinality(I) + 1
    BY <1>2, <1>3, FS_AddElement
  <2>2. CASE e = u
    BY <1>4, <2>1, <2>2 DEF One
  <2>3. CASE e # u
    BY <1>2, <1>4, <2>3 DEF One
  <2> QED
    BY <2>2, <2>3
<1> QED
  BY <1>5 DEF Uses

(* Removing an element of a sequence moves the later ones by one place.    *)
LEMMA UsesOfRemoved ==
    ASSUME NEW S, NEW q \in Seq(S), NEW p \in Seq(S), NEW k \in 1..Len(q), NEW u,
           Len(p) = Len(q) - 1,
           \A j \in 1..(Len(q) - 1) : p[j] = IF j < k THEN q[j] ELSE q[j + 1]
    PROVE  Uses(p, u) = Uses(q, u) - One(q[k] = u)
<1> DEFINE I == {i \in DOMAIN q : q[i] = u}
           J == {i \in DOMAIN p : p[i] = u}
           f == [j \in J |-> IF j < k THEN j ELSE j + 1]
<1>1. DOMAIN q = 1..Len(q) /\ DOMAIN p = 1..(Len(q) - 1) /\ Len(q) \in Nat
  BY LenProperties
<1>2. IsFiniteSet(I) /\ Cardinality(I) \in Nat
  BY UsesIsNat DEF Uses
<1>3. IsFiniteSet(J) /\ Cardinality(J) \in Nat
  BY UsesIsNat DEF Uses
<1>4. ASSUME NEW j \in J PROVE f[j] \in I \ {k}
  BY <1>1, <1>4
<1>5. \A i, j \in J : f[i] = f[j] => i = j
  BY <1>1
<1>6. ASSUME NEW i \in I \ {k} PROVE \E j \in J : f[j] = i
  <2>1. CASE i < k
    <3>1. i \in J /\ f[i] = i
      BY <1>1, <2>1
    <3> QED
      BY <3>1
  <2>2. CASE i > k
    <3>1. i - 1 \in J /\ f[i - 1] = i
      BY <1>1, <2>2
    <3> QED
      BY <3>1
  <2>3. i < k \/ i > k
    BY <1>1, <1>6
  <2> QED
    BY <2>1, <2>2, <2>3
<1>7. IsFiniteSet(I \ {k})
      /\ Cardinality(I \ {k}) = Cardinality(I) - One(q[k] = u)
  <2>1. k \in I <=> q[k] = u
    BY <1>1
  <2> HIDE DEF I
  <2> QED
    BY <1>2, <2>1, FS_RemoveElement DEF One
<1>8. f \in Injection(J, I \ {k}) /\ f \in Surjection(J, I \ {k})
  <2>1. f \in [J -> I \ {k}]
    BY <1>4
  <2> HIDE DEF f, I, J
  <2> QED
    BY <2>1, <1>5, <1>6 DEF Injection, Surjection, IsInjective
<1>9. Cardinality(J) = Cardinality(I \ {k})
  <2> HIDE DEF f, I, J
  <2> QED
    BY <1>7, <1>8, FS_Injection
<1> QED
  BY <1>7, <1>9 DEF Uses

LEMMA UsesOfTail ==
    ASSUME NEW S, NEW q \in Seq(S), q # <<>>, NEW u
    PROVE  Uses(Tail(q), u) = Uses(q, u) - One(Head(q) = u)
<1>1. /\ Tail(q) \in Seq(S) /\ Len(q) \in Nat /\ 1 \in 1..Len(q)
      /\ Len(Tail(q)) = Len(q) - 1
      /\ \A j \in 1..(Len(q) - 1) : Tail(q)[j] = q[j + 1]
      /\ Head(q) = q[1]
  BY HeadTailProperties, EmptySeq, LenProperties
<1> DEFINE p == Tail(q)
<1>2. /\ p \in Seq(S) /\ Len(p) = Len(q) - 1
      /\ \A j \in 1..(Len(q) - 1) : p[j] = IF j < 1 THEN q[j] ELSE q[j + 1]
  BY <1>1
<1> HIDE DEF p
<1>3. Uses(p, u) = Uses(q, u) - One(q[1] = u)
  <2>1. 1 \in 1..Len(q)
    BY <1>1
  <2> QED
    BY <1>2, <2>1, UsesOfRemoved
<1> QED
  BY <1>1, <1>3 DEF p

(* Who holds the response of u: the scrape task, its report, a blocked     *)
(* sender, a POST of the busy actor, the writer.                           *)
HasTask(T, u) == One(\E t \in T : t.uid = u)
HasReport(c, u) == One(\E i \in DOMAIN c : c[i].uid = u /\ c[i].answer # "none")
Held(w, u) == Cardinality({i \in DOMAIN w : w[i].item.uid = u})
HasPost(P, u) == One(u \in P)
HasUpload(r, u) == One(r.uid = u)

Amount(u) == HasTask(tasks, u) + HasReport(completion, u) + At(bulk, u) + Held(waiting, u)
             + Uses(busyq, u) + HasPost(posts, u) + HasUpload(upload, u)

LEMMA FlagsAreNat ==
    ASSUME NEW S, NEW u
    PROVE  /\ HasTask(S, u) \in 0..1 /\ HasReport(S, u) \in 0..1
           /\ HasPost(S, u) \in 0..1 /\ HasUpload(S, u) \in 0..1
BY DEF HasTask, HasReport, HasPost, HasUpload, One

(* The bulk channel by its uids.                                           *)
LEMMA AtCounts ==
    ASSUME NEW q \in Seq(Responses), NEW u
    PROVE  /\ At(q, u) \in Nat
           /\ \A e \in Responses : At(Append(q, e), u) = At(q, u) + One(e.uid = u)
           /\ q # <<>> => At(Tail(q), u) = At(q, u) - One(Head(q).uid = u)
<1> DEFINE Ids(p) == [i \in DOMAIN p |-> p[i].uid]
<1>1. ASSUME NEW p \in Seq(Responses)
      PROVE  /\ Ids(p) \in Seq(Uids)
             /\ Len(Ids(p)) = Len(p)
             /\ At(p, u) = Uses(Ids(p), u)
  <2>1. /\ DOMAIN p = 1..Len(p) /\ Len(p) \in Nat
        /\ \A i \in 1..Len(p) : p[i].uid \in Uids
    <3>1. \A i \in 1..Len(p) : p[i] \in Responses
      BY <1>1, ElementOfSeq
    <3> QED
      BY <1>1, <3>1, LenProperties DEF Responses
  <2>2. Ids(p) \in Seq(Uids) /\ Len(Ids(p)) = Len(p)
    BY <2>1
  <2>3. {i \in DOMAIN Ids(p) : Ids(p)[i] = u} = {i \in DOMAIN p : p[i].uid = u}
    OBVIOUS
  <2> QED
    BY <2>2, <2>3 DEF At, Uses
<1>2. At(q, u) \in Nat
  BY <1>1, UsesIsNat
<1>3. ASSUME NEW e \in Responses
      PROVE  At(Append(q, e), u) = At(q, u) + One(e.uid = u)
  <2>1. Append(q, e) \in Seq(Responses) /\ e.uid \in Uids
    BY <1>3 DEF Responses
  <2>2. Ids(Append(q, e)) = Append(Ids(q), e.uid)
    <3>1. /\ DOMAIN q = 1..Len(q) /\ Len(q) \in Nat
          /\ DOMAIN Append(q, e) = 1..(Len(q) + 1)
          /\ \A i \in 1..Len(q) : Append(q, e)[i] = q[i]
          /\ Append(q, e)[Len(q) + 1] = e
      BY AppendProperties, LenProperties
    <3>2. Append(Ids(q), e.uid) = [i \in 1..(Len(q) + 1) |->
                                      IF i = Len(q) + 1 THEN e.uid ELSE Ids(q)[i]]
      BY <1>1, <3>1
    <3> QED
      BY <3>1, <3>2
  <2> HIDE DEF Ids
  <2>3. Uses(Append(Ids(q), e.uid), u) = Uses(Ids(q), u) + One(e.uid = u)
    BY <1>1, <2>1, UsesOfAppend
  <2> QED
    BY <1>1, <2>1, <2>2, <2>3
<1>4. ASSUME q # <<>>
      PROVE  At(Tail(q), u) = At(q, u) - One(Head(q).uid = u)
  <2>1. /\ Tail(q) \in Seq(Responses) /\ Len(q) \in Nat \ {0}
        /\ Len(Tail(q)) = Len(q) - 1
        /\ DOMAIN Tail(q) = 1..(Len(q) - 1) /\ DOMAIN q = 1..Len(q)
        /\ \A i \in 1..(Len(q) - 1) : Tail(q)[i] = q[i + 1]
        /\ Head(q) = q[1]
    BY <1>4, HeadTailProperties, EmptySeq, LenProperties
  <2>2. /\ \A j \in 1..(Len(q) - 1) : Ids(Tail(q))[j] = IF j < 1 THEN Ids(q)[j] ELSE Ids(q)[j + 1]
        /\ Ids(q)[1] = Head(q).uid
    BY <2>1
  <2>3. Ids(q) \in Seq(Uids) /\ Len(Ids(q)) = Len(q) /\ Ids(Tail(q)) \in Seq(Uids)
        /\ Len(Ids(Tail(q))) = Len(q) - 1
    BY <1>1, <2>1
  <2> HIDE DEF Ids
  <2>4. Uses(Ids(Tail(q)), u) = Uses(Ids(q), u) - One(Ids(q)[1] = u)
    <3>1. 1 \in 1..Len(Ids(q))
      BY <2>1, <2>3
    <3> QED
      BY <2>2, <2>3, <3>1, UsesOfRemoved
  <2> QED
    BY <1>1, <2>1, <2>2, <2>4
<1> QED
  BY <1>2, <1>3, <1>4

(* The blocked senders by the uids of what they hold.                      *)
LEMMA HeldCounts ==
    ASSUME NEW q \in Seq(Waiter), NEW u
    PROVE  /\ Held(q, u) \in Nat
           /\ \A e \in Waiter : Held(Append(q, e), u) = Held(q, u) + One(e.item.uid = u)
           /\ \A k \in 1..Len(q) :
                Held(RemoveAt(q, k), u) = Held(q, u) - One(q[k].item.uid = u)
<1> DEFINE Ids(p) == [i \in DOMAIN p |-> p[i].item.uid]
<1>1. ASSUME NEW p \in Seq(Waiter)
      PROVE  /\ Ids(p) \in Seq(Uids)
             /\ Len(Ids(p)) = Len(p)
             /\ Held(p, u) = Uses(Ids(p), u)
  <2>1. /\ DOMAIN p = 1..Len(p) /\ Len(p) \in Nat
        /\ \A i \in 1..Len(p) : p[i].item.uid \in Uids
    <3>1. \A i \in 1..Len(p) : p[i] \in Waiter
      BY <1>1, ElementOfSeq
    <3> QED
      BY <1>1, <3>1, LenProperties DEF Waiter, Responses
  <2>2. Ids(p) \in Seq(Uids) /\ Len(Ids(p)) = Len(p)
    BY <2>1
  <2>3. {i \in DOMAIN Ids(p) : Ids(p)[i] = u} = {i \in DOMAIN p : p[i].item.uid = u}
    OBVIOUS
  <2> QED
    BY <2>2, <2>3 DEF Held, Uses
<1>2. Held(q, u) \in Nat
  BY <1>1, UsesIsNat
<1>3. ASSUME NEW e \in Waiter
      PROVE  Held(Append(q, e), u) = Held(q, u) + One(e.item.uid = u)
  <2>1. Append(q, e) \in Seq(Waiter) /\ e.item.uid \in Uids
    BY <1>3 DEF Waiter, Responses
  <2>2. Ids(Append(q, e)) = Append(Ids(q), e.item.uid)
    <3>1. /\ DOMAIN q = 1..Len(q) /\ Len(q) \in Nat
          /\ DOMAIN Append(q, e) = 1..(Len(q) + 1)
          /\ \A i \in 1..Len(q) : Append(q, e)[i] = q[i]
          /\ Append(q, e)[Len(q) + 1] = e
      BY AppendProperties, LenProperties
    <3>2. Append(Ids(q), e.item.uid) = [i \in 1..(Len(q) + 1) |->
                                      IF i = Len(q) + 1 THEN e.item.uid ELSE Ids(q)[i]]
      BY <1>1, <3>1
    <3> QED
      BY <3>1, <3>2
  <2> HIDE DEF Ids
  <2>3. Uses(Append(Ids(q), e.item.uid), u) = Uses(Ids(q), u) + One(e.item.uid = u)
    BY <1>1, <2>1, UsesOfAppend
  <2> QED
    BY <1>1, <2>1, <2>2, <2>3
<1>4. ASSUME NEW k \in 1..Len(q)
      PROVE  Held(RemoveAt(q, k), u) = Held(q, u) - One(q[k].item.uid = u)
  <2> DEFINE p == RemoveAt(q, k)
  <2>1. /\ p \in Seq(Waiter)
        /\ Len(p) = Len(q) - 1
        /\ \A j \in 1..(Len(q) - 1) : p[j] = IF j < k THEN q[j] ELSE q[j + 1]
    BY <1>4, RemoveAtProperties
  <2> HIDE DEF p
  <2>2. DOMAIN p = 1..(Len(q) - 1) /\ DOMAIN q = 1..Len(q) /\ Len(q) \in Nat
    BY <2>1, LenProperties
  <2>3. /\ \A j \in 1..(Len(q) - 1) : Ids(p)[j] = IF j < k THEN Ids(q)[j] ELSE Ids(q)[j + 1]
        /\ Ids(q)[k] = q[k].item.uid
    BY <1>4, <2>1, <2>2
  <2>4. Ids(q) \in Seq(Uids) /\ Len(Ids(q)) = Len(q) /\ Ids(p) \in Seq(Uids)
        /\ Len(Ids(p)) = Len(q) - 1
    BY <1>1, <2>1
  <2> HIDE DEF Ids
  <2>5. Uses(Ids(p), u) = Uses(Ids(q), u) - One(Ids(q)[k] = u)
    BY <1>4, <2>3, <2>4, UsesOfRemoved
  <2> QED
    BY <1>1, <2>1, <2>3, <2>5 DEF p
<1> QED
  BY <1>2, <1>3, <1>4

(* A settled request is held nowhere, an owed one at most once, and once   *)
(* while the reader and the writer run.                                    *)
Working == reader \in Running /\ ~WriterStopped
AmountInv ==
    \A u \in Uids :
        /\ Amount(u) \in 0..1
        /\ fate[u] # "owed" => Amount(u) = 0
        /\ Working /\ fate[u] = "owed" => Amount(u) = 1

LEMMA AmountIsNat ==
    ASSUME TypeOK, NEW u
    PROVE  /\ HasTask(tasks, u) \in 0..1 /\ HasReport(completion, u) \in 0..1
           /\ At(bulk, u) \in Nat /\ Held(waiting, u) \in Nat /\ Uses(busyq, u) \in Nat
           /\ HasPost(posts, u) \in 0..1 /\ HasUpload(upload, u) \in 0..1
           /\ Amount(u) \in Nat
<1>1. bulk \in Seq(Responses) /\ waiting \in Seq(Waiter) /\ busyq \in Seq(Uids)
  BY DEF TypeOK, Waiter
<1>2. At(bulk, u) \in Nat /\ Held(waiting, u) \in Nat /\ Uses(busyq, u) \in Nat
  BY <1>1, AtCounts, HeldCounts, UsesIsNat
<1> QED
  BY <1>2, FlagsAreNat DEF Amount

LEMMA NothingHolds ==
    ASSUME TypeOK, NEW u, Amount(u) = 0
    PROVE  /\ HasTask(tasks, u) = 0 /\ HasReport(completion, u) = 0
           /\ At(bulk, u) = 0 /\ Held(waiting, u) = 0 /\ Uses(busyq, u) = 0
           /\ HasPost(posts, u) = 0 /\ HasUpload(upload, u) = 0
<1> DEFINE upto2 == HasTask(tasks, u) + HasReport(completion, u)
           upto3 == upto2 + At(bulk, u)
           upto4 == upto3 + Held(waiting, u)
           upto5 == upto4 + Uses(busyq, u)
           upto6 == upto5 + HasPost(posts, u)
<1>1. /\ HasTask(tasks, u) \in Nat /\ HasReport(completion, u) \in Nat
      /\ At(bulk, u) \in Nat /\ Held(waiting, u) \in Nat /\ Uses(busyq, u) \in Nat
      /\ HasPost(posts, u) \in Nat /\ HasUpload(upload, u) \in Nat
  BY AmountIsNat
<1>2. upto6 + HasUpload(upload, u) = 0
  BY DEF Amount
<1>3. upto2 \in Nat
  BY ONLY <1>1
<1> HIDE DEF upto2
<1>4. upto3 \in Nat
  BY ONLY <1>1, <1>3
<1> HIDE DEF upto3
<1>5. upto4 \in Nat
  BY ONLY <1>1, <1>4
<1> HIDE DEF upto4
<1>6. upto5 \in Nat
  BY ONLY <1>1, <1>5
<1> HIDE DEF upto5
<1>7. upto6 \in Nat
  BY ONLY <1>1, <1>6
<1> HIDE DEF upto6
<1>8. \A x, y \in Nat : x + y = 0 => x = 0 /\ y = 0
  OBVIOUS
<1>9. upto6 = 0 /\ HasUpload(upload, u) = 0
  BY ONLY <1>1, <1>2, <1>7, <1>8
<1>10. upto5 = 0 /\ HasPost(posts, u) = 0
  BY ONLY <1>1, <1>6, <1>8, <1>9 DEF upto6
<1>11. upto4 = 0 /\ Uses(busyq, u) = 0
  BY ONLY <1>1, <1>5, <1>8, <1>10 DEF upto5
<1>12. upto3 = 0 /\ Held(waiting, u) = 0
  BY ONLY <1>1, <1>4, <1>8, <1>11 DEF upto4
<1>13. upto2 = 0 /\ At(bulk, u) = 0
  BY ONLY <1>1, <1>3, <1>8, <1>12 DEF upto3
<1>14. HasTask(tasks, u) = 0 /\ HasReport(completion, u) = 0
  BY ONLY <1>1, <1>8, <1>13 DEF upto2
<1> QED
  BY <1>9, <1>10, <1>11, <1>12, <1>13, <1>14

(* What a step may do to a request: keep it, lose it when the connection   *)
(* no longer works, settle it, or put it in one place.                     *)
Moves(u) ==
    \/ fate'[u] = fate[u] /\ Amount(u)' = Amount(u)
    \/ fate'[u] = fate[u] /\ ~Working' /\ Amount(u)' <= Amount(u) /\ Amount(u)' \in Nat
    \/ /\ Amount(u)' = 0 /\ fate'[u] # "unseen"
       /\ fate'[u] # "owed" \/ ~Working'
    \/ /\ Amount(u) = 1 \/ fate[u] = "unseen"
       /\ Amount(u)' = 1 /\ fate'[u] = "owed"

(* The accounting after the step, in which no settled request is taken up  *)
(* again.                                                                  *)
AmountStep ==
    /\ AmountInv'
    /\ \A u \in Uids : Amount(u) = 0 /\ fate[u] # "unseen"
                      => Amount(u)' = 0 /\ fate'[u] # "unseen"

LEMMA MovesKeep ==
    ASSUME AmountInv, Working' => Working, \A u \in Uids : Moves(u)
    PROVE  AmountStep
<1> SUFFICES ASSUME NEW u \in Uids
             PROVE  /\ Amount(u)' \in 0..1
                    /\ fate'[u] # "owed" => Amount(u)' = 0
                    /\ Working' /\ fate'[u] = "owed" => Amount(u)' = 1
                    /\ Amount(u) = 0 /\ fate[u] # "unseen"
                          => Amount(u)' = 0 /\ fate'[u] # "unseen"
  BY DEF AmountInv, AmountStep
<1>1. /\ Amount(u) \in 0..1
      /\ fate[u] # "owed" => Amount(u) = 0
      /\ Working /\ fate[u] = "owed" => Amount(u) = 1
  BY DEF AmountInv
<1> QED
  BY <1>1 DEF Moves

(* queue_ws_response puts the response in the channel or in the queue of   *)
(* the blocked senders, drops it, or finds the writer gone.                *)
LEMMA QueueResponseMoves ==
    ASSUME TypeOK, NEW s \in Senders, NEW r \in Responses, NEW outcome,
           QueueResponse(s, r, outcome), NEW u \in Uids
    PROVE  \/ /\ outcome = "broken" /\ WriterStopped /\ UNCHANGED bulkVars
              /\ fate'[u] = IF u = r.uid THEN "owed" ELSE fate[u]
           \/ /\ outcome # "broken" /\ UNCHANGED bulkVars
              /\ fate'[u] = IF u = r.uid THEN "dropped" ELSE fate[u]
           \/ /\ outcome # "broken"
              /\ At(bulk', u) + Held(waiting', u)
                    = At(bulk, u) + Held(waiting, u) + One(r.uid = u)
              /\ fate'[u] = IF u = r.uid THEN "owed" ELSE fate[u]
<1>1. r.uid \in Uids /\ bulk \in Seq(Responses) /\ waiting \in Seq(Waiter)
      /\ fate \in [Uids -> {"unseen", "owed", "answered", "dropped"}]
  BY DEF TypeOK, Responses, Waiter
<1>2. ASSUME NEW f, Settle(r.uid, f)
      PROVE  fate'[u] = IF u = r.uid THEN f ELSE fate[u]
  BY <1>1, <1>2 DEF Settle
<1>3. \A a \in Encodings(r.answer) : Response(r.uid, a) \in Responses
  BY EncodingsType DEF Responses, Response
<1>4. \A a : Response(r.uid, a).uid = r.uid
  BY DEF Response
<1>5. At(bulk, u) \in Nat /\ Held(waiting, u) \in Nat
  BY <1>1, AtCounts, HeldCounts
<1>6. ASSUME NEW a \in Encodings(r.answer), bulk' = Append(bulk, Response(r.uid, a)),
             UNCHANGED waiting
      PROVE  At(bulk', u) + Held(waiting', u) = At(bulk, u) + Held(waiting, u) + One(r.uid = u)
  <2>1. At(bulk', u) = At(bulk, u) + One(Response(r.uid, a).uid = u)
    BY <1>1, <1>3, <1>6, AtCounts
  <2>2. One(r.uid = u) \in 0..1
    BY DEF One
  <2> QED
    BY <1>4, <1>5, <1>6, <2>1, <2>2
<1>7. ASSUME NEW a \in Encodings(r.answer), UNCHANGED bulk,
             waiting' = Append(waiting, [sender |-> s, item |-> Response(r.uid, a)])
      PROVE  At(bulk', u) + Held(waiting', u) = At(bulk, u) + Held(waiting, u) + One(r.uid = u)
  <2> DEFINE e == [sender |-> s, item |-> Response(r.uid, a)]
  <2>1. e \in Waiter /\ e.item.uid = r.uid
    BY <1>3, <1>4 DEF Waiter
  <2> HIDE DEF e
  <2>2. Held(Append(waiting, e), u) = Held(waiting, u) + One(e.item.uid = u)
    BY <1>1, <2>1, HeldCounts
  <2>3. One(r.uid = u) \in 0..1
    BY DEF One
  <2> QED
    BY <1>5, <1>7, <2>1, <2>2, <2>3 DEF e
<1> QED
  BY <1>2, <1>6, <1>7 DEF QueueResponse

(* A blocked sender hands its response to the channel, or gives it up.     *)
LEMMA LeavesMoves ==
    ASSUME TypeOK, NEW s, NEW u
    PROVE  /\ PushWaiting(s) =>
                At(bulk', u) + Held(waiting', u) = At(bulk, u) + Held(waiting, u)
           /\ GiveUpWaiting(s) =>
                Held(waiting', u) <= Held(waiting, u) /\ Held(waiting', u) \in Nat
<1>1. bulk \in Seq(Responses) /\ waiting \in Seq(Waiter)
  BY DEF TypeOK, Waiter
<1>2. ASSUME NEW k, Leaves(s, k)
      PROVE  /\ waiting[k].item \in Responses
             /\ waiting' \in Seq(Waiter)
             /\ Held(waiting', u) = Held(waiting, u) - One(waiting[k].item.uid = u)
  <2>1. k \in 1..Len(waiting) /\ waiting' = RemoveAt(waiting, k)
    BY <1>1, <1>2, LenProperties DEF Leaves
  <2>2. waiting[k] \in Waiter /\ waiting' \in Seq(Waiter)
    BY <1>1, <2>1, ElementOfSeq, RemoveAtProperties
  <2>3. Held(waiting', u) = Held(waiting, u) - One(waiting[k].item.uid = u)
    BY <1>1, <2>1, HeldCounts
  <2> QED
    BY <2>2, <2>3 DEF Waiter
<1>3. At(bulk, u) \in Nat /\ Held(waiting, u) \in Nat
  BY <1>1, AtCounts, HeldCounts
<1>4. \A c \in Responses : One(c.uid = u) \in 0..1
  BY DEF One
<1>5. ASSUME PushWaiting(s)
      PROVE  At(bulk', u) + Held(waiting', u) = At(bulk, u) + Held(waiting, u)
  <2>1. PICK k : Leaves(s, k) /\ bulk' = Append(bulk, waiting[k].item)
    BY <1>5 DEF PushWaiting
  <2>2. At(bulk', u) = At(bulk, u) + One(waiting[k].item.uid = u)
    BY <1>1, <1>2, <2>1, AtCounts
  <2> QED
    BY <1>2, <1>3, <1>4, <2>1, <2>2
<1>6. ASSUME GiveUpWaiting(s)
      PROVE  Held(waiting', u) <= Held(waiting, u) /\ Held(waiting', u) \in Nat
  <2>1. PICK k : Leaves(s, k)
    BY <1>6 DEF GiveUpWaiting
  <2>2. Held(waiting', u) \in Nat
    BY <1>2, <2>1, HeldCounts
  <2> QED
    BY <1>2, <1>3, <1>4, <2>1, <2>2
<1> QED
  BY <1>5, <1>6

LEMMA NothingIsHeld ==
    ASSUME NEW u \in Uids
    PROVE  /\ HasTask({}, u) = 0 /\ HasReport(<<>>, u) = 0
           /\ At(<<>>, u) = 0 /\ Held(<<>>, u) = 0 /\ Uses(<<>>, u) = 0
           /\ HasPost({}, u) = 0 /\ HasUpload(NoResponse, u) = 0
<1>1. At(<<>>, u) = 0
  <2>1. {i \in DOMAIN <<>> : <<>>[i].uid = u} = {}
    OBVIOUS
  <2> QED
    BY <2>1, FS_EmptySet DEF At
<1>2. Held(<<>>, u) = 0
  <2>1. {i \in DOMAIN <<>> : <<>>[i].item.uid = u} = {}
    OBVIOUS
  <2> QED
    BY <2>1, FS_EmptySet DEF Held
<1>3. Uses(<<>>, u) = 0
  BY UsesOfEmpty
<1>4. HasReport(<<>>, u) = 0
  BY DEF HasReport, One
<1>5. HasUpload(NoResponse, u) = 0
  BY NoUidAssumption DEF HasUpload, NoResponse, One
<1>6. HasTask({}, u) = 0 /\ HasPost({}, u) = 0
  BY DEF HasTask, HasPost, One
<1> QED
  BY <1>1, <1>2, <1>3, <1>4, <1>5, <1>6

LEMMA WriterMoves ==
    ASSUME TypeOK, AmountInv, WriterNext
    PROVE  AmountStep
<1>1. UNCHANGED <<readerVars, tasks, completion, waiting, busyq, posts>>
  BY DEF WriterNext, TakeControl, ControlSent, TakeBulk, BulkSent, SendFails, CloseDone, Drained
<1>2. Working' => Working
  BY <1>1 DEF Working, Stopped, WriterStopped, WriterNext, TakeControl, ControlSent, TakeBulk,
              BulkSent, SendFails, CloseDone, Drained
<1>3. ASSUME NEW u \in Uids PROVE Moves(u)
  <2>1. CASE TakeControl \/ ControlSent
    BY <2>1, <1>1 DEF Moves, Amount, TakeControl, ControlSent
  <2>2. CASE TakeBulk
    <3>1. bulk \in Seq(Responses) /\ bulk # <<>> /\ upload = NoResponse
          /\ bulk' = Tail(bulk) /\ upload' = Head(bulk) /\ UNCHANGED fate
      BY <2>2 DEF TypeOK, TakeBulk
    <3>2. At(bulk', u) = At(bulk, u) - HasUpload(upload', u)
      BY <3>1, AtCounts DEF HasUpload
    <3>3. HasUpload(upload, u) = 0
      BY <3>1, NothingIsHeld
    <3>4. HasUpload(upload', u) \in 0..1
      BY FlagsAreNat
    <3>5. Amount(u)' = Amount(u)
      <4>1. At(bulk, u) \in Nat
        BY AmountIsNat
      <4>2. At(bulk', u) + HasUpload(upload', u) = At(bulk, u) + HasUpload(upload, u)
        BY <3>2, <3>3, <3>4, <4>1
      <4>3. At(bulk', u) \in Nat
        BY <3>1, AtCounts, HeadTailProperties
      <4> QED
        BY <1>1, <3>3, <3>4, <4>1, <4>2, <4>3, AmountIsNat DEF Amount
    <3> QED
      BY <3>1, <3>5 DEF Moves
  <2>3. CASE BulkSent
    <3>1. /\ upload' = NoResponse /\ UNCHANGED bulk
          /\ fate' = [fate EXCEPT ![upload.uid] = "answered"]
          /\ fate \in [Uids -> {"unseen", "owed", "answered", "dropped"}]
      BY <2>3 DEF BulkSent, Settle, TypeOK
    <3>2. HasUpload(upload', u) = 0
      BY <3>1, NothingIsHeld
    <3>3. CASE u = upload.uid
      <4>1. HasUpload(upload, u) = 1
        BY <3>3 DEF HasUpload, One
      <4>2. Amount(u) \in 0..1
        BY DEF AmountInv
      <4>3. Amount(u)' = 0
        BY <1>1, <3>1, <3>2, <4>1, <4>2, AmountIsNat DEF Amount
      <4> QED
        BY <3>1, <3>3, <4>3 DEF Moves
    <3>4. CASE u # upload.uid
      <4>1. HasUpload(upload, u) = 0
        BY <3>4 DEF HasUpload, One
      <4> QED
        BY <1>1, <3>1, <3>2, <3>4, <4>1 DEF Moves, Amount
    <3> QED
      BY <3>3, <3>4
  <2>4. CASE SendFails \/ CloseDone \/ Drained
    <3>1. /\ bulk' = <<>> /\ upload' = NoResponse /\ UNCHANGED fate
          /\ ~Working'
      BY <2>4 DEF SendFails, CloseDone, Drained, StopWriter, Working, WriterStopped, Stopped
    <3>2. At(bulk', u) = 0 /\ HasUpload(upload', u) = 0
      BY <3>1, NothingIsHeld
    <3>3. Amount(u)' <= Amount(u) /\ Amount(u)' \in Nat
      BY <1>1, <3>2, AmountIsNat DEF Amount
    <3> QED
      BY <3>1, <3>3 DEF Moves
  <2> QED
    BY <2>1, <2>2, <2>3, <2>4 DEF WriterNext
<1> QED
  BY <1>2, <1>3, MovesKeep

(* The report of a scrape is what remains of its task.                     *)
LEMMA ReportMoves ==
    ASSUME TypeOK, OneScrape, NEW t \in tasks, NEW a, Report(t, a), NEW u \in Uids
    PROVE  /\ HasTask(tasks', u) = 0
           /\ HasTask(tasks, u) = One(t.uid = u)
           /\ reader \in Running =>
                /\ HasReport(completion, u) = 0
                /\ HasReport(completion', u) = One(t.uid = u /\ a # "none")
           /\ reader \notin Running => completion' = completion
<1>1. tasks = {t}
  BY DEF OneScrape
<1>2. tasks' = {}
  BY <1>1 DEF Report
<1>3. HasTask(tasks, u) = One(t.uid = u)
  BY <1>1 DEF HasTask, One
<1>4. CASE reader \in Running
  <2>1. completion = <<>> /\ completion' = <<[uid |-> t.uid, answer |-> a]>>
    BY <1>4 DEF Report
  <2>2. HasReport(completion', u) = One(t.uid = u /\ a # "none")
    BY <2>1 DEF HasReport, One
  <2> QED
    BY <1>2, <1>3, <1>4, <2>1, <2>2, NothingIsHeld
<1>5. CASE reader \notin Running
  BY <1>2, <1>3, <1>5, NothingIsHeld DEF Report
<1> QED
  BY <1>4, <1>5

LEMMA ScrapeMoves ==
    ASSUME TypeOK, OneScrape, AmountInv, ScrapeNext \/ PostArrives
    PROVE  AmountStep
<1>1. UNCHANGED <<readerVars, bulkVars, busyq, posts, writerVars>>
  BY DEF ScrapeNext, ScrapeStep, ExporterRefused, ExporterAnswers, PostAccepted, PostFallsBack,
         PostAbandoned, PostArrives
<1>2. Working' = Working
  BY <1>1 DEF Working, WriterStopped
<1>3. CASE PostArrives
  <2>1. UNCHANGED <<tasks, completion, fate>>
    BY <1>3 DEF PostArrives
  <2> QED
    BY <1>1, <1>2, <2>1, MovesKeep DEF Moves, Amount
<1>4. ASSUME NEW t \in tasks, ScrapeStep(t) PROVE AmountStep
  <2> SUFFICES ASSUME NEW u \in Uids PROVE Moves(u)
    BY <1>2, MovesKeep
  <2>1. /\ t.uid \in Uids /\ fate \in [Uids -> {"unseen", "owed", "answered", "dropped"}]
        /\ Amount(u) \in 0..1
        /\ fate[u] # "owed" => Amount(u) = 0
    BY DEF TypeOK, Tasks, AmountInv
  <2>2. HasTask(tasks, u) = One(t.uid = u)
    BY DEF HasTask, One, OneScrape
  <2>3. CASE \E a : tasks' = (tasks \ {t}) \cup {[t EXCEPT !.answer = a]} /\ UNCHANGED <<completion, fate>>
    <3>1. PICK a : tasks' = (tasks \ {t}) \cup {[t EXCEPT !.answer = a]}
      BY <2>3
    <3>2. tasks = {t} /\ tasks' = {[t EXCEPT !.answer = a]}
      BY <3>1 DEF OneScrape
    <3>3. [t EXCEPT !.answer = a].uid = t.uid
      BY DEF TypeOK, Tasks
    <3>4. HasTask(tasks', u) = HasTask(tasks, u)
      BY <2>2, <3>2, <3>3 DEF HasTask, One
    <3> QED
      BY <1>1, <2>3, <3>4 DEF Moves, Amount
  <2>4. ASSUME NEW a, Report(t, a), a # "none", UNCHANGED fate
        PROVE  Moves(u)
    <3>1. CASE reader \in Running
      <4>1. HasReport(completion', u) = One(t.uid = u)
        BY <2>4, <3>1, ReportMoves DEF One
      <4>2. HasTask(tasks', u) = 0 /\ HasReport(completion, u) = 0
        BY <2>4, <3>1, ReportMoves
      <4> QED
        BY <1>1, <2>2, <2>4, <4>1, <4>2, AmountIsNat DEF Moves, Amount
    <3>2. CASE reader \notin Running
      <4>1. HasTask(tasks', u) = 0 /\ completion' = completion /\ ~Working'
        BY <1>1, <2>4, <3>2, ReportMoves DEF Working
      <4>2. Amount(u)' <= Amount(u) /\ Amount(u)' \in Nat
        BY <1>1, <4>1, AmountIsNat DEF Amount
      <4> QED
        BY <2>4, <4>1, <4>2 DEF Moves
    <3> QED
      BY <3>1, <3>2
  <2>5. ASSUME Report(t, "none"), NEW f \in {"answered", "dropped"}, Settle(t.uid, f)
        PROVE  Moves(u)
    <3>1. HasTask(tasks', u) = 0 /\ HasReport(completion', u) <= HasReport(completion, u)
      <4>1. /\ HasTask(tasks', u) = 0
            /\ reader \in Running => HasReport(completion', u) = One(t.uid = u /\ "none" # "none")
            /\ reader \notin Running => completion' = completion
        BY <2>5, ReportMoves
      <4>2. One(t.uid = u /\ "none" # "none") = 0
        BY DEF One
      <4>3. CASE reader \in Running
        BY <4>1, <4>2, <4>3, AmountIsNat
      <4>4. CASE reader \notin Running
        BY <4>1, <4>4, AmountIsNat
      <4> QED
        BY <4>3, <4>4
    <3>2. HasReport(completion', u) \in 0..1
      BY FlagsAreNat
    <3>3. CASE u = t.uid
      <4>1. HasTask(tasks, u) = 1
        BY <2>2, <3>3 DEF One
      <4>2. Amount(u)' = 0
        BY <1>1, <2>1, <3>1, <3>2, <4>1, AmountIsNat DEF Amount
      <4>3. fate'[u] = f
        BY <2>1, <2>5, <3>3 DEF Settle
      <4> QED
        BY <2>5, <4>2, <4>3 DEF Moves
    <3>4. CASE u # t.uid
      <4>1. HasTask(tasks, u) = 0
        BY <2>2, <3>4 DEF One
      <4>2. fate'[u] = fate[u]
        BY <2>1, <2>5, <3>4 DEF Settle
      <4>3. HasReport(completion', u) = HasReport(completion, u)
        BY <2>5, <3>4, ReportMoves DEF One
      <4> QED
        BY <1>1, <3>1, <4>1, <4>2, <4>3 DEF Moves, Amount
    <3> QED
      BY <3>3, <3>4
  <2>6. CASE ExporterAnswers(t)
    <3>1. \A a \in ScrapeResults : a # "none"
      BY ScrapeAssumption
    <3> QED
      BY <2>3, <2>4, <2>6, <3>1 DEF ExporterAnswers
  <2>7. CASE PostFallsBack(t)
    <3>1. t.answer # "none"
      BY DEF TypeOK, Tasks, Answers
    <3> QED
      BY <2>4, <2>7, <3>1 DEF PostFallsBack
  <2> QED
    BY <1>4, <2>5, <2>6, <2>7 DEF ScrapeStep, ExporterRefused, PostAccepted, PostAbandoned
<1> QED
  BY <1>3, <1>4 DEF ScrapeNext

LEMMA ActorMoves ==
    ASSUME TypeOK, AmountInv, ActorNext
    PROVE  AmountStep
<1>1. UNCHANGED <<readerVars, tasks, completion, writerVars>>
  BY DEF ActorNext, ActorTakes, BusyPostAccepted, BusyPostFails, ActorPushes, ActorSendFails,
         ActorDone
<1>2. Working' = Working
  BY <1>1 DEF Working, WriterStopped
<1> SUFFICES ASSUME NEW v \in Uids PROVE Moves(v)
  BY <1>2, MovesKeep
<1>3. /\ Amount(v) \in 0..1
      /\ fate \in [Uids -> {"unseen", "owed", "answered", "dropped"}]
      /\ bulk \in Seq(Responses) /\ waiting \in Seq(Waiter) /\ busyq \in Seq(Uids)
      /\ posts \subseteq Uids
  BY DEF AmountInv, TypeOK, Waiter
<1>n. /\ HasTask(tasks, v) \in 0..1 /\ HasReport(completion, v) \in 0..1
      /\ At(bulk, v) \in Nat /\ Held(waiting, v) \in Nat /\ Uses(busyq, v) \in Nat
      /\ HasPost(posts, v) \in 0..1 /\ HasUpload(upload, v) \in 0..1
  BY AmountIsNat
<1>s. Amount(v)' = HasTask(tasks, v) + HasReport(completion, v) + At(bulk', v) + Held(waiting', v)
             + Uses(busyq', v) + HasPost(posts', v) + HasUpload(upload, v)
  BY <1>1 DEF Amount
<1>a. Amount(v) = HasTask(tasks, v) + HasReport(completion, v) + At(bulk, v) + Held(waiting, v)
             + Uses(busyq, v) + HasPost(posts, v) + HasUpload(upload, v)
  BY DEF Amount
<1>4. CASE ActorTakes
  <2>1. /\ busyq # <<>> /\ busyq' = Tail(busyq) /\ posts' = posts \cup {Head(busyq)}
        /\ UNCHANGED <<bulkVars, fate>>
    BY <1>4 DEF ActorTakes
  <2>2. Uses(busyq', v) = Uses(busyq, v) - One(Head(busyq) = v)
    BY <1>3, <2>1, UsesOfTail
  <2>3. Uses(busyq', v) \in Nat
    BY <1>3, <2>1, HeadTailProperties, UsesIsNat
  <2>4. HasPost(posts', v) = HasPost(posts, v) + One(Head(busyq) = v)
    <3>1. CASE Head(busyq) = v
      <4>1. Uses(busyq, v) >= 1
        BY <2>2, <2>3, <3>1, AmountIsNat DEF One
      <4>2. HasPost(posts, v) = 0
        BY <1>3, <4>1, AmountIsNat DEF Amount
      <4> QED
        BY <2>1, <3>1, <4>2 DEF HasPost, One
    <3>2. CASE Head(busyq) # v
      <4>1. v \in posts' <=> v \in posts
        BY <2>1, <3>2
      <4> QED
        BY <3>2, <4>1 DEF HasPost, One
    <3> QED
      BY <3>1, <3>2
  <2>5. One(Head(busyq) = v) \in 0..1
    BY DEF One
  <2>6. Uses(busyq', v) + HasPost(posts', v) = Uses(busyq, v) + HasPost(posts, v)
    BY <2>2, <2>4, <2>5, AmountIsNat
  <2>7. HasPost(posts', v) \in 0..1
    BY FlagsAreNat
  <2>8. Amount(v)' = Amount(v)
    BY <1>n, <1>s, <1>a, <2>1, <2>3, <2>6, <2>7
  <2> QED
    BY <2>1, <2>8 DEF Moves
<1>5. ASSUME NEW u \in posts, posts' = posts \ {u}
      PROVE  /\ HasPost(posts', v) = IF v = u THEN 0 ELSE HasPost(posts, v)
             /\ v = u => /\ HasPost(posts, v) = 1 /\ HasTask(tasks, v) = 0
                        /\ HasReport(completion, v) = 0 /\ At(bulk, v) = 0
                        /\ Held(waiting, v) = 0 /\ Uses(busyq, v) = 0
                        /\ HasUpload(upload, v) = 0
  <2>1. HasPost(posts', v) = IF v = u THEN 0 ELSE HasPost(posts, v)
    BY <1>5 DEF HasPost, One
  <2>2. v = u => HasPost(posts, v) = 1
    BY DEF HasPost, One
  <2> QED
    BY <1>3, <2>1, <2>2, AmountIsNat DEF Amount
<1>6. ASSUME NEW u \in posts, BusyPostAccepted(u) PROVE Moves(v)
  <2>1. /\ posts' = posts \ {u} /\ UNCHANGED <<bulkVars, busyq>>
        /\ fate' = [fate EXCEPT ![u] = "answered"]
    BY <1>6 DEF BusyPostAccepted, Settle
  <2>2. CASE v = u
    <3>1. Amount(v)' = 0
      BY <1>1, <1>5, <2>1, <2>2 DEF Amount
    <3>2. fate'[v] = "answered"
      BY <1>3, <2>1, <2>2
    <3> QED
      BY <3>1, <3>2 DEF Moves
  <2>3. CASE v # u
    <3>1. Amount(v)' = Amount(v)
      BY <1>1, <1>5, <2>1, <2>3 DEF Amount
    <3>2. fate'[v] = fate[v]
      BY <1>3, <2>1, <2>3
    <3> QED
      BY <3>1, <3>2 DEF Moves
  <2> QED
    BY <2>2, <2>3
<1>7. ASSUME NEW u \in posts, BusyPostFails(u) PROVE Moves(v)
  <2>1. PICK outcome \in Outcomes :
          /\ QueueResponse("actor", Response(u, "busy"), outcome)
          /\ \/ outcome # "broken" /\ posts' = posts \ {u} /\ UNCHANGED busyq
             \/ outcome = "broken" /\ busyq' = <<>> /\ posts' = {}
    BY <1>7 DEF BusyPostFails, ActorReturns
  <2> DEFINE r == Response(u, "busy")
  <2>2. r \in Responses /\ r.uid = u /\ u \in Uids
    BY <1>3 DEF Response, Responses, Answers
  <2> HIDE DEF r
  <2>3. \/ /\ outcome = "broken" /\ WriterStopped /\ UNCHANGED bulkVars
           /\ fate'[v] = IF v = u THEN "owed" ELSE fate[v]
        \/ /\ outcome # "broken" /\ UNCHANGED bulkVars
           /\ fate'[v] = IF v = u THEN "dropped" ELSE fate[v]
        \/ /\ outcome # "broken"
           /\ At(bulk', v) + Held(waiting', v) = At(bulk, v) + Held(waiting, v) + One(u = v)
           /\ fate'[v] = IF v = u THEN "owed" ELSE fate[v]
    <3>1. QueueResponse("actor", r, outcome)
      BY <2>1 DEF r
    <3> QED
      BY <2>2, <3>1, QueueResponseMoves DEF Senders
  <2>4. CASE outcome = "broken"
    <3>1. /\ busyq' = <<>> /\ posts' = {} /\ UNCHANGED bulkVars /\ ~Working'
          /\ fate'[v] = IF v = u THEN "owed" ELSE fate[v]
      BY <1>2, <2>1, <2>3, <2>4 DEF Working
    <3>2. Uses(busyq', v) = 0 /\ HasPost(posts', v) = 0
      BY <3>1, NothingIsHeld
    <3>3. CASE v = u
      <4>1. u \in posts /\ HasPost(posts, v) = 1
        BY <3>3 DEF HasPost, One
      <4>2. Amount(v)' = 0
        BY <1>n, <1>s, <1>a, <1>3, <3>1, <3>2, <4>1
      <4> QED
        BY <3>1, <3>3, <4>2 DEF Moves
    <3>4. CASE v # u
      <4>1. Amount(v)' <= Amount(v) /\ Amount(v)' \in Nat
        BY <1>n, <1>s, <1>a, <3>1, <3>2
      <4> QED
        BY <3>1, <3>4, <4>1 DEF Moves
    <3> QED
      BY <3>3, <3>4
  <2>5. CASE outcome # "broken"
    <3>1. posts' = posts \ {u} /\ UNCHANGED busyq
      BY <2>1, <2>5
    <3>2. CASE UNCHANGED bulkVars /\ fate'[v] = IF v = u THEN "dropped" ELSE fate[v]
      <4>1. v = u => Amount(v)' = 0
        BY <1>1, <1>5, <3>1, <3>2 DEF Amount
      <4>2. v # u => Amount(v)' = Amount(v)
        BY <1>1, <1>5, <3>1, <3>2 DEF Amount
      <4> QED
        BY <3>2, <4>1, <4>2 DEF Moves
    <3>3. CASE /\ At(bulk', v) + Held(waiting', v) = At(bulk, v) + Held(waiting, v) + One(u = v)
               /\ fate'[v] = IF v = u THEN "owed" ELSE fate[v]
      <4>1. bulk' \in Seq(Responses) /\ waiting' \in Seq(Waiter)
        <5>1. QueueResponse("actor", [uid |-> u, answer |-> "busy"], outcome)
          BY <2>1 DEF Response
        <5>2. bulk' \in Seq(Responses) /\ waiting' \in Seq([sender : Senders, item : Responses])
          BY <2>2, <5>1, QueueResponseType DEF Senders, Answers
        <5> QED
          BY <5>2 DEF Waiter
      <4>2. At(bulk', v) \in Nat /\ Held(waiting', v) \in Nat
        BY <4>1, AtCounts, HeldCounts
      <4>3. CASE v = u
        <5>1. At(bulk', v) + Held(waiting', v) = 1
          BY <1>5, <3>1, <3>3, <4>3 DEF One
        <5>0. /\ HasTask(tasks, v) = 0 /\ HasReport(completion, v) = 0
              /\ Uses(busyq', v) = 0 /\ HasPost(posts', v) = 0 /\ HasUpload(upload, v) = 0
          BY <1>5, <3>1, <4>3
        <5>2. Amount(v)' = 1
          BY <1>s, <4>2, <5>0, <5>1
        <5>3. Amount(v) = 1
          <6>1. HasPost(posts, v) = 1
            BY <4>3 DEF HasPost, One
          <6> QED
            BY <1>n, <1>a, <1>3, <6>1
        <5> QED
          BY <3>3, <4>3, <5>2, <5>3 DEF Moves
      <4>4. CASE v # u
        <5>1. At(bulk', v) + Held(waiting', v) = At(bulk, v) + Held(waiting, v)
          BY <3>3, <4>4, AmountIsNat DEF One
        <5>0. Uses(busyq', v) = Uses(busyq, v) /\ HasPost(posts', v) = HasPost(posts, v)
          BY <1>5, <3>1, <4>4
        <5>2. Amount(v)' = Amount(v)
          BY <1>n, <1>s, <1>a, <4>2, <5>0, <5>1
        <5> QED
          BY <3>3, <4>4, <5>2 DEF Moves
      <4> QED
        BY <4>3, <4>4
    <3> QED
      BY <2>3, <2>5, <3>2, <3>3
  <2> QED
    BY <2>4, <2>5
<1>8. CASE ActorPushes
  <2>1. PushWaiting("actor") /\ UNCHANGED <<busyq, posts, fate>>
    BY <1>8 DEF ActorPushes
  <2>2. At(bulk', v) + Held(waiting', v) = At(bulk, v) + Held(waiting, v)
    BY <2>1, LeavesMoves
  <2>3. bulk' \in Seq(Responses) /\ waiting' \in Seq(Waiter)
    BY <2>1, WaitingType DEF Waiter, Senders
  <2>4. At(bulk', v) \in Nat /\ Held(waiting', v) \in Nat
    BY <2>3, AtCounts, HeldCounts
  <2>5. Amount(v)' = Amount(v)
    BY <1>n, <1>s, <1>a, <2>1, <2>2, <2>4
  <2> QED
    BY <2>1, <2>5 DEF Moves
<1>9. CASE ActorSendFails \/ ActorDone
  <2>1. /\ busyq' = <<>> /\ posts' = {} /\ UNCHANGED <<bulk, fate>>
        /\ ~Working'
        /\ UNCHANGED waiting \/ GiveUpWaiting("actor")
    BY <1>2, <1>9 DEF ActorSendFails, ActorDone, ActorReturns, GiveUpWaiting, Working,
                      SendersDropped, Running
  <2>2. Uses(busyq', v) = 0 /\ HasPost(posts', v) = 0
    BY <2>1, NothingIsHeld
  <2>3. Held(waiting', v) <= Held(waiting, v) /\ Held(waiting', v) \in Nat
    BY <2>1, LeavesMoves, AmountIsNat
  <2>4. Amount(v)' <= Amount(v) /\ Amount(v)' \in Nat
    BY <1>n, <1>s, <1>a, <2>1, <2>2, <2>3
  <2> QED
    BY <2>1, <2>4 DEF Moves
<1> QED
  BY <1>4, <1>6, <1>7, <1>8, <1>9 DEF ActorNext


(* A response that the reader queues is where queue_ws_response put it, or *)
(* the run has ended.                                                      *)
LEMMA SessionQueuesMoves ==
    ASSUME TypeOK, NEW r \in Responses, SessionQueues(r), NEW u \in Uids
    PROVE  \/ /\ reader' = "finishing" /\ UNCHANGED bulkVars
              /\ fate'[u] = IF u = r.uid THEN "owed" ELSE fate[u]
           \/ /\ UNCHANGED bulkVars
              /\ fate'[u] = IF u = r.uid THEN "dropped" ELSE fate[u]
           \/ /\ At(bulk', u) + Held(waiting', u)
                    = At(bulk, u) + Held(waiting, u) + One(r.uid = u)
              /\ At(bulk', u) \in Nat /\ Held(waiting', u) \in Nat
              /\ fate'[u] = IF u = r.uid THEN "owed" ELSE fate[u]
<1>1. PICK outcome \in Outcomes :
        /\ QueueResponse("session", r, outcome)
        /\ outcome = "broken" => reader' = "finishing"
  BY DEF SessionQueues, EndRun
<1>2. bulk' \in Seq(Responses) /\ waiting' \in Seq(Waiter)
  BY SessionQueuesType DEF Waiter
<1>3. At(bulk', u) \in Nat /\ Held(waiting', u) \in Nat
  BY <1>2, AtCounts, HeldCounts
<1> QED
  BY <1>1, <1>3, QueueResponseMoves DEF Senders

LEMMA CompletionMoves ==
    ASSUME TypeOK, OneScrape, AmountInv, CompletionArm, NEW u \in Uids
    PROVE  Moves(u)
<1> DEFINE r == Head(completion)
<1>1. /\ completion = <<r>> /\ completion' = <<>> /\ r \in Completions
      /\ UNCHANGED <<tasks, busyq, posts, upload, writer>>
  <2>1. /\ completion \in Seq(Completions) /\ Len(completion) <= 1 /\ completion # <<>>
        /\ completion' = Tail(completion)
        /\ UNCHANGED <<tasks, busyq, posts, upload, writer>>
    BY DEF CompletionArm, TypeOK
  <2>2. Len(completion) = 1
    <3>1. Len(completion) \in Nat
      BY <2>1, LenProperties
    <3>2. Len(completion) # 0
      BY <2>1, EmptySeq
    <3>3. Len(completion) <= 1
      BY <2>1
    <3>4. \A n \in Nat : n # 0 /\ n <= 1 => n = 1
      OBVIOUS
    <3> QED
      BY <3>1, <3>2, <3>3, <3>4
  <2>3. completion' = <<>>
    BY <2>1, <2>2
  <2>4. completion = <<r>> /\ r \in Completions
    BY <2>1, <2>2
  <2> QED
    BY <2>1, <2>3, <2>4
<1>2. fate \in [Uids -> {"unseen", "owed", "answered", "dropped"}]
  BY DEF TypeOK
<1>3. \/ r.answer = "none" /\ UNCHANGED <<bulkVars, fate>>
      \/ r.answer # "none" /\ SessionQueues(r)
  BY DEF CompletionArm
<1> HIDE DEF r
<1>4. HasReport(completion, u) = One(r.uid = u /\ r.answer # "none")
  BY <1>1 DEF HasReport, One
<1>5. HasReport(completion', u) = 0
  BY <1>1, NothingIsHeld
<1>6. /\ HasTask(tasks, u) \in 0..1 /\ HasReport(completion, u) \in 0..1
      /\ At(bulk, u) \in Nat /\ Held(waiting, u) \in Nat /\ Uses(busyq, u) \in Nat
      /\ HasPost(posts, u) \in 0..1 /\ HasUpload(upload, u) \in 0..1
  BY AmountIsNat
<1>7. Amount(u) = HasTask(tasks, u) + HasReport(completion, u) + At(bulk, u) + Held(waiting, u)
             + Uses(busyq, u) + HasPost(posts, u) + HasUpload(upload, u)
  BY DEF Amount
<1>8. Amount(u)' = HasTask(tasks, u) + At(bulk', u) + Held(waiting', u)
             + Uses(busyq, u) + HasPost(posts, u) + HasUpload(upload, u)
  <2>1. Amount(u)' = HasTask(tasks, u) + 0 + At(bulk', u) + Held(waiting', u)
             + Uses(busyq, u) + HasPost(posts, u) + HasUpload(upload, u)
    BY <1>1, <1>5 DEF Amount
  <2> QED
    BY <2>1, <1>6
<1>9. Amount(u) \in 0..1
  BY DEF AmountInv
<1>10. CASE r.answer = "none" /\ UNCHANGED <<bulkVars, fate>>
  <2>1. HasReport(completion, u) = 0
    BY <1>4, <1>10 DEF One
  <2>2. Amount(u)' = Amount(u)
    BY <1>6, <1>7, <1>8, <1>10, <2>1
  <2> QED
    BY <1>10, <2>2 DEF Moves
<1>11. CASE r.answer # "none" /\ SessionQueues(r)
  <2>1. r \in Responses
    BY <1>1, <1>11 DEF Completions, Responses
  <2>2. HasReport(completion, u) = One(r.uid = u)
    BY <1>4, <1>11 DEF One
  <2>3. CASE /\ reader' = "finishing" /\ UNCHANGED bulkVars
             /\ fate'[u] = IF u = r.uid THEN "owed" ELSE fate[u]
    <3>1. ~Working'
      BY <2>3 DEF Working, Running
    <3>2. CASE u = r.uid
      <4>1. HasReport(completion, u) = 1
        BY <2>2, <3>2 DEF One
      <4>2. Amount(u)' = 0
        BY <1>6, <1>7, <1>8, <1>9, <2>3, <4>1
      <4> QED
        BY <2>3, <3>1, <3>2, <4>2 DEF Moves
    <3>3. CASE u # r.uid
      <4>1. HasReport(completion, u) = 0
        BY <2>2, <3>3 DEF One
      <4>2. Amount(u)' = Amount(u)
        BY <1>6, <1>7, <1>8, <2>3, <4>1
      <4> QED
        BY <2>3, <3>3, <4>2 DEF Moves
    <3> QED
      BY <3>2, <3>3
  <2>4. CASE UNCHANGED bulkVars /\ fate'[u] = IF u = r.uid THEN "dropped" ELSE fate[u]
    <3>2. CASE u = r.uid
      <4>1. HasReport(completion, u) = 1
        BY <2>2, <3>2 DEF One
      <4>2. Amount(u)' = 0
        BY <1>6, <1>7, <1>8, <1>9, <2>4, <4>1
      <4> QED
        BY <2>4, <3>2, <4>2 DEF Moves
    <3>3. CASE u # r.uid
      <4>1. HasReport(completion, u) = 0
        BY <2>2, <3>3 DEF One
      <4>2. Amount(u)' = Amount(u)
        BY <1>6, <1>7, <1>8, <2>4, <4>1
      <4> QED
        BY <2>4, <3>3, <4>2 DEF Moves
    <3> QED
      BY <3>2, <3>3
  <2>5. CASE /\ At(bulk', u) + Held(waiting', u)
                  = At(bulk, u) + Held(waiting, u) + One(r.uid = u)
             /\ At(bulk', u) \in Nat /\ Held(waiting', u) \in Nat
             /\ fate'[u] = IF u = r.uid THEN "owed" ELSE fate[u]
    <3>1. Amount(u)' = Amount(u)
      BY <1>6, <1>7, <1>8, <2>2, <2>5
    <3>2. CASE u = r.uid
      <4>1. HasReport(completion, u) = 1
        BY <2>2, <3>2 DEF One
      <4>2. Amount(u) = 1
        BY <1>6, <1>7, <1>9, <4>1
      <4> QED
        BY <2>5, <3>1, <3>2, <4>2 DEF Moves
    <3>3. CASE u # r.uid
      BY <2>5, <3>1, <3>3 DEF Moves
    <3> QED
      BY <3>2, <3>3
  <2> QED
    BY <1>11, <2>1, <2>3, <2>4, <2>5, SessionQueuesMoves
<1> QED
  BY <1>3, <1>10, <1>11

LEMMA RequestMoves ==
    ASSUME TypeOK, OneScrape, AmountInv, NEW v \in Uids, ReadRequest(v), NEW u \in Uids
    PROVE  Moves(u)
<1>1. /\ fate[v] = "unseen" /\ fate' = [fate EXCEPT ![v] = "owed"]
      /\ fate \in [Uids -> {"unseen", "owed", "answered", "dropped"}]
      /\ tasks' = tasks \cup {[uid |-> v, answer |-> "pending"]}
      /\ UNCHANGED <<completion, bulkVars, busyq, posts, upload>>
  BY DEF ReadRequest, Settle, TypeOK
<1>2. tasks = {}
  <2>1. \A t \in tasks : t.uid \in Uids /\ t.uid = NoUid
    BY DEF TypeOK, Tasks, OneScrape, ReadRequest, Idle
  <2> QED
    BY <2>1, NoUidAssumption
<1>3. HasTask(tasks, u) = 0 /\ HasTask(tasks', u) = One(u = v)
  <2>1. tasks' = {[uid |-> v, answer |-> "pending"]}
    BY <1>1, <1>2
  <2> QED
    BY <1>2, <2>1 DEF HasTask, One
<1>4. CASE u = v
  <2>1. Amount(u) = 0
    BY <1>1, <1>4 DEF AmountInv
  <2>2. HasTask(tasks', u) = 1
    BY <1>3, <1>4 DEF One
  <2>3. /\ HasReport(completion, u) = 0 /\ At(bulk, u) = 0 /\ Held(waiting, u) = 0
        /\ Uses(busyq, u) = 0 /\ HasPost(posts, u) = 0 /\ HasUpload(upload, u) = 0
    BY <2>1, NothingHolds
  <2>4. Amount(u)' = 1
    BY <1>1, <2>2, <2>3 DEF Amount
  <2> QED
    BY <1>1, <1>4, <2>4 DEF Moves
<1>5. CASE u # v
  <2>1. HasTask(tasks', u) = HasTask(tasks, u)
    BY <1>3, <1>5 DEF One
  <2> QED
    BY <1>1, <1>5, <2>1 DEF Moves, Amount
<1> QED
  BY <1>4, <1>5

LEMMA BusyRequestMoves ==
    ASSUME TypeOK, AmountInv, NEW v \in Uids, ReadRequestBusy(v), NEW u \in Uids
    PROVE  Moves(u)
<1>1. /\ fate[v] = "unseen"
      /\ fate \in [Uids -> {"unseen", "owed", "answered", "dropped"}]
      /\ UNCHANGED <<tasks, completion, posts, upload>>
  BY DEF ReadRequestBusy, TypeOK
<1>2. /\ HasTask(tasks, u) \in 0..1 /\ HasReport(completion, u) \in 0..1
      /\ At(bulk, u) \in Nat /\ Held(waiting, u) \in Nat /\ Uses(busyq, u) \in Nat
      /\ HasPost(posts, u) \in 0..1 /\ HasUpload(upload, u) \in 0..1
  BY AmountIsNat
<1>3. u = v => Amount(u) = 0
  BY <1>1 DEF AmountInv
<1>5. Amount(u) = HasTask(tasks, u) + HasReport(completion, u) + At(bulk, u) + Held(waiting, u)
             + Uses(busyq, u) + HasPost(posts, u) + HasUpload(upload, u)
  BY DEF Amount
<1>4. u = v => /\ HasTask(tasks, u) = 0 /\ HasReport(completion, u) = 0
               /\ At(bulk, u) = 0 /\ Held(waiting, u) = 0 /\ Uses(busyq, u) = 0
               /\ HasPost(posts, u) = 0 /\ HasUpload(upload, u) = 0
  BY <1>3, NothingHolds
<1>6. Amount(u)' = HasTask(tasks, u) + HasReport(completion, u) + At(bulk', u) + Held(waiting', u)
             + Uses(busyq', u) + HasPost(posts, u) + HasUpload(upload, u)
  BY <1>1 DEF Amount
<1>7. ASSUME UNCHANGED <<bulkVars, busyq>>, NEW f \in {"owed", "dropped"},
             fate'[u] = IF u = v THEN f ELSE fate[u],
             f # "owed" \/ ~Working'
      PROVE  Moves(u)
  <2>1. Amount(u)' = Amount(u)
    BY <1>5, <1>6, <1>7
  <2> QED
    BY <1>3, <1>7, <2>1 DEF Moves
<1>8. ASSUME /\ At(bulk', u) + Held(waiting', u) + Uses(busyq', u)
                  = At(bulk, u) + Held(waiting, u) + Uses(busyq, u) + One(v = u)
             /\ At(bulk', u) \in Nat /\ Held(waiting', u) \in Nat /\ Uses(busyq', u) \in Nat
             /\ fate'[u] = IF u = v THEN "owed" ELSE fate[u]
      PROVE  Moves(u)
  <2>1. CASE u = v
    <3>1. At(bulk', u) + Held(waiting', u) + Uses(busyq', u) = 1
      BY <1>4, <1>8, <2>1 DEF One
    <3>2. /\ HasTask(tasks, u) = 0 /\ HasReport(completion, u) = 0
          /\ HasPost(posts, u) = 0 /\ HasUpload(upload, u) = 0
      BY <1>4, <2>1
    <3>3. Amount(u)' = 1
      BY <1>6, <1>8, <3>1, <3>2
    <3> QED
      BY <1>1, <1>8, <2>1, <3>3 DEF Moves
  <2>2. CASE u # v
    <3>1. One(v = u) = 0
      BY <2>2 DEF One
    <3>2. Amount(u)' = Amount(u)
      BY <1>2, <1>5, <1>6, <1>8, <3>1
    <3> QED
      BY <1>8, <2>2, <3>2 DEF Moves
  <2> QED
    BY <2>1, <2>2
<1>9. CASE Settle(v, "dropped") /\ UNCHANGED <<bulkVars, busyq>>
  <2>1. fate'[u] = IF u = v THEN "dropped" ELSE fate[u]
    BY <1>1, <1>9 DEF Settle
  <2> QED
    BY <1>7, <1>9, <2>1
<1>10. CASE busyq' = Append(busyq, v) /\ Settle(v, "owed") /\ UNCHANGED bulkVars
  <2>1. busyq \in Seq(Uids) /\ busyq' \in Seq(Uids)
    BY <1>10 DEF TypeOK
  <2>2. Uses(busyq', u) \in Nat /\ Uses(busyq', u) = Uses(busyq, u) + One(v = u)
    <3>1. Uses(busyq', u) \in Nat
      BY <2>1, UsesIsNat
    <3>2. Uses(Append(busyq, v), u) = Uses(busyq, u) + One(v = u)
      BY <2>1, UsesOfAppend
    <3> QED
      BY <1>10, <3>1, <3>2
  <2>3. fate'[u] = IF u = v THEN "owed" ELSE fate[u]
    BY <1>1, <1>10 DEF Settle
  <2>4. At(bulk', u) = At(bulk, u) /\ Held(waiting', u) = Held(waiting, u)
    BY <1>10
  <2>5. One(v = u) \in 0..1
    BY DEF One
  <2>6. At(bulk', u) + Held(waiting', u) + Uses(busyq', u)
                  = At(bulk, u) + Held(waiting, u) + Uses(busyq, u) + One(v = u)
    BY <1>2, <2>2, <2>4, <2>5
  <2>7. At(bulk', u) \in Nat /\ Held(waiting', u) \in Nat
    BY <1>2, <2>4
  <2> QED
    BY <1>8, <2>2, <2>3, <2>6, <2>7
<1>11. CASE SessionQueues(Response(v, "busy")) /\ UNCHANGED busyq
  <2> DEFINE r == Response(v, "busy")
  <2>1. r \in Responses /\ r.uid = v /\ SessionQueues(r)
    BY <1>11 DEF Response, Responses, Answers
  <2> HIDE DEF r
  <2>2. CASE /\ reader' = "finishing" /\ UNCHANGED bulkVars
             /\ fate'[u] = IF u = r.uid THEN "owed" ELSE fate[u]
    <3>1. ~Working'
      BY <2>2 DEF Working, Running
    <3> QED
      BY <1>7, <1>11, <2>1, <2>2, <3>1
  <2>3. CASE UNCHANGED bulkVars /\ fate'[u] = IF u = r.uid THEN "dropped" ELSE fate[u]
    BY <1>7, <1>11, <2>1, <2>3
  <2>4. CASE /\ At(bulk', u) + Held(waiting', u)
                  = At(bulk, u) + Held(waiting, u) + One(r.uid = u)
             /\ At(bulk', u) \in Nat /\ Held(waiting', u) \in Nat
             /\ fate'[u] = IF u = r.uid THEN "owed" ELSE fate[u]
    <3>1. Uses(busyq', u) = Uses(busyq, u)
      BY <1>11
    <3>2. One(v = u) \in 0..1
      BY DEF One
    <3>3. At(bulk', u) + Held(waiting', u) + Uses(busyq', u)
                  = At(bulk, u) + Held(waiting, u) + Uses(busyq, u) + One(v = u)
      BY <1>2, <2>1, <2>4, <3>1, <3>2
    <3>4. Uses(busyq', u) \in Nat
      BY <1>2, <3>1
    <3> QED
      BY <1>8, <2>1, <2>4, <3>3, <3>4
  <2> QED
    BY <2>1, <2>2, <2>3, <2>4, SessionQueuesMoves
<1> QED
  BY <1>9, <1>10, <1>11 DEF ReadRequestBusy


LEMMA SelectMoves ==
    ASSUME TypeOK, OneScrape, AmountInv, SelectNext
    PROVE  AmountStep
<1>1. reader = "select" /\ UNCHANGED writer
  BY DEF SelectNext, AtSelect, ShutdownArm, WriterArm, HeartbeatExpires, HeartbeatTick,
         CompletionArm, ReadPing, ReadReady, ReadRequest, ReadRequestBusy, ReadClose, ReadFails
<1>2. Working' => Working
  BY <1>1 DEF Working, Running, WriterStopped
<1> SUFFICES ASSUME NEW u \in Uids PROVE Moves(u)
  BY <1>2, MovesKeep
<1>3. CASE UNCHANGED <<tasks, completion, bulkVars, busyq, posts, upload, fate>>
  BY <1>3 DEF Moves, Amount
<1>4. CASE CompletionArm
  BY <1>4, CompletionMoves
<1>5. ASSUME NEW v \in Uids, ReadRequest(v) PROVE Moves(u)
  BY <1>5, RequestMoves
<1>6. ASSUME NEW v \in Uids, ReadRequestBusy(v) PROVE Moves(u)
  BY <1>6, BusyRequestMoves
<1> QED
  BY <1>3, <1>4, <1>5, <1>6
     DEF SelectNext, ShutdownArm, WriterArm, HeartbeatExpires, HeartbeatTick, ReadPing,
         ReadReady, ReadClose, ReadFails

LEMMA FinishMoves ==
    ASSUME TypeOK, AmountInv, ReaderPushes \/ ReaderSendFails \/ FinishNext
    PROVE  AmountStep
<1>1. UNCHANGED fate
  BY DEF ReaderPushes, ReaderSendFails, FinishNext, FinishTask, Flushed, JoinWriter,
         FlushTimesOut, Kill, Reap
<1>2. CASE ReaderPushes
  <2>1. /\ PushWaiting("session")
        /\ UNCHANGED <<tasks, completion, busyq, posts, upload, writer>>
        /\ reader = "queueing"
    BY <1>2 DEF ReaderPushes
  <2>2. Working' => Working
    BY <2>1 DEF Working, Running, WriterStopped
  <2> SUFFICES ASSUME NEW u \in Uids PROVE Moves(u)
    BY <2>2, MovesKeep
  <2>3. At(bulk', u) + Held(waiting', u) = At(bulk, u) + Held(waiting, u)
    BY <2>1, LeavesMoves
  <2>4. bulk' \in Seq(Responses) /\ waiting' \in Seq(Waiter)
    BY <2>1, WaitingType DEF Waiter, Senders
  <2>5. At(bulk', u) \in Nat /\ Held(waiting', u) \in Nat
    BY <2>4, AtCounts, HeldCounts
  <2>6. /\ HasTask(tasks, u) \in 0..1 /\ HasReport(completion, u) \in 0..1
        /\ At(bulk, u) \in Nat /\ Held(waiting, u) \in Nat /\ Uses(busyq, u) \in Nat
        /\ HasPost(posts, u) \in 0..1 /\ HasUpload(upload, u) \in 0..1
    BY AmountIsNat
  <2>7. Amount(u)' = HasTask(tasks, u) + HasReport(completion, u) + At(bulk', u)
             + Held(waiting', u) + Uses(busyq, u) + HasPost(posts, u) + HasUpload(upload, u)
    BY <2>1 DEF Amount
  <2>8. Amount(u)' = Amount(u)
    BY <2>3, <2>5, <2>6, <2>7 DEF Amount
  <2> QED
    BY <1>1, <2>8 DEF Moves
<1>3. CASE ReaderSendFails \/ FinishNext
  <2>1. ~Working'
    BY <1>3 DEF ReaderSendFails, FinishNext, FinishTask, Flushed, JoinWriter,
                FlushTimesOut, Kill, Reap,
                EndRun, Working, Running
  <2> SUFFICES ASSUME NEW u \in Uids PROVE Moves(u)
    BY <2>1, MovesKeep
  <2>2. /\ HasTask(tasks, u) \in 0..1 /\ HasReport(completion, u) \in 0..1
        /\ At(bulk, u) \in Nat /\ Held(waiting, u) \in Nat /\ Uses(busyq, u) \in Nat
        /\ HasPost(posts, u) \in 0..1 /\ HasUpload(upload, u) \in 0..1
    BY AmountIsNat
  <2>3. /\ UNCHANGED tasks \/ tasks' = {}
        /\ UNCHANGED completion \/ completion' = <<>>
        /\ UNCHANGED bulk \/ bulk' = <<>>
        /\ UNCHANGED waiting \/ waiting' = <<>> \/ GiveUpWaiting("session")
        /\ UNCHANGED busyq \/ busyq' = <<>>
        /\ UNCHANGED posts \/ posts' = {}
        /\ UNCHANGED upload \/ upload' = NoResponse
    BY <1>3 DEF ReaderSendFails, FinishNext, FinishTask, Flushed, JoinWriter,
                FlushTimesOut, Kill, Reap,
                StopWriter
  <2>4. HasTask(tasks', u) \in 0..HasTask(tasks, u)
    <3>1. HasTask({}, u) = 0
      BY NothingIsHeld
    <3>2. CASE tasks' = {}
      BY <2>2, <3>1, <3>2
    <3>3. CASE UNCHANGED tasks
      BY <2>2, <3>3
    <3> QED
      BY <2>3, <3>2, <3>3
  <2>5. HasReport(completion', u) \in 0..HasReport(completion, u)
    BY <2>2, <2>3, NothingIsHeld
  <2>6. At(bulk', u) \in 0..At(bulk, u)
    BY <2>2, <2>3, NothingIsHeld
  <2>7. Held(waiting', u) \in 0..Held(waiting, u)
    <3>1. GiveUpWaiting("session") =>
            Held(waiting', u) <= Held(waiting, u) /\ Held(waiting', u) \in Nat
      BY LeavesMoves
    <3> QED
      BY <2>2, <2>3, <3>1, NothingIsHeld
  <2>8. Uses(busyq', u) \in 0..Uses(busyq, u)
    BY <2>2, <2>3, NothingIsHeld
  <2>9. HasPost(posts', u) \in 0..HasPost(posts, u)
    BY <2>2, <2>3, NothingIsHeld
  <2>10. HasUpload(upload', u) \in 0..HasUpload(upload, u)
    BY <2>2, <2>3, NothingIsHeld
  <2>11. Amount(u)' <= Amount(u) /\ Amount(u)' \in Nat
    BY <2>2, <2>4, <2>5, <2>6, <2>7, <2>8, <2>9, <2>10 DEF Amount
  <2> QED
    BY <1>1, <2>1, <2>11 DEF Moves
<1> QED
  BY <1>2, <1>3

(* Every step accounts for every request.                                  *)
LEMMA AmountMoves == TypeOK /\ OneScrape /\ AmountInv /\ [Next]_vars => AmountStep
<1> SUFFICES ASSUME TypeOK, OneScrape, AmountInv, [Next]_vars PROVE AmountStep
  OBVIOUS
<1>1. CASE Cancel \/ Ended \/ UNCHANGED vars
  <2>1. UNCHANGED <<readerVars, writerVars, tasks, completion, bulkVars, busyq, posts, fate>>
    BY <1>1 DEF Cancel, Ended
  <2>2. Working' = Working
    BY <2>1 DEF Working, WriterStopped
  <2> QED
    BY <2>1, <2>2, MovesKeep DEF Moves, Amount
<1> QED
  BY <1>1, SelectMoves, FinishMoves, ScrapeMoves, ActorMoves, WriterMoves DEF Next

LEMMA AmountHolds == Spec => []AmountInv
<1>1. Init => AmountInv
  <2> SUFFICES ASSUME Init, NEW u \in Uids
               PROVE  fate[u] = "unseen" /\ Amount(u) = 0
    BY DEF AmountInv
  <2>1. /\ HasTask(tasks, u) = 0 /\ HasReport(completion, u) = 0 /\ At(bulk, u) = 0
        /\ Held(waiting, u) = 0 /\ Uses(busyq, u) = 0 /\ HasPost(posts, u) = 0
        /\ HasUpload(upload, u) = 0
    BY NothingIsHeld DEF Init
  <2> QED
    BY <2>1 DEF Init, Amount
<1>2. TypeOK /\ OneScrape /\ AmountInv /\ [Next]_vars => AmountInv'
  BY AmountMoves DEF AmountStep
<1> QED
  BY <1>1, <1>2, TypeCorrect, OneScrapeAtATime, PTL DEF Spec

(* With at most one task and one report, the places are what is counted.   *)
LEMMA HoldCountIsAmount ==
    ASSUME TypeOK, OneScrape, NEW u
    PROVE  HoldCount(u) = Amount(u)
<1>1. Cardinality({t \in tasks : t.uid = u}) = HasTask(tasks, u)
  <2>1. CASE \E t \in tasks : t.uid = u
    <3>1. PICK t \in tasks : t.uid = u
      BY <2>1
    <3>2. {t1 \in tasks : t1.uid = u} = {t}
      BY <3>1 DEF OneScrape
    <3> QED
      BY <2>1, <3>2, FS_Singleton DEF HasTask, One
  <2>2. CASE ~\E t \in tasks : t.uid = u
    <3>1. {t \in tasks : t.uid = u} = {}
      BY <2>2
    <3> QED
      BY <2>2, <3>1, FS_EmptySet DEF HasTask, One
  <2> QED
    BY <2>1, <2>2
<1>2. Cardinality({i \in DOMAIN completion :
                      completion[i].uid = u /\ completion[i].answer # "none"})
        = HasReport(completion, u)
  <2> DEFINE I == {i \in DOMAIN completion :
                      completion[i].uid = u /\ completion[i].answer # "none"}
  <2>1. DOMAIN completion \subseteq {1}
    BY DEF TypeOK
  <2>2. CASE \E i \in DOMAIN completion : completion[i].uid = u /\ completion[i].answer # "none"
    <3>1. I = {1}
      BY <2>1, <2>2
    <3> QED
      BY <2>2, <3>1, FS_Singleton DEF HasReport, One
  <2>3. CASE ~\E i \in DOMAIN completion : completion[i].uid = u /\ completion[i].answer # "none"
    <3>1. I = {}
      BY <2>3
    <3> QED
      BY <2>3, <3>1, FS_EmptySet DEF HasReport, One
  <2> QED
    BY <2>2, <2>3
<1>3. Cardinality(posts \cap {u}) = HasPost(posts, u)
  <2>1. CASE u \in posts
    <3>1. posts \cap {u} = {u}
      BY <2>1
    <3> QED
      BY <2>1, <3>1, FS_Singleton DEF HasPost, One
  <2>2. CASE u \notin posts
    <3>1. posts \cap {u} = {}
      BY <2>2
    <3> QED
      BY <2>2, <3>1, FS_EmptySet DEF HasPost, One
  <2> QED
    BY <2>1, <2>2
<1>4. (IF upload.uid = u THEN 1 ELSE 0) = HasUpload(upload, u)
  BY DEF HasUpload, One
<1>5. Cardinality({i \in DOMAIN waiting : waiting[i].item.uid = u}) = Held(waiting, u)
  BY DEF Held
<1>6. Cardinality({i \in DOMAIN busyq : busyq[i] = u}) = Uses(busyq, u)
  BY DEF Uses
<1> QED
  BY <1>1, <1>2, <1>3, <1>4, <1>5, <1>6 DEF HoldCount, Amount

(* The accounting of the requests, for any number of them and any          *)
(* capacities: while reader and writer run, a request that is owed an      *)
(* answer is held in one place (the task, the completion channel, the bulk *)
(* channel or the queue of its senders, the busy-response channel, the     *)
(* POSTs of the actor, the frame being sent) and a settled one in none.    *)
THEOREM EachIsHeldOnce == Spec => []NoRequestLost
<1>1. TypeOK /\ OneScrape /\ AmountInv => NoRequestLost
  <2> SUFFICES ASSUME TypeOK, OneScrape, AmountInv, NEW u \in Uids
               PROVE  IF reader \in Running /\ ~WriterStopped
                      THEN HoldCount(u) = IF fate[u] = "owed" THEN 1 ELSE 0
                      ELSE HoldCount(u) <= 1
    BY DEF NoRequestLost
  <2>1. /\ Amount(u) \in 0..1
        /\ fate[u] # "owed" => Amount(u) = 0
        /\ reader \in Running /\ ~WriterStopped /\ fate[u] = "owed" => Amount(u) = 1
    BY DEF AmountInv, Working
  <2>2. HoldCount(u) = Amount(u)
    BY HoldCountIsAmount
  <2> QED
    BY <2>1, <2>2
<1> QED
  BY <1>1, AmountHolds, TypeCorrect, OneScrapeAtATime, PTL

-----------------------------------------------------------------------------
USE CapAssumption, ProtocolAssumption

(* The 503s that the busy actor has in hand, and that it has none before   *)
(* wire v3.                                                                *)
HandInv ==
    /\ IsFiniteSet(posts)
    /\ InHand <= PostMax
    /\ Protocol # 3 => busyq = <<>> /\ posts = {} /\ actor # "queueing"

LEMMA ActorHand == TypeOK /\ HandInv /\ ActorNext => HandInv'
<1> SUFFICES ASSUME TypeOK, HandInv, ActorNext PROVE HandInv'
  OBVIOUS
<1>1. Cardinality(posts) \in Nat /\ IsFiniteSet({}) /\ Cardinality({}) = 0
  BY FS_CardinalityType, FS_EmptySet DEF HandInv
<1>2. ASSUME actor' = "returned", posts' = {}, busyq' = <<>>
      PROVE  HandInv'
  BY <1>1, <1>2 DEF HandInv, InHand
<1>3. CASE ActorTakes
  <2>1. /\ IsFiniteSet(posts')
        /\ Cardinality(posts') <= Cardinality(posts) + 1
    <3>1. PICK h : posts' = posts \cup {h}
      BY <1>3 DEF ActorTakes
    <3>2. IsFiniteSet(posts)
      BY DEF HandInv
    <3>3. /\ IsFiniteSet(posts \cup {h})
          /\ Cardinality(posts \cup {h})
               = IF h \in posts THEN Cardinality(posts) ELSE Cardinality(posts) + 1
      BY <3>2, FS_AddElement
    <3> QED
      BY <1>1, <3>1, <3>3
  <2>2. Cardinality(posts') \in Nat
    BY <2>1, FS_CardinalityType
  <2> QED
    BY <1>1, <1>3, <2>1, <2>2 DEF ActorTakes, PostSlotFree, HandInv, InHand
<1>4. ASSUME NEW u \in posts, actor = "select", actor' \in {"select", "queueing"},
             posts' = posts \ {u}, UNCHANGED busyq
      PROVE  HandInv'
  <2>1. /\ IsFiniteSet(posts')
        /\ Cardinality(posts') = Cardinality(posts) - 1
    BY <1>1, <1>4, FS_RemoveElement DEF HandInv
  <2> QED
    BY <1>1, <1>4, <2>1 DEF HandInv, InHand
<1>5. CASE ActorPushes
  BY <1>1, <1>5 DEF ActorPushes, HandInv, InHand
<1>6. ASSUME NEW u \in posts, BusyPostAccepted(u) \/ BusyPostFails(u)
      PROVE  HandInv'
  BY <1>2, <1>4, <1>6 DEF BusyPostAccepted, BusyPostFails, ActorReturns
<1> QED
  BY <1>2, <1>3, <1>5, <1>6 DEF ActorNext, ActorSendFails, ActorDone, ActorReturns

LEMMA ReaderHand == TypeOK /\ HandInv /\ (SelectNext \/ FinishNext) => HandInv'
<1> SUFFICES ASSUME TypeOK, HandInv, SelectNext \/ FinishNext PROVE HandInv'
  OBVIOUS
<1>1. CASE Reap
  BY <1>1, FS_EmptySet DEF Reap, ActorGone, HandInv, InHand
<1>2. ASSUME UNCHANGED <<actor, posts>>, Protocol # 3 => UNCHANGED busyq
      PROVE  HandInv'
  BY <1>2 DEF HandInv, InHand
<1> QED
  BY <1>1, <1>2
     DEF SelectNext, ShutdownArm, WriterArm, HeartbeatExpires, HeartbeatTick, CompletionArm,
         ReadPing, ReadReady, ReadRequest, ReadRequestBusy, ReadClose, ReadFails,
         FinishNext, FinishTask, Flushed, JoinWriter, FlushTimesOut, Kill

LEMMA HandHolds == Spec => []HandInv
<1>1. Init => HandInv
  BY FS_EmptySet DEF Init, HandInv, InHand
<1>2. TypeOK /\ HandInv /\ [Next]_vars => HandInv'
  <2> SUFFICES ASSUME HandInv, UNCHANGED actorVars PROVE HandInv'
    BY ActorHand, ReaderHand
       DEF Next, Cancel, Ended, ReaderPushes, ReaderSendFails, ScrapeNext, ScrapeStep,
           ExporterRefused, ExporterAnswers, PostAccepted, PostFallsBack, PostAbandoned,
           PostArrives, WriterNext, TakeControl, ControlSent, TakeBulk, BulkSent, SendFails,
           CloseDone, Drained
  <2> QED
    BY DEF HandInv, InHand
<1> QED
  BY <1>1, <1>2, TypeCorrect, PTL DEF Spec

(* A sequence has at most as many elements as places.                      *)
LEMMA ImageBound ==
    ASSUME NEW n \in Nat, NEW f, DOMAIN f = 1..n
    PROVE  /\ IsFiniteSet({f[i] : i \in 1..n})
           /\ Cardinality({f[i] : i \in 1..n}) \in 0..n
<1> DEFINE T == {f[i] : i \in 1..n}
           g == [i \in 1..n |-> f[i]]
<1>1. g \in Surjection(1..n, T)
  BY DEF Surjection
<1>2. IsFiniteSet(1..n) /\ Cardinality(1..n) = n
  BY FS_Interval
<1> HIDE DEF g, T
<1>3. IsFiniteSet(T) /\ Cardinality(T) <= n
  BY <1>1, <1>2, FS_Surjection
<1> QED
  BY <1>3, FS_CardinalityType DEF T

LEMMA UnionBound ==
    ASSUME NEW A, NEW B, IsFiniteSet(A), IsFiniteSet(B)
    PROVE  /\ IsFiniteSet(A \cup B)
           /\ Cardinality(A) \in Nat /\ Cardinality(B) \in Nat /\ Cardinality(A \cup B) \in Nat
           /\ Cardinality(A \cup B) <= Cardinality(A) + Cardinality(B)
<1>1. /\ IsFiniteSet(A \cup B)
      /\ Cardinality(A \cup B) = Cardinality(A) + Cardinality(B) - Cardinality(A \cap B)
  BY FS_Union
<1>2. IsFiniteSet(A \cap B)
  BY FS_Subset
<1>3. /\ Cardinality(A) \in Nat /\ Cardinality(B) \in Nat
      /\ Cardinality(A \cap B) \in Nat /\ Cardinality(A \cup B) \in Nat
  BY <1>1, <1>2, FS_CardinalityType
<1> QED
  BY <1>1, <1>3

(* The uids in the bulk channel, those that sender s waits to push, and    *)
(* those in the busy-response channel.                                     *)
BulkUids == {bulk[i].uid : i \in 1..Len(bulk)}
WaitingUids(s) == {waiting[i].item.uid : i \in {j \in 1..Len(waiting) : waiting[j].sender = s}}
BusyUids == {busyq[i] : i \in 1..Len(busyq)}
Holding == {u \in Uids : HoldCount(u) > 0}

LEMMA WaitingUidsBound ==
    ASSUME TypeOK, BlockedInv, NEW s
    PROVE  /\ IsFiniteSet(WaitingUids(s))
           /\ Cardinality(WaitingUids(s)) <= One(s \in Blocked(waiting))
<1>1. CASE s \in Blocked(waiting)
  <2>1. PICK k \in 1..Len(waiting) : waiting[k].sender = s
    BY <1>1 DEF Blocked
  <2>2. WaitingUids(s) = {waiting[k].item.uid}
    <3>1. ASSUME NEW j \in 1..Len(waiting), waiting[j].sender = s PROVE j = k
      BY <2>1, <3>1 DEF BlockedInv, Once
    <3>2. \A x : x \in WaitingUids(s) <=> x = waiting[k].item.uid
      BY <2>1, <3>1, Zenon DEF WaitingUids
    <3> QED
      BY <3>2, Zenon
  <2>3. IsFiniteSet(WaitingUids(s)) /\ Cardinality(WaitingUids(s)) = 1
    <3> DEFINE x == waiting[k].item.uid
    <3> HIDE DEF x
    <3>1. IsFiniteSet({x}) /\ Cardinality({x}) = 1
      BY FS_Singleton
    <3>2. WaitingUids(s) = {x}
      BY <2>2 DEF x
    <3> QED
      BY <3>1, <3>2
  <2>4. One(s \in Blocked(waiting)) = 1
    BY <1>1, Zenon DEF One
  <2> QED
    BY <2>3, <2>4
<1>2. CASE s \notin Blocked(waiting)
  <2>1. WaitingUids(s) = {}
    BY <1>2 DEF WaitingUids, Blocked
  <2> QED
    BY <1>2, <2>1, FS_EmptySet DEF One
<1> QED
  BY <1>1, <1>2

(* Where a response is when something holds it.                            *)
LEMMA HeldSomewhere ==
    ASSUME TypeOK, OneScrape, NEW u \in Holding
    PROVE  u \in ({active} \cup {upload.uid}) \cup (BulkUids \cup WaitingUids("session"))
                 \cup (BusyUids \cup (posts \cup WaitingUids("actor")))
<1>1. Amount(u) > 0
  BY HoldCountIsAmount DEF Holding
<1>2. ASSUME u # active PROVE HasTask(tasks, u) = 0 /\ HasReport(completion, u) = 0
  BY <1>2 DEF OneScrape, HasTask, HasReport, One
<1>3. ASSUME u \notin BulkUids PROVE At(bulk, u) = 0
  <2>1. {i \in DOMAIN bulk : bulk[i].uid = u} = {}
    BY <1>3 DEF BulkUids, TypeOK
  <2> QED
    BY <2>1, FS_EmptySet DEF At
<1>4. ASSUME u \notin WaitingUids("session") \cup WaitingUids("actor")
      PROVE  Held(waiting, u) = 0
  <2>1. \A i \in 1..Len(waiting) : waiting[i].sender \in {"session", "actor"}
    <3>1. \A i \in 1..Len(waiting) : waiting[i] \in Waiter
      BY ElementOfSeq DEF TypeOK, Waiter
    <3> QED
      BY <3>1 DEF Waiter, Senders
  <2>2. {i \in DOMAIN waiting : waiting[i].item.uid = u} = {}
    BY <1>4, <2>1 DEF WaitingUids, TypeOK
  <2> QED
    BY <2>2, FS_EmptySet DEF Held
<1>5. ASSUME u \notin BusyUids PROVE Uses(busyq, u) = 0
  <2>1. {i \in DOMAIN busyq : busyq[i] = u} = {}
    BY <1>5 DEF BusyUids, TypeOK
  <2> QED
    BY <2>1, FS_EmptySet DEF Uses
<1>6. u \notin posts => HasPost(posts, u) = 0
  BY DEF HasPost, One
<1>7. u # upload.uid => HasUpload(upload, u) = 0
  BY DEF HasUpload, One
<1> QED
  BY <1>1, <1>2, <1>3, <1>4, <1>5, <1>6, <1>7 DEF Amount

(* However fast the server sends requests, the client holds no more        *)
(* responses than it has places for: the bulk and the busy-response        *)
(* channel, the POSTs of the actor, one being scraped, one being written   *)
(* and one that the reader waits to queue (handle_text, answer_busy,       *)
(* run_busy_response_actor).                                               *)
THEOREM ResponsesAreBounded == Spec => []Backpressure
<1>1. TypeOK /\ OneScrape /\ BlockedInv /\ HandInv => Backpressure
  <2> SUFFICES ASSUME TypeOK, OneScrape, BlockedInv, HandInv
               PROVE  Cardinality(Holding)
                        <= BulkCap + (IF Protocol = 3 THEN BusyCap + PostMax ELSE 0) + 3
    BY DEF Backpressure, HandInv, Holding
  <2> DEFINE A == {active} \cup {upload.uid}
             B == BulkUids \cup WaitingUids("session")
             P == posts \cup WaitingUids("actor")
             C == BusyUids \cup P
             n == IF Protocol = 3 THEN BusyCap ELSE 0
             m == IF Protocol = 3 THEN PostMax ELSE 0
  <2>1. /\ BulkCap \in Nat /\ n \in Nat /\ m \in Nat
    OBVIOUS
  <2>2. IsFiniteSet(A) /\ Cardinality(A) <= 2
    <3>1. /\ IsFiniteSet({active}) /\ Cardinality({active}) = 1
          /\ IsFiniteSet({upload.uid}) /\ Cardinality({upload.uid}) = 1
      BY FS_Singleton
    <3> QED
      BY <3>1, UnionBound
  <2>3. IsFiniteSet(B) /\ Cardinality(B) <= BulkCap + 1
    <3> DEFINE f == [i \in 1..Len(bulk) |-> bulk[i].uid]
    <3>1. Len(bulk) \in Nat /\ Len(bulk) <= BulkCap
      BY DEF TypeOK
    <3>2. IsFiniteSet({f[i] : i \in 1..Len(bulk)})
          /\ Cardinality({f[i] : i \in 1..Len(bulk)}) \in 0..Len(bulk)
      <4>1. DOMAIN f = 1..Len(bulk)
        OBVIOUS
      <4> HIDE DEF f
      <4> QED
        BY <3>1, <4>1, ImageBound
    <3>3. BulkUids = {f[i] : i \in 1..Len(bulk)}
      BY DEF BulkUids
    <3>4. IsFiniteSet(BulkUids) /\ Cardinality(BulkUids) <= BulkCap
      BY <2>1, <3>1, <3>2, <3>3
    <3>5. IsFiniteSet(WaitingUids("session")) /\ Cardinality(WaitingUids("session")) <= 1
      <4>1. /\ IsFiniteSet(WaitingUids("session"))
            /\ Cardinality(WaitingUids("session")) <= One("session" \in Blocked(waiting))
        BY WaitingUidsBound
      <4>2. Cardinality(WaitingUids("session")) \in Nat
        BY <4>1, FS_CardinalityType
      <4>3. One("session" \in Blocked(waiting)) \in 0..1
        BY DEF One
      <4> QED
        BY <4>1, <4>2, <4>3
    <3>6. /\ IsFiniteSet(B)
          /\ Cardinality(BulkUids) \in Nat /\ Cardinality(WaitingUids("session")) \in Nat
          /\ Cardinality(B) \in Nat
          /\ Cardinality(B) <= Cardinality(BulkUids) + Cardinality(WaitingUids("session"))
      BY <3>4, <3>5, UnionBound
    <3> QED
      BY <2>1, <3>4, <3>5, <3>6
  <2>4. IsFiniteSet(P) /\ Cardinality(P) <= m
    <3>1. "actor" \in Blocked(waiting) <=> actor = "queueing"
      BY DEF BlockedInv
    <3>2. /\ IsFiniteSet(WaitingUids("actor"))
          /\ Cardinality(WaitingUids("actor")) <= One(actor = "queueing")
      BY <3>1, WaitingUidsBound DEF One
    <3>3. Cardinality(posts) \in Nat /\ One(actor = "queueing") \in Nat
      BY FS_CardinalityType DEF HandInv, One
    <3>4. IsFiniteSet(P) /\ Cardinality(P) <= Cardinality(posts) + One(actor = "queueing")
      BY <3>2, <3>3, UnionBound DEF HandInv
    <3>5. Cardinality(posts) + One(actor = "queueing") <= m
      BY <3>3, FS_EmptySet DEF HandInv, InHand, One
    <3>6. Cardinality(P) \in Nat
      BY <3>4, FS_CardinalityType
    <3> QED
      BY <2>1, <3>3, <3>4, <3>5, <3>6
  <2>5. IsFiniteSet(C) /\ Cardinality(C) <= n + m
    <3>1. DOMAIN busyq = 1..Len(busyq) /\ Len(busyq) \in Nat /\ Len(busyq) <= n
      BY DEF TypeOK, HandInv
    <3>2. IsFiniteSet(BusyUids) /\ Cardinality(BusyUids) \in 0..Len(busyq)
      BY <3>1, ImageBound DEF BusyUids
    <3>3. Cardinality(BusyUids) <= n
      BY <2>1, <3>1, <3>2
    <3> QED
      BY <2>1, <2>4, <3>2, <3>3, UnionBound
  <2>6. IsFiniteSet(A \cup B) /\ Cardinality(A \cup B) <= 2 + (BulkCap + 1)
    <3> HIDE DEF A, B
    <3> QED
      BY <2>1, <2>2, <2>3, UnionBound
  <2>7. IsFiniteSet((A \cup B) \cup C)
        /\ Cardinality((A \cup B) \cup C) <= (2 + (BulkCap + 1)) + (n + m)
    <3> DEFINE AB == A \cup B
    <3> HIDE DEF A, B, C, AB, n, m
    <3>1. IsFiniteSet(AB) /\ Cardinality(AB) <= 2 + (BulkCap + 1)
      BY <2>6 DEF AB
    <3>2. /\ IsFiniteSet(AB \cup C)
          /\ Cardinality(AB) \in Nat /\ Cardinality(C) \in Nat /\ Cardinality(AB \cup C) \in Nat
          /\ Cardinality(AB \cup C) <= Cardinality(AB) + Cardinality(C)
      BY <2>5, <3>1, UnionBound
    <3>3. Cardinality(AB \cup C) <= (2 + (BulkCap + 1)) + (n + m)
      BY <2>1, <2>5, <3>1, <3>2
    <3> QED
      BY <3>2, <3>3 DEF AB
  <2>8. Holding \in SUBSET ((A \cup B) \cup C)
    BY HeldSomewhere
  <2>9. /\ Cardinality(Holding) <= Cardinality((A \cup B) \cup C)
        /\ Cardinality(Holding) \in Nat
        /\ Cardinality((A \cup B) \cup C) \in Nat
    <3> HIDE DEF A, B, C
    <3> QED
      BY <2>7, <2>8, FS_Subset, FS_CardinalityType
  <2>10. /\ Cardinality(Holding) <= (2 + (BulkCap + 1)) + (n + m)
    <3> HIDE DEF A, B, C, n, m
    <3> QED
      BY <2>1, <2>7, <2>9
  <2> QED
    BY <2>1, <2>9, <2>10
<1> QED
  BY <1>1, TypeCorrect, OneScrapeAtATime, BlockedHolds, HandHolds, PTL
=============================================================================
