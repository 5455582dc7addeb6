----------------------------- MODULE BusyActor -----------------------------
(***************************************************************************)
(* run_busy_response_actor: on wire v3 the 503s of a busy worker are       *)
(* posted in the background, PostMax at a time. A 503 whose POST fails     *)
(* goes over the WebSocket; while the actor is blocked in bulk.send it     *)
(* polls none of its POSTs and takes no 503 from its channel.              *)
(***************************************************************************)
EXTENDS ConnectionState

(* The task returned: its receiver, its POSTs and its sender are dropped.  *)
ActorReturns ==
    /\ actor' = "returned"
    /\ busyq' = <<>>
    /\ posts' = {}

\* Mutant: one slot more than the concurrency.
PostSlotFreeTooMany == Cardinality(posts) <= PostMax

(* posts.len() < BUSY_RESPONSE_CONCURRENCY.                               *)
PostSlotFree == Cardinality(posts) < PostMax

(* responses.recv(): the POST of the received 503 starts.                  *)
ActorTakes ==
    /\ actor = "select"
    /\ busyq # <<>>
    /\ PostSlotFree
    /\ busyq' = Tail(busyq)
    /\ posts' = posts \cup {Head(busyq)}
    /\ SendPost(Response(Head(busyq), "busy"))
    /\ UNCHANGED <<shutdown, readerVars, scrapeVars, control, bulkVars, actor,
                   writerVars, wire, fate>>

(* posts.next() yields a POST that the server accepted.                    *)
BusyPostAccepted(u) ==
    /\ actor = "select"
    /\ u \in posts
    /\ PostArrived(u)
    /\ posts' = posts \ {u}
    /\ Settle(u, "answered")
    /\ UNCHANGED <<shutdown, readerVars, scrapeVars, control, bulkVars, actor,
                   busyq, writerVars, serverVars>>

\* Mutant: a failed POST has no fallback.
BusyPostForgotten(u) ==
    /\ actor = "select"
    /\ u \in posts
    /\ posts' = posts \ {u}
    /\ UNCHANGED <<shutdown, readerVars, scrapeVars, control, bulkVars, actor,
                   busyq, writerVars, serverVars, fate>>

\* Mutant: the fallback drops the POSTs in progress.
BusyPostFailsAlone(u) ==
    /\ actor = "select"
    /\ u \in posts
    /\ \E outcome \in Outcomes :
        /\ QueueResponse("actor", Response(u, "busy"), outcome)
        /\ \/ /\ outcome # "broken"
              /\ actor' = IF outcome = "blocked" THEN "queueing" ELSE "select"
              /\ posts' = {}
              /\ UNCHANGED busyq
           \/ /\ outcome = "broken"
              /\ ActorReturns
    /\ UNCHANGED <<shutdown, readerVars, scrapeVars, control, writerVars, serverVars>>

(* posts.next() yields a POST that failed or timed out.                    *)
BusyPostFails(u) ==
    /\ actor = "select"
    /\ u \in posts
    /\ \E outcome \in Outcomes :
        /\ QueueResponse("actor", Response(u, "busy"), outcome)
        /\ \/ /\ outcome # "broken"
              /\ actor' = IF outcome = "blocked" THEN "queueing" ELSE "select"
              /\ posts' = posts \ {u}
              /\ UNCHANGED busyq
           \/ /\ outcome = "broken"
              /\ ActorReturns
    /\ UNCHANGED <<shutdown, readerVars, scrapeVars, control, writerVars, serverVars>>

ActorPushes ==
    /\ actor = "queueing"
    /\ PushWaiting("actor")
    /\ actor' = "select"
    /\ UNCHANGED <<shutdown, readerVars, scrapeVars, control, busyq, posts,
                   writerVars, serverVars, fate>>

(* bulk.send returns an error because the writer is gone.                  *)
ActorSendFails ==
    /\ actor = "queueing"
    /\ GiveUpWaiting("actor")
    /\ ActorReturns
    /\ UNCHANGED <<shutdown, readerVars, scrapeVars, control, bulk, writerVars,
                   serverVars, fate>>

(* The channel is closed and empty and no POST is left.                    *)
ActorDone ==
    /\ actor = "select"
    /\ SendersDropped
    /\ busyq = <<>>
    /\ posts = {}
    /\ ActorReturns
    /\ UNCHANGED <<shutdown, readerVars, scrapeVars, control, bulkVars,
                   writerVars, serverVars, fate>>

ActorNext ==
    \/ ActorTakes
    \/ \E u \in posts : BusyPostAccepted(u) \/ BusyPostFails(u)
    \/ ActorPushes
    \/ ActorSendFails
    \/ ActorDone
=============================================================================
