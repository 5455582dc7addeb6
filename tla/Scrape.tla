------------------------------- MODULE Scrape -------------------------------
(***************************************************************************)
(* The task that handle_text spawns for a request of an idle worker: the   *)
(* exporter call (call_resource) and, on wire v3, the response POST        *)
(* (deliver_by_post). What is left to send over the WebSocket, or nothing, *)
(* goes to the completion channel.                                         *)
(***************************************************************************)
EXTENDS ConnectionState

(* completion_tx.send: the receiver lives as long as Session::run does.    *)
Report(t, a) ==
    /\ tasks' = tasks \ {t}
    /\ IF reader \in Running
       THEN /\ completion = <<>>
            /\ completion' = <<[uid |-> t.uid, answer |-> a]>>
       ELSE UNCHANGED completion

(* call_resource returns nothing when the budget cannot hold any response. *)
ExporterRefused(t) ==
    /\ Tight
    /\ t.answer = "pending"
    /\ Report(t, "none")
    /\ Settle(t.uid, "dropped")
    /\ UNCHANGED <<shutdown, readerVars, control, bulkVars, actorVars,
                   writerVars, serverVars>>

(* The exporter answered, or failed or timed out with an error response.   *)
ExporterAnswers(t) ==
    /\ t.answer = "pending"
    /\ \E a \in ScrapeResults :
        \/ /\ Protocol = 3
           /\ tasks' = (tasks \ {t}) \cup {[t EXCEPT !.answer = a]}
           /\ SendPost(Response(t.uid, a))
           /\ UNCHANGED completion
        \/ /\ Protocol # 3
           /\ Report(t, a)
           /\ UNCHANGED net
    /\ UNCHANGED <<shutdown, readerVars, control, bulkVars, actorVars,
                   writerVars, wire, fate>>

\* Mutant: the response goes over the WebSocket as well.
PostAcceptedAndSent(t) ==
    /\ t.answer # "pending"
    /\ PostArrived(t.uid)
    /\ Report(t, t.answer)
    /\ Settle(t.uid, "answered")
    /\ UNCHANGED <<shutdown, readerVars, control, bulkVars, actorVars,
                   writerVars, serverVars>>

(* The server accepted the POST: nothing is left to send.                  *)
PostAccepted(t) ==
    /\ t.answer # "pending"
    /\ PostArrived(t.uid)
    /\ Report(t, "none")
    /\ Settle(t.uid, "answered")
    /\ UNCHANGED <<shutdown, readerVars, control, bulkVars, actorVars,
                   writerVars, serverVars>>

\* Mutant: a failed POST has no fallback.
PostForgotten(t) ==
    /\ t.answer # "pending"
    /\ Report(t, "none")
    /\ UNCHANGED <<shutdown, readerVars, control, bulkVars, actorVars,
                   writerVars, serverVars, fate>>

\* Mutant: a failed POST is posted again.
PostRetried(t) ==
    /\ t.answer # "pending"
    /\ SendPost(Response(t.uid, t.answer))
    /\ UNCHANGED <<shutdown, readerVars, scrapeVars, control, bulkVars,
                   actorVars, writerVars, wire, fate>>

(* The POST failed, or timed out with a body within the fallback limit:    *)
(* the response goes over the WebSocket.                                   *)
PostFallsBack(t) ==
    /\ t.answer # "pending"
    /\ Report(t, t.answer)
    /\ UNCHANGED <<shutdown, readerVars, control, bulkVars, actorVars,
                   writerVars, serverVars, fate>>

(* The POST of a body over the fallback limit timed out.                   *)
PostAbandoned(t) ==
    /\ t.answer = "large"
    /\ Report(t, "none")
    /\ Settle(t.uid, "dropped")
    /\ UNCHANGED <<shutdown, readerVars, control, bulkVars, actorVars,
                   writerVars, serverVars>>

ScrapeStep(t) ==
    \/ ExporterRefused(t)
    \/ ExporterAnswers(t)
    \/ PostAccepted(t)
    \/ PostFallsBack(t)
    \/ PostAbandoned(t)

ScrapeNext == \E t \in tasks : ScrapeStep(t)

-----------------------------------------------------------------------------
(* The server's side of response_url: a POST arrives, possibly after the   *)
(* client has given it up, its connection has ended or both.               *)
PostArrives ==
    /\ \E r \in net :
        /\ net' = net \ {r}
        /\ Receive(r.uid, "post", r.answer)
    /\ UNCHANGED <<shutdown, readerVars, scrapeVars, control, bulkVars,
                   actorVars, writerVars, fate>>
=============================================================================
