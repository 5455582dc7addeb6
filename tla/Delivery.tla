------------------------------ MODULE Delivery ------------------------------
(***************************************************************************)
(* What a connection promises about the requests it reads, whatever the    *)
(* tasks and queues inside: every request is owed an answer until it is    *)
(* answered or given up; the server receives an answer at most once by     *)
(* POST and at most once as a frame; an answer the server accepted by POST *)
(* or that was written as a frame is never sent as a frame again. A POST   *)
(* that was given up may still arrive, even after the connection's end.    *)
(***************************************************************************)
EXTENDS Naturals, Sequences

CONSTANTS
    Uids,           \* the requests the server may send
    PostAllowed     \* the wire protocol posts responses

VARIABLES
    open,           \* the connection has not ended
    fate,           \* "unseen", "owed", "answered" or "dropped"
    copies          \* per request, the ways its answers arrived, in order

vars == <<open, fate, copies>>

Has(u, via) == \E i \in DOMAIN copies[u] : copies[u][i] = via
Arrive(u, via) == copies' = [copies EXCEPT ![u] = Append(@, via)]
Set(u, f) == fate' = [fate EXCEPT ![u] = f]

Init ==
    /\ open = TRUE
    /\ fate = [u \in Uids |-> "unseen"]
    /\ copies = [u \in Uids |-> <<>>]

(* A request is read; it is owed an answer, or refused at once.            *)
Read(u) ==
    /\ open
    /\ fate[u] = "unseen"
    /\ Set(u, "owed") \/ Set(u, "dropped")
    /\ UNCHANGED <<open, copies>>

(* An answer arrives by POST.                                              *)
Post(u) ==
    /\ PostAllowed
    /\ fate[u] # "unseen"
    /\ ~Has(u, "post")
    /\ Arrive(u, "post")
    /\ UNCHANGED <<open, fate>>

(* The client learns that its POST was accepted.                           *)
Confirm(u) ==
    /\ open
    /\ fate[u] = "owed"
    /\ Has(u, "post")
    /\ Set(u, "answered")
    /\ UNCHANGED <<open, copies>>

(* An answer arrives as a frame; a client whose writer was cut off does    *)
(* not know it.                                                            *)
Frame(u) ==
    /\ open
    /\ fate[u] = "owed"
    /\ ~Has(u, "frame")
    /\ Arrive(u, "frame")
    /\ Set(u, "answered") \/ UNCHANGED fate
    /\ UNCHANGED open

(* The client gives a request up.                                          *)
Drop(u) ==
    /\ open
    /\ fate[u] = "owed"
    /\ Set(u, "dropped")
    /\ UNCHANGED <<open, copies>>

Close ==
    /\ open
    /\ open' = FALSE
    /\ UNCHANGED <<fate, copies>>

Next ==
    \/ \E u \in Uids : Read(u) \/ Post(u) \/ Confirm(u) \/ Frame(u) \/ Drop(u)
    \/ Close

Spec == Init /\ [][Next]_vars
=============================================================================
