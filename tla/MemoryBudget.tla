---------------------------- MODULE MemoryBudget ----------------------------
(***************************************************************************)
(* The memory budget that the connections of all workers share             *)
(* (src/memory.rs), and everything that draws on it: the exporter call     *)
(* (call_resource, fetch_resource), the busy answer, the form of a POST    *)
(* (prepare_form_request) and the JSON of a WebSocket response             *)
(* (bounded_response_json).                                                *)
(*                                                                         *)
(* A job is one request on its way through the client. Jobs run on the     *)
(* threads of the runtime: each access to the counter is a step, and the   *)
(* steps of different jobs interleave. A job can be aborted only at an     *)
(* await. Sizes are bytes; only their sums and comparisons matter.         *)
(***************************************************************************)
EXTENDS Naturals, FiniteSets

CONSTANTS
    Jobs,       \* the requests that may be in the client at the same time
    Limit,      \* the budget (DEFAULT_MEMORY_BUDGET_SIZE)
    Uid,        \* the capacity of a uid
    NotFound,   \* the length of the body of a 404
    MaxBody,    \* MAX_BODY_SIZE
    MaxMessage, \* MAX_WS_MESSAGE_SIZE
    Envelope,   \* the fixed part of an encoded response
    Expansion,  \* the most bytes that one byte becomes when encoded
    Slack       \* how much an allocation may exceed what was asked for

ASSUME JobsAssumption == IsFiniteSet(Jobs)
ASSUME SizeAssumption ==
    /\ {Limit, Uid, NotFound, MaxBody, MaxMessage, Envelope, Slack} \subseteq Nat
    /\ Expansion \in Nat \ {0}
    /\ NotFound <= MaxBody

VARIABLES
    used,    \* MemoryBudgetInner.used
    phase,   \* per job, where its code is
    held,    \* per job, the reservation of its response: uid and body
    body,    \* per job, the capacity of the body
    length,  \* per job, the bytes of the body
    extra,   \* per job, the reservation of its form or JSON
    text     \* per job, the capacity of its form or JSON

vars == <<used, phase, held, body, length, extra, text>>

(* The phases in which a job awaits something: the exporter's head, a      *)
(* chunk of it, a queue, the POST, the writer.                             *)
Awaiting == {"calling", "streaming", "response", "posting", "fallback", "queued"}
(* The phases of synchronous code between two accesses to the counter.     *)
Computing == {"allocating", "growing", "checking", "forming", "formed", "downgraded",
              "encoding", "encoded", "queueing"}
Phases == {"idle", "lost", "panicked"} \cup Awaiting \cup Computing

Init ==
    /\ used = 0
    /\ phase = [j \in Jobs |-> "idle"]
    /\ held = [j \in Jobs |-> 0]
    /\ body = [j \in Jobs |-> 0]
    /\ length = [j \in Jobs |-> 0]
    /\ extra = [j \in Jobs |-> 0]
    /\ text = [j \in Jobs |-> 0]

-----------------------------------------------------------------------------
\* Mutant: the limit is compared with the bytes in use before the update.
FitsBefore(n) == used <= Limit

(* The operations of src/memory.rs. try_acquire is one atomic update.      *)
Fits(n) == used + n <= Limit
Acquire(n) == Fits(n) /\ used' = used + n

Goto(j, p) == phase' = [phase EXCEPT ![j] = p]
Put(f, j, n) == [f EXCEPT ![j] = n]

(* try_reserve and try_grow on the reservation of the response.            *)
GrowHeld(j, n) == Acquire(n) /\ held' = Put(held, j, held[j] + n)

(* try_reserve and try_grow on the reservation of the form or JSON.        *)
GrowExtra(j, n) == Acquire(n) /\ extra' = Put(extra, j, extra[j] + n)

(* shrink_to(n) followed by p; its assertion fails when n is a growth.     *)
ShrinkHeld(j, n, p) ==
    IF n <= held[j]
    THEN /\ used' = used - (held[j] - n)
         /\ held' = Put(held, j, n)
         /\ Goto(j, p)
    ELSE /\ Goto(j, "panicked")
         /\ UNCHANGED <<used, held>>

(* The reservation of the form or JSON is dropped together with the text.  *)
DropText(j) ==
    /\ used' = used - extra[j]
    /\ extra' = Put(extra, j, 0)
    /\ text' = Put(text, j, 0)

\* Mutant: a job that ends early keeps the reservation of its text.
DropAllButText(j, p) ==
    /\ used' = used - held[j]
    /\ held' = Put(held, j, 0)
    /\ body' = Put(body, j, 0)
    /\ length' = Put(length, j, 0)
    /\ extra' = Put(extra, j, 0)
    /\ text' = Put(text, j, 0)
    /\ Goto(j, p)

(* Everything the job owns is dropped, and the job is over.                *)
DropAll(j, p) ==
    /\ used' = used - (held[j] + extra[j])
    /\ held' = Put(held, j, 0)
    /\ body' = Put(body, j, 0)
    /\ length' = Put(length, j, 0)
    /\ extra' = Put(extra, j, 0)
    /\ text' = Put(text, j, 0)
    /\ Goto(j, p)

-----------------------------------------------------------------------------
(* call_resource and, for a busy answer, BudgetedResponse::try_new: the    *)
(* uid is reserved first, and a request that finds no room for it is lost. *)
Begin(j) ==
    /\ phase[j] \in {"idle", "lost"}
    /\ \/ /\ GrowHeld(j, Uid)
          /\ \E p \in {"calling", "response"} : Goto(j, p)
       \/ /\ ~Fits(Uid)
          /\ Goto(j, "lost")
          /\ UNCHANGED <<used, held>>
    /\ UNCHANGED <<body, length, extra, text>>

(* The resource is not configured: a 404, or an empty 500 without room.    *)
UnknownResource(j) ==
    /\ phase[j] = "calling"
    /\ \/ /\ GrowHeld(j, NotFound)
          /\ body' = Put(body, j, NotFound)
          /\ length' = Put(length, j, NotFound)
       \/ /\ ~Fits(NotFound)
          /\ UNCHANGED <<used, held, body, length>>
    /\ Goto(j, "response")
    /\ UNCHANGED <<extra, text>>

(* fetch_resource returned an error: its vector is dropped, and the        *)
(* reservation shrinks to the uid of an empty 500.                         *)
GiveUpFetch(j) ==
    /\ body' = Put(body, j, 0)
    /\ length' = Put(length, j, 0)
    /\ ShrinkHeld(j, Uid, "response")
    /\ UNCHANGED <<extra, text>>

(* The call failed, the declared or the real length exceeds MaxBody, the   *)
(* allocation failed, the body is no UTF-8, or a timeout expired.          *)
FetchFails(j) ==
    /\ phase[j] \in {"calling", "growing", "streaming"}
    /\ GiveUpFetch(j)

(* The head arrived: the declared length, if there is one, is reserved.    *)
HeadArrives(j) ==
    /\ phase[j] = "calling"
    /\ \E declared \in 0..MaxBody :
        \/ /\ GrowHeld(j, declared)
           /\ Goto(j, "allocating")
           /\ UNCHANGED <<body, length, extra, text>>
        \/ /\ ~Fits(declared)
           /\ GiveUpFetch(j)

(* Vec::with_capacity: at least the declared length, which was reserved.   *)
Allocate(j) ==
    /\ phase[j] = "allocating"
    /\ \E slack \in 0..Slack : body' = Put(body, j, held[j] - Uid + slack)
    /\ Goto(j, "checking")
    /\ UNCHANGED <<used, held, length, extra, text>>

\* Mutant: what the allocator adds to a growing vector is not reserved.
GrowUnchecked(j) ==
    /\ phase[j] = "growing"
    /\ \E slack \in 0..Slack : body' = Put(body, j, length[j] + slack)
    /\ Goto(j, "streaming")
    /\ UNCHANGED <<used, held, length, extra, text>>

(* try_reserve_exact: at least the bytes with the new chunk.               *)
Grow(j) ==
    /\ phase[j] = "growing"
    /\ \E slack \in 0..Slack : body' = Put(body, j, length[j] + slack)
    /\ Goto(j, "checking")
    /\ UNCHANGED <<used, held, length, extra, text>>

(* What an allocation of n bytes exceeds its reservation by.               *)
Excess(n, reserved) == IF n > reserved THEN n - reserved ELSE 0

(* What the allocator added is reserved too.                               *)
CheckCapacity(j) ==
    /\ phase[j] = "checking"
    /\ LET added == Excess(Uid + body[j], held[j]) IN
        \/ /\ GrowHeld(j, added)
           /\ Goto(j, "streaming")
           /\ UNCHANGED <<body, length, extra, text>>
        \/ /\ ~Fits(added)
           /\ GiveUpFetch(j)

\* Mutant: a chunk is reserved in full although part of it fits.
ChunkReservedInFull(j) ==
    /\ phase[j] = "streaming"
    /\ \E next \in (length[j] + 1)..MaxBody :
        \/ /\ next <= body[j]
           /\ length' = Put(length, j, next)
           /\ UNCHANGED <<used, phase, held, body, extra, text>>
        \/ /\ next > body[j]
           /\ GrowHeld(j, next - length[j])
           /\ length' = Put(length, j, next)
           /\ Goto(j, "growing")
           /\ UNCHANGED <<body, extra, text>>
        \/ /\ ~Fits(next - length[j])
           /\ GiveUpFetch(j)

(* A chunk arrived: what it adds to the capacity is reserved before the    *)
(* vector grows.                                                           *)
ChunkArrives(j) ==
    /\ phase[j] = "streaming"
    /\ \E next \in (length[j] + 1)..MaxBody :
        \/ /\ next <= body[j]
           /\ length' = Put(length, j, next)
           /\ UNCHANGED <<used, phase, held, body, extra, text>>
        \/ /\ next > body[j]
           /\ GrowHeld(j, next - body[j])
           /\ length' = Put(length, j, next)
           /\ Goto(j, "growing")
           /\ UNCHANGED <<body, extra, text>>
        \/ /\ next > body[j]
           /\ ~Fits(next - body[j])
           /\ GiveUpFetch(j)

(* The stream ended: from_reserved gives back what the body does not need. *)
FetchEnds(j) ==
    /\ phase[j] = "streaming"
    /\ ShrinkHeld(j, Uid + body[j], "response")
    /\ UNCHANGED <<body, length, extra, text>>

-----------------------------------------------------------------------------
(* The lengths to which n bytes may be encoded.                            *)
EncodedLengths(n) == {Envelope + m : m \in n..(Expansion * n)}

(* prepare_form_request: the form is reserved before it is encoded. A      *)
(* response that finds no room falls back to the WebSocket.                *)
ReserveForm(j) ==
    /\ phase[j] = "response"
    /\ \E n \in EncodedLengths(length[j]) :
        \/ GrowExtra(j, n) /\ Goto(j, "forming")
        \/ ~Fits(n) /\ Goto(j, "fallback") /\ UNCHANGED <<used, extra>>
    /\ UNCHANGED <<held, body, length, text>>

(* The text is encoded with at least the capacity that was reserved.       *)
EncodeAs(j, p) ==
    /\ \E slack \in 0..Slack : text' = Put(text, j, extra[j] + slack)
    /\ Goto(j, p)
    /\ UNCHANGED <<used, held, body, length, extra>>

EncodeForm(j) == phase[j] = "forming" /\ EncodeAs(j, "formed")

\* Mutant: what the allocator adds to a form is not reserved.
SendFormUnchecked(j) ==
    /\ phase[j] = "formed"
    /\ Goto(j, "posting")
    /\ UNCHANGED <<used, held, body, length, extra, text>>

(* What the allocator added is reserved, and the POST is sent.             *)
SendForm(j) ==
    /\ phase[j] = "formed"
    /\ LET added == Excess(text[j], extra[j]) IN
        \/ GrowExtra(j, added) /\ Goto(j, "posting") /\ UNCHANGED text
        \/ ~Fits(added) /\ DropText(j) /\ Goto(j, "fallback")
    /\ UNCHANGED <<held, body, length>>

(* The POST was accepted, or it timed out with a large body.               *)
PostEnds(j) == phase[j] = "posting" /\ DropAll(j, "idle")

(* The POST failed: the response falls back to the WebSocket.              *)
PostFails(j) ==
    /\ phase[j] = "posting"
    /\ DropText(j)
    /\ Goto(j, "fallback")
    /\ UNCHANGED <<held, body, length>>

-----------------------------------------------------------------------------
\* Mutant: a body that finds no room costs the answer, not the body.
ReserveJsonOrLose(j) ==
    /\ phase[j] \in {"response", "fallback"}
    /\ \E n \in EncodedLengths(Uid + length[j]) :
        \/ /\ n <= MaxMessage
           /\ GrowExtra(j, n)
           /\ Goto(j, "encoding")
           /\ UNCHANGED <<held, body, length, text>>
        \/ /\ n > MaxMessage \/ ~Fits(n)
           /\ DropAll(j, "lost")

(* bounded_response_json: the JSON is reserved before it is encoded. With  *)
(* no room in the budget or the message the body is dropped first, for an  *)
(* empty 500 (downgrade_to_error).                                         *)
ReserveJson(j) ==
    /\ phase[j] \in {"response", "fallback"}
    /\ \E n \in EncodedLengths(Uid + length[j]) :
        \/ /\ n <= MaxMessage
           /\ GrowExtra(j, n)
           /\ Goto(j, "encoding")
           /\ UNCHANGED <<held, body, length>>
        \/ /\ n > MaxMessage \/ ~Fits(n)
           /\ body' = Put(body, j, 0)
           /\ length' = Put(length, j, 0)
           /\ ShrinkHeld(j, Uid, "downgraded")
           /\ UNCHANGED extra
    /\ UNCHANGED text

(* The empty 500 is reserved; a response without room for it is lost.      *)
ReserveError(j) ==
    /\ phase[j] = "downgraded"
    /\ \E n \in EncodedLengths(Uid) :
        \/ /\ n <= MaxMessage
           /\ GrowExtra(j, n)
           /\ Goto(j, "encoding")
           /\ UNCHANGED <<held, body, length, text>>
        \/ /\ n > MaxMessage \/ ~Fits(n)
           /\ DropAll(j, "lost")

EncodeJson(j) == phase[j] = "encoding" /\ EncodeAs(j, "encoded")

(* What the allocator added is reserved, or the response is lost.          *)
CheckJson(j) ==
    /\ phase[j] = "encoded"
    /\ LET added == Excess(text[j], extra[j]) IN
        \/ /\ GrowExtra(j, added)
           /\ Goto(j, "queueing")
           /\ UNCHANGED <<held, body, length, text>>
        \/ /\ ~Fits(added)
           /\ DropAll(j, "lost")

(* queue_ws_response drops the response before it queues the JSON.         *)
QueueJson(j) ==
    /\ phase[j] = "queueing"
    /\ body' = Put(body, j, 0)
    /\ length' = Put(length, j, 0)
    /\ ShrinkHeld(j, 0, "queued")
    /\ UNCHANGED <<extra, text>>

(* run_writer sent the response, or failed to.                             *)
Written(j) == phase[j] = "queued" /\ DropAll(j, "idle")

(* The connection ends: the task or the channel that owns the job is       *)
(* dropped, whatever it awaits.                                            *)
Abort(j) == phase[j] \in Awaiting /\ DropAll(j, "idle")

Step(j) ==
    \/ Begin(j) \/ UnknownResource(j) \/ FetchFails(j) \/ HeadArrives(j)
    \/ Allocate(j) \/ Grow(j) \/ CheckCapacity(j) \/ ChunkArrives(j) \/ FetchEnds(j)
    \/ ReserveForm(j) \/ EncodeForm(j) \/ SendForm(j) \/ PostEnds(j) \/ PostFails(j)
    \/ ReserveJson(j) \/ ReserveError(j) \/ EncodeJson(j) \/ CheckJson(j)
    \/ QueueJson(j) \/ Written(j) \/ Abort(j)

Next == \E j \in Jobs : Step(j)

Spec == Init /\ [][Next]_vars

-----------------------------------------------------------------------------
(* Every variable has its type, and the counter stays within the limit.    *)
TypeOK ==
    /\ used \in 0..Limit
    /\ phase \in [Jobs -> Phases]
    /\ held \in [Jobs -> Nat]
    /\ body \in [Jobs -> Nat]
    /\ length \in [Jobs -> Nat]
    /\ extra \in [Jobs -> Nat]
    /\ text \in [Jobs -> Nat]

(* The bytes of every reservation that exists.                             *)
Reserved(f, g) == UNION {{j} \X (1..(f[j] + g[j])) : j \in Jobs}

(* The counter is the sum of the reservations: however the jobs of all     *)
(* workers interleave, fail or are aborted, no byte is counted twice, and  *)
(* none stays counted after its owner is gone (MemoryReservation::drop,    *)
(* shrink_to and try_grow).                                                *)
Accounted == Cardinality(Reserved(held, extra)) = used

(* shrink_to never finds a reservation smaller than what it should keep:   *)
(* its assertion does not fail in from_reserved or downgrade_to_error.     *)
NeverPanics == \A j \in Jobs : phase[j] # "panicked"

(* Whenever a job waits, the memory it owns is exactly what it reserved.   *)
(* Between an allocation and its check the memory may exceed the           *)
(* reservation by what the allocator added, and by no more.                *)
Covered ==
    \A j \in Jobs :
        /\ phase[j] \in Awaiting =>
            /\ held[j] = IF phase[j] = "queued" THEN 0 ELSE Uid + body[j]
            /\ extra[j] = text[j]
            /\ length[j] <= body[j]
        /\ phase[j] = "checking" => Uid + body[j] <= held[j] + Slack
        /\ phase[j] \in {"formed", "encoded"} => text[j] <= extra[j] + Slack

(* The memory of a response: its uid, from the reservation of it until the *)
(* JSON replaces the response in a queue, and its body.                    *)
ResponseMemory ==
    [j \in Jobs |-> (IF phase[j] \in {"idle", "lost", "queued"} THEN 0 ELSE Uid) + body[j]]

(* The jobs that have allocated and not yet checked what the allocator gave*)
(* them.                                                                   *)
Unchecked == {j \in Jobs : phase[j] \in {"checking", "formed", "encoded"}}

(* The counter never lags behind the memory: all responses, forms and JSON *)
(* texts together take no more bytes than the counter says, but for what   *)
(* the allocator has just added to the allocation of a job that has not    *)
(* checked it yet (fetch_resource, prepare_form_request,                   *)
(* bounded_response_json).                                                 *)
MemoryCounted ==
    Cardinality(Reserved(ResponseMemory, text)) <= used + Slack * Cardinality(Unchecked)

(* A job that does not hold a response owns nothing.                       *)
Owns(j) == held[j] + extra[j]

(* With room in the budget for an empty answer of its own, a request is    *)
(* lost only while another one holds memory: a body that is too large is   *)
(* given up for an empty 500 rather than the answer (downgrade_to_error).  *)
(* The exception is a JSON that the allocator made larger than reserved:   *)
(* it is given up without a downgrade.                                     *)
LostOnlyWhenShared ==
    [][\A j \in Jobs :
          phase[j] # "lost" /\ phase'[j] = "lost"
              => (\E k \in Jobs \ {j} : Owns(k) > 0) \/ text[j] > extra[j]]_vars
=============================================================================
