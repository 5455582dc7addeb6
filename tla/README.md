# Verification of prometheus-ws-proxy-client

The client opens WebSocket connections to a proxy server, which sends it scrape
requests; it calls the exporter of each request and answers over the WebSocket
(wire v1 and v2) or with an HTTP POST that falls back to the WebSocket (wire v3).
This directory holds TLA+ models of it, the TLC configurations that check them
and the theorems that TLAPS proves about them. The models are translated from
the source; paths below are relative to the repository.

## The system

| Part | Source | State | Operations |
|---|---|---|---|
| Session (reader) | `src/worker.rs`: `Session::run`, `handle_text`, `answer_busy`, `queue_ws_response`, `finish` | `active_task`, `writer_done`, the sending halves of the control (32), bulk (8) and busy-response (8) channels, `last_inbound` | the arms of the select: shutdown, end of the writer, heartbeat, completion of the scrape, server frame; then the orderly end |
| Scrape task | `handle_text`, `deliver_by_post`, `post_response`; `src/resource.rs` | the response in hand and its memory reservation | call the exporter, POST, report what is left over |
| Busy-response actor | `run_busy_response_actor` | at most 4 POSTs in flight, its channel | take a 503, POST it, fall back to the bulk channel, return |
| Writer | `run_writer`, `send_ws` | the receiving halves of control and bulk, the frame in hand | send control before bulk, close, fail |
| Worker | `run_worker`, `run_connection`, `reconnect_delay` | `quick_failures` | connect, run a connection, back off, stop |
| Memory budget | `src/memory.rs`, used by `src/resource.rs` and `worker.rs` | bytes in use, one counter for all workers | reserve, grow, shrink, release |
| Wire protocol | `src/protocol.rs` | none | encode, decode, length prechecks, identifier limits |
| Configuration | `src/config.rs` | during the start: the instance, the token | load the file, ask the EC2 metadata service for the instance (IMDSv2, then IMDSv1), validate the names |
| Target | `src/target.rs` | none | derive the WebSocket URL and the response URLs |
| Command line | `src/cli.rs` | none | parse |
| Process | `src/main.rs` | the cancellation token | start the workers, wait for a signal, stop within 15 seconds |

The tasks of a connection share four channels. The reader spawns the scrape task
and hears from it through the completion channel; the reader and the busy actor
send to the bulk channel and wait when it is full; only the reader sends control
frames, and drops them when that channel is full; the writer drains both. The
workers share the memory budget and the cancellation token.

What is hard in this code: four tasks interleave at every await; the reader
stops polling everything else while it waits for the bulk channel; a POST may
time out after the server has applied it; every queue has a limit and each
reacts to it in its own way (wait, drop, fall back); a connection can end at any
moment, in six ways, and has to take all of its tasks with it; the start asks a
service that may refuse, lose or answer each of three requests. PROJECT.json
lists these hazards at their lines with the properties that would catch each
one going wrong.

## Modules

| Module | Models |
|---|---|
| `ConnectionState` | the variables of one connection, the channels and `queue_ws_response` |
| `SessionLoop` | the reader: the arms of the select, the blocked send, `finish` up to the flush |
| `Scrape` | the scrape task, and the arrival of POSTs at the server |
| `BusyActor` | `run_busy_response_actor` |
| `Writer` | `run_writer` |
| `Connection` | the composition: initial state, the abort of the writer and the actor, next-state relation, fairness, properties |
| `Delivery` | the abstract specification: what a connection promises about each request |
| `MCConnection` | instances for TLC |
| `MemoryBudget`, `MCMemoryBudget` | the budget of `memory.rs` and everything that draws on it: `call_resource`, `fetch_resource`, `prepare_form_request`, `bounded_response_json`, for many requests at once |
| `SessionClock` | the heartbeat of `Session::run` with clocks, and a reader that may be blocked |
| `Backoff` | `reconnect_delay` and `scaled_timeout` as operators |
| `Target` | `Target::parse` and `response_url` as operators on URLs |
| `Startup`, `MCStartup` | `Config::load` with `resolve_instance` and the validation of names, up to the parsed target; extends `Target` |
| `Process`, `MCProcess` | `main`, the signals, and `run_worker` for every worker, with clocks; extends `Backoff` and takes `Startup` for what precedes the workers |
| `ConnectionProofs` | type correctness, with the lemmas on sequences, encoding and queueing |
| `ConnectionSafety` | theorems on the scrape, the register message, the end of a connection and the blocked senders |
| `ConnectionAccounting` | the theorem on who holds a response |
| `ConnectionDelivery` | theorems on what the server receives: the copies agree, `Delivery` is implemented, the farewell overtakes |
| `MemoryBudgetProofs`, `SessionClockProofs`, `StartupProofs`, `ProcessProofs` | theorems about the module of that name (in `StartupProofs` also `Target`, in `ProcessProofs` also `Backoff`) |

`Connection` composes the four tasks of one connection and is the detailed
model. `Process` composes the start with the workers: its steps while it is
`loading` are those of `Startup`. `SessionClock` and `Process` look at the same reader and at whole
connections from further away, for the questions that need time; `MemoryBudget`
follows each request through the tasks, for the accounting that `Connection`
abstracts to "a body may be refused".

### How the state corresponds to the code

`reader` is the await at which `Session::run` or `finish` is suspended: `select`
(the select of the loop), `queueing` (`bulk.send().await`), `finishing` (the
aborted scrape task is awaited), `flushing` (the writer is awaited for
`close_timeout`), `killing` (the aborted writer is awaited), `reaping` (the busy
actor is awaited), `ended`; `panicked` stands for awaiting the JoinHandle of the
writer a second time, which `writer_done` has to prevent. `cause` is the pair that `Session::run` returned
together with `writer_done`: `goodbye` and `reply` carry a close frame, `writer`
is `writer_done`, `error` is everything else. `tasks` is a set so that a second
scrape is expressible, though the code must never have one. `waiting` is the
queue of senders that tokio keeps for a full bounded channel: permits go to
waiting senders in order, and a sender that got one pushes when it next runs.
`net` holds POSTs that left and have not arrived; they may arrive after the
client has given them up, after the connection has ended, or never. `wire` is
what the server has received for each request and `fate` what the client has
made of it: `owed` an answer since it was read, `answered` when the client
learned that a POST was accepted or has written the frame, `dropped` when it gave
the request up with a warning.

A response body is one of four classes, those the code tells apart: `large` (over
`FALLBACK_AFTER_TIMEOUT_LIMIT`), `small`, `error` and `busy` (the 503). `Tight`
says whether the memory budget or the message limit may refuse a body; a refusal
is a nondeterministic choice, since other connections share the budget. A frame
in hand when a send fails or the writer is aborted may or may not have arrived.
Timeouts have no clock: each may expire at any moment at which the code waits
with one.

A request is read at most once: the server gives each request its own uid.
Frames that change nothing (pongs, unknown or invalid text, binary frames) are
left out. Other panics are left out: a scrape task that panics never completes.

In `MemoryBudget` a job is one request with its response. `held` is the
reservation that `BudgetedResponse` (or `fetch_resource`, before there is one)
owns, `body` and `length` the capacity and the bytes of its body; `extra` and
`text` are the reservation and the capacity of the encoded form or JSON. `phase`
is the place in the code: a job in an `Awaiting` phase is suspended and may be
aborted, one in a `Computing` phase is in synchronous code between two accesses
to the counter, where only other threads interleave. Encoded lengths are any
within the factor `Expansion` of the text plus `Envelope`. The allocator may
exceed what was asked for by up to `Slack`, as Rust allows and the code checks
for; the literal of the 404 is taken to be exact, since the code does not check
it. Memory that the code does not count (both buffers during a reallocation, the
copies of the WebSocket library) is not in the model either.

In `SessionClock` and `Process` time is a counter that an action `Advance`
increments, only while nothing that is ready is left undone; an action with a
timeout bounds how far time may advance. `silence` is `last_inbound.elapsed()`;
`unread` says that frames are at the socket; `waited` is a history, which no guard
reads, of the time the reader has spent in `bulk.send` since it last read a frame.
In `Process`, `pc` is the await of
`run_worker` (or the phase of `run_connection` below it), `timer` the time it has
spent there or, asleep, has left, `age` is `started.elapsed()` and `failures`
`quick_failures`. A connection's inside is reduced to whether its reader hears
the shutdown (`session`) or is blocked in the bulk channel (`queueing`).
`stalled`, `row` and `waited` are history variables that no guard reads.

In `Startup`, `stage` is the await of `Config::load` or the step of `main` that
follows it, `token` the local of `resolve_instance` and `service` the versions of
the metadata protocol that this host's service speaks. A service of version 2
answers the request for a token with one; another refuses it, answers something
that is no token, or answers bytes that no header can hold. A request with a
token may be refused whatever it was (a token expires), and any request may be
lost. `trouble` is a history of what went wrong; no guard reads it. A URL is its
scheme, the segments of its path as the url library splits them, and whether it
has a query or fragment; host, port and percent-encoding are copied by the code
and left out. `Push` is the library's: it skips the segments "." and "..", and its
parser drops tabs and line breaks, so a uid is in `Target` what is left of it
without them and whether it has any. `validate_uid` looks at the length only:
requests whose uids differ in no more than that are answered at the same URL, and
the lemma `ResponsesThatShareUrls` says that no others are.

## What the runs check

| Run | Instance | Shows |
|---|---|---|
| `connection_v2` | wire v2, 5 requests, control 2, bulk 1, `Tight` | responses travel over the WebSocket only, one blocked sender: none lost or doubled, no more held than there are places, register first, farewell before queued responses, `Delivery` implemented |
| `connection_v3` | wire v3, 2 requests, small and large bodies, control 2, other capacities 1, `Tight` | POST, timeout, fallback, late arrival, downgrade to an empty 500, every way to end: copies agree, nothing is lost, nothing outlives the connection, the writer is joined once |
| `connection_queues` | wire v3, 3 requests, every capacity 1 | the reader and the busy actor wait for the bulk channel together, neither overtakes the other, the actor keeps to its limit of POSTs |
| `connection_live` | wire v3, 3 requests, 2 POSTs at a time, other capacities 1, few POSTs arrive; fairness | a shutdown ends the connection, a blocked reader runs again, every request is served unless control frames flood |
| `memory_shared` | 3 jobs, limit 7, bodies up to 2, messages up to 4, slack 1 | the budget is never exceeded, the counter is the sum of the reservations, reservations are the memory held at every await and nowhere lag far behind it, `shrink_to` never panics, a request is lost only while another holds memory or the allocator was generous |
| `session_clock` | units of 5 s: interval 4, timeout 9, a frame every 3, blocked up to 18 (two uploads) | a dead path is noticed, later by what the reader has waited; only such a wait ends a live connection |
| `startup` | instance `ec2` or named, names too long in the file and in the answer, metadata services of every kind, 90 targets; fairness | the client is registered under a valid name of the right origin, the fallback finds a service of version 1, both URLs agree, the start ends |
| `process_stop` | 2 workers: connect 2, close 1, deadline 4, an upload 5; a start that asks a metadata service of version 1; fairness | a worker stops in the time of a connect and a farewell and the process within its deadline, unless a reader is stalled; none left behind, a signal ends the process |
| `process_backoff` | 1 worker, units of half a second, the delays of the code (2 to 60) | no connect before the delays of all failures in the row have passed |
| `session_clock_blocked` | as `session_clock`, blocked up to 9 (45 s) | a live connection is closed (violation) |
| `connection_reading` | wire v2, 3 requests | the reader does wait for an upload (violation) |
| `connection_farewell` | wire v2, 2 requests | a writer that is uploading is aborted without a close frame (violation) |

The capacities of the code are 32, 8, 8 and 4. What happens at a limit depends
on the channel being full, on a sender waiting and on a second sender waiting,
not on how many fill it; with capacity 1 and as many requests as there are
holders on the path (one uploading, one queued, one waiting) each of these is
reached. `Backpressure` bounds how many responses are held at once: on wire v2
there are four such places with a bulk channel of 1 (the scrape, the channel, the
writer, the blocked reader), so that run has five requests and the fifth must
find the reader blocked. On wire v3 three requests cannot exceed its six places;
there the run checks the limit of the actor, and the theorem the rest. Requests
are symmetric, and the safety runs use that; the liveness run does not.

The liveness run needs three requests and two POSTs at a time: only then can the
reader wait behind a busy actor that waits, and can POSTs be left while the actor
is blocked. To keep it small, POSTs of one request only may reach the server, and
none when the third request has been read (`FewPosts` in `MCConnection`): the other
POSTs are lost or refused, which is what makes answers fall back to the bulk
channel. The fairness asks for no arrival of a POST, so the bound disables nothing
that must happen; what late arrivals do is checked in `connection_v3` and
`connection_queues`.

Properties: `NoRequestLost` is the accounting of responses: while reader and
writer run, a request that is owed an answer is held in exactly one place.
`Delivers` is the refinement of `Delivery`: no frame is sent for a request that
is answered or given up, at most one copy by each way. `CopiesAgree` says that
the copies carry the same answer or the frame is the empty 500. `OneScrape`,
`RegisterFirst`, `FarewellFirst` and `NoOrphans` are about the reader, the writer
and the end. `JoinedOnce` is about `writer_done`: the select and `finish` both
await the JoinHandle of the writer, which panics when it is awaited after its
end, and a session that ends because a send or a read failed has not joined a
writer that is gone, while one that ends by the writer's arm has.
`NoOvertaking` is the fairness of the bulk channel towards its two senders, on
which `ReaderResumes` rests: places are given in the order of arrival and not
taken back. At most two senders wait, so a blocked reader is behind at most one
other: on wire v3 it may wait for two uploads, not only for the one in progress.

`Identified` is about the order in `Config::load`: names are validated after the
metadata service has answered, so that what it answers is validated too.
`FallsBack` names what excuses a start that cannot resolve its instance; losing
the answer is an excuse because the code repeats a refused request but not a
lost one. `EndpointsAgree` relates the WebSocket URL, the base of the
response URLs and the target they come from: configuring the endpoint or the
base is the same, and encryption is never lost on the way. `Settles` needs that
a refused token is given up rather than replaced by a new one.

The bounds of the other runs. `memory_shared`: two full responses do not fit the
limit together, so that every reservation finds room in some interleavings and
none in others, three jobs let a third take what a second released between
two steps of the first, and one job alone has the room that
`LossNeedsAnotherJob` asks for. `startup`: the paths have a base and an endpoint
with none, one and several trailing slashes, an empty segment inside, and a "ws"
that is not last. The clocks count down, are capped or end with the
timeout, so no other bound is needed: between two frames the reader waits twice
at most, which bounds the history of `SessionClock` too. In `Process`
the count of failures stops at `MaxFailures` = 6, where the theorem `DelayGrows`
says that more of them change nothing, and `age` at `Stable`; `process_stop`
starts through the fallback to IMDSv1, so that a signal meets every step of it,
shortens the times and keeps their order (farewell, connect, deadline, upload),
and `ForcedOnlyByAStall` shows that only that matters. `process_backoff` takes
the durations of the code themselves; it is not stopped (`Paced` is about a
running worker), so its deadline is 1.

`Covered` is the exactness of the accounting at every await: what a request owns
is what it has reserved. `MemoryCounted` is about all requests together and about
the steps between the awaits: there the counter is behind the memory by what the
allocator has just added to allocations that have not been checked yet, and by
nothing else. `LostOnlyWhenShared` is about the order in
`bounded_response_json`: the body is released before the empty 500 is reserved.
It excepts an allocator that gives more than it was asked for: a JSON that was
reserved in full and whose excess finds no room loses the answer without the
downgrade. With the standard allocator the strings are exact. `DeadServerNoticed` and
`OnlyAWaitDeceives` are the two sides of the heartbeat. A wait of the reader delays
the notice of a dead path, because ticks are missed, and by no more than it lasts;
and a wait makes the reader take a live server for dead, if with the gap between two
frames it exceeds the timeout: 30 of the 45 seconds that one upload may take. `Paced` sums the waits over
the whole row of failures, so a count that is reset or skipped anywhere breaks
it. `StopsPromptly` charges each worker on its own: a stalled one excuses
no other. `ForcedOnlyWhenStalled` is the 15 second promise: the deadline is reached
only when a reader was blocked behind an upload at or after the signal.

### Fairness

Every wait on the network has a timeout (60 seconds for the exporter, at most 60
for a POST, at most 45 for a frame, 1 for the farewell), so each task makes
progress: weak fairness of the scrape, the actor, the writer and the end of the
reader. The reader's select picks at random among its ready arms: weak fairness
of the arms that matter. The writer's select is biased to control frames. It is
assumed to take a response if it is again and again at its select with no
control frame queued (strong fairness of `TakeBulk`), and `ServedUnlessFlooded`
is conditional on the control channel running empty again and again. Without the
condition `Served` does not hold: control frames that arrive faster than they
are written starve the responses. The configuration is a local
file and every request to the metadata service has a timeout (`metadata_client`),
so the start goes on: weak fairness of `Startup`. In `Process` main and every
worker go on (weak fairness), time passes (weak fairness of `Advance`, which is
disabled while something is ready), and a session that has heard the shutdown
again and again ends (strong fairness: the random select picks it). Nothing is assumed of the server, the
heartbeat or the network.

## Where the code and its documentation differ

- `README.md:22` and the comment at `src/worker.rs:189` say that reading
  never waits for a network write. The reader awaits `bulk.send` itself, so when
  the bulk channel is full it waits for the upload in progress, and meanwhile
  reads no heartbeat, no ready message and no close frame (`connection_reading`).
- `README.md:135` says the client sends a close frame when it ends a
  connection itself. `finish` gives the writer one second; a writer in the middle
  of an upload that takes longer is aborted with the close frame still queued, and
  the connection ends without it, which the README attributes to the network path
  (`connection_farewell`).
- `README.md:133` says that the connection is closed after 45 seconds without
  any frame from the server. The heartbeat arm looks at when a frame was last
  read. A reader that was blocked behind an upload (up to 45 seconds, as long as
  the timeout) finds both arms ready and may take the heartbeat first: it closes
  a connection on which frames have arrived every 15 seconds
  (`session_clock_blocked`). By `OnlyAWaitCanDeceive` this takes a wait of more than
  30 seconds.

## What is proved

About a connection, for every set of requests, every protocol and every capacity, from the named
assumptions in `ConnectionState` (capacities are positive, the null uid is no
request):

- `TypeCorrect`: every variable keeps its type and every channel its capacity.
  The invariant is inductive because a response is in the writer's hand exactly
  when the writer sends one; pushes by waiting senders need that only the first
  `BulkCap - Len(bulk)` of them hold a permit.
- `OneScrapeAtATime`: `OneScrape` is inductive given the types.
- `RegisterIsFirst`: strengthened to `RegisterInv`, which says that the register
  message is the only one of its kind and at the head, so that taking it leaves
  none; the bias of the writer keeps every response behind it.
- `NothingIsLeftBehind`: strengthened to `StoppedInv`, which ties each stage of
  `finish` to what has stopped by then and says that what has stopped holds
  nothing.
- `WriterIsJoinedOnce` (`JoinedOnce`): `JoinInv` says that the stages in which
  `finish` awaits the writer are entered only by a session that has not joined it.
- `NobodyOvertakes` (`NoOvertaking`): measured by the free places and the senders in
  front, no step (`StepsAdvance`) moves a waiting sender back: a push of another
  takes a place and one from the front, a sender that finds the channel full goes
  to the end, one that leaves only moves others forward. The lemma `BlockedHolds`,
  that the senders in the queue are those that are blocked, once each, says which
  element is the same before and after.
- `EachIsHeldOnce` (`NoRequestLost`): counting is done in seven places, by flags
  where at most one element can be (the task, its report, a POST, the frame being
  sent) and by cardinalities for the queues. `AmountInv` adds what the property
  leaves out, that a settled request is held nowhere even when reader or writer
  have stopped, without which an answer could come back. `Moves` says what a step
  may do to one request: keep it, lose it when the connection no longer works,
  settle it, or put it in one place; every action is shown to do one of the four.
- `ResponsesAreBounded` (`Backpressure`): the requests held are covered by the sets
  of those in each place (`HeldSomewhere`), whose sizes the types bound. `HandInv`
  adds the limit of the actor: it takes an answer only while it is at its select
  with a POST slot free, and blocks only with the answer of a POST that ended; on
  wire v2 it has nothing to do.
- `AnswersAgree` (`CopiesAgree`), from three invariants on top of `AmountInv`.
  `PostInv`: a request is posted once, because its POST starts from a place
  (`Pending`) that no request returns to. `FrameInv`: a request whose answer was
  written is held nowhere from then on, even if the writer failed and the client
  does not know that the frame arrived. `AgreeInv`: what the client holds for a
  request that was posted is the posted response or an encoding of it.
- `ImplementsDelivery` (`Delivers`): the same invariants and `NoOrphans` make every
  step one of `Delivery`'s or a stutter. That a response in hand is owed comes from
  `AmountInv`, that a POST or a frame arrives only once from `PostInv` and
  `FrameInv`, that nothing is settled after the end from `NoOrphans`.
- `FarewellOvertakes` (`FarewellFirst`): while the reader waits for the flush, the
  farewell is in the control channel or in the writer's hand, or the writer has
  stopped; in none of these does its biased select reach the bulk channel.

About the memory budget, for any number of requests and all sizes
(`MemoryBudgetProofs`):

- `BudgetTypeCorrect`, `BudgetIsAccounted`, `ShrinkNeverPanics` and
  `MemoryIsCovered` follow from one inductive invariant: the types, the counter as
  the cardinality of the set of reserved bytes, and per phase the shape of what a
  job owns (in which phases the reservation may be short of the memory, and by
  how much at most). Without the shape the bound of `shrink_to` is not inductive.
- `MemoryIsCounted` (`MemoryCounted`): the bytes of memory that no reservation covers
  are numbered, per job, from one to `Slack`, and only a job that has not checked
  its allocation has any. It made the shape of a growing body stricter: its length
  is within its reservation.
- `LossNeedsAnotherJob` (`LostOnlyWhenShared`) assumes that a uid with the
  longest empty answer fits the budget and a message.

About the heartbeat, for all intervals (`SessionClockProofs`):

- `DeadServerIsNoticed`: `SilenceInv` ties the silence to the tick that is due and
  to what the reader has waited, in every mode of the reader; `WaitInv` bounds that
  by two waits, since the worker is idle after the second until it reads a frame.
- `OnlyAWaitCanDeceive` (`OnlyAWaitDeceives`): with a live server the reader is behind
  by the gap between two frames and what it has waited, and by the gap alone when
  it has read everything.

About the delays, for every count of failures and every length
(`ProcessProofs`): `DelayBounds`, `DelayGrows`, `TimeoutBounds`.

About the start, for every configuration, service and path (`StartupProofs`):

- `UrlsAgree` (`EndpointsAgree`): parsing the WebSocket URL again gives the same
  target. The lemmas on trimming say that the last segment that is not empty is
  well defined, and that appending a slash and trimming it undo each other.
- `ClientIsIdentified` (`Identified`): the invariant follows the instance from
  the file or the service to the validation, stage by stage.
- `MetadataFallsBack` (`FallsBack`): the invariant says that a service of version
  2 is asked without a token only after the token was lost or refused.

About the process, for any number of workers (`ProcessProofs`): `NoneIsLeft`;
`WorkersStopPromptly` (`StopsPromptly`), for any times: its
invariant charges the time since the cancel to the connect or farewell that a
worker was in, since after the cancel no worker starts another;
`ForcedOnlyByAStall`, which follows when a connect and a farewell take less than
the deadline (10 + 1 < 15 in the code); and `ReconnectsArePaced`
(`Paced`), which assumes only that the history is long enough. Its invariant says
that what a sleeping worker has waited and has left covers the row, and that the
row is what the worker counts; it rests on `LeastWaitGrows`, which shows the
recursive function `LeastWait` well defined by exhibiting its table.

Every invariant, action property and refinement of the passing runs is a
theorem. Only model-checked are the liveness properties: `ShutdownCompletes`,
`ReaderResumes`, `ServedUnlessFlooded`, `Settles` and `ExitsOnSignal`, since
liveness under fairness and ENABLED are out of the prover's reach, and the three
disagreements above, which are counterexamples. What is proved is about the
models: that the bounds of the runs do not matter. That the models are the code
is argued in the comments, in the map of PROJECT.json and above.

## Plan

The core is done: a connection, the memory budget, the heartbeat, the start, the
process, each with its safety properties proved. Left, in order: a scrape task
that panics (the reader then waits for a completion that never comes, and answers
busy until the connection ends); the headers of the requests to the server with
the Cloudflare keys.

## Not modelled

- The command line, log filters and error reporting change no state of the
  program. TLS, the WebSocket protocol below messages, and HTTP are libraries,
  modelled by how the code uses them.
- The length prechecks of `protocol.rs` add up the encoded length byte by byte;
  what they return is left to `MemoryBudget` as any length within the bounds of
  the encodings. That they return the exact length is a sum over all bytes of a
  string, which the repository's own test checks for every ASCII byte.
- The headers of the requests to the server (`build_ws_request`, the Cloudflare
  keys) depend on the configuration only.
- `README.md:81` says that `ec2` uses IMDSv2 with a fallback to IMDSv1. The
  fallback covers what the service refuses and a request for a token that fails.
  A token answer whose bytes no header can hold ends the start instead
  (`TokenUnusable`, from the `?` at `src/config.rs:95`), and so does an answer to
  the request for the instance that is lost; no service that speaks either
  version answers like the former, so it is noted here and excused in
  `Unavoidable` rather than listed as a finding.
- A path with an empty segment before "ws" ("/a//ws") is the endpoint as it is,
  while the base of the response URLs loses the empty segment: `EndpointsAgree`
  says that the endpoint is under the base for `Regular` paths only.
