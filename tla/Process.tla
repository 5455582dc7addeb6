------------------------------- MODULE Process -------------------------------
(***************************************************************************)
(* The process: main of src/main.rs and the workers that it starts         *)
(* (run_worker in src/worker.rs), with clocks. A worker connects, runs a   *)
(* connection, waits and connects again until the process is told to stop; *)
(* main then waits for the workers, for no longer than the deadline.       *)
(* Connection models what a connection does in between, and Startup what   *)
(* happens before there are workers. Whatever is ready happens before time *)
(* passes.                                                                 *)
(***************************************************************************)
EXTENDS Backoff

CONSTANTS
    Parallel,       \* cli.parallel: the workers are 1..Parallel
    ConnectTimeout, \* CONNECT_TIMEOUT
    Stable,         \* STABLE_CONNECTION
    CloseTimeout,   \* Timing.close_timeout
    MaxBlocked,     \* the longest wait of the reader for the bulk channel
    Deadline,       \* how long main waits for its workers
    LongestRow,     \* the bound of the history variables
    Configurations, Services, Ids, LongInstances, LongResources \* of Startup

ASSUME ProcessAssumption ==
    /\ {Parallel, ConnectTimeout, Stable, CloseTimeout, Deadline, LongestRow} \subseteq Nat
    /\ MaxBlocked \in Nat \ {0}

Workers == 1..Parallel

VARIABLES
    stage, config, instance, token, service, trouble, \* the start
    main,      \* where main is
    signal,    \* SIGINT or SIGTERM has been received since they are handled
    cancelled, \* the CancellationToken
    left,      \* the time left until the deadline
    joined,    \* how many workers main has waited for
    pc,        \* per worker, where run_worker is
    age,       \* per worker, started.elapsed(), up to Stable
    timer,     \* per worker, the time it has spent at pc, or has left there
    failures,  \* per worker, quick_failures, up to MaxFailures
    stalled,   \* history: the workers blocked in bulk.send after the cancel
    row,       \* history: the connections since the last stable one
    waited     \* history: the time waited between them

startVars == <<stage, config, instance, token, service, trouble>>
mainVars == <<main, signal, cancelled, left, joined>>
historyVars == <<stalled, row, waited>>
vars == <<startVars, mainVars, pc, age, timer, failures, historyVars>>

Loading == INSTANCE Startup

Init ==
    /\ Loading!Init
    /\ main = "loading"
    /\ signal = FALSE
    /\ cancelled = FALSE
    /\ left = Deadline
    /\ joined = 0
    /\ pc = [w \in Workers |-> "unborn"]
    /\ age = [w \in Workers |-> 0]
    /\ timer = [w \in Workers |-> 0]
    /\ failures = [w \in Workers |-> 0]
    /\ stalled = {}
    /\ row = [w \in Workers |-> 0]
    /\ waited = [w \in Workers |-> 0]

-----------------------------------------------------------------------------
(* In run_connection.                                                      *)
Connected == {"connecting", "session", "queueing", "finishing"}
Places == {"unborn", "loop", "sleeping", "stopped"} \cup Connected

Exited == main \in {"failed", "graceful", "forced"}

(* A signal arrives. Its stream exists before anything else is done, so a  *)
(* signal during the start is kept; SIGHUP is logged and changes nothing.  *)
Signal ==
    /\ ~Exited
    /\ signal' = TRUE
    /\ UNCHANGED <<startVars, main, cancelled, left, joined, pc, age, timer, failures, historyVars>>

(* Config::load and Target::parse.                                         *)
LoadStep ==
    /\ main = "loading"
    /\ Loading!Next
    /\ UNCHANGED <<mainVars, pc, age, timer, failures, historyVars>>

\* Mutant: the handlers are installed once the configuration is loaded.
StartForgetsSignal ==
    /\ main = "loading"
    /\ signal' = FALSE
    /\ \/ /\ stage = "ready"
          /\ main' = "running"
          /\ pc' = [w \in Workers |-> "loop"]
       \/ /\ stage \in {"ready", "failed"}
          /\ main' = "failed"
          /\ UNCHANGED pc
    /\ UNCHANGED <<startVars, cancelled, left, joined, age, timer, failures, historyVars>>

(* The workers are spawned. main fails if the start did, or if the client  *)
(* for the POSTs cannot be built.                                          *)
Start ==
    /\ main = "loading"
    /\ \/ /\ stage = "ready"
          /\ main' = "running"
          /\ pc' = [w \in Workers |-> "loop"]
       \/ /\ stage \in {"ready", "failed"}
          /\ main' = "failed"
          /\ UNCHANGED pc
    /\ UNCHANGED <<startVars, signal, cancelled, left, joined, age, timer, failures, historyVars>>

(* main cancels the token and starts to wait for the workers in turn.      *)
Cancel ==
    /\ main = "running"
    /\ signal
    /\ main' = "joining"
    /\ cancelled' = TRUE
    /\ left' = Deadline
    /\ stalled' = {w \in Workers : pc[w] = "queueing"}
    /\ UNCHANGED <<startVars, signal, joined, pc, age, timer, failures, row, waited>>

(* The next worker has stopped, before the deadline or just at it.         *)
Join ==
    /\ main = "joining"
    /\ joined < Parallel
    /\ pc[joined + 1] = "stopped"
    /\ joined' = joined + 1
    /\ UNCHANGED <<startVars, main, signal, cancelled, left, pc, age, timer, failures, historyVars>>

\* Mutant: one worker that has stopped stands for all of them.
ExitAfterFirst ==
    /\ main = "joining"
    /\ \/ joined >= 1 /\ main' = "graceful"
       \/ joined < Parallel /\ pc[joined + 1] # "stopped" /\ left = 0 /\ main' = "forced"
    /\ UNCHANGED <<startVars, signal, cancelled, left, joined, pc, age, timer, failures,
                   historyVars>>

(* All workers have stopped, or the deadline is reached.                   *)
Exit ==
    /\ main = "joining"
    /\ \/ joined = Parallel /\ main' = "graceful"
       \/ joined < Parallel /\ pc[joined + 1] # "stopped" /\ left = 0 /\ main' = "forced"
    /\ UNCHANGED <<startVars, signal, cancelled, left, joined, pc, age, timer, failures,
                   historyVars>>

-----------------------------------------------------------------------------
At(w, p) == ~Exited /\ pc[w] = p
Goto(w, p, t) ==
    /\ pc' = [pc EXCEPT ![w] = p]
    /\ timer' = [timer EXCEPT ![w] = t]

(* The loop of run_worker.                                                 *)
Loop(w) ==
    /\ At(w, "loop")
    /\ Goto(w, IF cancelled THEN "stopped" ELSE "connecting", 0)
    /\ age' = [age EXCEPT ![w] = 0]
    /\ UNCHANGED <<startVars, mainVars, failures, historyVars>>

Count(f, w) == [f EXCEPT ![w] = IF age[w] >= Stable THEN 0 ELSE AtMost(@ + 1, MaxFailures)]

\* Mutant: a connection that was established resets the count.
AfterConnectionEager(w) ==
    /\ failures' = IF pc[w] = "finishing" THEN [failures EXCEPT ![w] = 0] ELSE Count(failures, w)
    /\ row' = Count(row, w)
    /\ waited' = [waited EXCEPT ![w] = IF age[w] >= Stable THEN 0 ELSE @]
    /\ \E delay \in Delays(failures'[w]) : Goto(w, "sleeping", delay)
    /\ age' = [age EXCEPT ![w] = 0]
    /\ UNCHANGED <<startVars, mainVars, stalled>>

(* run_connection returned: a connection that lived long enough resets the *)
(* count of quick failures, and the worker waits for the delay.            *)
AfterConnection(w) ==
    /\ failures' = Count(failures, w)
    /\ row' = Count(row, w)
    /\ waited' = [waited EXCEPT ![w] = IF age[w] >= Stable THEN 0 ELSE @]
    /\ \E delay \in Delays(failures'[w]) : Goto(w, "sleeping", delay)
    /\ age' = [age EXCEPT ![w] = 0]
    /\ UNCHANGED <<startVars, mainVars, stalled>>

ConnectFails(w) == At(w, "connecting") /\ AfterConnection(w)

(* The connection is established and its tasks run.                        *)
Connects(w) ==
    /\ At(w, "connecting")
    /\ Goto(w, "session", 0)
    /\ UNCHANGED <<startVars, mainVars, age, failures, historyVars>>

(* The reader waits for a place in the bulk channel, which takes time to   *)
(* fill, and hears nothing meanwhile.                                      *)
Blocks(w) ==
    /\ At(w, "session")
    /\ timer[w] > 0
    /\ Goto(w, "queueing", 0)
    /\ stalled' = IF cancelled THEN stalled \cup {w} ELSE stalled
    /\ UNCHANGED <<startVars, mainVars, age, failures, row, waited>>

Resumes(w) ==
    /\ At(w, "queueing")
    /\ Goto(w, "session", 1)
    /\ UNCHANGED <<startVars, mainVars, age, failures, historyVars>>

(* Session::run returns: the shutdown, the server, the heartbeat, an error.*)
SessionEnds(w) ==
    /\ pc[w] \in {"session", "queueing"} /\ ~Exited
    /\ Goto(w, "finishing", 0)
    /\ UNCHANGED <<startVars, mainVars, age, failures, historyVars>>

(* Session::finish waits for the farewell at most CloseTimeout.            *)
Finishes(w) == At(w, "finishing") /\ AfterConnection(w)

\* Mutant: the shutdown is noticed only after the delay.
ShutdownNoticedLate(w) == cancelled /\ timer[w] = 0

(* The shutdown ends the wait between two connections.                     *)
ShutdownNoticed(w) == cancelled

Stops(w) ==
    /\ At(w, "sleeping")
    /\ ShutdownNoticed(w)
    /\ Goto(w, "stopped", 0)
    /\ UNCHANGED <<startVars, mainVars, age, failures, historyVars>>

Wakes(w) ==
    /\ At(w, "sleeping")
    /\ timer[w] = 0
    /\ Goto(w, "loop", 0)
    /\ UNCHANGED <<startVars, mainVars, age, failures, historyVars>>

(* How much longer a worker may stay where it is.                          *)
Patience(w) ==
    CASE pc[w] = "connecting" -> ConnectTimeout - timer[w]
      [] pc[w] = "queueing" -> MaxBlocked - timer[w]
      [] pc[w] = "finishing" -> CloseTimeout - timer[w]
      [] pc[w] = "session" -> IF cancelled THEN 0 ELSE 1
      [] pc[w] = "sleeping" -> IF ShutdownNoticed(w) THEN 0 ELSE timer[w]
      [] pc[w] = "loop" -> 0
      [] OTHER -> 1

(* A unit of time passes.                                                  *)
Advance ==
    /\ \/ main = "running" /\ ~signal
       \/ main = "joining" /\ left > 0
    /\ main = "joining" => joined < Parallel /\ pc[joined + 1] # "stopped"
    /\ \A w \in Workers : Patience(w) > 0
    /\ age' = [w \in Workers |->
                  IF pc[w] \in Connected THEN AtMost(age[w] + 1, Stable) ELSE age[w]]
    /\ timer' = [w \in Workers |->
                    CASE pc[w] \in {"connecting", "queueing", "finishing"} -> timer[w] + 1
                      [] pc[w] = "session" -> 1
                      [] pc[w] = "sleeping" -> timer[w] - 1
                      [] OTHER -> timer[w]]
    /\ waited' = [w \in Workers |->
                     IF pc[w] = "sleeping" THEN AtMost(waited[w] + 1, LongestRow)
                                           ELSE waited[w]]
    /\ left' = IF main = "joining" THEN left - 1 ELSE left
    /\ UNCHANGED <<startVars, main, signal, cancelled, joined, pc, failures, stalled, row>>

WorkerStep(w) ==
    \/ Loop(w) \/ ConnectFails(w) \/ Connects(w) \/ Blocks(w) \/ Resumes(w)
    \/ SessionEnds(w) \/ Finishes(w) \/ Stops(w) \/ Wakes(w)

MainStep == LoadStep \/ Start \/ Cancel \/ Join \/ Exit

Next == Signal \/ MainStep \/ (\E w \in Workers : WorkerStep(w)) \/ Advance

Spec == Init /\ [][Next]_vars

(* Every wait but that for a signal is bounded, and the select of a        *)
(* session picks its arm at random, so that a shutdown is picked if it is  *)
(* ready again and again.                                                  *)
Fairness ==
    /\ WF_vars(MainStep)
    /\ WF_vars(Advance)
    /\ \A w \in Workers : WF_vars(WorkerStep(w)) /\ SF_vars(cancelled /\ SessionEnds(w))

FairSpec == Spec /\ Fairness

-----------------------------------------------------------------------------
(* Every variable has its type.                                            *)
TypeOK ==
    /\ main \in {"loading", "running", "joining", "failed", "graceful", "forced"}
    /\ signal \in BOOLEAN
    /\ cancelled \in BOOLEAN
    /\ left \in 0..Deadline
    /\ joined \in 0..Parallel
    /\ pc \in [Workers -> Places]
    /\ age \in [Workers -> 0..Stable]
    /\ timer \in [Workers -> Nat]
    /\ failures \in [Workers -> 0..MaxFailures]
    /\ stalled \subseteq Workers
    /\ row \in [Workers -> 0..MaxFailures]
    /\ waited \in [Workers -> 0..LongestRow]

(* A worker that is told to stop does so within the time of a connect and  *)
(* of a farewell, wherever the signal meets it: it never begins a second   *)
(* connection. Only a reader that is blocked behind an upload may take     *)
(* longer, and delays no other worker.                                     *)
StopsPromptly ==
    main = "joining" =>
        \A w \in Workers \ stalled :
            pc[w] # "stopped" => Deadline - left <= ConnectTimeout + CloseTimeout

(* A shutdown meets its deadline, whatever the workers are doing (a        *)
(* connect is not interrupted), unless a reader is blocked behind an       *)
(* upload: only then does main give its workers up.                        *)
ForcedOnlyWhenStalled == main = "forced" => stalled # {}

(* A graceful exit leaves no worker behind.                                *)
NoneLeft == main = "graceful" => \A w \in Workers : pc[w] = "stopped"

(* The least time that a worker waits in a row of n quick failures.        *)
LeastWait[n \in 0..MaxFailures] == IF n = 0 THEN 0 ELSE LeastWait[n - 1] + Shortest(n)

(* A server that ends every connection at once, or after accepting it, is  *)
(* not hammered: a worker that connects again has waited for the delays of *)
(* all the quick failures since its last stable connection.                *)
Paced == \A w \in Workers : pc[w] = "connecting" => waited[w] >= LeastWait[row[w]]

(* SIGINT or SIGTERM ends the process, received during the start or later. *)
ExitsOnSignal == signal ~> Exited
=============================================================================
