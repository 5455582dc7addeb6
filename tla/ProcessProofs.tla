---------------------------- MODULE ProcessProofs ----------------------------
(***************************************************************************)
(* Theorems about the delays, for all their parameters, and about Process: *)
(* a graceful exit leaves no worker behind, a worker paces its reconnects, *)
(* and a process with time for a connect and a farewell before its         *)
(* deadline is forced to exit only by a reader that is blocked behind an   *)
(* upload.                                                                 *)
(***************************************************************************)
EXTENDS Process, TLAPS

-----------------------------------------------------------------------------
(* The delays and the timeouts, for all their parameters.                  *)
USE DelayAssumption

(* The shift doubles with the exponent, from 1 to 32.                      *)
LEMMA ShiftValues ==
    ASSUME NEW e \in 0..5
    PROVE  /\ Shift(e) \in 1..32
           /\ \A d \in 0..e : Shift(d) <= Shift(e)
           /\ e < 5 => Shift(e + 1) = 2 * Shift(e)
<1>1. e = 0 \/ e = 1 \/ e = 2 \/ e = 3 \/ e = 4 \/ e = 5
  OBVIOUS
<1>2. /\ Shift(0) = 1 /\ Shift(1) = 2 /\ Shift(2) = 4
      /\ Shift(3) = 8 /\ Shift(4) = 16 /\ Shift(5) = 32
  BY DEF Shift
<1>3. \A d \in 0..e : d = 0 \/ d = 1 \/ d = 2 \/ d = 3 \/ d = 4 \/ d = 5
  OBVIOUS
<1> QED
  BY <1>1, <1>2, <1>3

(* The exponent grows with the failures, up to 5.                          *)
LEMMA ExponentValues ==
    ASSUME NEW n \in Nat
    PROVE  /\ Exponent(n) \in 0..5
           /\ Exponent(n) <= Exponent(n + 1)
           /\ n >= MaxFailures => Exponent(n) = 5
BY DEF Exponent, AtMost, MaxFailures

(* The delay before jitter is between the first and the longest.           *)
LEMMA BaseBounds ==
    ASSUME NEW n \in Nat
    PROVE  Base(n) \in ReconnectDelay..MaxReconnectDelay
<1>1. Shift(Exponent(n)) \in 1..32
  BY ExponentValues, ShiftValues
<1>2. \A s \in 1..32 : ReconnectDelay * s >= ReconnectDelay /\ ReconnectDelay * s \in Nat
  <2>1. ASSUME NEW s \in 1..32
        PROVE  ReconnectDelay * s >= ReconnectDelay /\ ReconnectDelay * s \in Nat
    <3>1. ReconnectDelay * s = ReconnectDelay + ReconnectDelay * (s - 1)
      BY <2>1
    <3>2. s - 1 \in Nat
      BY <2>1
    <3>3. ReconnectDelay * (s - 1) \in Nat
      BY <3>2
    <3> QED
      BY <3>1, <3>3
  <2> QED
    BY <2>1
<1> QED
  BY <1>1, <1>2 DEF Base, AtMost

(* The shortest delay is at least half of it, rounded up.                  *)
LEMMA ShortestBounds ==
    ASSUME NEW n \in Nat
    PROVE  Shortest(n) \in 1..Base(n)
<1>1. Base(n) \in Nat \ {0}
  BY BaseBounds
<1> QED
  BY <1>1 DEF Shortest

(* A delay is never zero and never more than the maximum; with jitter it   *)
(* is at least half of what it would be without (reconnect_delay).         *)
THEOREM DelayBounds ==
    ASSUME NEW n \in Nat, NEW delay \in Delays(n)
    PROVE  /\ Base(n) \in ReconnectDelay..MaxReconnectDelay
           /\ delay \in 1..MaxReconnectDelay
           /\ 2 * delay >= Base(n)
<1>1. Base(n) \in ReconnectDelay..MaxReconnectDelay
  BY BaseBounds
<1>2. delay \in ((Base(n) + 1) \div 2)..Base(n)
  BY DEF Delays, Shortest
<1> QED
  BY <1>1, <1>2

(* More failures in a row never make the delay shorter, and at most double *)
(* it; from the sixth failure on it stays the same. Counting further than  *)
(* MaxFailures therefore changes nothing.                                  *)
THEOREM DelayGrows ==
    ASSUME NEW n \in Nat
    PROVE  /\ Base(n) <= Base(n + 1)
           /\ Base(n + 1) <= 2 * Base(n)
           /\ n >= MaxFailures => Base(n) = Base(MaxFailures)
<1> DEFINE e == Exponent(n)
           f == Exponent(n + 1)
<1>1. e \in 0..5 /\ f \in 0..5 /\ (f = e \/ f = e + 1)
  BY DEF Exponent, AtMost
<1>2. Shift(e) \in 1..32 /\ (Shift(f) = Shift(e) \/ Shift(f) = 2 * Shift(e))
  BY <1>1, ShiftValues
<1>3. \A s \in 1..32 : /\ ReconnectDelay * s \in Nat
                       /\ ReconnectDelay * (2 * s) = 2 * (ReconnectDelay * s)
  OBVIOUS
<1>4. Base(n) <= Base(n + 1) /\ Base(n + 1) <= 2 * Base(n)
  <2> HIDE DEF e, f
  <2>1. /\ Base(n) = AtMost(ReconnectDelay * Shift(e), MaxReconnectDelay)
        /\ Base(n + 1) = AtMost(ReconnectDelay * Shift(f), MaxReconnectDelay)
    BY DEF Base, e, f
  <2>2. PICK a \in Nat : a = ReconnectDelay * Shift(e)
    BY <1>2, <1>3
  <2>3. ReconnectDelay * Shift(f) = a \/ ReconnectDelay * Shift(f) = 2 * a
    BY <1>2, <1>3, <2>2
  <2> QED
    BY <2>1, <2>2, <2>3 DEF AtMost
<1>5. n >= MaxFailures => Base(n) = Base(MaxFailures)
  BY ExponentValues DEF Base, MaxFailures
<1> QED
  BY <1>4, <1>5

(* A timeout is at least its base, at most the larger of base and cap, and *)
(* within the cap it leaves the transfer its time (scaled_timeout).        *)
THEOREM TimeoutBounds ==
    ASSUME NEW base \in Nat, NEW length \in Nat, NEW cap \in Nat
    PROVE  LET t == ScaledTimeout(base, length, cap) IN
           /\ base <= t
           /\ t <= cap \/ t = base
           /\ base + Transfer(length) <= cap => t = base + Transfer(length)
<1>1. Transfer(length) \in Nat
  <2>1. length + Throughput - 1 \in Nat
    OBVIOUS
  <2> QED
    BY <2>1 DEF Transfer
<1> QED
  BY <1>1 DEF ScaledTimeout, AtLeast, AtMost

HIDE DelayAssumption

-----------------------------------------------------------------------------
(* The types of the variables that the proofs below are about.             *)
Types ==
    /\ main \in {"loading", "running", "joining", "failed", "graceful", "forced"}
    /\ left \in 0..Deadline
    /\ joined \in 0..Parallel
    /\ pc \in [Workers -> Places]
    /\ timer \in [Workers -> Nat]
    /\ failures \in [Workers -> 0..MaxFailures]

(* main waits for workers only after a signal; those that it has waited    *)
(* for have stopped, and a graceful exit has waited for all of them.       *)
JoinedInv ==
    /\ main \in {"loading", "running"} => joined = 0
    /\ \A w \in Workers : w <= joined => pc[w] = "stopped"
    /\ main = "graceful" => joined = Parallel

(* The token is cancelled when main starts to join, the workers are there  *)
(* from when main waits for a signal, and a reader that is blocked after   *)
(* the cancel is remembered.                                               *)
CancelInv ==
    /\ cancelled => main \in {"joining", "graceful", "forced"}
    /\ main = "joining" => cancelled
    /\ main = "loading" => \A w \in Workers : pc[w] = "unborn"
    /\ main \in {"running", "joining"} => \A w \in Workers : pc[w] # "unborn"
    /\ cancelled => \A w \in Workers : pc[w] = "queueing" => w \in stalled

(* A connect and a farewell take no longer than their timeouts.            *)
TimerInv ==
    \A w \in Workers : /\ pc[w] = "connecting" => timer[w] <= ConnectTimeout
                       /\ pc[w] = "finishing" => timer[w] <= CloseTimeout

(* The time since the cancel is covered by the connect or the farewell     *)
(* that the worker is in, or has left since: no worker starts another.     *)
Punctual(w) ==
    /\ pc[w] = "connecting" => Deadline - left <= timer[w]
    /\ pc[w] = "session" => Deadline - left <= ConnectTimeout
    /\ pc[w] = "finishing" => Deadline - left <= ConnectTimeout + timer[w]
    /\ pc[w] \in {"sleeping", "loop"} => Deadline - left <= ConnectTimeout + CloseTimeout

PunctualInv == main = "joining" => \A w \in Workers \ stalled : Punctual(w)

IInv ==
    /\ Types
    /\ JoinedInv
    /\ CancelInv
    /\ TimerInv
    /\ PunctualInv

(* The times of the process are numbers.                                   *)
LEMMA TimesAreNat ==
    /\ Parallel \in Nat
    /\ ConnectTimeout \in Nat
    /\ CloseTimeout \in Nat
    /\ Deadline \in Nat
BY ProcessAssumption

USE TimesAreNat DEF Workers

(* The delay before the next connection is a number.                       *)
LEMMA DelayIsNat ==
    ASSUME NEW n \in 0..MaxFailures, NEW delay \in Delays(n)
    PROVE  delay \in Nat
<1>1. n \in Nat
  BY DEF MaxFailures
<1>2. delay \in 1..MaxReconnectDelay
  BY <1>1, DelayBounds
<1> QED
  BY <1>2, DelayAssumption

LEMMA InitInv == Init => IInv
<1> SUFFICES ASSUME Init PROVE IInv
  OBVIOUS
<1>1. Types
  BY DEF Init, Types, Places, MaxFailures
<1>2. JoinedInv /\ CancelInv /\ TimerInv /\ PunctualInv
  BY DEF Init, JoinedInv, CancelInv, TimerInv, PunctualInv
<1> QED
  BY <1>1, <1>2 DEF IInv

(* The steps of main, and the signal.                                      *)
LEMMA MainKeeps == IInv /\ (Signal \/ MainStep) => IInv'
<1> SUFFICES ASSUME IInv, Signal \/ MainStep PROVE IInv'
  OBVIOUS
<1> USE DEF IInv, Types, JoinedInv, CancelInv, TimerInv, PunctualInv, Punctual, historyVars
<1>1. CASE Signal
  BY <1>1 DEF Signal
<1>2. CASE Start
  BY <1>2 DEF Start, Places
<1>3. CASE Cancel
  BY <1>3 DEF Cancel, Places, Connected
<1>4. CASE Join
  BY <1>4 DEF Join
<1>5. CASE Exit
  BY <1>5 DEF Exit
<1>6. CASE LoadStep
  BY <1>6 DEF LoadStep, mainVars
<1> QED
  BY <1>1, <1>2, <1>3, <1>4, <1>5, <1>6 DEF MainStep

(* The end of a connection, tried or established.                          *)
LEMMA AfterConnectionKeeps ==
    ASSUME IInv, NEW w \in Workers, ConnectFails(w) \/ Finishes(w)
    PROVE  IInv'
<1> USE DEF IInv
<1>1. /\ pc[w] \in {"connecting", "finishing"}
      /\ AfterConnection(w)
  BY DEF ConnectFails, Finishes, At
<1>2. failures' \in [Workers -> 0..MaxFailures]
  <2>1. failures' = [failures EXCEPT ![w] = IF age[w] >= Stable THEN 0
                                            ELSE AtMost(failures[w] + 1, MaxFailures)]
    BY <1>1 DEF AfterConnection, Count
  <2>2. failures[w] \in 0..6
    BY DEF Types, MaxFailures
  <2>3. AtMost(failures[w] + 1, MaxFailures) \in 0..MaxFailures
    <3> HIDE DEF IInv
    <3> QED
      BY <2>2 DEF AtMost, MaxFailures
  <2> QED
    BY <2>1, <2>3 DEF Types, MaxFailures
<1>3. PICK delay \in Delays(failures'[w]) : Goto(w, "sleeping", delay)
  BY <1>1 DEF AfterConnection
<1>4. delay \in Nat
  BY <1>2, <1>3, DelayIsNat
<1>5. UNCHANGED <<main, signal, cancelled, left, joined, stalled>>
  BY <1>1 DEF AfterConnection, mainVars
<1>6. Types'
  BY <1>2, <1>3, <1>4, <1>5 DEF Types, Goto, Places
<1>7. JoinedInv' /\ CancelInv' /\ TimerInv'
  BY <1>1, <1>3, <1>4, <1>5 DEF Types, JoinedInv, CancelInv, TimerInv, Goto
<1>8. PunctualInv'
  BY <1>1, <1>3, <1>4, <1>5 DEF Types, TimerInv, PunctualInv, Punctual, Goto
<1> QED
  BY <1>6, <1>7, <1>8

(* The other steps of a worker.                                            *)
LEMMA WorkerKeeps ==
    ASSUME IInv, NEW w \in Workers, WorkerStep(w)
    PROVE  IInv'
<1> USE DEF IInv, Types, JoinedInv, CancelInv, TimerInv, PunctualInv, Punctual,
            mainVars, historyVars, At, Goto, Places, Connected
<1>1. CASE Loop(w)
  BY <1>1 DEF Loop
<1>2. CASE Connects(w)
  BY <1>2 DEF Connects
<1>3. CASE Blocks(w)
  BY <1>3 DEF Blocks
<1>4. CASE Resumes(w)
  BY <1>4 DEF Resumes
<1>5. CASE SessionEnds(w)
  BY <1>5 DEF SessionEnds, Exited
<1>6. CASE Stops(w)
  BY <1>6 DEF Stops
<1>7. CASE Wakes(w)
  BY <1>7 DEF Wakes
<1>8. CASE ConnectFails(w) \/ Finishes(w)
  BY <1>8, AfterConnectionKeeps
<1> QED
  BY <1>1, <1>2, <1>3, <1>4, <1>5, <1>6, <1>7, <1>8 DEF WorkerStep

(* Time passes only while no worker has something to do: the timers of     *)
(* those that wait advance with it.                                        *)
LEMMA AdvanceKeeps == IInv /\ Advance => IInv'
<1> SUFFICES ASSUME IInv, Advance PROVE IInv'
  OBVIOUS
<1> USE DEF IInv
<1>1. \A w \in Workers :
        /\ pc[w] = "connecting" => timer[w] < ConnectTimeout
        /\ pc[w] = "finishing" => timer[w] < CloseTimeout
        /\ pc[w] = "sleeping" => timer[w] > 0
        /\ cancelled => pc[w] \notin {"session", "sleeping", "loop"}
  BY DEF Advance, Patience, Types, ShutdownNoticed
<1>2. \A w \in Workers :
        timer'[w] = CASE pc[w] \in {"connecting", "queueing", "finishing"} -> timer[w] + 1
                      [] pc[w] = "session" -> 1
                      [] pc[w] = "sleeping" -> timer[w] - 1
                      [] OTHER -> timer[w]
  BY DEF Advance
<1>3. UNCHANGED <<main, cancelled, joined, pc, failures, stalled>>
  BY DEF Advance
<1>4. /\ main = "joining" => left' = left - 1 /\ left > 0
      /\ main # "joining" => left' = left
  BY DEF Advance
<1>5. timer' \in [Workers -> Nat]
  <2>1. \A w \in Workers : timer'[w] \in Nat
    BY <1>1, <1>2 DEF Types
  <2> QED
    BY <2>1 DEF Advance
<1>6. Types'
  BY <1>3, <1>4, <1>5 DEF Types
<1>7. JoinedInv' /\ CancelInv'
  BY <1>3 DEF JoinedInv, CancelInv
<1>8. TimerInv'
  BY <1>1, <1>2, <1>3 DEF TimerInv, Types
<1>9. PunctualInv'
  BY <1>1, <1>2, <1>3, <1>4 DEF PunctualInv, Punctual, CancelInv, Types
<1> QED
  BY <1>6, <1>7, <1>8, <1>9

LEMMA StutterKeeps == IInv /\ UNCHANGED vars => IInv'
BY DEF IInv, Types, JoinedInv, CancelInv, TimerInv, PunctualInv, Punctual,
       vars, mainVars, historyVars

LEMMA InvHolds == Spec => []IInv
<1>1. IInv /\ [Next]_vars => IInv'
  BY MainKeeps, WorkerKeeps, AdvanceKeeps, StutterKeeps DEF Next
<1> QED
  BY InitInv, <1>1, PTL DEF Spec

(* A graceful exit leaves no worker behind: main reaches it only after it  *)
(* has waited for each of them, and a worker that has stopped stays so     *)
(* (the loop of main over its workers).                                    *)
THEOREM NoneIsLeft == Spec => []NoneLeft
<1>1. IInv => NoneLeft
  BY DEF IInv, Types, JoinedInv, NoneLeft
<1> QED
  BY InvHolds, <1>1, PTL

LEMMA InvStopsPromptly == IInv => StopsPromptly
<1> SUFFICES ASSUME IInv, main = "joining", NEW w \in Workers \ stalled, pc[w] # "stopped"
             PROVE  Deadline - left <= ConnectTimeout + CloseTimeout
  BY DEF StopsPromptly
<1>1. Punctual(w) /\ pc[w] \notin {"unborn", "queueing"}
  BY DEF IInv, PunctualInv, CancelInv
<1>2. /\ pc[w] \in Places /\ timer[w] \in Nat /\ left \in 0..Deadline
      /\ pc[w] = "connecting" => timer[w] <= ConnectTimeout
      /\ pc[w] = "finishing" => timer[w] <= CloseTimeout
  BY DEF IInv, Types, TimerInv
<1> QED
  BY <1>1, <1>2 DEF Punctual, Places, Connected

(* A worker that is told to stop does so within the time of a connect and  *)
(* of a farewell, for any number of workers and whatever the others do,    *)
(* unless its reader is blocked behind an upload (run_worker: the connect  *)
(* is not interrupted, the delay is, and no connection follows).           *)
THEOREM WorkersStopPromptly == Spec => []StopsPromptly
BY InvHolds, InvStopsPromptly, PTL

(* With time for a connect and a farewell before its deadline, main is     *)
(* forced to exit only when a reader was blocked behind an upload: every   *)
(* other worker has stopped by then, for any number of workers and         *)
(* wherever the signal met them (main, run_worker).                        *)
THEOREM ForcedOnlyByAStall ==
    ASSUME ConnectTimeout + CloseTimeout < Deadline
    PROVE  Spec => []ForcedOnlyWhenStalled
<1>1. Init => ForcedOnlyWhenStalled
  BY DEF Init, ForcedOnlyWhenStalled
<1>2. IInv /\ IInv' /\ ForcedOnlyWhenStalled /\ [Next]_vars => ForcedOnlyWhenStalled'
  <2> SUFFICES ASSUME IInv, ForcedOnlyWhenStalled, [Next]_vars, main' = "forced", stalled' = {}
               PROVE  FALSE
    BY DEF ForcedOnlyWhenStalled
  <2>1. CASE Exit
    <3>1. /\ main = "joining"
          /\ joined + 1 \in Workers
          /\ pc[joined + 1] # "stopped"
          /\ left = 0
          /\ stalled = {}
      BY <2>1 DEF Exit, historyVars, IInv, Types
    <3>2. Deadline - left <= ConnectTimeout + CloseTimeout
      BY <3>1, InvStopsPromptly DEF StopsPromptly
    <3> QED
      BY <3>1, <3>2
  <2>2. CASE ~Exit
    <3>1. main = "forced" /\ stalled = {}
      <4>1. CASE UNCHANGED vars
        BY <4>1 DEF vars, mainVars, historyVars
      <4>2. CASE LoadStep \/ Signal \/ Start \/ Cancel \/ Join \/ Advance
        BY <4>2 DEF LoadStep, mainVars, Signal, Start, Cancel, Join, Advance, historyVars
      <4>3. ASSUME NEW w \in Workers, WorkerStep(w) PROVE FALSE
        BY <4>3 DEF WorkerStep, Loop, ConnectFails, Connects, Blocks, Resumes, SessionEnds,
                    Finishes, Stops, Wakes, At, Exited, AfterConnection, mainVars
      <4> QED
        BY <2>2, <4>1, <4>2, <4>3 DEF Next, MainStep
    <3> QED
      BY <3>1 DEF ForcedOnlyWhenStalled
  <2> QED
    BY <2>1, <2>2
<1> QED
  BY InvHolds, <1>1, <1>2, PTL DEF Spec

(* The definition of LeastWait is recursive; a table satisfies it.         *)
LEMMA LeastWaitTable ==
    LeastWait = [n \in 0..MaxFailures |-> IF n = 0 THEN 0 ELSE LeastWait[n - 1] + Shortest(n)]
<1> DEFINE Fits(f) ==
        f = [n \in 0..MaxFailures |-> IF n = 0 THEN 0 ELSE f[n - 1] + Shortest(n)]
    s1 == 0 + Shortest(1)
    s2 == s1 + Shortest(2)
    s3 == s2 + Shortest(3)
    s4 == s3 + Shortest(4)
    s5 == s4 + Shortest(5)
    s6 == s5 + Shortest(6)
    entry(n) == CASE n = 0 -> 0 [] n = 1 -> s1 [] n = 2 -> s2 [] n = 3 -> s3
                  [] n = 4 -> s4 [] n = 5 -> s5 [] n = 6 -> s6
    table == [n \in 0..MaxFailures |-> entry(n)]
<1>1. /\ table[0] = 0 /\ table[1] = s1 /\ table[2] = s2 /\ table[3] = s3
      /\ table[4] = s4 /\ table[5] = s5 /\ table[6] = s6
  BY DEF MaxFailures
<1>2. \A n \in 0..MaxFailures :
        table[n] = IF n = 0 THEN 0 ELSE table[n - 1] + Shortest(n)
  <2>1. \A n \in 0..MaxFailures : n \in {0, 1, 2, 3, 4, 5, 6}
    BY DEF MaxFailures
  <2> HIDE DEF table
  <2> QED
    BY <1>1, <2>1
<1>3. Fits(table)
  <2>1. table = [n \in 0..MaxFailures |-> table[n]]
    <3> HIDE DEF entry
    <3> QED
      OBVIOUS
  <2> HIDE DEF table
  <2>2. table = [n \in 0..MaxFailures |-> IF n = 0 THEN 0 ELSE table[n - 1] + Shortest(n)]
    BY <1>2, <2>1
  <2> QED
    BY <2>2
<1>4. Fits(CHOOSE f : Fits(f))
  <2> HIDE DEF table, Fits
  <2> QED
    BY <1>3
<1> QED
  BY <1>4 DEF LeastWait

(* Each failure in the row adds the shortest delay before its successor.   *)
LEMMA LeastWaitGrows ==
    ASSUME NEW n \in 0..MaxFailures
    PROVE  /\ LeastWait[n] \in Nat
           /\ LeastWait[0] = 0
           /\ n < MaxFailures => LeastWait[n + 1] = LeastWait[n] + Shortest(n + 1)
           /\ LeastWait[n] <= LeastWait[MaxFailures]
<1>1. \A m \in 0..MaxFailures : Shortest(m) \in Nat
  <2> SUFFICES ASSUME NEW m \in 0..MaxFailures PROVE Shortest(m) \in Nat
    OBVIOUS
  <2>1. m \in Nat
    BY DEF MaxFailures
  <2> QED
    BY <2>1, ShortestBounds, BaseBounds, DelayAssumption
<1>2. /\ LeastWait[0] = 0
      /\ \A m \in 0..5 : LeastWait[m + 1] = LeastWait[m] + Shortest(m + 1)
  <2>1. \A m \in 0..MaxFailures :
          LeastWait[m] = IF m = 0 THEN 0 ELSE LeastWait[m - 1] + Shortest(m)
    BY LeastWaitTable
  <2>2. \A m \in 0..5 : m + 1 \in 0..MaxFailures /\ m + 1 # 0 /\ (m + 1) - 1 = m
    BY DEF MaxFailures
  <2>3. 0 \in 0..MaxFailures
    BY DEF MaxFailures
  <2> QED
    BY <2>1, <2>2, <2>3
<1>3. /\ LeastWait[1] = LeastWait[0] + Shortest(1)
      /\ LeastWait[2] = LeastWait[1] + Shortest(2)
      /\ LeastWait[3] = LeastWait[2] + Shortest(3)
      /\ LeastWait[4] = LeastWait[3] + Shortest(4)
      /\ LeastWait[5] = LeastWait[4] + Shortest(5)
      /\ LeastWait[6] = LeastWait[5] + Shortest(6)
  BY <1>2
<1>4. /\ Shortest(1) \in Nat /\ Shortest(2) \in Nat /\ Shortest(3) \in Nat
      /\ Shortest(4) \in Nat /\ Shortest(5) \in Nat /\ Shortest(6) \in Nat
  BY <1>1 DEF MaxFailures
<1>5. n = 0 \/ n = 1 \/ n = 2 \/ n = 3 \/ n = 4 \/ n = 5 \/ n = 6
  BY DEF MaxFailures
<1>6. LeastWait[n] \in Nat /\ LeastWait[n] <= LeastWait[6]
  BY <1>2, <1>3, <1>4, <1>5
<1> QED
  BY <1>2, <1>6 DEF MaxFailures

(* A worker that is not asleep has waited for the whole row, and one that  *)
(* is asleep will have when it wakes; the row is what it counts.           *)
PaceInv ==
    /\ waited \in [Workers -> 0..LongestRow]
    /\ row = failures
    /\ \A w \in Workers :
          /\ pc[w] \in Connected \cup {"unborn", "loop"} => waited[w] >= LeastWait[row[w]]
          /\ pc[w] = "sleeping" => waited[w] + timer[w] >= LeastWait[row[w]]

(* The end of a connection: the delay covers the failure that it counts.   *)
LEMMA AfterConnectionPaces ==
    ASSUME IInv, PaceInv, NEW w \in Workers, ConnectFails(w) \/ Finishes(w)
    PROVE  PaceInv'
<1>1. /\ pc[w] \in {"connecting", "finishing"}
      /\ AfterConnection(w)
  BY DEF ConnectFails, Finishes, At
<1>2. PICK delay \in Delays(failures'[w]) : Goto(w, "sleeping", delay)
  BY <1>1 DEF AfterConnection
<1>3. /\ failures[w] \in 0..MaxFailures
      /\ waited[w] \in 0..LongestRow
      /\ row[w] = failures[w]
      /\ waited[w] >= LeastWait[failures[w]]
      /\ failures \in [Workers -> 0..MaxFailures]
      /\ row = failures
  BY <1>1 DEF IInv, Types, PaceInv, Connected
<1>4. row' = failures'
  BY <1>1, <1>3 DEF AfterConnection, Count
<1>5. \/ failures'[w] = 0 /\ waited'[w] = 0
      \/ failures'[w] = AtMost(failures[w] + 1, MaxFailures) /\ waited'[w] = waited[w]
  BY <1>1, <1>3 DEF AfterConnection, Count, PaceInv
<1>6. /\ waited' \in [Workers -> 0..LongestRow]
      /\ \A v \in Workers \ {w} : /\ waited'[v] = waited[v]
                                  /\ row'[v] = row[v]
                                  /\ pc'[v] = pc[v]
                                  /\ timer'[v] = timer[v]
      /\ pc'[w] = "sleeping"
      /\ timer'[w] = delay
  <2>1. 0 \in 0..LongestRow
    BY ProcessAssumption
  <2> QED
    BY <1>1, <1>2, <1>3, <2>1 DEF AfterConnection, Count, Goto, PaceInv, IInv, Types
<1>7. waited'[w] + delay >= LeastWait[failures'[w]]
  <2>1. CASE failures'[w] = 0 /\ waited'[w] = 0
    <3>1. delay \in Nat
      BY <1>2, <2>1, DelayIsNat DEF MaxFailures
    <3> QED
      BY <2>1, <3>1, LeastWaitGrows, <1>3
  <2>2. CASE failures'[w] = AtMost(failures[w] + 1, MaxFailures) /\ waited'[w] = waited[w]
    <3>1. \/ failures[w] < MaxFailures /\ failures'[w] = failures[w] + 1
          \/ failures[w] = MaxFailures /\ failures'[w] = MaxFailures
      BY <1>3, <2>2 DEF AtMost, MaxFailures
    <3>2. failures'[w] \in 0..MaxFailures
      BY <3>1, <1>3 DEF MaxFailures
    <3>3. delay \in Nat /\ delay >= Shortest(failures'[w])
      <4>1. delay \in Nat
        BY <1>2, <3>2, DelayIsNat
      <4>2. Shortest(failures'[w]) \in Nat
        BY <3>2, ShortestBounds, BaseBounds, DelayAssumption DEF MaxFailures
      <4> QED
        BY <1>2, <4>1, <4>2 DEF Delays
    <3>4. LeastWait[failures[w]] \in Nat /\ waited[w] \in Nat
      BY <1>3, LeastWaitGrows, ProcessAssumption
    <3>5. Shortest(failures'[w]) \in Nat
      BY <3>2, ShortestBounds, BaseBounds, DelayAssumption DEF MaxFailures
    <3>6. failures[w] < MaxFailures =>
            LeastWait[failures[w] + 1] = LeastWait[failures[w]] + Shortest(failures[w] + 1)
      BY <1>3, LeastWaitGrows
    <3> QED
      BY <1>3, <2>2, <3>1, <3>3, <3>4, <3>5, <3>6
  <2> QED
    BY <1>5, <2>1, <2>2
<1> QED
  BY <1>3, <1>4, <1>6, <1>7 DEF PaceInv, Connected

(* Time passes: what is added to the wait is taken from the timer.         *)
LEMMA AdvancePaces ==
    ASSUME IInv, PaceInv, Advance, LeastWait[MaxFailures] <= LongestRow
    PROVE  PaceInv'
<1>1. UNCHANGED <<pc, row, failures>>
  BY DEF Advance
<1>2. waited' = [w \in Workers |-> IF pc[w] = "sleeping" THEN AtMost(waited[w] + 1, LongestRow)
                                                        ELSE waited[w]]
  BY DEF Advance
<1>3. ASSUME NEW w \in Workers
      PROVE  /\ waited'[w] \in 0..LongestRow
             /\ waited'[w] >= waited[w]
             /\ pc[w] = "sleeping" => waited'[w] + timer'[w] >= LeastWait[row[w]]
  <2>1. /\ waited[w] \in 0..LongestRow
        /\ timer[w] \in Nat
        /\ row[w] \in 0..MaxFailures
        /\ pc[w] = "sleeping" => waited[w] + timer[w] >= LeastWait[row[w]]
    BY DEF IInv, Types, PaceInv
  <2>2. pc[w] = "sleeping" => timer[w] > 0 /\ timer'[w] = timer[w] - 1
    BY DEF Advance, Patience, ShutdownNoticed, IInv, Types
  <2>3. LeastWait[row[w]] \in Nat /\ LeastWait[row[w]] <= LongestRow
    <3>1. MaxFailures \in 0..MaxFailures
      BY DEF MaxFailures
    <3>2. LeastWait[MaxFailures] \in Nat
      BY <3>1, LeastWaitGrows
    <3> QED
      BY <2>1, <3>2, LeastWaitGrows, ProcessAssumption
  <2>4. LongestRow \in Nat
    BY ProcessAssumption
  <2>5. CASE pc[w] = "sleeping"
    <3>1. waited'[w] = AtMost(waited[w] + 1, LongestRow)
      BY <1>2, <2>5
    <3> QED
      BY <2>1, <2>2, <2>3, <2>4, <2>5, <3>1 DEF AtMost
  <2>6. CASE pc[w] # "sleeping"
    BY <1>2, <2>1, <2>4, <2>6
  <2> QED
    BY <2>5, <2>6
<1>4. waited' \in [Workers -> 0..LongestRow]
  BY <1>2, <1>3
<1>5. \A w \in Workers : LeastWait[row[w]] \in Nat /\ waited[w] \in Nat /\ waited'[w] \in Nat
  BY <1>3, LeastWaitGrows, ProcessAssumption DEF IInv, Types, PaceInv
<1> QED
  BY <1>1, <1>3, <1>4, <1>5 DEF PaceInv, Connected

(* A worker that connects again has waited for the delays of all the quick *)
(* failures since its last stable connection: no way to end a connection   *)
(* and no signal makes it forget one (run_worker). The history must be     *)
(* long enough to hold the longest row.                                    *)
THEOREM ReconnectsArePaced ==
    ASSUME LeastWait[MaxFailures] <= LongestRow
    PROVE  Spec => []Paced
<1>1. Init => PaceInv
  <2>1. LeastWait[0] = 0
    BY LeastWaitGrows DEF MaxFailures
  <2> QED
    BY <2>1, ProcessAssumption DEF Init, PaceInv, Connected
<1>2. IInv /\ PaceInv /\ [Next]_vars => PaceInv'
  <2> SUFFICES ASSUME IInv, PaceInv, [Next]_vars PROVE PaceInv'
    OBVIOUS
  <2>1. CASE LoadStep \/ Signal \/ Cancel \/ Join \/ Exit \/ UNCHANGED vars
    <3>1. UNCHANGED <<pc, timer, failures, row, waited>>
      BY <2>1 DEF LoadStep, Signal, Cancel, Join, Exit, vars, historyVars
    <3> QED
      BY <3>1 DEF PaceInv
  <2>2. CASE Start
    <3>1. main = "loading" /\ UNCHANGED <<timer, failures, row, waited>>
      BY <2>2 DEF Start, historyVars
    <3>2. UNCHANGED pc \/ \A w \in Workers : pc'[w] = "loop"
      BY <2>2 DEF Start
    <3> QED
      BY <3>1, <3>2 DEF PaceInv, IInv, CancelInv, Connected
  <2>3. ASSUME NEW w \in Workers, WorkerStep(w) PROVE PaceInv'
    <3>1. CASE ConnectFails(w) \/ Finishes(w)
      BY <3>1, AfterConnectionPaces
    <3>2. CASE \/ Loop(w) \/ Connects(w) \/ Blocks(w) \/ Resumes(w)
               \/ SessionEnds(w) \/ Stops(w) \/ Wakes(w)
      <4> USE DEF At, Goto, historyVars, PaceInv, Connected, IInv, Types
      <4>1. CASE Loop(w)
        BY <4>1 DEF Loop
      <4>2. CASE Connects(w) \/ Blocks(w) \/ Resumes(w) \/ SessionEnds(w)
        BY <4>2 DEF Connects, Blocks, Resumes, SessionEnds
      <4>3. CASE Stops(w)
        BY <4>3 DEF Stops
      <4>4. CASE Wakes(w)
        <5>1. \A v \in Workers : waited[v] \in Nat
          BY ProcessAssumption
        <5> QED
          BY <4>4, <5>1 DEF Wakes
      <4> QED
        BY <3>2, <4>1, <4>2, <4>3, <4>4
    <3> QED
      BY <2>3, <3>1, <3>2 DEF WorkerStep
  <2>4. CASE Advance
    BY <2>4, AdvancePaces
  <2> QED
    BY <2>1, <2>2, <2>3, <2>4 DEF Next, MainStep
<1>3. PaceInv => Paced
  BY DEF PaceInv, Paced, Connected
<1> QED
  BY InvHolds, <1>1, <1>2, <1>3, PTL DEF Spec
=============================================================================
