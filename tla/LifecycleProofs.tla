-------------------------- MODULE LifecycleProofs --------------------------
(***************************************************************************)
(* Proofs about Lifecycle, for any jobs, any number of signals and any     *)
(* timeout.                                                                *)
(***************************************************************************)
EXTENDS Lifecycle, TLAPS

LEMMA InitTypeOK == Init => TypeOK
<1> SUFFICES ASSUME Init PROVE TypeOK
  OBVIOUS
<1>1. {terminated, closing, failed} \subseteq BOOLEAN
  BY DEF Init
<1>2. signals \in 0..MaxSignals /\ timer \in [Shutdown -> 0..QuitTimeout]
  BY LifecycleAssumption DEF Init
<1>3. /\ awaited \in LoopAwaited
      /\ phase \in {"create", "listen", "up"}
      /\ exit \in {"none", "killed", "aborted", "orderly"}
      /\ pc \in [Shutdown -> {"idle", "serverClose", "appClose", "drain", "quit"}]
      /\ job \in [Job -> {"waiting", "active", "done", "cut"}]
  BY DEF Init
<1> QED
  BY <1>1, <1>2, <1>3 DEF TypeOK

LEMMA NextTypeOK == TypeOK /\ [Next]_vars => TypeOK'
<1> SUFFICES ASSUME TypeOK, [Next]_vars PROVE TypeOK'
  OBVIOUS
<1> USE LifecycleAssumption DEF TypeOK, Shutdown
<1>1. CASE CreateMicroservice \/ Listening
  BY <1>1 DEF CreateMicroservice, Listening
<1>2. CASE BootFails
  BY <1>2 DEF BootFails, Exit
<1>3. CASE Signal
  <2>1. signals' \in 0..MaxSignals
    BY <1>3 DEF Signal
  <2>2. pc' \in [Shutdown -> {"idle", "serverClose", "appClose", "drain", "quit"}]
    BY <1>3 DEF Signal
  <2>3. /\ exit' \in {"none", "killed", "aborted", "orderly"}
        /\ job' \in [Job -> {"waiting", "active", "done", "cut"}]
    BY <1>3 DEF Signal, Exit
  <2>4. UNCHANGED <<awaited, phase, timer, terminated, closing, failed>>
    BY <1>3 DEF Signal
  <2> QED
    BY <2>1, <2>2, <2>3, <2>4
<1>4. CASE Tick
  BY <1>4 DEF Tick
<1>5. ASSUME NEW j \in Job, Take(j) \/ Done(j) PROVE TypeOK'
  BY <1>5 DEF Take, Done
<1>6. ASSUME NEW n \in Shutdown, ServerClosed(n) PROVE TypeOK'
  BY <1>6 DEF ServerClosed, AfterServer
<1>7. ASSUME NEW n \in Shutdown, CloseWorkers(n) \/ AppClosed(n) PROVE TypeOK'
  BY <1>7 DEF CloseWorkers, AppClosed
<1>8. ASSUME NEW n \in Shutdown, CloseFails(n) \/ QuitSettles(n) \/ QuitTimesOut(n)
      PROVE  TypeOK'
  BY <1>8 DEF CloseFails, QuitSettles, QuitTimesOut, Exit
<1>9. CASE UNCHANGED vars
  BY <1>9 DEF vars
<1> QED
  BY <1>1, <1>2, <1>3, <1>4, <1>5, <1>6, <1>7, <1>8, <1>9 DEF Next, ShutdownStep

----------------------------------------------------------------------------
(* While the process runs: one run of gracefulShutdown per signal, none    *)
(* before the handlers are set up; nothing is cut off yet.                 *)
Alive ==
  Running =>
    /\ \A n \in Shutdown : n > signals => pc[n] = "idle"
    /\ phase # "up" => signals = 0
    /\ \A j \in Job : job[j] # "cut"

(* The only run of gracefulShutdown closes the workers, and waits for the  *)
(* jobs at work, before it quits: it is the one that closes the            *)
(* application.                                                            *)
FirstWaits ==
  Running /\ signals = 1 =>
    /\ pc[1] = "serverClose" => ~terminated
    /\ pc[1] \in {"drain", "quit"} => closing
    /\ pc[1] = "quit" => \A j \in Job : job[j] # "active"

(* Nobody closes the server before there is a signal.                      *)
NoneCloses == Running /\ signals = 0 => ~terminated

CutInv == Alive /\ NoneCloses /\ FirstWaits /\ CutForCause

LEMMA InitCutInv == Init => CutInv
BY DEF Init, CutInv, Alive, NoneCloses, FirstWaits, CutForCause, Running, Shutdown

(* What keeps the process running and leaves the jobs, or takes and ends   *)
(* them.                                                                   *)
LEMMA BootKeepsCutInv ==
  ASSUME TypeOK, CutInv, CreateMicroservice \/ Listening \/ Tick
  PROVE  CutInv'
BY DEF CreateMicroservice, Listening, Tick, CutInv, Alive, NoneCloses, FirstWaits,
   CutForCause, Running

LEMMA JobKeepsCutInv ==
  ASSUME TypeOK, CutInv, NEW j \in Job, Take(j) \/ Done(j)
  PROVE  CutInv'
<1>1. \A i \in Job :
        /\ job'[i] = "active" => job[i] = "active" \/ ~closing
        /\ job'[i] = "cut" => job[i] = "cut"
  BY DEF Take, Done, TypeOK
<1>2. UNCHANGED <<phase, exit, signals, pc, terminated, closing, failed>>
  BY DEF Take, Done
<1> QED
  BY <1>1, <1>2 DEF CutInv, Alive, NoneCloses, FirstWaits, CutForCause, Running

LEMMA SignalKeepsCutInv ==
  ASSUME TypeOK, CutInv, Signal
  PROVE  CutInv'
<1>1. Running /\ signals \in Nat /\ signals + 1 \in Shutdown /\ signals' = signals + 1
  BY LifecycleAssumption DEF Signal, TypeOK, Shutdown
<1>2. CASE phase = "up"
  <2>1. /\ pc' = [pc EXCEPT ![signals + 1] = "serverClose"]
        /\ UNCHANGED <<phase, exit, terminated, closing, job, failed>>
    BY <1>2 DEF Signal
  <2>2. Alive'
    <3>1. \A n \in Shutdown : n \in Int
      BY DEF Shutdown
    <3> QED
      BY <1>1, <1>2, <2>1, <3>1 DEF CutInv, Alive, Running, TypeOK
  <2>3. FirstWaits'
    <3> SUFFICES ASSUME signals = 0
                 PROVE  pc'[1] = "serverClose" /\ ~terminated
      BY <1>1, <2>1 DEF FirstWaits
    <3> QED
      BY <1>1, <2>1 DEF CutInv, NoneCloses, TypeOK
  <2> QED
    BY <1>1, <2>1, <2>2, <2>3 DEF CutInv, NoneCloses, CutForCause, Alive
<1>3. CASE phase # "up"
  BY <1>1, <1>3 DEF Signal, Exit, CutInv, Alive, NoneCloses, FirstWaits,
     CutForCause, Running
<1> QED
  BY <1>2, <1>3

LEMMA ShutdownKeepsCutInv ==
  ASSUME TypeOK, CutInv, NEW n \in Shutdown,
         ServerClosed(n) \/ CloseWorkers(n) \/ AppClosed(n)
  PROVE  CutInv'
<1>1. /\ Running /\ pc[n] # "idle" /\ n \in Int /\ signals \in Nat
      /\ UNCHANGED <<phase, exit, signals, job, failed>>
  BY DEF ServerClosed, CloseWorkers, AppClosed, Shutdown, TypeOK
<1>2. n >= 1 /\ n <= signals /\ \A m \in Shutdown : m \in Int
  BY <1>1 DEF CutInv, Alive, Shutdown
<1>3. Alive'
  BY <1>1, <1>2 DEF CutInv, Alive, Running, ServerClosed, CloseWorkers, AppClosed,
     TypeOK
<1>4. FirstWaits'
  <2> SUFFICES ASSUME signals = 1
               PROVE  /\ pc'[1] = "serverClose" => ~terminated'
                      /\ pc'[1] \in {"drain", "quit"} => closing'
                      /\ pc'[1] = "quit" => \A j \in Job : job[j] # "active"
    BY <1>1 DEF FirstWaits
  <2>1. n = 1
    BY <1>1, <1>2
  <2>2. CASE ServerClosed(n)
    BY <2>1, <2>2 DEF ServerClosed, AfterServer, CutInv, FirstWaits, TypeOK
  <2>3. CASE CloseWorkers(n) \/ AppClosed(n)
    BY <2>1, <2>3 DEF CloseWorkers, AppClosed, CutInv, FirstWaits, TypeOK
  <2> QED
    BY <2>2, <2>3
<1> QED
  BY <1>1, <1>2, <1>3, <1>4 DEF CutInv, NoneCloses, CutForCause

(* An end of the process cuts off what is active.                          *)
LEMMA EndKeepsCutInv ==
  ASSUME TypeOK, CutInv, NEW n \in Shutdown,
         BootFails \/ CloseFails(n) \/ QuitSettles(n) \/ QuitTimesOut(n)
  PROVE  CutInv'
<1>1. exit' # "none" /\ ~Running'
  BY DEF BootFails, CloseFails, QuitSettles, QuitTimesOut, Exit, Running
<1>2. CutForCause'
  <2>1. CASE BootFails
    BY <2>1 DEF BootFails, Exit, CutForCause
  <2>2. CASE CloseFails(n)
    BY <2>2 DEF CloseFails, CutForCause
  <2>3. CASE QuitSettles(n) \/ QuitTimesOut(n)
    <3>1. /\ Running /\ pc[n] = "quit" /\ signals \in Nat /\ n \in Int /\ n >= 1
          /\ UNCHANGED signals
          /\ job' = [j \in Job |-> IF job[j] = "active" THEN "cut" ELSE job[j]]
      BY <2>3 DEF QuitSettles, QuitTimesOut, Exit, TypeOK, Shutdown
    <3>2. n <= signals
      BY <3>1 DEF CutInv, Alive
    <3>3. CASE signals = 1
      <4>1. n = 1
        BY <3>1, <3>2, <3>3
      <4>2. \A j \in Job : job'[j] # "cut"
        BY <3>1, <3>3, <4>1 DEF CutInv, FirstWaits, Alive
      <4> QED
        BY <4>2 DEF CutForCause
    <3>4. CASE signals > 1
      BY <3>1, <3>4 DEF CutForCause
    <3> QED
      BY <3>1, <3>2, <3>3, <3>4
  <2> QED
    BY <2>1, <2>2, <2>3
<1> QED
  BY <1>1, <1>2 DEF CutInv, Alive, NoneCloses, FirstWaits

LEMMA NextCutInv == TypeOK /\ CutInv /\ [Next]_vars => CutInv'
<1> SUFFICES ASSUME TypeOK, CutInv, [Next]_vars PROVE CutInv'
  OBVIOUS
<1>1. CASE UNCHANGED vars
  BY <1>1 DEF vars, CutInv, Alive, NoneCloses, FirstWaits, CutForCause, Running
<1>2. CASE BootFails
  BY <1>2 DEF BootFails, Exit, CutInv, Alive, NoneCloses, FirstWaits,
     CutForCause, Running
<1> QED
  BY <1>1, <1>2, BootKeepsCutInv, JobKeepsCutInv, SignalKeepsCutInv,
     ShutdownKeepsCutInv, EndKeepsCutInv DEF Next, ShutdownStep

(* The types hold.                                                         *)
THEOREM LifecycleTypes == Spec => []TypeOK
<1>1. QED
  BY InitTypeOK, NextTypeOK, PTL DEF Spec

(* A job is cut off for one of four causes only, however many jobs run and *)
(* signals come: one run of gracefulShutdown by itself waits for them      *)
(* (main.ts gracefulShutdown).                                             *)
THEOREM JobsAreCutForCause == Spec => []CutForCause
<1>1. Init => TypeOK /\ CutInv
  BY InitTypeOK, InitCutInv
<1>2. TypeOK /\ CutInv /\ [Next]_vars => (TypeOK /\ CutInv)'
  BY NextTypeOK, NextCutInv
<1>3. CutInv => CutForCause
  BY DEF CutInv
<1> QED
  BY <1>1, <1>2, <1>3, PTL DEF Spec
============================================================================
