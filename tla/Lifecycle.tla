----------------------------- MODULE Lifecycle -----------------------------
(***************************************************************************)
(* A process of the service from bootstrap() to its exit: the hooks that   *)
(* app.listen waits for, the BullMQ jobs it works on, the signals it gets, *)
(* and one run of gracefulShutdown() per signal, which share the app and   *)
(* end in process.exit.                                                    *)
(***************************************************************************)
EXTENDS Integers

CONSTANTS
  Job,           \* the jobs BullMQ may give this process
  LoopAwaited,   \* does onModuleInit await the drain loop? Shipped: {TRUE}
  MaxSignals,    \* bound: SIGINT and SIGTERM received
  QuitTimeout    \* seconds redisClient.quit() is given: 5

ASSUME LifecycleAssumption ==
  /\ LoopAwaited \subseteq BOOLEAN
  /\ MaxSignals \in Nat
  /\ QuitTimeout \in Nat

Shutdown == 1..MaxSignals

VARIABLES
  awaited,     \* the member of LoopAwaited that is the case
  phase,       \* how far bootstrap() is
  exit,        \* how the process ended
  signals,     \* signals received
  pc,          \* where each run of gracefulShutdown stands
  timer,       \* what is left of its wait for quit()
  terminated,  \* NestMicroservice.isTerminated
  closing,     \* have BullMQ's workers been told to close?
  job,         \* each job as this process sees it
  failed       \* history: has a close thrown?

vars == <<awaited, phase, exit, signals, pc, timer, terminated, closing, job, failed>>

TypeOK ==
  /\ awaited \in LoopAwaited
  /\ phase \in {"create", "listen", "up"}
  /\ exit \in {"none", "killed", "aborted", "orderly"}
  /\ signals \in 0..MaxSignals
  /\ pc \in [Shutdown -> {"idle", "serverClose", "appClose", "drain", "quit"}]
  /\ timer \in [Shutdown -> 0..QuitTimeout]
  /\ {terminated, closing, failed} \subseteq BOOLEAN
  /\ job \in [Job -> {"waiting", "active", "done", "cut"}]

Init ==
  /\ awaited \in LoopAwaited
  /\ phase = "create"
  /\ exit = "none"
  /\ signals = 0
  /\ pc = [n \in Shutdown |-> "idle"]
  /\ timer = [n \in Shutdown |-> QuitTimeout]
  /\ terminated = FALSE
  /\ closing = FALSE
  /\ job = [j \in Job |-> "waiting"]
  /\ failed = FALSE

Running == exit = "none"

(* The process ends; what it was working on is cut off.                    *)
Exit(how) ==
  /\ exit' = how
  /\ job' = [j \in Job |-> IF job[j] = "active" THEN "cut" ELSE job[j]]

----------------------------------------------------------------------------
(* bootstrap().                                                            *)

CreateMicroservice ==
  /\ Running
  /\ phase = "create"
  /\ phase' = "listen"
  /\ UNCHANGED <<awaited, exit, signals, pc, timer, terminated, closing, job, failed>>

(* app.listen runs every onModuleInit first.  DlqConsumer's is a loop      *)
(* without end, so that the handlers are never set up where it is awaited. *)
Listening ==
  /\ Running
  /\ phase = "listen"
  /\ ~awaited
  /\ phase' = "up"
  /\ UNCHANGED <<awaited, exit, signals, pc, timer, terminated, closing, job, failed>>

(* createMicroservice or listen throws: process.exit(1).                   *)
BootFails ==
  /\ Running
  /\ phase \in {"create", "listen"}
  /\ Exit("aborted")
  /\ UNCHANGED <<awaited, phase, signals, pc, timer, terminated, closing, failed>>

(* BullMQ's workers start in a hook, before the process listens, and take  *)
(* jobs until they are told to close.                                      *)
Take(j) ==
  /\ Running
  /\ phase # "create"
  /\ ~closing
  /\ job[j] = "waiting"
  /\ job' = [job EXCEPT ![j] = "active"]
  /\ UNCHANGED <<awaited, phase, exit, signals, pc, timer, terminated, closing, failed>>

Done(j) ==
  /\ Running
  /\ job[j] = "active"
  /\ job' = [job EXCEPT ![j] = "done"]
  /\ UNCHANGED <<awaited, phase, exit, signals, pc, timer, terminated, closing, failed>>

----------------------------------------------------------------------------
(* gracefulShutdown().                                                     *)

(* Without a handler a signal ends the process; each one starts a run of   *)
(* gracefulShutdown, which calls app.close.                                *)
Signal ==
  /\ Running
  /\ signals < MaxSignals
  /\ signals' = signals + 1
  /\ IF phase = "up"
     THEN pc' = [pc EXCEPT ![signals + 1] = "serverClose"] /\ UNCHANGED <<exit, job>>
     ELSE Exit("killed") /\ UNCHANGED pc
  /\ UNCHANGED <<awaited, phase, timer, terminated, closing, failed>>

(* app.close throws: disconnect and exit(0) in the same turn.              *)
CloseFails(n) ==
  /\ Running
  /\ pc[n] \in {"serverClose", "appClose", "drain"}
  /\ failed' = TRUE
  /\ Exit("orderly")
  /\ UNCHANGED <<awaited, phase, signals, pc, timer, terminated, closing>>

(* Mutant: app.close is not awaited.                                       *)
AfterServerAtOnce(n) == "quit"

(* NestMicroservice.close does the rest once: another call of it returns   *)
(* when the server is closed, without waiting for the first.               *)
AfterServer(n) == IF terminated THEN "quit" ELSE "appClose"

ServerClosed(n) ==
  /\ Running
  /\ pc[n] = "serverClose"
  /\ pc' = [pc EXCEPT ![n] = AfterServer(n)]
  /\ terminated' = TRUE
  /\ UNCHANGED <<awaited, phase, exit, signals, timer, closing, job, failed>>

(* The shutdown hooks close the workers, which wait for the jobs at work.  *)
CloseWorkers(n) ==
  /\ Running
  /\ pc[n] = "appClose"
  /\ pc' = [pc EXCEPT ![n] = "drain"]
  /\ closing' = TRUE
  /\ UNCHANGED <<awaited, phase, exit, signals, timer, terminated, job, failed>>

AppClosed(n) ==
  /\ Running
  /\ pc[n] = "drain"
  /\ \A j \in Job : job[j] # "active"
  /\ pc' = [pc EXCEPT ![n] = "quit"]
  /\ UNCHANGED <<awaited, phase, exit, signals, timer, terminated, closing, job, failed>>

(* redisClient.quit() settles before the timer, or the timer fires and the *)
(* client is disconnected.                                                 *)
QuitSettles(n) ==
  /\ Running
  /\ pc[n] = "quit"
  /\ timer[n] > 0
  /\ Exit("orderly")
  /\ UNCHANGED <<awaited, phase, signals, pc, timer, terminated, closing, failed>>

TimesOutNever(n) == FALSE    \* mutant: quit() without a race
TimesOut(n) == timer[n] = 0
QuitTimesOut(n) ==
  /\ Running
  /\ pc[n] = "quit"
  /\ TimesOut(n)
  /\ Exit("orderly")
  /\ UNCHANGED <<awaited, phase, signals, pc, timer, terminated, closing, failed>>

Tick ==
  /\ Running
  /\ \E n \in Shutdown : pc[n] = "quit"
  /\ \A n \in Shutdown : pc[n] = "quit" => timer[n] > 0
  /\ timer' = [n \in Shutdown |-> IF pc[n] = "quit" THEN timer[n] - 1 ELSE timer[n]]
  /\ UNCHANGED <<awaited, phase, exit, signals, pc, terminated, closing, job, failed>>

ShutdownStep(n) ==
  ServerClosed(n) \/ CloseWorkers(n) \/ AppClosed(n) \/ QuitTimesOut(n)

Next ==
  \/ CreateMicroservice \/ Listening \/ BootFails \/ Signal \/ Tick
  \/ \E j \in Job : Take(j) \/ Done(j)
  \/ \E n \in Shutdown : ShutdownStep(n) \/ CloseFails(n) \/ QuitSettles(n)

Spec == Init /\ [][Next]_vars

(* Jobs end, closing goes on, time passes.  Redis need not answer quit().  *)
FairSpec ==
  /\ Spec
  /\ WF_vars(Tick)
  /\ \A j \in Job : WF_vars(Done(j))
  /\ \A n \in Shutdown : WF_vars(ShutdownStep(n))

----------------------------------------------------------------------------
(* A job is cut off only in a process that never got to set up its         *)
(* handlers, that failed to close, or that got a second signal, whose run  *)
(* of gracefulShutdown does not wait for the jobs and exits before the     *)
(* first is through (main.ts gracefulShutdown).                            *)
CutForCause ==
  \A j \in Job : job[j] = "cut" =>
    \/ exit = "aborted"
    \/ exit = "killed" /\ phase # "up"
    \/ failed
    \/ signals > 1

(* A process that was told to stop stops, though Redis never answers the   *)
(* quit, by whichever of its runs of gracefulShutdown comes first.         *)
StopsWhenTold == signals > 0 ~> ~Running
============================================================================
