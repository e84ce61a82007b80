------------------------------ MODULE Executor ------------------------------
(***************************************************************************)
(* The cooperative executor of src/asynchronous/executor.rs, the timer     *)
(* futures of src/asynchronous/timer.rs, the timer interrupt that checks   *)
(* them (interrupt.rs, Timer) and the main loop of lib.rs that runs the    *)
(* executor with interrupts disabled and then halts.                        *)
(*                                                                         *)
(* The tasks are those lib.rs spawns: each loops forever over             *)
(* `TimerFuture::new(Duration[t]).await`.  A task's TimerFuture owns one   *)
(* SharedState; `timer[t]` is the state of the current one, its expiry     *)
(* kept relative to the clock (`remaining` = expired_monotonic - now) so   *)
(* that time can run forever in a finite state space.  The clock is the   *)
(* count of timer interrupts; the executor's polls take no time.           *)
(***************************************************************************)
EXTENDS Integers, Sequences, SequencesExt

CONSTANTS
  Tasks,     \* the spawned tasks
  SpawnOrder,\* the order lib.rs spawns them in
  Duration   \* Duration[t]: the task's timer, in timer ticks

ASSUME /\ SpawnOrder \in Seq(Tasks) /\ ToSet(SpawnOrder) = Tasks
       /\ Duration \in [Tasks -> Nat \ {0}]

MaxDuration == CHOOSE d \in {Duration[t] : t \in Tasks} : \A t \in Tasks : Duration[t] <= d

\* bound on the ghost tick count; a task that is never woken stops it here
SinceCap == MaxDuration + 3

VARIABLES
  runq,      \* Executor::tasks, the ArrayQueue of runnable tasks
  registry,  \* REGISTERED_TIMER_STATES, by owning task, in queue order
  timer,     \* the SharedState of each task's current TimerFuture
  fut,       \* where each task's future is: "start" of its loop or "await"
  pc,        \* the main loop: "run" (cli; exec.run()), "sti", "hlt"
  since      \* ghost: ticks since the task's timer last fired (or since spawn)

vars == <<runq, registry, timer, fut, pc, since>>

TimerState == [remaining : 0 .. MaxDuration, completed : BOOLEAN, waker : BOOLEAN]

InQueue(t) == t \in ToSet(runq)
Registered(t) == t \in ToSet(registry)

(* lib.rs spawns the tasks (Executor::spawn pushes each) and enters the   *)
(* main loop with interrupts disabled.                                     *)
Init ==
  /\ runq = SpawnOrder
  /\ registry = <<>>
  /\ timer = [t \in Tasks |-> [remaining |-> 0, completed |-> FALSE, waker |-> FALSE]]
  /\ fut = [t \in Tasks |-> "start"]
  /\ pc = "run"
  /\ since = [t \in Tasks |-> 0]

-----------------------------------------------------------------------------
(***************************************************************************)
(* Executor::run, one iteration: pop a task, take its future and poll it. *)
(* The task's body runs to its next await: at the start of its loop, or   *)
(* once its timer has completed (TimerFuture::poll returns Ready), it     *)
(* creates a new TimerFuture (TimerFuture::new registers a fresh           *)
(* SharedState at the back of the registry) and polls it, which stores    *)
(* the waker and returns Pending; a poll of an incomplete timer only      *)
(* stores the waker again.  Pending puts the future back.                  *)
(***************************************************************************)
\* Mutants: the poll returns Pending without storing the waker; the
\* expiry is computed one tick late; TimerFuture::new does not register.
NewTimerNoWaker(t) == [remaining |-> Duration[t], completed |-> FALSE, waker |-> FALSE]
NewTimerLate(t) == [remaining |-> Duration[t] + 1, completed |-> FALSE, waker |-> TRUE]

NewTimer(t) == [remaining |-> Duration[t], completed |-> FALSE, waker |-> TRUE]

PollTaskUnregistered(t) ==
  IF fut[t] = "start" \/ timer[t].completed
  THEN [timer |-> NewTimer(t), registry |-> registry]
  ELSE [timer |-> [timer[t] EXCEPT !.waker = TRUE], registry |-> registry]

PollTask(t) ==
  IF fut[t] = "start" \/ timer[t].completed
  THEN [timer |-> NewTimer(t), registry |-> Append(registry, t)]
  ELSE [timer |-> [timer[t] EXCEPT !.waker = TRUE], registry |-> registry]

ExecutorPoll ==
  /\ pc = "run"
  /\ runq # <<>>
  /\ LET t == Head(runq)
     IN /\ runq' = Tail(runq)
        /\ timer' = [timer EXCEPT ![t] = PollTask(t).timer]
        /\ registry' = PollTask(t).registry
        /\ fut' = [fut EXCEPT ![t] = "await"]
  /\ UNCHANGED <<pc, since>>

(* Executor::run returns when the queue is empty; the loop enables        *)
(* interrupts.                                                              *)
RunDone ==
  /\ pc = "run"
  /\ runq = <<>>
  /\ pc' = "sti"
  /\ UNCHANGED <<runq, registry, timer, fut, since>>

(* io::hlt: enable_interrupt and hlt are separate calls, so an interrupt  *)
(* can be taken between them; hlt then sleeps until the next one.         *)
Halt ==
  /\ pc = "sti"
  /\ pc' = "hlt"
  /\ UNCHANGED <<runq, registry, timer, fut, since>>

(***************************************************************************)
(* The timer interrupt (interrupts enabled: after sti or in hlt):          *)
(* check_timerfutures_from_interrupt rotates the registry once; a state    *)
(* with nowtime > expired_monotonic is completed, dropped from the        *)
(* registry and its waker taken and woken (wake_by_ref pushes the task on *)
(* the run queue); every other state is pushed back in order.  If the CPU *)
(* was halted, the main loop resumes (cli; run).  If the tick came in the *)
(* window between sti and hlt, the loop goes on into hlt and sleeps until *)
(* the next interrupt, with the woken tasks still queued.                  *)
(*                                                                         *)
(* A timer is created by a poll that runs just after a tick (or at boot), *)
(* so its expiry lies strictly between two ticks plus Duration: with      *)
(* remaining = Duration at creation, nowtime > expiry first holds at the   *)
(* (Duration + 1)-th tick, the one at which remaining - 1 < 0.            *)
(***************************************************************************)
Expired(t) == Registered(t) /\ timer[t].remaining - 1 < 0

TimerTick ==
  /\ pc \in {"sti", "hlt"}
  /\ LET fired == SelectSeq(registry, Expired)
         woken == SelectSeq(fired, LAMBDA t : timer[t].waker)
     IN /\ registry' = SelectSeq(registry, LAMBDA t : ~Expired(t))
        /\ runq' = runq \o woken
        /\ timer' = [t \in Tasks |->
                       IF Expired(t) THEN [timer[t] EXCEPT !.completed = TRUE, !.waker = FALSE]
                       ELSE IF Registered(t) THEN [timer[t] EXCEPT !.remaining = @ - 1]
                       ELSE timer[t]]
        /\ since' = [t \in Tasks |-> IF Expired(t) THEN 0
                                     ELSE IF since[t] < SinceCap THEN since[t] + 1
                                     ELSE SinceCap]
  /\ pc' = IF pc = "hlt" THEN "run" ELSE "hlt"
  /\ UNCHANGED fut

(* The virtio-net interrupt (or any other) also ends hlt; the loop runs   *)
(* the executor again.  Its effect on the network is modelled in          *)
(* VirtioNet.                                                              *)
OtherIrq ==
  /\ pc = "hlt"
  /\ pc' = "run"
  /\ UNCHANGED <<runq, registry, timer, fut, since>>

Next == ExecutorPoll \/ RunDone \/ Halt \/ TimerTick \/ OtherIrq

(***************************************************************************)
(* Fairness: the main loop never blocks except in hlt.  The local APIC    *)
(* timer keeps interrupting every tick; while interrupts are disabled the *)
(* interrupt stays pending in the IRR and is taken at the next sti, which *)
(* every loop iteration executes: the tick is strongly fair, whatever     *)
(* other interrupts do.                                                    *)
(***************************************************************************)
Spec == Init /\ [][Next]_vars /\ WF_vars(ExecutorPoll) /\ WF_vars(RunDone)
                              /\ WF_vars(Halt) /\ SF_vars(TimerTick)

-----------------------------------------------------------------------------
TypeOK ==
  /\ runq \in Seq(Tasks) /\ registry \in Seq(Tasks)
  /\ timer \in [Tasks -> TimerState]
  /\ fut \in [Tasks -> {"start", "await"}]
  /\ pc \in {"run", "sti", "hlt"}
  /\ since \in [Tasks -> 0 .. MaxDuration + 2]

(* No task is ever lost or doubled: each task is either queued exactly    *)
(* once on the run queue, or not queued and waiting on a registered timer *)
(* whose SharedState holds its waker (TimerFuture::poll stored it before  *)
(* returning Pending, and the timer interrupt takes it only when it also  *)
(* removes the state and queues the task).                                 *)
TaskNeverLost ==
  \A t \in Tasks :
    \/ /\ Len(SelectSeq(runq, LAMBDA u : u = t)) = 1
       /\ ~Registered(t)
    \/ /\ ~InQueue(t)
       /\ Len(SelectSeq(registry, LAMBDA u : u = t)) = 1
       /\ timer[t].waker

(* Every task is polled again and again: its timer fires and the timer    *)
(* interrupt puts it back on the run queue, however the ticks fall        *)
(* against the run/sti/hlt steps of the main loop.                         *)
TasksRunForever == \A t \in Tasks : []<>InQueue(t)

(* A timer fires one or two ticks after its duration, never on time:     *)
(* the first tick with nowtime > expiry fires it, and the poll that        *)
(* re-creates it runs after that tick; a wakeup that lands between sti    *)
(* and hlt waits in the queue for the next interrupt, a second tick.      *)
(* So a periodic task's firings are Duration + 1 or Duration + 2 ticks     *)
(* apart, not the Duration of spec scenario 6.                              *)
TimerLatencyBounded ==
  [][\A t \in Tasks : Expired(t) /\ TimerTick =>
        since[t] + 1 \in Duration[t] + 1 .. Duration[t] + 2]_vars

=============================================================================
