---------------------------- MODULE ClockCallers ----------------------------
(***************************************************************************)
(* The guest code around get_monotonic_time, in boot order (lib.rs):       *)
(* init_kvmclock, then get_calendar (the wall-clock copy, then two calls, *)
(* the first one's result unused), then apic::init's timer calibration    *)
(* (a call, a busy wait on the APIC counter, a second call, and           *)
(* assert!(after > before)), then the timer code's calls (TimerFuture::new *)
(* and check_timerfutures_from_interrupt), MaxCalls of them.               *)
(*                                                                         *)
(* A call itself, from the TSC read to its return, is left to the module  *)
(* that uses this one: atomic in KvmclockAtomic (which extends it), load  *)
(* by load in Kvmclock (which instantiates it over its own variables).    *)
(* Both start a call with Rdtsc and end it with Return.                    *)
(***************************************************************************)
EXTENDS Pvclock, Sequences

CONSTANT MaxCalls \* calls made by the timer code after boot

VARIABLES
  pc,       \* "init", "wallclock", "rdtsc", the steps of a call, "apic_wait",
            \* "done", "assert_failed" or "panic"
  nowtsc,   \* the TSC read by rdtsc_with_cpuid at the start of the call
  returned  \* what the calls returned, in order

\* the call sites, in the order boot reaches them
Sites ==
  <<"calendar_delta", "calendar", "apic_before", "apic_after">>
    \o [i \in 1 .. MaxCalls |-> "timer"]

\* the site of the call in progress
Site == Sites[Len(returned) + 1]

callerVars == <<pc, nowtsc, returned>>

CallerInit ==
  /\ HostInit
  /\ pc = "init"
  /\ nowtsc = 0
  /\ returned = <<>>

(* lib.rs: init_kvmclock's result is only printed; boot goes on either way *)
Boot ==
  /\ pc = "init"
  /\ InitKvmclock
  /\ pc' = "wallclock"
  /\ UNCHANGED <<nowtsc, returned>>

(***************************************************************************)
(* get_calendar's copy of KVM_CLOCK_WALL_CLOCK.  The host writes the wall *)
(* clock once, when the guest writes its MSR in init_kvmclock, and in the *)
(* same exit, so the version check passes on the first copy; its data    *)
(* only feeds the calendar, checked on its own (CalendarCorrect).          *)
(***************************************************************************)
ReadWallClock ==
  /\ pc = "wallclock"
  /\ pc' = "rdtsc"
  /\ UNCHANGED <<hostVars, nowtsc, returned>>

(* rdtsc_with_cpuid, once, before the loop *)
Rdtsc(next) ==
  /\ pc = "rdtsc"
  /\ nowtsc' = tsc
  /\ pc' = next
  /\ UNCHANGED <<hostVars, returned>>

(***************************************************************************)
(* get_monotonic_time returns v to its call site.  After the first        *)
(* calibration reading, apic::init spins until the APIC counter has run   *)
(* 0xfffff ticks; after the second it asserts that time went forward.     *)
(***************************************************************************)
Return(v) ==
  /\ returned' = Append(returned, v)
  /\ pc' = CASE Site = "apic_before" -> "apic_wait"
             [] Site = "apic_after" /\ ~(v > returned[3]) -> "assert_failed"
             [] Len(returned) + 1 < Len(Sites) -> "rdtsc"
             [] OTHER -> "done"

(* the busy wait on APIC_REG_TIMER_CURCNT: time passes *)
ApicWait ==
  /\ pc = "apic_wait"
  /\ tsc > nowtsc
  /\ pc' = "rdtsc"
  /\ UNCHANGED <<hostVars, nowtsc, returned>>

(* The TSC counts: the one host step the guest may wait for. *)
Tick == TscTick /\ UNCHANGED callerVars

(* The TSC runs and the host updates the structure at any time. *)
Host ==
  /\ TscTick \/ HostUpdate
  /\ UNCHANGED callerVars

=============================================================================
