--------------------------- MODULE KvmclockAtomic ---------------------------
(***************************************************************************)
(* What get_monotonic_time promises, with the version protocol abstracted *)
(* away: after reading the TSC, a call reads KVM_CLOCK_INFO_PER_VCPU in    *)
(* one atomic step, as the host last wrote it, and returns the converted   *)
(* delta to its call site (ClockCallers).  Kvmclock, which copies the      *)
(* structure load by load and retries on a version change, is shown to    *)
(* implement this specification.                                           *)
(***************************************************************************)
EXTENDS ClockCallers

vars == <<hostVars, callerVars>>

Init == CallerInit

(* the whole call after the TSC read, as one step; in a debug build the   *)
(* u64 subtraction nowtsc - tsc_timestamp panics when it underflows        *)
ReadAtomic ==
  /\ pc = "read"
  /\ IF BuildProfile = "debug" /\ DeltaUnderflows(nowtsc, pvti)
     THEN /\ pc' = "panic"
          /\ UNCHANGED returned
     ELSE Return(TscToNs(nowtsc, pvti))
  /\ UNCHANGED <<hostVars, nowtsc>>

Next == Boot \/ ReadWallClock \/ Rdtsc("read") \/ ReadAtomic \/ ApicWait \/ Host

(* Every call returns: the guest's steps are weakly fair, and the TSC     *)
(* keeps counting.  The host's updates are not forced.                     *)
Spec == Init /\ [][Next]_vars
          /\ WF_vars(Boot) /\ WF_vars(ReadWallClock) /\ WF_vars(Rdtsc("read"))
          /\ WF_vars(ReadAtomic) /\ WF_vars(ApicWait) /\ WF_vars(Tick)

=============================================================================
