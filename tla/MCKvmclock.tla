----------------------------- MODULE MCKvmclock -----------------------------
(***************************************************************************)
(* Model-checking instance of Kvmclock.  The u64 TSC is scaled to 4 bits  *)
(* and the 32-bit fixed-point shift to 2: tsc_to_system_mul = 2^MulBits  *)
(* still converts one tick to one nanosecond, and a delta that underflows *)
(* still wraps to a huge value.  Two host updates after the first and a   *)
(* TSC that runs to 5 let an update fall between any two loads of a call  *)
(* and between any two of boot's four calls and one timer reading.         *)
(***************************************************************************)
EXTENDS Kvmclock

\* cpuid 0x40000001: CLOCKSOURCE2, only the old CLOCKSOURCE, or neither
MCFeatureSets == {{KVM_FEATURE_CLOCKSOURCE2}, {KVM_FEATURE_CLOCKSOURCE}, {}}
\* a host offering the new MSRs
MCFeatureSetsNew == {{KVM_FEATURE_CLOCKSOURCE2, KVM_FEATURE_CLOCKSOURCE}}

=============================================================================
