------------------------------ MODULE Pvclock ------------------------------
(***************************************************************************)
(* The host side of the KVM paravirtual clock used by                      *)
(* src/arch/x86_64/kvmclock.rs: the TSC, and the PVClockVcpuTimeInfo       *)
(* structure KVM_CLOCK_INFO_PER_VCPU that the host (re)writes once the     *)
(* guest has registered it with init_kvmclock.                             *)
(*                                                                         *)
(* The guest has one vCPU.  KVM writes the structure while that vCPU is    *)
(* outside guest mode (on the VM entry after a clock-update request: the   *)
(* MSR write itself, the periodic kvmclock sync, a TSC change), so to the  *)
(* guest an update is one atomic step between two of its instructions,     *)
(* which may fall between any two loads of a read.  Each update adds 2 to  *)
(* the version and stamps tsc_timestamp and system_time with the current  *)
(* TSC and host time.  Time is counted in TSC ticks; the host's scale is  *)
(* one nanosecond per tick, i.e. tsc_to_system_mul = 2^MulBits with       *)
(* tsc_shift = 0, and the host clock's origin is the TSC's, so             *)
(* system_time = tsc_timestamp at every update.                            *)
(***************************************************************************)
EXTENDS Naturals

CONSTANTS
  FeatureSets,  \* the KVM feature bit sets cpuid 0x40000001 may report
  TscBits,      \* width of the TSC and of the u64 arithmetic (64)
  MulBits,      \* the fixed-point shift applied to tsc_to_system_mul (32)
  BuildProfile, \* "debug" or "release"
  MaxTsc,       \* bound on the TSC
  MaxUpdates    \* bound on the host's updates of the structure

ASSUME /\ TscBits \in Nat /\ MulBits \in Nat
       /\ BuildProfile \in {"debug", "release"}
       /\ MaxTsc < 2^TscBits /\ MaxUpdates \in Nat

KVM_FEATURE_CLOCKSOURCE == 0
KVM_FEATURE_CLOCKSOURCE2 == 3

\* PVClockVcpuTimeInfo::new(): all fields zero
ZeroPvti == [version |-> 0, tsc_timestamp |-> 0, system_time |-> 0, mul |-> 0]

VARIABLES
  features, \* what get_kvm_features returned at boot
  tsc,      \* the time stamp counter
  pvti,     \* KVM_CLOCK_INFO_PER_VCPU as the host last wrote it
  msr,      \* the MSR the guest registered it with: "none", "old", "new"
  updates   \* the host's updates so far

hostVars == <<features, tsc, pvti, msr, updates>>

HostInit ==
  /\ features \in FeatureSets
  /\ tsc = 0
  /\ pvti = ZeroPvti
  /\ msr = "none"
  /\ updates = 0

(* kvm_guest_time_update: the structure stamped with the current TSC. *)
HostWrite ==
  [version |-> pvti.version + 2, tsc_timestamp |-> tsc, system_time |-> tsc,
   mul |-> 2^MulBits]

(***************************************************************************)
(* init_kvmclock: with KVM_FEATURE_CLOCKSOURCE2 the structures are         *)
(* registered through the new MSRs, else with KVM_FEATURE_CLOCKSOURCE      *)
(* through the old ones, else Err(()).  Writing the system-time MSR makes  *)
(* the host fill the structure before the guest runs again.                *)
(***************************************************************************)
RegisterMsr ==
  IF KVM_FEATURE_CLOCKSOURCE2 \in features THEN "new"
  ELSE IF KVM_FEATURE_CLOCKSOURCE \in features THEN "old"
  ELSE "none"

InitKvmclock ==
  /\ msr' = RegisterMsr
  /\ IF RegisterMsr # "none" /\ updates < MaxUpdates
     THEN pvti' = HostWrite /\ updates' = updates + 1
     ELSE UNCHANGED <<pvti, updates>>
  /\ UNCHANGED <<features, tsc>>

(* Time passes. *)
TscTick ==
  /\ tsc < MaxTsc
  /\ tsc' = tsc + 1
  /\ UNCHANGED <<features, pvti, msr, updates>>

(* A later clock update by the host, atomic to the guest. *)
HostUpdate ==
  /\ msr # "none"
  /\ updates < MaxUpdates
  /\ pvti' = HostWrite
  /\ updates' = updates + 1
  /\ UNCHANGED <<features, tsc, msr>>

(***************************************************************************)
(* get_monotonic_time's conversion: tsc_delta = (nowtsc - tsc_timestamp)   *)
(* as u64 (wrapping in release; the debug build panics instead, see        *)
(* DeltaUnderflows), shifted by tsc_shift = 0, multiplied by               *)
(* tsc_to_system_mul, shifted right by MulBits and truncated to u64.      *)
(* system_time is not used.                                                *)
(***************************************************************************)
TscDelta(nowtsc, data) == (nowtsc - data.tsc_timestamp) % 2^TscBits

DeltaUnderflows(nowtsc, data) == nowtsc < data.tsc_timestamp

TscToNs(nowtsc, data) == ((TscDelta(nowtsc, data) * data.mul) \div 2^MulBits) % 2^TscBits

=============================================================================
