------------------------------ MODULE Kvmclock ------------------------------
(***************************************************************************)
(* The guest side of src/arch/x86_64/kvmclock.rs, get_monotonic_time     *)
(* load by load, inside the boot-order callers of ClockCallers; and        *)
(* get_calendar_from_epoch, checked against the civil calendar.            *)
(*                                                                         *)
(* A call reads the TSC once, then copies the structure (read_volatile of *)
(* the packed struct: the version at offset 0 is loaded before the data   *)
(* fields), converts, copies it again and compares the versions; on a     *)
(* mismatch it copies again but keeps the TSC it read first.              *)
(***************************************************************************)
EXTENDS Pvclock, Sequences

CONSTANTS
  MaxCalls, \* calls made by the timer code after boot
  MaxDay    \* get_calendar_from_epoch is checked for days 0 .. MaxDay

VARIABLES
  pc,       \* as in ClockCallers, with "read" split into the steps of a
            \* call: "old_version", "old_data", "new_version"
  nowtsc,   \* the TSC read by rdtsc_with_cpuid at the start of the call
  returned, \* what the calls returned, in order
  oldv,     \* old_val.version
  old       \* old_val's data fields

\* the callers, over this module's own variables
Caller == INSTANCE ClockCallers

vars == <<hostVars, pc, nowtsc, returned, oldv, old>>

Init ==
  /\ Caller!CallerInit
  /\ oldv = 0
  /\ old = ZeroPvti

(* read_volatile's load of the version, the first field *)
ReadOldVersion ==
  /\ pc = "old_version"
  /\ oldv' = pvti.version
  /\ pc' = "old_data"
  /\ UNCHANGED <<hostVars, nowtsc, returned, old>>

(* the rest of the copy, then the conversion: nowtsc - tsc_timestamp      *)
(* panics in a debug build when the host stamped a TSC later than nowtsc  *)
ReadOldData ==
  /\ pc = "old_data"
  /\ old' = pvti
  /\ pc' = IF BuildProfile = "debug" /\ DeltaUnderflows(nowtsc, pvti)
           THEN "panic" ELSE "new_version"
  /\ UNCHANGED <<hostVars, nowtsc, returned, oldv>>

(* the loop's exit test on new_val.version *)
\* Mutant: only an odd version is retried; the versions are not compared.
RetryOddOnly(ov, nv) == nv % 2 # 0

Retry(ov, nv) == nv % 2 # 0 \/ nv # ov - (ov % 2)

ReadNewVersion ==
  /\ pc = "new_version"
  /\ IF Retry(oldv, pvti.version)
     THEN /\ pc' = "old_version"
          /\ UNCHANGED returned
     ELSE Caller!Return(TscToNs(nowtsc, old))
  /\ UNCHANGED <<hostVars, nowtsc, oldv, old>>

(* a step of the callers leaves the copy alone *)
KeepCopy(A) == A /\ UNCHANGED <<oldv, old>>

Next ==
  \/ KeepCopy(Caller!Boot) \/ KeepCopy(Caller!ReadWallClock)
  \/ KeepCopy(Caller!Rdtsc("old_version")) \/ KeepCopy(Caller!ApicWait)
  \/ KeepCopy(Caller!Host)
  \/ ReadOldVersion \/ ReadOldData \/ ReadNewVersion

(* the guest runs and the TSC counts; the host's updates are not forced *)
Spec == Init /\ [][Next]_vars
          /\ WF_vars(KeepCopy(Caller!Boot)) /\ WF_vars(KeepCopy(Caller!ReadWallClock))
          /\ WF_vars(KeepCopy(Caller!Rdtsc("old_version"))) /\ WF_vars(KeepCopy(Caller!ApicWait))
          /\ WF_vars(ReadOldVersion) /\ WF_vars(ReadOldData) /\ WF_vars(ReadNewVersion)
          /\ WF_vars(KeepCopy(Caller!Tick))

-----------------------------------------------------------------------------
(***************************************************************************)
(* get_calendar_from_epoch: days since the epoch are shifted to days      *)
(* since 0000-03-01, split into 400-, 100-, 4- and 1-year blocks (a block *)
(* count of 4 is the extra leap day at the block's end), and the month    *)
(* found from the day of the March-based year.                            *)
(***************************************************************************)
DAYS_OF_MONTH == <<0, 31, 61, 92, 122, 153, 184, 214, 245, 275, 306, 337>>
DAYS_OF_ONE_YEAR == 365
DAYS_OF_FOUR_YEAR == DAYS_OF_ONE_YEAR * 4 + 1
DAYS_OF_HUNDRED_YEAR == DAYS_OF_FOUR_YEAR * 25 - 1
DAYS_OF_FOUR_HUNDRED_YEAR == DAYS_OF_HUNDRED_YEAR * 4 + 1

(* the date fields from March-based year, day and leap flag *)
MonthDay(year, day, leap) ==
  IF leap THEN [year |-> year, month |-> 2, day |-> 29]
  ELSE LET md == (day * 5 + 2) \div 153
           d == day - DAYS_OF_MONTH[md + 1] + 1
       IN IF md > 9 THEN [year |-> year + 1, month |-> md - 9, day |-> d]
          ELSE [year |-> year, month |-> md + 3, day |-> d]

\* Mutant: the leap day at the end of a four-year block is not recognised.
CalendarFromDaysNoInnerLeap(day_from_epoch) ==
  LET day_from_march == day_from_epoch + (1969 * 365 + 1969 \div 4 - 1969 \div 100 + 1969 \div 400 + 306)
      d400 == day_from_march % DAYS_OF_FOUR_HUNDRED_YEAR
      n == d400 \div DAYS_OF_HUNDRED_YEAR
      y100 == 400 * (day_from_march \div DAYS_OF_FOUR_HUNDRED_YEAR) + n * 100
      d100 == d400 % DAYS_OF_HUNDRED_YEAR
      d4 == d100 % DAYS_OF_FOUR_YEAR
      c == IF n = 4 THEN MonthDay(y100, d100, TRUE)
           ELSE MonthDay(y100 + (d100 \div DAYS_OF_FOUR_YEAR) * 4 + d4 \div DAYS_OF_ONE_YEAR,
                         d4 % DAYS_OF_ONE_YEAR, FALSE)
  IN [c EXCEPT !.year = @ % 2^16]

CalendarFromDays(day_from_epoch) ==
  LET day_from_march == day_from_epoch + (1969 * 365 + 1969 \div 4 - 1969 \div 100 + 1969 \div 400 + 306)
      d400 == day_from_march % DAYS_OF_FOUR_HUNDRED_YEAR
      n == d400 \div DAYS_OF_HUNDRED_YEAR
      y100 == 400 * (day_from_march \div DAYS_OF_FOUR_HUNDRED_YEAR) + n * 100
      d100 == d400 % DAYS_OF_HUNDRED_YEAR
      d4 == d100 % DAYS_OF_FOUR_YEAR
      c == IF n = 4 THEN MonthDay(y100, d100, TRUE)
           ELSE MonthDay(y100 + (d100 \div DAYS_OF_FOUR_YEAR) * 4 + d4 \div DAYS_OF_ONE_YEAR,
                         d4 % DAYS_OF_ONE_YEAR, d4 \div DAYS_OF_ONE_YEAR = 4)
  IN [c EXCEPT !.year = @ % 2^16]

GetCalendarFromEpoch(sec) ==
  LET c == CalendarFromDays(sec \div (24 * 60 * 60))
  IN [year |-> c.year, month |-> c.month, day |-> c.day,
      hour |-> (sec \div 3600) % 24, min |-> (sec \div 60) % 60, sec |-> sec % 60]

-----------------------------------------------------------------------------
(* The refinement mapping: the caller's position inside a call, any of   *)
(* the loads and retries of the loop, is the abstract "read".              *)
AbstractPc ==
  IF pc \in {"old_version", "old_data", "new_version"} THEN "read" ELSE pc

Atomic == INSTANCE KvmclockAtomic WITH pc <- AbstractPc

(* get_monotonic_time implements an atomic read of the structure: every    *)
(* call returns, and returns the conversion of the structure as the host  *)
(* had written it at one instant of the call, however the host's updates  *)
(* fall between the loads of the version and of the data.                  *)
AtomicRead == Atomic!Spec

(* apic::init's assert!(after > before) holds: the calibration's second   *)
(* reading exceeds its first, whatever host updates fall between the two  *)
(* calls or inside either of them.  The timer code relies on the same     *)
(* order: TimerFuture::new and check_timerfutures_from_interrupt compare   *)
(* readings from different calls.                                          *)
ApicCalibrationHolds == pc # "assert_failed"

(* The civil calendar, as a reference: the day after a date. *)
IsLeap(y) == (y % 4 = 0 /\ y % 100 # 0) \/ y % 400 = 0

DaysInMonth(y, m) ==
  IF m = 2 THEN (IF IsLeap(y) THEN 29 ELSE 28)
  ELSE IF m \in {4, 6, 9, 11} THEN 30 ELSE 31

NextDate(c) ==
  IF c.day < DaysInMonth(c.year, c.month) THEN [c EXCEPT !.day = @ + 1]
  ELSE IF c.month < 12 THEN [c EXCEPT !.month = @ + 1, !.day = 1]
  ELSE [year |-> c.year + 1, month |-> 1, day |-> 1]

CalendarTableCorrect ==
  /\ CalendarFromDays(0) = [year |-> 1970, month |-> 1, day |-> 1]
  /\ \A d \in 0 .. MaxDay - 1 : CalendarFromDays(d + 1) = NextDate(CalendarFromDays(d))

(* The date lib.rs prints once init_kvmclock has run is the civil date:   *)
(* get_calendar_from_epoch gives 1970-01-01 for day 0 and the next civil  *)
(* date for each following day, through the leap years, the leap 2000    *)
(* and the non-leap 2100, up to day MaxDay.                                *)
CalendarCorrect == pc # "init" => CalendarTableCorrect

=============================================================================
