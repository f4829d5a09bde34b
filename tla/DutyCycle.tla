----------------------------- MODULE DutyCycle -----------------------------
(***************************************************************************)
(* The long-term duty-cycle limiter of the transmit path: a ring of        *)
(* buckets that slides with the clock, asked before a non-critical frame   *)
(* is offered to the modem and charged after a frame has been queued.      *)
(* Time is in ticks, airtime in units of it; the percentage of the window  *)
(* is the sum itself.  The clock is never 0 when anything transmits.       *)
(***************************************************************************)
EXTENDS Naturals, FiniteSets

CONSTANTS Limited,   \* tasks that send non-critical frames
          Relays,    \* tasks that send critical ones: digipeats, messages
          Count,     \* DUTY_CYCLE_BUCKET_COUNT
          Width,     \* DUTY_CYCLE_BUCKET_MS
          Ceiling,   \* duty_cycle_pct
          Airtimes,  \* estimate_tx_airtime_ms() of the frames offered
          Longest,   \* the longest of them
          MaxTime,   \* bound: the clock
          MaxAirtime \* bound: no frame is charged once this much has been

Callers == Limited \cup Relays

ASSUME RingAssumption == Count \in Nat /\ Count > 1 /\ Width \in Nat /\ Width > 0
ASSUME CeilingAssumption == Ceiling \in Nat /\ Ceiling > 0 \* DUTY_CYCLE_PCT_MIN
ASSUME AirtimeAssumption == Longest \in Nat /\ Airtimes \subseteq 0 .. Longest
ASSUME LimitedAssumption == IsFiniteSet(Limited) /\ Limited \cap Relays = {}
ASSUME BoundsAssumption  == MaxTime \in Nat /\ MaxTime > 0 /\ MaxAirtime \in Nat

VARIABLES
  now,     \* esp_timer_get_time()
  bucket,  \* s_dutyBucketMs
  index,   \* s_dutyBucketIndex
  base,    \* s_dutyBucketBaseUs, 0 before the first use
  cleared, \* the airtime of the frame each task has been let through with, or 0
  spent,   \* history: the airtime charged at each time,
  own      \* and what of it was not critical

books    == <<spent, own>>
dutyVars == <<now, bucket, index, base, cleared, books>>

Buckets == 0 .. Count - 1
Times   == 1 .. MaxTime

DutyInit ==
  /\ now = 1
  /\ bucket = [b \in Buckets |-> 0] /\ index = 0 /\ base = 0
  /\ cleared = [t \in Callers |-> 0]
  /\ spent = [t \in Times |-> 0] /\ own = spent

\* The airtime charged not longer ago than this.
Airtime(charged, age) ==
  LET sum[t \in 0 .. now] ==
        IF t = 0 THEN 0 ELSE sum[t - 1] + (IF now - t <= age THEN charged[t] ELSE 0)
  IN sum[now]

After(i, n) == (i + n) % Count

Passed == (now - base) \div Width

\* Faulty variant: one bucket too many is zeroed.
StaleOneMore(b) == \E i \in 1 .. Passed + 1 : b = After(index, i)
\* The buckets the clock has moved past.
Stale(b) == \E i \in 1 .. Passed : b = After(index, i)

NewBase == base + Passed * Width

\* duty_cycle_advance_locked(): the ring slid forward to now.
Slid ==
  IF base = 0 THEN [bucket |-> bucket, index |-> index, base |-> now]
  ELSE IF Passed = 0 THEN [bucket |-> bucket, index |-> index, base |-> base]
  ELSE IF Passed >= Count
    THEN [bucket |-> [b \in Buckets |-> 0], index |-> index, base |-> NewBase]
    ELSE [bucket |-> [b \in Buckets |-> IF Stale(b) THEN 0 ELSE bucket[b]],
          index |-> After(index, Passed), base |-> NewBase]

\* duty_cycle_used_ms_locked()
UsedBy(ring) ==
  LET total[n \in 0 .. Count] == IF n = 0 THEN 0 ELSE total[n - 1] + ring[n - 1]
  IN total[Count]

\* duty_cycle_pct(): the ring is slid before it is summed up.
Used == UsedBy(Slid.bucket)

\* Faulty variant: the ceiling itself is still let through.
UnderCeilingOrAt == Used <= Ceiling
UnderCeiling == Used < Ceiling

\* send_tnc2_impl() up to the gate: critical frames are not asked about.
Ask(t) ==
  /\ cleared[t] = 0
  /\ \E ms \in Airtimes :
       IF t \in Relays
         THEN cleared' = [cleared EXCEPT ![t] = ms] /\ UNCHANGED <<bucket, index, base>>
         ELSE /\ cleared' = IF UnderCeiling THEN [cleared EXCEPT ![t] = ms] ELSE cleared
              /\ bucket' = Slid.bucket /\ index' = Slid.index /\ base' = Slid.base
  /\ UNCHANGED <<now, books>>

\* The frame is refused behind the gate, or it is queued and charged.
Refused(t) ==
  /\ cleared[t] # 0
  /\ cleared' = [cleared EXCEPT ![t] = 0]
  /\ UNCHANGED <<now, bucket, index, base, books>>

Charge(t) ==
  /\ cleared[t] # 0 /\ Airtime(spent, now) < MaxAirtime
  /\ bucket' = [Slid.bucket EXCEPT ![Slid.index] = @ + cleared[t]]
  /\ index' = Slid.index /\ base' = Slid.base
  /\ spent' = [spent EXCEPT ![now] = @ + cleared[t]]
  /\ own' = IF t \in Limited THEN [own EXCEPT ![now] = @ + cleared[t]] ELSE own
  /\ cleared' = [cleared EXCEPT ![t] = 0]
  /\ UNCHANGED now

Tick ==
  /\ now < MaxTime /\ now' = now + 1
  /\ UNCHANGED <<bucket, index, base, cleared, books>>

DutyNext == Tick \/ \E t \in Callers : Ask(t) \/ Refused(t) \/ Charge(t)

DutySpec == DutyInit /\ [][DutyNext]_dutyVars

-----------------------------------------------------------------------------
(* Properties *)

\* Type invariant: the write index stays inside the ring of buckets.
DutyTypeOK ==
  /\ now \in Times /\ base \in 0 .. now
  /\ bucket \in [Buckets -> Nat] /\ index \in Buckets
  /\ cleared \in [Callers -> Nat]
  /\ spent \in [Times -> Nat] /\ own \in [Times -> Nat]

\* Every frame younger than all but one bucket is counted, whenever the sum is
\* taken: the ring never forgets airtime too early by more than one bucket.
RecentCounted == Used >= Airtime(spent, (Count - 1) * Width)

\* Nothing as old as the window is still counted, whatever gaps the calls that
\* slide the ring leave between them.
NothingStale == Used <= Airtime(spent, Count * Width - 1)

\* So the duty cycle the web UI shows and the ceiling is held against is that of
\* the last window, to within one bucket.
WindowSound == DutyTypeOK /\ RecentCounted /\ NothingStale

\* The look at the ceiling and the charge are apart, so tasks that pass the
\* look together overshoot it, but by no more than one frame each: "a ceiling
\* on the cumulative airtime" of non-critical traffic over the window.
CeilingKept ==
  Airtime(own, (Count - 1) * Width) <= Ceiling - 1 + Cardinality(Limited) * Longest

\* The window tells the airtime of the last ten minutes, and the ceiling bounds it.
DutySound == WindowSound /\ CeilingKept

\* "so the sum of all buckets is always the airtime transmitted within the last
\* DUTY_CYCLE_WINDOW_MS"
WindowIsExact == Used = Airtime(spent, Count * Width - 1)
=============================================================================
