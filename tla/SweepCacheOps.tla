--------------------------- MODULE SweepCacheOps ---------------------------
(***************************************************************************)
(* The sweep cache of spectool_container.c: a ring of the last num_alloc   *)
(* sweeps with three aggregates (average, peak since the allocation, peak  *)
(* of the ring).  Every front end keeps one per device, the registry keeps *)
(* one per aggregating callback and the Ubertooth driver one per device.   *)
(*                                                                         *)
(* A cache is a record with the fields of struct _spectool_sweep_cache and *)
(* each C function is an operator from the old cache to the new one.  A    *)
(* sweep is [len, rssi]: its number of samples and the level of one bin.   *)
(* The aggregates treat every bin alike and apart, so one bin stands for   *)
(* all of them.                                                            *)
(***************************************************************************)
EXTENDS Integers, Sequences, FiniteSets, FiniteSetsExt

NoSweep == [null |-> TRUE]      \* the NULL sweep pointer

(***************************************************************************)
(* The levels of the sweeps stored in the filled slots among 0..n-1.       *)
(***************************************************************************)
Filled(list, n) == {x \in 0 .. n - 1 : list[x] # NoSweep}

(* The mean of the filled slots, an integer division into a uint8_t; an    *)
(* average over no slot is 0.                                              *)
MeanLevel(list, slots) ==
  IF slots = {} THEN 0
  ELSE MapThenSumSet(LAMBDA x : list[x].rssi, slots) \div Cardinality(slots)

(***************************************************************************)
(* spectool_cache_alloc, spectool_cache_clear                              *)
(***************************************************************************)
CacheAllocAtZero(nsweeps, calc_peak, calc_avg) ==     \* mutant: pos starts at 0
  [sweeplist |-> [x \in 0 .. nsweeps - 1 |-> NoSweep],
   avg |-> NoSweep, peak |-> NoSweep, roll_peak |-> NoSweep, latest |-> NoSweep,
   num_alloc |-> nsweeps, pos |-> 0, looped |-> FALSE, num_used |-> 0,
   calc_peak |-> calc_peak, calc_avg |-> calc_avg]

CacheAlloc(nsweeps, calc_peak, calc_avg) ==
  [sweeplist |-> [x \in 0 .. nsweeps - 1 |-> NoSweep],
   avg |-> NoSweep, peak |-> NoSweep, roll_peak |-> NoSweep, latest |-> NoSweep,
   num_alloc |-> nsweeps, pos |-> -1, looped |-> FALSE, num_used |-> 0,
   calc_peak |-> calc_peak, calc_avg |-> calc_avg]

CacheClearKeepsPeak(c) ==     \* mutant: the peak survives
  [c EXCEPT !.avg = NoSweep, !.roll_peak = NoSweep,
            !.pos = 0, !.looped = FALSE, !.num_used = 0]

(* The ring is not emptied, and pos restarts at 0 where alloc says -1.     *)
CacheClear(c) ==
  [c EXCEPT !.avg = NoSweep, !.peak = NoSweep, !.roll_peak = NoSweep,
            !.pos = 0, !.looped = FALSE, !.num_used = 0]

(***************************************************************************)
(* spectool_cache_append, in parts.                                        *)
(***************************************************************************)

(* "Make sure we don't overflow and crash": the length test needs an avg.  *)
NeverRejects(c, s) == FALSE     \* mutant: the length test is dropped

Rejects(c, s) == c.avg # NoSweep /\ c.avg.len # s.len

WrapsEarly(c) == c.pos = c.num_alloc - 2     \* mutant: the last slot is never used

Wraps(c) == c.pos = c.num_alloc - 1

NextPosRunsOn(c) == c.pos + 1     \* mutant: pos is not taken back to 0

NextPos(c) == IF Wraps(c) THEN 0 ELSE c.pos + 1

(* How many slots the aggregates visit: the whole ring once it has wrapped,*)
(* before that the slots below the one just written.                       *)
NumSampledShort(c) == NextPos(c)     \* mutant: also once the ring has wrapped

NumSampled(c) == IF c.looped \/ Wraps(c) THEN c.num_alloc ELSE NextPos(c)

Stored(c, s) == [c.sweeplist EXCEPT ![NextPos(c)] = s]

NewAvg(c, s) ==
  IF ~c.calc_avg THEN c.avg
  ELSE IF c.avg = NoSweep THEN s
  ELSE [c.avg EXCEPT !.rssi =
          MeanLevel(Stored(c, s), Filled(Stored(c, s), NumSampled(c)))]

NewPeakLowest(c, s) ==     \* mutant: the comparison is turned round
  IF ~c.calc_peak THEN c.peak
  ELSE IF c.peak = NoSweep THEN s
  ELSE [c.peak EXCEPT !.rssi = IF @ > s.rssi THEN s.rssi ELSE @]

NewPeak(c, s) ==
  IF ~c.calc_peak THEN c.peak
  ELSE IF c.peak = NoSweep THEN s
  ELSE [c.peak EXCEPT !.rssi = IF @ < s.rssi THEN s.rssi ELSE @]

NewRollPeakKept(c, s) ==     \* mutant: the maximum is seeded from its old value
  IF c.calc_peak /\ (c.peak = NoSweep \/ c.roll_peak.rssi < s.rssi) THEN s ELSE c.roll_peak

NewRollPeak(c, s) ==
  IF ~c.calc_peak THEN c.roll_peak
  ELSE IF c.peak = NoSweep THEN s
  ELSE LET slots == Filled(Stored(c, s), NumSampled(c))
       IN  [s EXCEPT !.rssi =
              Max({s.rssi} \cup {Stored(c, s)[x].rssi : x \in slots})]

CacheAppend(c, s) ==
  IF Rejects(c, s) THEN c
  ELSE [c EXCEPT !.sweeplist = Stored(c, s),
                 !.pos       = NextPos(c),
                 !.looped    = @ \/ Wraps(c),
                 !.num_used  = IF ~Wraps(c) /\ @ < c.num_alloc THEN @ + 1 ELSE @,
                 !.latest    = s,
                 !.avg       = NewAvg(c, s),
                 !.peak      = NewPeak(c, s),
                 !.roll_peak = NewRollPeak(c, s)]

(***************************************************************************)
(* Appending s to c reads or writes outside a sweep: the rolling peak      *)
(* dereferences every visited slot with no test for an empty one, the peak *)
(* indexes s by its own num_samples, the rolling peak was allocated for    *)
(* that many, and both it and the average read the slots up to theirs.     *)
(***************************************************************************)
PeakFaults(c, s) ==
  /\ c.calc_peak /\ c.peak # NoSweep
  /\ \/ s.len # c.peak.len
     \/ \E x \in 0 .. NumSampled(c) - 1 :
          Stored(c, s)[x] = NoSweep \/ Stored(c, s)[x].len < s.len

AvgFaults(c, s) ==
  /\ c.calc_avg /\ c.avg # NoSweep
  /\ \E x \in Filled(Stored(c, s), NumSampled(c)) : Stored(c, s)[x].len < c.avg.len

AppendFaults(c, s) == ~Rejects(c, s) /\ (PeakFaults(c, s) \/ AvgFaults(c, s))

(***************************************************************************)
(* spectool_cache_itr_init and spectool_cache_itr_next.  An iterator is a  *)
(* record; next returns the new iterator and the slot to read, -1 for the  *)
(* NULL that ends the walk.                                                *)
(***************************************************************************)
ItrInitAtPos(c) ==     \* mutant: the walk starts below the newest slot
  [pos_start |-> c.pos, pos_cur |-> c.pos, looped_start |-> FALSE]

ItrInit(c) == [pos_start |-> c.pos, pos_cur |-> c.pos + 1, looped_start |-> FALSE]

ItrNext(c, i) ==
  LET again == i.pos_cur = i.pos_start
      below == i.pos_cur - 1
      cur   == IF below < 0 /\ c.looped THEN c.num_used - 1 ELSE below
  IN  IF again /\ i.looped_start THEN [itr |-> i, slot |-> -1]
      ELSE [itr  |-> [i EXCEPT !.pos_cur = cur, !.looped_start = @ \/ again],
            slot |-> IF cur < 0 \/ cur >= c.num_used THEN -1 ELSE cur]

(* The slots a caller sees when it calls next until it returns NULL.       *)
ItrSlots(c) ==
  LET step[k \in 0 .. c.num_alloc + 2] ==
        IF k = 0 THEN [itr |-> ItrInit(c), seen |-> <<>>, done |-> FALSE]
        ELSE LET before == step[k - 1]
                 r      == ItrNext(c, before.itr)
             IN  IF before.done THEN before
                 ELSE IF r.slot = -1 THEN [before EXCEPT !.done = TRUE]
                 ELSE [before EXCEPT !.itr = r.itr, !.seen = Append(@, r.slot)]
  IN  step[c.num_alloc + 2]
=============================================================================
