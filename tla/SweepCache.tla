----------------------------- MODULE SweepCache -----------------------------
(***************************************************************************)
(* One sweep cache as a front end uses it (spectool_curses.c and the graph *)
(* widgets of spectool_gtk_widget.c): every complete sweep is appended,    *)
(* and when the device of a widget reports a configuration its cache is    *)
(* freed and allocated anew.  A widget bound to a second device keeps the  *)
(* callback of the first one, and curses never allocates a second cache,   *)
(* so sweeps of another length can be appended to one cache: Lens has more *)
(* than one member.                                                        *)
(***************************************************************************)
EXTENDS SweepCacheOps

CONSTANTS
  NumSlots,     \* num_alloc of the cache
  Lens,         \* the num_samples of the sweeps that can arrive
  Levels,       \* the levels a bin can have
  CalcPeak,     \* the calc_peak and calc_avg the cache is allocated with
  CalcAvg,
  MaxAppends    \* bound of the model: sweeps accepted since the allocation

ASSUME NumSlotsAssumption == NumSlots \in Nat \ {0}
ASSUME LensAssumption     == Lens \subseteq Nat
ASSUME LevelsAssumption   == Levels \subseteq Nat
ASSUME CalcAssumption     == CalcPeak \in BOOLEAN /\ CalcAvg \in BOOLEAN
ASSUME MaxAssumption      == MaxAppends \in Nat

Sweep == [len : Lens, rssi : Levels]

VARIABLES
  cache,    \* the cache
  hist      \* every sweep accepted since it was allocated, oldest first

vars == <<cache, hist>>

Init ==
  /\ cache = CacheAlloc(NumSlots, CalcPeak, CalcAvg)
  /\ hist = <<>>

(* A sweep arrives and spectool_cache_append is called with it.            *)
AppendSweep(s) ==
  /\ Len(hist) < MaxAppends
  /\ cache' = CacheAppend(cache, s)
  /\ hist' = IF Rejects(cache, s) THEN hist ELSE Append(hist, s)

(* The device is configured: the cache is freed and allocated again.       *)
Reconfigure ==
  /\ cache' = CacheAlloc(NumSlots, CalcPeak, CalcAvg)
  /\ hist' = <<>>

Next == (\E s \in Sweep : AppendSweep(s)) \/ Reconfigure

Spec == Init /\ [][Next]_vars

-----------------------------------------------------------------------------
(* An aggregate is NULL or a sweep of its own.                             *)
IsAggregate(x) ==
  x = NoSweep \/ (x.len \in Lens /\ x = [len |-> x.len, rssi |-> x.rssi])

(***************************************************************************)
(* The cache has the fields of struct _spectool_sweep_cache; pos is -1     *)
(* before the first append.  Which levels the aggregates have is the       *)
(* subject of the properties below.                                        *)
(***************************************************************************)
TypeOK ==
  /\ hist \in Seq(Sweep)
  /\ cache \in [sweeplist : [0 .. NumSlots - 1 -> Sweep \cup {NoSweep}],
                latest    : Sweep \cup {NoSweep},
                avg : {cache.avg}, peak : Sweep \cup {NoSweep}, roll_peak : {cache.roll_peak},
                num_alloc : {NumSlots}, pos : -1 .. NumSlots - 1,
                looped : BOOLEAN, num_used : 0 .. NumSlots,
                calc_peak : {CalcPeak}, calc_avg : {CalcAvg}]
  /\ IsAggregate(cache.avg) /\ IsAggregate(cache.roll_peak)

(* How many appends ago slot i was last written, had the ring always run.  *)
SlotAge(i) == IF i <= cache.pos THEN cache.pos - i ELSE cache.pos + NumSlots - i

(***************************************************************************)
(* The ring holds exactly the newest sweeps: slot i has the sweep appended *)
(* SlotAge(i) appends before the newest, or nothing when there were not    *)
(* that many, and num_used counts the filled slots.  The iterator, the     *)
(* widgets (which read sweeplist up to pos, or to num_alloc once looped)   *)
(* and the aggregates all rely on it.                                      *)
(***************************************************************************)
RingHoldsNewest ==
  /\ \A i \in 0 .. NumSlots - 1 :
       cache.sweeplist[i] = IF SlotAge(i) < Len(hist)
                            THEN hist[Len(hist) - SlotAge(i)] ELSE NoSweep
  /\ cache.num_used = IF Len(hist) < NumSlots THEN Len(hist) ELSE NumSlots
  /\ cache.looped <=> Len(hist) > NumSlots

(* The sweeps the ring should hold, from the history.                      *)
Window == {k \in 1 .. Len(hist) : k > Len(hist) - NumSlots}

(***************************************************************************)
(* The peak is the highest level since the allocation, and not only of the *)
(* sweeps still in the ring (spectool_cache_append, "allocate or update    *)
(* the peak").                                                             *)
(***************************************************************************)
PeakIsRunningMax ==
  CalcPeak /\ hist # <<>> =>
    /\ \A k \in 1 .. Len(hist) : hist[k].rssi <= cache.peak.rssi
    /\ \E k \in 1 .. Len(hist) : hist[k].rssi = cache.peak.rssi

(***************************************************************************)
(* The rolling peak is the highest level among the sweeps in the ring: the *)
(* slot just written is not visited before the ring wraps, but the sweep   *)
(* itself seeds the maximum.                                               *)
(***************************************************************************)
RollPeakIsWindowMax ==
  CalcPeak /\ hist # <<>> =>
    /\ \A k \in Window : hist[k].rssi <= cache.roll_peak.rssi
    /\ \E k \in Window : hist[k].rssi = cache.roll_peak.rssi

(***************************************************************************)
(* The average is the mean of the ring once the ring has wrapped.  Before  *)
(* that it lags one sweep behind: the sweep just appended is not in it,    *)
(* except that the very first one is copied.                               *)
(***************************************************************************)
AvgIsWindowMean ==
  LET averaged == IF cache.looped \/ Len(hist) = 1 THEN Window
                  ELSE Window \ {Len(hist)}
  IN  CalcAvg /\ hist # <<>> =>
        cache.avg.rssi = MeanLevel(hist, averaged)

(***************************************************************************)
(* No append the front end can make reads or writes outside a sweep.  For  *)
(* a cache with an average this is what the length test at the top of      *)
(* spectool_cache_append is for ("Make sure we don't overflow and crash"); *)
(* a cache with neither aggregate needs no test.                           *)
(***************************************************************************)
AppendsAreSafe == \A s \in Sweep : ~AppendFaults(cache, s)

(***************************************************************************)
(* Walking the cache with the iterator yields the sweeps newest first and  *)
(* leaves none out.                                                        *)
(***************************************************************************)
ItrNewestFirst ==
  LET slots == ItrSlots(cache).seen
      n     == IF Len(hist) < NumSlots THEN Len(hist) ELSE NumSlots
  IN  /\ ItrSlots(cache).done
      /\ Len(slots) >= n
      /\ \A k \in 1 .. n : cache.sweeplist[slots[k]] = hist[Len(hist) + 1 - k]

(***************************************************************************)
(* The iterator stops when every sweep has been seen: "if we've covered it *)
(* all, punt" (spectool_cache_itr_next).                                   *)
(***************************************************************************)
ItrPuntsWhenCovered == Len(ItrSlots(cache).seen) = cache.num_used
=============================================================================
