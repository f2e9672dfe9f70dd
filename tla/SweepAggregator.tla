-------------------------- MODULE SweepAggregator --------------------------
(***************************************************************************)
(* One aggregating sweep callback of the device registry                   *)
(* (spectool_gtk_hw_registry.c): wdr_add_sweepcb gives it a cache of       *)
(* num_agg slots, and wdr_sweep_update feeds it each sweep of the device   *)
(* and calls the widget back with the peak of every num_agg-th batch.  The *)
(* cache is cleared and not freed after a delivery, so it goes on with the *)
(* sweeps of the last batch still in its ring and with pos 0 instead of -1.*)
(***************************************************************************)
EXTENDS SweepCacheOps

CONSTANTS
  NumAggs,      \* the num_agg widgets ask for: 1 topo, 2 planar, 3 spectral
  Levels        \* the levels a bin can have

ASSUME NumAggsAssumption == NumAggs \subseteq Nat \ {0}
ASSUME LevelsAssumption  == Levels \subseteq Nat

(* A registry slot is one device, whose sweeps all have one length.        *)
Sweep == [len : {1}, rssi : Levels]

VARIABLES
  num_agg,      \* the struct's num_agg, fixed when the callback is added
  agg_sweep,    \* its cache
  pos_agg,      \* sweeps appended since the last delivery
  delivered,    \* the sweep last handed to the widget, or NoSweep
  batch,        \* history: the device's sweeps cut into batches of num_agg:
  full          \*   the batch being filled and the last one completed

vars == <<num_agg, agg_sweep, pos_agg, delivered, batch, full>>

(* wdr_add_sweepcb with nagg > 0.                                          *)
Init ==
  /\ num_agg \in NumAggs
  /\ agg_sweep = CacheAlloc(num_agg, TRUE, FALSE)
  /\ pos_agg = 0
  /\ delivered = NoSweep
  /\ batch = <<>>
  /\ full = <<>>

(* wdr_sweep_update on a complete sweep, for this callback.                *)
SweepUpdate(s) ==
  /\ IF pos_agg + 1 = num_agg
     THEN /\ delivered' = CacheAppend(agg_sweep, s).peak
          /\ agg_sweep' = CacheClear(CacheAppend(agg_sweep, s))
          /\ pos_agg' = 0
     ELSE /\ agg_sweep' = CacheAppend(agg_sweep, s)
          /\ pos_agg' = pos_agg + 1
          /\ UNCHANGED delivered
  /\ IF Len(batch) + 1 = num_agg
     THEN batch' = <<>> /\ full' = Append(batch, s)
     ELSE batch' = Append(batch, s) /\ UNCHANGED full
  /\ UNCHANGED num_agg

Next == \E s \in Sweep : SweepUpdate(s)

Spec == Init /\ [][Next]_vars

-----------------------------------------------------------------------------
(***************************************************************************)
(* A widget gets every batch of num_agg sweeps once: what it was handed    *)
(* last is the peak of exactly the last complete batch, with nothing of an *)
(* earlier one in it, and nothing of the batch now being filled.           *)
(***************************************************************************)
DeliveredIsBatchPeak ==
  /\ pos_agg = Len(batch)
  /\ full # <<>> =>
       delivered = [len |-> 1, rssi |-> Max({full[k].rssi : k \in DOMAIN full})]

(***************************************************************************)
(* The rolling peak's loop never meets an empty slot, although clear sends *)
(* pos back to 0 and the next append therefore skips slot 0: a delivery    *)
(* comes only when every slot has been filled once.                        *)
(***************************************************************************)
AppendsAreSafe == \A s \in Sweep : ~AppendFaults(agg_sweep, s)
=============================================================================
