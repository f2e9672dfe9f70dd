-------------------------- MODULE SweepCacheProofs --------------------------
(***************************************************************************)
(* Proofs about SweepCache, for every number of slots, every set of sweep  *)
(* lengths and levels, and every history.                                  *)
(***************************************************************************)
EXTENDS SweepCache, DataLemmas

-----------------------------------------------------------------------------
(***************************************************************************)
(* What an accepted append does to each field.                             *)
(***************************************************************************)
AppendedCache(s) ==
  [sweeplist |-> Stored(cache, s), latest |-> s,
   avg |-> NewAvg(cache, s), peak |-> NewPeak(cache, s), roll_peak |-> NewRollPeak(cache, s),
   num_alloc |-> NumSlots, pos |-> NextPos(cache),
   looped |-> (cache.looped \/ Wraps(cache)),
   num_used |-> IF ~Wraps(cache) /\ cache.num_used < NumSlots
                THEN cache.num_used + 1 ELSE cache.num_used,
   calc_peak |-> CalcPeak, calc_avg |-> CalcAvg]

LEMMA AppendFields ==
  ASSUME TypeOK, NEW s \in Sweep, ~Rejects(cache, s)
  PROVE  CacheAppend(cache, s) = AppendedCache(s)
BY DEF TypeOK, CacheAppend, AppendedCache

(***************************************************************************)
(* The slot written is one of the ring, and the aggregates stay sweeps of  *)
(* their own.                                                              *)
(***************************************************************************)
LEMMA AppendTypes ==
  ASSUME TypeOK, NEW s \in Sweep, ~Rejects(cache, s)
  PROVE  /\ NextPos(cache) \in 0 .. NumSlots - 1
         /\ Stored(cache, s) \in [0 .. NumSlots - 1 -> Sweep \cup {NoSweep}]
         /\ NewPeak(cache, s) \in Sweep \cup {NoSweep}
         /\ IsAggregate(NewAvg(cache, s))
         /\ IsAggregate(NewRollPeak(cache, s))
<1>1. NextPos(cache) \in 0 .. NumSlots - 1
  BY NumSlotsAssumption DEF TypeOK, NextPos, Wraps
<1>2. Stored(cache, s) \in [0 .. NumSlots - 1 -> Sweep \cup {NoSweep}]
  BY <1>1 DEF TypeOK, Stored
<1>3. NewPeak(cache, s) \in Sweep \cup {NoSweep}
  BY DEF TypeOK, NewPeak, Sweep
<1>4. IsAggregate(s)
  BY DEF IsAggregate, Sweep
<1>5. IsAggregate(NewAvg(cache, s))
  BY <1>4 DEF TypeOK, NewAvg, IsAggregate
<1>6. IsAggregate(NewRollPeak(cache, s))
  BY <1>4 DEF TypeOK, NewRollPeak, IsAggregate, Sweep
<1>. QED  BY <1>1, <1>2, <1>3, <1>5, <1>6

LEMMA InitTypeOK == Init => TypeOK
BY NumSlotsAssumption, CalcAssumption
DEF Init, TypeOK, CacheAlloc, IsAggregate

LEMMA NextTypeOK == TypeOK /\ [Next]_vars => TypeOK'
<1>. SUFFICES ASSUME TypeOK, [Next]_vars PROVE TypeOK'
  OBVIOUS
<1>1. ASSUME NEW s \in Sweep, AppendSweep(s) PROVE TypeOK'
  <2>1. CASE Rejects(cache, s)
    BY <1>1, <2>1 DEF AppendSweep, CacheAppend, TypeOK, IsAggregate
  <2>2. CASE ~Rejects(cache, s)
    <3>1. hist' \in Seq(Sweep)
      BY <1>1, <2>2 DEF AppendSweep, TypeOK
    <3>2. cache' = AppendedCache(s)
      BY <1>1, <2>2, AppendFields DEF AppendSweep
    <3>3. /\ AppendedCache(s).num_used \in 0 .. NumSlots
          /\ AppendedCache(s).looped \in BOOLEAN
      BY NumSlotsAssumption DEF TypeOK, AppendedCache, Wraps
    <3>4. IsAggregate(cache.avg)' /\ IsAggregate(cache.roll_peak)'
      BY <2>2, <3>2, AppendTypes DEF AppendedCache, IsAggregate
    <3>. QED
      BY <2>2, <3>1, <3>2, <3>3, <3>4, AppendTypes DEF TypeOK, AppendedCache
  <2>. QED  BY <2>1, <2>2
<1>2. CASE Reconfigure
  BY <1>2, NumSlotsAssumption, CalcAssumption DEF Reconfigure, TypeOK, CacheAlloc, IsAggregate
<1>3. CASE UNCHANGED vars
  BY <1>3 DEF vars, TypeOK, IsAggregate
<1>. QED  BY <1>1, <1>2, <1>3 DEF Next

(***************************************************************************)
(* The cache keeps the types of its struct.                                *)
(***************************************************************************)
THEOREM TypeCorrect == Spec => []TypeOK
BY InitTypeOK, NextTypeOK, PTL DEF Spec

-----------------------------------------------------------------------------
(***************************************************************************)
(* The ring.  RingHoldsNewest is not inductive alone: it does not say that *)
(* the ring is written from slot 0 on, so that it wraps after exactly      *)
(* NumSlots appends and not before.                                        *)
(***************************************************************************)
FilledFromZero == Len(hist) <= NumSlots => cache.pos = Len(hist) - 1

RingInv == TypeOK /\ FilledFromZero /\ RingHoldsNewest

LEMMA InitRing == Init => RingInv
<1>. SUFFICES ASSUME Init PROVE RingInv
  OBVIOUS
<1>1. TypeOK
  BY InitTypeOK
<1>2. FilledFromZero /\ RingHoldsNewest
  BY NumSlotsAssumption DEF Init, CacheAlloc, FilledFromZero, RingHoldsNewest, SlotAge
<1>. QED  BY <1>1, <1>2 DEF RingInv

LEMMA AppendRing ==
  ASSUME RingInv, TypeOK', NEW s \in Sweep, AppendSweep(s), ~Rejects(cache, s)
  PROVE  FilledFromZero' /\ RingHoldsNewest'
<1>1. /\ cache' = AppendedCache(s)
      /\ hist' = Append(hist, s)
  BY AppendFields DEF AppendSweep, RingInv
<1>2. /\ hist \in Seq(Sweep) /\ NumSlots \in Nat /\ NumSlots > 0
      /\ cache.pos \in -1 .. NumSlots - 1 /\ cache.num_used \in 0 .. NumSlots
      /\ cache.sweeplist \in [0 .. NumSlots - 1 -> Sweep \cup {NoSweep}]
      /\ cache.num_alloc = NumSlots /\ cache.looped \in BOOLEAN
  BY NumSlotsAssumption DEF RingInv, TypeOK
<1>3. /\ Len(hist') = Len(hist) + 1 /\ Len(hist) \in Nat
      /\ hist'[Len(hist')] = s
      /\ \A k \in 1 .. Len(hist) : hist'[k] = hist[k]
  BY <1>1, <1>2
<1>4. /\ cache'.pos = IF cache.pos = NumSlots - 1 THEN 0 ELSE cache.pos + 1
      /\ cache'.sweeplist = [cache.sweeplist EXCEPT ![cache'.pos] = s]
      /\ cache'.pos \in 0 .. NumSlots - 1
      /\ cache'.looped = (cache.looped \/ cache.pos = NumSlots - 1)
      /\ cache'.num_used = IF cache.pos # NumSlots - 1 /\ cache.num_used < NumSlots
                           THEN cache.num_used + 1 ELSE cache.num_used
  BY <1>1, <1>2 DEF AppendedCache, Stored, NextPos, Wraps
<1>5. FilledFromZero'
  BY <1>2, <1>3, <1>4 DEF RingInv, FilledFromZero
<1>6. ASSUME NEW i \in 0 .. NumSlots - 1
      PROVE  cache'.sweeplist[i] = IF SlotAge(i)' < Len(hist')
                                   THEN hist'[Len(hist') - SlotAge(i)'] ELSE NoSweep
  <2>1. CASE i = cache'.pos
    BY <1>2, <1>3, <1>4, <2>1 DEF SlotAge
  <2>2. CASE i # cache'.pos
    <3>1. SlotAge(i)' = SlotAge(i) + 1 /\ SlotAge(i) \in Nat
      <4>1. /\ SlotAge(i) = IF i <= cache.pos THEN cache.pos - i ELSE cache.pos + NumSlots - i
            /\ SlotAge(i)' = IF i <= cache'.pos THEN cache'.pos - i ELSE cache'.pos + NumSlots - i
        BY DEF SlotAge
      <4>2. /\ i \in Int /\ i >= 0 /\ i <= NumSlots - 1
            /\ cache.pos \in Int /\ NumSlots \in Int /\ cache.pos <= NumSlots - 1
        BY <1>2
      <4>3. CASE cache.pos = NumSlots - 1
        <5>1. cache'.pos = 0
          BY <1>4, <4>3
        <5>. QED  BY <2>2, <4>1, <4>2, <4>3, <5>1
      <4>4. CASE cache.pos # NumSlots - 1
        <5>1. cache'.pos = cache.pos + 1
          BY <1>4, <4>4
        <5>2. CASE i <= cache.pos
          BY <4>1, <4>2, <5>1, <5>2
        <5>3. CASE ~(i <= cache.pos)
          <6>1. i > cache.pos + 1
            BY <2>2, <4>2, <5>1, <5>3
          <6>2. cache.pos + NumSlots - i \in Nat
            BY <1>2, <4>2
          <6>. QED  BY <4>1, <4>2, <5>1, <5>3, <6>1, <6>2
        <5>. QED  BY <5>2, <5>3
      <4>. QED  BY <4>3, <4>4
    <3>2. cache'.sweeplist[i] = IF SlotAge(i) < Len(hist)
                                THEN hist[Len(hist) - SlotAge(i)] ELSE NoSweep
      BY <1>2, <1>4, <2>2 DEF RingInv, RingHoldsNewest
    <3>3. Len(hist') - SlotAge(i)' = Len(hist) - SlotAge(i)
      BY <1>3, <3>1
    <3>. QED  BY <1>3, <3>1, <3>2, <3>3
  <2>. QED  BY <2>1, <2>2
<1>7. cache'.num_used = IF Len(hist') < NumSlots THEN Len(hist') ELSE NumSlots
  BY <1>2, <1>3, <1>4 DEF RingInv, RingHoldsNewest, FilledFromZero
<1>8. cache'.looped <=> Len(hist') > NumSlots
  <2>. DEFINE wraps == cache.pos = NumSlots - 1
  <2>1. cache'.looped <=> (cache.looped \/ wraps)
    <3>1. cache'.looped = (cache.looped \/ wraps)
      BY <1>4
    <3>. HIDE DEF wraps
    <3>. QED  BY <1>2, <3>1, Zenon
  <2>2. cache.looped <=> Len(hist) > NumSlots
    BY DEF RingInv, RingHoldsNewest
  <2>3. Len(hist) <= NumSlots => cache.pos = Len(hist) - 1
    BY DEF RingInv, FilledFromZero
  <2>4. CASE cache.looped
    <3>1. Len(hist) + 1 > NumSlots
      BY <1>2, <1>3, <2>2, <2>4
    <3>. QED  BY <1>3, <2>4, <2>1, <3>1
  <2>5. CASE ~cache.looped
    <3>1. cache.pos = NumSlots - 1 <=> Len(hist) + 1 > NumSlots
      BY <1>2, <1>3, <2>2, <2>3, <2>5
    <3>. QED  BY <1>3, <2>5, <2>1, <3>1
  <2>. QED  BY <2>4, <2>5
<1>. QED  BY <1>5, <1>6, <1>7, <1>8 DEF RingHoldsNewest

LEMMA NextRing == RingInv /\ [Next]_vars => RingInv'
<1>. SUFFICES ASSUME RingInv, [Next]_vars PROVE RingInv'
  OBVIOUS
<1>1. TypeOK'
  BY NextTypeOK DEF RingInv
<1>2. ASSUME NEW s \in Sweep, AppendSweep(s) PROVE FilledFromZero' /\ RingHoldsNewest'
  <2>1. CASE Rejects(cache, s)
    BY <1>2, <2>1
    DEF AppendSweep, CacheAppend, RingInv, FilledFromZero, RingHoldsNewest, SlotAge
  <2>2. CASE ~Rejects(cache, s)
    BY <1>1, <1>2, <2>2, AppendRing
  <2>. QED  BY <2>1, <2>2
<1>3. ASSUME Reconfigure PROVE FilledFromZero' /\ RingHoldsNewest'
  <2>1. /\ cache'.sweeplist = [x \in 0 .. NumSlots - 1 |-> NoSweep]
        /\ cache'.pos = -1 /\ cache'.num_used = 0 /\ cache'.looped = FALSE
        /\ hist' = <<>> /\ Len(hist') = 0
    BY <1>3 DEF Reconfigure, CacheAlloc
  <2>2. \A i \in 0 .. NumSlots - 1 : ~(SlotAge(i)' < 0)
    BY <2>1, NumSlotsAssumption DEF SlotAge
  <2>. QED  BY <2>1, <2>2, NumSlotsAssumption DEF FilledFromZero, RingHoldsNewest
<1>4. ASSUME UNCHANGED vars PROVE FilledFromZero' /\ RingHoldsNewest'
  <2>1. cache' = cache /\ hist' = hist
    BY <1>4 DEF vars
  <2>2. \A i \in 0 .. NumSlots - 1 : SlotAge(i)' = SlotAge(i)
    BY <2>1 DEF SlotAge
  <2>. QED  BY <2>1, <2>2 DEF RingInv, FilledFromZero, RingHoldsNewest
<1>. QED  BY <1>1, <1>2, <1>3, <1>4 DEF Next, RingInv

(***************************************************************************)
(* The ring always holds exactly the newest sweeps, each in its slot.      *)
(***************************************************************************)
THEOREM RingCorrect == Spec => []RingHoldsNewest
<1>1. RingInv => RingHoldsNewest
  BY DEF RingInv
<1>. QED  BY <1>1, InitRing, NextRing, PTL DEF Spec

-----------------------------------------------------------------------------
(***************************************************************************)
(* The aggregates.  Once a sweep was accepted, the aggregates asked for    *)
(* exist, and the average has the length of every sweep accepted: that is  *)
(* what the length test of spectool_cache_append maintains.                *)
(***************************************************************************)
AggregatesExist ==
  /\ hist = <<>> => cache.avg = NoSweep /\ cache.peak = NoSweep
  /\ hist # <<>> => (CalcAvg <=> cache.avg # NoSweep) /\ (CalcPeak <=> cache.peak # NoSweep)

LengthsAgree ==
  /\ cache.avg # NoSweep => \A k \in 1 .. Len(hist) : hist[k].len = cache.avg.len
  /\ cache.peak # NoSweep => hist # <<>> /\ cache.peak.len = hist[1].len

AggInv == RingInv /\ AggregatesExist /\ LengthsAgree /\ PeakIsRunningMax

(* A sweep is not the NULL pointer, nor is an aggregate with a new level.  *)
LEMMA SweepNotNull ==
  /\ \A s \in Sweep : s # NoSweep /\ s.len \in Lens /\ s.rssi \in Levels
  /\ \A x, l : x = [len |-> x.len, rssi |-> x.rssi] =>
       [x EXCEPT !.rssi = l] # NoSweep /\ [x EXCEPT !.rssi = l].len = x.len
BY DEF Sweep, NoSweep

LEMMA InitAgg == Init => AggInv
<1>. SUFFICES ASSUME Init PROVE AggInv
  OBVIOUS
<1>1. RingInv
  BY InitRing
<1>2. cache.avg = NoSweep /\ cache.peak = NoSweep /\ hist = <<>>
  BY DEF Init, CacheAlloc
<1>. QED  BY <1>1, <1>2 DEF AggInv, AggregatesExist, LengthsAgree, PeakIsRunningMax

LEMMA AppendAgg ==
  ASSUME AggInv, RingInv', NEW s \in Sweep, AppendSweep(s), ~Rejects(cache, s)
  PROVE  AggInv'
<1>1. TypeOK /\ cache' = AppendedCache(s) /\ hist' = Append(hist, s)
  BY AppendFields DEF AppendSweep, AggInv, RingInv
<1>2. /\ hist \in Seq(Sweep)
      /\ IsAggregate(cache.avg)
      /\ cache.peak \in Sweep \cup {NoSweep}
      /\ cache.calc_avg = CalcAvg /\ cache.calc_peak = CalcPeak
  BY <1>1 DEF TypeOK
<1>3. /\ Len(hist') = Len(hist) + 1 /\ Len(hist) \in Nat /\ hist' # <<>>
      /\ hist'[Len(hist) + 1] = s
      /\ \A k \in 1 .. Len(hist) : hist'[k] = hist[k] /\ hist[k] \in Sweep
  BY <1>1, <1>2
<1>4. cache'.avg = NewAvg(cache, s) /\ cache'.peak = NewPeak(cache, s)
  BY <1>1 DEF AppendedCache
<1>5. /\ CalcAvg <=> cache'.avg # NoSweep
      /\ cache'.avg # NoSweep => cache'.avg.len = s.len
  <2>1. CASE ~CalcAvg
    BY <1>2, <1>4, <2>1 DEF NewAvg, AggInv, AggregatesExist
  <2>2. CASE CalcAvg /\ cache.avg = NoSweep
    BY <1>2, <1>4, <2>2, SweepNotNull DEF NewAvg
  <2>3. CASE CalcAvg /\ cache.avg # NoSweep
    <3>1. cache.avg.len = s.len
      BY <2>3 DEF Rejects
    <3>2. cache.avg = [len |-> cache.avg.len, rssi |-> cache.avg.rssi]
      BY <1>2, <2>3 DEF IsAggregate
    <3>. QED  BY <1>2, <1>4, <2>3, <3>1, <3>2, SweepNotNull DEF NewAvg
  <2>. QED  BY <2>1, <2>2, <2>3
<1>6. CalcPeak <=> cache'.peak # NoSweep
  BY <1>2, <1>4, SweepNotNull DEF NewPeak, Sweep, AggInv, AggregatesExist
<1>7. AggregatesExist'
  BY <1>3, <1>5, <1>6 DEF AggregatesExist
<1>8. LengthsAgree'
  <2>1. ASSUME cache'.avg # NoSweep, NEW k \in 1 .. Len(hist')
        PROVE  hist'[k].len = cache'.avg.len
    <3>1. CASE k = Len(hist) + 1
      BY <1>3, <1>5, <2>1, <3>1
    <3>2. CASE k # Len(hist) + 1
      <4>1. k \in 1 .. Len(hist) /\ hist # <<>>
        BY <1>2, <1>3, <3>2
      <4>2. cache.avg # NoSweep
        BY <1>5, <2>1, <4>1 DEF AggInv, AggregatesExist
      <4>3. cache.avg.len = s.len
        BY <4>2 DEF Rejects
      <4>. QED  BY <1>3, <1>5, <2>1, <4>1, <4>2, <4>3 DEF AggInv, LengthsAgree
    <3>. QED  BY <3>1, <3>2
  <2>2. ASSUME cache'.peak # NoSweep PROVE hist' # <<>> /\ cache'.peak.len = hist'[1].len
    <3>1. CASE cache.peak = NoSweep
      <4>1. hist = <<>>
        BY <1>6, <2>2, <3>1 DEF AggInv, AggregatesExist
      <4>. QED  BY <1>2, <1>3, <1>4, <1>6, <2>2, <3>1, <4>1 DEF NewPeak
    <3>2. CASE cache.peak # NoSweep
      <4>1. hist # <<>> /\ cache.peak.len = hist[1].len
        BY <3>2 DEF AggInv, LengthsAgree
      <4>2. hist'[1] = hist[1]
        BY <1>2, <1>3, <4>1
      <4>3. cache'.peak.len = cache.peak.len
        BY <1>2, <1>4, <1>6, <2>2, <3>2 DEF NewPeak, Sweep
      <4>. QED  BY <1>3, <4>1, <4>2, <4>3
    <3>. QED  BY <3>1, <3>2
  <2>. QED  BY <2>1, <2>2 DEF LengthsAgree
<1>9. PeakIsRunningMax'
  <2>. SUFFICES ASSUME CalcPeak
                PROVE  /\ \A k \in 1 .. Len(hist') : hist'[k].rssi <= cache'.peak.rssi
                       /\ \E k \in 1 .. Len(hist') : hist'[k].rssi = cache'.peak.rssi
    BY DEF PeakIsRunningMax
  <2>1. s.rssi \in Nat /\ \A k \in 1 .. Len(hist) : hist[k].rssi \in Nat
    BY <1>3, SweepNotNull, LevelsAssumption
  <2>2. CASE cache.peak = NoSweep
    <3>1. hist = <<>> /\ cache'.peak = s
      BY <1>2, <1>4, <2>2 DEF NewPeak, AggInv, AggregatesExist
    <3>. QED  BY <1>3, <2>1, <3>1
  <2>3. CASE cache.peak # NoSweep
    <3>1. /\ \A k \in 1 .. Len(hist) : hist[k].rssi <= cache.peak.rssi
          /\ \E k \in 1 .. Len(hist) : hist[k].rssi = cache.peak.rssi
      BY <2>3 DEF AggInv, LengthsAgree, PeakIsRunningMax
    <3>2. cache'.peak.rssi = IF cache.peak.rssi < s.rssi THEN s.rssi ELSE cache.peak.rssi
      BY <1>2, <1>4, <2>3 DEF NewPeak, Sweep
    <3>3. cache.peak.rssi \in Nat
      BY <2>1, <3>1
    <3>. QED  BY <1>3, <2>1, <3>1, <3>2, <3>3
  <2>. QED  BY <2>2, <2>3
<1>. QED  BY <1>7, <1>8, <1>9 DEF AggInv

LEMMA NextAgg == AggInv /\ [Next]_vars => AggInv'
<1>. SUFFICES ASSUME AggInv, [Next]_vars PROVE AggInv'
  OBVIOUS
<1>1. RingInv'
  BY NextRing DEF AggInv
<1>2. ASSUME cache' = cache, hist' = hist PROVE AggInv'
  BY <1>1, <1>2 DEF AggInv, AggregatesExist, LengthsAgree, PeakIsRunningMax
<1>3. ASSUME NEW s \in Sweep, AppendSweep(s) PROVE AggInv'
  <2>1. CASE Rejects(cache, s)
    BY <1>2, <1>3, <2>1 DEF AppendSweep, CacheAppend
  <2>2. CASE ~Rejects(cache, s)
    BY <1>1, <1>3, <2>2, AppendAgg
  <2>. QED  BY <2>1, <2>2
<1>4. ASSUME Reconfigure PROVE AggInv'
  <2>1. cache'.avg = NoSweep /\ cache'.peak = NoSweep /\ hist' = <<>>
    BY <1>4 DEF Reconfigure, CacheAlloc
  <2>. QED  BY <1>1, <2>1 DEF AggInv, AggregatesExist, LengthsAgree, PeakIsRunningMax
<1>5. CASE UNCHANGED vars
  BY <1>2, <1>5 DEF vars
<1>. QED  BY <1>3, <1>4, <1>5 DEF Next

(***************************************************************************)
(* The peak is the highest level of all sweeps since the allocation.       *)
(***************************************************************************)
THEOREM PeakCorrect == Spec => []PeakIsRunningMax
<1>1. AggInv => PeakIsRunningMax
  BY DEF AggInv
<1>. QED  BY <1>1, InitAgg, NextAgg, PTL DEF Spec

-----------------------------------------------------------------------------
(***************************************************************************)
(* Appends are safe.  The premise is one every cache of the program meets  *)
(* or does not need: with an average the length test is in force, without  *)
(* a peak nothing is dereferenced, and the aggregating caches of the       *)
(* registry, with a peak and no average, get the sweeps of one device.     *)
(***************************************************************************)
LengthsGuarded == CalcAvg \/ ~CalcPeak \/ \A l, m \in Lens : l = m

(* Every slot an append visits holds a sweep that was accepted, or the new *)
(* one.                                                                    *)
LEMMA VisitedAreFilled ==
  ASSUME RingInv, NEW s \in Sweep, NEW x \in 0 .. NumSampled(cache) - 1
  PROVE  \/ Stored(cache, s)[x] = s
         \/ \E k \in 1 .. Len(hist) : Stored(cache, s)[x] = hist[k]
<1>1. /\ hist \in Seq(Sweep) /\ NumSlots \in Nat /\ NumSlots > 0
      /\ cache.pos \in -1 .. NumSlots - 1 /\ cache.num_alloc = NumSlots
      /\ cache.sweeplist \in [0 .. NumSlots - 1 -> Sweep \cup {NoSweep}]
      /\ Len(hist) \in Nat
  BY NumSlotsAssumption DEF RingInv, TypeOK
<1>2. /\ NextPos(cache) = IF cache.pos = NumSlots - 1 THEN 0 ELSE cache.pos + 1
      /\ NumSampled(cache) = IF cache.looped \/ cache.pos = NumSlots - 1
                             THEN NumSlots ELSE cache.pos + 1
      /\ Stored(cache, s) = [cache.sweeplist EXCEPT ![NextPos(cache)] = s]
  BY <1>1 DEF NextPos, NumSampled, Wraps, Stored
<1>3. x \in 0 .. NumSlots - 1
  BY <1>1, <1>2
<1>4. CASE x = NextPos(cache)
  BY <1>1, <1>2, <1>3, <1>4
<1>5. CASE x # NextPos(cache)
  <2>1. Stored(cache, s)[x] = cache.sweeplist[x]
    BY <1>1, <1>2, <1>3, <1>5
  <2>2. SlotAge(x) \in Nat
    BY <1>1, <1>3 DEF SlotAge
  <2>3. SlotAge(x) < Len(hist)
    <3>1. CASE cache.looped \/ Len(hist) > NumSlots
      <4>1. Len(hist) > NumSlots
        BY <3>1 DEF RingInv, RingHoldsNewest
      <4>2. SlotAge(x) < NumSlots
        BY <1>1, <1>3 DEF SlotAge
      <4>. QED  BY <1>1, <2>2, <4>1, <4>2
    <3>2. CASE ~cache.looped /\ ~(Len(hist) > NumSlots)
      <4>1. cache.pos = Len(hist) - 1
        BY <1>1, <3>2 DEF RingInv, FilledFromZero
      <4>2. x <= cache.pos
        BY <1>1, <1>2, <1>3, <3>2
      <4>. QED  BY <1>1, <1>3, <4>1, <4>2 DEF SlotAge
    <3>. QED  BY <3>1, <3>2
  <2>4. cache.sweeplist[x] = hist[Len(hist) - SlotAge(x)]
    BY <1>3, <2>3 DEF RingInv, RingHoldsNewest
  <2>5. Len(hist) - SlotAge(x) \in 1 .. Len(hist)
    BY <1>1, <2>2, <2>3
  <2>. QED  BY <2>1, <2>4, <2>5
<1>. QED  BY <1>4, <1>5

LEMMA SafeStep == ASSUME LengthsGuarded, AggInv PROVE AppendsAreSafe
<1>. SUFFICES ASSUME NEW s \in Sweep, ~Rejects(cache, s)
              PROVE  ~PeakFaults(cache, s) /\ ~AvgFaults(cache, s)
  BY DEF AppendsAreSafe, AppendFaults
<1>1. /\ hist \in Seq(Sweep) /\ Len(hist) \in Nat
      /\ cache.calc_avg = CalcAvg /\ cache.calc_peak = CalcPeak
      /\ \A k \in 1 .. Len(hist) : hist[k] \in Sweep
      /\ CalcAvg \in BOOLEAN /\ CalcPeak \in BOOLEAN
  BY CalcAssumption DEF AggInv, RingInv, TypeOK
<1>2. \A k \in 1 .. Len(hist) : hist[k].len = s.len \/ (~CalcAvg /\ ~CalcPeak)
  <2>. SUFFICES ASSUME NEW k \in 1 .. Len(hist), CalcAvg \/ CalcPeak PROVE hist[k].len = s.len
    BY <1>1
  <2>1. CASE CalcAvg
    <3>1. hist # <<>> /\ cache.avg # NoSweep
      BY <1>1, <2>1 DEF AggInv, AggregatesExist
    <3>. QED  BY <3>1 DEF Rejects, AggInv, LengthsAgree
  <2>2. CASE ~CalcAvg
    <3>1. \A l, m \in Lens : l = m
      BY <2>2 DEF LengthsGuarded
    <3>. QED  BY <1>1, <3>1, SweepNotNull
  <2>. QED  BY <2>1, <2>2
<1>3. ASSUME CalcAvg \/ CalcPeak, NEW x \in 0 .. NumSampled(cache) - 1
      PROVE  Stored(cache, s)[x] # NoSweep /\ Stored(cache, s)[x].len = s.len
  <2>1. CASE Stored(cache, s)[x] = s
    BY <2>1, SweepNotNull
  <2>2. CASE \E k \in 1 .. Len(hist) : Stored(cache, s)[x] = hist[k]
    BY <1>1, <1>2, <1>3, <2>2, SweepNotNull
  <2>. QED  BY <2>1, <2>2, VisitedAreFilled DEF AggInv
<1>4. s.len \in Nat
  BY SweepNotNull, LensAssumption
<1>5. ~PeakFaults(cache, s)
  <2>. SUFFICES ASSUME CalcPeak, cache.peak # NoSweep,
                       \/ s.len # cache.peak.len
                       \/ \E x \in 0 .. NumSampled(cache) - 1 :
                            Stored(cache, s)[x] = NoSweep \/ Stored(cache, s)[x].len < s.len
                PROVE  FALSE
    BY <1>1 DEF PeakFaults
  <2>1. cache.peak.len = s.len
    BY <1>1, <1>2 DEF AggInv, LengthsAgree
  <2>. QED  BY <1>3, <1>4, <2>1
<1>6. ~AvgFaults(cache, s)
  <2>. SUFFICES ASSUME CalcAvg, cache.avg # NoSweep,
                       NEW x \in 0 .. NumSampled(cache) - 1,
                       Stored(cache, s)[x].len < cache.avg.len
                PROVE  FALSE
    BY <1>1 DEF AvgFaults, Filled
  <2>1. cache.avg.len = s.len
    BY DEF Rejects
  <2>. QED  BY <1>3, <1>4, <2>1
<1>. QED  BY <1>5, <1>6

(***************************************************************************)
(* No append reads or writes outside a sweep, whatever sweeps arrive.      *)
(***************************************************************************)
THEOREM AppendsSafe == LengthsGuarded => (Spec => []AppendsAreSafe)
<1>. SUFFICES ASSUME LengthsGuarded PROVE Spec => []AppendsAreSafe
  OBVIOUS
<1>1. AggInv => AppendsAreSafe
  BY SafeStep
<1>. QED  BY <1>1, InitAgg, NextAgg, PTL DEF Spec

-----------------------------------------------------------------------------
(***************************************************************************)
(* The rolling peak.  It is computed afresh by every append from the slots *)
(* visited, which are all the sweeps of the window but the new one until   *)
(* the ring wraps and all of them from then on.                            *)
(***************************************************************************)
RollInv == AggInv /\ RollPeakIsWindowMax

(* The levels over which an append takes the maximum.                      *)
Visited(s) ==
  {s.rssi} \cup {Stored(cache, s)[x].rssi : x \in Filled(Stored(cache, s), NumSampled(cache))}

LEMMA VisitedMax ==
  ASSUME TypeOK, NEW s \in Sweep
  PROVE  Max(Visited(s)) \in Visited(s) /\ \A y \in Visited(s) : y <= Max(Visited(s))
<1> DEFINE n == NumSampled(cache)
           f == [x \in 0 .. n - 1 |->
                   IF Stored(cache, s)[x] = NoSweep THEN 0 ELSE Stored(cache, s)[x].rssi]
<1>1. /\ n \in 0 .. NumSlots /\ NextPos(cache) \in 0 .. NumSlots - 1
      /\ Stored(cache, s) \in [0 .. NumSlots - 1 -> Sweep \cup {NoSweep}]
  BY NumSlotsAssumption DEF TypeOK, NumSampled, NextPos, Wraps, Stored
<1>2. \A x \in 0 .. n - 1 : f[x] \in Nat
  <2> TAKE x \in 0 .. n - 1
  <2>1. Stored(cache, s)[x] \in Sweep \cup {NoSweep}
    BY <1>1, NumSlotsAssumption
  <2> QED
    BY <2>1, SweepNotNull, LevelsAssumption
<1>3. PICK b \in Nat : \A x \in 0 .. n - 1 : f[x] <= b
  <2> HIDE DEF f, n
  <2>1. n \in Nat
    BY <1>1
  <2> QED
    BY <1>2, <2>1, ValuesAreBounded
<1>4. s.rssi \in Nat
  BY SweepNotNull, LevelsAssumption
<1>5. ASSUME NEW y \in Visited(s) PROVE y \in Nat /\ y <= b + s.rssi
  <2>1. CASE y = s.rssi
    BY <1>4, <2>1
  <2>2. CASE \E x \in Filled(Stored(cache, s), n) : y = Stored(cache, s)[x].rssi
    <3>1. PICK x \in 0 .. n - 1 : y = f[x]
      BY <2>2 DEF Filled
    <3> HIDE DEF f, n
    <3> QED
      BY <1>2, <1>3, <1>4, <3>1
  <2> QED
    BY <2>1, <2>2 DEF Visited
<1>6. b + s.rssi \in Nat /\ Visited(s) # {}
  <2>1. s.rssi \in Visited(s)
    BY DEF Visited
  <2> QED
    BY <1>4, <2>1
<1> QED
  <2>1. Visited(s) \subseteq Nat
    BY <1>5
  <2> HIDE DEF f, n
  <2> QED
    BY <1>5, <1>6, <2>1, MaxOfBounded

LEMMA AppendRoll ==
  ASSUME AggInv, AggInv', NEW s \in Sweep, AppendSweep(s), ~Rejects(cache, s)
  PROVE  RollPeakIsWindowMax'
<1>1. TypeOK /\ cache' = AppendedCache(s) /\ hist' = Append(hist, s)
  BY AppendFields DEF AppendSweep, AggInv, RingInv
<1>2. /\ hist \in Seq(Sweep) /\ Len(hist) \in Nat /\ NumSlots \in Nat /\ NumSlots > 0
      /\ cache.calc_peak = CalcPeak /\ cache.pos \in -1 .. NumSlots - 1
      /\ cache.num_alloc = NumSlots
      /\ cache.peak \in Sweep \cup {NoSweep}
  BY <1>1, NumSlotsAssumption DEF TypeOK
<1>3. /\ Len(hist') = Len(hist) + 1 /\ hist' # <<>> /\ hist'[Len(hist) + 1] = s
      /\ \A k \in 1 .. Len(hist) + 1 : hist'[k] \in Sweep
  BY <1>1, <1>2
<1>4. /\ cache'.sweeplist = Stored(cache, s) /\ cache'.pos = NextPos(cache)
      /\ cache'.looped = (cache.looped \/ Wraps(cache))
      /\ cache'.roll_peak = NewRollPeak(cache, s)
  BY <1>1 DEF AppendedCache
<1>5. /\ NextPos(cache) = IF cache.pos = NumSlots - 1 THEN 0 ELSE cache.pos + 1
      /\ NumSampled(cache) = IF cache.looped \/ cache.pos = NumSlots - 1
                             THEN NumSlots ELSE cache.pos + 1
  BY <1>2 DEF NextPos, NumSampled, Wraps
<1>6. Len(hist) + 1 \in Window'
  BY <1>2, <1>3 DEF Window
<1> SUFFICES ASSUME CalcPeak
             PROVE  /\ \A k \in Window' : hist'[k].rssi <= cache'.roll_peak.rssi
                    /\ \E k \in Window' : hist'[k].rssi = cache'.roll_peak.rssi
  BY DEF RollPeakIsWindowMax
<1>7. CASE cache.peak = NoSweep
  <2>1. hist = <<>> /\ cache'.roll_peak = s
    BY <1>2, <1>4, <1>7 DEF NewRollPeak, AggInv, AggregatesExist
  <2>2. Window' = {1}
    BY <1>2, <1>3, <2>1 DEF Window
  <2>3. s.rssi \in Nat
    BY SweepNotNull, LevelsAssumption
  <2> QED
    BY <1>3, <2>1, <2>2, <2>3
<1>8. CASE cache.peak # NoSweep
  <2>1. cache'.roll_peak.rssi = Max(Visited(s))
    BY <1>2, <1>4, <1>8 DEF NewRollPeak, Visited, Sweep
  (* Every sweep of the window has its level among those visited ...       *)
  <2>2. ASSUME NEW k \in Window' PROVE hist'[k].rssi \in Visited(s)
    <3>1. CASE k = Len(hist) + 1
      BY <1>3, <3>1 DEF Visited
    <3>2. CASE k # Len(hist) + 1
      <4> DEFINE age == Len(hist') - k
      <4>1. k \in 1 .. Len(hist') /\ age \in 1 .. NumSlots - 1 /\ age < Len(hist')
        BY <1>2, <1>3, <3>2 DEF Window
      <4>2. PICK i \in 0 .. NumSlots - 1 :
              SlotAge(i)' = age /\ (cache'.pos >= age => i = cache'.pos - age)
        <5> DEFINE p == cache'.pos
                   j == IF p >= age THEN p - age ELSE p - age + NumSlots
        <5>a. NumSlots \in Nat /\ p \in 0 .. NumSlots - 1 /\ age \in 1 .. NumSlots - 1
          BY <1>2, <1>4, <1>5, <4>1
        <5> HIDE DEF p, age
        <5>1. j \in 0 .. NumSlots - 1
          BY <5>a
        <5>2. age = IF j <= cache'.pos THEN cache'.pos - j ELSE cache'.pos + NumSlots - j
          BY <5>a DEF p
        <5>3. cache'.pos >= age => j = cache'.pos - age
          BY DEF p
        <5> HIDE DEF j
        <5>4. PICK i \in 0 .. NumSlots - 1 : i = j
          BY <5>1
        <5> QED
          BY <5>2, <5>3, <5>4 DEF SlotAge
      <4>3. Stored(cache, s)[i] = hist'[k]
        <5>1. cache'.sweeplist[i] = hist'[Len(hist') - age]
          BY <4>1, <4>2 DEF AggInv, RingInv, RingHoldsNewest
        <5>2. Len(hist') - age = k
          BY <1>2, <1>3, <4>1
        <5> HIDE DEF age
        <5> QED
          BY <1>4, <5>1, <5>2
      <4>4. i \in 0 .. NumSampled(cache) - 1
        <5>1. CASE cache.looped \/ cache.pos = NumSlots - 1
          BY <1>5, <4>2, <5>1
        <5>2. CASE ~ (cache.looped \/ cache.pos = NumSlots - 1)
          <6>1. ~ (Len(hist) > NumSlots)
            BY <5>2 DEF AggInv, RingInv, RingHoldsNewest
          <6>2. cache.pos = Len(hist) - 1
            BY <1>2, <6>1 DEF AggInv, RingInv, FilledFromZero
          <6>3. cache'.pos = Len(hist)
            BY <1>4, <1>5, <5>2, <6>2
          <6> QED
            BY <1>2, <1>3, <1>5, <4>1, <4>2, <5>2, <6>2, <6>3
        <5> QED
          BY <5>1, <5>2
      <4>5. Stored(cache, s)[i] # NoSweep
        BY <1>2, <1>3, <4>1, <4>3, SweepNotNull
      <4> QED
        BY <4>3, <4>4, <4>5 DEF Visited, Filled
    <3> QED
      BY <3>1, <3>2
  (* ... and every level visited is that of a sweep of the window.         *)
  <2>3. ASSUME NEW y \in Visited(s) PROVE \E k \in Window' : hist'[k].rssi = y
    <3>1. CASE y = s.rssi
      BY <1>3, <1>6, <3>1
    <3>2. CASE \E x \in Filled(Stored(cache, s), NumSampled(cache)) :
                 y = Stored(cache, s)[x].rssi
      <4>1. PICK x \in 0 .. NumSampled(cache) - 1 :
              y = Stored(cache, s)[x].rssi /\ Stored(cache, s)[x] # NoSweep
        BY <3>2 DEF Filled
      <4>2. x \in 0 .. NumSlots - 1
        BY <1>2, <1>5, <4>1
      <4>3. /\ SlotAge(x)' < Len(hist')
            /\ cache'.sweeplist[x] = hist'[Len(hist') - SlotAge(x)']
        BY <1>4, <4>1, <4>2 DEF AggInv, RingInv, RingHoldsNewest
      <4>4. SlotAge(x)' \in 0 .. NumSlots - 1
        BY <1>2, <1>4, <1>5, <4>2 DEF SlotAge
      <4>5. Len(hist') - SlotAge(x)' \in Window'
        BY <1>2, <1>3, <4>3, <4>4 DEF Window
      <4> QED
        BY <1>4, <4>1, <4>3, <4>5
    <3> QED
      BY <3>1, <3>2 DEF Visited
  <2> QED
    BY <1>1, <2>1, <2>2, <2>3, VisitedMax
<1> QED
  BY <1>7, <1>8

LEMMA NextRoll == RollInv /\ [Next]_vars => RollInv'
<1> SUFFICES ASSUME RollInv, [Next]_vars PROVE RollPeakIsWindowMax'
  BY NextAgg DEF RollInv
<1>1. AggInv'
  BY NextAgg DEF RollInv
<1>2. ASSUME cache' = cache, hist' = hist PROVE RollPeakIsWindowMax'
  BY <1>2 DEF RollInv, RollPeakIsWindowMax, Window
<1>3. ASSUME NEW s \in Sweep, AppendSweep(s) PROVE RollPeakIsWindowMax'
  <2>1. CASE Rejects(cache, s)
    BY <1>2, <1>3, <2>1 DEF AppendSweep, CacheAppend
  <2>2. CASE ~Rejects(cache, s)
    BY <1>1, <1>3, <2>2, AppendRoll DEF RollInv
  <2> QED
    BY <2>1, <2>2
<1>4. ASSUME Reconfigure PROVE RollPeakIsWindowMax'
  BY <1>4 DEF Reconfigure, RollPeakIsWindowMax
<1>5. CASE UNCHANGED vars
  BY <1>2, <1>5 DEF vars
<1> QED
  BY <1>3, <1>4, <1>5 DEF Next

(***************************************************************************)
(* The rolling peak is the highest level of the sweeps in the ring.        *)
(***************************************************************************)
THEOREM RollPeakCorrect == Spec => []RollPeakIsWindowMax
<1>1. Init => RollInv
  BY InitAgg DEF Init, RollInv, RollPeakIsWindowMax
<1>2. RollInv => RollPeakIsWindowMax
  BY DEF RollInv
<1> QED
  BY <1>1, <1>2, NextRoll, PTL DEF Spec

-----------------------------------------------------------------------------
(***************************************************************************)
(* The iterator.  Its walk has a closed form: by induction on the number   *)
(* of steps, no other function meets the recursive definition.  A ring     *)
(* that has wrapped yields its newest sweep again at the end.              *)
(***************************************************************************)
StepFrom(c, x) ==
  LET r == ItrNext(c, x.itr)
  IN  IF x.done THEN x
      ELSE IF r.slot = -1 THEN [x EXCEPT !.done = TRUE]
      ELSE [x EXCEPT !.itr = r.itr, !.seen = Append(@, r.slot)]

IsWalk(c, g) ==
  g = [k \in 0 .. c.num_alloc + 2 |->
         IF k = 0 THEN [itr |-> ItrInit(c), seen |-> <<>>, done |-> FALSE]
         ELSE StepFrom(c, g[k - 1])]

LEMMA WalkDefined ==
  ASSUME NEW c, NEW f, IsWalk(c, f)
  PROVE  \E g : IsWalk(c, g) /\ ItrSlots(c) = g[c.num_alloc + 2]
BY DEF ItrSlots, IsWalk, StepFrom

LEMMA WalkUnique ==
  ASSUME NEW c, c.num_alloc \in Nat, NEW f, NEW g, IsWalk(c, f), IsWalk(c, g)
  PROVE  \A k \in 0 .. c.num_alloc + 2 : f[k] = g[k]
<1> DEFINE n == c.num_alloc + 2
           T == {k \in 0 .. n : f[k] # g[k]}
<1>1. ASSUME NEW h, IsWalk(c, h)
      PROVE  /\ h[0] = [itr |-> ItrInit(c), seen |-> <<>>, done |-> FALSE]
             /\ \A k \in 1 .. n : h[k] = StepFrom(c, h[k - 1])
  <2>1. \A k \in 0 .. n : h[k] = IF k = 0 THEN [itr |-> ItrInit(c), seen |-> <<>>, done |-> FALSE]
                                ELSE StepFrom(c, h[k - 1])
    BY <1>1, Zenon DEF IsWalk
  <2>2. 0 \in 0 .. n /\ \A k \in 1 .. n : k \in 0 .. n /\ k # 0
    OBVIOUS
  <2> HIDE DEF n
  <2> QED
    BY <2>1, <2>2
<1>a. n \in Nat /\ f[0] = g[0]
  BY <1>1
<1>b. \A k \in 1 .. n : f[k] = StepFrom(c, f[k - 1]) /\ g[k] = StepFrom(c, g[k - 1])
  BY <1>1
<1> HIDE DEF n
<1>2. ASSUME T # {} PROVE FALSE
  <2>1. PICK k \in T : \A j \in T : k <= j
    <3>1. T \subseteq Nat
      BY <1>a
    <3> HIDE DEF T
    <3> QED
      BY <1>2, <3>1, LeastExists
  <2>2. k \in 1 .. n
    BY <1>a, <2>1
  <2>3. k - 1 \in 0 .. n /\ k - 1 \notin T
    BY <1>a, <2>1, <2>2
  <2>4. f[k - 1] = g[k - 1]
    BY <2>3
  <2> QED
    BY <1>b, <2>1, <2>2, <2>4
<1> QED
  BY <1>2 DEF n

(* The slot of the k-th sweep of the walk, and how many it has.            *)
WalkSlot(k) ==
  IF k = 0 THEN cache.pos + 1
  ELSE IF k <= cache.pos + 1 THEN cache.pos + 1 - k ELSE cache.pos + 1 - k + NumSlots

WalkLength == IF cache.looped THEN NumSlots + 1 ELSE cache.num_used

WalkState(m) ==
  [itr  |-> [pos_start |-> cache.pos, pos_cur |-> WalkSlot(m),
             looped_start |-> IF m >= 2 THEN TRUE ELSE FALSE],
   seen |-> [j \in 1 .. m |-> WalkSlot(j)], done |-> FALSE]

WalkEnd == [WalkState(WalkLength) EXCEPT !.done = TRUE]

WalkAt(k) == IF k <= WalkLength THEN WalkState(k) ELSE WalkEnd

(* Where the ring stands, and that pos is a slot once there is a sweep.    *)
ItrInv == RingInv /\ (hist # <<>> => cache.pos >= 0)

LEMMA WalkFacts ==
  ASSUME ItrInv
  PROVE  /\ NumSlots \in Nat /\ NumSlots > 0 /\ cache.num_alloc = NumSlots
         /\ cache.pos \in -1 .. NumSlots - 1 /\ cache.num_used \in 0 .. NumSlots
         /\ cache.looped \in BOOLEAN /\ Len(hist) \in Nat
         /\ WalkLength \in 0 .. NumSlots + 1
         /\ cache.looped => /\ cache.num_used = NumSlots /\ WalkLength = NumSlots + 1
                            /\ cache.pos >= 0
         /\ ~cache.looped => cache.num_used = cache.pos + 1 /\ WalkLength = cache.pos + 1
<1>1. /\ NumSlots \in Nat /\ NumSlots > 0 /\ cache.num_alloc = NumSlots
      /\ cache.pos \in -1 .. NumSlots - 1 /\ cache.num_used \in 0 .. NumSlots
      /\ cache.looped \in BOOLEAN /\ Len(hist) \in Nat
  BY NumSlotsAssumption DEF ItrInv, RingInv, TypeOK
<1>2. /\ cache.num_used = IF Len(hist) < NumSlots THEN Len(hist) ELSE NumSlots
      /\ cache.looped <=> Len(hist) > NumSlots
      /\ Len(hist) <= NumSlots => cache.pos = Len(hist) - 1
  BY DEF ItrInv, RingInv, RingHoldsNewest, FilledFromZero
<1>3. CASE cache.looped
  <2>1. Len(hist) > NumSlots /\ WalkLength = NumSlots + 1
    BY <1>2, <1>3 DEF WalkLength
  <2>2. cache.pos >= 0
    BY <1>1, <2>1 DEF ItrInv
  <2> QED
    BY <1>1, <1>2, <1>3, <2>1, <2>2
<1>4. CASE ~cache.looped
  BY <1>1, <1>2, <1>4 DEF WalkLength
<1> QED
  BY <1>1, <1>3, <1>4

LEMMA WalkStep ==
  ASSUME ItrInv, NEW k \in 1 .. NumSlots + 2
  PROVE  WalkAt(k) = StepFrom(cache, WalkAt(k - 1))
<1> DEFINE p == cache.pos
           N == NumSlots
           L == WalkLength
           u == cache.num_used
<1>1. /\ N \in Nat /\ N > 0 /\ p \in -1 .. N - 1 /\ u \in 0 .. N
      /\ cache.looped \in BOOLEAN /\ L \in 0 .. N + 1
      /\ cache.looped => u = N /\ L = N + 1 /\ p >= 0
      /\ ~cache.looped => u = p + 1 /\ L = p + 1
      /\ k \in 1 .. N + 2
  BY WalkFacts
<1>2. /\ WalkSlot(0) = p + 1
      /\ \A j \in 1 .. L : WalkSlot(j) = IF j <= p + 1 THEN p + 1 - j ELSE p + 1 - j + N
  BY <1>1 DEF WalkSlot
<1> HIDE DEF p, N, L, u
(* The walk has ended. *)
<1>3. CASE k - 1 > L
  <2>1. WalkAt(k) = WalkEnd /\ WalkAt(k - 1) = WalkEnd
    BY <1>1, <1>3 DEF WalkAt, L
  <2> QED
    BY <2>1 DEF StepFrom, WalkEnd, WalkState
(* next returns NULL. *)
<1>4. CASE k - 1 = L
  <2>1. WalkAt(k) = WalkEnd /\ WalkAt(k - 1) = WalkState(L)
    BY <1>1, <1>4 DEF WalkAt, L
  <2> DEFINE x == WalkState(L)
  <2>2. /\ x.itr.pos_start = p /\ x.itr.pos_cur = WalkSlot(L)
        /\ x.itr.looped_start = IF L >= 2 THEN TRUE ELSE FALSE
    BY DEF WalkState, p
  <2>3. ItrNext(cache, x.itr).slot = -1
    <3>1. CASE cache.looped
      <4>1. WalkSlot(L) = p /\ L >= 2
        BY <1>1, <1>2, <3>1
      <4> HIDE DEF x
      <4> QED
        BY <2>2, <4>1 DEF ItrNext
    <3>2. CASE ~cache.looped
      <4>1. WalkSlot(L) = 0
        BY <1>1, <1>2, <3>2
      <4>2. L = p + 1
        BY <1>1, <3>2
      <4> HIDE DEF x
      <4> QED
        BY <1>1, <2>2, <3>2, <4>1, <4>2 DEF ItrNext
    <3> QED
      BY <3>1, <3>2
  <2>4. x.done = FALSE /\ [x EXCEPT !.done = TRUE] = WalkEnd
    BY DEF WalkState, WalkEnd, L
  <2> HIDE DEF x
  <2> QED
    BY <2>1, <2>3, <2>4 DEF StepFrom, x
(* next returns a sweep. *)
<1>5. CASE k <= L
  <2>1. WalkAt(k) = WalkState(k) /\ WalkAt(k - 1) = WalkState(k - 1)
    BY <1>1, <1>5 DEF WalkAt, L
  <2> DEFINE x == WalkState(k - 1)
             i == x.itr
             again == WalkSlot(k - 1) = p
  <2>2. /\ i.pos_start = p /\ i.pos_cur = WalkSlot(k - 1)
        /\ i.looped_start = IF k - 1 >= 2 THEN TRUE ELSE FALSE
        /\ i = [pos_start |-> p, pos_cur |-> WalkSlot(k - 1),
                looped_start |-> IF k - 1 >= 2 THEN TRUE ELSE FALSE]
    BY DEF WalkState, p
  <2>3. again <=> k = 2
    BY <1>1, <1>2, <1>5
  <2>4. WalkSlot(k) = IF WalkSlot(k - 1) - 1 < 0 /\ cache.looped THEN u - 1 ELSE WalkSlot(k - 1) - 1
    BY <1>1, <1>2, <1>5
  <2>5. WalkSlot(k) \in 0 .. u - 1
    BY <1>1, <1>2, <1>5
  <2> DEFINE r == ItrNext(cache, i)
             ls == IF k >= 2 THEN TRUE ELSE FALSE
  <2>6. r.slot = WalkSlot(k)
        /\ r.itr = [pos_start |-> p, pos_cur |-> WalkSlot(k), looped_start |-> ls]
    <3> HIDE DEF i
    <3>1. r = [itr  |-> [i EXCEPT !.pos_cur = WalkSlot(k), !.looped_start = @ \/ again],
               slot |-> WalkSlot(k)]
      BY <1>1, <2>2, <2>3, <2>4, <2>5 DEF ItrNext, u
    <3>2. r = [itr  |-> [i EXCEPT !.pos_cur = WalkSlot(k), !.looped_start = ls],
               slot |-> WalkSlot(k)]
      <4>1. CASE k = 1
        <5>1. i.looped_start = FALSE /\ ~again /\ ls = FALSE
          BY <2>2, <2>3, <4>1
        <5> HIDE DEF r, again, ls
        <5> QED
          BY <3>1, <5>1
      <4>2. CASE k = 2
        <5>1. i.looped_start = FALSE /\ again /\ ls = TRUE
          BY <2>2, <2>3, <4>2
        <5> HIDE DEF r, again, ls
        <5> QED
          BY <3>1, <5>1
      <4>3. CASE k > 2
        <5>1. i.looped_start = TRUE /\ ls = TRUE
          BY <1>1, <2>2, <4>3
        <5> HIDE DEF r, again, ls
        <5> QED
          BY <3>1, <5>1
      <4> QED
        BY <1>1, <4>1, <4>2, <4>3
    <3> DEFINE y == [i EXCEPT !.pos_cur = WalkSlot(k), !.looped_start = ls]
    <3>3. y = [i EXCEPT !.pos_cur = WalkSlot(k), !.looped_start = ls]
      OBVIOUS
    <3> HIDE DEF y, r, ls
    <3>4. y = [pos_start |-> p, pos_cur |-> WalkSlot(k), looped_start |-> ls]
      BY <2>2, <3>3
    <3> QED
      BY <3>2, <3>3, <3>4
  <2>7. Append(x.seen, WalkSlot(k)) = [j \in 1 .. k |-> WalkSlot(j)]
    <3>1. x.seen = [j \in 1 .. k - 1 |-> WalkSlot(j)] /\ k - 1 \in Nat
      BY DEF WalkState
    <3> HIDE DEF x
    <3> QED
      BY <3>1
  <2>8. x = [itr |-> i, seen |-> x.seen, done |-> FALSE]
    BY DEF WalkState
  <2>9. WalkState(k) =
          [itr |-> [pos_start |-> p, pos_cur |-> WalkSlot(k), looped_start |-> ls],
           seen |-> [j \in 1 .. k |-> WalkSlot(j)], done |-> FALSE]
    BY DEF WalkState, p
  <2> HIDE DEF x, i, ls
  <2>10. StepFrom(cache, x) = [x EXCEPT !.itr = r.itr, !.seen = Append(@, r.slot)]
    BY <1>1, <2>5, <2>6, <2>8 DEF StepFrom, i
  <2> HIDE DEF r
  <2> DEFINE z == [x EXCEPT !.itr = r.itr, !.seen = Append(@, r.slot)]
  <2> DEFINE q == Append(x.seen, r.slot)
             ri == r.itr
             e == x.seen
  <2>a. x = [itr |-> i, seen |-> e, done |-> FALSE]
    BY <2>8
  <2>11. z = [x EXCEPT !.itr = ri, !.seen = q]
    OBVIOUS
  <2> HIDE DEF z, q, ri, e
  <2>12. z = [itr |-> ri, seen |-> q, done |-> FALSE]
    BY <2>a, <2>11
  <2> QED
    BY <2>1, <2>6, <2>7, <2>9, <2>10, <2>12 DEF x, z, q, ri
<1> QED
  BY <1>1, <1>3, <1>4, <1>5

LEMMA WalkSeen ==
  ASSUME ItrInv
  PROVE  ItrSlots(cache) = WalkEnd
<1> DEFINE w == [k \in 0 .. cache.num_alloc + 2 |-> WalkAt(k)]
<1>1. cache.num_alloc = NumSlots /\ NumSlots \in Nat /\ WalkLength \in 0 .. NumSlots + 1
  BY WalkFacts
<1>2. WalkAt(0) = [itr |-> ItrInit(cache), seen |-> <<>>, done |-> FALSE]
  BY <1>1 DEF WalkAt, WalkState, WalkSlot, ItrInit
<1>3. IsWalk(cache, w)
  <2>1. \A k \in 0 .. NumSlots + 2 :
           w[k] = IF k = 0 THEN [itr |-> ItrInit(cache), seen |-> <<>>, done |-> FALSE]
                  ELSE StepFrom(cache, w[k - 1])
    <3> TAKE k \in 0 .. NumSlots + 2
    <3>1. CASE k = 0
      BY <1>1, <1>2, <3>1
    <3>2. CASE k # 0
      <4>1. k \in 1 .. NumSlots + 2 /\ k - 1 \in 0 .. NumSlots + 2
        BY <1>1, <3>2
      <4> QED
        BY <1>1, <3>2, <4>1, WalkStep
    <3> QED
      BY <3>1, <3>2
  <2> QED
    BY <1>1, <2>1 DEF IsWalk
<1>4. PICK g : IsWalk(cache, g) /\ ItrSlots(cache) = g[cache.num_alloc + 2]
  <2> HIDE DEF w
  <2> QED
    BY <1>3, WalkDefined
<1>5. g[NumSlots + 2] = w[NumSlots + 2]
  <2> HIDE DEF w
  <2> QED
    BY <1>1, <1>3, <1>4, WalkUnique
<1> QED
  BY <1>1, <1>4, <1>5 DEF WalkAt

(***************************************************************************)
(* The walk is newest first and leaves out no sweep of the ring.           *)
(***************************************************************************)
THEOREM WalkCorrect == Spec => []ItrNewestFirst
<1>1. Init => ItrInv
  BY InitRing DEF Init, ItrInv
<1>2. ItrInv /\ [Next]_vars => ItrInv'
  <2> SUFFICES ASSUME ItrInv, [Next]_vars PROVE (hist # <<>> => cache.pos >= 0)'
    BY NextRing DEF ItrInv
  <2>1. ASSUME NEW s \in Sweep, AppendSweep(s) PROVE (hist # <<>> => cache.pos >= 0)'
    <3>1. CASE Rejects(cache, s)
      BY <2>1, <3>1 DEF AppendSweep, CacheAppend, ItrInv
    <3>2. CASE ~Rejects(cache, s)
      <4>1. TypeOK
        BY DEF ItrInv, RingInv
      <4>2. cache' = AppendedCache(s) /\ NextPos(cache) \in 0 .. NumSlots - 1
        BY <2>1, <3>2, <4>1, AppendFields, AppendTypes DEF AppendSweep
      <4> QED
        BY <4>2 DEF AppendedCache
    <3> QED
      BY <3>1, <3>2
  <2>2. CASE Reconfigure
    BY <2>2 DEF Reconfigure
  <2>3. CASE UNCHANGED vars
    BY <2>3 DEF vars, ItrInv
  <2> QED
    BY <2>1, <2>2, <2>3 DEF Next
<1>3. ItrInv => ItrNewestFirst
  <2> SUFFICES ASSUME ItrInv PROVE ItrNewestFirst
    OBVIOUS
  <2> DEFINE n == IF Len(hist) < NumSlots THEN Len(hist) ELSE NumSlots
             slots == ItrSlots(cache).seen
  <2>1. /\ NumSlots \in Nat /\ NumSlots > 0 /\ cache.pos \in -1 .. NumSlots - 1
        /\ cache.looped \in BOOLEAN /\ WalkLength \in 0 .. NumSlots + 1
        /\ cache.looped => WalkLength = NumSlots + 1 /\ cache.pos >= 0
        /\ ~cache.looped => cache.num_used = cache.pos + 1 /\ WalkLength = cache.pos + 1
        /\ Len(hist) \in Nat
    BY WalkFacts
  <2>2. cache.num_used = n /\ (cache.looped => n = NumSlots)
    BY <2>1 DEF ItrInv, RingInv, RingHoldsNewest
  <2>3. ItrSlots(cache).done /\ slots = [j \in 1 .. WalkLength |-> WalkSlot(j)]
    BY WalkSeen DEF WalkEnd, WalkState
  <2> HIDE DEF slots
  <2>4. Len(slots) = WalkLength
    BY <2>1, <2>3
  <2>5. n <= WalkLength /\ n \in Nat
    BY <2>1, <2>2
  <2> HIDE DEF n
  <2>6. ASSUME NEW k \in 1 .. n PROVE cache.sweeplist[slots[k]] = hist[Len(hist) + 1 - k]
    <3>1. slots[k] = WalkSlot(k)
      BY <2>1, <2>3, <2>5
    <3>2. k <= NumSlots /\ k <= Len(hist)
      BY <2>1, <2>5 DEF n
    <3>3. PICK i \in 0 .. NumSlots - 1 : i = WalkSlot(k) /\ SlotAge(i) = k - 1
      <4>1. CASE k <= cache.pos + 1
        BY <2>1, <2>5, <4>1 DEF WalkSlot, SlotAge
      <4>2. CASE ~(k <= cache.pos + 1)
        <5>1. cache.looped
          BY <2>1, <2>2, <2>5, <4>2
        <5> QED
          BY <2>1, <2>5, <3>2, <4>2, <5>1 DEF WalkSlot, SlotAge
      <4> QED
        BY <4>1, <4>2
    <3>4. cache.sweeplist[i] = IF SlotAge(i) < Len(hist)
                               THEN hist[Len(hist) - SlotAge(i)] ELSE NoSweep
      BY DEF ItrInv, RingInv, RingHoldsNewest
    <3>5. SlotAge(i) < Len(hist) /\ Len(hist) - SlotAge(i) = Len(hist) + 1 - k
      BY <2>1, <2>5, <3>2, <3>3
    <3> QED
      BY <3>1, <3>3, <3>4, <3>5
  <2> QED
    BY <2>3, <2>4, <2>5, <2>6 DEF ItrNewestFirst, n, slots
<1> QED
  BY <1>1, <1>2, <1>3, PTL DEF Spec

-----------------------------------------------------------------------------
(***************************************************************************)
(* The average.  The slots an append averages correspond one to one to the *)
(* sweeps the property names, through their age.                           *)
(***************************************************************************)
AvgInv == AggInv /\ AvgIsWindowMean

(* The sweeps an average is the mean of, once there are two.               *)
Averaged == IF cache.looped THEN Window ELSE Window \ {Len(hist)}

LEMMA SlotsOfAveraged ==
  ASSUME AggInv, AggInv', NEW s \in Sweep, AppendSweep(s), ~Rejects(cache, s)
  PROVE  LET slots == Filled(Stored(cache, s), NumSampled(cache))
             place == [x \in slots |-> Len(hist') - SlotAge(x)']
         IN  SameLevels(place, slots, Averaged', Stored(cache, s), hist')
<1> DEFINE slots == Filled(Stored(cache, s), NumSampled(cache))
           n == NumSampled(cache)
           L == Len(hist')
           N == NumSlots
           p == cache'.pos
           lp == cache'.looped
           age(x) == SlotAge(x)'
<1>1. TypeOK /\ cache' = AppendedCache(s) /\ hist' = Append(hist, s)
  BY AppendFields DEF AppendSweep, AggInv, RingInv
<1>2. /\ hist \in Seq(Sweep) /\ Len(hist) \in Nat /\ N \in Nat /\ N > 0
      /\ cache.pos \in -1 .. N - 1 /\ cache.num_alloc = N /\ cache.looped \in BOOLEAN
  BY <1>1, NumSlotsAssumption DEF TypeOK
<1>3. /\ L = Len(hist) + 1 /\ \A k \in 1 .. L : hist'[k] \in Sweep
  BY <1>1, <1>2
<1>4. /\ cache'.sweeplist = Stored(cache, s) /\ p = NextPos(cache)
      /\ lp = (cache.looped \/ Wraps(cache))
  BY <1>1 DEF AppendedCache
<1>5. /\ p = IF cache.pos = N - 1 THEN 0 ELSE cache.pos + 1
      /\ n = IF cache.looped \/ cache.pos = N - 1 THEN N ELSE cache.pos + 1
      /\ lp <=> cache.looped \/ cache.pos = N - 1
  BY <1>2, <1>4 DEF NextPos, NumSampled, Wraps
<1>6. /\ lp <=> L > N
      /\ L <= N => p = L - 1
      /\ \A i \in 0 .. N - 1 : Stored(cache, s)[i] = IF age(i) < L THEN hist'[L - age(i)] ELSE NoSweep
  <2>1. /\ cache'.looped <=> L > N
        /\ L <= N => cache'.pos = L - 1
        /\ \A i \in 0 .. N - 1 : cache'.sweeplist[i] = IF age(i) < L THEN hist'[L - age(i)] ELSE NoSweep
    BY DEF AggInv, RingInv, RingHoldsNewest, FilledFromZero
  <2> HIDE DEF age, L, N
  <2> QED
    BY <1>4, <2>1
<1>7. /\ L \in Nat /\ N \in Nat /\ N > 0 /\ p \in 0 .. N - 1 /\ n \in 0 .. N
      /\ n = IF lp THEN N ELSE p
  BY <1>2, <1>3, <1>5
<1>8. \A i \in 0 .. N - 1 : age(i) = IF i <= p THEN p - i ELSE p + N - i
  BY DEF SlotAge
<1>9. Averaged' = {k \in 1 .. L : k > L - N /\ (lp \/ k # L)}
  BY DEF Averaged, Window
<1>10. \A x \in slots : x \in 0 .. n - 1 /\ Stored(cache, s)[x] # NoSweep
  BY DEF Filled
<1>11. \A x \in 0 .. n - 1 : Stored(cache, s)[x] # NoSweep => x \in slots
  BY DEF Filled
<1>12. IsFiniteSet(slots)
  <2>1. slots \subseteq 0 .. n - 1
    BY <1>10
  <2>2. IsFiniteSet(0 .. n - 1)
    <3>1. n - 1 \in Int
      BY <1>7
    <3> DEFINE a == 0
               b == n - 1
    <3> HIDE DEF b
    <3>2. a \in Int /\ b \in Int
      BY <3>1 DEF b
    <3> HIDE DEF a
    <3>3. IsFiniteSet(a .. b)
      BY <3>2, FS_Interval
    <3> QED
      BY <3>3 DEF a, b
  <2> QED
    BY <2>1, <2>2, FS_Subset
<1> DEFINE place == [x \in slots |-> L - age(x)]
<1> HIDE DEF slots, n, L, N, p, lp, age
<1>13. ASSUME NEW x \in slots
       PROVE  /\ x \in 0 .. N - 1 /\ age(x) \in 0 .. N - 1 /\ age(x) < L
              /\ Stored(cache, s)[x] = hist'[L - age(x)]
              /\ L - age(x) \in Averaged'
  <2>1. x \in 0 .. n - 1 /\ x \in 0 .. N - 1 /\ Stored(cache, s)[x] # NoSweep
    BY <1>7, <1>10
  <2>2. age(x) \in 0 .. N - 1 /\ age(x) < L /\ Stored(cache, s)[x] = hist'[L - age(x)]
    BY <1>6, <1>7, <1>8, <2>1
  <2>3. lp \/ L - age(x) # L
    BY <1>7, <1>8, <2>1
  <2> QED
    BY <1>7, <1>9, <2>1, <2>2, <2>3
<1>14. ASSUME NEW x \in slots, NEW y \in slots, age(x) = age(y) PROVE x = y
  BY <1>7, <1>8, <1>13, <1>14
<1>15. ASSUME NEW k \in Averaged' PROVE \E x \in slots : L - age(x) = k
  <2>1. k \in 1 .. L /\ k > L - N /\ (lp \/ k # L)
    BY <1>9
  <2> DEFINE a == L - k
             b == IF p >= a THEN p - a ELSE p - a + N
  <2>2. a \in 0 .. N - 1 /\ a < L
    BY <1>7, <2>1
  <2>3. PICK j \in 0 .. N - 1 : age(j) = a
    <3>1. b \in 0 .. N - 1 /\ a = IF b <= p THEN p - b ELSE p + N - b
      BY <1>7, <2>2
    <3> HIDE DEF a, b
    <3> QED
      BY <1>8, <3>1
  <2>4. L - a = k
    BY <1>7, <2>1
  <2>5. j \in 0 .. n - 1
    BY <1>6, <1>7, <1>8, <2>1, <2>2, <2>3
  <2>6. Stored(cache, s)[j] = hist'[k]
    <3> HIDE DEF a
    <3> QED
      BY <1>6, <2>2, <2>3, <2>4
  <2>7. hist'[k] # NoSweep
    BY <1>3, <2>1, SweepNotNull
  <2> HIDE DEF a
  <2> QED
    BY <1>11, <2>3, <2>4, <2>5, <2>6, <2>7
<1>16. ASSUME NEW x \in slots
       PROVE  Stored(cache, s)[x].rssi = hist'[place[x]].rssi /\ Stored(cache, s)[x].rssi \in Int
  <2>1. Stored(cache, s)[x] = hist'[place[x]] /\ L - age(x) \in 1 .. L
    BY <1>7, <1>13
  <2>2. hist'[L - age(x)] \in Sweep
    BY <1>3, <2>1
  <2>3. hist'[L - age(x)].rssi \in Nat
    BY <2>2, SweepNotNull, LevelsAssumption
  <2> QED
    BY <2>1, <2>3
<1>17. place \in [slots -> Averaged'] /\ \A x \in slots : place[x] = L - age(x)
  BY <1>13
<1>18. ASSUME NEW x \in slots, NEW y \in slots, place[x] = place[y] PROVE x = y
  <2>1. L - age(x) = L - age(y) /\ age(x) \in Int /\ age(y) \in Int
    BY <1>7, <1>13, <1>18
  <2>2. age(x) = age(y)
    BY <1>7, <2>1
  <2> QED
    BY <1>14, <2>2
<1>19. \A k \in Averaged' : \E x \in slots : place[x] = k
  BY <1>15, <1>17
<1>20. SameLevels(place, slots, Averaged', Stored(cache, s), hist')
  <2> HIDE DEF place
  <2> QED
    BY <1>12, <1>16, <1>17, <1>18, <1>19 DEF SameLevels
<1> QED
  BY <1>20 DEF slots, L, age, n

LEMMA AppendAvg ==
  ASSUME AggInv, AggInv', NEW s \in Sweep, AppendSweep(s), ~Rejects(cache, s)
  PROVE  AvgIsWindowMean'
<1>1. TypeOK /\ cache' = AppendedCache(s) /\ hist' = Append(hist, s)
  BY AppendFields DEF AppendSweep, AggInv, RingInv
<1>2. /\ hist \in Seq(Sweep) /\ Len(hist) \in Nat /\ NumSlots \in Nat /\ NumSlots > 0
      /\ cache.calc_avg = CalcAvg /\ IsAggregate(cache.avg)
  BY <1>1, NumSlotsAssumption DEF TypeOK
<1>3. /\ Len(hist') = Len(hist) + 1 /\ hist'[Len(hist) + 1] = s /\ hist' # <<>>
      /\ cache'.avg = NewAvg(cache, s)
  BY <1>1, <1>2 DEF AppendedCache
<1> DEFINE averaged == IF cache'.looped \/ Len(hist') = 1 THEN Window'
                       ELSE Window' \ {Len(hist')}
<1> SUFFICES ASSUME CalcAvg PROVE cache'.avg.rssi = MeanLevel(hist', averaged)
  BY DEF AvgIsWindowMean
(* The first sweep is copied. *)
<1>4. CASE cache.avg = NoSweep
  <2>1. hist = <<>> /\ cache'.avg = s
    BY <1>2, <1>3, <1>4 DEF NewAvg, AggInv, AggregatesExist
  <2>2. Len(hist') = 1 /\ Window' = {1} /\ hist'[1] = s
    BY <1>2, <1>3, <2>1 DEF Window
  <2>3. averaged = {1}
    BY <2>2
  <2>4. s.rssi \in Int
    BY SweepNotNull, LevelsAssumption
  <2>5. LevelSum(hist', {1}) = s.rssi /\ Cardinality({1}) = 1
    <3> DEFINE U == {1}
    <3>1. IsFiniteSet(U) /\ Cardinality(U) = 1
      BY FS_Singleton
    <3>2. \A x \in U : hist'[x].rssi \in Int
      BY <2>2, <2>4
    <3> HIDE DEF U
    <3>3. PICK f : SumTable(f, hist', U)
      BY <3>1, <3>2, SumAnyOrder
    <3>4. LevelSum(hist', U) = f[U] /\ f[{}] = 0 /\ \A x \in U : f[U] = hist'[x].rssi + f[U \ {x}]
      BY <3>3 DEF SumTable
    <3>5. U \ {1} = {} /\ 1 \in U
      BY DEF U
    <3>6. f[U] = s.rssi + 0
      BY <2>2, <3>4, <3>5
    <3> QED
      BY <2>4, <3>1, <3>4, <3>6 DEF U
  <2>6. MeanLevel(hist', {1}) = LevelSum(hist', {1}) \div Cardinality({1})
    BY DEF MeanLevel, LevelSum
  <2>7. s.rssi \div 1 = s.rssi
    BY <2>4
  <2> QED
    BY <2>1, <2>3, <2>5, <2>6, <2>7
(* From the second on the slots visited are averaged. *)
<1>5. CASE cache.avg # NoSweep
  <2> DEFINE slots == Filled(Stored(cache, s), NumSampled(cache))
             place == [x \in slots |-> Len(hist') - SlotAge(x)']
  <2>1. cache'.avg.rssi = MeanLevel(Stored(cache, s), slots)
    <3>1. cache'.avg = [cache.avg EXCEPT !.rssi = MeanLevel(Stored(cache, s), slots)]
      BY <1>2, <1>3, <1>5 DEF NewAvg
    <3>2. cache.avg = [len |-> cache.avg.len, rssi |-> cache.avg.rssi]
      BY <1>2, <1>5 DEF IsAggregate
    <3> HIDE DEF slots
    <3> QED
      BY <3>1, <3>2
  <2>2. averaged = Averaged'
    <3>1. Len(hist') # 1
      BY <1>1, <1>2, <1>3, <1>5 DEF AggInv, AggregatesExist
    <3> QED
      BY <3>1 DEF Averaged
  <2>3. SameLevels(place, slots, Averaged', Stored(cache, s), hist')
    BY SlotsOfAveraged
  <2> DEFINE l == Stored(cache, s)
             V == Averaged'
             m == hist'
  <2>a. SameLevels(place, slots, V, l, m)
    BY <2>3
  <2> HIDE DEF slots, place, averaged, l, V, m
  <2>b. LevelSum(l, slots) = LevelSum(m, V) /\ Cardinality(V) = Cardinality(slots)
    BY <2>a, SumsAgree
  <2>4. /\ LevelSum(l, slots) = LevelSum(hist', V)
        /\ Cardinality(V) = Cardinality(slots)
    BY <2>b DEF m
  <2>5. slots = {} <=> V = {}
    BY <2>a DEF SameLevels
  <2>6. MeanLevel(l, slots) = MeanLevel(hist', V)
    BY <2>4, <2>5 DEF MeanLevel, LevelSum
  <2> QED
    BY <2>1, <2>2, <2>6 DEF l, V
<1> QED
  BY <1>4, <1>5

LEMMA NextAvg == AvgInv /\ [Next]_vars => AvgInv'
<1> SUFFICES ASSUME AvgInv, [Next]_vars PROVE AvgIsWindowMean'
  BY NextAgg DEF AvgInv
<1>1. AggInv'
  BY NextAgg DEF AvgInv
<1>2. ASSUME cache' = cache, hist' = hist PROVE AvgIsWindowMean'
  BY <1>2 DEF AvgInv, AvgIsWindowMean, Window
<1>3. ASSUME NEW s \in Sweep, AppendSweep(s) PROVE AvgIsWindowMean'
  <2>1. CASE Rejects(cache, s)
    BY <1>2, <1>3, <2>1 DEF AppendSweep, CacheAppend
  <2>2. CASE ~Rejects(cache, s)
    BY <1>1, <1>3, <2>2, AppendAvg DEF AvgInv
  <2> QED
    BY <2>1, <2>2
<1>4. ASSUME Reconfigure PROVE AvgIsWindowMean'
  BY <1>4 DEF Reconfigure, AvgIsWindowMean
<1>5. CASE UNCHANGED vars
  BY <1>2, <1>5 DEF vars
<1> QED
  BY <1>3, <1>4, <1>5 DEF Next

(***************************************************************************)
(* The average is the mean of the ring, one sweep late until it wraps.     *)
(***************************************************************************)
THEOREM AvgCorrect == Spec => []AvgIsWindowMean
<1>1. Init => AvgInv
  BY InitAgg DEF Init, AvgInv, AvgIsWindowMean
<1>2. AvgInv => AvgIsWindowMean
  BY DEF AvgInv
<1> QED
  BY <1>1, <1>2, NextAvg, PTL DEF Spec
=============================================================================
