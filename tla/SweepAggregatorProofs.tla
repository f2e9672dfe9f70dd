----------------------- MODULE SweepAggregatorProofs -----------------------
(***************************************************************************)
(* Proofs about the aggregating sweep callback, for every num_agg, every   *)
(* set of levels and every history.                                        *)
(***************************************************************************)
EXTENDS SweepAggregator, DataLemmas

(***************************************************************************)
(* The cache between two sweeps.  It never wraps: a delivery comes as soon *)
(* as its ring is full.                                                    *)
(***************************************************************************)
IsCache(c, n) ==
  c \in [sweeplist : [0 .. n - 1 -> Sweep \cup {NoSweep}],
         latest    : Sweep \cup {NoSweep},
         avg : {NoSweep}, peak : Sweep \cup {NoSweep}, roll_peak : {c.roll_peak},
         num_alloc : {n}, pos : -1 .. n - 1, looped : {FALSE}, num_used : Nat,
         calc_peak : {TRUE}, calc_avg : {FALSE}]

CacheOK == IsCache(agg_sweep, num_agg)

BatchOK ==
  /\ num_agg \in Nat \ {0}
  /\ batch \in Seq(Sweep) /\ full \in Seq(Sweep)
  /\ Len(batch) < num_agg /\ pos_agg = Len(batch)

(***************************************************************************)
(* pos runs one ahead once the cache was cleared; the slots it has passed  *)
(* are filled, and after the first delivery all of them are.               *)
(***************************************************************************)
PosFollows == agg_sweep.pos = IF full = <<>> THEN Len(batch) - 1 ELSE Len(batch)

SlotsFilled ==
  \A x \in 0 .. num_agg - 1 :
    full # <<>> \/ x <= agg_sweep.pos => agg_sweep.sweeplist[x] # NoSweep

(* p is the peak of the sweeps in b.                                       *)
PeakOf(p, b) ==
  /\ p \in Sweep
  /\ \A k \in 1 .. Len(b) : b[k].rssi <= p.rssi
  /\ \E k \in 1 .. Len(b) : b[k].rssi = p.rssi

PeakOfBatch ==
  IF batch = <<>> THEN agg_sweep.peak = NoSweep ELSE PeakOf(agg_sweep.peak, batch)

PeakOfFull == full # <<>> => PeakOf(delivered, full)

AggregatorInv ==
  BatchOK /\ CacheOK /\ PosFollows /\ SlotsFilled /\ PeakOfBatch /\ PeakOfFull

LEMMA SweepFacts ==
  ASSUME NEW s \in Sweep
  PROVE  s # NoSweep /\ s.len = 1 /\ s.rssi \in Nat /\ s = [len |-> 1, rssi |-> s.rssi]
<1>1. s.len = 1 /\ s.rssi \in Levels /\ s = [len |-> s.len, rssi |-> s.rssi]
  BY DEF Sweep
<1>2. s # NoSweep
  BY DEF Sweep, NoSweep
<1>3. s.rssi \in Nat
  BY <1>1, LevelsAssumption
<1> QED
  BY <1>1, <1>2, <1>3

LEMMA InitAggregator == Init => AggregatorInv
<1> SUFFICES ASSUME Init PROVE AggregatorInv
  OBVIOUS
<1>1. /\ num_agg \in Nat \ {0} /\ pos_agg = 0 /\ batch = <<>> /\ full = <<>>
      /\ agg_sweep = CacheAlloc(num_agg, TRUE, FALSE)
  BY NumAggsAssumption DEF Init
<1>2. BatchOK
  BY <1>1 DEF BatchOK
<1>3. CacheOK
  BY <1>1 DEF CacheOK, IsCache, CacheAlloc
<1>4. PosFollows /\ SlotsFilled /\ PeakOfBatch /\ PeakOfFull
  BY <1>1 DEF PosFollows, SlotsFilled, PeakOfBatch, PeakOfFull, CacheAlloc
<1> QED
  BY <1>2, <1>3, <1>4 DEF AggregatorInv

(* What the append of s makes of the cache.                                *)
CacheOf(n, list, latest, peak, roll, pos, looped, used) ==
  [sweeplist |-> list, latest |-> latest, avg |-> NoSweep, peak |-> peak, roll_peak |-> roll,
   num_alloc |-> n, pos |-> pos, looped |-> looped, num_used |-> used,
   calc_peak |-> TRUE, calc_avg |-> FALSE]

AppendedCache(s) ==
  CacheOf(num_agg, Stored(agg_sweep, s), s, NewPeak(agg_sweep, s), NewRollPeak(agg_sweep, s),
          NextPos(agg_sweep), Wraps(agg_sweep),
          IF ~Wraps(agg_sweep) /\ agg_sweep.num_used < num_agg
          THEN agg_sweep.num_used + 1 ELSE agg_sweep.num_used)

LEMMA CacheOfCleared ==
  ASSUME NEW n, NEW l, NEW t, NEW p, NEW r, NEW i, NEW b, NEW u
  PROVE  CacheClear(CacheOf(n, l, t, p, r, i, b, u))
         = CacheOf(n, l, t, NoSweep, NoSweep, 0, FALSE, 0)
<1> DEFINE c == CacheOf(n, l, t, p, r, i, b, u)
           x == CacheClear(c)
<1>1. c \in [sweeplist : {l}, latest : {t}, avg : {NoSweep}, peak : {p}, roll_peak : {r},
            num_alloc : {n}, pos : {i}, looped : {b}, num_used : {u},
            calc_peak : {TRUE}, calc_avg : {FALSE}]
  BY DEF CacheOf
<1>2. x = [c EXCEPT !.avg = NoSweep, !.peak = NoSweep, !.roll_peak = NoSweep,
                    !.pos = 0, !.looped = FALSE, !.num_used = 0]
  BY DEF CacheClear
<1> HIDE DEF x, c
<1>3. x = [sweeplist |-> l, latest |-> t, avg |-> NoSweep, peak |-> NoSweep,
           roll_peak |-> NoSweep, num_alloc |-> n, pos |-> 0, looped |-> FALSE,
           num_used |-> 0, calc_peak |-> TRUE, calc_avg |-> FALSE]
  BY <1>1, <1>2
<1>4. x = CacheOf(n, l, t, NoSweep, NoSweep, 0, FALSE, 0)
  BY <1>3 DEF CacheOf
<1> QED
  BY <1>4 DEF x, c

LEMMA CacheOfTypes ==
  ASSUME NEW n, NEW l \in [0 .. n - 1 -> Sweep \cup {NoSweep}], NEW t \in Sweep,
         NEW p \in Sweep \cup {NoSweep}, NEW r, NEW i \in -1 .. n - 1, NEW u \in Nat, NEW c,
         c = CacheOf(n, l, t, p, r, i, FALSE, u)
  PROVE  IsCache(c, n)
BY DEF CacheOf, IsCache

LEMMA Appended ==
  ASSUME BatchOK, CacheOK, NEW s \in Sweep
  PROVE  LET c == CacheAppend(agg_sweep, s)
         IN  /\ ~Rejects(agg_sweep, s)
             /\ NextPos(agg_sweep) \in 0 .. num_agg - 1
             /\ c = AppendedCache(s)
             /\ c.sweeplist \in [0 .. num_agg - 1 -> Sweep \cup {NoSweep}]
             /\ c.num_used \in Nat /\ c.peak \in Sweep
             /\ c.sweeplist = [agg_sweep.sweeplist EXCEPT ![NextPos(agg_sweep)] = s]
             /\ c.pos = NextPos(agg_sweep)
             /\ c.looped = Wraps(agg_sweep)
             /\ c.peak = IF agg_sweep.peak = NoSweep THEN s
                         ELSE IF agg_sweep.peak.rssi < s.rssi THEN s ELSE agg_sweep.peak
<1> DEFINE N == num_agg
           a == agg_sweep
<1>1. /\ a.sweeplist \in [0 .. N - 1 -> Sweep \cup {NoSweep}]
      /\ a.avg = NoSweep /\ a.peak \in Sweep \cup {NoSweep} /\ a.num_alloc = N
      /\ a.pos \in -1 .. N - 1 /\ a.looped = FALSE /\ a.num_used \in Nat
      /\ a.calc_peak = TRUE /\ a.calc_avg = FALSE /\ N \in Nat \ {0}
  BY DEF CacheOK, IsCache, BatchOK
<1>2. ~Rejects(a, s)
  BY <1>1 DEF Rejects
<1>3. NextPos(a) \in 0 .. N - 1
  BY <1>1 DEF NextPos, Wraps
<1>4. NewAvg(a, s) = NoSweep
  BY <1>1 DEF NewAvg
<1>5. /\ NewPeak(a, s) = IF a.peak = NoSweep THEN s
                         ELSE IF a.peak.rssi < s.rssi THEN s ELSE a.peak
      /\ NewPeak(a, s) \in Sweep
  <2>1. CASE a.peak = NoSweep
    BY <1>1, <2>1 DEF NewPeak
  <2>2. CASE a.peak # NoSweep
    <3>1. a.peak \in Sweep
      BY <1>1, <2>2
    <3>2. [a.peak EXCEPT !.rssi = IF @ < s.rssi THEN s.rssi ELSE @]
          = IF a.peak.rssi < s.rssi THEN s ELSE a.peak
      BY <3>1 DEF Sweep
    <3> QED
      BY <1>1, <2>2, <3>1, <3>2 DEF NewPeak
  <2> QED
    BY <2>1, <2>2
<1>6. Stored(a, s) = [a.sweeplist EXCEPT ![NextPos(a)] = s]
      /\ Stored(a, s) \in [0 .. N - 1 -> Sweep \cup {NoSweep}]
  BY <1>1, <1>3 DEF Stored
<1> DEFINE u == IF ~Wraps(a) /\ a.num_used < N THEN a.num_used + 1 ELSE a.num_used
<1>7. u \in Nat
  BY <1>1
<1>8. CacheAppend(a, s) =
        [sweeplist |-> Stored(a, s), latest |-> s, avg |-> NewAvg(a, s),
         peak |-> NewPeak(a, s), roll_peak |-> NewRollPeak(a, s), num_alloc |-> N,
         pos |-> NextPos(a), looped |-> (a.looped \/ Wraps(a)), num_used |-> u,
         calc_peak |-> TRUE, calc_avg |-> FALSE]
  BY <1>1, <1>2 DEF CacheOK, IsCache, CacheAppend
<1>9. (a.looped \/ Wraps(a)) = Wraps(a)
  BY <1>1 DEF Wraps
<1>10. CacheAppend(a, s) = AppendedCache(s)
  BY <1>4, <1>8, <1>9 DEF AppendedCache, CacheOf
<1>11. /\ AppendedCache(s).sweeplist = Stored(a, s) /\ AppendedCache(s).num_used = u
       /\ AppendedCache(s).peak = NewPeak(a, s) /\ AppendedCache(s).pos = NextPos(a)
       /\ AppendedCache(s).looped = Wraps(a)
  BY DEF AppendedCache, CacheOf
<1> HIDE DEF u, a
<1> QED
  BY <1>2, <1>3, <1>5, <1>6, <1>7, <1>10, <1>11 DEF a

(* The peak of a batch and one more sweep.                                 *)
LEMMA PeakGrows ==
  ASSUME NEW b \in Seq(Sweep), NEW s \in Sweep, NEW p, NEW n,
         IF b = <<>> THEN p = NoSweep ELSE PeakOf(p, b),
         n = IF p = NoSweep THEN s ELSE IF p.rssi < s.rssi THEN s ELSE p
  PROVE  PeakOf(n, Append(b, s))
<1> DEFINE d == Append(b, s)
           l == Len(b)
<1>1. l \in Nat /\ Len(d) = l + 1 /\ d[l + 1] = s /\ \A k \in 1 .. l : d[k] = b[k]
  OBVIOUS
<1>2. \A k \in 1 .. l : b[k] \in Sweep /\ b[k].rssi \in Nat
  <2> TAKE k \in 1 .. l
  <2>1. b[k] \in Sweep
    OBVIOUS
  <2> QED
    BY <2>1, SweepFacts
<1>3. s.rssi \in Nat
  BY SweepFacts
<1>a. b = <<>> <=> l = 0
  OBVIOUS
<1> HIDE DEF d, l
<1>4. CASE b = <<>>
  <2>1. n = s /\ l = 0
    BY <1>a, <1>4
  <2>2. \A k \in 1 .. l + 1 : d[k].rssi = s.rssi
    BY <1>1, <2>1
  <2> QED
    BY <1>1, <1>3, <2>1, <2>2 DEF PeakOf, d
<1>5. CASE b # <<>>
  <2>1. /\ p \in Sweep /\ p # NoSweep /\ p.rssi \in Nat
        /\ \A k \in 1 .. l : b[k].rssi <= p.rssi
        /\ \E k \in 1 .. l : b[k].rssi = p.rssi
    <3>1. PeakOf(p, b)
      BY <1>5
    <3>2. p \in Sweep
      BY <3>1 DEF PeakOf
    <3> QED
      BY <3>1, <3>2, SweepFacts DEF PeakOf, l
  <2>2. n = IF p.rssi < s.rssi THEN s ELSE p
    BY <2>1
  <2>3. n \in Sweep
    BY <2>1, <2>2
  <2>4. \A k \in 1 .. l + 1 : d[k].rssi <= n.rssi
    <3> TAKE k \in 1 .. l + 1
    <3>1. CASE k = l + 1
      BY <1>1, <1>3, <2>1, <2>2, <3>1
    <3>2. CASE k # l + 1
      <4>1. k \in 1 .. l
        BY <1>1, <3>2
      <4>2. d[k] = b[k] /\ b[k].rssi \in Nat /\ b[k].rssi <= p.rssi
        BY <1>1, <1>2, <2>1, <4>1
      <4> QED
        BY <1>3, <2>1, <2>2, <4>2
    <3> QED
      BY <3>1, <3>2
  <2>5. \E k \in 1 .. l + 1 : d[k].rssi = n.rssi
    <3>1. CASE p.rssi < s.rssi
      BY <1>1, <2>2, <3>1
    <3>2. CASE ~(p.rssi < s.rssi)
      <4>1. PICK k \in 1 .. l : b[k].rssi = p.rssi
        BY <2>1
      <4>2. k \in 1 .. l + 1 /\ d[k].rssi = n.rssi
        BY <1>1, <2>2, <3>2, <4>1
      <4> QED
        BY <4>2
    <3> QED
      BY <3>1, <3>2
  <2> QED
    BY <1>1, <2>3, <2>4, <2>5 DEF PeakOf, d
<1> QED
  BY <1>4, <1>5

LEMMA NextAggregator == AggregatorInv /\ [Next]_vars => AggregatorInv'
<1> SUFFICES ASSUME AggregatorInv, [Next]_vars PROVE AggregatorInv'
  OBVIOUS
<1> USE DEF AggregatorInv
<1>1. ASSUME NEW s \in Sweep, SweepUpdate(s) PROVE AggregatorInv'
  <2> DEFINE N == num_agg
             a == agg_sweep
             c == CacheAppend(a, s)
             l == Len(batch)
             d == Append(batch, s)
  <2>1. /\ NextPos(a) \in 0 .. N - 1
        /\ c = AppendedCache(s) /\ c.num_used \in Nat /\ c.peak \in Sweep
        /\ c.sweeplist \in [0 .. num_agg - 1 -> Sweep \cup {NoSweep}]
        /\ c.sweeplist = [a.sweeplist EXCEPT ![NextPos(a)] = s]
        /\ c.pos = NextPos(a)
        /\ c.looped = Wraps(a)
        /\ c.peak = IF a.peak = NoSweep THEN s
                    ELSE IF a.peak.rssi < s.rssi THEN s ELSE a.peak
    BY <1>1, Appended
  <2>2. /\ N \in Nat \ {0} /\ l \in Nat /\ l < N /\ pos_agg = l
        /\ batch \in Seq(Sweep) /\ full \in Seq(Sweep)
        /\ d \in Seq(Sweep) /\ Len(d) = l + 1 /\ d # <<>>
    <3>1. BatchOK
      OBVIOUS
    <3>2. batch \in Seq(Sweep) /\ num_agg \in Nat \ {0} /\ Len(batch) < num_agg
      BY <3>1 DEF BatchOK
    <3>3. Append(batch, s) \in Seq(Sweep) /\ Len(Append(batch, s)) = Len(batch) + 1
          /\ Append(batch, s) # <<>> /\ Len(batch) \in Nat
      BY <1>1, <3>2
    <3> QED
      BY <3>1, <3>2, <3>3 DEF BatchOK
  <2>3. /\ a.pos = IF full = <<>> THEN l - 1 ELSE l
        /\ a.num_alloc = N
        /\ a.sweeplist \in [0 .. N - 1 -> Sweep \cup {NoSweep}]
    BY DEF PosFollows, CacheOK, IsCache
  <2>4. PeakOf(c.peak, d)
    <3>1. IF batch = <<>> THEN a.peak = NoSweep ELSE PeakOf(a.peak, batch)
      BY DEF PeakOfBatch
    <3> QED
      BY <1>1, <2>1, <2>2, <3>1, PeakGrows
  <2>5. num_agg' = N
    BY <1>1 DEF SweepUpdate
  <2>6. \A x \in 0 .. N - 1 : (full # <<>> \/ x <= a.pos => a.sweeplist[x] # NoSweep)
    BY DEF SlotsFilled
  <2>7. s # NoSweep
    BY <1>1, SweepFacts
  <2>8. \A x \in 0 .. N - 1 : c.sweeplist[x] = IF x = NextPos(a) THEN s ELSE a.sweeplist[x]
    BY <2>1, <2>3
  <2> HIDE DEF c, a, d
  <2>9. CASE l + 1 = N
    <3>1. /\ delivered' = c.peak /\ agg_sweep' = CacheClear(c) /\ pos_agg' = 0
          /\ batch' = <<>> /\ full' = d
      BY <1>1, <2>2, <2>9 DEF SweepUpdate, c, a, d
    <3>2. BatchOK'
      BY <2>2, <2>5, <3>1 DEF BatchOK
    <3>3. CacheOK' /\ agg_sweep'.pos = 0 /\ agg_sweep'.peak = NoSweep
          /\ agg_sweep'.sweeplist = c.sweeplist
      <4> DEFINE e == CacheClear(c)
      <4>1. e = CacheOf(N, c.sweeplist, s, NoSweep, NoSweep, 0, FALSE, 0)
        <5> DEFINE li == Stored(a, s)
                   p == NewPeak(a, s)
                   r == NewRollPeak(a, s)
                   i == NextPos(a)
                   w == Wraps(a)
                   u == IF ~Wraps(a) /\ a.num_used < N THEN a.num_used + 1 ELSE a.num_used
        <5>1. c = CacheOf(N, li, s, p, r, i, w, u)
          BY <2>1 DEF AppendedCache, a
        <5> HIDE DEF li, p, r, i, u, w
        <5>3. c.sweeplist = li
          BY <5>1 DEF CacheOf
        <5>4. CacheClear(c) = CacheOf(N, li, s, NoSweep, NoSweep, 0, FALSE, 0)
          BY <5>1, CacheOfCleared
        <5> QED
          BY <5>3, <5>4
      <4>2. c.sweeplist \in [0 .. N - 1 -> Sweep \cup {NoSweep}] /\ 0 \in -1 .. N - 1
        BY <2>1, <2>2
      <4> HIDE DEF e
      <4>3. IsCache(e, N)
        BY <1>1, <4>1, <4>2, CacheOfTypes
      <4>4. e.pos = 0 /\ e.peak = NoSweep /\ e.sweeplist = c.sweeplist
        BY <4>1 DEF CacheOf
      <4>5. agg_sweep' = e
        BY <3>1 DEF e
      <4> QED
        BY <2>5, <4>3, <4>4, <4>5 DEF CacheOK
    <3>4. PosFollows'
      BY <2>2, <3>1, <3>3 DEF PosFollows
    <3>5. SlotsFilled'
      <4> SUFFICES ASSUME NEW x \in 0 .. N - 1 PROVE c.sweeplist[x] # NoSweep
        BY <2>5, <3>3 DEF SlotsFilled
      <4>1. CASE full # <<>>
        BY <2>6, <2>7, <2>8, <4>1
      <4>2. CASE full = <<>>
        <5>1. a.pos = N - 2 /\ NextPos(a) = N - 1
          BY <2>2, <2>3, <2>9, <4>2 DEF NextPos, Wraps
        <5> QED
          BY <2>2, <2>6, <2>7, <2>8, <5>1
      <4> QED
        BY <4>1, <4>2
    <3>6. PeakOfBatch' /\ PeakOfFull'
      BY <2>4, <3>1, <3>3 DEF PeakOfBatch, PeakOfFull
    <3> QED
      BY <3>2, <3>3, <3>4, <3>5, <3>6
  <2>10. CASE l + 1 # N
    <3>1. /\ agg_sweep' = c /\ pos_agg' = l + 1 /\ delivered' = delivered
          /\ batch' = d /\ full' = full
      BY <1>1, <2>2, <2>10 DEF SweepUpdate, c, a, d
    <3>2. BatchOK'
      BY <2>2, <2>5, <2>10, <3>1 DEF BatchOK
    <3>3. ~Wraps(a) /\ NextPos(a) = a.pos + 1
      BY <2>2, <2>3, <2>10 DEF Wraps, NextPos
    <3>4. CacheOK'
      <4>1. c.looped = FALSE
        BY <2>1, <3>3
      <4>2. IsCache(c, N)
        <5> DEFINE li == Stored(a, s)
                   p == NewPeak(a, s)
                   r == NewRollPeak(a, s)
                   i == NextPos(a)
                   u == IF ~Wraps(a) /\ a.num_used < N THEN a.num_used + 1 ELSE a.num_used
        <5>1. c = CacheOf(N, li, s, p, r, i, Wraps(a), u)
          BY <2>1 DEF AppendedCache, a
        <5> HIDE DEF li, p, r, i, u
        <5>2. c.sweeplist = li /\ c.peak = p /\ c.pos = i /\ c.looped = Wraps(a) /\ c.num_used = u
          BY <5>1 DEF CacheOf
        <5>3. Wraps(a) = FALSE
          BY <4>1, <5>2
        <5>a. li \in [0 .. N - 1 -> Sweep \cup {NoSweep}] /\ p \in Sweep \cup {NoSweep} /\ u \in Nat
          BY <2>1, <5>2
        <5>b. i \in -1 .. N - 1
          BY <2>1, <2>2, <5>2
        <5>4. /\ li \in [0 .. N - 1 -> Sweep \cup {NoSweep}] /\ p \in Sweep \cup {NoSweep}
              /\ i \in -1 .. N - 1 /\ u \in Nat
          BY <5>a, <5>b
        <5>5. c = CacheOf(N, li, s, p, r, i, FALSE, u)
          BY <5>1, <5>3
        <5> QED
          BY <1>1, <5>4, <5>5, CacheOfTypes
      <4> QED
        BY <2>5, <3>1, <4>2 DEF CacheOK
    <3>5. PosFollows'
      BY <2>1, <2>2, <2>3, <3>1, <3>3 DEF PosFollows
    <3>6. SlotsFilled'
      <4> SUFFICES ASSUME NEW x \in 0 .. N - 1, full # <<>> \/ x <= c.pos
                   PROVE  c.sweeplist[x] # NoSweep
        BY <2>5, <3>1 DEF SlotsFilled
      <4>1. CASE x = NextPos(a)
        BY <2>7, <2>8, <4>1
      <4>2. CASE x # NextPos(a)
        <5>1. full # <<>> \/ x <= a.pos
          BY <2>1, <2>2, <2>3, <3>3, <4>2
        <5> QED
          BY <2>6, <2>8, <4>2, <5>1
      <4> QED
        BY <4>1, <4>2
    <3>7. PeakOfBatch' /\ PeakOfFull'
      BY <2>2, <2>4, <3>1 DEF PeakOfBatch, PeakOfFull
    <3> QED
      BY <3>2, <3>4, <3>5, <3>6, <3>7
  <2> QED
    BY <2>9, <2>10
<1>2. CASE UNCHANGED vars
  BY <1>2 DEF vars, BatchOK, CacheOK, IsCache, PosFollows, SlotsFilled, PeakOfBatch, PeakOfFull
<1> QED
  BY <1>1, <1>2 DEF Next

(***************************************************************************)
(* A widget gets the peak of every batch once, of that batch alone.        *)
(***************************************************************************)
THEOREM BatchesDelivered == Spec => []DeliveredIsBatchPeak
<1>1. AggregatorInv => DeliveredIsBatchPeak
  <2> SUFFICES ASSUME AggregatorInv PROVE DeliveredIsBatchPeak
    OBVIOUS
  <2>1. pos_agg = Len(batch) /\ full \in Seq(Sweep)
    BY DEF AggregatorInv, BatchOK
  <2>2. ASSUME full # <<>>
        PROVE  delivered = [len |-> 1, rssi |-> Max({full[k].rssi : k \in DOMAIN full})]
    <3> DEFINE S == {full[k].rssi : k \in DOMAIN full}
               b == delivered.rssi
    <3>1. PeakOf(delivered, full)
      BY <2>2 DEF AggregatorInv, PeakOfFull
    <3>2. DOMAIN full = 1 .. Len(full) /\ Len(full) \in Nat
      BY <2>1
    <3>3. b \in Nat /\ delivered = [len |-> 1, rssi |-> b]
      BY <3>1, SweepFacts DEF PeakOf
    <3>4. b \in S /\ \A y \in S : y <= b
      BY <3>1, <3>2 DEF PeakOf
    <3>5. S \subseteq Nat
      <4> SUFFICES ASSUME NEW k \in DOMAIN full PROVE full[k].rssi \in Nat
        OBVIOUS
      <4>1. full[k] \in Sweep
        BY <2>1
      <4> QED
        BY <4>1, SweepFacts
    <3> HIDE DEF S, b
    <3>6. Max(S) \in S /\ \A y \in S : y <= Max(S)
      BY <3>3, <3>4, <3>5, MaxOfBounded
    <3> DEFINE m == Max(S)
    <3>7. m \in Nat /\ m \in S /\ \A y \in S : y <= m
      BY <3>5, <3>6
    <3> HIDE DEF m
    <3>8. m = b
      BY <3>3, <3>4, <3>7
    <3>9. Max(S) = b
      BY <3>8 DEF m
    <3> QED
      BY <3>3, <3>9 DEF S
  <2> QED
    BY <2>1, <2>2 DEF DeliveredIsBatchPeak
<1> QED
  BY <1>1, InitAggregator, NextAggregator, PTL DEF Spec

(***************************************************************************)
(* No append to the callback's cache meets an empty slot or a sweep of     *)
(* another length.                                                         *)
(***************************************************************************)
THEOREM AggregatorAppendsAreSafe == Spec => []AppendsAreSafe
<1>1. AggregatorInv => AppendsAreSafe
  <2> SUFFICES ASSUME AggregatorInv, NEW s \in Sweep PROVE ~AppendFaults(agg_sweep, s)
    BY DEF AppendsAreSafe
  <2> DEFINE a == agg_sweep
             N == num_agg
  <2>1. /\ a.calc_avg = FALSE /\ a.pos \in -1 .. N - 1 /\ a.num_alloc = N /\ a.looped = FALSE
        /\ a.sweeplist \in [0 .. N - 1 -> Sweep \cup {NoSweep}]
        /\ a.peak \in Sweep \cup {NoSweep} /\ N \in Nat \ {0}
    BY DEF AggregatorInv, CacheOK, IsCache, BatchOK
  <2>2. NextPos(a) \in 0 .. N - 1
    BY <2>1 DEF NextPos, Wraps
  <2>3. \A x \in 0 .. N - 1 : Stored(a, s)[x] = IF x = NextPos(a) THEN s ELSE a.sweeplist[x]
    BY <2>1, <2>2 DEF Stored
  <2>4. s # NoSweep /\ s.len = 1
    BY SweepFacts
  <2>5. ASSUME a.peak # NoSweep PROVE s.len = a.peak.len
    BY <2>1, <2>4, <2>5, SweepFacts
  <2>6. ASSUME NEW x \in 0 .. NumSampled(a) - 1
        PROVE  Stored(a, s)[x] # NoSweep /\ ~(Stored(a, s)[x].len < s.len)
    <3>1. x \in 0 .. N - 1
      BY <2>1, <2>2 DEF NumSampled
    <3>2. x = NextPos(a) \/ full # <<>> \/ x <= a.pos
      <4>1. CASE full = <<>>
        <5>1. a.pos < N - 1
          BY <4>1 DEF AggregatorInv, PosFollows, BatchOK
        <5> QED
          BY <2>1, <5>1 DEF NumSampled, NextPos, Wraps
      <4> QED
        BY <4>1
    <3>3. Stored(a, s)[x] # NoSweep /\ Stored(a, s)[x] \in Sweep
      <4>1. CASE x = NextPos(a)
        BY <2>3, <2>4, <3>1, <4>1
      <4>2. CASE x # NextPos(a)
        <5>1. a.sweeplist[x] # NoSweep
          BY <3>1, <3>2, <4>2 DEF AggregatorInv, SlotsFilled
        <5> QED
          BY <2>1, <2>3, <3>1, <4>2, <5>1
      <4> QED
        BY <4>1, <4>2
    <3>4. Stored(a, s)[x].len = 1
      BY <3>3, SweepFacts
    <3> QED
      BY <2>4, <3>3, <3>4
  <2> QED
    BY <2>1, <2>5, <2>6 DEF AppendFaults, PeakFaults, AvgFaults
<1> QED
  BY <1>1, InitAggregator, NextAggregator, PTL DEF Spec
=============================================================================
