---------------------------- MODULE UbertoothU1 -----------------------------
(***************************************************************************)
(* The Ubertooth One as ubertooth_hw_u1.c drives it.  A report has the     *)
(* samples of ReportSamples frequencies in turn; NumFreqs is no multiple   *)
(* of it, so a sweep begins anywhere in a report.  The buffer holds, at    *)
(* each frequency, the turn its sample is of; the cache holds the turn of  *)
(* each sweep whose samples fit together.  What the front ends get is the  *)
(* peak of the sweeps in the cache.                                        *)
(***************************************************************************)
EXTENDS UsbCapture

CONSTANTS
  NumFreqs,          \* UBERTOOTH_U1_NUM_SAMPLES
  ReportSamples,     \* samples in a report
  AvgSamples,        \* UBERTOOTH_U1_AVG_SAMPLES
  Turns              \* sweeps told apart (model bound)

ASSUME UbertoothU1Assumption ==
  /\ NumFreqs \in Nat \ {0, 1} /\ ReportSamples \in 1 .. NumFreqs
  /\ AvgSamples \in Nat \ {0} /\ Turns \in Nat \ {0}

(* Sample j of a report r: its frequency and its sweep.                    *)
FreqOf(r, j) == (r.at + j) % NumFreqs
TurnOf(r, j) == (r.turn + (r.at + j) \div NumFreqs) % Turns

FollowingU1(r) ==
  [at |-> FreqOf(r, ReportSamples), turn |-> TurnOf(r, ReportSamples), gap |-> FALSE]

(* init_path.                                                              *)
InitU1 ==
  /\ driver = "u1" /\ CaptureInit
  /\ sweepbuf = NoBuffer /\ sweepbase = 0
  /\ calibration = [done |-> TRUE, sweeps |-> 0]
  /\ \E i \in 0 .. NumFreqs - 1 :
       dev = [mode |-> "live", next |-> From(i)]

OpenU1 == driver = "u1" /\ OpenDevice

OpenEndsU1 == driver = "u1" /\ StateConfiguring

SetCalibrationU1 ==
  /\ driver = "u1" /\ pc = "calibrate"
  /\ pc' = "position" /\ state' = "RUNNING"
  /\ UNCHANGED <<driver, frontend, ready, configured, threadVars, alive, handles, q, 
                 dev, asmVars>>

(* setposition; the command starts the scan over, and what poll keeps      *)
(* apart from the buffer stays.                                            *)
SetPositionU1 ==
  /\ driver = "u1" /\ pc = "position"
  /\ pc' = "loop"
  /\ \/ /\ dev.mode # "gone"
        /\ dev' = [dev EXCEPT !.next = Restarted]
        /\ configured' = FALSE
        /\ sweepbuf' = [k \in 1 .. NumFreqs |-> Unwritten]
        /\ UNCHANGED state
     \/ state' = "ERROR" /\ UNCHANGED <<dev, configured, sweepbuf>>
  /\ UNCHANGED <<driver, frontend, ready, threadVars, alive, handles, q, 
                 initialized, sweepbase, calibration, cache, run>>

-----------------------------------------------------------------------------
(* poll, from the report on.                                               *)

(* The buffer after the samples of r up to sample j.                       *)
Filled(r, j) ==
  [k \in 1 .. NumFreqs |->
     IF \E i \in 0 .. j : FreqOf(r, i) = k - 1
     THEN TurnOf(r, CHOOSE i \in 0 .. j : FreqOf(r, i) = k - 1) ELSE sweepbuf[k]]

(* The sample of the first frequency; it is stored before the buffer is    *)
(* put into the cache, of which it ends the sweep.                         *)
FirstFreq(r) == {j \in 0 .. ReportSamples - 1 : FreqOf(r, j) = 0}

(* A sweep is of one turn when all its samples are, but the one at the     *)
(* first frequency, which is of the turn after it.                         *)
Mixed == -2

SweepTurn(s) ==
  IF /\ s[2] # Unwritten /\ s[1] = (s[2] + 1) % Turns
     /\ \A k \in 2 .. NumFreqs : s[k] = s[2]
  THEN s[2] ELSE Mixed

(* spectool_cache_append: the oldest sweep makes room.                     *)
AppendedUnprimed(r, j) ==     \* mutant: "we don't start at 1"
  LET all == Append(cache, SweepTurn(Filled(r, j)))
  IN  IF Len(all) > AvgSamples THEN Tail(all) ELSE all

Appended(r, j) ==
  LET all == Append(cache, SweepTurn(Filled(r, j)))
  IN  IF ~initialized THEN cache ELSE IF Len(all) > AvgSamples THEN Tail(all) ELSE all

(* The cache after the report: a sweep ends at most once in it.            *)
Cached(r) ==
  IF FirstFreq(r) = {} THEN cache ELSE Appended(r, CHOOSE j \in FirstFreq(r) : TRUE)

PollU1 ==
  /\ driver = "u1"
  /\ LET r == Head(q) IN
       /\ Received(r)
       /\ IF sweepbuf = NoBuffer
          THEN pc' = "loop" /\ UNCHANGED <<sweepbuf, initialized, cache>>
          ELSE /\ sweepbuf' = Filled(r, ReportSamples - 1)
               /\ initialized' = (initialized \/ FirstFreq(r) # {})
               /\ cache' = Cached(r)
               /\ pc' = IF FirstFreq(r) # {} /\ Len(cache') = AvgSamples
                        THEN "deliver" ELSE "loop"
  /\ UNCHANGED <<state, sweepbase, calibration>>

-----------------------------------------------------------------------------
(* The service thread.                                                     *)

ThreadChecksU1 ==
  /\ driver = "u1" /\ ThreadSelects
  /\ ThreadEnds \/ ReadsUnlessRequeued

ThreadTransfersU1 ==
  /\ driver = "u1" /\ thr = "transfer" /\ ProcessRuns
  /\ \/ Reads(FollowingU1(dev.next))
     \/ TimesOut
     \/ dev.mode = "gone" /\ ThreadLoses

DeviceSkipsU1 == driver = "u1" /\ Skips(FollowingU1(dev.next))

MainU1   == OpenU1 \/ OpenEndsU1 \/ SetCalibrationU1 \/ SetPositionU1 \/ PollU1
ThreadU1 == ThreadChecksU1 \/ ThreadTransfersU1

-----------------------------------------------------------------------------
(***************************************************************************)
(* The peak the Ubertooth hands out is that of the last AvgSamples sweeps  *)
(* of the device, each of them whole and each following the one before it, *)
(* provided no report was lost while they were measured: the sweep it      *)
(* began to watch in the middle of, and the places of the buffer that were *)
(* never written, are in no cache.                                         *)
(***************************************************************************)
PeakWindowWhole ==
  driver = "u1" /\ pc = "deliver" /\ run * ReportSamples >= AvgSamples * NumFreqs + ReportSamples
  => /\ Len(cache) = AvgSamples
     /\ \A i \in 1 .. AvgSamples : cache[i] # Mixed
     /\ \A i \in 2 .. AvgSamples : cache[i] = (cache[i - 1] + 1) % Turns
=============================================================================
