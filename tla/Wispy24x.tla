------------------------------ MODULE Wispy24x ------------------------------
(***************************************************************************)
(* The Wi-Spy 24x as wispy_hw_24x.c drives it.  A sweep comes in Packets   *)
(* reports of FullBytes samples, the last one of LastBytes.  The buffer is *)
(* the sequence of the packets stored since the base was last 0: nothing   *)
(* else of it is read when it is full.                                     *)
(***************************************************************************)
EXTENDS UsbCapture

CONSTANTS Packets, FullBytes, LastBytes

ASSUME Wispy24xAssumption ==
  Packets \in Nat \ {0} /\ FullBytes \in Nat /\ LastBytes \in 1 .. FullBytes

NumSamples == (Packets - 1) * FullBytes + LastBytes
ValidBytes(r) == IF r.at = Packets - 1 THEN LastBytes ELSE FullBytes

Following24x(r) == [at |-> (r.at + 1) % Packets, turn |-> 0, gap |-> FALSE]

(* init_path; sweepbase is what malloc left there: 0, a base inside the    *)
(* buffer or one that is not.                                              *)
Init24x ==
  /\ driver = "24x" /\ CaptureInit
  /\ sweepbuf = NoBuffer /\ sweepbase \in {0, FullBytes, NumSamples + 1}
  /\ calibration = [done |-> TRUE, sweeps |-> 0]
  /\ \E i \in 0 .. Packets - 1 : dev = [mode |-> "live", next |-> From(i)]

Open24x == driver = "24x" /\ OpenDevice

(* The end of open does not look at the state it writes over.              *)
OpenEnds24x == driver = "24x" /\ StateConfiguring

SetCalibration24x ==
  /\ driver = "24x" /\ pc = "calibrate"
  /\ pc' = "position" /\ state' = "RUNNING"
  /\ UNCHANGED <<driver, frontend, ready, configured, threadVars, alive, handles, q, 
                 dev, asmVars>>

(* setposition; no front end looks at what it returns, and raw and the     *)
(* graphs not at the state it leaves behind either.                        *)
SetPosition24x ==
  /\ driver = "24x" /\ pc = "position"
  /\ pc' = "loop"
  /\ \/ /\ dev.mode # "gone"
        /\ dev' = [dev EXCEPT !.next = Restarted]
        /\ configured' = FALSE /\ sweepbuf' = <<>> /\ initialized' = FALSE
        /\ UNCHANGED state
     \/ state' = "ERROR" /\ UNCHANGED <<dev, configured, sweepbuf, initialized>>
  /\ UNCHANGED <<driver, frontend, ready, threadVars, alive, handles, q, 
                 sweepbase, calibration, cache, run>>

-----------------------------------------------------------------------------
(* poll, from the report on.                                               *)

(* Where report r goes: the report with the start frequency of the sweep   *)
(* starts it over, any other one follows the one before it.                *)
Base(r) == IF r.at = 0 THEN 0 ELSE sweepbase

(* "Bunk data", and what comes before a base of 0, is thrown out.          *)
StoresAtOnce(r) ==     \* mutant: does not wait for a base of 0
  sweepbuf # NoBuffer /\ Base(r) <= NumSamples

Stores(r) ==
  /\ sweepbuf # NoBuffer
  /\ Base(r) <= NumSamples
  /\ Base(r) = 0 \/ initialized

Poll24x ==
  /\ driver = "24x"
  /\ LET r == Head(q) IN
       /\ Received(r)
       /\ IF Stores(r)
          THEN /\ sweepbuf' = IF Base(r) = 0 THEN <<r.at>>
                              ELSE IF Base(r) < NumSamples THEN Append(sweepbuf, r.at)
                              ELSE sweepbuf
               /\ initialized' = TRUE
               /\ sweepbase' = Base(r) + ValidBytes(r)
               /\ pc' = IF Base(r) + ValidBytes(r) = NumSamples THEN "deliver" ELSE "loop"
          ELSE /\ sweepbase' = IF sweepbuf # NoBuffer THEN Base(r) ELSE sweepbase
               /\ pc' = "loop" /\ UNCHANGED <<sweepbuf, initialized>>
  /\ UNCHANGED <<state, calibration, cache>>

-----------------------------------------------------------------------------
(* The service thread.                                                     *)

ThreadChecks24x ==
  /\ driver = "24x" /\ ThreadSelects
  /\ ThreadEnds \/ ReadsUnlessRequeued

ThreadTransfers24x ==
  /\ driver = "24x" /\ thr = "transfer" /\ ProcessRuns
  /\ \/ Reads(Following24x(dev.next))
     \/ TimesOut
     \/ dev.mode = "gone" /\ ThreadLoses

DeviceSkips24x == driver = "24x" /\ Skips(Following24x(dev.next))

Main24x   == Open24x \/ OpenEnds24x \/ SetCalibration24x \/ SetPosition24x \/ Poll24x
Thread24x == ThreadChecks24x \/ ThreadTransfers24x

-----------------------------------------------------------------------------
(***************************************************************************)
(* A sweep the 24x hands out holds each packet once and in its place,      *)
(* provided no report was lost inside it: packets are placed one after the *)
(* other, whatever sweepbase held at first, wherever the thread began to   *)
(* read and whatever was lost before.                                      *)
(***************************************************************************)
InOrder24x ==
  driver = "24x" /\ pc = "deliver" /\ run >= Len(sweepbuf)
  => sweepbuf = [k \in 1 .. Packets |-> k - 1]
=============================================================================
