----------------------------- MODULE WispyGen1 ------------------------------
(***************************************************************************)
(* The first Wi-Spy as wispy_hw_gen1.c drives it.  A report says where its *)
(* samples go; the sweeps up to the CalibrateSweeps-th go into the         *)
(* calibration record and not into the sweep buffer.                       *)
(***************************************************************************)
EXTENDS UsbCapture

CONSTANTS
  Gen1Packets,        \* reports per sweep
  CalibrateSweeps     \* WISPY1_USB_CALIBRATE_SWEEPS

(* The place is one byte of the report, and 0xFF in it is no place.        *)
ASSUME WispyGen1Assumption ==
  Gen1Packets \in 1 .. WakeUp.at /\ CalibrateSweeps \in Nat

FollowingGen1(r) == [at |-> (r.at + 1) % Gen1Packets, turn |-> 0, gap |-> FALSE]

(* init_path: the buffer is there from the start, its samples unwritten.   *)
InitGen1 ==
  /\ driver = "gen1" /\ CaptureInit
  /\ sweepbuf = [k \in 1 .. Gen1Packets |-> Unwritten] /\ sweepbase = 0
  /\ calibration = [done |-> TRUE, sweeps |-> -1]
  /\ \E i \in 0 .. Gen1Packets - 1 :
       dev = [mode |-> "live", next |-> From(i)]

OpenGen1 == driver = "gen1" /\ OpenDevice

OpenEndsGen1 == driver = "gen1" /\ StateConfiguring

(* setcalibration; the device has no setposition.                          *)
SetCalibrationGen1 ==
  /\ driver = "gen1" /\ pc = "calibrate"
  /\ pc' = "loop" /\ state' = "CALIBRATING"
  /\ calibration' = [calibration EXCEPT !.done = FALSE]
  /\ UNCHANGED <<driver, frontend, ready, configured, threadVars, alive, handles, q, 
                 dev, sweepbuf, initialized, sweepbase, cache, run>>

-----------------------------------------------------------------------------
(* poll, from the report on.                                               *)

(* The beginning of a sweep counts, and ends the calibration in time.      *)
CalibratedEarly(r) ==     \* mutant: the calibration ends with any report
  [done |-> calibration.done \/ calibration.sweeps >= 0, sweeps |-> calibration.sweeps + 1]

Calibrated(r) ==
  IF r.at # 0 \/ calibration.done THEN calibration
  ELSE [done   |-> calibration.sweeps + 1 >= CalibrateSweeps,
        sweeps |-> calibration.sweeps + 1]

PollGen1 ==
  /\ driver = "gen1"
  /\ LET r == Head(q) IN
       /\ Received(r)
       /\ calibration' = Calibrated(r)
       /\ initialized' = (initialized \/ r.at = 0)
       /\ state' = IF calibration'.done /\ ~calibration.done THEN "RUNNING" ELSE state
       /\ sweepbuf' = IF initialized' /\ calibration'.done /\ r.at < Gen1Packets
                      THEN [sweepbuf EXCEPT ![r.at + 1] = r.at] ELSE sweepbuf
       /\ pc' = IF initialized' /\ calibration'.done /\ r.at >= Gen1Packets - 1
                THEN "deliver" ELSE "loop"
  /\ UNCHANGED <<sweepbase, cache>>

-----------------------------------------------------------------------------
(* The service thread.                                                     *)

(* A report put back is sent in the next round.                            *)
ThreadChecksGen1Forgetful ==     \* mutant: reads over the report put back
  /\ driver = "gen1" /\ ThreadSelects
  /\ \/ ThreadEnds
     \/ /\ alive
        /\ thr' = "transfer"
        /\ UNCHANGED <<mainVars, buf, error, sharedVars, dev, asmVars>>

ThreadChecksGen1 ==
  /\ driver = "gen1" /\ ThreadSelects
  /\ \/ ThreadEnds
     \/ /\ alive
        /\ thr' = IF error THEN "send" ELSE "transfer"
        /\ UNCHANGED <<mainVars, buf, error, sharedVars, dev, asmVars>>


GivesNoData ==
  /\ dev.mode = "quiet"
  /\ thr' = "wake" /\ alive' = FALSE
  /\ UNCHANGED <<mainVars, buf, error, state, handles, q, dev, asmVars>>

ThreadTransfersGen1 ==
  /\ driver = "gen1" /\ thr = "transfer" /\ ProcessRuns
  /\ \/ Reads(FollowingGen1(dev.next))
     \/ GivesNoData
     \/ dev.mode # "live" /\ ThreadLoses

(* "No data returned, was the device removed?": the flag is down, and a    *)
(* last datagram makes the main thread look at it.                         *)
ThreadWakes ==
  /\ driver = "gen1" /\ thr = "wake" /\ ProcessRuns
  /\ thr' = "fail"
  /\ q' \in {q} \cup (IF handles THEN {Append(q, WakeUp)} ELSE {})
  /\ UNCHANGED <<mainVars, buf, error, alive, state, handles, dev, asmVars>>

DeviceSkipsGen1 == driver = "gen1" /\ Skips(FollowingGen1(dev.next))

MainGen1   == OpenGen1 \/ OpenEndsGen1 \/ SetCalibrationGen1 \/ PollGen1
ThreadGen1 == ThreadChecksGen1 \/ ThreadTransfersGen1 \/ ThreadWakes

-----------------------------------------------------------------------------
(***************************************************************************)
(* A sweep the gen1 hands out has a level in every place, all of them      *)
(* measured after the calibration, provided no report was lost inside it:  *)
(* the buffer is not written before the device is calibrated, and its end  *)
(* is only told by the last packet.                                        *)
(***************************************************************************)
CalibratedSweep ==
  driver = "gen1" /\ pc = "deliver" /\ run >= Gen1Packets
  => \A k \in 1 .. Gen1Packets : sweepbuf[k] = k - 1

(***************************************************************************)
(* "Send it to the IPC remote, re-queue on enobufs": what the gen1 thread  *)
(* put back stays in its buffer until it is in the socket, however often   *)
(* the send fails in between; only the end of the thread leaves it unsent. *)
(***************************************************************************)
RequeuedIsSent ==
  [][driver = "gen1" /\ error
     => (error' /\ buf' = buf) \/ (~error' /\ q' = Append(q, buf))]_vars

(* The wake-up datagram is in the socket.                                  *)
Woken == \E k \in 1 .. Len(q) : q[k] = WakeUp

=============================================================================
