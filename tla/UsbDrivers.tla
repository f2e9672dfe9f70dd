----------------------------- MODULE UsbDrivers -----------------------------
(***************************************************************************)
(* A front end and one device of any of the three drivers.                 *)
(***************************************************************************)
EXTENDS Wispy24x, WispyGen1, UbertoothU1

Init == Init24x \/ InitGen1 \/ InitU1

Main   == MainStep \/ Main24x \/ MainGen1 \/ MainU1
Thread == ThreadStep \/ Thread24x \/ ThreadGen1 \/ ThreadU1
Environment ==
  DeviceChanges \/ DeviceSkips24x \/ DeviceSkipsGen1 \/ DeviceSkipsU1

Next == Main \/ GtkDropsDevice \/ Thread \/ Environment

Spec == Init /\ [][Next]_vars

(***************************************************************************)
(* The scheduler runs both threads; the device and the user owe nothing,   *)
(* and no select has to fail.                                              *)
(***************************************************************************)
FairSpec == Spec /\ WF_vars(Main) /\ WF_vars(Thread /\ ~ThreadSelectFails)

-----------------------------------------------------------------------------
(***************************************************************************)
(* The variables have the types of the drivers' aux records and the phy,   *)
(* and the socket holds no more than select admits, and gen1's last        *)
(* datagram.                                                               *)
(***************************************************************************)
Places ==
  CASE driver = "24x"  -> 0 .. Packets - 1
    [] driver = "gen1" -> 0 .. Gen1Packets - 1
    [] driver = "u1"   -> 0 .. NumFreqs - 1

Report == [at : Places, turn : 0 .. Turns - 1, gap : BOOLEAN]

Datagram == Report \cup (IF driver = "gen1" THEN {WakeUp} ELSE {})

TypeOK ==
  /\ driver \in {"24x", "gen1", "u1"} /\ frontend \in {"raw", "gtk"}
  /\ pc \in {"open", "start", "calibrate", "position", "loop", "fd", "poll", "recv",
             "deliver", "close", "join", "stopped", "failed"}
  /\ thr \in {"none", "select", "transfer", "send", "wake", "fail", "exit"}
  /\ state \in {"CLOSED", "CONFIGURING", "CALIBRATING", "RUNNING", "ERROR"}
  /\ {ready, configured, error, alive, handles, initialized} \subseteq BOOLEAN
  /\ q \in Seq(Datagram) /\ Len(q) <= QMax
  /\ buf \in Report \cup {NoReport}
  /\ dev \in [mode : {"live", "quiet", "gone"}, next : Report]
  /\ CASE driver = "24x"  -> /\ sweepbuf \in Seq(-1 .. Packets - 1)
                             /\ sweepbase \in 0 .. NumSamples + FullBytes
       [] driver = "gen1" -> /\ sweepbuf \in [1 .. Gen1Packets -> -1 .. Gen1Packets - 1]
                             /\ calibration.sweeps \in -1 .. CalibrateSweeps
       [] driver = "u1"   -> /\ \/ sweepbuf = NoBuffer
                                \/ sweepbuf \in [1 .. NumFreqs -> -1 .. Turns - 1]
                             /\ cache \in Seq(-2 .. Turns - 1) /\ Len(cache) <= AvgSamples

(***************************************************************************)
(* "If the thread is still alive, don't take away the devices it might     *)
(* still be reading, wait for it to error down": whoever closes, the       *)
(* handle and the sockets are open wherever the thread of any driver uses  *)
(* them, with one exception.  The last datagram of gen1 is sent after the  *)
(* flag went down, and close does not wait for a thread whose flag is      *)
(* down: that send may be on a socket which is closed by then.             *)
(***************************************************************************)
NoUseAfterClose ==
  thr \in {"select", "transfer", "send", "wake"} /\ ~handles
  => driver = "gen1" /\ thr = "wake" /\ ~alive

(* The thread failed, its error not written over; it is about to set it.   *)
ErrorStands == pc \notin {"start", "calibrate"} /\ thr = "exit" /\ state = "ERROR"
ErrorIsComing == pc \notin {"start", "calibrate"} /\ thr = "fail"

(***************************************************************************)
(* Once setcalibration is past, a thread that fails ends raw, although     *)
(* nothing wakes raw up and getpollfd has closed the socket by then, with  *)
(* two exceptions: raw polls the Ubertooth again after a sweep, without    *)
(* select, and blocks in recv on a thread that is gone; and the end of the *)
(* calibration of gen1 writes over the error.  An error that open or       *)
(* setcalibration writes over is none of this.                             *)
(***************************************************************************)
FailureStopsRaw ==
  (frontend = "raw" /\ (ErrorIsComing \/ ErrorStands))
     ~> \/ pc \in {"stopped", "failed"}
        \/ driver = "u1" /\ pc = "recv" /\ q = <<>>
        \/ driver = "gen1" /\ thr = "exit" /\ state = "RUNNING"
=============================================================================
