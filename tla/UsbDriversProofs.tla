-------------------------- MODULE UsbDriversProofs --------------------------
(***************************************************************************)
(* Proofs about the 24x, the gen1 and the Ubertooth under raw and GTK, for *)
(* every size of socket, sweep, report, window and calibration: the types, *)
(* the handles that outlive the service thread's use of them, what each    *)
(* driver promises of the sweeps it hands out, and what becomes of a       *)
(* report that was put back.                                               *)
(***************************************************************************)
EXTENDS UsbDrivers, TLAPS

(***************************************************************************)
(* Nobody closes while the flag is up; a thread in its loop has the flag   *)
(* up, or the closer waits for it; and before open no thread is there.     *)
(* Only gen1 goes on to send with the flag down.                           *)
(***************************************************************************)
Using == {"select", "transfer", "send"}

FlagKeepsHandles == alive => handles

UserIsKnown == thr \in Using => handles /\ (alive \/ pc = "join")

JoinsAfterClearing == pc = "join" => ~alive

NotStartedYet == pc = "open" => thr = "none" /\ ~alive

WakesAfterClearing == thr = "wake" => driver = "gen1" /\ ~alive

OwnerInv ==
  /\ FlagKeepsHandles /\ UserIsKnown /\ JoinsAfterClearing /\ NotStartedYet
  /\ WakesAfterClearing

LEMMA InitOwner == Init => OwnerInv
BY DEF Init, Init24x, InitGen1, InitU1, CaptureInit, OwnerInv, FlagKeepsHandles,
       UserIsKnown, JoinsAfterClearing, NotStartedYet, WakesAfterClearing, Using

(* The steps of the main thread that are the same for all drivers.         *)
LEMMA SharedMainOwner == OwnerInv /\ (MainStep \/ GtkDropsDevice) => OwnerInv'
<1> USE DEF OwnerInv, FlagKeepsHandles, UserIsKnown, JoinsAfterClearing, NotStartedYet,
            WakesAfterClearing, Using, threadVars, sharedVars
<1> SUFFICES ASSUME OwnerInv, MainStep \/ GtkDropsDevice PROVE OwnerInv'
  OBVIOUS
<1>1. CASE CloseDevice
  BY <1>1 DEF CloseDevice, Release
<1>2. CASE Join
  BY <1>2 DEF Join, Release
<1>3. CASE RawSelects
  BY <1>3 DEF RawSelects, GetPollFd, Release
<1>4. CASE RawTestsFd
  BY <1>4 DEF RawTestsFd, GetPollFd, Release
<1>5. CASE GtkSelects \/ GtkDropsDevice
  BY <1>5 DEF GtkSelects, GtkDropsDevice
<1>6. CASE TakeSweep
  BY <1>6 DEF TakeSweep
<1>7. CASE PollBegins
  BY <1>7 DEF PollBegins, Release, AfterError
<1>8. CASE PollLate
  BY <1>8 DEF PollLate, AfterError
<1> QED
  BY <1>1, <1>2, <1>3, <1>4, <1>5, <1>6, <1>7, <1>8 DEF MainStep

(* The drivers' own steps of the main thread: open starts the thread with  *)
(* the handles open, and nothing else touches them.                        *)
LEMMA DriverMainOwner == OwnerInv /\ (Main24x \/ MainGen1 \/ MainU1) => OwnerInv'
<1> USE DEF OwnerInv, FlagKeepsHandles, UserIsKnown, JoinsAfterClearing, NotStartedYet,
            WakesAfterClearing, Using, threadVars, sharedVars
<1> SUFFICES ASSUME OwnerInv, Main24x \/ MainGen1 \/ MainU1 PROVE OwnerInv'
  OBVIOUS
<1>1. CASE OpenDevice
  BY <1>1 DEF OpenDevice
<1>2. CASE StateConfiguring
  BY <1>2 DEF StateConfiguring
<1>3. CASE SetCalibration24x \/ SetCalibrationGen1 \/ SetCalibrationU1
  BY <1>3 DEF SetCalibration24x, SetCalibrationGen1, SetCalibrationU1
<1>4. CASE SetPosition24x \/ SetPositionU1
  BY <1>4 DEF SetPosition24x, SetPositionU1
<1>5. CASE Poll24x
  <2>1. pc' \in {"deliver", "loop"}
    BY <1>5 DEF Poll24x
  <2> QED
    BY <1>5, <2>1 DEF Poll24x, Received
<1>6. CASE PollGen1
  <2>1. pc' \in {"deliver", "loop"}
    BY <1>6 DEF PollGen1
  <2> QED
    BY <1>6, <2>1 DEF PollGen1, Received
<1>7. CASE PollU1
  <2>1. pc' \in {"deliver", "loop"}
    BY <1>7 DEF PollU1
  <2> QED
    BY <1>7, <2>1 DEF PollU1, Received
<1> QED
  BY <1>1, <1>2, <1>3, <1>4, <1>5, <1>6, <1>7
     DEF Main24x, MainGen1, MainU1, Open24x, OpenGen1, OpenU1, OpenEnds24x, OpenEndsGen1,
         OpenEndsU1

(* A thread leaves its loop with the flag down, and stays in it with the   *)
(* flag as it was.                                                         *)
LEMMA ThreadOwner == OwnerInv /\ Thread => OwnerInv'
<1> USE DEF OwnerInv, FlagKeepsHandles, UserIsKnown, JoinsAfterClearing, NotStartedYet,
            WakesAfterClearing, Using, mainVars, sharedVars
<1> SUFFICES ASSUME OwnerInv, Thread PROVE OwnerInv'
  OBVIOUS
<1>1. CASE ThreadSelectFails \/ ThreadSends \/ ThreadFails
  BY <1>1 DEF ThreadSelectFails, ThreadLoses, ThreadSends, ThreadFails, Sends
<1>2. CASE ThreadChecks24x \/ ThreadChecksU1
  BY <1>2 DEF ThreadChecks24x, ThreadChecksU1, ThreadSelects, ThreadEnds, ReadsUnlessRequeued
<1>3. CASE ThreadChecksGen1
  <2>1. CASE ThreadEnds
    BY <2>1, <1>3 DEF ThreadChecksGen1, ThreadSelects, ThreadEnds
  <2>2. CASE ~ThreadEnds
    <3>1. alive /\ thr = "select" /\ UNCHANGED <<mainVars, sharedVars>>
      BY <1>3, <2>2 DEF ThreadChecksGen1, ThreadSelects
    <3>2. UNCHANGED <<pc, alive, handles>> /\ thr' \in {"send", "transfer"}
      BY <1>3, <2>2, <3>1 DEF ThreadChecksGen1
    <3> QED
      BY <3>1, <3>2
  <2> QED
    BY <2>1, <2>2
<1>4. CASE ThreadTransfers24x \/ ThreadTransfersU1
  BY <1>4 DEF ThreadTransfers24x, ThreadTransfersU1, Reads, TimesOut, ThreadLoses
<1>5. CASE ThreadTransfersGen1
  <2>1. thr = "transfer" /\ driver = "gen1" /\ UNCHANGED <<driver, pc, handles>>
    BY <1>5 DEF ThreadTransfersGen1, Reads, GivesNoData, ThreadLoses
  <2>2. CASE Reads(FollowingGen1(dev.next))
    <3>1. UNCHANGED alive /\ thr' = "send"
      BY <2>2 DEF Reads
    <3> QED
      BY <2>1, <3>1
  <2>3. CASE GivesNoData \/ ThreadLoses
    <3>1. thr' \in {"wake", "fail"} /\ ~alive'
      BY <2>3 DEF GivesNoData, ThreadLoses
    <3> QED
      BY <2>1, <3>1
  <2> QED
    BY <1>5, <2>2, <2>3 DEF ThreadTransfersGen1
<1>6. CASE ThreadWakes
  BY <1>6 DEF ThreadWakes
<1> QED
  BY <1>1, <1>2, <1>3, <1>4, <1>5, <1>6
     DEF Thread, ThreadStep, Thread24x, ThreadGen1, ThreadU1

LEMMA NextOwner == OwnerInv /\ [Next]_vars => OwnerInv'
<1> SUFFICES ASSUME OwnerInv, [Next]_vars PROVE OwnerInv'
  OBVIOUS
<1>1. CASE Main \/ GtkDropsDevice
  BY <1>1, SharedMainOwner, DriverMainOwner DEF Main
<1>2. CASE Thread
  BY <1>2, ThreadOwner
<1>3. CASE Environment \/ UNCHANGED vars
  <2>1. UNCHANGED <<mainVars, threadVars, sharedVars>>
    BY <1>3 DEF Environment, DeviceChanges, DeviceSkips24x, DeviceSkipsGen1, DeviceSkipsU1,
                Skips, vars
  <2> QED
    BY <2>1 DEF mainVars, threadVars, sharedVars, OwnerInv, FlagKeepsHandles, UserIsKnown,
                JoinsAfterClearing, NotStartedYet, WakesAfterClearing
<1> QED
  BY <1>1, <1>2, <1>3 DEF Next

(***************************************************************************)
(* The close of each of the three drivers, called by a user, after an      *)
(* error or by getpollfd, takes the USB handle and the sockets away from a *)
(* thread still using them in one case only: gen1's last datagram, which   *)
(* its thread sends after it has cleared the flag.                         *)
(***************************************************************************)
THEOREM HandlesOutliveThread == Spec => []NoUseAfterClose
<1>1. OwnerInv => NoUseAfterClose
  BY DEF OwnerInv, UserIsKnown, WakesAfterClearing, Using, NoUseAfterClose
<1> QED
  BY <1>1, InitOwner, NextOwner, PTL DEF Spec

-----------------------------------------------------------------------------
(***************************************************************************)
(* Types.  The thread waits for room in the socket before it reads, its    *)
(* buffer holds a report exactly when one is to be sent, and a device is   *)
(* calibrated once and not before it is told to.                           *)
(***************************************************************************)
Room == thr \in {"transfer", "send", "wake"} => Len(q) < QMax

Buffered ==
  /\ thr \in {"none", "transfer", "wake"} => buf = NoReport
  /\ thr = "select" => (error <=> buf # NoReport)
  /\ thr = "transfer" => ~error
  /\ thr = "send" => buf # NoReport
  /\ pc = "open" => q = <<>> /\ buf = NoReport /\ thr = "none" /\ ~error

Uncalibrated ==
  driver = "gen1" =>
    /\ ~calibration.done => calibration.sweeps < CalibrateSweeps
    /\ pc \in {"open", "start", "calibrate"} => calibration = [done |-> TRUE, sweeps |-> -1]

(* TypeOK by its parts.                                                    *)
TypeMain ==
  /\ driver \in {"24x", "gen1", "u1"} /\ frontend \in {"raw", "gtk"}
  /\ pc \in {"open", "start", "calibrate", "position", "loop", "fd", "poll", "recv",
             "deliver", "close", "join", "stopped", "failed"}
  /\ state \in {"CLOSED", "CONFIGURING", "CALIBRATING", "RUNNING", "ERROR"}
  /\ ready \in BOOLEAN /\ configured \in BOOLEAN

TypeThread ==
  /\ thr \in {"none", "select", "transfer", "send", "wake", "fail", "exit"}
  /\ error \in BOOLEAN /\ alive \in BOOLEAN /\ handles \in BOOLEAN

TypeQueue == q \in Seq(Datagram) /\ Len(q) <= QMax

TypeReports ==
  /\ buf \in Report \cup {NoReport}
  /\ dev \in [mode : {"live", "quiet", "gone"}, next : Report]

Type24x ==
  driver = "24x" => /\ sweepbuf \in Seq(-1 .. Packets - 1)
                    /\ sweepbase \in 0 .. NumSamples + FullBytes

TypeGen1 ==
  driver = "gen1" => /\ sweepbuf \in [1 .. Gen1Packets -> -1 .. Gen1Packets - 1]
                     /\ calibration \in [done : BOOLEAN, sweeps : -1 .. CalibrateSweeps]

TypeU1 ==
  driver = "u1" => /\ \/ sweepbuf = NoBuffer
                      \/ sweepbuf \in [1 .. NumFreqs -> -1 .. Turns - 1]
                   /\ cache \in Seq(-2 .. Turns - 1) /\ Len(cache) <= AvgSamples

TypeSweep == initialized \in BOOLEAN /\ Type24x /\ TypeGen1 /\ TypeU1

TypeInv ==
  /\ TypeMain /\ TypeThread /\ TypeQueue /\ TypeReports /\ TypeSweep
  /\ Room /\ Buffered /\ Uncalibrated

LEMMA TypeParts == TypeInv => TypeOK
BY DEF TypeInv, TypeMain, TypeThread, TypeQueue, TypeReports, TypeSweep, Type24x, TypeGen1,
       TypeU1, TypeOK

(* The sizes of a sweep of the 24x.                                        *)
LEMMA Sizes24x ==
  /\ NumSamples \in Nat /\ NumSamples >= 1 /\ FullBytes \in Nat \ {0}
  /\ \A r : ValidBytes(r) \in 1 .. FullBytes
<1>1. (Packets - 1) * FullBytes \in Nat
  BY Wispy24xAssumption
<1> DEFINE a == (Packets - 1) * FullBytes
<1>2. a \in Nat
  BY <1>1
<1> HIDE DEF a
<1>3. NumSamples = a + LastBytes
  BY DEF a, NumSamples
<1> QED
  BY <1>2, <1>3, Wispy24xAssumption DEF ValidBytes

(* What the device sends is a report, whatever comes between.              *)
Following(d, r) ==
  CASE d = "24x"  -> Following24x(r)
    [] d = "gen1" -> FollowingGen1(r)
    [] d = "u1"   -> FollowingU1(r)

LEMMA RemainderRange ==
  ASSUME NEW a \in Int, NEW b \in Nat \ {0} PROVE a % b \in 0 .. b - 1
OBVIOUS

LEMMA Reports ==
  ASSUME TypeMain
  PROVE  /\ \A i \in Places : From(i) \in Report
         /\ \A r \in Report : \A b \in BOOLEAN : [r EXCEPT !.gap = b] \in Report
         /\ \A r \in Report : Following(driver, r) \in Report
         /\ NoReport \notin Report
         /\ 0 \in Places
<1> USE CaptureAssumption, Wispy24xAssumption, WispyGen1Assumption, UbertoothU1Assumption
<1>1. Places \subseteq Nat /\ 0 \in Places /\ 0 \in 0 .. Turns - 1
  BY DEF Places, TypeMain, WakeUp
<1>2. \A i \in Places : From(i) \in Report
  BY <1>1 DEF From, Report
<1>3. \A r \in Report : \A b \in BOOLEAN : [r EXCEPT !.gap = b] \in Report
  BY DEF Report
<1>4. ASSUME NEW r \in Report PROVE Following(driver, r) \in Report
  <2>a. r.at \in Places /\ r.turn \in 0 .. Turns - 1
    BY DEF Report
  <2>b. r.at \in Nat
    BY <2>a, <1>1
  <2>c. r.turn \in Nat
    BY <2>a
  <2>1. r.at \in Places /\ r.at \in Nat /\ r.turn \in Nat
    BY <2>a, <2>b, <2>c
  <2>2. CASE driver = "24x"
    <3>1. (r.at + 1) % Packets \in Places
      BY <2>1, <2>2, RemainderRange DEF Places
    <3> QED
      BY <3>1, <2>2, <1>1 DEF Following, Following24x, Report
  <2>3. CASE driver = "gen1"
    <3>1. Gen1Packets \in Nat \ {0}
      BY DEF WakeUp
    <3>2. (r.at + 1) % Gen1Packets \in Places
      BY <2>1, <2>3, <3>1, RemainderRange DEF Places
    <3> QED
      BY <3>2, <2>3, <1>1 DEF Following, FollowingGen1, Report
  <2>4. CASE driver = "u1"
    <3> DEFINE a == r.at + ReportSamples
    <3>1. a \in Nat
      BY <2>1
    <3> HIDE DEF a
    <3>2. a % NumFreqs \in Places
      BY <3>1, <2>4, RemainderRange DEF Places
    <3>3. a \div NumFreqs \in Int
      BY <3>1
    <3> DEFINE b == r.turn + a \div NumFreqs
    <3>4. b \in Int
      BY <2>1, <3>3
    <3> HIDE DEF b
    <3>5. b % Turns \in 0 .. Turns - 1
      BY <3>4, RemainderRange
    <3> QED
      BY <3>2, <3>5, <2>4 DEF a, b, Following, FollowingU1, FreqOf, TurnOf, Report
  <2> QED
    BY <2>2, <2>3, <2>4 DEF TypeMain
<1>5. NoReport \notin Report
  BY <1>1 DEF NoReport, Report
<1> QED
  BY <1>1, <1>2, <1>3, <1>4, <1>5

(* A variable that keeps its value keeps its type.                         *)
LEMMA SameReports ==
  UNCHANGED driver => Places' = Places /\ Report' = Report /\ Datagram' = Datagram
BY DEF Places, Report, Datagram

LEMMA SameSweep == TypeSweep /\ UNCHANGED <<driver, asmVars>> => TypeSweep'
BY DEF TypeSweep, asmVars, Type24x, TypeGen1, TypeU1

LEMMA SameQueue == TypeQueue /\ UNCHANGED <<driver, q>> => TypeQueue'
BY SameReports DEF TypeQueue

LEMMA QueueTail ==
  ASSUME TypeQueue, UNCHANGED driver, q' = <<>> \/ (q # <<>> /\ q' = Tail(q))
  PROVE  TypeQueue' /\ Len(q') <= Len(q)
<1>1. Datagram' = Datagram
  BY SameReports
<1> DEFINE D == Datagram
<1>2. q \in Seq(D) /\ Len(q) <= QMax /\ QMax \in Nat
  BY CaptureAssumption DEF TypeQueue
<1> HIDE DEF D
<1>3. CASE q' = <<>>
  BY <1>1, <1>2, <1>3 DEF D, TypeQueue
<1>4. CASE q # <<>> /\ q' = Tail(q)
  <2>1. Tail(q) \in Seq(D) /\ Len(Tail(q)) = Len(q) - 1 /\ Len(q) \in Nat
    BY <1>2, <1>4
  <2> QED
    BY <1>1, <1>2, <1>4, <2>1 DEF D, TypeQueue
<1> QED
  BY <1>3, <1>4

LEMMA QueueAppend ==
  ASSUME TypeQueue, UNCHANGED driver, Len(q) < QMax, NEW r \in Datagram, q' = Append(q, r)
  PROVE  TypeQueue'
BY SameReports, CaptureAssumption DEF TypeQueue

LEMMA SameDevice == TypeReports /\ UNCHANGED <<driver, buf, dev>> => TypeReports'
BY SameReports DEF TypeReports

LEMMA InitType == Init => TypeInv
<1> SUFFICES ASSUME Init PROVE TypeInv
  OBVIOUS
<1>1. CaptureInit /\ driver \in {"24x", "gen1", "u1"}
  BY DEF Init, Init24x, InitGen1, InitU1
<1>2. TypeMain /\ TypeThread
  BY <1>1 DEF CaptureInit, TypeMain, TypeThread
<1>3. TypeQueue /\ Room /\ Buffered
  BY <1>1, CaptureAssumption DEF CaptureInit, TypeQueue, Room, Buffered
<1>4. \E i \in Places : dev = [mode |-> "live", next |-> From(i)]
  BY DEF Init, Init24x, InitGen1, InitU1, Places
<1>5. TypeReports
  BY <1>1, <1>2, <1>4, Reports DEF CaptureInit, TypeReports
<1>6. TypeSweep /\ Uncalibrated
  <2>1. CASE Init24x
    <3>1. sweepbuf \in Seq(-1 .. Packets - 1)
      BY <2>1, Wispy24xAssumption DEF Init24x, NoBuffer, Unwritten
    <3>2. sweepbase \in 0 .. NumSamples + FullBytes
      BY <2>1, Sizes24x DEF Init24x
    <3> QED
      BY <2>1, <1>1, <3>1, <3>2
         DEF Init24x, CaptureInit, TypeSweep, Type24x, TypeGen1, TypeU1, Uncalibrated
  <2>2. CASE InitGen1
    <3>1. /\ driver = "gen1" /\ initialized = FALSE
          /\ calibration = [done |-> TRUE, sweeps |-> -1]
          /\ sweepbuf = [k \in 1 .. Gen1Packets |-> -1]
      BY <2>2 DEF InitGen1, CaptureInit, Unwritten
    <3>2. sweepbuf \in [1 .. Gen1Packets -> -1 .. Gen1Packets - 1]
      BY <3>1, WispyGen1Assumption DEF WakeUp
    <3>3. calibration \in [done : BOOLEAN, sweeps : -1 .. CalibrateSweeps]
      BY <3>1, WispyGen1Assumption
    <3> QED
      BY <3>1, <3>2, <3>3 DEF TypeSweep, Type24x, TypeGen1, TypeU1, Uncalibrated
  <2>3. CASE InitU1
    <3>1. driver = "u1" /\ sweepbuf = NoBuffer /\ cache = <<>> /\ initialized = FALSE
      BY <2>3 DEF InitU1, CaptureInit
    <3>2. cache \in Seq(-2 .. Turns - 1) /\ Len(cache) <= AvgSamples
      BY <3>1, UbertoothU1Assumption
    <3> QED
      BY <3>1, <3>2 DEF TypeSweep, Type24x, TypeGen1, TypeU1, Uncalibrated
  <2> QED
    BY <2>1, <2>2, <2>3 DEF Init
<1> QED
  BY <1>2, <1>3, <1>5, <1>6 DEF TypeInv

(* The steps of the main thread that are the same for all drivers leave    *)
(* the thread, the device and the sweep alone, and at most take reports    *)
(* out of the socket.                                                      *)
LEMMA MainFrame ==
  MainStep \/ GtkDropsDevice \/ StateConfiguring
  => /\ UNCHANGED <<driver, frontend, threadVars, dev, asmVars>>
     /\ \/ UNCHANGED q
        \/ q' = <<>>
        \/ pc = "recv" /\ q # <<>> /\ q' = Tail(q)
BY DEF MainStep, GtkDropsDevice, StateConfiguring, CloseDevice, Join, RawSelects, RawTestsFd,
       GtkSelects, TakeSweep, PollBegins, PollLate, GetPollFd, Release, sharedVars, threadVars

LEMMA MainTypes ==
  TypeMain /\ TypeThread /\ (MainStep \/ GtkDropsDevice \/ StateConfiguring)
  => TypeMain' /\ TypeThread' /\ pc # "open" /\ pc' \notin {"open", "start"}
     /\ (pc' = "calibrate" => pc = "start")
<1> USE DEF TypeMain, TypeThread, threadVars, sharedVars, GetPollFd, Release, AfterError
<1> SUFFICES ASSUME TypeMain, TypeThread, MainStep \/ GtkDropsDevice \/ StateConfiguring
             PROVE  TypeMain' /\ TypeThread' /\ pc # "open" /\ pc' \notin {"open", "start"}
                    /\ (pc' = "calibrate" => pc = "start")
  OBVIOUS
<1>1. CASE CloseDevice
  <2>1. TypeMain' /\ pc # "open" /\ pc' \in {"join", "stopped"}
    BY <1>1 DEF CloseDevice
  <2>2. CASE alive
    BY <1>1, <2>1, <2>2 DEF CloseDevice
  <2>3. CASE ~alive
    BY <1>1, <2>1, <2>3 DEF CloseDevice
  <2> QED
    BY <2>2, <2>3
<1>2. CASE Join
  BY <1>2 DEF Join
<1>3. CASE RawSelects
  BY <1>3 DEF RawSelects
<1>4. CASE RawTestsFd
  <2>1. pc = "fd" /\ pc' \in {"poll", "loop", "stopped"}
    BY <1>4 DEF RawTestsFd
  <2>2. TypeMain'
    BY <1>4, <2>1 DEF RawTestsFd
  <2>3. TypeThread'
    BY <1>4 DEF RawTestsFd
  <2> QED
    BY <2>1, <2>2, <2>3
<1>5. CASE GtkSelects \/ GtkDropsDevice
  BY <1>5 DEF GtkSelects, GtkDropsDevice
<1>6. CASE TakeSweep
  BY <1>6 DEF TakeSweep
<1>7. CASE PollBegins
  <2>1. pc = "poll" /\ pc' \in {"loop", "recv", "stopped", "close"}
    BY <1>7 DEF PollBegins
  <2>2. TypeMain'
    BY <1>7, <2>1 DEF PollBegins
  <2>3. TypeThread'
    BY <1>7 DEF PollBegins
  <2> QED
    BY <2>1, <2>2, <2>3
<1>8. CASE PollLate
  BY <1>8 DEF PollLate
<1>9. CASE StateConfiguring
  BY <1>9 DEF StateConfiguring
<1> QED
  BY <1>1, <1>2, <1>3, <1>4, <1>5, <1>6, <1>7, <1>8, <1>9 DEF MainStep

LEMMA SharedMainType ==
  TypeInv /\ (MainStep \/ GtkDropsDevice \/ StateConfiguring) => TypeInv'
<1> SUFFICES ASSUME TypeInv, MainStep \/ GtkDropsDevice \/ StateConfiguring PROVE TypeInv'
  OBVIOUS
<1>1. /\ UNCHANGED <<driver, frontend, threadVars, dev, asmVars>>
      /\ UNCHANGED q \/ q' = <<>> \/ (pc = "recv" /\ q # <<>> /\ q' = Tail(q))
  BY MainFrame
<1>2. TypeMain' /\ TypeThread' /\ pc # "open" /\ pc' # "open" /\ pc' # "start"
      /\ (pc' = "calibrate" => pc = "start")
  BY MainTypes DEF TypeInv
<1>3. TypeQueue' /\ Len(q') <= Len(q)
  BY <1>1, SameQueue, QueueTail DEF TypeInv, TypeQueue
<1>4. TypeReports' /\ TypeSweep'
  BY <1>1, SameDevice, SameSweep DEF TypeInv, threadVars
<1>5. Room'
  BY <1>1, <1>3, CaptureAssumption DEF TypeInv, Room, threadVars, TypeQueue
<1>6. Buffered' /\ Uncalibrated'
  BY <1>1, <1>2 DEF TypeInv, Buffered, Uncalibrated, threadVars, asmVars
<1> QED
  BY <1>2, <1>3, <1>4, <1>5, <1>6 DEF TypeInv

(* The commands of the main thread.                                        *)
Command ==
  OpenDevice \/ SetCalibration24x \/ SetCalibrationGen1 \/ SetCalibrationU1 \/ SetPosition24x
  \/ SetPositionU1

LEMMA CommandType == TypeInv /\ Command => TypeInv'
<1> SUFFICES ASSUME TypeInv, Command PROVE TypeInv'
  OBVIOUS
<1> USE DEF sharedVars, threadVars
<1>1. UNCHANGED <<driver, frontend, buf, error, q>>
  BY DEF Command, OpenDevice, SetCalibration24x, SetCalibrationGen1, SetCalibrationU1,
         SetPosition24x, SetPositionU1
<1>2. TypeMain /\ TypeThread /\ TypeQueue /\ TypeReports /\ TypeSweep /\ Buffered
      /\ Uncalibrated /\ Room
  BY DEF TypeInv
<1>3. TypeQueue'
  BY <1>1, <1>2, SameQueue
<1>4. CASE OpenDevice
  <2>1. TypeMain' /\ TypeThread' /\ pc = "open" /\ pc' \in {"failed", "start"}
        /\ thr' \in {"none", "select"} /\ ~error
    BY <1>2, <1>4 DEF OpenDevice, TypeMain, TypeThread, Buffered
  <2>2. TypeReports' /\ TypeSweep'
    BY <1>2, <1>4, SameDevice, SameSweep DEF OpenDevice
  <2>3. Room' /\ Buffered'
    BY <1>1, <1>2, <2>1 DEF Room, Buffered
  <2>4. Uncalibrated'
    BY <1>2, <1>4, <2>1 DEF OpenDevice, Uncalibrated, asmVars
  <2> QED
    BY <1>3, <2>1, <2>2, <2>3, <2>4 DEF TypeInv
<1>5. CASE SetCalibration24x \/ SetCalibrationU1
  <2>1. TypeMain' /\ TypeThread' /\ pc' = "position" /\ UNCHANGED thr /\ driver # "gen1"
    BY <1>2, <1>5 DEF SetCalibration24x, SetCalibrationU1, TypeMain, TypeThread
  <2>2. TypeReports' /\ TypeSweep'
    BY <1>2, <1>5, SameDevice, SameSweep DEF SetCalibration24x, SetCalibrationU1
  <2>3. Room' /\ Buffered' /\ Uncalibrated'
    BY <1>1, <1>2, <2>1 DEF Room, Buffered, Uncalibrated
  <2> QED
    BY <1>3, <2>1, <2>2, <2>3 DEF TypeInv
<1>6. CASE SetCalibrationGen1
  <2>1. TypeMain' /\ TypeThread' /\ pc = "calibrate" /\ pc' = "loop" /\ UNCHANGED <<thr, dev>>
        /\ driver = "gen1" /\ UNCHANGED <<sweepbuf, initialized>>
        /\ calibration' = [calibration EXCEPT !.done = FALSE]
    BY <1>2, <1>6 DEF SetCalibrationGen1, TypeMain, TypeThread
  <2>2. calibration = [done |-> TRUE, sweeps |-> -1]
    BY <1>2, <2>1 DEF Uncalibrated
  <2>3. calibration' = [done |-> FALSE, sweeps |-> -1]
    BY <2>1, <2>2
  <2>4. calibration' \in [done : BOOLEAN, sweeps : -1 .. CalibrateSweeps]
        /\ calibration'.sweeps < CalibrateSweeps
    BY <2>3, WispyGen1Assumption
  <2>5. TypeReports'
    BY <1>1, <1>2, <2>1, SameDevice
  <2>6. TypeSweep' /\ Uncalibrated'
    BY <1>1, <1>2, <2>1, <2>4 DEF TypeSweep, Type24x, TypeGen1, TypeU1, Uncalibrated
  <2>7. Room' /\ Buffered'
    BY <1>1, <1>2, <2>1 DEF Room, Buffered
  <2> QED
    BY <1>3, <2>1, <2>5, <2>6, <2>7 DEF TypeInv
<1>7. CASE SetPosition24x \/ SetPositionU1
  <2>1. TypeMain' /\ TypeThread' /\ pc' = "loop" /\ UNCHANGED thr /\ driver # "gen1"
    <3>1. configured' \in BOOLEAN /\ state' \in {state, "ERROR"} /\ pc' = "loop"
          /\ UNCHANGED <<driver, frontend, ready, thr, error, alive, handles>>
      BY <1>2, <1>7 DEF SetPosition24x, SetPositionU1, TypeMain
    <3>2. driver # "gen1"
      BY <1>7 DEF SetPosition24x, SetPositionU1
    <3> QED
      BY <3>1, <3>2, <1>2 DEF TypeMain, TypeThread
  <2>2. UNCHANGED dev \/ dev' = [dev EXCEPT !.next = Restarted]
    BY <1>7 DEF SetPosition24x, SetPositionU1
  <2>3. Restarted \in Report
    <3>1. From(0) \in Report
      BY <1>2, Reports
    <3>2. (q # <<>> \/ buf # NoReport) \in BOOLEAN
      OBVIOUS
    <3> QED
      BY <1>2, <3>1, <3>2, Reports DEF Restarted
  <2>4. TypeReports'
    BY <1>1, <1>2, <2>2, <2>3, SameReports DEF TypeReports
  <2>5. TypeSweep'
    <3>1. CASE SetPosition24x
      <4>1. driver = "24x" /\ sweepbuf' \in {sweepbuf, <<>>} /\ UNCHANGED sweepbase
            /\ initialized' \in {initialized, FALSE}
        BY <3>1 DEF SetPosition24x
      <4>2. sweepbuf \in Seq(-1 .. Packets - 1) /\ <<>> \in Seq(-1 .. Packets - 1)
        BY <1>2, <4>1 DEF TypeSweep, Type24x
      <4> QED
        BY <1>1, <1>2, <4>1, <4>2 DEF TypeSweep, Type24x, TypeGen1, TypeU1
    <3>2. CASE SetPositionU1
      <4>1. driver = "u1" /\ sweepbuf' \in {sweepbuf, [k \in 1 .. NumFreqs |-> -1]}
            /\ UNCHANGED <<initialized, cache>>
        BY <3>2 DEF SetPositionU1, Unwritten
      <4>2. [k \in 1 .. NumFreqs |-> -1] \in [1 .. NumFreqs -> -1 .. Turns - 1]
        BY UbertoothU1Assumption
      <4> QED
        BY <1>1, <1>2, <4>1, <4>2 DEF TypeSweep, Type24x, TypeGen1, TypeU1
    <3> QED
      BY <1>7, <3>1, <3>2
  <2>6. Room' /\ Buffered' /\ Uncalibrated'
    BY <1>1, <1>2, <2>1 DEF Room, Buffered, Uncalibrated
  <2> QED
    BY <1>3, <2>1, <2>4, <2>5, <2>6 DEF TypeInv
<1> QED
  BY <1>4, <1>5, <1>6, <1>7 DEF Command

(* What a poll that receives a report does to the rest of the variables.   *)
Poll == Poll24x \/ PollGen1 \/ PollU1

LEMMA PollFrame ==
  Poll => /\ pc = "recv" /\ q # <<>> /\ q' = Tail(q) /\ pc' \in {"deliver", "loop"}
          /\ state' \in {state, "RUNNING"}
          /\ UNCHANGED <<driver, frontend, ready, configured, threadVars, alive, handles, dev>>
          /\ (driver # "gen1" => UNCHANGED calibration)
<1>1. ASSUME Poll24x
      PROVE  /\ Received(Head(q)) /\ UNCHANGED <<state, calibration>>
             /\ pc' \in {"deliver", "loop"}
  BY <1>1 DEF Poll24x
<1>2. ASSUME PollGen1
      PROVE  /\ Received(Head(q)) /\ driver = "gen1" /\ state' \in {state, "RUNNING"}
             /\ pc' \in {"deliver", "loop"}
  BY <1>2 DEF PollGen1
<1>3. ASSUME PollU1
      PROVE  /\ Received(Head(q)) /\ UNCHANGED <<state, calibration>>
             /\ pc' \in {"deliver", "loop"}
  BY <1>3 DEF PollU1
<1> QED
  BY <1>1, <1>2, <1>3 DEF Poll, Received

LEMMA HeadReport ==
  ASSUME TypeMain, TypeQueue, q # <<>>
  PROVE  /\ Head(q) \in Datagram /\ (driver # "gen1" => Head(q) \in Report)
         /\ Head(q).at \in Nat
<1> DEFINE D == Datagram
<1>1. q \in Seq(D)
  BY DEF TypeQueue
<1> HIDE DEF D
<1>2. Head(q) \in D
  BY <1>1
<1>3. \A r \in Report : r.at \in Nat
  BY WispyGen1Assumption DEF Report, Places, TypeMain, WakeUp
<1> QED
  BY <1>2, <1>3 DEF D, Datagram, WakeUp

(* The sweep after a report, driver by driver.                             *)
LEMMA Poll24xSweep == TypeInv /\ Poll24x => TypeSweep'
<1> SUFFICES ASSUME TypeInv, Poll24x PROVE TypeSweep'
  OBVIOUS
<1> DEFINE r == Head(q)
<1>1. /\ driver = "24x" /\ driver' = "24x" /\ q # <<>>
      /\ IF Stores(r)
         THEN /\ sweepbuf' = IF Base(r) = 0 THEN <<r.at>>
                             ELSE IF Base(r) < NumSamples THEN Append(sweepbuf, r.at)
                             ELSE sweepbuf
              /\ initialized' = TRUE
              /\ sweepbase' = Base(r) + ValidBytes(r)
         ELSE /\ sweepbase' = IF sweepbuf # NoBuffer THEN Base(r) ELSE sweepbase
              /\ UNCHANGED <<sweepbuf, initialized>>
  BY DEF Poll24x, Received
<1>2. /\ sweepbuf \in Seq(-1 .. Packets - 1) /\ sweepbase \in 0 .. NumSamples + FullBytes
      /\ initialized \in BOOLEAN
  BY <1>1 DEF TypeInv, TypeSweep, Type24x
<1>3. r \in Report
  BY <1>1, HeadReport DEF TypeInv
<1>4. r.at \in -1 .. Packets - 1
  BY <1>1, <1>3, Wispy24xAssumption DEF Report, Places
<1>5. Base(r) \in 0 .. NumSamples + FullBytes /\ ValidBytes(r) \in 1 .. FullBytes
  BY <1>2, Sizes24x DEF Base
<1> HIDE DEF r
<1>6. sweepbuf' \in Seq(-1 .. Packets - 1)
  <2> DEFINE D == -1 .. Packets - 1
  <2>1. sweepbuf \in Seq(D) /\ r.at \in D
    BY <1>2, <1>4
  <2> HIDE DEF D
  <2>2. <<r.at>> \in Seq(D) /\ Append(sweepbuf, r.at) \in Seq(D)
    BY <2>1
  <2>3. sweepbuf' \in {sweepbuf, <<r.at>>, Append(sweepbuf, r.at)}
    BY <1>1
  <2> QED
    BY <2>1, <2>2, <2>3 DEF D
<1>7. sweepbase' \in 0 .. NumSamples + FullBytes
  <2>1. CASE Stores(r)
    BY <1>1, <1>5, <2>1, Sizes24x DEF Stores
  <2>2. CASE ~Stores(r)
    BY <1>1, <1>2, <1>5, <2>2
  <2> QED
    BY <2>1, <2>2
<1> QED
  BY <1>1, <1>2, <1>6, <1>7 DEF TypeSweep, Type24x, TypeGen1, TypeU1

LEMMA PollGen1Sweep == TypeInv /\ PollGen1 => TypeSweep' /\ Uncalibrated'
<1> SUFFICES ASSUME TypeInv, PollGen1 PROVE TypeSweep' /\ Uncalibrated'
  OBVIOUS
<1> DEFINE r == Head(q)
<1>1. /\ driver = "gen1" /\ driver' = "gen1" /\ q # <<>>
      /\ calibration' = Calibrated(r)
      /\ initialized' = (initialized \/ r.at = 0)
      /\ sweepbuf' = IF initialized' /\ calibration'.done /\ r.at < Gen1Packets
                     THEN [sweepbuf EXCEPT ![r.at + 1] = r.at] ELSE sweepbuf
      /\ pc' \in {"deliver", "loop"}
  BY DEF PollGen1, Received
<1>2. /\ sweepbuf \in [1 .. Gen1Packets -> -1 .. Gen1Packets - 1]
      /\ calibration \in [done : BOOLEAN, sweeps : -1 .. CalibrateSweeps]
      /\ initialized \in BOOLEAN
      /\ ~calibration.done => calibration.sweeps < CalibrateSweeps
  BY <1>1 DEF TypeInv, TypeSweep, TypeGen1, Uncalibrated
<1>3. r.at \in Nat /\ Gen1Packets \in Nat /\ CalibrateSweeps \in Nat
  BY <1>1, HeadReport, WispyGen1Assumption DEF TypeInv, WakeUp
<1> HIDE DEF r
<1>4. sweepbuf' \in [1 .. Gen1Packets -> -1 .. Gen1Packets - 1]
  <2>1. CASE r.at < Gen1Packets
    <3>1. r.at + 1 \in 1 .. Gen1Packets /\ r.at \in -1 .. Gen1Packets - 1
      BY <1>3, <2>1
    <3> QED
      BY <1>1, <1>2, <3>1
  <2>2. CASE ~(r.at < Gen1Packets)
    BY <1>1, <1>2, <2>2
  <2> QED
    BY <2>1, <2>2
<1>5. /\ calibration' \in [done : BOOLEAN, sweeps : -1 .. CalibrateSweeps]
      /\ ~calibration'.done => calibration'.sweeps < CalibrateSweeps
  <2>1. CASE r.at # 0 \/ calibration.done
    BY <1>1, <1>2, <2>1 DEF Calibrated
  <2>2. CASE ~(r.at # 0 \/ calibration.done)
    <3> DEFINE s == calibration.sweeps
    <3>1. s \in -1 .. CalibrateSweeps /\ s < CalibrateSweeps
      BY <1>2, <2>2
    <3>2. calibration' = [done |-> s + 1 >= CalibrateSweeps, sweeps |-> s + 1]
      BY <1>1, <2>2 DEF Calibrated
    <3> HIDE DEF s
    <3>3. s + 1 \in -1 .. CalibrateSweeps
      BY <1>3, <3>1
    <3>4. CASE s + 1 >= CalibrateSweeps
      <4>1. calibration' = [done |-> TRUE, sweeps |-> s + 1]
        BY <3>2, <3>4
      <4> QED
        BY <3>3, <4>1
    <3>5. CASE ~(s + 1 >= CalibrateSweeps)
      <4>1. s + 1 < CalibrateSweeps
        BY <1>3, <3>1, <3>5
      <4>2. (s + 1 >= CalibrateSweeps) = FALSE
        BY <3>5
      <4>3. calibration' = [done |-> FALSE, sweeps |-> s + 1]
        BY <3>2, <4>2, Zenon
      <4> QED
        BY <3>3, <4>1, <4>3
    <3> QED
      BY <3>4, <3>5
  <2> QED
    BY <2>1, <2>2
<1>6. initialized' \in BOOLEAN
  BY <1>1, <1>2
<1> QED
  BY <1>1, <1>4, <1>5, <1>6 DEF TypeSweep, Type24x, TypeGen1, TypeU1, Uncalibrated

(* Where the samples of an Ubertooth's report go.                          *)
LEMMA SampleRange ==
  ASSUME NEW r, r.at \in Nat, r.turn \in Nat, NEW j \in Nat
  PROVE  FreqOf(r, j) \in 0 .. NumFreqs - 1 /\ TurnOf(r, j) \in 0 .. Turns - 1
<1> DEFINE a == r.at + j
<1>1. a \in Nat /\ NumFreqs \in Nat \ {0} /\ Turns \in Nat \ {0}
  BY UbertoothU1Assumption
<1> HIDE DEF a
<1>2. a % NumFreqs \in 0 .. NumFreqs - 1 /\ a \div NumFreqs \in Int
  BY <1>1, RemainderRange
<1> DEFINE b == r.turn + a \div NumFreqs
<1>3. b \in Int
  BY <1>2
<1> HIDE DEF b
<1>4. b % Turns \in 0 .. Turns - 1
  BY <1>1, <1>3, RemainderRange
<1> QED
  BY <1>2, <1>4 DEF FreqOf, TurnOf, a, b

LEMMA FilledType ==
  ASSUME NEW r, r.at \in Nat, r.turn \in Nat, NEW j \in Nat,
         sweepbuf \in [1 .. NumFreqs -> -1 .. Turns - 1]
  PROVE  Filled(r, j) \in [1 .. NumFreqs -> -1 .. Turns - 1]
<1>1. ASSUME NEW k \in 1 .. NumFreqs
      PROVE  (IF \E i \in 0 .. j : FreqOf(r, i) = k - 1
              THEN TurnOf(r, CHOOSE i \in 0 .. j : FreqOf(r, i) = k - 1) ELSE sweepbuf[k])
             \in -1 .. Turns - 1
  <2>1. CASE \E i \in 0 .. j : FreqOf(r, i) = k - 1
    <3> DEFINE c == CHOOSE i \in 0 .. j : FreqOf(r, i) = k - 1
    <3>1. c \in 0 .. j
      BY <2>1
    <3>a. c \in Nat
      BY <3>1
    <3> HIDE DEF c
    <3>2. TurnOf(r, c) \in 0 .. Turns - 1
      BY <3>a, SampleRange
    <3> QED
      BY <2>1, <3>2, UbertoothU1Assumption DEF c
  <2>2. CASE ~\E i \in 0 .. j : FreqOf(r, i) = k - 1
    BY <2>2
  <2> QED
    BY <2>1, <2>2
<1> QED
  BY <1>1 DEF Filled

LEMMA SweepTurnType ==
  ASSUME NEW s \in [1 .. NumFreqs -> -1 .. Turns - 1] PROVE SweepTurn(s) \in -2 .. Turns - 1
<1>1. s[2] \in -1 .. Turns - 1 /\ Turns \in Nat
  BY UbertoothU1Assumption
<1> QED
  BY <1>1 DEF SweepTurn, Mixed

LEMMA WindowType ==
  ASSUME NEW c \in Seq(-2 .. Turns - 1), Len(c) <= AvgSamples, NEW s \in -2 .. Turns - 1
  PROVE  LET all == Append(c, s)
             w   == IF Len(all) > AvgSamples THEN Tail(all) ELSE all
         IN  w \in Seq(-2 .. Turns - 1) /\ Len(w) <= AvgSamples
<1> DEFINE D == -2 .. Turns - 1
           all == Append(c, s)
<1>1. c \in Seq(D) /\ s \in D /\ AvgSamples \in Nat
  BY UbertoothU1Assumption
<1> HIDE DEF D
<1>2. all \in Seq(D) /\ Len(all) = Len(c) + 1 /\ Len(c) \in Nat /\ all # <<>>
  BY <1>1
<1> HIDE DEF all
<1>3. Tail(all) \in Seq(D) /\ Len(Tail(all)) = Len(all) - 1
  BY <1>2
<1>4. (IF Len(all) > AvgSamples THEN Tail(all) ELSE all) \in Seq(D)
  BY <1>2, <1>3
<1>5. Len(IF Len(all) > AvgSamples THEN Tail(all) ELSE all) <= AvgSamples
  BY <1>1, <1>2, <1>3
<1> QED
  BY <1>4, <1>5 DEF D, all

LEMMA PollU1Sweep == TypeInv /\ PollU1 => TypeSweep'
<1> SUFFICES ASSUME TypeInv, PollU1 PROVE TypeSweep'
  OBVIOUS
<1> DEFINE r == Head(q)
<1>1. /\ driver = "u1" /\ driver' = "u1" /\ q # <<>>
      /\ IF sweepbuf = NoBuffer THEN UNCHANGED <<sweepbuf, initialized, cache>>
         ELSE /\ sweepbuf' = Filled(r, ReportSamples - 1)
              /\ initialized' = (initialized \/ FirstFreq(r) # {})
              /\ cache' = Cached(r)
  BY DEF PollU1, Received
<1>2. /\ sweepbuf = NoBuffer \/ sweepbuf \in [1 .. NumFreqs -> -1 .. Turns - 1]
      /\ cache \in Seq(-2 .. Turns - 1) /\ Len(cache) <= AvgSamples
      /\ initialized \in BOOLEAN
  BY <1>1 DEF TypeInv, TypeSweep, TypeU1
<1>3. r \in Report
  BY <1>1, HeadReport DEF TypeInv
<1>4. r.at \in Nat /\ r.turn \in Nat
  <2>1. r.at \in Places /\ r.turn \in 0 .. Turns - 1
    BY <1>3 DEF Report
  <2>2. r.turn \in Nat
    BY <2>1, UbertoothU1Assumption
  <2>3. r.at \in Nat
    BY <2>1, <1>1, UbertoothU1Assumption DEF Places
  <2> QED
    BY <2>2, <2>3
<1> HIDE DEF r
<1>5. CASE sweepbuf = NoBuffer
  BY <1>1, <1>2, <1>5 DEF TypeSweep, Type24x, TypeGen1, TypeU1
<1>6. CASE sweepbuf # NoBuffer
  <2>1. sweepbuf \in [1 .. NumFreqs -> -1 .. Turns - 1]
    BY <1>2, <1>6
  <2>2. sweepbuf' \in [1 .. NumFreqs -> -1 .. Turns - 1]
    <3>1. ReportSamples - 1 \in Nat
      BY UbertoothU1Assumption
    <3> QED
      BY <1>1, <1>4, <1>6, <2>1, <3>1, FilledType
  <2>3. cache' \in Seq(-2 .. Turns - 1) /\ Len(cache') <= AvgSamples
    <3>1. CASE FirstFreq(r) = {} \/ ~initialized
      BY <1>1, <1>2, <1>6, <3>1 DEF Cached, Appended
    <3>2. CASE FirstFreq(r) # {} /\ initialized
      <4> DEFINE j == CHOOSE i \in FirstFreq(r) : TRUE
      <4>1. j \in FirstFreq(r)
        BY <3>2
      <4>2. j \in Nat
        BY <4>1 DEF FirstFreq
      <4>3. cache' = Appended(r, j)
        BY <1>1, <1>6, <3>2 DEF Cached
      <4> HIDE DEF j
      <4>4. SweepTurn(Filled(r, j)) \in -2 .. Turns - 1
        BY <1>4, <2>1, <4>2, FilledType, SweepTurnType
      <4> DEFINE s == SweepTurn(Filled(r, j))
      <4>5. cache' = LET all == Append(cache, s)
                     IN  IF Len(all) > AvgSamples THEN Tail(all) ELSE all
        BY <4>3, <3>2 DEF Appended
      <4>6. s \in -2 .. Turns - 1
        BY <4>4
      <4> HIDE DEF s
      <4> QED
        BY <1>2, <4>5, <4>6, WindowType
    <3> QED
      BY <3>1, <3>2
  <2>4. initialized' \in BOOLEAN
    BY <1>1, <1>2, <1>6
  <2> QED
    BY <1>1, <2>2, <2>3, <2>4 DEF TypeSweep, Type24x, TypeGen1, TypeU1
<1> QED
  BY <1>5, <1>6

LEMMA PollType == TypeInv /\ Poll => TypeInv'
<1> SUFFICES ASSUME TypeInv, Poll PROVE TypeInv'
  OBVIOUS
<1>1. /\ pc = "recv" /\ q # <<>> /\ q' = Tail(q) /\ pc' \in {"deliver", "loop"}
      /\ state' \in {state, "RUNNING"}
      /\ UNCHANGED <<driver, frontend, ready, configured, threadVars, alive, handles, dev>>
      /\ (driver # "gen1" => UNCHANGED calibration)
  BY PollFrame
<1>2. TypeMain' /\ TypeThread'
  BY <1>1 DEF TypeInv, TypeMain, TypeThread, threadVars
<1>3. TypeQueue' /\ Len(q') <= Len(q)
  BY <1>1, QueueTail DEF TypeInv
<1>4. TypeReports'
  BY <1>1, SameDevice DEF TypeInv, threadVars
<1>5. Room'
  BY <1>1, <1>3, CaptureAssumption DEF TypeInv, Room, threadVars, TypeQueue
<1>6. Buffered'
  BY <1>1 DEF TypeInv, Buffered, threadVars
<1>7. TypeSweep' /\ Uncalibrated'
  <2>1. CASE PollGen1
    BY <2>1, PollGen1Sweep
  <2>2. CASE Poll24x \/ PollU1
    <3>1. TypeSweep' /\ driver \in {"24x", "u1"}
      BY <2>2, Poll24xSweep, PollU1Sweep DEF Poll24x, PollU1
    <3> QED
      BY <3>1, <1>1 DEF Uncalibrated
  <2> QED
    BY <2>1, <2>2 DEF Poll
<1> QED
  BY <1>2, <1>3, <1>4, <1>5, <1>6, <1>7 DEF TypeInv

(* The service thread and the device leave the main thread and the sweep   *)
(* alone.                                                                  *)
LEMMA ThreadFrame ==
  Thread \/ Environment
  => /\ UNCHANGED <<mainVars, asmVars, handles>>
     /\ Thread => thr # "none"
     /\ q' # q => thr \in {"send", "wake"}
<1> SUFFICES ASSUME Thread \/ Environment
             PROVE  /\ UNCHANGED <<mainVars, asmVars, handles>>
                    /\ Thread => thr # "none"
                    /\ q' # q => thr \in {"send", "wake"}
  OBVIOUS
<1>1. CASE ThreadStep
  BY <1>1 DEF ThreadStep, ThreadSelectFails, ThreadLoses, ThreadSends, ThreadFails
<1>2. CASE Thread24x
  BY <1>2 DEF Thread24x, ThreadChecks24x, ThreadTransfers24x, ThreadSelects, ThreadEnds,
     ReadsUnlessRequeued, Reads, TimesOut, ThreadLoses, sharedVars
<1>3. CASE ThreadU1
  BY <1>3 DEF ThreadU1, ThreadChecksU1, ThreadTransfersU1, ThreadSelects, ThreadEnds,
     ReadsUnlessRequeued, Reads, TimesOut, ThreadLoses, sharedVars
<1>4. CASE ThreadGen1
  BY <1>4 DEF ThreadGen1, ThreadChecksGen1, ThreadTransfersGen1, ThreadWakes, ThreadSelects,
     ThreadEnds, Reads, GivesNoData, ThreadLoses, sharedVars
<1>5. ASSUME Environment PROVE UNCHANGED <<mainVars, asmVars, sharedVars, threadVars>>
  BY <1>5 DEF Environment, DeviceChanges, DeviceSkips24x, DeviceSkipsGen1, DeviceSkipsU1, Skips
<1>6. CASE Environment /\ ~Thread
  BY <1>5, <1>6 DEF sharedVars
<1> QED
  BY <1>1, <1>2, <1>3, <1>4, <1>6 DEF Thread

(* What a step of the thread does to its buffer, the socket and the        *)
(* device, whichever driver it belongs to.                                 *)
Queues ==
  /\ thr = "send" /\ thr' = "select" /\ q' = Append(q, buf) /\ buf' = NoReport /\ error' = FALSE
  /\ UNCHANGED <<alive, dev>>

PutsBack ==
  thr = "send" /\ thr' = "select" /\ error' = TRUE /\ UNCHANGED <<q, buf, alive, dev>>

Stops ==
  /\ thr' \in {"fail", "exit"} /\ (alive' = alive \/ alive' = FALSE)
  /\ UNCHANGED <<q, buf, error, dev>>

Forgets ==
  /\ thr = "select" /\ thr' = "select" /\ error /\ error' = FALSE /\ buf' = NoReport
  /\ driver # "gen1" /\ dev' = [dev EXCEPT !.next.gap = TRUE]
  /\ UNCHANGED <<q, alive>>

Begins ==
  /\ thr = "select" /\ thr' = "transfer" /\ ~error /\ Len(q) < QMax
  /\ UNCHANGED <<q, buf, error, alive, dev>>

Retries ==
  /\ thr = "select" /\ thr' = "send" /\ error /\ Len(q) < QMax
  /\ UNCHANGED <<q, buf, error, alive, dev>>

ReadsNext ==
  /\ thr = "transfer" /\ thr' = "send"
  /\ buf' = dev.next /\ dev' = [dev EXCEPT !.next = Following(driver, dev.next)]
  /\ UNCHANGED <<q, error, alive>>

Idles ==
  thr = "transfer" /\ thr' = "select" /\ UNCHANGED <<q, buf, error, alive, dev>>

Despairs ==
  /\ thr = "transfer" /\ thr' = "wake" /\ driver = "gen1" /\ alive' = FALSE
  /\ UNCHANGED <<q, buf, error, dev>>

Wakes ==
  /\ thr = "wake" /\ thr' = "fail" /\ driver = "gen1"
  /\ q' = q \/ q' = Append(q, WakeUp)
  /\ UNCHANGED <<buf, error, alive, dev>>

ThreadMoves ==
  \/ Queues \/ PutsBack \/ Stops \/ Forgets \/ Begins \/ Retries
  \/ ReadsNext \/ Idles \/ Despairs \/ Wakes

LEMMA ThreadSteps == Thread => ThreadMoves
<1> USE DEF sharedVars, threadVars, mainVars
<1> SUFFICES ASSUME Thread PROVE ThreadMoves
  OBVIOUS
<1>1. CASE ThreadStep
  BY <1>1 DEF ThreadStep, ThreadSelectFails, ThreadLoses, ThreadSends, ThreadFails, Sends,
     ThreadMoves, Queues, PutsBack, Stops
<1>2. CASE ThreadChecks24x \/ ThreadChecksU1
  BY <1>2 DEF ThreadChecks24x, ThreadChecksU1, ThreadSelects, ThreadEnds, ReadsUnlessRequeued,
     ThreadMoves, Stops, Forgets, Begins
<1>3. CASE ThreadChecksGen1
  <2>1. CASE ThreadEnds
    BY <2>1 DEF ThreadEnds, ThreadMoves, Stops
  <2>2. CASE ~ThreadEnds
    <3>1. /\ thr = "select" /\ Len(q) < QMax /\ UNCHANGED <<q, buf, error, alive, dev>>
          /\ thr' = IF error THEN "send" ELSE "transfer"
      BY <1>3, <2>2 DEF ThreadChecksGen1, ThreadSelects
    <3> QED
      BY <3>1 DEF ThreadMoves, Begins, Retries
  <2> QED
    BY <2>1, <2>2
<1>4. CASE ThreadTransfers24x
  BY <1>4 DEF ThreadTransfers24x, Reads, TimesOut, ThreadLoses, ThreadMoves, Stops, ReadsNext,
     Idles, Following
<1>5. CASE ThreadTransfersU1
  BY <1>5 DEF ThreadTransfersU1, Reads, TimesOut, ThreadLoses, ThreadMoves, Stops, ReadsNext,
     Idles, Following
<1>6. CASE ThreadTransfersGen1
  BY <1>6 DEF ThreadTransfersGen1, Reads, GivesNoData, ThreadLoses, ThreadMoves, Stops,
     ReadsNext, Despairs, Following
<1>7. CASE ThreadWakes
  BY <1>7 DEF ThreadWakes, ThreadMoves, Wakes
<1> QED
  BY <1>1, <1>2, <1>3, <1>4, <1>5, <1>6, <1>7 DEF Thread, Thread24x, ThreadGen1, ThreadU1

LEMMA ThreadType == TypeInv /\ Thread => TypeInv'
<1> SUFFICES ASSUME TypeInv, Thread PROVE TypeInv'
  OBVIOUS
<1>1. /\ UNCHANGED <<mainVars, asmVars, handles>> /\ thr # "none"
      /\ ThreadMoves
  BY ThreadFrame, ThreadSteps
<1>2. UNCHANGED <<driver, pc>> /\ pc # "open"
  BY <1>1 DEF mainVars, TypeInv, Buffered
<1>3. /\ TypeMain /\ TypeThread /\ TypeQueue /\ TypeReports /\ TypeSweep
      /\ Room /\ Buffered /\ Uncalibrated
  BY DEF TypeInv
<1>4. TypeMain'
  <2>1. state' \in {state, "ERROR"}
    BY DEF Thread, ThreadStep, ThreadSelectFails, ThreadSends, ThreadFails, Thread24x, ThreadChecks24x,
       ThreadTransfers24x, ThreadSelects, ThreadEnds, ReadsUnlessRequeued, Reads, TimesOut,
       ThreadLoses, ThreadU1, ThreadChecksU1, ThreadTransfersU1, ThreadGen1, ThreadChecksGen1,
       ThreadTransfersGen1, ThreadWakes, GivesNoData, sharedVars
  <2> QED
    BY <1>1, <1>3, <2>1 DEF TypeMain, mainVars
<1>5. TypeSweep' /\ Uncalibrated'
  BY <1>1, <1>2, <1>3, SameSweep DEF asmVars, Uncalibrated
<1>6. TypeThread'
  BY <1>1, <1>3 DEF TypeThread, ThreadMoves, Queues, PutsBack, Stops, Forgets, Begins, Retries,
     ReadsNext, Idles, Despairs, Wakes
<1>7. CASE Queues
  <2>1. buf \in Report /\ Len(q) < QMax
    BY <1>3, <1>7 DEF Queues, TypeReports, Buffered, Room
  <2>2. TypeQueue'
    BY <1>2, <1>3, <1>7, <2>1, QueueAppend DEF Queues, Datagram
  <2>3. TypeReports' /\ Room' /\ Buffered'
    BY <1>2, <1>3, <1>7, SameReports DEF Queues, TypeReports, Room, Buffered
  <2> QED
    BY <1>4, <1>5, <1>6, <2>2, <2>3 DEF TypeInv
<1>8. CASE Forgets
  <2>1. TypeQueue'
    BY <1>2, <1>3, <1>8, SameQueue DEF Forgets
  <2>2. [dev.next EXCEPT !.gap = TRUE] \in Report
    BY <1>3, Reports DEF TypeReports
  <2>3. dev' = [dev EXCEPT !.next = [dev.next EXCEPT !.gap = TRUE]]
    BY <1>8 DEF Forgets
  <2>4. dev' \in [mode : {"live", "quiet", "gone"}, next : Report]
    BY <1>3, <2>2, <2>3 DEF TypeReports
  <2>5. TypeReports' /\ Room' /\ Buffered'
    BY <1>2, <1>8, <2>4, SameReports DEF Forgets, TypeReports, Room, Buffered
  <2> QED
    BY <1>4, <1>5, <1>6, <2>1, <2>5 DEF TypeInv
<1>9. CASE ReadsNext
  <2>1. TypeQueue'
    BY <1>2, <1>3, <1>9, SameQueue DEF ReadsNext
  <2>2. dev.next \in Report /\ Following(driver, dev.next) \in Report /\ NoReport \notin Report
    BY <1>3, Reports DEF TypeReports
  <2>3. TypeReports' /\ Room' /\ Buffered'
    BY <1>2, <1>3, <1>9, <2>2, SameReports DEF ReadsNext, TypeReports, Room, Buffered
  <2> QED
    BY <1>4, <1>5, <1>6, <2>1, <2>3 DEF TypeInv
<1>10. CASE Wakes
  <2>1. WakeUp \in Datagram
    BY <1>10 DEF Wakes, Datagram
  <2>2. TypeQueue'
    BY <1>2, <1>3, <1>10, <2>1, QueueAppend, SameQueue DEF Wakes, Room
  <2>3. TypeReports' /\ Room' /\ Buffered'
    BY <1>2, <1>3, <1>10, SameReports DEF Wakes, TypeReports, Room, Buffered
  <2> QED
    BY <1>4, <1>5, <1>6, <2>2, <2>3 DEF TypeInv
<1>11. CASE PutsBack \/ Stops \/ Begins \/ Retries \/ Idles \/ Despairs
  <2>1. UNCHANGED <<q, buf, dev>>
    BY <1>11 DEF PutsBack, Stops, Begins, Retries, Idles, Despairs
  <2>2. TypeQueue' /\ TypeReports'
    BY <1>2, <1>3, <2>1, SameQueue, SameDevice
  <2>3. Room' /\ Buffered'
    BY <1>2, <1>3, <1>11
       DEF Room, Buffered, PutsBack, Stops, Begins, Retries, Idles, Despairs
  <2> QED
    BY <1>4, <1>5, <1>6, <2>2, <2>3 DEF TypeInv
<1> QED
  BY <1>1, <1>7, <1>8, <1>9, <1>10, <1>11 DEF ThreadMoves

(* The device itself: a report nobody read is lost, or the mode changes.   *)
LEMMA EnvironmentFrame ==
  Environment => /\ UNCHANGED <<mainVars, threadVars, sharedVars, asmVars>>
                 /\ \/ \E m \in {"live", "quiet", "gone"} : dev' = [dev EXCEPT !.mode = m]
                    \/ /\ pc # "open"
                       /\ dev' = [dev EXCEPT
                                    !.next = [Following(driver, dev.next) EXCEPT !.gap = TRUE]]
<1>1. ASSUME DeviceChanges
      PROVE  /\ UNCHANGED <<mainVars, threadVars, sharedVars, asmVars>>
             /\ \E m \in {"live", "quiet", "gone"} : dev' = [dev EXCEPT !.mode = m]
  BY <1>1 DEF DeviceChanges
<1>2. ASSUME DeviceSkips24x \/ DeviceSkipsGen1 \/ DeviceSkipsU1
      PROVE  /\ UNCHANGED <<mainVars, threadVars, sharedVars, asmVars>> /\ pc # "open"
             /\ dev' = [dev EXCEPT !.next = [Following(driver, dev.next) EXCEPT !.gap = TRUE]]
  BY <1>2 DEF DeviceSkips24x, DeviceSkipsGen1, DeviceSkipsU1, Skips, Following
<1> QED
  BY <1>1, <1>2 DEF Environment

LEMMA EnvironmentType == TypeInv /\ Environment => TypeInv'
<1> SUFFICES ASSUME TypeInv, Environment PROVE TypeInv'
  OBVIOUS
<1>1. UNCHANGED <<mainVars, threadVars, sharedVars, asmVars>>
  BY EnvironmentFrame
<1>2. TypeReports'
  <2>1. dev \in [mode : {"live", "quiet", "gone"}, next : Report]
    BY DEF TypeInv, TypeReports
  <2>2. [Following(driver, dev.next) EXCEPT !.gap = TRUE] \in Report
    BY <2>1, Reports DEF TypeInv
  <2>3. dev' \in [mode : {"live", "quiet", "gone"}, next : Report]
    BY <2>1, <2>2, EnvironmentFrame
  <2> QED
    BY <1>1, <2>3, SameReports DEF TypeInv, TypeReports, mainVars, threadVars
<1>3. TypeQueue' /\ TypeSweep'
  BY <1>1, SameQueue, SameSweep DEF TypeInv, mainVars, sharedVars, asmVars
<1>4. TypeMain' /\ TypeThread' /\ Room' /\ Buffered' /\ Uncalibrated'
  BY <1>1 DEF TypeInv, mainVars, threadVars, sharedVars, asmVars, TypeMain, TypeThread, Room,
     Buffered, Uncalibrated
<1> QED
  BY <1>2, <1>3, <1>4 DEF TypeInv

(* All the steps there are.                                                *)
LEMMA NextSteps ==
  Next => \/ MainStep \/ GtkDropsDevice \/ StateConfiguring
          \/ Command \/ Poll \/ Thread \/ Environment
BY DEF Next, Main, Main24x, MainGen1, MainU1, Open24x, OpenGen1, OpenU1, OpenEnds24x,
       OpenEndsGen1, OpenEndsU1, Command, Poll

LEMMA NextType == TypeInv /\ [Next]_vars => TypeInv'
<1> SUFFICES ASSUME TypeInv, [Next]_vars PROVE TypeInv'
  OBVIOUS
<1>1. CASE UNCHANGED vars
  <2>1. UNCHANGED <<mainVars, threadVars, sharedVars, dev, asmVars>>
    BY <1>1 DEF vars
  <2>2. TypeReports' /\ TypeQueue' /\ TypeSweep'
    BY <2>1, SameDevice, SameQueue, SameSweep
       DEF TypeInv, mainVars, threadVars, sharedVars, asmVars
  <2>3. TypeMain' /\ TypeThread' /\ Room' /\ Buffered' /\ Uncalibrated'
    BY <2>1 DEF TypeInv, mainVars, threadVars, sharedVars, asmVars, TypeMain, TypeThread, Room,
       Buffered, Uncalibrated
  <2> QED
    BY <2>2, <2>3 DEF TypeInv
<1>2. CASE Next
  BY <1>2, NextSteps, SharedMainType, CommandType, PollType, ThreadType, EnvironmentType
<1> QED
  BY <1>1, <1>2

(***************************************************************************)
(* The variables of each driver keep their types: the socket never holds   *)
(* more than select admits, a report stays within its sweep, the buffers   *)
(* keep their lengths, and calibration and peak cache their bounds.        *)
(***************************************************************************)
THEOREM TypeCorrect == Spec => []TypeOK
BY InitType, NextType, TypeParts, PTL DEF Spec

-----------------------------------------------------------------------------
(***************************************************************************)
(* The stream of reports: what is in the socket, what the thread holds and *)
(* what the device sends next are one sequence, in which each report       *)
(* follows the one before it unless its gap is marked.  The datagram that  *)
(* wakes the main thread up is not part of it.                             *)
(***************************************************************************)
Waking(d, r) == d = "gen1" /\ r = WakeUp

Linked(d, a, b) == b.gap \/ b = Following(d, a) \/ Waking(d, a) \/ Waking(d, b)

AllLinked(d, s) == \A i \in 1 .. Len(s) - 1 : Linked(d, s[i], s[i + 1])

Upcoming == IF buf # NoReport THEN buf ELSE dev.next

First == IF q # <<>> THEN q[1] ELSE Upcoming

InLine ==
  /\ AllLinked(driver, q)
  /\ q # <<>> => Linked(driver, q[Len(q)], Upcoming)
  /\ buf # NoReport => Linked(driver, buf, dev.next)

LEMMA LinkedAppend ==
  ASSUME NEW d, NEW D, NEW s \in Seq(D), NEW e \in D, AllLinked(d, s),
         s # <<>> => Linked(d, s[Len(s)], e)
  PROVE  /\ AllLinked(d, Append(s, e))
         /\ Append(s, e) # <<>> /\ Append(s, e)[Len(Append(s, e))] = e
         /\ Append(s, e)[1] = IF s # <<>> THEN s[1] ELSE e
<1>1. Len(s) \in Nat /\ Len(Append(s, e)) = Len(s) + 1 /\ Append(s, e)[Len(s) + 1] = e
      /\ \A i \in 1 .. Len(s) : Append(s, e)[i] = s[i]
  OBVIOUS
<1>2. ASSUME NEW i \in 1 .. Len(Append(s, e)) - 1
      PROVE  Linked(d, Append(s, e)[i], Append(s, e)[i + 1])
  <2>1. CASE i = Len(s)
    <3>1. s # <<>> /\ Append(s, e)[i] = s[Len(s)] /\ Append(s, e)[i + 1] = e
      BY <1>1, <1>2, <2>1
    <3> QED
      BY <3>1
  <2>2. CASE i # Len(s)
    <3> DEFINE j == i + 1
    <3>1. i \in 1 .. Len(s) - 1 /\ i \in 1 .. Len(s) /\ j \in 1 .. Len(s)
      BY <1>1, <1>2, <2>2
    <3>2. Linked(d, s[i], s[j])
      BY <3>1 DEF AllLinked
    <3> HIDE DEF j
    <3>3. Append(s, e)[i] = s[i] /\ Append(s, e)[j] = s[j]
      BY <1>1, <3>1
    <3> QED
      BY <3>2, <3>3 DEF j
  <2> QED
    BY <2>1, <2>2
<1>3. AllLinked(d, Append(s, e))
  BY <1>2 DEF AllLinked
<1>4. CASE s = <<>>
  BY <1>1, <1>3, <1>4
<1>5. CASE s # <<>>
  <2>1. 1 \in 1 .. Len(s)
    BY <1>1, <1>5
  <2> QED
    BY <1>1, <1>3, <1>5, <2>1
<1> QED
  BY <1>4, <1>5

LEMMA LinkedTail ==
  ASSUME NEW d, NEW D, NEW s \in Seq(D), s # <<>>, AllLinked(d, s)
  PROVE  /\ AllLinked(d, Tail(s))
         /\ Tail(s) # <<>> => /\ Linked(d, s[1], Tail(s)[1])
                              /\ Tail(s)[Len(Tail(s))] = s[Len(s)]
         /\ Tail(s) = <<>> => s[1] = s[Len(s)]
<1> DEFINE t == Tail(s)
           n == Len(s)
<1>1. /\ t \in Seq(D) /\ n \in Nat /\ n >= 1 /\ Len(t) = n - 1
      /\ \A i \in 1 .. n - 1 : t[i] = s[i + 1]
  OBVIOUS
<1>2. \A i \in 1 .. n - 1 : Linked(d, s[i], s[i + 1])
  BY DEF AllLinked
<1> HIDE DEF t, n
<1>3. ASSUME NEW i \in 1 .. Len(t) - 1
      PROVE  Linked(d, t[i], t[i + 1])
  <2> DEFINE j == i + 1
  <2>1. i \in 1 .. n - 1 /\ j \in 1 .. n - 1
    BY <1>1, <1>3
  <2>2. t[i] = s[j] /\ Linked(d, s[j], s[j + 1])
    BY <1>1, <1>2, <2>1
  <2> HIDE DEF j
  <2>3. t[j] = s[j + 1]
    BY <1>1, <2>1
  <2> QED
    BY <2>2, <2>3 DEF j
<1>4. AllLinked(d, t)
  BY <1>3 DEF AllLinked
<1>5. CASE t = <<>>
  <2>1. Len(t) = 0
    BY <1>5
  <2>2. n = 1
    BY <1>1, <2>1
  <2> QED
    BY <1>4, <1>5, <2>2 DEF n, t
<1>6. CASE t # <<>>
  <2>1. Len(t) # 0
    BY <1>1, <1>6
  <2>2. n - 1 \in 1 .. n - 1 /\ 1 \in 1 .. n - 1 /\ n - 1 + 1 = n
    BY <1>1, <2>1
  <2>3. Linked(d, s[1], s[1 + 1]) /\ t[1] = s[1 + 1]
    BY <1>1, <1>2, <2>2
  <2>4. t[Len(t)] = s[n]
    BY <1>1, <2>2
  <2> QED
    BY <1>4, <1>6, <2>3, <2>4 DEF n, t
<1> QED
  BY <1>5, <1>6

LEMMA InitInLine == Init => InLine
<1> SUFFICES ASSUME Init PROVE InLine
  OBVIOUS
<1>1. q = <<>> /\ buf = NoReport
  BY DEF Init, Init24x, InitGen1, InitU1, CaptureInit
<1>2. Len(q) = 0
  BY <1>1
<1> QED
  BY <1>1, <1>2 DEF InLine, AllLinked

(* Taking reports out of the socket; the one taken comes before the first  *)
(* one of the rest.                                                        *)
LEMMA TakeInLine ==
  ASSUME TypeInv, InLine, UNCHANGED <<driver, buf, dev>>, q # <<>>, q' = Tail(q)
  PROVE  InLine' /\ Linked(driver, q[1], First')
<1>1. q \in Seq(Datagram)
  BY DEF TypeInv, TypeQueue
<1>2. Upcoming' = Upcoming
  BY DEF Upcoming
<1>3. /\ AllLinked(driver, q')
      /\ q' # <<>> => Linked(driver, q[1], q'[1]) /\ q'[Len(q')] = q[Len(q)]
      /\ q' = <<>> => q[1] = q[Len(q)]
  BY <1>1, LinkedTail DEF InLine
<1> QED
  BY <1>2, <1>3 DEF InLine, First

LEMMA MainInLine ==
  TypeInv /\ InLine /\ (MainStep \/ GtkDropsDevice \/ StateConfiguring) => InLine'
<1> SUFFICES ASSUME TypeInv, InLine, MainStep \/ GtkDropsDevice \/ StateConfiguring
             PROVE  InLine'
  OBVIOUS
<1>1. /\ UNCHANGED <<driver, buf, dev>>
      /\ UNCHANGED q \/ q' = <<>> \/ (q # <<>> /\ q' = Tail(q))
  BY MainFrame DEF threadVars
<1>2. CASE UNCHANGED q
  BY <1>1, <1>2 DEF InLine, Upcoming
<1>3. CASE q' = <<>>
  <2>1. Len(q') = 0
    BY <1>3
  <2> QED
    BY <1>1, <1>3, <2>1 DEF InLine, AllLinked
<1>4. CASE q # <<>> /\ q' = Tail(q)
  BY <1>1, <1>4, TakeInLine
<1> QED
  BY <1>1, <1>2, <1>3, <1>4

LEMMA CommandInLine == TypeInv /\ InLine /\ Command => InLine'
<1> SUFFICES ASSUME TypeInv, InLine, Command PROVE InLine'
  OBVIOUS
<1>1. /\ UNCHANGED <<driver, buf, q>>
      /\ UNCHANGED dev \/ dev' = [dev EXCEPT !.next = Restarted]
  BY DEF Command, OpenDevice, SetCalibration24x, SetCalibrationGen1, SetCalibrationU1,
     SetPosition24x, SetPositionU1, threadVars
<1>2. CASE UNCHANGED dev
  BY <1>1, <1>2 DEF InLine, Upcoming
<1>3. CASE dev' = [dev EXCEPT !.next = Restarted]
  <2>1. dev'.next = Restarted
    BY <1>3 DEF TypeInv, TypeReports
  <2>2. q # <<>> \/ buf # NoReport => dev'.next.gap
    BY <2>1 DEF Restarted, From
  <2>3. q # <<>> => Linked(driver, q[Len(q)], Upcoming')
    BY <1>1, <2>2 DEF InLine, Upcoming, Linked
  <2> QED
    BY <1>1, <2>2, <2>3 DEF InLine, Linked
<1> QED
  BY <1>1, <1>2, <1>3

LEMMA EnvironmentInLine ==
  TypeInv /\ InLine /\ Environment => InLine' /\ (First' = First \/ First'.gap)
<1> SUFFICES ASSUME TypeInv, InLine, Environment PROVE InLine' /\ (First' = First \/ First'.gap)
  OBVIOUS
<1>1. UNCHANGED <<driver, buf, q>> /\ (dev'.next = dev.next \/ dev'.next.gap)
  <2>1. dev.next \in Report /\ dev \in [mode : {"live", "quiet", "gone"}, next : Report]
        /\ Following(driver, dev.next) \in Report
    BY Reports DEF TypeInv, TypeReports
  <2>2. [Following(driver, dev.next) EXCEPT !.gap = TRUE].gap
    BY <2>1 DEF Report
  <2> QED
    BY <2>1, <2>2, EnvironmentFrame DEF mainVars, threadVars, sharedVars
<1> QED
  BY <1>1 DEF InLine, Upcoming, First, Linked

LEMMA ThreadInLine ==
  TypeInv /\ InLine /\ Thread
  => InLine' /\ (First' = First \/ First'.gap \/ Waking(driver, First'))
<1> SUFFICES ASSUME TypeInv, InLine, Thread
             PROVE  InLine' /\ (First' = First \/ First'.gap \/ Waking(driver, First'))
  OBVIOUS
<1>1. UNCHANGED driver /\ ThreadMoves
  BY ThreadFrame, ThreadSteps DEF mainVars
<1>2. /\ q \in Seq(Datagram) /\ buf \in Report \cup {NoReport} /\ dev.next \in Report
      /\ dev \in [mode : {"live", "quiet", "gone"}, next : Report]
      /\ NoReport \notin Report /\ Buffered
  BY Reports DEF TypeInv, TypeQueue, TypeReports
<1>3. CASE Queues
  <2>1. buf \in Datagram /\ buf # NoReport /\ buf' = NoReport /\ UNCHANGED dev
        /\ q' = Append(q, buf)
    BY <1>2, <1>3 DEF Queues, Buffered, Datagram
  <2>2. q # <<>> => Linked(driver, q[Len(q)], buf)
    BY <2>1 DEF InLine, Upcoming
  <2>3. /\ AllLinked(driver, q') /\ q' # <<>> /\ q'[Len(q')] = buf
        /\ q'[1] = IF q # <<>> THEN q[1] ELSE buf
    BY <1>2, <2>1, <2>2, LinkedAppend DEF InLine
  <2>4. Upcoming' = dev.next
    BY <2>1 DEF Upcoming
  <2>5. Linked(driver, buf, dev.next)
    BY <2>1 DEF InLine
  <2> QED
    BY <1>1, <2>1, <2>3, <2>4, <2>5 DEF InLine, First, Upcoming
<1>4. CASE Forgets
  <2>1. dev' = [dev EXCEPT !.next = [dev.next EXCEPT !.gap = TRUE]]
        /\ buf' = NoReport /\ UNCHANGED q
    BY <1>4 DEF Forgets
  <2>2. [dev.next EXCEPT !.gap = TRUE].gap
    BY <1>2 DEF Report
  <2>3. dev'.next.gap
    BY <1>2, <2>1, <2>2
  <2> QED
    BY <1>1, <2>1, <2>3 DEF InLine, First, Upcoming, Linked
<1>5. CASE ReadsNext
  <2>1. /\ buf = NoReport /\ buf' = dev.next /\ dev'.next = Following(driver, dev.next)
        /\ UNCHANGED q /\ buf' # NoReport
    BY <1>2, <1>5 DEF ReadsNext, Buffered
  <2>2. Upcoming' = Upcoming
    BY <2>1 DEF Upcoming
  <2>3. Linked(driver, buf', dev'.next)
    BY <2>1 DEF Linked
  <2> QED
    BY <1>1, <2>1, <2>2, <2>3 DEF InLine, First
<1>6. CASE Wakes
  <2>1. UNCHANGED <<buf, dev>> /\ (q' = q \/ q' = Append(q, WakeUp))
        /\ WakeUp \in Datagram /\ Waking(driver, WakeUp)
    BY <1>6 DEF Wakes, Datagram, Waking
  <2>2. CASE q' = q
    BY <1>1, <2>1, <2>2 DEF InLine, First, Upcoming
  <2>3. CASE q' = Append(q, WakeUp)
    <3>1. \A e : Linked(driver, WakeUp, e) /\ Linked(driver, e, WakeUp)
      BY <2>1 DEF Linked
    <3>2. /\ AllLinked(driver, q') /\ q' # <<>> /\ q'[Len(q')] = WakeUp
          /\ q'[1] = IF q # <<>> THEN q[1] ELSE WakeUp
      BY <1>2, <2>1, <2>3, <3>1, LinkedAppend DEF InLine
    <3>3. Upcoming' = Upcoming
      BY <2>1 DEF Upcoming
    <3> QED
      BY <1>1, <2>1, <3>1, <3>2, <3>3 DEF InLine, First
  <2> QED
    BY <2>1, <2>2, <2>3
<1>7. CASE PutsBack \/ Stops \/ Begins \/ Retries \/ Idles \/ Despairs
  <2>1. UNCHANGED <<q, buf, dev>>
    BY <1>7 DEF PutsBack, Stops, Begins, Retries, Idles, Despairs
  <2> QED
    BY <1>1, <2>1 DEF InLine, First, Upcoming
<1> QED
  BY <1>1, <1>3, <1>4, <1>5, <1>6, <1>7 DEF ThreadMoves

LEMMA PollInLine ==
  TypeInv /\ InLine /\ Poll => InLine' /\ Linked(driver, q[1], First')
BY PollFrame, TakeInLine DEF threadVars

LEMMA NextInLine == TypeInv /\ InLine /\ [Next]_vars => InLine'
<1> SUFFICES ASSUME TypeInv, InLine, [Next]_vars PROVE InLine'
  OBVIOUS
<1>1. CASE UNCHANGED vars
  BY <1>1 DEF vars, mainVars, threadVars, sharedVars, InLine, Upcoming
<1>2. CASE Next
  BY <1>2, NextSteps, MainInLine, CommandInLine, PollInLine, ThreadInLine, EnvironmentInLine
<1> QED
  BY <1>1, <1>2

(***************************************************************************)
(* The gen1's last datagram is sent with the flag down; a main thread that *)
(* got past the test of the flag has a report in the socket to receive,    *)
(* and receives that one.  Nobody receives from a closed socket.           *)
(***************************************************************************)
WakeUpQueued == \E i \in 1 .. Len(q) : q[i] = WakeUp

GetsReport ==
  driver = "gen1" =>
    /\ WakeUpQueued => ~alive
    /\ thr = "wake" => ~alive
    /\ pc \in {"poll", "recv"} => q # <<>>
    /\ pc = "fd" /\ ready => q # <<>> \/ ~alive
    /\ pc = "recv" => q[1] # WakeUp

OpenWhileReceiving == pc = "recv" => handles

StreamInv == OwnerInv /\ TypeInv /\ InLine /\ GetsReport /\ OpenWhileReceiving

LEMMA InitStream == Init => StreamInv
<1> SUFFICES ASSUME Init PROVE StreamInv
  OBVIOUS
<1>1. q = <<>> /\ pc = "open" /\ thr = "none"
  BY DEF Init, Init24x, InitGen1, InitU1, CaptureInit
<1>2. Len(q) = 0
  BY <1>1
<1>3. GetsReport /\ OpenWhileReceiving
  BY <1>1, <1>2 DEF GetsReport, WakeUpQueued, OpenWhileReceiving
<1> QED
  BY <1>3, InitOwner, InitType, InitInLine DEF StreamInv

LEMMA MainWake ==
  StreamInv /\ (MainStep \/ GtkDropsDevice \/ StateConfiguring)
  => GetsReport' /\ OpenWhileReceiving'
<1> SUFFICES ASSUME StreamInv, MainStep \/ GtkDropsDevice \/ StateConfiguring
             PROVE  GetsReport' /\ OpenWhileReceiving'
  OBVIOUS
<1> USE DEF threadVars, sharedVars, GetPollFd, Release, AfterError
<1>1. /\ GetsReport /\ OpenWhileReceiving /\ FlagKeepsHandles
      /\ q \in Seq(Datagram) /\ UNCHANGED <<driver, thr>>
  BY MainFrame DEF StreamInv, OwnerInv, TypeInv, TypeQueue
<1>2. alive' => alive /\ UNCHANGED alive
  BY DEF MainStep, GtkDropsDevice, StateConfiguring, CloseDevice, Join, RawSelects, RawTestsFd,
         GtkSelects, TakeSweep, PollBegins, PollLate
<1>3. WakeUpQueued' => WakeUpQueued
  <2>1. CASE UNCHANGED q
    BY <2>1 DEF WakeUpQueued
  <2>2. CASE q' = <<>>
    <3>1. Len(q') = 0
      BY <2>2
    <3> QED
      BY <3>1 DEF WakeUpQueued
  <2>3. CASE q # <<>> /\ q' = Tail(q)
    <3>1. /\ Len(q) \in Nat /\ Len(q') = Len(q) - 1
          /\ \A i \in 1 .. Len(q) - 1 : q'[i] = q[i + 1] /\ i + 1 \in 1 .. Len(q)
      BY <1>1, <2>3
    <3> QED
      BY <3>1 DEF WakeUpQueued
  <2> QED
    BY <2>1, <2>2, <2>3, MainFrame
<1>4. pc' = "recv" => pc = "poll" /\ alive /\ UNCHANGED <<q, handles>>
  BY DEF MainStep, GtkDropsDevice, StateConfiguring, CloseDevice, Join, RawSelects, RawTestsFd,
         GtkSelects, TakeSweep, PollBegins, PollLate
<1>5. pc' = "poll" /\ driver = "gen1" => UNCHANGED q /\ (q # <<>> \/ (pc = "fd" /\ ready /\ alive))
  BY DEF MainStep, GtkDropsDevice, StateConfiguring, CloseDevice, Join, RawSelects, RawTestsFd,
         GtkSelects, TakeSweep, PollBegins, PollLate
<1>6. pc' = "fd" => (ready' => alive /\ q # <<>> /\ UNCHANGED q)
  BY DEF MainStep, GtkDropsDevice, StateConfiguring, CloseDevice, Join, RawSelects, RawTestsFd,
         GtkSelects, TakeSweep, PollBegins, PollLate
<1>7. OpenWhileReceiving'
  BY <1>1, <1>4 DEF OpenWhileReceiving, FlagKeepsHandles
<1>8. ASSUME driver = "gen1", pc' = "recv" PROVE q' # <<>> /\ q'[1] # WakeUp
  <2>1. q # <<>> /\ ~WakeUpQueued /\ UNCHANGED q
    BY <1>1, <1>4, <1>8 DEF GetsReport
  <2>2. 1 \in 1 .. Len(q)
    BY <1>1, <2>1
  <2> QED
    BY <2>1, <2>2 DEF WakeUpQueued
<1>9. ASSUME driver = "gen1", pc' = "poll" PROVE q' # <<>>
  BY <1>1, <1>5, <1>9 DEF GetsReport
<1> QED
  BY <1>1, <1>2, <1>3, <1>6, <1>7, <1>8, <1>9 DEF GetsReport

LEMMA ThreadWake ==
  StreamInv /\ (Thread \/ Environment) => GetsReport' /\ OpenWhileReceiving'
<1> SUFFICES ASSUME StreamInv, Thread \/ Environment PROVE GetsReport' /\ OpenWhileReceiving'
  OBVIOUS
<1>1. UNCHANGED <<driver, pc, ready, handles>>
  BY ThreadFrame DEF mainVars
<1>2. /\ GetsReport /\ OpenWhileReceiving /\ q \in Seq(Datagram) /\ Buffered
      /\ buf \in Report \cup {NoReport}
  BY DEF StreamInv, TypeInv, TypeQueue, TypeReports
<1>3. OpenWhileReceiving'
  BY <1>1, <1>2 DEF OpenWhileReceiving
<1>4. CASE driver # "gen1"
  BY <1>1, <1>3, <1>4 DEF GetsReport
<1>5. CASE driver = "gen1" /\ Environment
  <2>1. UNCHANGED <<q, thr, alive>>
    BY <1>5, EnvironmentFrame DEF sharedVars, threadVars
  <2> QED
    BY <1>1, <1>2, <1>3, <2>1 DEF GetsReport, WakeUpQueued
<1>6. CASE driver = "gen1" /\ Thread
  <2>1. ThreadMoves
    BY <1>6, ThreadSteps
  <2>2. alive' => UNCHANGED alive /\ alive
    <3>1. alive' = alive \/ alive' = FALSE
      BY <2>1 DEF ThreadMoves, Queues, PutsBack, Stops, Forgets, Begins, Retries, ReadsNext,
         Idles, Despairs, Wakes
    <3> QED
      BY <3>1
  <2>3. thr' = "wake" => ~alive'
    BY <2>1 DEF ThreadMoves, Queues, PutsBack, Stops, Forgets, Begins, Retries, ReadsNext,
       Idles, Despairs, Wakes
  <2>4. \/ q' = q
        \/ q' = Append(q, buf) /\ thr = "send"
        \/ q' = Append(q, WakeUp) /\ thr = "wake" /\ alive' = alive
    BY <2>1 DEF ThreadMoves, Queues, PutsBack, Stops, Forgets, Begins, Retries, ReadsNext,
       Idles, Despairs, Wakes
  <2>5. CASE q' = q
    BY <1>1, <1>2, <1>3, <2>2, <2>3, <2>5 DEF GetsReport, WakeUpQueued
  <2>6. ASSUME NEW e \in Datagram, q' = Append(q, e), e # WakeUp \/ ~alive'
        PROVE  GetsReport'
    <3>1. /\ Len(q) \in Nat /\ Len(q') = Len(q) + 1 /\ q'[Len(q) + 1] = e
          /\ \A i \in 1 .. Len(q) : q'[i] = q[i]
          /\ q' # <<>>
      BY <1>2, <2>6
    <3>2. WakeUpQueued' => WakeUpQueued \/ e = WakeUp
      BY <3>1 DEF WakeUpQueued
    <3>3. WakeUpQueued' => ~alive'
      BY <1>2, <1>6, <2>2, <2>6, <3>2 DEF GetsReport
    <3>4. pc' = "recv" => q'[1] # WakeUp
      <4>1. CASE pc = "recv"
        <5>1. q # <<>> /\ q[1] # WakeUp
          BY <1>2, <1>6, <4>1 DEF GetsReport
        <5>2. 1 \in 1 .. Len(q)
          BY <1>2, <5>1
        <5> QED
          BY <3>1, <5>1, <5>2
      <4> QED
        BY <4>1, <1>1
    <3> QED
      BY <1>1, <2>3, <3>1, <3>3, <3>4 DEF GetsReport
  <2>7. CASE q' = Append(q, buf) /\ thr = "send"
    <3>1. buf \in Report
      BY <1>2, <2>7 DEF Buffered
    <3>2. buf # WakeUp /\ buf \in Datagram
      BY <1>6, <3>1, WispyGen1Assumption DEF Report, Places, WakeUp, Datagram
    <3> QED
      BY <1>3, <2>6, <2>7, <3>2
  <2>8. CASE q' = Append(q, WakeUp) /\ thr = "wake" /\ alive' = alive
    <3>1. ~alive' /\ WakeUp \in Datagram
      BY <1>2, <1>6, <2>8 DEF GetsReport, Datagram
    <3> QED
      BY <1>3, <2>6, <2>8, <3>1
  <2> QED
    BY <1>3, <2>4, <2>5, <2>7, <2>8
<1> QED
  BY <1>4, <1>5, <1>6

LEMMA CommandWake == StreamInv /\ (Command \/ Poll) => GetsReport' /\ OpenWhileReceiving'
<1> SUFFICES ASSUME StreamInv, Command \/ Poll PROVE GetsReport' /\ OpenWhileReceiving'
  OBVIOUS
<1>1. /\ GetsReport /\ Buffered /\ q \in Seq(Datagram)
  BY DEF StreamInv, TypeInv, TypeQueue
<1>2. CASE Command
  <2>1. /\ UNCHANGED <<driver, q>> /\ pc' \notin {"poll", "recv", "fd"}
        /\ UNCHANGED <<thr, alive>> \/ (pc = "open" /\ thr' \in {"none", "select"})
    BY <1>2 DEF Command, OpenDevice, SetCalibration24x, SetCalibrationGen1, SetCalibrationU1,
       SetPosition24x, SetPositionU1, threadVars
  <2>2. pc = "open" => ~WakeUpQueued
    <3>1. pc = "open" => Len(q) = 0
      BY <1>1 DEF Buffered
    <3> QED
      BY <3>1 DEF WakeUpQueued
  <2>3. WakeUpQueued' <=> WakeUpQueued
    BY <2>1 DEF WakeUpQueued
  <2> QED
    BY <1>1, <2>1, <2>2, <2>3 DEF GetsReport, OpenWhileReceiving
<1>3. CASE Poll
  <2>1. /\ q # <<>> /\ q' = Tail(q) /\ UNCHANGED <<driver, thr, alive>>
        /\ pc' \notin {"poll", "recv", "fd"}
    BY <1>3, PollFrame DEF threadVars
  <2>2. /\ Len(q) \in Nat /\ Len(q') = Len(q) - 1
        /\ \A i \in 1 .. Len(q) - 1 : q'[i] = q[i + 1] /\ i + 1 \in 1 .. Len(q)
    BY <1>1, <2>1
  <2>3. WakeUpQueued' => WakeUpQueued
    BY <2>2 DEF WakeUpQueued
  <2> QED
    BY <1>1, <2>1, <2>3 DEF GetsReport, OpenWhileReceiving
<1> QED
  BY <1>2, <1>3

LEMMA NextStream == StreamInv /\ [Next]_vars => StreamInv'
<1> SUFFICES ASSUME StreamInv, [Next]_vars PROVE StreamInv'
  OBVIOUS
<1>1. OwnerInv' /\ TypeInv' /\ InLine'
  BY NextOwner, NextType, NextInLine DEF StreamInv
<1>2. CASE UNCHANGED vars
  <2>1. GetsReport' /\ OpenWhileReceiving'
    BY <1>2 DEF vars, mainVars, threadVars, sharedVars, StreamInv, GetsReport, WakeUpQueued,
       OpenWhileReceiving
  <2> QED
    BY <1>1, <2>1 DEF StreamInv
<1>3. CASE Next
  <2>1. GetsReport' /\ OpenWhileReceiving'
    BY <1>3, NextSteps, MainWake, ThreadWake, CommandWake
  <2> QED
    BY <1>1, <2>1 DEF StreamInv
<1> QED
  BY <1>2, <1>3

-----------------------------------------------------------------------------
(***************************************************************************)
(* The sweeps.  As long as the device is watched, the first report of the  *)
(* stream is what the next poll takes; every step that is neither a poll   *)
(* nor a command leaves it as it is, or lets it get lost.                  *)
(***************************************************************************)
Watched == (pc = "open" \/ handles) /\ pc \notin {"stopped", "close", "join", "failed"}

Still ==
  /\ UNCHANGED <<driver, asmVars>>
  /\ pc' = "deliver" => pc = "deliver"
  /\ pc' \in {"open", "start", "calibrate", "position"}
     => pc \in {"open", "start", "calibrate", "position"}
  /\ Watched' => Watched /\ (First' = First \/ First'.gap \/ Waking(driver, First'))

LEMMA MainStill ==
  StreamInv /\ (MainStep \/ GtkDropsDevice \/ StateConfiguring) => Still
<1> SUFFICES ASSUME StreamInv, MainStep \/ GtkDropsDevice \/ StateConfiguring PROVE Still
  OBVIOUS
<1> USE DEF threadVars, sharedVars, GetPollFd, Release, AfterError
<1>1. UNCHANGED <<driver, asmVars, buf, dev>>
  BY MainFrame
<1>2. pc' # "deliver" /\ (pc' \in {"open", "start", "calibrate", "position"} => pc = "start")
      /\ pc # "open" /\ pc' # "open"
  <2>1. TypeMain /\ TypeThread
    BY DEF StreamInv, TypeInv
  <2>2. pc # "open" /\ pc' # "open" /\ pc' # "start" /\ (pc' = "calibrate" => pc = "start")
    BY <2>1, MainTypes
  <2>3. pc' # "deliver" /\ pc' # "position"
    BY DEF MainStep, GtkDropsDevice, StateConfiguring, CloseDevice, Join, RawSelects,
       RawTestsFd, GtkSelects, TakeSweep, PollBegins, PollLate
  <2> QED
    BY <2>2, <2>3
<1>3. ASSUME Watched' PROVE Watched /\ First' = First
  <2>1. handles' /\ pc' \notin {"stopped", "close", "join", "failed"}
    BY <1>2, <1>3 DEF Watched
  <2>2. UNCHANGED <<q, handles>> /\ pc \notin {"stopped", "close", "join", "failed"}
    BY <2>1 DEF MainStep, GtkDropsDevice, StateConfiguring, CloseDevice, Join, RawSelects,
       RawTestsFd, GtkSelects, TakeSweep, PollBegins, PollLate
  <2> QED
    BY <1>1, <2>1, <2>2 DEF Watched, First, Upcoming
<1> QED
  BY <1>1, <1>2, <1>3 DEF Still

LEMMA ThreadStill == StreamInv /\ (Thread \/ Environment) => Still
<1> SUFFICES ASSUME StreamInv, Thread \/ Environment PROVE Still
  OBVIOUS
<1>1. UNCHANGED <<driver, pc, handles, asmVars>>
  BY ThreadFrame DEF mainVars
<1>2. First' = First \/ First'.gap \/ Waking(driver, First')
  BY ThreadInLine, EnvironmentInLine DEF StreamInv
<1> QED
  BY <1>1, <1>2 DEF Still, Watched

(* Opening, and calibrating a device that does not do it itself.           *)
Prepares == OpenDevice \/ SetCalibration24x \/ SetCalibrationU1

LEMMA PrepareStill == StreamInv /\ Prepares => Still
<1> SUFFICES ASSUME StreamInv, Prepares PROVE Still
  OBVIOUS
<1>1. /\ UNCHANGED <<driver, asmVars, q, buf, dev>> /\ pc' # "deliver"
      /\ pc \in {"open", "calibrate"}
      /\ pc # "open" => UNCHANGED handles
      /\ pc' # "open"
  BY DEF Prepares, OpenDevice, SetCalibration24x, SetCalibrationU1, threadVars
<1>2. Watched' => Watched
  BY <1>1 DEF Watched
<1> QED
  BY <1>1, <1>2 DEF Still, First, Upcoming

LEMMA StutterStill == UNCHANGED vars => Still
BY DEF vars, mainVars, threadVars, sharedVars, Still, Watched, First, Upcoming

(* The steps that are not still.                                           *)
LEMMA StillSteps ==
  ASSUME StreamInv, [Next]_vars
  PROVE  Still \/ SetCalibrationGen1 \/ SetPosition24x \/ SetPositionU1 \/ Poll
BY NextSteps, MainStill, ThreadStill, PrepareStill, StutterStill DEF Command, Prepares

(* What a poll does to the stream.                                         *)
LEMMA PollStream ==
  ASSUME StreamInv, Poll
  PROVE  /\ UNCHANGED driver /\ Watched /\ First = Head(q)
         /\ Linked(driver, First, First')
         /\ run' = IF First.gap THEN 1 ELSE IF run < RunMax THEN run + 1 ELSE run
         /\ First \in Report /\ ~Waking(driver, First)
<1>1. /\ pc = "recv" /\ q # <<>> /\ UNCHANGED driver /\ Received(Head(q))
  BY PollFrame DEF Poll, Poll24x, PollGen1, PollU1, Received
<1>2. handles /\ q \in Seq(Datagram) /\ TypeMain /\ TypeQueue
  BY <1>1 DEF StreamInv, OpenWhileReceiving, TypeInv, TypeQueue
<1>3. Head(q) = q[1] /\ First = q[1]
  BY <1>1, <1>2 DEF First
<1>4. Linked(driver, First, First')
  BY <1>3, PollInLine DEF StreamInv
<1>5. First \in Datagram /\ (driver # "gen1" => First \in Report)
  BY <1>1, <1>2, <1>3, HeadReport
<1>6. driver = "gen1" => First # WakeUp
  BY <1>1, <1>3 DEF StreamInv, GetsReport
<1>7. First \in Report /\ ~Waking(driver, First)
  BY <1>5, <1>6 DEF Datagram, Waking
<1> QED
  BY <1>1, <1>2, <1>3, <1>4, <1>7 DEF Watched, Received

LEMMA Successor ==
  ASSUME NEW b \in Nat \ {0}, NEW a \in 0 .. b - 1
  PROVE  (a + 1) % b = IF a = b - 1 THEN 0 ELSE a + 1
OBVIOUS

Counted == run \in Nat

LEMMA InitCounted == Init => Counted
BY CaptureAssumption DEF Init, Init24x, InitGen1, InitU1, CaptureInit, Counted

LEMMA NextCounted == StreamInv /\ Counted /\ [Next]_vars => Counted'
<1> SUFFICES ASSUME StreamInv, Counted, [Next]_vars PROVE Counted'
  OBVIOUS
<1>1. CASE Still \/ SetCalibrationGen1 \/ SetPosition24x \/ SetPositionU1
  BY <1>1 DEF Still, SetCalibrationGen1, SetPosition24x, SetPositionU1, asmVars, Counted
<1>2. CASE Poll
  BY <1>2, PollStream DEF Counted
<1> QED
  BY <1>1, <1>2, StillSteps

(***************************************************************************)
(* The gen1: once calibrated and in step, the places below that of the     *)
(* next report hold the levels of this sweep, if as many reports were      *)
(* taken without a loss.                                                   *)
(***************************************************************************)
FilledUpTo(n) == \A k \in 1 .. n : sweepbuf[k] = k - 1

FillsGen1 ==
  /\ driver = "gen1" /\ Watched /\ calibration.done /\ initialized
  /\ ~First.gap /\ ~Waking(driver, First) /\ run >= First.at
  => FilledUpTo(First.at)

SweepInvGen1 == FillsGen1 /\ CalibratedSweep

LEMMA InitSweepGen1 == Init => SweepInvGen1
BY DEF Init, Init24x, InitGen1, InitU1, CaptureInit, SweepInvGen1, FillsGen1, CalibratedSweep

LEMMA PollSweepGen1 ==
  StreamInv /\ Counted /\ SweepInvGen1 /\ PollGen1 => SweepInvGen1'
<1> SUFFICES ASSUME StreamInv, Counted, SweepInvGen1, PollGen1 PROVE SweepInvGen1'
  OBVIOUS
<1> DEFINE r == First
           G == Gen1Packets
<1>1. /\ driver = "gen1" /\ UNCHANGED driver /\ Watched /\ r = Head(q)
      /\ Linked(driver, r, First')
      /\ run' = IF r.gap THEN 1 ELSE IF run < RunMax THEN run + 1 ELSE run
      /\ r \in Report /\ ~Waking(driver, r)
  BY PollStream DEF Poll, PollGen1
<1>2. /\ calibration' = Calibrated(r)
      /\ initialized' = (initialized \/ r.at = 0)
      /\ sweepbuf' = IF initialized' /\ calibration'.done /\ r.at < G
                     THEN [sweepbuf EXCEPT ![r.at + 1] = r.at] ELSE sweepbuf
      /\ pc' = IF initialized' /\ calibration'.done /\ r.at >= G - 1
               THEN "deliver" ELSE "loop"
  BY <1>1 DEF PollGen1
<1>3. sweepbuf \in [1 .. G -> -1 .. G - 1]
  BY <1>1 DEF StreamInv, TypeInv, TypeSweep, TypeGen1
<1>4. r.at \in 0 .. G - 1 /\ G \in Nat \ {0}
  BY <1>1, WispyGen1Assumption DEF Report, Places, WakeUp
<1>5. run \in Nat /\ run' \in Nat /\ (run' >= r.at + 1 /\ r.at # 0 => ~r.gap /\ run >= r.at)
  BY <1>1, <1>4 DEF Counted
<1>6. r.at # 0 => calibration' = calibration /\ initialized' = initialized
  BY <1>2 DEF Calibrated, StreamInv, TypeInv, TypeSweep
<1> HIDE DEF r, G
<1>7. ASSUME run' >= r.at + 1, initialized', calibration'.done
      PROVE  \A k \in 1 .. r.at + 1 : sweepbuf'[k] = k - 1
  <2>1. sweepbuf' = [sweepbuf EXCEPT ![r.at + 1] = r.at]
    BY <1>2, <1>4, <1>7
  <2>2. r.at # 0 => FilledUpTo(r.at)
    BY <1>1, <1>5, <1>6, <1>7 DEF SweepInvGen1, FillsGen1, r
  <2> DEFINE n == r.at + 1
  <2>3. n \in 1 .. G /\ n - 1 = r.at
    BY <1>4
  <2>4. sweepbuf' = [sweepbuf EXCEPT ![n] = r.at]
    BY <2>1
  <2> HIDE DEF n
  <2>5. ASSUME NEW k \in 1 .. n PROVE sweepbuf'[k] = k - 1
    <3>1. CASE k = n
      BY <1>3, <2>3, <2>4, <3>1
    <3>2. CASE k # n
      <4>1. k \in 1 .. r.at /\ r.at # 0 /\ k \in 1 .. G
        BY <1>4, <2>3, <3>2
      <4>2. sweepbuf[k] = k - 1
        BY <2>2, <4>1 DEF FilledUpTo
      <4>3. sweepbuf'[k] = sweepbuf[k]
        BY <1>3, <2>4, <3>2, <4>1
      <4> QED
        BY <4>2, <4>3
    <3> QED
      BY <3>1, <3>2
  <2> QED
    BY <2>5 DEF n
<1>8. CalibratedSweep'
  <2> SUFFICES ASSUME pc' = "deliver", run' >= G
               PROVE  \A k \in 1 .. G : sweepbuf'[k] = k - 1
    BY DEF CalibratedSweep, G
  <2>1. initialized' /\ calibration'.done /\ r.at + 1 = G
    BY <1>2, <1>4
  <2> QED
    BY <1>7, <2>1
<1>9. FillsGen1'
  <2> SUFFICES ASSUME calibration'.done, initialized', ~First'.gap, ~Waking(driver, First'),
                      run' >= First'.at
               PROVE  \A k \in 1 .. First'.at : sweepbuf'[k] = k - 1
    BY <1>1 DEF FillsGen1, FilledUpTo
  <2>1. First' = FollowingGen1(r)
    BY <1>1 DEF Linked, Following
  <2>2. First'.at = (r.at + 1) % G
    BY <2>1 DEF FollowingGen1, G
  <2>3. First'.at = IF r.at = G - 1 THEN 0 ELSE r.at + 1
    BY <1>4, <2>2, Successor
  <2>4. CASE r.at = G - 1
    BY <2>3, <2>4
  <2>5. CASE r.at # G - 1
    BY <1>7, <2>3, <2>5
  <2> QED
    BY <2>4, <2>5
<1> QED
  BY <1>8, <1>9 DEF SweepInvGen1

LEMMA NextSweepGen1 ==
  StreamInv /\ Counted /\ SweepInvGen1 /\ [Next]_vars => SweepInvGen1'
<1> SUFFICES ASSUME StreamInv, Counted, SweepInvGen1, [Next]_vars PROVE SweepInvGen1'
  OBVIOUS
<1>1. CASE Still
  <2>1. UNCHANGED <<driver, sweepbuf, calibration, initialized, run>>
        /\ (pc' = "deliver" => pc = "deliver")
    BY <1>1 DEF Still, asmVars
  <2>2. CalibratedSweep'
    BY <2>1 DEF SweepInvGen1, CalibratedSweep
  <2>3. FillsGen1'
    <3>1. Watched' => Watched /\ (First' = First \/ First'.gap \/ Waking(driver, First'))
      BY <1>1 DEF Still
    <3> QED
      BY <2>1, <3>1 DEF SweepInvGen1, FillsGen1, FilledUpTo
  <2> QED
    BY <2>2, <2>3 DEF SweepInvGen1
<1>2. CASE SetCalibrationGen1
  <2>1. calibration \in [done : BOOLEAN, sweeps : -1 .. CalibrateSweeps] /\ pc' = "loop"
        /\ calibration' = [calibration EXCEPT !.done = FALSE]
    BY <1>2 DEF SetCalibrationGen1, StreamInv, TypeInv, TypeSweep, TypeGen1
  <2>2. ~calibration'.done
    BY <2>1
  <2> QED
    BY <2>1, <2>2 DEF SweepInvGen1, FillsGen1, CalibratedSweep
<1>3. CASE SetPosition24x \/ SetPositionU1 \/ Poll24x \/ PollU1
  <2>1. driver # "gen1" /\ UNCHANGED driver
    BY <1>3, PollFrame DEF SetPosition24x, SetPositionU1, Poll24x, PollU1, Poll
  <2> QED
    BY <2>1 DEF SweepInvGen1, FillsGen1, CalibratedSweep
<1>4. CASE PollGen1
  BY <1>4, PollSweepGen1
<1> QED
  BY <1>1, <1>2, <1>3, <1>4, StillSteps DEF Poll

(***************************************************************************)
(* A sweep the gen1 delivers without a loss is complete and measured after *)
(* the calibration, for every length of sweep and of calibration.          *)
(***************************************************************************)
THEOREM GenerationOneCalibrated == Spec => []CalibratedSweep
<1> DEFINE I == StreamInv /\ Counted /\ SweepInvGen1
<1>1. Init => I
  BY InitStream, InitCounted, InitSweepGen1
<1>2. I /\ [Next]_vars => I'
  BY NextStream, NextCounted, NextSweepGen1
<1>3. I => CalibratedSweep
  BY DEF SweepInvGen1
<1> QED
  BY <1>1, <1>2, <1>3, PTL DEF Spec

(***************************************************************************)
(* The 24x.  The buffer holds the packets stored since the base was 0; L   *)
(* of them, with no loss among them, are consecutive and as long as the    *)
(* base says.  After a loss the packets come in order again from some      *)
(* place on that is beyond the number of those taken since, so that the    *)
(* count does not reach L before packet 0 starts the buffer over.          *)
(***************************************************************************)
Bytes(n) == n * FullBytes

Consecutive(s) ==
  /\ \A k \in 1 .. Len(s) : s[k] = s[1] + k - 1
  /\ s[1] >= 0 /\ s[Len(s)] <= Packets - 1

BaseFits ==
  /\ Len(sweepbuf) >= 1 /\ sweepbase >= 1 /\ sweepbuf # NoBuffer
  /\ Len(sweepbuf) < Packets => sweepbase <= Bytes(Len(sweepbuf))

InStep ==
  run >= Len(sweepbuf) =>
    /\ Consecutive(sweepbuf)
    /\ sweepbase = IF sweepbuf[Len(sweepbuf)] = Packets - 1
                   THEN Bytes(Len(sweepbuf) - 1) + LastBytes ELSE Bytes(Len(sweepbuf))
    /\ Watched => First.gap \/ First.at = (sweepbuf[Len(sweepbuf)] + 1) % Packets

OutOfStep ==
  run < Len(sweepbuf) /\ Watched => First.gap \/ First.at = 0 \/ First.at > run

SweepInv24x ==
  driver = "24x" => /\ initialized => BaseFits /\ InStep /\ OutOfStep
                    /\ pc = "deliver" => initialized /\ sweepbase = NumSamples

(* The arithmetic of the base.                                             *)
LEMMA BytesFacts ==
  /\ \A n \in Nat : Bytes(n) \in Nat /\ Bytes(n + 1) = Bytes(n) + FullBytes
  /\ \A n, m \in Nat : n <= m => Bytes(n) <= Bytes(m)
  /\ Bytes(0) = 0 /\ Bytes(1) = FullBytes
  /\ NumSamples = Bytes(Packets - 1) + LastBytes
<1>1. FullBytes \in Nat /\ Packets \in Nat \ {0} /\ LastBytes \in Nat
  BY Wispy24xAssumption
<1>2. \A n \in Nat : Bytes(n) \in Nat /\ Bytes(n + 1) = Bytes(n) + FullBytes
  BY <1>1 DEF Bytes
<1>3. ASSUME NEW n \in Nat, NEW m \in Nat, n <= m PROVE Bytes(n) <= Bytes(m)
  <2> DEFINE d == m - n
  <2>1. d \in Nat /\ m = n + d
    BY <1>3
  <2> HIDE DEF d
  <2>2. d * FullBytes \in Nat
    BY <1>1, <2>1
  <2>3. (n + d) * FullBytes = n * FullBytes + d * FullBytes
    BY <1>1, <2>1
  <2> DEFINE a == n * FullBytes
             b == d * FullBytes
  <2>4. a \in Nat /\ b \in Nat
    BY <1>1, <2>2
  <2>5. Bytes(m) = a + b /\ Bytes(n) = a
    BY <2>1, <2>3 DEF Bytes
  <2> HIDE DEF a, b
  <2> QED
    BY <2>4, <2>5
<1>4. Bytes(0) = 0 /\ Bytes(1) = FullBytes
  BY <1>1 DEF Bytes
<1>5. NumSamples = Bytes(Packets - 1) + LastBytes
  BY DEF NumSamples, Bytes
<1> QED
  BY <1>2, <1>3, <1>4, <1>5

(* Fewer packets than a sweep has do not fill the buffer; packets in step  *)
(* fill it exactly with a whole sweep.                                     *)
LEMMA BaseBound ==
  ASSUME driver = "24x", TypeSweep, initialized, BaseFits, sweepbase >= NumSamples
  PROVE  Len(sweepbuf) >= Packets
<1> DEFINE L == Len(sweepbuf)
           P == Packets
<1>1. L \in Nat /\ P \in Nat /\ sweepbase \in Nat /\ P >= 1 /\ LastBytes \in Nat /\ LastBytes >= 1
  BY Wispy24xAssumption, Sizes24x DEF TypeSweep, Type24x
<1>2. L < P => sweepbase <= Bytes(L)
  BY DEF BaseFits
<1> HIDE DEF L, P
<1>3. ASSUME L < P PROVE FALSE
  <2> DEFINE m == P - 1
  <2>1. m \in Nat /\ L <= m
    BY <1>1, <1>3
  <2>2. NumSamples = Bytes(m) + LastBytes
    BY BytesFacts DEF P
  <2> HIDE DEF m
  <2>3. Bytes(L) <= Bytes(m) /\ Bytes(L) \in Nat /\ Bytes(m) \in Nat
    BY <1>1, <2>1, BytesFacts
  <2> QED
    BY <1>1, <1>2, <1>3, <2>2, <2>3
<1> QED
  BY <1>1, <1>3 DEF L, P

LEMMA FullMeansWhole ==
  ASSUME driver = "24x", TypeSweep, initialized, BaseFits, InStep, run >= Len(sweepbuf),
         sweepbase >= NumSamples
  PROVE  /\ Len(sweepbuf) = Packets /\ sweepbuf[1] = 0
         /\ sweepbuf[Len(sweepbuf)] = Packets - 1
<1> DEFINE L == Len(sweepbuf)
           P == Packets
           s == sweepbuf[1]
<1>1. L \in Nat /\ L >= 1 /\ P \in Nat /\ P >= 1
  BY Wispy24xAssumption DEF TypeSweep, Type24x, BaseFits
<1>2. L >= P
  BY BaseBound
<1>3. s \in Int
  BY <1>1, Wispy24xAssumption DEF TypeSweep, Type24x
<1>4. /\ \A k \in 1 .. L : sweepbuf[k] = s + k - 1
      /\ s >= 0 /\ sweepbuf[L] <= P - 1
  BY DEF InStep, Consecutive
<1> HIDE DEF L, P, s
<1>5. sweepbuf[L] = s + L - 1
  BY <1>1, <1>4
<1>6. L = P /\ s = 0 /\ sweepbuf[L] = P - 1
  BY <1>1, <1>2, <1>3, <1>4, <1>5
<1> QED
  BY <1>6 DEF L, P, s

LEMMA InOrder24xFollows ==
  StreamInv /\ SweepInv24x => InOrder24x
<1> SUFFICES ASSUME StreamInv, SweepInv24x, driver = "24x", pc = "deliver",
                    run >= Len(sweepbuf)
             PROVE  sweepbuf = [k \in 1 .. Packets |-> k - 1]
  BY DEF InOrder24x
<1>1. /\ TypeSweep /\ initialized /\ BaseFits /\ InStep /\ sweepbase >= NumSamples
      /\ sweepbuf \in Seq(-1 .. Packets - 1)
  BY Sizes24x DEF StreamInv, TypeInv, SweepInv24x, TypeSweep, Type24x
<1>2. Len(sweepbuf) = Packets /\ sweepbuf[1] = 0
  BY <1>1, FullMeansWhole
<1>3. \A k \in 1 .. Packets : sweepbuf[k] = k - 1
  BY <1>1, <1>2, Wispy24xAssumption DEF InStep, Consecutive
<1>4. DOMAIN sweepbuf = 1 .. Packets /\ sweepbuf = [k \in DOMAIN sweepbuf |-> sweepbuf[k]]
  BY <1>1, <1>2
<1> QED
  BY <1>3, <1>4

LEMMA InitSweep24x == Init => SweepInv24x
BY DEF Init, Init24x, InitGen1, InitU1, CaptureInit, SweepInv24x

(* What a poll of the 24x starts from, in terms of the first report.       *)
Polls24x(r) ==
  /\ driver = "24x" /\ UNCHANGED driver /\ Watched /\ r = First /\ r.at \in 0 .. Packets - 1
  /\ run' = IF r.gap THEN 1 ELSE IF run < RunMax THEN run + 1 ELSE run
  /\ \/ First'.gap
     \/ First'.at = IF r.at = Packets - 1 THEN 0 ELSE r.at + 1
  /\ (r.at + 1) % Packets = IF r.at = Packets - 1 THEN 0 ELSE r.at + 1
  /\ sweepbuf \in Seq(-1 .. Packets - 1) /\ sweepbase \in Nat /\ run \in Nat /\ run' \in Nat
  /\ initialized => BaseFits /\ InStep /\ OutOfStep

LEMMA PollGives24x ==
  ASSUME StreamInv, Counted, SweepInv24x, Poll24x PROVE Polls24x(First)
<1> DEFINE r == First
<1>1. /\ driver = "24x" /\ UNCHANGED driver /\ Watched
      /\ Linked(driver, r, First')
      /\ run' = IF r.gap THEN 1 ELSE IF run < RunMax THEN run + 1 ELSE run
      /\ r \in Report
  BY PollStream DEF Poll, Poll24x
<1>2. r.at \in 0 .. Packets - 1
  BY <1>1 DEF Report, Places
<1>3. (r.at + 1) % Packets = IF r.at = Packets - 1 THEN 0 ELSE r.at + 1
  BY <1>2, Successor, Wispy24xAssumption
<1>4. First'.gap \/ First'.at = (r.at + 1) % Packets
  BY <1>1 DEF Linked, Waking, Following, Following24x
<1>5. run \in Nat /\ run' \in Nat
  BY <1>1 DEF Counted
<1>6. sweepbuf \in Seq(-1 .. Packets - 1) /\ sweepbase \in Nat
  BY <1>1, Sizes24x DEF StreamInv, TypeInv, TypeSweep, Type24x
<1>7. initialized => BaseFits /\ InStep /\ OutOfStep
  BY <1>1 DEF SweepInv24x
<1> QED
  BY <1>1, <1>2, <1>3, <1>4, <1>5, <1>6, <1>7 DEF Polls24x

(* Packet 0, or the first packet of all, starts the buffer over.           *)
LEMMA StartsOver ==
  ASSUME NEW r, Polls24x(r), Base(r) = 0, sweepbuf' = <<r.at>>, sweepbase' = ValidBytes(r)
  PROVE  BaseFits' /\ InStep' /\ OutOfStep'
<1>1. /\ r.at \in 0 .. Packets - 1 /\ run' \in Nat
      /\ First'.gap \/ First'.at = (r.at + 1) % Packets
      /\ First'.gap \/ First'.at = 0 \/ First'.at = r.at + 1
  BY DEF Polls24x
<1>2. Len(sweepbuf') = 1 /\ sweepbuf'[1] = r.at /\ sweepbuf' # <<-1>>
  BY <1>1
<1>3. ValidBytes(r) \in 1 .. FullBytes /\ FullBytes \in Nat /\ Bytes(1) = FullBytes
      /\ Bytes(0) = 0
  BY Sizes24x, BytesFacts
<1>4. BaseFits'
  BY <1>2, <1>3 DEF BaseFits, NoBuffer, Unwritten
<1>5. InStep'
  <2>1. Consecutive(sweepbuf')
    BY <1>1, <1>2, Wispy24xAssumption DEF Consecutive
  <2>2. ValidBytes(r) = IF r.at = Packets - 1 THEN Bytes(1 - 1) + LastBytes ELSE Bytes(1)
    BY <1>3, Wispy24xAssumption DEF ValidBytes
  <2> QED
    BY <1>1, <1>2, <2>1, <2>2 DEF InStep
<1>6. OutOfStep'
  BY <1>1, <1>2, Wispy24xAssumption DEF OutOfStep
<1> QED
  BY <1>4, <1>5, <1>6

(* A packet is stored behind the others.                                   *)
LEMMA Extends ==
  ASSUME NEW r, Polls24x(r), TypeSweep, initialized, r.at # 0, sweepbase < NumSamples,
         sweepbuf' = Append(sweepbuf, r.at), sweepbase' = sweepbase + ValidBytes(r)
  PROVE  BaseFits' /\ InStep' /\ OutOfStep'
<1> DEFINE L == Len(sweepbuf)
           P == Packets
           F == FullBytes
           M == L + 1
<1>1. /\ r.at \in 1 .. P - 1 /\ run \in Nat /\ run' \in Nat /\ sweepbase \in Nat
      /\ run' = IF r.gap THEN 1 ELSE IF run < RunMax THEN run + 1 ELSE run
      /\ First'.gap \/ First'.at = (r.at + 1) % P
      /\ First'.gap \/ First'.at = 0 \/ First'.at = r.at + 1
      /\ BaseFits /\ InStep /\ OutOfStep /\ Watched /\ r = First /\ driver = "24x"
  BY DEF Polls24x
<1>2. /\ L \in Nat /\ L >= 1 /\ P \in Nat /\ P >= 1 /\ F \in Nat /\ LastBytes \in Nat
      /\ M \in Nat
  BY <1>1, Wispy24xAssumption DEF Polls24x, BaseFits
<1>3. ValidBytes(r) \in 1 .. F /\ ValidBytes(r) = IF r.at = P - 1 THEN LastBytes ELSE F
  BY Sizes24x DEF ValidBytes
<1>4. Bytes(M) = Bytes(L) + F /\ Bytes(L) \in Nat
  BY <1>2, BytesFacts
<1>5. /\ Len(sweepbuf') = M /\ sweepbuf'[M] = r.at /\ sweepbuf'[1] = sweepbuf[1]
      /\ \A k \in 1 .. L : sweepbuf'[k] = sweepbuf[k]
      /\ sweepbuf[1] \in Int /\ sweepbuf[L] \in -1 .. P - 1
  BY <1>1, <1>2 DEF Polls24x
<1>6. M - 1 = L
  BY <1>2
<1>7. L < P => sweepbase <= Bytes(L)
  BY <1>1 DEF BaseFits
<1> HIDE DEF L, P, F, M
<1>8. BaseFits'
  <2>1. Len(sweepbuf') >= 1 /\ sweepbase' >= 1
    BY <1>1, <1>2, <1>3, <1>5 DEF M
  <2>2. sweepbuf' # NoBuffer
    <3>1. Len(NoBuffer) = 1
      BY DEF NoBuffer
    <3> QED
      BY <3>1, <1>2, <1>5, <1>6
  <2>3. M < P => sweepbase' <= Bytes(M)
    BY <1>1, <1>2, <1>3, <1>4, <1>6, <1>7
  <2> QED
    BY <2>1, <2>2, <2>3, <1>5 DEF BaseFits, P
<1>9. ASSUME run >= L
      PROVE  /\ \A k \in 1 .. L : sweepbuf[k] = sweepbuf[1] + k - 1
             /\ sweepbuf[1] >= 0
             /\ sweepbase = IF sweepbuf[L] = P - 1 THEN Bytes(L - 1) + LastBytes ELSE Bytes(L)
             /\ r.gap \/ r.at = (sweepbuf[L] + 1) % P
  BY <1>1, <1>9 DEF InStep, Consecutive, L, P
<1>10. ASSUME run >= L, ~r.gap
       PROVE  /\ sweepbuf[L] # P - 1 /\ r.at = sweepbuf[L] + 1 /\ r.at >= L
              /\ r.at = sweepbuf[1] + M - 1
  <2>1. sweepbuf[L] = sweepbuf[1] + L - 1 /\ sweepbuf[1] >= 0
    BY <1>2, <1>9, <1>10
  <2>2. sweepbuf[L] \in 0 .. P - 1
    BY <1>2, <1>5, <2>1
  <2> DEFINE a == sweepbuf[L]
  <2>a. a \in 0 .. P - 1 /\ P \in Nat \ {0}
    BY <1>2, <2>2
  <2> HIDE DEF a
  <2>b. (a + 1) % P = IF a = P - 1 THEN 0 ELSE a + 1
    BY <2>a, Successor
  <2>3. (sweepbuf[L] + 1) % P = IF sweepbuf[L] = P - 1 THEN 0 ELSE sweepbuf[L] + 1
    BY <2>b DEF a
  <2>4. r.at = (sweepbuf[L] + 1) % P /\ r.at # 0
    BY <1>1, <1>9, <1>10
  <2>5. sweepbuf[L] # P - 1 /\ r.at = sweepbuf[L] + 1
    BY <2>3, <2>4
  <2> QED
    BY <1>2, <1>5, <1>6, <2>1, <2>5
<1>11. InStep'
  <2> SUFFICES ASSUME run' >= M PROVE InStep'
    BY <1>5 DEF InStep
  <2>1. run >= L /\ ~r.gap
    BY <1>1, <1>2, <1>6
  <2>2. Consecutive(sweepbuf')
    <3>1. \A k \in 1 .. M : sweepbuf'[k] = sweepbuf'[1] + k - 1
      <4> SUFFICES ASSUME NEW k \in 1 .. M PROVE sweepbuf'[k] = sweepbuf'[1] + k - 1
        OBVIOUS
      <4>1. CASE k = M
        BY <1>5, <1>10, <2>1, <4>1
      <4>2. CASE k # M
        <5>1. k \in 1 .. L
          BY <1>2, <1>6, <4>2
        <5> QED
          BY <1>5, <1>9, <2>1, <5>1
      <4> QED
        BY <4>1, <4>2
    <3>2. sweepbuf'[1] >= 0
      BY <1>5, <1>9, <2>1
    <3> QED
      BY <1>1, <1>5, <3>1, <3>2 DEF Consecutive, P
  <2>3. sweepbase' = IF r.at = P - 1 THEN Bytes(M - 1) + LastBytes ELSE Bytes(M)
    BY <1>3, <1>4, <1>6, <1>9, <1>10, <2>1
  <2>4. First'.gap \/ First'.at = (sweepbuf'[M] + 1) % P
    BY <1>1, <1>5
  <2> QED
    BY <1>5, <2>2, <2>3, <2>4 DEF InStep, P
<1>12. OutOfStep'
  <2> SUFFICES ASSUME run' < M PROVE First'.gap \/ First'.at = 0 \/ First'.at > run'
    BY <1>5 DEF OutOfStep
  <2>1. r.at >= run'
    <3>1. CASE r.gap
      BY <1>1, <3>1
    <3>2. CASE ~r.gap /\ run < L
      <4>1. r.at > run
        BY <1>1, <3>2 DEF OutOfStep, L
      <4> QED
        BY <1>1, <3>2, <4>1
    <3>3. CASE ~r.gap /\ run >= L
      BY <1>1, <1>2, <1>6, <1>10, <3>3
    <3> QED
      BY <1>1, <1>2, <3>1, <3>2, <3>3
  <2> QED
    BY <1>1, <2>1
<1> QED
  BY <1>8, <1>11, <1>12

(* A buffer that is full, or past its end, waits for packet 0.             *)
LEMMA Overruns ==
  ASSUME NEW r, Polls24x(r), TypeSweep, initialized, r.at # 0, sweepbase >= NumSamples,
         sweepbuf' = sweepbuf, sweepbase' >= 1
  PROVE  BaseFits' /\ InStep' /\ OutOfStep'
<1> DEFINE L == Len(sweepbuf)
           P == Packets
<1>1. /\ r.at \in 1 .. P - 1 /\ run \in Nat /\ run' \in Nat
      /\ run' = IF r.gap THEN 1 ELSE IF run < RunMax THEN run + 1 ELSE run
      /\ First'.gap \/ First'.at = 0 \/ First'.at = r.at + 1
      /\ BaseFits /\ InStep /\ OutOfStep /\ Watched /\ r = First /\ driver = "24x"
  BY DEF Polls24x
<1>2. L >= P
  BY <1>1, BaseBound
<1>3. L \in Nat /\ P \in Nat /\ P >= 2 /\ L >= 2
  BY <1>1, <1>2, Wispy24xAssumption DEF Polls24x
<1>4. run < L => r.gap \/ r.at > run
  BY <1>1 DEF OutOfStep
<1>5. run >= L => r.gap
  <2> SUFFICES ASSUME run >= L PROVE r.gap
    OBVIOUS
  <2>1. sweepbuf[L] = P - 1
    BY <1>1, FullMeansWhole
  <2>2. (P - 1 + 1) % P = 0
    BY <1>3, Successor
  <2>3. r.gap \/ r.at = (sweepbuf[L] + 1) % P
    BY <1>1 DEF InStep
  <2> QED
    BY <1>1, <2>1, <2>2, <2>3
<1> HIDE DEF L, P
<1>6. run' < L
  BY <1>1, <1>2, <1>3, <1>4, <1>5
<1>7. First'.gap \/ First'.at = 0 \/ First'.at > run'
  BY <1>1, <1>3, <1>4, <1>5
<1>8. BaseFits'
  BY <1>1, <1>2, <1>3 DEF BaseFits, L, P
<1> QED
  BY <1>6, <1>7, <1>8, <1>1, <1>3 DEF InStep, OutOfStep, L

LEMMA PollSweep24x ==
  StreamInv /\ Counted /\ SweepInv24x /\ Poll24x => SweepInv24x'
<1> SUFFICES ASSUME StreamInv, Counted, SweepInv24x, Poll24x PROVE SweepInv24x'
  OBVIOUS
<1> DEFINE r == First
<1>1. Polls24x(r) /\ TypeSweep
  BY PollGives24x DEF StreamInv, TypeInv
<1>2. r = Head(q)
  BY PollStream DEF Poll
<1>3. IF Stores(r)
      THEN /\ sweepbuf' = IF Base(r) = 0 THEN <<r.at>>
                          ELSE IF Base(r) < NumSamples THEN Append(sweepbuf, r.at)
                          ELSE sweepbuf
           /\ initialized' = TRUE
           /\ sweepbase' = Base(r) + ValidBytes(r)
           /\ pc' = IF Base(r) + ValidBytes(r) = NumSamples THEN "deliver" ELSE "loop"
      ELSE /\ sweepbase' = IF sweepbuf # NoBuffer THEN Base(r) ELSE sweepbase
           /\ pc' = "loop" /\ UNCHANGED <<sweepbuf, initialized>>
  BY <1>2 DEF Poll24x
<1>4. /\ ValidBytes(r) \in 1 .. FullBytes /\ FullBytes \in Nat /\ NumSamples \in Nat
      /\ sweepbase \in Nat /\ driver = "24x" /\ driver' = "24x"
  BY <1>1, Sizes24x DEF Polls24x
<1> HIDE DEF r
<1>5. CASE Base(r) = 0 /\ Stores(r)
  <2>1. BaseFits' /\ InStep' /\ OutOfStep'
    BY <1>1, <1>3, <1>4, <1>5, StartsOver
  <2> QED
    BY <1>3, <1>4, <1>5, <2>1 DEF SweepInv24x
<1>6. CASE Base(r) # 0 /\ Stores(r) /\ Base(r) < NumSamples
  <2>1. initialized /\ r.at # 0 /\ Base(r) = sweepbase
    BY <1>6 DEF Stores, Base
  <2>2. BaseFits' /\ InStep' /\ OutOfStep'
    BY <1>1, <1>3, <1>6, <2>1, Extends
  <2> QED
    BY <1>3, <1>6, <2>1, <2>2 DEF SweepInv24x
<1>7. CASE Base(r) # 0 /\ Stores(r) /\ ~(Base(r) < NumSamples)
  <2>1. initialized /\ r.at # 0 /\ Base(r) = sweepbase /\ sweepbase = NumSamples
    BY <1>4, <1>7 DEF Stores, Base
  <2>2. /\ sweepbuf' = sweepbuf /\ sweepbase' >= 1 /\ sweepbase >= NumSamples
        /\ pc' # "deliver" /\ initialized'
    BY <1>3, <1>4, <1>7, <2>1
  <2>3. BaseFits' /\ InStep' /\ OutOfStep'
    BY <1>1, <2>1, <2>2, Overruns
  <2> QED
    BY <2>2, <2>3 DEF SweepInv24x
<1>8. CASE ~Stores(r)
  <2>1. pc' = "loop" /\ sweepbuf' = sweepbuf /\ initialized' = initialized
    BY <1>3, <1>8
  <2>2. CASE ~initialized
    BY <2>1, <2>2 DEF SweepInv24x
  <2>3. CASE initialized
    <3>1. sweepbuf # NoBuffer /\ sweepbase >= 1
      BY <1>1, <2>3 DEF Polls24x, BaseFits
    <3>2. Base(r) # 0 /\ ~(Base(r) <= NumSamples)
      BY <1>4, <1>8, <2>3, <3>1 DEF Stores, Base
    <3>3. r.at # 0 /\ Base(r) = sweepbase /\ sweepbase >= NumSamples /\ sweepbase' = sweepbase
      BY <1>3, <1>4, <1>8, <3>1, <3>2 DEF Base
    <3>4. BaseFits' /\ InStep' /\ OutOfStep'
      BY <1>1, <2>1, <2>3, <3>1, <3>3, Overruns
    <3> QED
      BY <2>1, <3>4 DEF SweepInv24x
  <2> QED
    BY <2>2, <2>3
<1> QED
  BY <1>5, <1>6, <1>7, <1>8

LEMMA NextSweep24x ==
  StreamInv /\ Counted /\ SweepInv24x /\ [Next]_vars => SweepInv24x'
<1> SUFFICES ASSUME StreamInv, Counted, SweepInv24x, [Next]_vars PROVE SweepInv24x'
  OBVIOUS
<1>1. CASE Still
  <2>1. CASE driver # "24x"
    BY <1>1, <2>1 DEF Still, SweepInv24x
  <2>2. CASE driver = "24x"
    <3>1. /\ UNCHANGED <<driver, sweepbuf, sweepbase, initialized, run>>
          /\ pc' = "deliver" => pc = "deliver"
          /\ Watched' => Watched /\ (First' = First \/ First'.gap)
      BY <1>1, <2>2 DEF Still, asmVars, Waking
    <3>2. BaseFits => BaseFits'
      BY <3>1 DEF BaseFits
    <3>3. InStep => InStep'
      BY <3>1 DEF InStep
    <3>4. OutOfStep => OutOfStep'
      BY <3>1 DEF OutOfStep
    <3> QED
      BY <3>1, <3>2, <3>3, <3>4 DEF SweepInv24x
  <2> QED
    BY <2>1, <2>2
<1>2. CASE SetPosition24x
  <2>1. pc' = "loop" /\ (initialized' = FALSE \/ UNCHANGED <<initialized, sweepbuf, dev>>)
        /\ UNCHANGED <<driver, q, buf, handles, sweepbase, run>> /\ pc = "position"
    BY <1>2 DEF SetPosition24x, threadVars
  <2>2. CASE initialized' = FALSE
    BY <2>1, <2>2 DEF SweepInv24x
  <2>3. CASE UNCHANGED <<initialized, sweepbuf, dev>>
    <3>1. (Watched' => Watched) /\ First' = First
      BY <2>1, <2>3 DEF Watched, First, Upcoming
    <3>2. BaseFits => BaseFits'
      BY <2>1, <2>3 DEF BaseFits
    <3>3. InStep => InStep'
      BY <2>1, <2>3, <3>1 DEF InStep
    <3>4. OutOfStep => OutOfStep'
      BY <2>1, <2>3, <3>1 DEF OutOfStep
    <3> QED
      BY <2>1, <2>3, <3>2, <3>3, <3>4 DEF SweepInv24x
  <2> QED
    BY <2>1, <2>2, <2>3
<1>3. CASE SetCalibrationGen1 \/ SetPositionU1 \/ PollGen1 \/ PollU1
  <2>1. driver # "24x" /\ UNCHANGED driver
    BY <1>3, PollFrame DEF SetCalibrationGen1, SetPositionU1, PollGen1, PollU1, Poll
  <2> QED
    BY <2>1 DEF SweepInv24x
<1>4. CASE Poll24x
  BY <1>4, PollSweep24x
<1> QED
  BY <1>1, <1>2, <1>3, <1>4, StillSteps DEF Poll

(***************************************************************************)
(* A sweep the 24x delivers with no report lost inside it holds every      *)
(* packet once and in its place, for every number and size of packets.     *)
(***************************************************************************)
THEOREM SweepsInOrder == Spec => []InOrder24x
<1> DEFINE I == StreamInv /\ Counted /\ SweepInv24x
<1>1. Init => I
  BY InitStream, InitCounted, InitSweep24x
<1>2. I /\ [Next]_vars => I'
  BY NextStream, NextCounted, NextSweep24x
<1>3. I => InOrder24x
  BY InOrder24xFollows
<1> QED
  BY <1>1, <1>2, <1>3, PTL DEF Spec

(***************************************************************************)
(* The Ubertooth.  Before a report f, Measured(f) frequencies of the turn  *)
(* w under way have been measured.  If that many samples were taken        *)
(* without a loss, the buffer holds them (all but the first one, which the *)
(* next turn writes over); if the sweeps before it were taken as well, the *)
(* newest ones in the cache are of the turns before w, in order.           *)
(***************************************************************************)
Measured(f) == IF f.at = 0 THEN NumFreqs ELSE f.at

UnderWay(f, w) ==
  w \in 0 .. Turns - 1 /\ f.turn = IF f.at = 0 THEN (w + 1) % Turns ELSE w

Holds(s, y, w) == \A k \in 2 .. y : s[k] = w

(* The i-th last sweep of the cache c is whole and comes before the next   *)
(* one, the last before turn w.                                            *)
Precedes(c, i, w) ==
  /\ c[Len(c) - i] \in 0 .. Turns - 1
  /\ (c[Len(c) - i] + 1) % Turns = IF i = 0 THEN w ELSE c[Len(c) - i + 1]

Span(i) == i * NumFreqs

(* Nothing was lost since the first sweep began ...                        *)
NeverLost(s, c, y, w) == Holds(s, y, w) /\ \A i \in 0 .. Len(c) - 1 : Precedes(c, i, w)

(* ... or for the last m samples.                                          *)
Taken(m, s, c, y, w) ==
  /\ m >= y - 1 => Holds(s, y, w)
  /\ \A i \in 0 .. Len(c) - 1 : m >= y + Span(i) + NumFreqs - 1 => Precedes(c, i, w)

(* What is known, before the report f, of the buffer s and the cache c     *)
(* after m samples taken without a loss; b: a sweep has begun.             *)
KnownWith(m, s, c, b, f, w) ==
  /\ UnderWay(f, w)
  /\ \/ b => NeverLost(s, c, Measured(f), w)
     \/ Taken(m, s, c, Measured(f), w)

WindowKnown ==
  driver = "u1" /\ Watched /\ sweepbuf # NoBuffer /\ ~First.gap
  => \E w : KnownWith(run * ReportSamples, sweepbuf, cache, initialized, First, w)

Primed ==
  driver = "u1" =>
    /\ cache # <<>> => initialized
    /\ pc \in {"open", "start", "calibrate", "position"} => ~initialized

SweepInvU1 == WindowKnown /\ Primed /\ PeakWindowWhole

LEMMA SpanFacts ==
  /\ \A i \in Nat : Span(i) \in Nat /\ Span(i + 1) = Span(i) + NumFreqs
  /\ \A i, j \in Nat : i <= j => Span(i) <= Span(j)
  /\ Span(0) = 0
<1>1. NumFreqs \in Nat
  BY UbertoothU1Assumption
<1>2. \A i \in Nat : Span(i) \in Nat /\ Span(i + 1) = Span(i) + NumFreqs
  BY <1>1 DEF Span
<1>3. ASSUME NEW i \in Nat, NEW j \in Nat, i <= j PROVE Span(i) <= Span(j)
  <2> DEFINE d == j - i
  <2>1. d \in Nat /\ j = i + d
    BY <1>3
  <2> HIDE DEF d
  <2> DEFINE a == i * NumFreqs
             b == d * NumFreqs
  <2>2. a \in Nat /\ b \in Nat /\ (i + d) * NumFreqs = a + b
    BY <1>1, <2>1
  <2>3. Span(j) = a + b /\ Span(i) = a
    BY <2>1, <2>2 DEF Span
  <2> HIDE DEF a, b
  <2> QED
    BY <2>2, <2>3
<1> QED
  BY <1>1, <1>2, <1>3 DEF Span

LEMMA Remainders ==
  ASSUME NEW b \in Nat \ {0}, NEW a \in 0 .. b - 1
  PROVE  /\ a % b = a /\ a \div b = 0
         /\ (a + b) % b = a /\ (a + b) \div b = 1
         /\ (2 * b) % b = 0 /\ b % b = 0 /\ b \div b = 1
OBVIOUS

(* Sample j of report r, counted from the first frequency of the turn.     *)
LEMMA SampleAt ==
  ASSUME NEW r, r.at \in 0 .. NumFreqs - 1, NEW w, UnderWay(r, w), NEW j \in 0 .. NumFreqs - 1
  PROVE  LET y == Measured(r)
         IN  IF y + j < NumFreqs THEN FreqOf(r, j) = y + j /\ TurnOf(r, j) = w
             ELSE FreqOf(r, j) = y + j - NumFreqs /\ TurnOf(r, j) = (w + 1) % Turns
<1> DEFINE N == NumFreqs
           T == Turns
           a == r.at
           t == r.turn
           y == Measured(r)
           u == (w + 1) % T
<1>1. N \in Nat \ {0} /\ T \in Nat \ {0} /\ w \in 0 .. T - 1 /\ a \in 0 .. N - 1
      /\ t = IF a = 0 THEN u ELSE w
  BY UbertoothU1Assumption DEF UnderWay
<1>2. FreqOf(r, j) = (a + j) % N /\ TurnOf(r, j) = (t + (a + j) \div N) % T
  BY DEF FreqOf, TurnOf
<1>3. y = IF a = 0 THEN N ELSE a
  BY DEF Measured
<1>4. u \in 0 .. T - 1 /\ u % T = u /\ w % T = w /\ w + 0 = w /\ u + 0 = u
  <2>1. w + 1 \in Int
    BY <1>1
  <2>2. u \in 0 .. T - 1
    BY <1>1, <2>1, RemainderRange
  <2> HIDE DEF u, T
  <2>3. u % T = u
    BY <1>1, <2>2, Remainders
  <2>4. w % T = w
    BY <1>1, Remainders
  <2> QED
    BY <1>1, <2>2, <2>3, <2>4
<1>5. CASE a + j < N
  <2>1. a + j \in 0 .. N - 1
    BY <1>1, <1>5
  <2>2. (a + j) % N = a + j /\ (a + j) \div N = 0
    BY <1>1, <2>1, Remainders
  <2>3. FreqOf(r, j) = a + j /\ TurnOf(r, j) = (t + 0) % T
    BY <1>2, <2>2
  <2>4. CASE a = 0
    BY <1>1, <1>3, <1>4, <2>3, <2>4
  <2>5. CASE a # 0
    BY <1>1, <1>3, <1>4, <1>5, <2>3, <2>5
  <2> QED
    BY <2>4, <2>5
<1>6. CASE a + j >= N
  <2> DEFINE d == a + j - N
  <2>1. d \in 0 .. N - 1 /\ a + j = d + N /\ a # 0
    BY <1>1, <1>6
  <2>2. (a + j) % N = d /\ (a + j) \div N = 1
    BY <1>1, <2>1, Remainders
  <2>3. FreqOf(r, j) = d /\ TurnOf(r, j) = (w + 1) % T
    BY <1>1, <1>2, <2>1, <2>2
  <2> QED
    BY <1>1, <1>3, <1>6, <2>1, <2>3
<1> QED
  BY <1>1, <1>5, <1>6

(* The buffer after the samples of r up to sample j.                       *)
LEMMA FilledAt ==
  ASSUME NEW r, r.at \in 0 .. NumFreqs - 1, NEW w, UnderWay(r, w), NEW j \in 0 .. NumFreqs - 1,
         NEW k \in 1 .. NumFreqs
  PROVE  LET y == Measured(r)
         IN  Filled(r, j)[k] = IF k <= y + j + 1 - NumFreqs THEN (w + 1) % Turns
                               ELSE IF y < k /\ k <= y + j + 1 THEN w
                               ELSE sweepbuf[k]
<1> DEFINE N == NumFreqs
           y == Measured(r)
           c == CHOOSE i \in 0 .. j : FreqOf(r, i) = k - 1
           u == (w + 1) % Turns
<1>1. N \in Nat \ {0} /\ y \in 1 .. N /\ j \in 0 .. N - 1 /\ k \in 1 .. N
  BY UbertoothU1Assumption DEF Measured
<1>2. \A i \in 0 .. j : IF y + i < N THEN FreqOf(r, i) = y + i /\ TurnOf(r, i) = w
                        ELSE FreqOf(r, i) = y + i - N /\ TurnOf(r, i) = u
  <2> SUFFICES ASSUME NEW i \in 0 .. j
               PROVE  IF y + i < N THEN FreqOf(r, i) = y + i /\ TurnOf(r, i) = w
                      ELSE FreqOf(r, i) = y + i - N /\ TurnOf(r, i) = u
    OBVIOUS
  <2>1. i \in 0 .. NumFreqs - 1
    BY <1>1
  <2> QED
    BY <2>1, SampleAt
<1>3. Filled(r, j)[k] = IF \E i \in 0 .. j : FreqOf(r, i) = k - 1 THEN TurnOf(r, c)
                        ELSE sweepbuf[k]
  BY DEF Filled
<1>4. (\E i \in 0 .. j : FreqOf(r, i) = k - 1) => c \in 0 .. j /\ FreqOf(r, c) = k - 1
  OBVIOUS
<1> HIDE DEF c, u, y, N
<1>5. CASE k <= y + j + 1 - N
  <2> DEFINE i == k - 1 + N - y
  <2>1. i \in 0 .. j /\ ~(y + i < N) /\ y + i - N = k - 1
    BY <1>1, <1>5
  <2> HIDE DEF i
  <2>2. FreqOf(r, i) = k - 1
    BY <1>2, <2>1
  <2>3. c \in 0 .. j /\ FreqOf(r, c) = k - 1
    BY <1>4, <2>1, <2>2
  <2>4. ~(y + c < N)
    <3> SUFFICES ASSUME y + c < N PROVE FALSE
      OBVIOUS
    <3>1. y + c = k - 1
      BY <1>2, <2>3
    <3> QED
      BY <1>1, <1>5, <2>3, <3>1
  <2>5. TurnOf(r, c) = u
    BY <1>2, <2>3, <2>4
  <2> QED
    BY <1>3, <1>5, <2>1, <2>2, <2>5 DEF u, y, N
<1>6. CASE ~(k <= y + j + 1 - N) /\ y < k /\ k <= y + j + 1
  <2> DEFINE i == k - 1 - y
  <2>1. i \in 0 .. j /\ y + i < N /\ y + i = k - 1
    BY <1>1, <1>6
  <2> HIDE DEF i
  <2>2. FreqOf(r, i) = k - 1
    BY <1>2, <2>1
  <2>3. c \in 0 .. j /\ FreqOf(r, c) = k - 1
    BY <1>4, <2>1, <2>2
  <2>4. y + c < N
    <3> SUFFICES ASSUME ~(y + c < N) PROVE FALSE
      OBVIOUS
    <3>1. y + c - N = k - 1
      BY <1>2, <2>3
    <3> QED
      BY <1>1, <1>6, <2>3, <3>1
  <2>5. TurnOf(r, c) = w
    BY <1>2, <2>3, <2>4
  <2> QED
    BY <1>3, <1>6, <2>1, <2>2, <2>5 DEF u, y, N
<1>7. CASE ~(k <= y + j + 1 - N) /\ ~(y < k /\ k <= y + j + 1)
  <2>1. ASSUME NEW i \in 0 .. j PROVE FreqOf(r, i) # k - 1
    <3>1. CASE y + i < N
      <4>1. FreqOf(r, i) = y + i
        BY <1>2, <3>1
      <4> QED
        BY <1>1, <1>7, <3>1, <4>1
    <3>2. CASE ~(y + i < N)
      <4>1. FreqOf(r, i) = y + i - N
        BY <1>2, <3>2
      <4> QED
        BY <1>1, <1>7, <3>2, <4>1
    <3> QED
      BY <3>1, <3>2
  <2> QED
    BY <1>3, <1>7, <2>1 DEF u, y, N
<1> QED
  BY <1>5, <1>6, <1>7

(* Where in a report a turn begins, if it does.                            *)
LEMMA TurnBegins ==
  ASSUME NEW r, r.at \in 0 .. NumFreqs - 1, NEW w, UnderWay(r, w)
  PROVE  IF Measured(r) + ReportSamples > NumFreqs
         THEN FirstFreq(r) = {NumFreqs - Measured(r)} ELSE FirstFreq(r) = {}
<1> DEFINE N == NumFreqs
           R == ReportSamples
           y == Measured(r)
<1>1. N \in Nat \ {0} /\ R \in 1 .. N /\ y \in 1 .. N
  BY UbertoothU1Assumption DEF Measured
<1>2. ASSUME NEW j \in 0 .. R - 1 PROVE FreqOf(r, j) = 0 <=> j = N - y
  <2>1. j \in 0 .. N - 1
    BY <1>1
  <2>2. IF y + j < N THEN FreqOf(r, j) = y + j ELSE FreqOf(r, j) = y + j - N
    BY <2>1, SampleAt
  <2> QED
    BY <1>1, <2>1, <2>2
<1>3. FirstFreq(r) = {j \in 0 .. R - 1 : j = N - y}
  BY <1>2 DEF FirstFreq
<1> HIDE DEF y, N, R
<1>4. CASE y + R > N
  <2>1. N - y \in 0 .. R - 1
    BY <1>1, <1>4
  <2> QED
    BY <1>3, <1>4, <2>1 DEF y, N, R
<1>5. CASE ~(y + R > N)
  <2>1. N - y \notin 0 .. R - 1
    BY <1>1, <1>5
  <2> QED
    BY <1>3, <1>5, <2>1 DEF y, N, R
<1> QED
  BY <1>4, <1>5

(* The report after r.                                                     *)
LEMMA NextUnderWay ==
  ASSUME NEW r, r.at \in 0 .. NumFreqs - 1, NEW w, UnderWay(r, w)
  PROVE  LET y == Measured(r)
             f == FollowingU1(r)
         IN  IF y + ReportSamples > NumFreqs
             THEN /\ UnderWay(f, (w + 1) % Turns) /\ Measured(f) = y + ReportSamples - NumFreqs
             ELSE UnderWay(f, w) /\ Measured(f) = y + ReportSamples
<1> DEFINE N == NumFreqs
           R == ReportSamples
           T == Turns
           y == Measured(r)
           f == FollowingU1(r)
           u == (w + 1) % T
<1>1. /\ N \in Nat \ {0} /\ R \in 1 .. N /\ y \in 1 .. N /\ T \in Nat \ {0}
      /\ w \in 0 .. T - 1
  BY UbertoothU1Assumption DEF Measured, UnderWay
<1>2. u \in 0 .. T - 1
  <2>1. w + 1 \in Int
    BY <1>1
  <2> QED
    BY <1>1, <2>1, RemainderRange
<1>3. f.at = FreqOf(r, R) /\ f.turn = TurnOf(r, R)
  BY DEF FollowingU1
<1>4. CASE R < N
  <2>1. R \in 0 .. N - 1
    BY <1>1, <1>4
  <2>2. IF y + R < N THEN f.at = y + R /\ f.turn = w
        ELSE f.at = y + R - N /\ f.turn = u
    BY <1>3, <2>1, SampleAt
  <2> HIDE DEF f, u, y, N, R, T
  <2>3. CASE y + R < N
    <3>1. f.at = y + R /\ f.turn = w /\ f.at # 0 /\ ~(y + R > N)
      BY <1>1, <2>2, <2>3
    <3> QED
      BY <1>1, <3>1 DEF UnderWay, Measured, f, u, y, N, R, T
  <2>4. CASE y + R = N
    <3>1. f.at = 0 /\ f.turn = u /\ ~(y + R > N)
      BY <1>1, <2>2, <2>4
    <3> QED
      BY <1>1, <2>4, <3>1 DEF UnderWay, Measured, f, u, y, N, R, T
  <2>5. CASE y + R > N
    <3>1. f.at = y + R - N /\ f.at # 0 /\ f.turn = u
      BY <1>1, <2>2, <2>5
    <3> QED
      BY <1>2, <2>5, <3>1 DEF UnderWay, Measured, f, u, y, N, R, T
  <2> QED
    BY <1>1, <2>3, <2>4, <2>5
<1>5. CASE R = N
  <2> DEFINE a == r.at
             t == r.turn
  <2>1. a \in 0 .. N - 1 /\ t = (IF a = 0 THEN u ELSE w) /\ y = (IF a = 0 THEN N ELSE a)
    BY DEF UnderWay, Measured
  <2>2. t \in 0 .. T - 1
    BY <1>1, <1>2, <2>1
  <2>3. (a + N) % N = a /\ (a + N) \div N = 1
    BY <1>1, <2>1, Remainders
  <2>4. f.at = a /\ f.turn = (t + 1) % T
    BY <1>3, <1>5, <2>3 DEF FreqOf, TurnOf
  <2>5. y + R > N /\ y + R - N = y
    BY <1>1, <1>5
  <2> HIDE DEF f, u, y, N, R, T, a, t
  <2>6. Measured(f) = y
    BY <2>1, <2>4 DEF Measured, N
  <2>7. CASE a = 0
    <3>1. f.turn = (u + 1) % T /\ f.at = 0
      BY <2>1, <2>4, <2>7
    <3>2. UnderWay(f, u)
      BY <1>2, <3>1 DEF UnderWay, T
    <3> QED
      BY <2>5, <2>6, <3>2 DEF f, u, y, N, R, T
  <2>8. CASE a # 0
    <3>1. f.turn = u /\ f.at # 0
      BY <2>1, <2>4, <2>8 DEF u
    <3>2. UnderWay(f, u)
      BY <1>2, <3>1 DEF UnderWay, T
    <3> QED
      BY <2>5, <2>6, <3>2 DEF f, u, y, N, R, T
  <2> QED
    BY <2>7, <2>8
<1> QED
  BY <1>1, <1>4, <1>5

(* Whatever report comes, some turn is under way.                          *)
LEMMA TurnExists ==
  ASSUME NEW r, r.at \in 0 .. NumFreqs - 1, r.turn \in 0 .. Turns - 1
  PROVE  \E w \in 0 .. Turns - 1 : UnderWay(r, w)
<1> DEFINE T == Turns
           t == r.turn
<1>1. T \in Nat \ {0} /\ t \in 0 .. T - 1
  BY UbertoothU1Assumption
<1> HIDE DEF T, t
<1>2. \E w \in 0 .. T - 1 : (w + 1) % T = t
  <2>1. CASE t = 0
    <3>1. T - 1 \in 0 .. T - 1 /\ ((T - 1) + 1) % T = 0
      <4>1. T % T = 0
        BY <1>1, Remainders
      <4>2. (T - 1) + 1 = T
        BY <1>1
      <4> QED
        BY <1>1, <4>1, <4>2
    <3> QED
      BY <2>1, <3>1
  <2>2. CASE t # 0
    <3>1. t - 1 \in 0 .. T - 1 /\ (t - 1) + 1 = t
      BY <1>1, <2>2
    <3>2. t % T = t
      BY <1>1, Remainders
    <3> QED
      BY <3>1, <3>2
  <2> QED
    BY <2>1, <2>2
<1>3. PICK w \in 0 .. T - 1 : (w + 1) % T = t
  BY <1>2
<1>4. CASE r.at = 0
  BY <1>3, <1>4 DEF UnderWay, T, t
<1>5. CASE r.at # 0
  BY <1>1, <1>5 DEF UnderWay, T, t
<1> QED
  BY <1>4, <1>5

(* The window after a sweep e was put into it, counted from its end.       *)
LEMMA WindowBack ==
  ASSUME NEW c \in Seq(-2 .. Turns - 1), NEW e \in -2 .. Turns - 1
  PROVE  LET all == Append(c, e)
             d   == IF Len(all) > AvgSamples THEN Tail(all) ELSE all
         IN  /\ Len(d) \in 1 .. Len(c) + 1
             /\ \A i \in 0 .. Len(d) - 1 : d[Len(d) - i] = IF i = 0 THEN e ELSE c[Len(c) - i + 1]
<1> DEFINE D == -2 .. Turns - 1
           all == Append(c, e)
           A == AvgSamples
           d == IF Len(all) > A THEN Tail(all) ELSE all
           n == Len(c)
<1>1. c \in Seq(D) /\ e \in D /\ A \in Nat \ {0} /\ n \in Nat
  BY UbertoothU1Assumption
<1> HIDE DEF D
<1>2. /\ all \in Seq(D) /\ Len(all) = n + 1
      /\ \A i \in 1 .. n + 1 : all[i] = IF i = n + 1 THEN e ELSE c[i]
  BY <1>1
<1> HIDE DEF all, n, A
<1>3. CASE Len(all) > A
  <2>1. d = Tail(all)
    BY <1>3
  <2>2. Len(d) = n /\ \A i \in 1 .. n : d[i] = all[i + 1]
    BY <1>1, <1>2, <2>1
  <2>3. n >= 1
    BY <1>1, <1>2, <1>3
  <2> HIDE DEF d
  <2>4. ASSUME NEW i \in 0 .. n - 1 PROVE d[n - i] = IF i = 0 THEN e ELSE c[n - i + 1]
    <3> DEFINE k == n - i
    <3>1. k \in 1 .. n /\ k + 1 \in 1 .. n + 1 /\ (k + 1 = n + 1 <=> i = 0)
      BY <1>1
    <3>2. k + 1 = n - i + 1
      BY <1>1
    <3> HIDE DEF k
    <3>3. d[k] = all[k + 1]
      BY <2>2, <3>1
    <3>4. all[k + 1] = IF k + 1 = n + 1 THEN e ELSE c[k + 1]
      BY <1>2, <3>1
    <3> QED
      BY <3>1, <3>2, <3>3, <3>4 DEF k
  <2> QED
    BY <1>1, <2>2, <2>3, <2>4 DEF d, all, n, A
<1>4. CASE ~(Len(all) > A)
  <2>1. d = all
    BY <1>4
  <2> HIDE DEF d
  <2>2. ASSUME NEW i \in 0 .. n PROVE d[(n + 1) - i] = IF i = 0 THEN e ELSE c[n - i + 1]
    <3> DEFINE k == (n + 1) - i
    <3>1. k \in 1 .. n + 1 /\ (k = n + 1 <=> i = 0) /\ k = n - i + 1
      BY <1>1
    <3> HIDE DEF k
    <3>2. all[k] = IF k = n + 1 THEN e ELSE c[k]
      BY <1>2, <3>1
    <3> QED
      BY <2>1, <3>1, <3>2 DEF k
  <2> QED
    BY <1>1, <1>2, <2>1, <2>2 DEF d, all, n, A
<1> QED
  BY <1>3, <1>4

(* The sweep that ends in a report is of the turn that ended, if the       *)
(* buffer held that turn before.                                           *)
LEMMA EndedTurn ==
  ASSUME NEW r, r.at \in 0 .. NumFreqs - 1, NEW w, UnderWay(r, w),
         Measured(r) + ReportSamples > NumFreqs, Holds(sweepbuf, Measured(r), w)
  PROVE  SweepTurn(Filled(r, NumFreqs - Measured(r))) = w
<1> DEFINE N == NumFreqs
           y == Measured(r)
           j == N - y
           s == Filled(r, j)
           u == (w + 1) % Turns
<1>1. N \in Nat \ {0, 1} /\ y \in 1 .. N /\ j \in 0 .. N - 1 /\ y + j = N
  BY UbertoothU1Assumption DEF Measured
<1>2. w # Unwritten
  BY DEF UnderWay, Unwritten
<1> HIDE DEF j
<1>3. \A k \in 1 .. N : s[k] = IF k <= y + j + 1 - N THEN u
                               ELSE IF y < k /\ k <= y + j + 1 THEN w ELSE sweepbuf[k]
  BY <1>1, FilledAt
<1> HIDE DEF s, u
<1>4. \A k \in 1 .. N : s[k] = IF k <= 1 THEN u ELSE IF y < k THEN w ELSE sweepbuf[k]
  BY <1>1, <1>3
<1>5. \A k \in 2 .. N : s[k] = w
  <2> SUFFICES ASSUME NEW k \in 2 .. N PROVE s[k] = w
    OBVIOUS
  <2>1. CASE y < k
    BY <1>1, <1>4, <2>1
  <2>2. CASE ~(y < k)
    <3>1. k \in 2 .. y
      BY <1>1, <2>2
    <3>2. sweepbuf[k] = w
      BY <3>1 DEF Holds
    <3> QED
      BY <1>1, <1>4, <2>2, <3>2
  <2> QED
    BY <2>1, <2>2
<1>6. s[1] = u /\ s[2] = w
  BY <1>1, <1>4, <1>5
<1>7. SweepTurn(s) = w
  BY <1>2, <1>5, <1>6 DEF SweepTurn, u
<1> QED
  BY <1>7 DEF s, j

(* A poll of the Ubertooth that takes the report r.                        *)
PollsU1(r) ==
  /\ driver = "u1" /\ driver' = "u1" /\ Watched /\ pc \notin {"position", "deliver"}
  /\ pc' \in {"deliver", "loop"}
  /\ r.at \in 0 .. NumFreqs - 1 /\ r.turn \in 0 .. Turns - 1
  /\ First'.gap \/ First' = FollowingU1(r)
  /\ run' = IF r.gap THEN 1 ELSE IF run < RunMax THEN run + 1 ELSE run
  /\ initialized \in BOOLEAN /\ cache \in Seq(-2 .. Turns - 1) /\ Len(cache) <= AvgSamples
  /\ IF sweepbuf = NoBuffer
     THEN pc' = "loop" /\ UNCHANGED <<sweepbuf, initialized, cache>>
     ELSE /\ sweepbuf \in [1 .. NumFreqs -> -1 .. Turns - 1]
          /\ sweepbuf' = Filled(r, ReportSamples - 1)
          /\ initialized' = (initialized \/ FirstFreq(r) # {})
          /\ cache' = Cached(r)
          /\ pc' = "deliver" => FirstFreq(r) # {} /\ Len(cache') = AvgSamples

LEMMA PollGivesU1 == StreamInv /\ PollU1 => PollsU1(First)
<1> SUFFICES ASSUME StreamInv, PollU1 PROVE PollsU1(First)
  OBVIOUS
<1> DEFINE r == First
<1>1. /\ UNCHANGED driver /\ Watched /\ r = Head(q) /\ Linked(driver, r, First')
      /\ run' = IF r.gap THEN 1 ELSE IF run < RunMax THEN run + 1 ELSE run
      /\ r \in Report
  BY PollStream DEF Poll
<1>2. driver = "u1" /\ pc = "recv"
  BY DEF PollU1, Received
<1> HIDE DEF r
<1>3. IF sweepbuf = NoBuffer
      THEN pc' = "loop" /\ UNCHANGED <<sweepbuf, initialized, cache>>
      ELSE /\ sweepbuf' = Filled(r, ReportSamples - 1)
           /\ initialized' = (initialized \/ FirstFreq(r) # {})
           /\ cache' = Cached(r)
           /\ pc' = IF FirstFreq(r) # {} /\ Len(cache') = AvgSamples
                    THEN "deliver" ELSE "loop"
  BY <1>1 DEF PollU1
<1>4. r.at \in 0 .. NumFreqs - 1 /\ r.turn \in 0 .. Turns - 1
  BY <1>1, <1>2 DEF Report, Places
<1>5. First'.gap \/ First' = FollowingU1(r)
  BY <1>1, <1>2 DEF Linked, Waking, Following
<1>6. /\ initialized \in BOOLEAN /\ cache \in Seq(-2 .. Turns - 1) /\ Len(cache) <= AvgSamples
      /\ sweepbuf = NoBuffer \/ sweepbuf \in [1 .. NumFreqs -> -1 .. Turns - 1]
  BY <1>2 DEF StreamInv, TypeInv, TypeSweep, TypeU1
<1>7. pc' \in {"deliver", "loop"} /\ pc \notin {"position", "deliver"}
  BY <1>2, <1>3
<1>8. IF sweepbuf = NoBuffer
      THEN pc' = "loop" /\ UNCHANGED <<sweepbuf, initialized, cache>>
      ELSE /\ sweepbuf \in [1 .. NumFreqs -> -1 .. Turns - 1]
           /\ sweepbuf' = Filled(r, ReportSamples - 1)
           /\ initialized' = (initialized \/ FirstFreq(r) # {})
           /\ cache' = Cached(r)
           /\ pc' = "deliver" => FirstFreq(r) # {} /\ Len(cache') = AvgSamples
  BY <1>3, <1>6
<1> QED
  BY <1>1, <1>2, <1>4, <1>5, <1>6, <1>7, <1>8 DEF PollsU1, r

(* No turn begins in the report ...                                        *)
LEMMA GoesOn ==
  ASSUME NEW r, PollsU1(r), sweepbuf # NoBuffer, NEW w, UnderWay(r, w),
         ~(Measured(r) + ReportSamples > NumFreqs)
  PROVE  /\ pc' = "loop" /\ UNCHANGED <<initialized, cache>>
         /\ Holds(sweepbuf, Measured(r), w)
            => Holds(sweepbuf', Measured(r) + ReportSamples, w)
<1> DEFINE N == NumFreqs
           R == ReportSamples
           y == Measured(r)
           j == R - 1
<1>1. r.at \in 0 .. NumFreqs - 1 /\ sweepbuf' = Filled(r, j)
  BY DEF PollsU1
<1>2. N \in Nat \ {0, 1} /\ R \in 1 .. N /\ y \in 1 .. N /\ j \in 0 .. N - 1 /\ y + R <= N
      /\ j + 1 = R
  BY <1>1, UbertoothU1Assumption DEF Measured
<1>3. FirstFreq(r) = {}
  BY <1>1, TurnBegins
<1>4. pc' = "loop" /\ UNCHANGED <<initialized, cache>>
  BY <1>3 DEF PollsU1, Cached
<1> HIDE DEF j
<1>5. \A k \in 1 .. N : sweepbuf'[k] = IF k <= y + j + 1 - N THEN (w + 1) % Turns
                                       ELSE IF y < k /\ k <= y + j + 1 THEN w
                                       ELSE sweepbuf[k]
  BY <1>1, <1>2, FilledAt
<1>6. ASSUME Holds(sweepbuf, y, w), NEW k \in 2 .. y + R PROVE sweepbuf'[k] = w
  <2>1. k \in 1 .. N /\ ~(k <= y + j + 1 - N) /\ k <= y + j + 1
    BY <1>2
  <2>2. sweepbuf'[k] = IF y < k THEN w ELSE sweepbuf[k]
    BY <1>5, <2>1
  <2>3. CASE y < k
    BY <2>2, <2>3
  <2>4. CASE ~(y < k)
    <3>1. k \in 2 .. y
      BY <1>2, <2>4
    <3>2. sweepbuf[k] = w
      BY <1>6, <3>1 DEF Holds
    <3> QED
      BY <2>2, <2>4, <3>2
  <2> QED
    BY <2>3, <2>4
<1> QED
  BY <1>4, <1>6 DEF Holds

(* ... or one does.                                                        *)
LEMMA TurnsOver ==
  ASSUME NEW r, PollsU1(r), sweepbuf # NoBuffer, NEW w, UnderWay(r, w),
         Measured(r) + ReportSamples > NumFreqs
  PROVE  LET u == (w + 1) % Turns
         IN  /\ initialized' = TRUE
             /\ Holds(sweepbuf', Measured(r) + ReportSamples - NumFreqs, u)
             /\ ~initialized => cache' = cache
             /\ initialized =>
                  /\ Len(cache') \in 1 .. Len(cache) + 1 /\ Len(cache') <= AvgSamples
                  /\ Holds(sweepbuf, Measured(r), w) => Precedes(cache', 0, u)
                  /\ \A i \in 1 .. Len(cache') - 1 :
                       Holds(sweepbuf, Measured(r), w) /\ Precedes(cache, i - 1, w)
                       => Precedes(cache', i, u)
<1> DEFINE N == NumFreqs
           R == ReportSamples
           y == Measured(r)
           j == R - 1
           u == (w + 1) % Turns
           H == Holds(sweepbuf, y, w)
           e == SweepTurn(Filled(r, N - y))
           n == Len(cache)
<1>1. r.at \in 0 .. NumFreqs - 1 /\ sweepbuf' = Filled(r, j) /\ w \in 0 .. Turns - 1
  BY DEF PollsU1, UnderWay
<1>2. N \in Nat \ {0, 1} /\ R \in 1 .. N /\ y \in 1 .. N /\ j \in 0 .. N - 1 /\ y + R > N
      /\ j + 1 = R
  BY <1>1, UbertoothU1Assumption DEF Measured
<1>3. FirstFreq(r) = {N - y}
  BY <1>1, TurnBegins
<1>4. (CHOOSE i \in FirstFreq(r) : TRUE) = N - y
  BY <1>3
<1>5. initialized' = TRUE /\ cache' = Appended(r, N - y)
  BY <1>3, <1>4 DEF PollsU1, Cached
<1>6. Holds(sweepbuf', y + R - N, u)
  <2> SUFFICES ASSUME NEW k \in 2 .. y + R - N PROVE sweepbuf'[k] = u
    BY DEF Holds
  <2> HIDE DEF j
  <2>1. k \in 1 .. N /\ k <= y + j + 1 - N
    BY <1>2
  <2> QED
    BY <1>1, <1>2, <2>1, FilledAt
<1>7. ~initialized => cache' = cache
  BY <1>5 DEF Appended
<1>8. ASSUME initialized
      PROVE  /\ Len(cache') \in 1 .. n + 1 /\ Len(cache') <= AvgSamples
             /\ H => Precedes(cache', 0, u)
             /\ \A i \in 1 .. Len(cache') - 1 :
                  H /\ Precedes(cache, i - 1, w) => Precedes(cache', i, u)
  <2>1. H => e = w
    BY <1>1, EndedTurn
  <2>2. e \in -2 .. Turns - 1
    <3>1. N - y \in Nat /\ r.at \in Nat /\ r.turn \in Nat
      <4>1. N - y \in Nat
        BY <1>2
      <4>2. r.at \in 0 .. NumFreqs - 1 /\ r.turn \in 0 .. Turns - 1
        BY DEF PollsU1
      <4> QED
        BY <4>1, <4>2
    <3> QED
      BY <3>1, FilledType, SweepTurnType DEF PollsU1
  <2>3. cache' = LET all == Append(cache, e)
                 IN  IF Len(all) > AvgSamples THEN Tail(all) ELSE all
    BY <1>5, <1>8 DEF Appended
  <2> HIDE DEF e
  <2>4. cache \in Seq(-2 .. Turns - 1) /\ n \in Nat /\ n <= AvgSamples
    <3>1. cache \in Seq(-2 .. Turns - 1) /\ Len(cache) <= AvgSamples
      BY DEF PollsU1
    <3> QED
      BY <3>1
  <2>5. Len(cache') <= AvgSamples
    BY <2>2, <2>3, <2>4, WindowType
  <2> DEFINE d == cache'
             l == Len(d)
  <2>6. l \in 1 .. n + 1 /\ \A i \in 0 .. l - 1 :
                              d[l - i] = IF i = 0 THEN e ELSE cache[n - i + 1]
    BY <2>2, <2>3, <2>4, WindowBack
  <2> HIDE DEF d, l
  <2>7. H => Precedes(d, 0, u)
    <3>1. d[l - 0] = e
      BY <2>6
    <3> QED
      BY <1>1, <2>1, <3>1 DEF Precedes, l
  <2>8. ASSUME NEW i \in 1 .. l - 1, H, Precedes(cache, i - 1, w) PROVE Precedes(d, i, u)
    <3> DEFINE h == i - 1
    <3>1. h \in 0 .. l - 1 /\ i \in 0 .. l - 1 /\ i # 0 /\ n - i + 1 = n - h /\ l - i + 1 = l - h
          /\ (h = 0 <=> i = 1)
      BY <2>4, <2>6
    <3>2. Precedes(cache, h, w)
      BY <2>8
    <3> HIDE DEF h
    <3>3. /\ cache[n - h] \in 0 .. Turns - 1
          /\ (cache[n - h] + 1) % Turns = IF h = 0 THEN w ELSE cache[n - h + 1]
      BY <3>2 DEF Precedes
    <3>4. d[l - i] = cache[n - h] /\ d[l - h] = IF h = 0 THEN e ELSE cache[n - h + 1]
      BY <2>6, <3>1
    <3>5. e = w
      BY <2>1, <2>8
    <3> QED
      BY <3>1, <3>3, <3>4, <3>5 DEF Precedes, l
  <2> QED
    BY <2>5, <2>6, <2>7, <2>8 DEF d, l
<1> QED
  BY <1>5, <1>6, <1>7, <1>8

(* What is known of the window before the report r, after m samples taken  *)
(* without a loss, is known after it and its samples.                      *)
LEMMA WindowMoves ==
  ASSUME NEW r, PollsU1(r), sweepbuf # NoBuffer, cache # <<>> => initialized,
         NEW m \in Nat, NEW p \in Nat, p <= m + ReportSamples,
         NEW w, KnownWith(m, sweepbuf, cache, initialized, r, w)
  PROVE  \E v : KnownWith(p, sweepbuf', cache', initialized', FollowingU1(r), v)
<1> DEFINE N == NumFreqs
           R == ReportSamples
           y == Measured(r)
           f == FollowingU1(r)
           z == Measured(f)
           u == (w + 1) % Turns
           n == Len(cache)
<1>1. r.at \in 0 .. NumFreqs - 1 /\ UnderWay(r, w)
  BY DEF PollsU1, KnownWith
<1>2. N \in Nat \ {0, 1} /\ R \in 1 .. N /\ y \in 1 .. N
  BY <1>1, UbertoothU1Assumption DEF Measured
<1>3. (initialized => NeverLost(sweepbuf, cache, y, w)) \/ Taken(m, sweepbuf, cache, y, w)
  BY DEF KnownWith
<1>4. IF y + R > N THEN UnderWay(f, u) /\ z = y + R - N ELSE UnderWay(f, w) /\ z = y + R
  BY <1>1, NextUnderWay
<1>5. n \in Nat /\ initialized \in BOOLEAN /\ (n = 0 <=> cache = <<>>)
  <2>1. cache \in Seq(-2 .. Turns - 1) /\ initialized \in BOOLEAN
    BY DEF PollsU1
  <2> QED
    BY <2>1
<1>6. CASE ~(y + R > N)
  <2>1. /\ UNCHANGED <<initialized, cache>>
        /\ Holds(sweepbuf, y, w) => Holds(sweepbuf', y + R, w)
    BY <1>1, <1>6, GoesOn
  <2>2. UnderWay(f, w) /\ z = y + R
    BY <1>4, <1>6
  <2>3. CASE initialized => NeverLost(sweepbuf, cache, y, w)
    <3>1. initialized' => NeverLost(sweepbuf', cache', z, w)
      BY <2>1, <2>2, <2>3 DEF NeverLost
    <3> QED
      BY <2>2, <3>1 DEF KnownWith
  <2>4. CASE Taken(m, sweepbuf, cache, y, w)
    <3>1. p >= z - 1 => Holds(sweepbuf', z, w)
      <4>1. p >= z - 1 => m >= y - 1
        BY <1>2, <2>2
      <4> QED
        BY <2>1, <2>2, <2>4, <4>1 DEF Taken
    <3>2. ASSUME NEW i \in 0 .. Len(cache') - 1, p >= z + Span(i) + N - 1
          PROVE  Precedes(cache', i, w)
      <4>1. i \in 0 .. n - 1 /\ cache' = cache
        BY <2>1
      <4>a. i \in Nat
        BY <1>5, <4>1
      <4>2. Span(i) \in Nat
        BY <4>a, SpanFacts
      <4>3. m >= y + Span(i) + N - 1
        BY <1>2, <2>2, <3>2, <4>2
      <4> QED
        BY <2>4, <4>1, <4>3 DEF Taken
    <3>3. Taken(p, sweepbuf', cache', z, w)
      BY <3>1, <3>2 DEF Taken
    <3> QED
      BY <2>2, <3>3 DEF KnownWith
  <2> QED
    BY <1>3, <2>3, <2>4
<1>7. CASE y + R > N
  <2>1. /\ initialized' = TRUE
        /\ Holds(sweepbuf', y + R - N, u)
        /\ ~initialized => cache' = cache
        /\ initialized =>
             /\ Len(cache') \in 1 .. n + 1 /\ Len(cache') <= AvgSamples
             /\ Holds(sweepbuf, y, w) => Precedes(cache', 0, u)
             /\ \A i \in 1 .. Len(cache') - 1 :
                  Holds(sweepbuf, y, w) /\ Precedes(cache, i - 1, w) => Precedes(cache', i, u)
    BY <1>1, <1>7, TurnsOver
  <2>2. UnderWay(f, u) /\ z = y + R - N
    BY <1>4, <1>7
  <2> HIDE DEF u
  <2>3. Holds(sweepbuf', z, u)
    BY <2>1, <2>2
  <2>4. CASE ~initialized
    <3>1. Len(cache') = 0
      BY <1>5, <2>1, <2>4
    <3>2. NeverLost(sweepbuf', cache', z, u)
      BY <2>3, <3>1 DEF NeverLost
    <3> QED
      BY <2>2, <3>2 DEF KnownWith
  <2>5. CASE initialized /\ NeverLost(sweepbuf, cache, y, w)
    <3>1. ASSUME NEW i \in 0 .. Len(cache') - 1 PROVE Precedes(cache', i, u)
      <4>1. CASE i = 0
        BY <2>1, <2>5, <4>1 DEF NeverLost
      <4>2. CASE i # 0
        <5> DEFINE h == i - 1
        <5>1. h \in 0 .. n - 1 /\ i \in 1 .. Len(cache') - 1
          BY <1>5, <2>1, <2>5, <4>2
        <5> HIDE DEF h
        <5>2. Precedes(cache, h, w)
          BY <2>5, <5>1 DEF NeverLost
        <5> QED
          BY <2>1, <2>5, <5>1, <5>2 DEF h, NeverLost
      <4> QED
        BY <4>1, <4>2
    <3>2. NeverLost(sweepbuf', cache', z, u)
      BY <2>3, <3>1 DEF NeverLost
    <3> QED
      BY <2>2, <3>2 DEF KnownWith
  <2>6. CASE initialized /\ Taken(m, sweepbuf, cache, y, w)
    <3>1. ASSUME NEW i \in 0 .. Len(cache') - 1, p >= z + Span(i) + N - 1
          PROVE  Precedes(cache', i, u)
      <4>a. i \in Nat
        BY <1>5, <2>1, <2>6
      <4>1. i \in Nat /\ Span(i) \in Nat
        BY <4>a, SpanFacts
      <4>2. Holds(sweepbuf, y, w)
        <5>1. m >= y - 1
          BY <1>2, <2>2, <3>1, <4>1
        <5> QED
          BY <2>6, <5>1 DEF Taken
      <4>3. CASE i = 0
        BY <2>1, <2>6, <4>2, <4>3
      <4>4. CASE i # 0
        <5> DEFINE h == i - 1
        <5>1. h \in 0 .. n - 1 /\ i \in 1 .. Len(cache') - 1 /\ h \in Nat /\ i = h + 1
          BY <1>5, <2>1, <2>6, <4>4
        <5> HIDE DEF h
        <5>2. Span(h) \in Nat /\ Span(i) = Span(h) + N
          BY <5>1, SpanFacts
        <5>3. m >= y + Span(h) + N - 1
          BY <1>2, <2>2, <3>1, <5>2
        <5>4. Precedes(cache, h, w)
          BY <2>6, <5>1, <5>3 DEF Taken
        <5> QED
          BY <2>1, <2>6, <4>2, <5>1, <5>4 DEF h
      <4> QED
        BY <4>3, <4>4
    <3>2. Taken(p, sweepbuf', cache', z, u)
      BY <2>3, <3>1 DEF Taken
    <3> QED
      BY <2>2, <3>2 DEF KnownWith
  <2> QED
    BY <1>3, <1>5, <2>4, <2>5, <2>6
<1> QED
  BY <1>6, <1>7

LEMMA NothingTaken ==
  ASSUME NEW r, r.at \in 0 .. NumFreqs - 1, r.turn \in 0 .. Turns - 1, NEW s, NEW c, NEW b,
         Len(c) \in Nat
  PROVE  \E w : KnownWith(0, s, c, b, r, w)
<1>1. PICK w \in 0 .. Turns - 1 : UnderWay(r, w)
  BY TurnExists
<1> DEFINE y == Measured(r)
<1>2. y \in 1 .. NumFreqs /\ NumFreqs \in Nat \ {0, 1}
  BY UbertoothU1Assumption DEF Measured
<1> HIDE DEF y
<1>3. Holds(s, y, w) \/ ~(0 >= y - 1)
  <2>1. CASE y = 1
    BY <2>1 DEF Holds
  <2>2. CASE y # 1
    BY <1>2, <2>2
  <2> QED
    BY <2>1, <2>2
<1>4. ASSUME NEW i \in 0 .. Len(c) - 1 PROVE ~(0 >= y + Span(i) + NumFreqs - 1)
  <2>1. i \in Nat
    OBVIOUS
  <2>2. Span(i) \in Nat
    BY <2>1, SpanFacts
  <2> QED
    BY <1>2, <2>2
<1>5. Taken(0, s, c, y, w)
  BY <1>3, <1>4 DEF Taken
<1> QED
  BY <1>1, <1>5 DEF KnownWith, y

LEMMA Products ==
  ASSUME NEW a \in Nat, NEW b \in Nat, b <= a + 1
  PROVE  /\ a * ReportSamples \in Nat /\ b * ReportSamples \in Nat
         /\ b * ReportSamples <= a * ReportSamples + ReportSamples
<1> DEFINE R == ReportSamples
<1>1. R \in Nat
  BY UbertoothU1Assumption
<1> HIDE DEF R
<1>2. a * R \in Nat /\ b * R \in Nat
  BY <1>1
<1> DEFINE d == a + 1 - b
<1>3. d \in Nat /\ a + 1 = b + d
  OBVIOUS
<1> HIDE DEF d
<1>4. d * R \in Nat
  BY <1>1, <1>3
<1>5. (a + 1) * R = a * R + R /\ (b + d) * R = b * R + d * R
  BY <1>1, <1>3
<1>6. a * R + R = b * R + d * R
  BY <1>3, <1>5
<1> DEFINE x == a * R
           y == b * R
           z == d * R
<1>7. x \in Nat /\ y \in Nat /\ z \in Nat /\ x + R = y + z
  BY <1>2, <1>4, <1>6
<1> HIDE DEF x, y, z
<1>8. y <= x + R
  BY <1>1, <1>7
<1> QED
  BY <1>2, <1>8 DEF x, y, R

LEMMA PollWindow ==
  ASSUME StreamInv, Counted, SweepInvU1, PollU1, sweepbuf # NoBuffer
  PROVE  \E v : KnownWith(run' * ReportSamples, sweepbuf', cache', initialized',
                          FollowingU1(First), v)
<1> DEFINE r == First
<1>1. PollsU1(r)
  BY PollGivesU1
<1>2. /\ driver = "u1" /\ Watched /\ r.at \in 0 .. NumFreqs - 1 /\ r.turn \in 0 .. Turns - 1
      /\ run' = IF r.gap THEN 1 ELSE IF run < RunMax THEN run + 1 ELSE run
      /\ cache \in Seq(-2 .. Turns - 1)
  BY <1>1 DEF PollsU1
<1>3. cache # <<>> => initialized
  BY <1>2 DEF SweepInvU1, Primed
<1>4. run \in Nat /\ run' \in Nat /\ run' <= run + 1 /\ (r.gap => run' = 1)
  BY <1>2 DEF Counted
<1> DEFINE p == run' * ReportSamples
           m == run * ReportSamples
<1>5. m \in Nat /\ p \in Nat /\ p <= m + ReportSamples
  BY <1>4, Products
<1>6. r.gap => p <= 0 + ReportSamples
  BY <1>4, UbertoothU1Assumption
<1> HIDE DEF r, p, m
<1>7. CASE r.gap
  <2>1. Len(cache) \in Nat
    BY <1>2
  <2>2. PICK w : KnownWith(0, sweepbuf, cache, initialized, r, w)
    BY <1>2, <2>1, NothingTaken
  <2> DEFINE o == 0
  <2>3. o \in Nat /\ p <= o + ReportSamples /\ KnownWith(o, sweepbuf, cache, initialized, r, w)
    BY <1>6, <1>7, <2>2
  <2> HIDE DEF o
  <2>4. \E v : KnownWith(p, sweepbuf', cache', initialized', FollowingU1(r), v)
    BY <1>1, <1>3, <1>5, <2>3, WindowMoves
  <2> QED
    BY <2>4 DEF p, r
<1>8. CASE ~r.gap
  <2>1. PICK w : KnownWith(m, sweepbuf, cache, initialized, r, w)
    BY <1>2, <1>8 DEF SweepInvU1, WindowKnown, m, r
  <2>2. \E v : KnownWith(p, sweepbuf', cache', initialized', FollowingU1(r), v)
    BY <1>1, <1>3, <1>5, <2>1, WindowMoves
  <2> QED
    BY <2>2 DEF p, r
<1> QED
  BY <1>7, <1>8

(* Enough samples, and the whole window is known.                          *)
LEMMA WholeWindow ==
  ASSUME StreamInv, Counted, SweepInvU1, PollU1, pc' = "deliver",
         run' * ReportSamples >= AvgSamples * NumFreqs + ReportSamples
  PROVE  /\ Len(cache') = AvgSamples
         /\ \A i \in 0 .. AvgSamples - 1 : cache'[AvgSamples - i] # Mixed
         /\ \A i \in 1 .. AvgSamples - 1 :
              (cache'[AvgSamples - i] + 1) % Turns = cache'[AvgSamples - i + 1]
<1> DEFINE r == First
           A == AvgSamples
           N == NumFreqs
           R == ReportSamples
           m == run' * R
           f == FollowingU1(r)
           y == Measured(f)
<1>1. PollsU1(r)
  BY PollGivesU1
<1>2. /\ sweepbuf # NoBuffer /\ FirstFreq(r) # {} /\ Len(cache') = A /\ cache' = Cached(r)
      /\ r.at \in 0 .. N - 1 /\ r.turn \in 0 .. Turns - 1 /\ driver = "u1"
      /\ initialized' = TRUE
  BY <1>1 DEF PollsU1
<1>3. A \in Nat \ {0} /\ N \in Nat \ {0, 1} /\ R \in 1 .. N
  BY UbertoothU1Assumption
<1>4. y <= R /\ y \in 1 .. N
  <2>1. PICK w \in 0 .. Turns - 1 : UnderWay(r, w)
    BY <1>2, TurnExists
  <2>2. Measured(r) \in 1 .. N
    BY <1>2, <1>3 DEF Measured
  <2>3. Measured(r) + R > N
    BY <1>2, <2>1, TurnBegins
  <2>4. y = Measured(r) + R - N
    BY <1>2, <2>1, <2>3, NextUnderWay
  <2> HIDE DEF y, N, R
  <2> QED
    BY <1>3, <2>2, <2>3, <2>4
<1>5. PICK v : KnownWith(m, sweepbuf', cache', TRUE, f, v)
  BY <1>2, PollWindow
<1>6. /\ Span(A) \in Nat /\ m >= Span(A) + R
      /\ \A i \in 0 .. A - 1 : Span(i) \in Nat /\ Span(i) + N <= Span(A)
  <2>1. Span(A) \in Nat /\ m >= Span(A) + R
    <3>1. m >= Span(A) + R
      BY DEF Span
    <3>2. Span(A) \in Nat
      BY <1>3, SpanFacts
    <3> QED
      BY <3>1, <3>2
  <2>2. ASSUME NEW i \in 0 .. A - 1 PROVE Span(i) \in Nat /\ Span(i) + N <= Span(A)
    <3> DEFINE j == i + 1
    <3>1. i \in Nat /\ j \in Nat /\ j <= A /\ A \in Nat
      BY <1>3
    <3> HIDE DEF j
    <3>2. Span(j) <= Span(A)
      BY <3>1, SpanFacts
    <3>3. Span(i) \in Nat /\ Span(j) = Span(i) + N
      BY <3>1, SpanFacts DEF j
    <3> QED
      BY <3>2, <3>3
  <2> QED
    BY <2>1, <2>2
<1> HIDE DEF m, y, f, r, A, N, R
<1>7. ASSUME NEW i \in 0 .. A - 1 PROVE Precedes(cache', i, v)
  <2>1. i \in 0 .. Len(cache') - 1
    BY <1>2
  <2>2. Span(i) \in Nat /\ Span(i) + N <= Span(A)
    BY <1>6
  <2>3. CASE NeverLost(sweepbuf', cache', y, v)
    BY <2>1, <2>3 DEF NeverLost
  <2>4. CASE Taken(m, sweepbuf', cache', y, v)
    <3>1. m >= y + Span(i) + N - 1
      <4>1. \A a \in Nat, b \in Nat : m >= b + R /\ a + N <= b => m >= y + a + N - 1
        <5>1. m \in Int
          <6>1. R \in Nat /\ run' \in Nat
            <7>1. run' \in Nat
              BY <1>1 DEF PollsU1, Counted
            <7> QED
              BY <1>3, <7>1
          <6> QED
            BY <6>1 DEF m, R
        <5> QED
          BY <1>3, <1>4, <5>1
      <4> QED
        BY <1>6, <2>2, <4>1
    <3> QED
      BY <2>1, <2>4, <3>1 DEF Taken, N
  <2> QED
    BY <1>5, <2>3, <2>4 DEF KnownWith, y
<1>8. \A i \in 0 .. A - 1 :
        /\ cache'[A - i] \in 0 .. Turns - 1
        /\ (cache'[A - i] + 1) % Turns = IF i = 0 THEN v ELSE cache'[A - i + 1]
  BY <1>2, <1>7 DEF Precedes
<1>9. \A i \in 0 .. A - 1 : cache'[A - i] # Mixed
  <2>1. Mixed \notin 0 .. Turns - 1
    BY DEF Mixed
  <2> QED
    BY <1>8, <2>1
<1>10. ASSUME NEW i \in 1 .. A - 1 PROVE (cache'[A - i] + 1) % Turns = cache'[A - i + 1]
  <2>1. i \in 0 .. A - 1 /\ i # 0
    OBVIOUS
  <2> QED
    BY <1>8, <2>1
<1> QED
  BY <1>2, <1>9, <1>10 DEF A

LEMMA PollSweepU1 == StreamInv /\ Counted /\ SweepInvU1 /\ PollU1 => SweepInvU1'
<1> SUFFICES ASSUME StreamInv, Counted, SweepInvU1, PollU1 PROVE SweepInvU1'
  OBVIOUS
<1> DEFINE r == First
<1>1. PollsU1(r)
  BY PollGivesU1
<1> HIDE DEF r
<1>2. WindowKnown'
  <2> SUFFICES ASSUME driver' = "u1", sweepbuf' # NoBuffer, ~First'.gap, Watched'
               PROVE  \E w : KnownWith(run' * ReportSamples, sweepbuf', cache', initialized',
                                       First', w)
    BY DEF WindowKnown
  <2>1. First' = FollowingU1(r) /\ sweepbuf # NoBuffer
    BY <1>1 DEF PollsU1
  <2> QED
    BY <2>1, PollWindow DEF r
<1>3. Primed'
  <2>1. pc' \notin {"open", "start", "calibrate", "position"}
    BY <1>1 DEF PollsU1
  <2>2. cache' # <<>> => initialized'
    <3>1. cache # <<>> => initialized
      BY <1>1 DEF PollsU1, SweepInvU1, Primed
    <3>2. CASE sweepbuf = NoBuffer
      BY <1>1, <3>1, <3>2 DEF PollsU1
    <3>3. CASE sweepbuf # NoBuffer /\ FirstFreq(r) = {}
      BY <1>1, <3>1, <3>3 DEF PollsU1, Cached
    <3>4. CASE sweepbuf # NoBuffer /\ FirstFreq(r) # {}
      BY <1>1, <3>4 DEF PollsU1
    <3> QED
      BY <3>2, <3>3, <3>4
  <2> QED
    BY <2>1, <2>2 DEF Primed
<1>4. PeakWindowWhole'
  <2> SUFFICES ASSUME pc' = "deliver",
                      run' * ReportSamples >= AvgSamples * NumFreqs + ReportSamples
               PROVE  /\ Len(cache') = AvgSamples
                      /\ \A i \in 1 .. AvgSamples : cache'[i] # Mixed
                      /\ \A i \in 2 .. AvgSamples : cache'[i] = (cache'[i - 1] + 1) % Turns
    BY DEF PeakWindowWhole
  <2> DEFINE A == AvgSamples
  <2>1. /\ Len(cache') = A
        /\ \A i \in 0 .. A - 1 : cache'[A - i] # Mixed
        /\ \A i \in 1 .. A - 1 : (cache'[A - i] + 1) % Turns = cache'[A - i + 1]
    BY WholeWindow
  <2>2. A \in Nat
    BY UbertoothU1Assumption
  <2> HIDE DEF A
  <2>3. ASSUME NEW i \in 1 .. A PROVE cache'[i] # Mixed
    <3> DEFINE k == A - i
    <3>1. k \in 0 .. A - 1 /\ A - k = i
      BY <2>2
    <3> HIDE DEF k
    <3> QED
      BY <2>1, <3>1
  <2>4. ASSUME NEW i \in 2 .. A PROVE cache'[i] = (cache'[i - 1] + 1) % Turns
    <3> DEFINE k == A - i + 1
    <3>1. k \in 1 .. A - 1 /\ A - k = i - 1 /\ A - k + 1 = i
      BY <2>2
    <3> HIDE DEF k
    <3> QED
      BY <2>1, <3>1
  <2> QED
    BY <2>1, <2>3, <2>4 DEF A
<1> QED
  BY <1>2, <1>3, <1>4 DEF SweepInvU1

LEMMA InitSweepU1 == Init => SweepInvU1
<1> SUFFICES ASSUME Init PROVE SweepInvU1
  OBVIOUS
<1>1. pc = "open" /\ cache = <<>> /\ initialized = FALSE
      /\ (driver = "u1" => sweepbuf = NoBuffer)
  BY DEF Init, Init24x, InitGen1, InitU1, CaptureInit
<1> QED
  BY <1>1 DEF SweepInvU1, WindowKnown, Primed, PeakWindowWhole

ReportFirst == driver = "u1" => First \in Report

LEMMA FirstReport == TypeInv => ReportFirst
<1> SUFFICES ASSUME TypeInv, driver = "u1" PROVE First \in Report
  BY DEF ReportFirst
<1>1. Datagram = Report
  BY DEF Datagram
<1>2. CASE q # <<>>
  <2>1. q \in Seq(Report)
    BY <1>1 DEF TypeInv, TypeQueue
  <2>2. q[1] \in Report
    BY <1>2, <2>1
  <2> QED
    BY <1>2, <2>2 DEF First
<1>3. CASE q = <<>>
  BY <1>3 DEF First, Upcoming, TypeInv, TypeReports
<1> QED
  BY <1>2, <1>3

LEMMA NextSweepU1 == StreamInv /\ Counted /\ SweepInvU1 /\ [Next]_vars => SweepInvU1'
<1> SUFFICES ASSUME StreamInv, Counted, SweepInvU1, [Next]_vars PROVE SweepInvU1'
  OBVIOUS
<1>1. CASE Still
  <2>1. CASE driver # "u1"
    BY <1>1, <2>1 DEF Still, SweepInvU1, WindowKnown, Primed, PeakWindowWhole
  <2>2. CASE driver = "u1"
    <3>1. /\ UNCHANGED <<driver, sweepbuf, cache, initialized, run>>
          /\ pc' = "deliver" => pc = "deliver"
          /\ pc' \in {"open", "start", "calibrate", "position"}
             => pc \in {"open", "start", "calibrate", "position"}
          /\ Watched' => Watched /\ (First' = First \/ First'.gap)
      BY <1>1, <2>2 DEF Still, asmVars, Waking
    <3>2. WindowKnown'
      <4> SUFFICES ASSUME driver' = "u1", Watched', sweepbuf' # NoBuffer, ~First'.gap
                   PROVE  \E w : KnownWith(run' * ReportSamples, sweepbuf', cache',
                                           initialized', First', w)
        BY DEF WindowKnown
      <4>1. First' = First /\ Watched
        BY <3>1
      <4>2. \E w : KnownWith(run * ReportSamples, sweepbuf, cache, initialized, First, w)
        BY <2>2, <3>1, <4>1 DEF SweepInvU1, WindowKnown
      <4> QED
        BY <3>1, <4>1, <4>2
    <3>3. Primed'
      BY <3>1 DEF SweepInvU1, Primed
    <3>4. PeakWindowWhole'
      BY <3>1 DEF SweepInvU1, PeakWindowWhole
    <3> QED
      BY <3>2, <3>3, <3>4 DEF SweepInvU1
  <2> QED
    BY <2>1, <2>2
<1>2. CASE SetPositionU1
  <2>1. /\ driver = "u1" /\ driver' = "u1" /\ pc = "position" /\ pc' = "loop"
        /\ UNCHANGED <<initialized, cache>>
    BY <1>2 DEF SetPositionU1
  <2>2. ~initialized
    BY <2>1 DEF SweepInvU1, Primed
  <2>3. First' \in Report'
    <3>1. TypeInv'
      BY NextType DEF StreamInv
    <3>2. ReportFirst'
      BY <3>1, FirstReport, PTL
    <3> QED
      BY <2>1, <3>2 DEF ReportFirst
  <2>4. First'.at \in 0 .. NumFreqs - 1 /\ First'.turn \in 0 .. Turns - 1
    BY <2>1, <2>3 DEF Report, Places
  <2>5. WindowKnown'
    <3> DEFINE f == First'
    <3>1. f.at \in 0 .. NumFreqs - 1 /\ f.turn \in 0 .. Turns - 1
      BY <2>4
    <3> HIDE DEF f
    <3>2. PICK w \in 0 .. Turns - 1 : UnderWay(f, w)
      BY <3>1, TurnExists
    <3>3. KnownWith(run' * ReportSamples, sweepbuf', cache', initialized', f, w)
      BY <2>1, <2>2, <3>2 DEF KnownWith
    <3> QED
      BY <3>3 DEF WindowKnown, f
  <2>6. Primed' /\ PeakWindowWhole'
    BY <2>1 DEF SweepInvU1, Primed, PeakWindowWhole
  <2> QED
    BY <2>5, <2>6 DEF SweepInvU1
<1>3. CASE SetCalibrationGen1 \/ SetPosition24x \/ Poll24x \/ PollGen1
  <2>1. driver # "u1" /\ UNCHANGED driver
    BY <1>3, PollFrame DEF SetCalibrationGen1, SetPosition24x, PollGen1, Poll24x, Poll
  <2> QED
    BY <2>1 DEF SweepInvU1, WindowKnown, Primed, PeakWindowWhole
<1>4. CASE PollU1
  BY <1>4, PollSweepU1
<1> QED
  BY <1>1, <1>2, <1>3, <1>4, StillSteps DEF Poll

(***************************************************************************)
(* The peak an Ubertooth hands out is that of whole sweeps that follow one *)
(* another, for every number of frequencies, samples in a report and       *)
(* sweeps in the window, if no report was lost while they were measured.   *)
(***************************************************************************)
THEOREM PeakIsOfWholeSweeps == Spec => []PeakWindowWhole
<1> DEFINE I == StreamInv /\ Counted /\ SweepInvU1
<1>1. Init => I
  BY InitStream, InitCounted, InitSweepU1
<1>2. I /\ [Next]_vars => I'
  BY NextStream, NextCounted, NextSweepU1
<1>3. I => PeakWindowWhole
  BY DEF SweepInvU1
<1> QED
  BY <1>1, <1>2, <1>3, PTL DEF Spec

-----------------------------------------------------------------------------
(***************************************************************************)
(* What the gen1 thread put back stays in its buffer, and the flag up,     *)
(* until the step that sends it: no later report is read over it, whatever *)
(* the main thread, the device and the user do in between.                 *)
(***************************************************************************)
THEOREM GenerationOneRequeues == Spec => RequeuedIsSent
<1> DEFINE Kept == error' /\ buf' = buf
           Sent == ~error' /\ q' = Append(q, buf)
           A == driver = "gen1" /\ error => Kept \/ Sent
<1>1. TypeInv /\ [Next]_vars => [A]_vars
  <2> SUFFICES ASSUME TypeInv, Next, driver = "gen1", error PROVE Kept \/ Sent
    OBVIOUS
  <2>1. CASE Thread
    <3>1. ThreadMoves /\ thr # "transfer" /\ error = TRUE
      BY <2>1, ThreadSteps DEF TypeInv, Buffered, TypeThread
    <3> QED
      BY <3>1 DEF ThreadMoves, Queues, PutsBack, Stops, Forgets, Begins, Retries, ReadsNext,
         Idles, Despairs, Wakes
  <2>2. CASE MainStep \/ GtkDropsDevice \/ StateConfiguring
    BY <2>2, MainFrame DEF threadVars
  <2>3. CASE Command
    <3>1. pc = "open" => ~error
      BY DEF TypeInv, Buffered
    <3>2. UNCHANGED <<error, buf>>
      BY <2>3, <3>1 DEF Command, OpenDevice, SetCalibration24x, SetCalibrationGen1,
         SetCalibrationU1, SetPosition24x, SetPositionU1, threadVars
    <3> QED
      BY <3>2
  <2>4. CASE Poll
    BY <2>4, PollFrame DEF threadVars
  <2>5. CASE Environment
    BY <2>5, EnvironmentFrame DEF threadVars
  <2> QED
    BY <2>1, <2>2, <2>3, <2>4, <2>5, NextSteps
<1> QED
  BY <1>1, InitType, NextType, PTL DEF Spec, RequeuedIsSent
=============================================================================
