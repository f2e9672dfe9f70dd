-------------------------- MODULE DbxCaptureProofs --------------------------
(***************************************************************************)
(* Proofs about the capture of DbxCapture, for every number of reports in  *)
(* a sweep, every socket and both kinds of front end: the handles outlive  *)
(* the service thread's use of them, and sweeps are assembled in order.    *)
(***************************************************************************)
EXTENDS DbxCapture, DataLemmas

(***************************************************************************)
(* Types.                                                                  *)
(***************************************************************************)

(* Between its select and its send the thread is alone in filling the      *)
(* socket: what select saw is still true.                                  *)
RoomToSend == thr \in {"check", "transfer", "send"} => Len(q) < QMax

(* What it sends is what the transfer has just put into the buffer.        *)
ReportToSend == thr = "send" => buf \in Report

TypeInv == TypeOK /\ RoomToSend /\ ReportToSend

(* A report is one of the two configurations'.                             *)
LEMMA ReportForms ==
  Report = [cfg : {"default"}, idx : 0 .. DefaultReports - 1]
             \cup [cfg : {"set"}, idx : 0 .. SetReports - 1]
<1>1. {[cfg : {c}, idx : 0 .. Reports(c) - 1] : c \in {"default", "set"}}
        = {[cfg : {"default"}, idx : 0 .. Reports("default") - 1],
           [cfg : {"set"}, idx : 0 .. Reports("set") - 1]}
  OBVIOUS
<1>2. Reports("default") = DefaultReports /\ Reports("set") = SetReports
  BY DEF Reports
<1> QED
  BY <1>1, <1>2 DEF Report

LEMMA FollowingIsReport == ASSUME NEW r \in Report PROVE Following(r) \in Report
<1>1. CASE r \in [cfg : {"default"}, idx : 0 .. DefaultReports - 1]
  BY <1>1, ReportForms, ReportsAssumption DEF Following, Reports
<1>2. CASE r \in [cfg : {"set"}, idx : 0 .. SetReports - 1]
  BY <1>2, ReportForms, ReportsAssumption DEF Following, Reports
<1> QED
  BY <1>1, <1>2, ReportForms

LEMMA InitTypes == Init => TypeInv
<1> SUFFICES ASSUME Init PROVE TypeInv
  OBVIOUS
<1>1. dev \in [mode : {"live", "quiet", "gone"}, next : Report]
  <2>1. PICK i \in 0 .. DefaultReports - 1 :
          dev = [mode |-> "live", next |-> [cfg |-> "default", idx |-> i]]
    BY DEF Init
  <2>2. [cfg |-> "default", idx |-> i] \in Report
    BY ReportForms
  <2> QED
    BY <2>1, <2>2
<1>2. q \in Seq(Report) /\ Len(q) <= QMax
  BY QMaxAssumption DEF Init
<1>3. {alive, handles, ready, late, error, configured, initialized} \subseteq BOOLEAN
  BY DEF Init
<1>4. sweepbase \in 0 .. SetReports
  BY ReportsAssumption DEF Init
<1> QED
  BY <1>1, <1>2, <1>3, <1>4 DEF Init, TypeInv, TypeOK, RoomToSend, ReportToSend

(* What a close, by any of its callers, does to the types.                 *)
LEMMA ReleaseTypes ==
  ASSUME TypeInv, Release
  PROVE  q' \in Seq(Report) /\ Len(q') = 0 /\ handles' \in BOOLEAN
<1>1. <<>> \in Seq(Report) /\ Len(<<>>) = 0
  OBVIOUS
<1>2. q' = <<>> /\ handles' = FALSE
  BY DEF Release
<1> QED
  BY <1>1, <1>2

(* What getpollfd leaves of the socket and the handle.                     *)
GetPollFdTypes ==
  /\ q' \in Seq(Report) /\ Len(q') <= QMax /\ Len(q') <= Len(q)
  /\ handles' \in BOOLEAN

LEMMA GetPollFdIsTyped == ASSUME TypeInv, GetPollFd PROVE GetPollFdTypes
<1>1. Len(q) \in Nat /\ handles \in BOOLEAN /\ q \in Seq(Report) /\ Len(q) <= QMax
  BY DEF TypeInv, TypeOK
<1>2. CASE Release
  BY <1>1, <1>2, ReleaseTypes, QMaxAssumption DEF GetPollFdTypes
<1>3. CASE UNCHANGED <<handles, q>>
  BY <1>1, <1>3 DEF GetPollFdTypes
<1> QED
  BY <1>2, <1>3 DEF GetPollFd

LEMMA TakeTypes ==
  ASSUME TypeInv, q # <<>>, q' = Tail(q)
  PROVE  q' \in Seq(Report) /\ Len(q') <= QMax /\ Len(q') = Len(q) - 1 /\ Head(q) \in Report
BY QMaxAssumption DEF TypeInv, TypeOK

LEMMA PollReportTypes == TypeInv /\ PollReport => TypeInv'
<1> SUFFICES ASSUME TypeInv, PollReport PROVE TypeInv'
  OBVIOUS
<1>1. q' \in Seq(Report) /\ Len(q') <= QMax /\ Len(q') = Len(q) - 1 /\ Head(q) \in Report
  BY TakeTypes DEF PollReport
<1>2. /\ sweepbuf' = <<>> \/ sweepbuf' \in [1 .. SetReports -> Report \cup {NoReport}]
      /\ sweepbase' \in 0 .. SetReports /\ initialized' \in BOOLEAN
  <2>1. CASE Stores(Head(q))
    <3>1. /\ sweepbuf \in [1 .. SetReports -> Report \cup {NoReport}]
          /\ Base(Head(q)) \in 0 .. SetReports - 1
      BY <2>1, ReportsAssumption DEF Stores, Base, TypeInv, TypeOK
    <3> QED
      BY <2>1, <1>1, <3>1, ReportsAssumption DEF PollReport
  <2>2. CASE ~Stores(Head(q))
    BY <2>2 DEF PollReport, TypeInv, TypeOK
  <2> QED
    BY <2>1, <2>2
<1>3. Len(q) \in Nat
  BY DEF TypeInv, TypeOK
<1> QED
  BY <1>1, <1>2, <1>3, QMaxAssumption DEF PollReport, threadVars, TypeInv, TypeOK, RoomToSend, ReportToSend

LEMMA MainTypes == TypeInv /\ (Main \/ GtkDropsDevice) => TypeInv'
<1> USE DEF TypeInv, TypeOK, RoomToSend, ReportToSend
<1> SUFFICES ASSUME TypeInv, Main \/ GtkDropsDevice PROVE TypeInv'
  OBVIOUS
<1>1. CASE Open
  BY <1>1 DEF Open
<1>2. CASE StartSweep
  BY <1>2 DEF StartSweep, threadVars
<1>3. CASE SetCalibration
  BY <1>3 DEF SetCalibration, threadVars
<1>4. CASE SetPosition
  <2>1. dev' \in [mode : {"live", "quiet", "gone"}, next : Report]
    BY <1>4, ReportForms, ReportsAssumption DEF SetPosition
  <2> QED
    BY <1>4, <2>1 DEF SetPosition, threadVars
<1>5. CASE ServerSelects
  <2>1. GetPollFdTypes
    BY <1>5, GetPollFdIsTyped DEF ServerSelects
  <2>2. ready' \in BOOLEAN
    BY <1>5 DEF ServerSelects
  <2>3. {alive, handles, ready, late, error, configured, initialized}' \subseteq BOOLEAN
    BY <1>5, <2>1, <2>2 DEF ServerSelects, threadVars, GetPollFdTypes
  <2>4. q' \in Seq(Report) /\ Len(q') <= QMax /\ RoomToSend'
    BY <1>5, <2>1, QMaxAssumption DEF ServerSelects, threadVars, GetPollFdTypes
  <2> QED
    BY <1>5, <2>2, <2>3, <2>4 DEF ServerSelects, threadVars
<1>6. CASE ServerChecksState
  BY <1>6 DEF ServerChecksState, threadVars
<1>7. CASE ServerTestsFd
  <2>1. GetPollFdTypes
    BY <1>7, GetPollFdIsTyped DEF ServerTestsFd
  <2>2. pc' \in {"poll", "loop"}
    BY <1>7 DEF ServerTestsFd
  <2>3. {alive, handles, ready, late, error, configured, initialized}' \subseteq BOOLEAN
    BY <1>7, <2>1 DEF ServerTestsFd, threadVars, GetPollFdTypes
  <2>4. q' \in Seq(Report) /\ Len(q') <= QMax /\ RoomToSend'
    BY <1>7, <2>1, QMaxAssumption DEF ServerTestsFd, threadVars, GetPollFdTypes
  <2> QED
    BY <1>7, <2>2, <2>3, <2>4 DEF ServerTestsFd, threadVars
<1>8. CASE GtkSelects \/ GtkDropsDevice
  BY <1>8 DEF GtkSelects, GtkDropsDevice, threadVars
<1>9. CASE Close
  <2>1. CASE alive /\ alive' = FALSE /\ pc' = "join" /\ UNCHANGED <<handles, q>>
    BY <1>9, <2>1 DEF Close, threadVars
  <2>2. CASE ~alive /\ pc' = "stopped" /\ Release /\ UNCHANGED alive
    BY <1>9, <2>2, QMaxAssumption, ReleaseTypes DEF Close, threadVars
  <2> QED
    BY <1>9, <2>1, <2>2 DEF Close
<1>10. CASE Join
  BY <1>10, QMaxAssumption, ReleaseTypes DEF Join, threadVars
<1>11. CASE PollConfigured
  BY <1>11 DEF PollConfigured, threadVars
<1>12. CASE PollDead
  BY <1>12, QMaxAssumption, ReleaseTypes DEF PollDead, threadVars, AfterError
<1>13. CASE PollLate
  BY <1>13, TakeTypes, QMaxAssumption DEF PollLate, threadVars, AfterError
<1>14. CASE PollReport
  BY <1>14, PollReportTypes
<1> QED
  BY <1>1, <1>2, <1>3, <1>4, <1>5, <1>6, <1>7, <1>8, <1>9, <1>10, <1>11, <1>12, <1>13, <1>14
  DEF Main

LEMMA ThreadTypes == TypeInv /\ (Thread \/ ThreadSelectFails) => TypeInv'
<1> USE DEF TypeInv, TypeOK, RoomToSend, ReportToSend, mainVars
<1> SUFFICES ASSUME TypeInv, Thread \/ ThreadSelectFails PROVE TypeInv'
  OBVIOUS
<1>1. CASE ThreadSelects
  BY <1>1 DEF ThreadSelects
<1>2. CASE ThreadChecks
  BY <1>2 DEF ThreadChecks
<1>3. CASE ThreadTransfers
  <2>1. Following(dev.next) \in Report
    BY FollowingIsReport
  <2>2. dev' \in [mode : {"live", "quiet", "gone"}, next : Report]
    BY <1>3, <2>1 DEF ThreadTransfers
  <2>3. buf' \in Report \cup {NoReport}
    BY <1>3 DEF ThreadTransfers
  <2> QED
    BY <1>3, <2>2, <2>3 DEF ThreadTransfers
<1>4. CASE ThreadSends
  <2>1. CASE q' = Append(q, buf) /\ buf' = NoReport /\ thr' = "select" /\ error' = FALSE
             /\ UNCHANGED alive
    <3>1. buf \in Report
      BY <1>4 DEF ThreadSends
    <3>2. q' \in Seq(Report) /\ Len(q') <= QMax
      BY <1>4, <2>1, <3>1, QMaxAssumption DEF ThreadSends
    <3> QED
      BY <1>4, <2>1, <3>2 DEF ThreadSends
  <2>2. CASE Requeues /\ thr' = "select" /\ error' = TRUE /\ UNCHANGED <<q, buf, alive>>
    BY <1>4, <2>2 DEF ThreadSends
  <2>3. CASE thr' = "fail" /\ alive' = FALSE /\ UNCHANGED <<q, buf, error>>
    BY <1>4, <2>3 DEF ThreadSends
  <2> QED
    BY <1>4, <2>1, <2>2, <2>3 DEF ThreadSends
<1>5. CASE ThreadFails
  BY <1>5 DEF ThreadFails
<1>6. CASE ThreadSelectFails
  BY <1>6 DEF ThreadSelectFails
<1> QED
  BY <1>1, <1>2, <1>3, <1>4, <1>5, <1>6 DEF Thread

LEMMA EnvironmentTypes == TypeInv /\ (Environment \/ UNCHANGED vars) => TypeInv'
<1> USE DEF TypeInv, TypeOK, RoomToSend, ReportToSend, mainVars, threadVars
<1> SUFFICES ASSUME TypeInv, Environment \/ UNCHANGED vars PROVE TypeInv'
  OBVIOUS
<1>1. CASE DeviceSkips
  <2>1. dev' \in [mode : {"live", "quiet", "gone"}, next : Report]
    BY <1>1, FollowingIsReport DEF DeviceSkips
  <2> QED
    BY <1>1, <2>1 DEF DeviceSkips
<1>2. CASE DeviceChanges
  BY <1>2 DEF DeviceChanges
<1>3. CASE ThreeSecondsPass
  BY <1>3 DEF ThreeSecondsPass
<1>4. CASE UNCHANGED vars
  BY <1>4 DEF vars
<1> QED
  BY <1>1, <1>2, <1>3, <1>4 DEF Environment

LEMMA NextTypes == TypeInv /\ [Next]_vars => TypeInv'
BY MainTypes, ThreadTypes, EnvironmentTypes DEF Next

(***************************************************************************)
(* Every variable keeps its type; in particular the socket never holds     *)
(* more reports than it takes, and the next report never goes past the end *)
(* of the sweep buffer.                                                    *)
(***************************************************************************)
THEOREM TypeCorrect == Spec => []TypeOK
<1>1. TypeInv => TypeOK
  BY DEF TypeInv
<1> QED
  BY <1>1, InitTypes, NextTypes, PTL DEF Spec

-----------------------------------------------------------------------------
(***************************************************************************)
(* Who owns the handles.                                                   *)
(***************************************************************************)

(* Where the thread uses the handle and its end of the socket.             *)
Using == {"select", "check", "transfer", "send"}

(***************************************************************************)
(* Why the handles are safe.  The flag is the promise: while it is set     *)
(* nobody releases, and it is cleared either by the thread, which has then *)
(* stopped using them, or by close, which has then not released yet and    *)
(* waits for the thread in its join.                                       *)
(***************************************************************************)
FlagKeepsHandles == alive => handles

UserIsKnown == thr \in Using => handles /\ (alive \/ pc = "join")

JoinsAfterClearing == pc = "join" => ~alive

NotStartedYet == pc = "open" => thr = "none" /\ ~alive /\ state = "CLOSED"

OwnerInv ==
  FlagKeepsHandles /\ UserIsKnown /\ JoinsAfterClearing /\ NotStartedYet

LEMMA InitOwner == Init => OwnerInv
BY DEF Init, OwnerInv, FlagKeepsHandles, UserIsKnown, JoinsAfterClearing, NotStartedYet, Using

(* No step of the main thread takes the handles away too early.            *)
LEMMA MainOwner == OwnerInv /\ (Main \/ GtkDropsDevice) => OwnerInv'
<1> USE DEF OwnerInv, FlagKeepsHandles, UserIsKnown, JoinsAfterClearing, NotStartedYet, Using
<1> SUFFICES ASSUME OwnerInv, Main \/ GtkDropsDevice PROVE OwnerInv'
  OBVIOUS
<1>1. CASE Open
  BY <1>1 DEF Open
<1>2. CASE StartSweep
  BY <1>2 DEF StartSweep, threadVars
<1>3. CASE SetCalibration
  BY <1>3 DEF SetCalibration, threadVars
<1>4. CASE SetPosition
  BY <1>4 DEF SetPosition, threadVars
<1>5. CASE ServerSelects
  BY <1>5 DEF ServerSelects, threadVars, GetPollFd, Release
<1>6. CASE ServerChecksState
  BY <1>6 DEF ServerChecksState, threadVars
<1>7. CASE ServerTestsFd
  BY <1>7 DEF ServerTestsFd, threadVars, GetPollFd, Release
<1>8. CASE GtkSelects \/ GtkDropsDevice
  BY <1>8 DEF GtkSelects, GtkDropsDevice, threadVars
<1>9. CASE Close
  BY <1>9 DEF Close, threadVars, Release
<1>10. CASE Join
  BY <1>10 DEF Join, threadVars, Release
<1>11. CASE PollConfigured
  BY <1>11 DEF PollConfigured, threadVars
<1>12. CASE PollDead
  BY <1>12 DEF PollDead, threadVars, Release, AfterError
<1>13. CASE PollLate
  BY <1>13 DEF PollLate, threadVars, AfterError
<1>14. CASE PollReport
  BY <1>14 DEF PollReport, threadVars
<1> QED
  BY <1>1, <1>2, <1>3, <1>4, <1>5, <1>6, <1>7, <1>8, <1>9, <1>10, <1>11, <1>12, <1>13, <1>14
  DEF Main

(* The thread clears the flag only when it is done with the handles.       *)
LEMMA ThreadOwner == OwnerInv /\ (Thread \/ ThreadSelectFails) => OwnerInv'
<1> USE DEF OwnerInv, FlagKeepsHandles, UserIsKnown, JoinsAfterClearing, NotStartedYet, Using,
            mainVars
<1> SUFFICES ASSUME OwnerInv, Thread \/ ThreadSelectFails PROVE OwnerInv'
  OBVIOUS
<1>1. CASE ThreadSelects
  BY <1>1 DEF ThreadSelects
<1>2. CASE ThreadChecks
  BY <1>2 DEF ThreadChecks
<1>3. CASE ThreadTransfers
  BY <1>3 DEF ThreadTransfers
<1>4. CASE ThreadSends
  BY <1>4 DEF ThreadSends
<1>5. CASE ThreadFails
  BY <1>5 DEF ThreadFails
<1>6. CASE ThreadSelectFails
  BY <1>6 DEF ThreadSelectFails
<1> QED
  BY <1>1, <1>2, <1>3, <1>4, <1>5, <1>6 DEF Thread

LEMMA NextOwner == OwnerInv /\ [Next]_vars => OwnerInv'
<1> SUFFICES ASSUME OwnerInv, [Next]_vars PROVE OwnerInv'
  OBVIOUS
<1>1. CASE Main \/ GtkDropsDevice
  BY <1>1, MainOwner
<1>2. CASE Thread \/ ThreadSelectFails
  BY <1>2, ThreadOwner
<1>3. CASE Environment \/ UNCHANGED vars
  BY <1>3 DEF Environment, DeviceSkips, DeviceChanges, ThreeSecondsPass, vars, mainVars,
              threadVars, OwnerInv, FlagKeepsHandles, UserIsKnown, JoinsAfterClearing,
              NotStartedYet
<1> QED
  BY <1>1, <1>2, <1>3 DEF Next

(***************************************************************************)
(* wispydbx_usb_close, whoever calls it and from wherever, never takes the *)
(* USB handle or the sockets away from a thread still using them.          *)
(***************************************************************************)
THEOREM HandlesOutliveThread == Spec => []NoUseAfterClose
<1>1. OwnerInv => NoUseAfterClose
  BY DEF OwnerInv, UserIsKnown, Using, NoUseAfterClose
<1> QED
  BY <1>1, InitOwner, NextOwner, PTL DEF Spec

-----------------------------------------------------------------------------
(***************************************************************************)
(* The order in a sweep.  Packet 0 always goes to the first slot, so no    *)
(* other slot in use has one; SetReports consecutive packets without a 0   *)
(* in the middle can only begin with it.                                   *)
(***************************************************************************)
ZeroOnlyFirst ==
  initialized => sweepbuf # <<>> /\ \A k \in 2 .. sweepbase : sweepbuf[k].idx # 0

OrderInv == TypeInv /\ ZeroOnlyFirst

LEMMA PollReportOrder == OrderInv /\ PollReport => ZeroOnlyFirst'
<1> SUFFICES ASSUME OrderInv, PollReport PROVE ZeroOnlyFirst'
  OBVIOUS
<1>1. CASE Stores(Head(q))
  <2> DEFINE r == Head(q)
  <2>1. r \in Report /\ SetReports \in Nat \ {0} /\ sweepbase \in Nat
    BY ReportsAssumption DEF PollReport, OrderInv, TypeInv, TypeOK
  <2>2. Base(r) \in 0 .. SetReports - 1 /\ (Base(r) # 0 => r.idx # 0 /\ initialized)
    BY <1>1, <2>1 DEF Stores, Base
  <2>3. /\ sweepbase' = Base(r) + 1
        /\ sweepbuf' = [k \in 1 .. SetReports |->
                          IF k = Base(r) + 1 THEN r
                          ELSE IF k > Base(r) + 1 THEN NoReport ELSE sweepbuf[k]]
    BY <1>1 DEF PollReport
  <2> HIDE DEF r
  <2>4. ASSUME NEW k \in 2 .. sweepbase' PROVE sweepbuf'[k].idx # 0
    <3>1. k \in 1 .. SetReports /\ k <= Base(r) + 1 /\ Base(r) # 0
      BY <2>1, <2>2, <2>3
    <3>2. CASE k = Base(r) + 1
      BY <2>2, <2>3, <3>1, <3>2
    <3>3. CASE k # Base(r) + 1
      <4>1. Base(r) = sweepbase
        BY <3>1 DEF Base
      <4>2. k \in 2 .. sweepbase
        BY <2>1, <2>2, <3>1, <3>3, <4>1
      <4>3. sweepbuf'[k] = sweepbuf[k]
        BY <2>2, <2>3, <3>1, <3>3
      <4> QED
        BY <2>2, <3>1, <4>2, <4>3 DEF OrderInv, ZeroOnlyFirst
    <3> QED
      BY <3>2, <3>3
  <2>5. sweepbuf' # <<>>
    <3>1. 1 \in DOMAIN sweepbuf'
      BY <2>1, <2>3
    <3> QED
      BY <3>1
  <2> QED
    BY <2>4, <2>5 DEF ZeroOnlyFirst
<1>2. CASE ~Stores(Head(q))
  BY <1>2 DEF PollReport, OrderInv, ZeroOnlyFirst
<1> QED
  BY <1>1, <1>2

LEMMA NextOrder == OrderInv /\ [Next]_vars => OrderInv'
<1> SUFFICES ASSUME OrderInv, [Next]_vars PROVE ZeroOnlyFirst'
  BY NextTypes DEF OrderInv
<1>1. CASE PollReport
  BY <1>1, PollReportOrder
<1>2. CASE SetPosition
  BY <1>2 DEF SetPosition, OrderInv, ZeroOnlyFirst
<1>3. CASE UNCHANGED <<sweepbuf, initialized, sweepbase>>
  BY <1>3 DEF OrderInv, ZeroOnlyFirst
<1>4. PollReport \/ SetPosition \/ UNCHANGED <<sweepbuf, initialized, sweepbase>>
  <2>1. ASSUME Main \/ GtkDropsDevice, ~PollReport, ~SetPosition
        PROVE  UNCHANGED <<sweepbuf, initialized, sweepbase>>
    BY <2>1 DEF Main, Open, StartSweep, SetCalibration, ServerSelects, ServerChecksState,
       ServerTestsFd, GtkSelects, GtkDropsDevice, Close, Join, PollConfigured, PollDead, PollLate
  <2>2. ASSUME Thread \/ ThreadSelectFails
        PROVE  UNCHANGED <<sweepbuf, initialized, sweepbase>>
    BY <2>2 DEF Thread, ThreadSelects, ThreadSelectFails, ThreadChecks, ThreadTransfers,
       ThreadSends, ThreadFails, mainVars
  <2>3. ASSUME Environment \/ UNCHANGED vars
        PROVE  UNCHANGED <<sweepbuf, initialized, sweepbase>>
    BY <2>3 DEF Environment, DeviceSkips, DeviceChanges, ThreeSecondsPass, vars, mainVars
  <2> QED
    BY <2>1, <2>2, <2>3 DEF Next
<1> QED
  BY <1>1, <1>2, <1>3, <1>4

LEMMA OrderImplies == OrderInv => SetSweepInOrder
<1> SUFFICES ASSUME OrderInv, SweepIsComplete, NoReportLost,
                    \A k \in 1 .. SetReports : sweepbuf[k].cfg = "set",
                    sweepbuf[1].idx # 0
             PROVE  FALSE
  BY DEF SetSweepInOrder
<1> DEFINE i == sweepbuf[1].idx
           T == {k \in 1 .. SetReports : sweepbuf[k].idx # i + k - 1}
<1>1. SetReports \in Nat \ {0} /\ sweepbase = SetReports
  BY ReportsAssumption DEF SweepIsComplete
<1>2. ASSUME NEW k \in 1 .. SetReports PROVE sweepbuf[k].idx \in 0 .. SetReports - 1
  <2>1. sweepbuf[k] \in Report \cup {NoReport}
    BY DEF SweepIsComplete, OrderInv, TypeInv, TypeOK
  <2>2. sweepbuf[k] # NoReport
    BY DEF NoReport
  <2> QED
    BY <2>1, <2>2, ReportForms
<1>3. i \in Nat /\ i > 0
  BY <1>1, <1>2
<1>4. ASSUME NEW m \in T, \A k \in T : m <= k PROVE FALSE
  <2>1. m \in 1 .. SetReports /\ sweepbuf[m].idx # i + m - 1
    OBVIOUS
  <2>2. m # 1
    BY <1>3, <2>1
  <2>3. sweepbuf[m - 1].idx = i + (m - 1) - 1
    <3>1. m - 1 \in 1 .. SetReports /\ ~ (m <= m - 1)
      BY <1>1, <2>1, <2>2
    <3>2. m - 1 \notin T
      <4> HIDE DEF T
      <4> QED
        BY <1>4, <3>1
    <3> QED
      BY <3>1, <3>2
  <2>4. sweepbuf[m] = Following(sweepbuf[m - 1])
    <3>1. m - 1 \in 1 .. SetReports - 1 /\ (m - 1) + 1 = m
      BY <1>1, <2>1, <2>2
    <3> QED
      BY <3>1 DEF NoReportLost
  <2>5. sweepbuf[m].idx # 0
    BY <1>1, <2>1, <2>2 DEF OrderInv, ZeroOnlyFirst, SweepIsComplete
  <2>6. sweepbuf[m - 1] \in Report /\ sweepbuf[m - 1].cfg = "set"
    <3>1. m - 1 \in 1 .. SetReports
      BY <1>1, <2>1, <2>2
    <3>2. sweepbuf[m - 1] \in Report \cup {NoReport}
      BY <3>1 DEF SweepIsComplete, OrderInv, TypeInv, TypeOK
    <3> QED
      BY <3>1, <3>2 DEF NoReport
  <2>7. sweepbuf[m].idx = sweepbuf[m - 1].idx + 1
    BY <2>4, <2>5, <2>6, ReportForms DEF Following, Reports
  <2> QED
    BY <1>3, <2>1, <2>3, <2>7
<1>5. T = {}
  <2> HIDE DEF T
  <2>1. T \subseteq Nat
    BY <1>1 DEF T
  <2> QED
    BY <1>4, <2>1, LeastExists
<1>6. sweepbuf[SetReports].idx = i + SetReports - 1
  BY <1>1, <1>5
<1> QED
  BY <1>1, <1>2, <1>3, <1>6

(***************************************************************************)
(* A sweep of the profile set that lost no report starts with packet 0,    *)
(* whatever was queued before setposition.                                 *)
(***************************************************************************)
THEOREM SetSweepsInOrder == Spec => []SetSweepInOrder
<1>1. Init => OrderInv
  BY InitTypes DEF Init, OrderInv, ZeroOnlyFirst
<1> QED
  BY <1>1, NextOrder, OrderImplies, PTL DEF Spec
=============================================================================
