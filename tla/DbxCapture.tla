----------------------------- MODULE DbxCapture -----------------------------
(***************************************************************************)
(* A Wi-Spy DBx as wispy_hw_dbx.c drives it.  A service thread reads       *)
(* reports from the USB device and writes them to a datagram socket pair;  *)
(* the main thread polls the other end and assembles sweeps.  The two      *)
(* share usb_thread_alive and the state of the phy without a lock.         *)
(*                                                                         *)
(* Front ends drive the main thread in two ways.  The server, raw and      *)
(* curses ask getpollfd in every round; the GTK registry polls only when   *)
(* the socket is readable, and closes the device when it is told of an     *)
(* error or when the last graph lets go of it.                             *)
(*                                                                         *)
(* A report is [cfg, idx]: packet idx of a sweep of a configuration,       *)
(* "default" until setposition and "set" after it.  No profile is a        *)
(* multiple of the 59 or 61 samples of a report, so a sweep is counted in  *)
(* reports: it is full exactly at its last one.                            *)
(***************************************************************************)
EXTENDS Integers, Sequences

CONSTANTS
  DefaultReports,   \* reports per sweep before setposition
  SetReports,       \* reports per sweep of the profile set
  QMax,             \* reports the socket holds before select blocks
  Requeues          \* send may fail with ENOBUFS

ASSUME ReportsAssumption ==
  DefaultReports \in Nat \ {0} /\ SetReports \in Nat \ {0}
ASSUME QMaxAssumption == QMax \in Nat \ {0}
ASSUME RequeuesAssumption == Requeues \in BOOLEAN

VARIABLES
  pc,           \* where the main thread is
  frontend,     \* "server" or "gtk"
  thr,          \* where the service thread is
  alive,        \* usb_thread_alive
  state,        \* state of the phy
  handles,      \* devhdl and the socket pair are open
  q,            \* the reports in the socket
  ready,        \* select() found the socket readable
  late,         \* last_read is more than three seconds ago
  buf,          \* the thread's buffer
  error,        \* the thread's "requeued" flag
  configured,   \* the configure event was pushed
  sweepbuf,     \* the sweep buffer: a report or NoReport per slot, <<>> for NULL
  initialized,  \* sweepbuf_initialized
  sweepbase,    \* where the next report goes
  dev           \* the device: its mode and the report it sends next

mainVars   == <<pc, frontend, ready, configured, sweepbuf, initialized, sweepbase>>
threadVars == <<thr, buf, error>>
vars == <<pc, frontend, thr, alive, state, handles, q, ready, late, buf, error,
          configured, sweepbuf, initialized, sweepbase, dev>>

Reports(cfg) == IF cfg = "set" THEN SetReports ELSE DefaultReports

Report ==
  UNION {[cfg : {c}, idx : 0 .. Reports(c) - 1] : c \in {"default", "set"}}

NoReport == [cfg |-> "none"]

(* The report a device sends after r.                                      *)
Following(r) ==
  [r EXCEPT !.idx = IF @ + 1 < Reports(r.cfg) THEN @ + 1 ELSE 0]

Init ==
  /\ pc = "open" /\ frontend \in {"server", "gtk"} /\ ready = FALSE
  /\ thr = "none" /\ buf = NoReport /\ error = FALSE
  /\ alive = FALSE /\ state = "CLOSED" /\ handles = FALSE /\ q = <<>> /\ late = FALSE
  /\ configured = FALSE /\ sweepbuf = <<>> /\ initialized = FALSE /\ sweepbase = 0
  /\ \E i \in 0 .. DefaultReports - 1 :
       dev = [mode |-> "live", next |-> [cfg |-> "default", idx |-> i]]

-----------------------------------------------------------------------------
(* The main thread: opening and configuring.                               *)

(* wispydbx_usb_open up to pthread_create; the claim of the device fails   *)
(* or the thread is running.                                               *)
Open ==
  /\ pc = "open"
  /\ \/ pc' = "failed" /\ UNCHANGED <<handles, alive, thr>>
     \/ pc' = "start" /\ handles' = TRUE /\ alive' = TRUE /\ thr' = "select"
  /\ late' = FALSE
  /\ UNCHANGED <<frontend, ready, configured, sweepbuf, initialized, sweepbase,
                 state, q, buf, error, dev>>

(* The rest of wispydbx_usb_open: the start command.                       *)
StartSweep ==
  /\ pc = "start"
  /\ \/ pc' = "calibrate" /\ state' = "CONFIGURING"
     \/ pc' = "failed" /\ state' = "ERROR"
  /\ UNCHANGED <<frontend, ready, configured, sweepbuf, initialized, sweepbase,
                 threadVars, alive, handles, q, late, dev>>

SetCalibration ==
  /\ pc = "calibrate"
  /\ pc' = "position" /\ state' = "RUNNING"
  /\ UNCHANGED <<frontend, ready, configured, sweepbuf, initialized, sweepbase,
                 threadVars, alive, handles, q, late, dev>>

(* wispydbx_usb_setposition; no front end looks at what it returns.  A     *)
(* profile out of range leaves everything as it is.                        *)
SetPosition ==
  /\ pc = "position"
  /\ pc' = "loop"
  /\ \/ /\ dev.mode # "gone"
        /\ dev' = [dev EXCEPT !.next = [cfg |-> "set", idx |-> 0]]
        /\ configured' = FALSE
        /\ sweepbuf' = [k \in 1 .. SetReports |-> NoReport]
        /\ initialized' = FALSE
        /\ state' = state
     \/ /\ state' \in {state, "ERROR"}
        /\ UNCHANGED <<dev, configured, sweepbuf, initialized>>
  /\ UNCHANGED <<frontend, ready, sweepbase, threadVars, alive, handles, q, late>>

-----------------------------------------------------------------------------
(* The main thread: the loops of the front ends.                           *)

(* What wispydbx_usb_close takes away once the thread is not alive.        *)
Release == handles' = FALSE /\ q' = <<>>

(* wispydbx_usb_getpollfd closes the device of a dead thread.              *)
GetPollFdKeeps == UNCHANGED <<handles, q>>     \* mutant: it does not

GetPollFd == IF alive THEN UNCHANGED <<handles, q>> ELSE Release

(* A server round begins: wts_fdset and select.  The bit of descriptor -1  *)
(* is whatever lies before the set.                                        *)
ServerSelects ==
  /\ pc = "loop" /\ frontend = "server"
  /\ pc' = "check"
  /\ GetPollFd
  /\ ready' \in IF alive THEN {q # <<>>} ELSE BOOLEAN
  /\ UNCHANGED <<frontend, configured, sweepbuf, initialized, sweepbase,
                 threadVars, alive, state, late, dev>>

(* wts_poll looks at the state of the phy; an error ends the server.       *)
ServerChecksState ==
  /\ pc = "check"
  /\ pc' = IF state = "ERROR" THEN "stopped" ELSE "fd"
  /\ UNCHANGED <<frontend, ready, configured, sweepbuf, initialized, sweepbase,
                 threadVars, alive, state, handles, q, late, dev>>

ServerTestsFd ==
  /\ pc = "fd"
  /\ GetPollFd
  /\ pc' \in IF alive THEN {IF ready THEN "poll" ELSE "loop"} ELSE {"poll", "loop"}
  /\ ready' = FALSE
  /\ UNCHANGED <<frontend, configured, sweepbuf, initialized, sweepbase,
                 threadVars, alive, state, late, dev>>

(* gdk calls wdr_poll when the socket is readable.                         *)
GtkSelects ==
  /\ pc = "loop" /\ frontend = "gtk"
  /\ q # <<>>
  /\ pc' = "poll"
  /\ UNCHANGED <<frontend, ready, configured, sweepbuf, initialized, sweepbase,
                 threadVars, alive, state, handles, q, late, dev>>

(* The last reference to the device is dropped.                            *)
GtkDropsDevice ==
  /\ pc = "loop" /\ frontend = "gtk"
  /\ pc' = "close"
  /\ UNCHANGED <<frontend, ready, configured, sweepbuf, initialized, sweepbase,
                 threadVars, alive, state, handles, q, late, dev>>

(* After poll: on an error the server exits and the graphs let go of the   *)
(* device, which closes it.                                                *)
AfterError == pc' = IF frontend = "server" THEN "stopped" ELSE "close"

(* wispydbx_usb_close.                                                     *)
CloseUnjoined ==     \* mutant: the thread is not waited for
  /\ pc = "close"
  /\ pc' = "stopped" /\ alive' = FALSE /\ Release
  /\ UNCHANGED <<frontend, ready, configured, sweepbuf, initialized, sweepbase,
                 threadVars, state, late, dev>>

Close ==
  /\ pc = "close"
  /\ \/ /\ alive
        /\ alive' = FALSE /\ pc' = "join" /\ UNCHANGED <<handles, q>>
     \/ ~alive /\ pc' = "stopped" /\ Release /\ UNCHANGED alive
  /\ UNCHANGED <<frontend, ready, configured, sweepbuf, initialized, sweepbase,
                 threadVars, state, late, dev>>

(* ... and its pthread_join returns.                                       *)
Join ==
  /\ pc = "join" /\ thr = "exit"
  /\ pc' = "stopped" /\ Release
  /\ UNCHANGED <<frontend, ready, configured, sweepbuf, initialized, sweepbase,
                 threadVars, alive, state, late, dev>>

-----------------------------------------------------------------------------
(* The main thread: wispydbx_usb_poll, one action per return.              *)

(* "Push a configure event before anything else"                           *)
PollConfigured ==
  /\ pc = "poll" /\ ~configured
  /\ configured' = TRUE /\ pc' = "loop"
  /\ UNCHANGED <<frontend, ready, sweepbuf, initialized, sweepbase,
                 threadVars, alive, state, handles, q, late, dev>>

PollDead ==
  /\ pc = "poll" /\ configured /\ ~alive
  /\ state' = "ERROR" /\ Release /\ AfterError
  /\ UNCHANGED <<frontend, ready, configured, sweepbuf, initialized, sweepbase,
                 threadVars, alive, late, dev>>

(* A report was received, and the one before it more than three seconds ago*)
PollLate ==
  /\ pc = "poll" /\ configured /\ alive /\ q # <<>> /\ late
  /\ q' = Tail(q) /\ state' = "ERROR" /\ AfterError
  /\ UNCHANGED <<frontend, ready, configured, sweepbuf, initialized, sweepbase,
                 threadVars, alive, handles, late, dev>>

(* Where report r goes: packet 0 starts the buffer over, any other one     *)
(* follows the packet before it, whatever its own index.                   *)
BaseRunsOn(r) == sweepbase     \* mutant: packet 0 does not start over

Base(r) == IF r.idx = 0 THEN 0 ELSE sweepbase

(* Packets past the end are thrown out, and so are those that arrive       *)
(* before a base of 0 has initialized the buffer.                          *)
StoresPastEnd(r) ==     \* mutant: "bunk data" is not thrown out
  sweepbuf # <<>> /\ (Base(r) = 0 \/ initialized)

Stores(r) ==
  /\ sweepbuf # <<>>
  /\ Base(r) < SetReports
  /\ Base(r) = 0 \/ initialized

(* A report is taken; what an older sweep left behind it is never read.    *)
PollReport ==
  /\ pc = "poll" /\ configured /\ alive /\ q # <<>> /\ ~late
  /\ pc' = "loop"
  /\ q' = Tail(q)
  /\ IF Stores(Head(q))
     THEN /\ sweepbuf' = [k \in 1 .. SetReports |->
                            IF k = Base(Head(q)) + 1 THEN Head(q)
                            ELSE IF k > Base(Head(q)) + 1 THEN NoReport ELSE sweepbuf[k]]
          /\ initialized' = TRUE
          /\ sweepbase' = Base(Head(q)) + 1
     ELSE UNCHANGED <<sweepbuf, initialized, sweepbase>>
  /\ UNCHANGED <<frontend, ready, configured,
                 threadVars, alive, state, handles, late, dev>>

(* wispydbx_usb_poll returns SPECTOOL_POLL_SWEEPCOMPLETE.                  *)
SweepCompletes ==
  PollReport /\ Stores(Head(q)) /\ Base(Head(q)) + 1 = SetReports

Main ==
  \/ Open \/ StartSweep \/ SetCalibration \/ SetPosition
  \/ ServerSelects \/ ServerChecksState \/ ServerTestsFd \/ GtkSelects
  \/ Close \/ Join
  \/ PollConfigured \/ PollDead \/ PollLate \/ PollReport

-----------------------------------------------------------------------------
(* The service thread: wispydbx_usb_servicethread.  A server that has      *)
(* exited takes its thread along; a graph goes on without its device.      *)

ProcessRuns ==
  /\ frontend = "server" => pc \notin {"stopped", "failed"}
  /\ frontend = "gtk" => pc # "stopped" \/ thr # "exit"

(* select() returns when the socket is writable; it has no timeout.        *)
ThreadSelects ==
  /\ thr = "select" /\ ProcessRuns
  /\ Len(q) < QMax
  /\ thr' = "check"
  /\ UNCHANGED <<mainVars, alive, state, handles, q, late, buf, error, dev>>

(* select() fails, which it may do from the thread's first step on.        *)
ThreadSelectFails ==
  /\ thr = "select" /\ ProcessRuns
  /\ thr' = "fail" /\ alive' = FALSE
  /\ UNCHANGED <<mainVars, state, handles, q, late, buf, error, dev>>

(* The flag of the main thread, then "get new data only if we haven't      *)
(* requeued" and the phy is running.                                       *)
ThreadChecksStuck ==     \* mutant: the requeued flag is not cleared
  /\ thr = "check" /\ ProcessRuns
  /\ \/ ~alive /\ thr' = "exit" /\ state' = "ERROR"
     \/ alive /\ ~error /\ state = "RUNNING" /\ thr' = "transfer" /\ UNCHANGED state
     \/ alive /\ (error \/ state # "RUNNING") /\ thr' = "select" /\ UNCHANGED state
  /\ UNCHANGED <<mainVars, alive, handles, q, late, buf, error, dev>>

ThreadChecks ==
  /\ thr = "check" /\ ProcessRuns
  /\ \/ ~alive /\ thr' = "exit" /\ state' = "ERROR" /\ UNCHANGED error
     \/ /\ alive /\ ~error /\ state = "RUNNING"
        /\ thr' = "transfer" /\ UNCHANGED <<state, error>>
     \/ /\ alive /\ (error \/ state # "RUNNING")
        /\ thr' = "select" /\ error' = FALSE /\ UNCHANGED state
  /\ UNCHANGED <<mainVars, alive, handles, q, late, buf, dev>>

(* libusb_interrupt_transfer: a report, a timeout or an error.             *)
ThreadTransfers ==
  /\ thr = "transfer" /\ ProcessRuns
  /\ \/ /\ dev.mode = "live"
        /\ thr' = "send" /\ buf' = dev.next
        /\ dev' = [dev EXCEPT !.next = Following(@)]
        /\ UNCHANGED alive
     \/ dev.mode = "quiet" /\ thr' = "select" /\ UNCHANGED <<buf, dev, alive>>
     \/ dev.mode = "gone" /\ thr' = "fail" /\ alive' = FALSE /\ UNCHANGED <<buf, dev>>
  /\ UNCHANGED <<mainVars, state, handles, q, late, error>>

(* send: the report is queued, put back ("re-queue on enobufs") or the     *)
(* thread gives up.  A report queued is dead in the buffer, which the next *)
(* transfer clears.                                                        *)
ThreadSends ==
  /\ thr = "send" /\ ProcessRuns
  /\ \/ /\ q' = Append(q, buf) /\ buf' = NoReport
        /\ thr' = "select" /\ error' = FALSE /\ UNCHANGED alive
     \/ Requeues /\ thr' = "select" /\ error' = TRUE /\ UNCHANGED <<q, buf, alive>>
     \/ thr' = "fail" /\ alive' = FALSE /\ UNCHANGED <<q, buf, error>>
  /\ UNCHANGED <<mainVars, state, handles, late, dev>>

(* The thread cleared the flag; now it sets the state and exits.           *)
ThreadFailsSilently ==     \* mutant: the flag alone tells of the end
  /\ thr = "fail" /\ ProcessRuns
  /\ thr' = "exit"
  /\ UNCHANGED <<mainVars, alive, state, handles, q, late, buf, error, dev>>

ThreadFails ==
  /\ thr = "fail" /\ ProcessRuns
  /\ thr' = "exit" /\ state' = "ERROR"
  /\ UNCHANGED <<mainVars, alive, handles, q, late, buf, error, dev>>

Thread == ThreadSelects \/ ThreadChecks \/ ThreadTransfers \/ ThreadSends \/ ThreadFails

-----------------------------------------------------------------------------
(* The device and the clock.                                               *)

(* A report nobody reads in time is lost.                                  *)
DeviceSkips ==
  /\ dev.mode = "live" /\ pc # "open" /\ ProcessRuns
  /\ dev' = [dev EXCEPT !.next = Following(@)]
  /\ UNCHANGED <<mainVars, threadVars, alive, state, handles, q, late>>

(* The device falls silent, comes back, or is unplugged.                   *)
DeviceChanges ==
  /\ dev.mode # "gone" /\ ProcessRuns
  /\ \E m \in {"live", "quiet", "gone"} \ {dev.mode} : dev' = [dev EXCEPT !.mode = m]
  /\ UNCHANGED <<mainVars, threadVars, alive, state, handles, q, late>>

ThreeSecondsPass ==
  /\ ~late /\ pc # "open" /\ ProcessRuns
  /\ late' = TRUE
  /\ UNCHANGED <<mainVars, threadVars, alive, state, handles, q, dev>>

Environment == DeviceSkips \/ DeviceChanges \/ ThreeSecondsPass

Next == Main \/ GtkDropsDevice \/ Thread \/ ThreadSelectFails \/ Environment

Spec == Init /\ [][Next]_vars

(***************************************************************************)
(* The scheduler runs both threads, and three seconds of silence do pass.  *)
(* The device owes nothing: it may fall silent, skip and vanish at will;   *)
(* and no select has to fail.                                              *)
(***************************************************************************)
Fairness ==
  /\ WF_vars(Main)
  /\ WF_vars(Thread)
  /\ WF_vars(ThreeSecondsPass /\ dev.mode = "quiet")

FairSpec == Spec /\ Fairness

-----------------------------------------------------------------------------
(***************************************************************************)
(* The variables have the types of wispydbx_usb_aux and the phy.           *)
(***************************************************************************)
TypeOK ==
  /\ pc \in {"open", "start", "calibrate", "position", "loop", "check", "fd", "poll",
             "close", "join", "stopped", "failed"}
  /\ frontend \in {"server", "gtk"}
  /\ thr \in {"none", "select", "check", "transfer", "send", "fail", "exit"}
  /\ state \in {"CLOSED", "CONFIGURING", "RUNNING", "ERROR"}
  /\ {alive, handles, ready, late, error, configured, initialized} \subseteq BOOLEAN
  /\ q \in Seq(Report) /\ Len(q) <= QMax
  /\ buf \in Report \cup {NoReport}
  /\ sweepbuf = <<>> \/ sweepbuf \in [1 .. SetReports -> Report \cup {NoReport}]
  /\ sweepbase \in 0 .. SetReports
  /\ dev \in [mode : {"live", "quiet", "gone"}, next : Report]

(***************************************************************************)
(* "If the thread is still alive, don't take away the devices it might     *)
(* still be reading, wait for it to error down" (wispydbx_usb_close): the  *)
(* handle and the sockets stay open as long as the thread can use them,    *)
(* whoever closes, getpollfd, poll or the front end, and whichever of the  *)
(* two threads sees the end first.                                         *)
(***************************************************************************)
NoUseAfterClose ==
  thr \in {"select", "check", "transfer", "send"} => handles

(* The buffer holds a complete sweep that no lost report interrupts.       *)
SweepIsComplete == sweepbuf # <<>> /\ initialized /\ sweepbase = SetReports

NoReportLost ==
  \A k \in 1 .. SetReports - 1 : sweepbuf[k + 1] = Following(sweepbuf[k])

(***************************************************************************)
(* Once the reports of the default configuration are through, a completed  *)
(* sweep starts with packet 0, so that sample k is the level of frequency  *)
(* k, provided no report was lost inside it: the assembly places a packet  *)
(* after the one before it and not by its index, whatever the thread read  *)
(* before setposition and wherever in a sweep it began to read.            *)
(***************************************************************************)
SetSweepInOrder ==
  /\ SweepIsComplete /\ NoReportLost
  /\ \A k \in 1 .. SetReports : sweepbuf[k].cfg = "set"
  => sweepbuf[1].idx = 0

(***************************************************************************)
(* When the thread ends the server ends: no step of the thread wakes the   *)
(* main thread, which must find out from the flag or the state, in         *)
(* whatever order the thread wrote the two and wherever in its round the   *)
(* server is.  This is so once setcalibration is past; open and            *)
(* setcalibration assign the state without a look at it, and an error they *)
(* write over is none of this.                                             *)
(***************************************************************************)
FailureStopsServer ==
  (frontend = "server" /\ pc \notin {"start", "calibrate"} /\ (thr = "fail" \/ state = "ERROR"))
     ~> pc \in {"stopped", "failed"}

(***************************************************************************)
(* Whatever became of its error, a dead thread's handle and sockets are    *)
(* released: a server that goes on, because the error was written over,    *)
(* does not go on with a socket nobody writes to.                          *)
(***************************************************************************)
DeadDeviceIsReleased ==
  (frontend = "server" /\ thr = "exit") ~> (~handles \/ pc \in {"stopped", "failed"})

(* Reports are lost, or their reader is late.                              *)
Disturbed == DeviceSkips \/ ThreeSecondsPass \/ (thr = "send" /\ error')

(***************************************************************************)
(* Sweeps keep coming, whatever happened before, once the device sends,    *)
(* nothing is lost any more and thread and server go on: the assembly      *)
(* cannot stay out of step with the device.                                *)
(***************************************************************************)
SweepsFlow ==
  (/\ <>[](pc \in {"loop", "check", "fd", "poll"} /\ frontend = "server")
   /\ <>[](dev.mode = "live" /\ sweepbuf # <<>> /\ alive)
   /\ <>[][~Disturbed]_vars)
  => []<><<SweepCompletes>>_vars

-----------------------------------------------------------------------------
(* What the comments and messages say and the code does not do.            *)

(***************************************************************************)
(* "If we haven't gotten around to a 0 state to initialize the buffer, we  *)
(* throw out the sample data until we do": a completed sweep starts with   *)
(* packet 0, provided no report was lost inside it.                        *)
(***************************************************************************)
SweepInOrder == SweepIsComplete /\ NoReportLost => sweepbuf[1].idx = 0

(***************************************************************************)
(* "Send it to the IPC remote, re-queue on enobufs": a report put back is  *)
(* sent later.                                                             *)
(***************************************************************************)
RequeuedIsSent == [][error /\ ~error' => q' = Append(q, buf)]_vars

(***************************************************************************)
(* "wispydbx_usb didn't see any data for more than 3 seconds, something    *)
(* has gone wrong (was the device removed?)": a device that falls silent   *)
(* and stays so is reported.                                               *)
(***************************************************************************)
SilenceIsReported ==
  (pc = "loop" /\ dev.mode = "quiet") ~> (state = "ERROR" \/ dev.mode # "quiet" \/ pc = "stopped")
=============================================================================
