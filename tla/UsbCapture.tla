----------------------------- MODULE UsbCapture -----------------------------
(***************************************************************************)
(* What the drivers of the Wi-Spy 24x, the Wi-Spy gen1 and the Ubertooth   *)
(* have in common: a service thread that reads reports from the device and *)
(* writes them to a datagram socket pair, a main thread that polls the     *)
(* other end, and usb_thread_alive and the state of the phy, which the two *)
(* share without a lock.  The modules Wispy24x, WispyGen1 and UbertoothU1  *)
(* say what each driver does at its own steps; UsbDrivers puts them        *)
(* together.                                                               *)
(*                                                                         *)
(* A report is [at, turn, gap]: it is the part of a sweep that starts at   *)
(* `at` (a packet of the Wi-Spys, a frequency of the Ubertooth), `turn`    *)
(* tells a sweep from its neighbours and `gap` says that reports before it *)
(* were lost.  The programs see neither turn nor gap.                      *)
(***************************************************************************)
EXTENDS Integers, Sequences

CONSTANTS
  QMax,        \* reports the socket holds before select blocks
  RunMax       \* how far reports taken without a gap are counted

ASSUME CaptureAssumption == QMax \in Nat \ {0} /\ RunMax \in Nat

VARIABLES
  driver,       \* "24x", "gen1" or "u1"
  frontend,     \* "raw" or "gtk"
  pc,           \* where the main thread is
  ready,        \* select() found the socket readable
  configured,   \* the configure event was pushed
  thr,          \* where the service thread is
  buf,          \* the thread's buffer
  error,        \* the thread's "requeued" flag
  alive,        \* usb_thread_alive
  state,        \* state of the phy
  handles,      \* devhdl and the socket pair are open
  q,            \* the reports in the socket
  dev,          \* the device: its mode and the report it sends next
  sweepbuf,     \* the sweep buffer, or NoBuffer
  initialized,  \* 24x, gen1: sweepbuf_initialized; u1: primed
  sweepbase,    \* 24x: where the next report goes
  calibration,  \* gen1: calibrated, and num_sweeps until it is
  cache,        \* u1: the sweeps of peak_cache, oldest first
  run           \* history: reports taken since the last gap, RunMax if there was none

mainVars   == <<driver, frontend, pc, ready, configured>>
threadVars == <<thr, buf, error>>
asmVars    == <<sweepbuf, initialized, sweepbase, calibration, cache, run>>
sharedVars == <<alive, state, handles, q>>
vars == <<mainVars, threadVars, sharedVars, dev, asmVars>>

NoReport == [at |-> -1, turn |-> 0, gap |-> FALSE]

(* What is in a place of a sweep buffer before it is written, and a sweep  *)
(* buffer that is NULL.                                                    *)
Unwritten == -1
NoBuffer  == <<Unwritten>>

(* What the gen1 thread sends to wake the main thread up: 0xFF.            *)
WakeUp == [at |-> 255, turn |-> 0, gap |-> FALSE]

(* The first report of a device that starts to be watched at i, and that   *)
(* of one that is set to position while reports are under way.             *)
From(i) == [at |-> i, turn |-> 0, gap |-> FALSE]
Restarted == [From(0) EXCEPT !.gap = (q # <<>> \/ buf # NoReport)]

CaptureInit ==
  /\ frontend \in {"raw", "gtk"} /\ pc = "open" /\ ready = FALSE /\ configured = FALSE
  /\ thr = "none" /\ buf = NoReport /\ error = FALSE
  /\ alive = FALSE /\ state = "CLOSED" /\ handles = FALSE /\ q = <<>>
  /\ cache = <<>> /\ run = RunMax /\ initialized = FALSE

-----------------------------------------------------------------------------
(* The main thread: opening.  The calls of a driver are split where the    *)
(* thread it has started can come between them.                            *)

(* open up to pthread_create.                                              *)
OpenDevice ==
  /\ pc = "open"
  /\ \/ pc' = "failed" /\ UNCHANGED <<handles, alive, thr>>
     \/ pc' = "start" /\ handles' = TRUE /\ alive' = TRUE /\ thr' = "select"
  /\ UNCHANGED <<driver, frontend, ready, configured, buf, error, state, q, dev, asmVars>>

(* The end of open, which does not look at the state it assigns.           *)
StateConfiguring ==
  /\ pc = "start"
  /\ pc' = "calibrate" /\ state' = "CONFIGURING"
  /\ UNCHANGED <<driver, frontend, ready, configured, threadVars, alive, handles, q, 
                 dev, asmVars>>

(* What close takes away once the thread is not alive.                     *)
Release == handles' = FALSE /\ q' = <<>>

(* getpollfd closes the device of a dead thread.                           *)
GetPollFd == IF alive THEN UNCHANGED <<handles, q>> ELSE Release

(* close; a thread that is alive is told to end and waited for.            *)
CloseUnjoined ==     \* mutant: the thread is not waited for
  /\ pc = "close"
  /\ pc' = "stopped" /\ alive' = FALSE /\ Release
  /\ UNCHANGED <<driver, frontend, ready, configured, threadVars, state, dev, asmVars>>

CloseDevice ==
  /\ pc = "close"
  /\ IF alive THEN alive' = FALSE /\ pc' = "join" /\ UNCHANGED <<handles, q>>
     ELSE pc' = "stopped" /\ Release /\ UNCHANGED alive
  /\ UNCHANGED <<driver, frontend, ready, configured, threadVars, state, dev, asmVars>>

(* ... and its pthread_join returns.                                       *)
Join ==
  /\ pc = "join" /\ thr = "exit"
  /\ pc' = "stopped" /\ Release
  /\ UNCHANGED <<driver, frontend, ready, configured, threadVars, alive, state, dev,
                 asmVars>>

-----------------------------------------------------------------------------
(* The main thread: the loops of the front ends.                           *)

(* A round of raw begins: FD_SET and select.                               *)
RawSelects ==
  /\ pc = "loop" /\ frontend = "raw"
  /\ pc' = "fd"
  /\ GetPollFd
  /\ ready' = (alive /\ q # <<>>)
  /\ UNCHANGED <<driver, frontend, configured, threadVars, alive, state, dev, asmVars>>

(* "Error polling": the state is looked at only when there is no           *)
(* descriptor.                                                             *)
RawTestsFd ==
  /\ pc = "fd"
  /\ GetPollFd
  /\ pc' = IF alive THEN (IF ready THEN "poll" ELSE "loop")
           ELSE IF state = "ERROR" THEN "stopped" ELSE "loop"
  /\ ready' = FALSE
  /\ UNCHANGED <<driver, frontend, configured, threadVars, alive, state, dev, asmVars>>

(* gdk calls wdr_poll when the socket is readable.                         *)
GtkSelects ==
  /\ pc = "loop" /\ frontend = "gtk" /\ q # <<>>
  /\ pc' = "poll"
  /\ UNCHANGED <<driver, frontend, ready, configured, threadVars, sharedVars, dev,
                 asmVars>>

(* The last reference to the device is dropped.                            *)
GtkDropsDevice ==
  /\ pc = "loop" /\ frontend = "gtk"
  /\ pc' = "close"
  /\ UNCHANGED <<driver, frontend, ready, configured, threadVars, sharedVars, dev,
                 asmVars>>

(* An error ends raw; the graphs let go of the device, which closes it.    *)
AfterError == pc' = IF frontend = "raw" THEN "stopped" ELSE "close"

(* The sweep is fetched and used.  raw counts its samples with the         *)
(* variable that holds what poll returned, and goes on polling without     *)
(* select when their number has the bit of SPECTOOL_POLL_ADDITIONAL (8) in *)
(* it: that of the Ubertooth, 79, does; 83 and 256 do not.                 *)
TakeSweepPolls ==     \* mutant: whatever the number of samples
  /\ pc = "deliver"
  /\ pc' = IF frontend = "raw" THEN "poll" ELSE "loop"
  /\ UNCHANGED <<driver, frontend, ready, configured, threadVars, sharedVars, dev,
                 asmVars>>

TakeSweep ==
  /\ pc = "deliver"
  /\ pc' = IF frontend = "raw" /\ driver = "u1" THEN "poll" ELSE "loop"
  /\ UNCHANGED <<driver, frontend, ready, configured, threadVars, sharedVars, dev,
                 asmVars>>

-----------------------------------------------------------------------------
(* The main thread: poll up to the report.                                 *)

(* "Push a configure event before anything else", then "use the error set  *)
(* by the polling thread".                                                 *)
PollBegins ==
  /\ pc = "poll"
  /\ IF ~configured
     THEN configured' = TRUE /\ pc' = "loop" /\ UNCHANGED <<state, handles, q>>
     ELSE IF alive
     THEN pc' = "recv" /\ UNCHANGED <<configured, state, handles, q>>
     ELSE state' = "ERROR" /\ Release /\ AfterError /\ UNCHANGED configured
  /\ UNCHANGED <<driver, frontend, ready, threadVars, alive, dev, asmVars>>

(* A report was received, and the one before it more than three seconds    *)
(* ago: time passes as it likes.                                           *)
PollLate ==
  /\ pc = "recv" /\ q # <<>>
  /\ q' = Tail(q) /\ state' = "ERROR" /\ AfterError
  /\ UNCHANGED <<driver, frontend, ready, configured, threadVars, alive, handles, dev,
                 asmVars>>

(* recv blocks until there is a report r.                                  *)
Received(r) ==
  /\ pc = "recv" /\ q # <<>>
  /\ q' = Tail(q)
  /\ run' = IF r.gap THEN 1 ELSE IF run < RunMax THEN run + 1 ELSE run
  /\ UNCHANGED <<driver, frontend, ready, configured, threadVars, alive, handles, dev>>

MainStep ==
  \/ CloseDevice \/ Join \/ RawSelects \/ RawTestsFd \/ GtkSelects
  \/ TakeSweep \/ PollBegins \/ PollLate

-----------------------------------------------------------------------------
(* The service thread.  raw that has exited takes its thread along; a      *)
(* graph goes on without its device.                                       *)

ProcessRuns ==
  /\ frontend = "raw" => pc \notin {"stopped", "failed"}
  /\ frontend = "gtk" => pc # "stopped" \/ thr # "exit"

ThreadSelectsAlways ==     \* mutant: the socket is not waited for
  thr = "select" /\ ProcessRuns

(* select() returns when the socket is writable; it has no timeout.  The   *)
(* flag is read right after it.                                            *)
ThreadSelects == thr = "select" /\ ProcessRuns /\ Len(q) < QMax

(* The flag of the main thread is down.                                    *)
ThreadEnds ==
  /\ ~alive
  /\ thr' = "exit" /\ state' = "ERROR"
  /\ UNCHANGED <<mainVars, buf, error, alive, handles, q, dev, asmVars>>

(* 24x, u1: "get new data only if we haven't requeued"; the send is part   *)
(* of that, so that what was put back is lost.                             *)
ReadsUnlessRequeued ==
  /\ alive
  /\ IF error THEN /\ thr' = "select" /\ error' = FALSE /\ buf' = NoReport
                   /\ dev' = [dev EXCEPT !.next.gap = TRUE]
     ELSE thr' = "transfer" /\ UNCHANGED <<error, buf, dev>>
  /\ UNCHANGED <<mainVars, sharedVars, asmVars>>

(* The transfer of a device whose report r is followed by `next`.          *)
Reads(next) ==
  /\ dev.mode = "live"
  /\ thr' = "send" /\ buf' = dev.next /\ dev' = [dev EXCEPT !.next = next]
  /\ UNCHANGED <<mainVars, error, sharedVars, asmVars>>

(* 24x, u1: the transfer of a silent device times out.                     *)
TimesOut ==
  /\ dev.mode = "quiet"
  /\ thr' = "select"
  /\ UNCHANGED <<mainVars, buf, error, sharedVars, dev, asmVars>>

(* The thread gives up: its transfer or its select ended with an error.    *)
ThreadLoses ==
  /\ thr' = "fail" /\ alive' = FALSE
  /\ UNCHANGED <<mainVars, buf, error, state, handles, q, dev, asmVars>>

(* select() fails, which it may do from the thread's first step on.        *)
ThreadSelectFails == thr = "select" /\ ProcessRuns /\ ThreadLoses

(* The report was queued, put back ("re-queue on enobufs"), or the thread  *)
(* gives up.                                                               *)
Sends ==
  \/ /\ q' = Append(q, buf) /\ buf' = NoReport /\ error' = FALSE
     /\ thr' = "select" /\ UNCHANGED alive
  \/ thr' = "select" /\ error' = TRUE /\ UNCHANGED <<alive, q, buf>>
  \/ thr' = "fail" /\ alive' = FALSE /\ UNCHANGED <<q, buf, error>>

ThreadSends ==
  /\ thr = "send" /\ ProcessRuns
  /\ Sends
  /\ UNCHANGED <<mainVars, state, handles, dev, asmVars>>

(* The thread cleared the flag; now it sets the state and exits.           *)
ThreadFails ==
  /\ thr = "fail" /\ ProcessRuns
  /\ thr' = "exit" /\ state' = "ERROR"
  /\ UNCHANGED <<mainVars, buf, error, alive, handles, q, dev, asmVars>>

ThreadStep == ThreadSelectFails \/ ThreadSends \/ ThreadFails

-----------------------------------------------------------------------------
(* The device, which falls silent, comes back and vanishes.  *)

(* A report nobody reads in time is lost; `next` is the one after it.      *)
Skips(next) ==
  /\ dev.mode = "live" /\ pc # "open" /\ ProcessRuns
  /\ dev' = [dev EXCEPT !.next = [next EXCEPT !.gap = TRUE]]
  /\ UNCHANGED <<mainVars, threadVars, sharedVars, asmVars>>

DeviceChanges ==
  /\ dev.mode # "gone" /\ ProcessRuns
  /\ \E m \in {"live", "quiet", "gone"} \ {dev.mode} : dev' = [dev EXCEPT !.mode = m]
  /\ UNCHANGED <<mainVars, threadVars, sharedVars, asmVars>>

=============================================================================
