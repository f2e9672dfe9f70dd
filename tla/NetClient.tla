----------------------------- MODULE NetClient -----------------------------
(***************************************************************************)
(* spectool_net_client.c and the front ends that use it: the parser of the *)
(* server's stream, and a virtual phy per enabled device, whose wake-up    *)
(* pipe makes the front end poll it like a local one.                      *)
(*                                                                         *)
(* The server and the sockets are a SweepStream, of which every frame is   *)
(* several cells, the first HeaderLen of them its header: a read ends      *)
(* anywhere in a frame.  All of the client is one thread, so an action is  *)
(* what it does between two system calls on shared things: one frame       *)
(* parsed, one read, one poll of a phy.                                    *)
(*                                                                         *)
(* raw enables every device of the block and curses one of them; both      *)
(* select, poll the server until it has nothing more, and then poll the    *)
(* phys that select found readable.  In the GTK program the user opens and *)
(* closes devices, and glib calls wdr_netrpoll and wdr_poll when their     *)
(* descriptors are readable.  One connection is followed to its end.       *)
(***************************************************************************)
EXTENDS Integers, Sequences

CONSTANTS
  Devices,      \* the devices of the server
  BlockLen,     \* cells of the device block
  SweepLen,     \* cells of a sweep frame
  HeaderLen,    \* cells of a frame header
  RbufSz,       \* CLI_BUF_SZ, in cells
  JunkSz,       \* bytes spectool_net_poll takes from its pipe at a time
  WireSz,       \* bound of the model: cells between server and client
  MaxSweeps     \* bound of the model: sweeps per device

ASSUME SizesAssumption ==
  /\ HeaderLen \in Nat \ {0} /\ JunkSz \in Nat \ {0}
  /\ BlockLen \in Nat /\ HeaderLen <= BlockLen
  /\ SweepLen \in Nat /\ HeaderLen <= SweepLen
  /\ RbufSz \in Nat /\ BlockLen <= RbufSz /\ SweepLen <= RbufSz
  /\ WireSz \in Nat /\ MaxSweeps \in Nat

VARIABLES
  frontend,     \* "raw", "curses" or "gtk"
  pc,           \* where the front end is
  link,         \* the connection: "none", "open", "eof" when the server is gone, "ended"
  wire,         \* the cells between the server and rbuf
  subscribed,   \* the devices the server was told to send
  commands,     \* the enable commands on their way to the server
  wbuf,         \* the enable commands buffered
  rbuf,         \* the cells of rbuf from read_pos to read_fill
  rpos,         \* read_pos
  devlist,      \* the devices advertised
  newdevs,      \* SPECTOOL_NETCLI_POLL_NEWDEVS is set in what poll will return
  phy,          \* the state of the virtual phy of a device, or "none"
  piped,        \* the phys whose pipe is open
  pipe,         \* the bytes in the pipe of a phy
  sweep,        \* the number of the sweep of a phy, 0 for NULL
  newsweep,     \* its new_sweep flag
  todo,         \* the phys select found readable that are still to be polled
  made, taken   \* the sweeps made, and the last one the front end got

connVars  == <<link, wire, subscribed, commands>>
parseVars == <<wbuf, rbuf, rpos, devlist, newdevs>>
phyVars   == <<phy, piped, pipe, sweep, newsweep>>
vars == <<frontend, pc, connVars, parseVars, phyVars, todo, made, taken>>

Sweep(d, n) == [type |-> "sweep", dev |-> d, n |-> n]
Sweeps      == {Sweep(d, n) : d \in Devices, n \in 1 .. MaxSweeps}
up          == link \in {"open", "eof"}

Stream == INSTANCE SweepStream
Feed   == INSTANCE SweepFeed

Init ==
  /\ frontend \in {"raw", "curses", "gtk"} /\ pc = "connect"
  /\ link = "none" /\ wire = <<>> /\ subscribed = {} /\ commands = {}
  /\ wbuf = {} /\ rbuf = <<>> /\ rpos = 0 /\ devlist = {} /\ newdevs = FALSE
  /\ phy = [d \in Devices |-> "none"] /\ piped = {} /\ pipe = [d \in Devices |-> 0]
  /\ sweep = [d \in Devices |-> 0] /\ newsweep = [d \in Devices |-> FALSE]
  /\ todo = {}
  /\ made = [d \in Devices |-> 0] /\ taken = [d \in Devices |-> 0]

Selecting == frontend \in {"raw", "curses"}
Home      == IF Selecting THEN "select" ELSE "idle"

-----------------------------------------------------------------------------
(* Connecting: with the URL of the command line, of the first broadcast    *)
(* heard, or of the GTK dialogs.  Without a server raw and curses exit.    *)
Connect ==
  /\ pc = "connect"
  /\ \/ link' = "open" /\ pc' = Home /\ Stream!Accept
     \/ link' = "ended" /\ pc' = (IF Selecting THEN "stopped" ELSE "idle")
        /\ UNCHANGED <<wire, subscribed>>
  /\ UNCHANGED <<frontend, commands, parseVars, phyVars, todo, made, taken>>

-----------------------------------------------------------------------------
(* The devices of ds get a phy if they have none, and their enable command *)
(* is buffered: spectool_netcli_enabledev.  Under GTK it is written at     *)
(* once.                                                                   *)
Fresh(ds) == {d \in ds : phy[d] = "none"}

EnableDevs(ds) ==
  /\ phy' = [d \in Devices |-> IF d \in Fresh(ds) THEN "CONFIGURING" ELSE phy[d]]
  /\ piped' = piped \cup Fresh(ds)
  /\ IF Selecting
     THEN wbuf' = wbuf \cup Fresh(ds) /\ UNCHANGED commands
     ELSE commands' = commands \cup Fresh(ds) /\ UNCHANGED wbuf

(* What raw and curses do when NEWDEVS comes back: all, or the first only. *)
EnableNewDevs ==
  IF Selecting /\ newdevs
  THEN \/ frontend = "raw" /\ EnableDevs(devlist)
       \/ frontend = "curses" /\ \E d \in devlist : EnableDevs({d})
  ELSE UNCHANGED <<phy, piped, wbuf, commands>>

-----------------------------------------------------------------------------
(* spectool_netcli_poll: one action per frame, read and return.            *)

HasHeader  == Len(rbuf) >= HeaderLen
FrontLen   == Stream!FrameLen(rbuf[1].frame)
InStep     == rbuf[1].k = 1
Incomplete == HasHeader /\ InStep /\ FrontLen > Len(rbuf)
NoRoom     == ~HasHeader /\ rpos + Len(rbuf) = RbufSz

(* poll has returned without ADDITIONAL.                                   *)
PollReturns ==
  IF Selecting
  THEN pc' = "devices" /\ todo' = todo
  ELSE pc' = "idle" /\ todo' = {}

(* poll has returned -1: raw and curses exit, wdr_netrpoll closes.         *)
PollFails ==
  /\ pc' = IF Selecting THEN "stopped" ELSE "idle"
  /\ link' = "ended"
  /\ Stream!Close

(* read_pos moves over n cells; when all is used both ends start over.     *)
DropBuffer(n) ==     \* mutant: the buffer is reset after any frame
  rbuf' = <<>> /\ rpos' = 0

Consume(n) ==
  /\ rbuf' = SubSeq(rbuf, n + 1, Len(rbuf))
  /\ rpos' = IF n = Len(rbuf) THEN 0 ELSE rpos + n

(* spectool_netcli_block_netdev: the list is updated.  It returns at the   *)
(* last-device mark, which every block has.                                *)
BlockNetdev ==
  /\ devlist' = Devices /\ newdevs' = TRUE
  /\ UNCHANGED <<pc, link, wire, subscribed, phyVars, todo>>

(* spectool_netcli_block_sweep: the sweep replaces the one before it, and  *)
(* a byte wakes the reader.  Sweeps of unknown devices are an error, those *)
(* of devices without a phy are skipped.                                   *)
BlockSweepSilently(f) ==     \* mutant: a byte for the first sweep only
  IF f.dev \notin devlist
  THEN PollFails /\ UNCHANGED <<devlist, newdevs, phyVars, todo>>
  ELSE /\ IF phy[f.dev] = "none" THEN UNCHANGED <<sweep, newsweep, pipe>>
          ELSE /\ sweep' = [sweep EXCEPT ![f.dev] = f.n]
               /\ newsweep' = [newsweep EXCEPT ![f.dev] = TRUE]
               /\ pipe' = [pipe EXCEPT ![f.dev] =
                              IF f.dev \in piped /\ sweep[f.dev] = 0 THEN @ + 1 ELSE @]
       /\ UNCHANGED <<pc, link, wire, subscribed, devlist, newdevs, phy, piped, todo>>

BlockSweepToAny(f) ==     \* mutant: the device ids are not compared
  \E d \in devlist :
    /\ sweep' = [sweep EXCEPT ![d] = f.n] /\ newsweep' = [newsweep EXCEPT ![d] = TRUE]
    /\ pipe' = [pipe EXCEPT ![d] = IF d \in piped THEN @ + 1 ELSE @]
    /\ UNCHANGED <<pc, link, wire, subscribed, devlist, newdevs, phy, piped, todo>>

BlockSweep(f) ==
  IF f.dev \notin devlist
  THEN PollFails /\ UNCHANGED <<devlist, newdevs, phyVars, todo>>
  ELSE /\ IF phy[f.dev] = "none" THEN UNCHANGED <<sweep, newsweep, pipe>>
          ELSE /\ sweep' = [sweep EXCEPT ![f.dev] = f.n]
               /\ newsweep' = [newsweep EXCEPT ![f.dev] = TRUE]
               /\ pipe' = [pipe EXCEPT ![f.dev] = IF f.dev \in piped THEN @ + 1 ELSE @]
       /\ UNCHANGED <<pc, link, wire, subscribed, devlist, newdevs, phy, piped, todo>>

(* The next frame; without a sentinel the whole buffer is thrown away.     *)
ParseFrame ==
  /\ pc = "net" /\ HasHeader /\ ~Incomplete
  /\ IF InStep
     THEN /\ Consume(FrontLen)
          /\ \/ rbuf[1].frame.type = "devices" /\ BlockNetdev
             \/ rbuf[1].frame.type = "sweep" /\ BlockSweep(rbuf[1].frame)
     ELSE /\ rbuf' = <<>> /\ rpos' = 0
          /\ newdevs' = FALSE /\ PollReturns
          /\ UNCHANGED <<link, wire, subscribed, devlist, phyVars>>
  /\ UNCHANGED <<frontend, commands, wbuf, made, taken>>

(* A frame that is not all there ends the poll with nothing: it is not     *)
(* even read on, now or ever.                                              *)
GiveUpOnFrame ==
  /\ pc = "net" /\ Incomplete
  /\ newdevs' = FALSE /\ PollReturns
  /\ UNCHANGED <<frontend, connVars, wbuf, rbuf, rpos, devlist, phyVars, made, taken>>

ReadPastEnd ==     \* mutant: read is given all of CLI_BUF_SZ
  /\ pc = "net" /\ ~HasHeader /\ up
  /\ \E n \in 1 .. Len(wire) :
       /\ n <= RbufSz
       /\ rbuf' = rbuf \o SubSeq(wire, 1, n)
       /\ link' = link /\ Stream!Take(n)
  /\ newdevs' = FALSE /\ EnableNewDevs
  /\ UNCHANGED <<frontend, pc, rpos, devlist, pipe, sweep, newsweep, todo, made, taken>>

(* "Read as much as we can": poll returns ADDITIONAL and is called again.  *)
ReadMore ==
  /\ pc = "net" /\ ~HasHeader /\ up
  /\ \E n \in 1 .. Len(wire) :
       /\ rpos + Len(rbuf) + n <= RbufSz
       /\ rbuf' = rbuf \o SubSeq(wire, 1, n)
       /\ link' = link /\ Stream!Take(n)
  /\ newdevs' = FALSE /\ EnableNewDevs
  /\ UNCHANGED <<frontend, pc, rpos, devlist, pipe, sweep, newsweep, todo, made, taken>>

ReadNothingFails ==     \* mutant: EAGAIN is an error
  /\ pc = "net" /\ ~HasHeader /\ link = "open" /\ ~NoRoom
  /\ newdevs' = FALSE /\ PollFails
  /\ UNCHANGED <<frontend, commands, wbuf, phy, piped, todo, rbuf, rpos, devlist,
                 pipe, sweep, newsweep, made, taken>>

(* Nothing has arrived: EAGAIN.                                            *)
ReadNothing ==
  /\ pc = "net" /\ ~HasHeader /\ link = "open" /\ ~NoRoom
  /\ newdevs' = FALSE /\ EnableNewDevs /\ PollReturns
  /\ UNCHANGED <<frontend, link, wire, subscribed, rbuf, rpos, devlist,
                 pipe, sweep, newsweep, made, taken>>

(* read returns 0, at the end of the stream or because the buffer is full  *)
(* to its end; errno, by which the two outcomes are told apart, is that of *)
(* an older call.                                                          *)
ReadZero ==
  /\ pc = "net" /\ ~HasHeader /\ up
  /\ NoRoom \/ (link = "eof" /\ wire = <<>>)
  /\ \/ /\ newdevs' = FALSE /\ EnableNewDevs /\ PollReturns
        /\ UNCHANGED <<link, wire, subscribed>>
     \/ newdevs' = FALSE /\ PollFails /\ UNCHANGED <<commands, wbuf, phy, piped, todo>>
  /\ UNCHANGED <<frontend, rbuf, rpos, devlist, pipe, sweep, newsweep, made, taken>>

-----------------------------------------------------------------------------
(* spectool_net_poll: some bytes of the pipe, then what there is to tell.  *)

DrainPipe(d) ==
  pipe' = [pipe EXCEPT ![d] = IF d \notin piped \/ @ <= JunkSz THEN 0 ELSE @ - JunkSz]

(* CONFIGURED and ADDITIONAL; SWEEPCOMPLETE; nothing.                      *)
NetPollConfigured(d) ==
  /\ phy[d] = "CONFIGURING" /\ DrainPipe(d)
  /\ phy' = [phy EXCEPT ![d] = "RUNNING"]
  /\ UNCHANGED <<newsweep, taken>>

NetPollSweep(d) ==
  /\ phy[d] = "RUNNING" /\ newsweep[d] /\ DrainPipe(d)
  /\ newsweep' = [newsweep EXCEPT ![d] = FALSE]
  /\ taken' = [taken EXCEPT ![d] = sweep[d]]
  /\ UNCHANGED phy

NetPollNone(d) ==
  /\ phy[d] = "RUNNING" /\ ~newsweep[d] /\ DrainPipe(d)
  /\ UNCHANGED <<phy, newsweep, taken>>

-----------------------------------------------------------------------------
(* The main loops of raw and curses.                                       *)

(* select, and writepoll, which may write a part.                          *)
Select ==
  /\ pc = "select"
  /\ pc' = IF up /\ (wire # <<>> \/ link = "eof") THEN "net" ELSE "devices"
  /\ todo' = {d \in piped : pipe[d] > 0}
  /\ \E sent \in SUBSET wbuf :
       /\ wbuf # {} => sent # {}
       /\ wbuf' = wbuf \ sent /\ commands' = commands \cup sent
  /\ UNCHANGED <<frontend, link, wire, subscribed, rbuf, rpos, devlist, newdevs,
                 phyVars, made, taken>>

(* curses looks at the state of its phy, which is NULL until the device    *)
(* block has come.                                                         *)
CursesCrashes ==
  /\ pc = "devices" /\ frontend = "curses" /\ \A d \in Devices : phy[d] = "none"
  /\ pc' = "crashed"
  /\ UNCHANGED <<frontend, connVars, parseVars, phyVars, todo, made, taken>>

(* The next readable phy: after CONFIGURED it is polled again; after a     *)
(* sweep raw tests a bit of the number of samples for ADDITIONAL.          *)
PollDeviceOnce(d) ==     \* mutant: ADDITIONAL is ignored
  /\ pc = "devices" /\ d \in todo
  /\ NetPollConfigured(d) \/ NetPollSweep(d) \/ NetPollNone(d)
  /\ todo' = todo \ {d}
  /\ UNCHANGED <<frontend, pc, connVars, parseVars, piped, sweep, made>>

PollDevice(d) ==
  /\ pc = "devices" /\ d \in todo
  /\ \/ NetPollConfigured(d) /\ todo' = todo
     \/ NetPollSweep(d) /\ todo' \in {todo \ {d}} \cup (IF frontend = "raw" THEN {todo} ELSE {})
     \/ NetPollNone(d) /\ todo' = todo \ {d}
  /\ UNCHANGED <<frontend, pc, connVars, parseVars, piped, sweep, made>>

RoundEnds ==
  /\ pc = "devices" /\ todo = {}
  /\ frontend = "curses" => \E d \in Devices : phy[d] # "none"
  /\ pc' = "select"
  /\ UNCHANGED <<frontend, connVars, parseVars, phyVars, todo, made, taken>>

(* 'q', or a signal.                                                       *)
UserQuits ==
  /\ pc = "select"
  /\ pc' = "stopped"
  /\ UNCHANGED <<frontend, connVars, parseVars, phyVars, todo, made, taken>>

-----------------------------------------------------------------------------
(* The GTK program.                                                        *)

(* wdr_netrpoll is called.                                                 *)
GtkReadsServer ==
  /\ pc = "idle" /\ up /\ (wire # <<>> \/ link = "eof")
  /\ pc' = "net"
  /\ UNCHANGED <<frontend, connVars, parseVars, phyVars, todo, made, taken>>

(* wdr_poll is called; it returns after CONFIGURED, ADDITIONAL or not.     *)
GtkPolls(d) ==
  /\ pc = "idle" /\ d \in piped /\ pipe[d] > 0
  /\ NetPollConfigured(d) \/ NetPollSweep(d) \/ NetPollNone(d)
  /\ UNCHANGED <<frontend, pc, connVars, parseVars, piped, sweep, todo, made>>

(* The user opens a device of the list: a phy that was closed before comes *)
(* back with its pipe closed.                                              *)
GtkOpens(d) ==
  /\ pc = "idle" /\ up /\ d \in devlist
  /\ EnableDevs({d})
  /\ UNCHANGED <<frontend, pc, link, wire, subscribed, rbuf, rpos, devlist, newdevs,
                 pipe, sweep, newsweep, todo, made, taken>>

(* The last graph lets go of it: spectool_net_close, and no command.       *)
GtkDrops(d) ==
  /\ pc = "idle" /\ d \in piped
  /\ piped' = piped \ {d} /\ pipe' = [pipe EXCEPT ![d] = 0]
  /\ UNCHANGED <<frontend, pc, connVars, parseVars, phy, sweep, newsweep, todo, made, taken>>

-----------------------------------------------------------------------------
(* The server.                                                             *)

ServerReadsCommand ==
  /\ link = "open" /\ link' = link
  /\ \E d \in commands : commands' = commands \ {d} /\ Stream!Subscribe(d)
  /\ UNCHANGED <<frontend, pc, parseVars, phyVars, todo, made, taken>>

(* A device of the server completes a sweep; if the client gets them it is *)
(* sent, or lost for want of room.                                         *)
ServerSweeps(d) ==
  /\ link = "open" /\ link' = link
  /\ d \in subscribed /\ made[d] < MaxSweeps
  /\ Feed!Make(d)
  /\ \/ Stream!Offer(Sweep(d, made'[d])) /\ Len(wire') <= WireSz
     \/ UNCHANGED <<wire, subscribed>>
  /\ UNCHANGED <<frontend, pc, commands, parseVars, phyVars, todo>>

ServerExits ==
  /\ link = "open" /\ link' = "eof"
  /\ UNCHANGED <<frontend, pc, wire, subscribed, commands, parseVars, phyVars,
                 todo, made, taken>>

-----------------------------------------------------------------------------
NetPoll == ParseFrame \/ GiveUpOnFrame \/ ReadMore \/ ReadNothing \/ ReadZero

Client ==
  \/ Connect \/ NetPoll
  \/ Select \/ CursesCrashes \/ RoundEnds \/ GtkReadsServer
  \/ \E d \in Devices : PollDevice(d) \/ GtkPolls(d)

User   == UserQuits \/ \E d \in Devices : GtkOpens(d) \/ GtkDrops(d)
Server == ServerReadsCommand \/ ServerExits \/ \E d \in Devices : ServerSweeps(d)

Next == Client \/ User \/ Server

Spec == Init /\ [][Next]_vars

(***************************************************************************)
(* The client runs, and what was sent arrives if it is read for again and  *)
(* again.  Nothing is assumed of the server and the user.                  *)
(***************************************************************************)
FairSpec == Spec /\ WF_vars(Client) /\ SF_vars(ReadMore)

-----------------------------------------------------------------------------
(***************************************************************************)
(* The types of the client's records; the data of rbuf ends within it.     *)
(***************************************************************************)
TypeOK ==
  /\ frontend \in {"raw", "curses", "gtk"}
  /\ pc \in {"connect", "select", "net", "devices", "idle", "stopped", "crashed"}
  /\ link \in {"none", "open", "eof", "ended"}
  /\ wire \in Seq(Stream!Cell) /\ rbuf \in Seq(Stream!Cell)
  /\ rpos \in Nat /\ rpos + Len(rbuf) <= RbufSz
  /\ {subscribed, commands, wbuf, devlist, piped, todo} \subseteq SUBSET Devices
  /\ newdevs \in BOOLEAN
  /\ phy \in [Devices -> {"none", "CONFIGURING", "RUNNING"}]
  /\ pipe \in [Devices -> Nat] /\ newsweep \in [Devices -> BOOLEAN]
  /\ {made, taken, sweep} \subseteq [Devices -> 0 .. MaxSweeps]

(***************************************************************************)
(* The parser stays in step: at read_pos a frame begins, however reads cut *)
(* the frames and whenever the buffer was reset, so that no whole buffer   *)
(* of good frames is thrown away for the want of a sentinel.               *)
(***************************************************************************)
ParserInStep == up => (rbuf \o wire # <<>> => (rbuf \o wire)[1].k = 1)

(***************************************************************************)
(* spectool_net_poll reads up to eight bytes of the pipe for one sweep: a  *)
(* sweep not yet taken still has a byte in the pipe of its phy, so that    *)
(* the front end is woken for it.  Under GTK the first sweep is the        *)
(* exception, whose byte went to CONFIGURED, and so is a phy that was      *)
(* closed.                                                                 *)
(***************************************************************************)
NoLostWakeup ==
  \A d \in piped : newsweep[d] /\ pc \notin {"stopped", "crashed"} =>
    \/ pipe[d] > 0
    \/ frontend = "gtk" /\ taken[d] = 0
    \/ pc = "devices" /\ d \in todo

(***************************************************************************)
(* The front end gets sweeps of each device in the order they were made,   *)
(* none twice and none that was not made: SweepFeed, across the stream,    *)
(* the parser, the phys and their pipes.                                   *)
(***************************************************************************)
ImplementsFeed == Feed!Spec

(***************************************************************************)
(* The client gives its connection up only when the server has gone or its *)
(* buffer is full: never for a runt or an unadvertised device.             *)
(***************************************************************************)
EndsWithServer ==
  [][up /\ link' = "ended" => (link = "eof" \/ NoRoom)]_vars

Arriving(d, n) == \E i \in DOMAIN wire : wire[i].frame = Sweep(d, n)

(* The parser has stopped reading: a read ended in a frame behind its      *)
(* header, or at the end of the buffer in a header.                        *)
Stuck == Incomplete \/ NoRoom

(***************************************************************************)
(* A sweep on its way to raw or curses is taken, or a later one is, unless *)
(* the parser is stuck or the program ends.                                *)
(***************************************************************************)
SweepsAreTaken ==
  \A d \in Devices, n \in 1 .. MaxSweeps :
    (Selecting /\ Arriving(d, n)) ~> (taken[d] >= n \/ Stuck \/ pc \in {"stopped", "crashed"})
=============================================================================
