----------------------------- MODULE NetServer -----------------------------
(***************************************************************************)
(* spectool_net_server.c: one process that reads the local devices and     *)
(* sends the sweeps of each to the TCP clients that enabled it.            *)
(*                                                                         *)
(* wts_poll is a single thread that goes through the clients, the backlog  *)
(* and the devices and does what select() found ready.  Each of those is   *)
(* an action here: any of them may find nothing ready, so a round is some  *)
(* of them in turn.                                                        *)
(*                                                                         *)
(* The stream to a client is modelled cell by cell, a frame being several  *)
(* cells long, so that a partial write ends anywhere in a frame.  The      *)
(* commands of a client arrive as whole frames: the server keeps the       *)
(* beginning of one in rbuf until the rest is there.                       *)
(***************************************************************************)
EXTENDS Integers, Sequences, SequencesExt

CONSTANTS
  Clients,      \* the peers that may connect
  Devices,      \* the devices of the server
  Ids,          \* the device ids a command may name
  BlockLen,     \* cells of the device block
  SweepLen,     \* cells of a sweep frame
  BufSz,        \* CLI_BUF_SZ, in cells
  SockSz,       \* cells in flight between the sockets
  MaxUp         \* bound of the model: commands in flight per client

ASSUME DevicesAssumption == Devices \subseteq Ids
ASSUME LenAssumption ==
  /\ BlockLen \in Nat \ {0} /\ SweepLen \in Nat \ {0}
  /\ BufSz \in Nat \ {0} /\ SockSz \in Nat \ {0} /\ MaxUp \in Nat

VARIABLES
  server,       \* "running", "exited", or "crashed" on a NULL pointer
  conn,         \* the connection: "idle", "backlog", "open" or "hungup" by the client
  wbuf,         \* the cells of wbuf from write_pos to write_fill
  wpos,         \* write_pos
  devlist,      \* the devices whose sweeps the client gets, head first
  up,           \* the commands in flight
  down,         \* the cells in flight
  last,         \* the last cell the client took
  want          \* the devices whose last command was an enable

vars == <<server, conn, wbuf, wpos, devlist, up, down, last, want>>

DevBlock == [type |-> "devices"]
Sweep(d) == [type |-> "sweep", dev |-> d]
Frame    == {DevBlock} \cup {Sweep(d) : d \in Devices}

FrameLen(f) == IF f.type = "devices" THEN BlockLen ELSE SweepLen
Cells(f)    == [k \in 1 .. FrameLen(f) |-> [frame |-> f, k |-> k]]
Cell        == UNION {[frame : {f}, k : 1 .. FrameLen(f)] : f \in Frame}
NoCell      == [k |-> 0]

Command == [op : {"enable", "disable"}, id : Ids]

Init ==
  /\ server = "running"
  /\ conn = [c \in Clients |-> "idle"]
  /\ wbuf = [c \in Clients |-> <<>>] /\ wpos = [c \in Clients |-> 0]
  /\ devlist = [c \in Clients |-> <<>>]
  /\ up = [c \in Clients |-> <<>>] /\ down = [c \in Clients |-> <<>>]
  /\ last = [c \in Clients |-> NoCell] /\ want = [c \in Clients |-> {}]

-----------------------------------------------------------------------------
(* The write buffer of a client.                                           *)

Served(c) == server = "running" /\ conn[c] \in {"open", "hungup"}

FitsPending(c, f) == Len(wbuf[c]) + FrameLen(f) < BufSz     \* mutant: write_pos is forgotten

(* The test of wts_cli_append, on write_fill.                              *)
Fits(c, f) == wpos[c] + Len(wbuf[c]) + FrameLen(f) < BufSz

AppendedInPart(c, f) ==     \* mutant: as much of the frame as there is room for
  wbuf[c] \o (IF Fits(c, f) THEN Cells(f)
              ELSE SubSeq(Cells(f), 1, BufSz - 1 - wpos[c] - Len(wbuf[c])))

(* wts_cli_append: the whole frame, or nothing of it.                      *)
Appended(c, f) == IF Fits(c, f) THEN wbuf[c] \o Cells(f) ELSE wbuf[c]

(* wts_remove: the record is unlinked and freed, the descriptor closed.    *)
Unlink(c) ==
  /\ conn' = [conn EXCEPT ![c] = "idle"]
  /\ wbuf' = [wbuf EXCEPT ![c] = <<>>] /\ wpos' = [wpos EXCEPT ![c] = 0]
  /\ devlist' = [devlist EXCEPT ![c] = <<>>]
  /\ up' = [up EXCEPT ![c] = <<>>] /\ down' = [down EXCEPT ![c] = <<>>]
  /\ last' = [last EXCEPT ![c] = NoCell] /\ want' = [want EXCEPT ![c] = {}]
  /\ UNCHANGED server

(* write_pos after n cells are written: both ends return to the start when *)
(* nothing is left.                                                        *)
WritePosRunsOn(c, n) == wpos[c] + n     \* mutant: the buffer is never reset

WritePos(c, n) == IF n = Len(wbuf[c]) THEN 0 ELSE wpos[c] + n

(* wts_poll, the socket is writable: some of the buffer goes out.          *)
WriteToClient(c) ==
  /\ Served(c) /\ conn[c] = "open"
  /\ wbuf[c] # <<>>
  /\ \E n \in 1 .. Len(wbuf[c]) :
       /\ Len(down[c]) + n <= SockSz
       /\ down' = [down EXCEPT ![c] = @ \o SubSeq(wbuf[c], 1, n)]
       /\ wbuf' = [wbuf EXCEPT ![c] = SubSeq(@, n + 1, Len(@))]
       /\ wpos' = [wpos EXCEPT ![c] = WritePos(c, n)]
  /\ UNCHANGED <<server, conn, devlist, up, last, want>>

(* write() or read() finds that the client is gone.                        *)
DropClient(c) ==
  /\ Served(c) /\ conn[c] = "hungup"
  /\ wbuf[c] # <<>> \/ up[c] = <<>>
  /\ Unlink(c)

-----------------------------------------------------------------------------
(* Commands: wts_handle_command.                                           *)

(* An unknown device and "dupe enables" are skipped.                       *)
EnabledTwice(c, d) ==     \* mutant: a duplicate is added again
  IF d \in Devices THEN <<d>> \o devlist[c] ELSE devlist[c]

EnabledUnknown(c, d) ==     \* mutant: any device id is taken
  IF ~Contains(devlist[c], d) THEN <<d>> \o devlist[c] ELSE devlist[c]

Enabled(c, d) ==
  IF d \in Devices /\ ~Contains(devlist[c], d) THEN <<d>> \o devlist[c] ELSE devlist[c]

(* "Shortcut removing the only device": a match at the head forgets the    *)
(* whole list.  Otherwise the first match is unlinked.                     *)
Disabled(c, d) ==
  IF devlist[c] # <<>> /\ Head(devlist[c]) = d THEN <<>>
  ELSE RemoveFirst(devlist[c], d)

(* The search runs off the end of a list without a match.                  *)
SearchFaults(c, d) == devlist[c] # <<>> /\ ~Contains(devlist[c], d)

ReadEnable(c) ==
  /\ Served(c) /\ up[c] # <<>> /\ Head(up[c]).op = "enable"
  /\ LET d == Head(up[c]).id
     IN  /\ devlist' = [devlist EXCEPT ![c] = Enabled(c, d)]
         /\ want' = [want EXCEPT ![c] = @ \cup ({d} \cap Devices)]
  /\ up' = [up EXCEPT ![c] = Tail(@)]
  /\ UNCHANGED <<server, conn, wbuf, wpos, down, last>>

ReadDisable(c) ==
  /\ Served(c) /\ up[c] # <<>> /\ Head(up[c]).op = "disable"
  /\ LET d == Head(up[c]).id
     IN  IF SearchFaults(c, d)
         THEN server' = "crashed" /\ UNCHANGED <<devlist, want>>
         ELSE /\ devlist' = [devlist EXCEPT ![c] = Disabled(c, d)]
              /\ want' = [want EXCEPT ![c] = @ \ {d}]
              /\ UNCHANGED server
  /\ up' = [up EXCEPT ![c] = Tail(@)]
  /\ UNCHANGED <<conn, wbuf, wpos, down, last>>

-----------------------------------------------------------------------------
(* wts_accept and wts_send_devblock; a device block that does not fit ends *)
(* the server.                                                             *)
Accept(c) ==
  /\ server = "running" /\ conn[c] = "backlog"
  /\ conn' = [conn EXCEPT ![c] = "open"]
  /\ IF Fits(c, DevBlock)
     THEN wbuf' = [wbuf EXCEPT ![c] = Appended(c, DevBlock)] /\ UNCHANGED server
     ELSE server' = "exited" /\ UNCHANGED wbuf
  /\ UNCHANGED <<wpos, devlist, up, down, last, want>>

(* A device has a complete sweep: wts_send_sweepblock offers it to every   *)
(* client that enabled the device; a full buffer loses it.                 *)
SendSweepBlock(d) ==
  /\ server = "running"
  /\ wbuf' = [c \in Clients |->
               IF Served(c) /\ Contains(devlist[c], d) THEN Appended(c, Sweep(d)) ELSE wbuf[c]]
  /\ UNCHANGED <<server, conn, wpos, devlist, up, down, last, want>>

(* A device is in error, or accept() fails: wts_poll returns -1.           *)
ServerExits ==
  /\ server = "running"
  /\ server' = "exited"
  /\ UNCHANGED <<conn, wbuf, wpos, devlist, up, down, last, want>>

-----------------------------------------------------------------------------
(* The clients.                                                            *)

ClientConnects(c) ==
  /\ conn[c] = "idle"
  /\ conn' = [conn EXCEPT ![c] = "backlog"]
  /\ UNCHANGED <<server, wbuf, wpos, devlist, up, down, last, want>>

ClientSends(c, m) ==
  /\ conn[c] = "open" /\ Len(up[c]) < MaxUp
  /\ up' = [up EXCEPT ![c] = Append(@, m)]
  /\ UNCHANGED <<server, conn, wbuf, wpos, devlist, down, last, want>>

ClientReceives(c) ==
  /\ conn[c] = "open" /\ down[c] # <<>>
  /\ last' = [last EXCEPT ![c] = Head(down[c])]
  /\ down' = [down EXCEPT ![c] = Tail(@)]
  /\ UNCHANGED <<server, conn, wbuf, wpos, devlist, up, want>>

ClientHangsUp(c) ==
  /\ conn[c] = "open"
  /\ conn' = [conn EXCEPT ![c] = "hungup"]
  /\ down' = [down EXCEPT ![c] = <<>>]
  /\ UNCHANGED <<server, wbuf, wpos, devlist, up, last, want>>

ServerStep(c) ==
  WriteToClient(c) \/ DropClient(c) \/ ReadEnable(c) \/ ReadDisable(c) \/ Accept(c)

ClientStep(c) ==
  \/ ClientConnects(c) \/ ClientReceives(c) \/ ClientHangsUp(c)
  \/ \E m \in Command : ClientSends(c, m)

Next ==
  \/ \E c \in Clients : ServerStep(c) \/ ClientStep(c)
  \/ \E d \in Devices : SendSweepBlock(d)
  \/ ServerExits

Spec == Init /\ [][Next]_vars

(***************************************************************************)
(* Every client is looked at in every round of wts_poll, and a device goes *)
(* on completing sweeps as long as the server runs.  Nothing is assumed of *)
(* the clients.                                                            *)
(***************************************************************************)
FairSpec ==
  /\ Spec
  /\ \A c \in Clients : WF_vars(WriteToClient(c))
  /\ \A d \in Devices : WF_vars(SendSweepBlock(d))

-----------------------------------------------------------------------------
TypeOK ==
  /\ server \in {"running", "exited", "crashed"}
  /\ conn \in [Clients -> {"idle", "backlog", "open", "hungup"}]
  /\ wbuf \in [Clients -> Seq(Cell)]
  /\ wpos \in [Clients -> Nat]
  /\ devlist \in [Clients -> Seq(Devices)]
  /\ up \in [Clients -> Seq(Command)]
  /\ down \in [Clients -> Seq(Cell)]
  /\ last \in [Clients -> Cell \cup {NoCell}]
  /\ want \in [Clients -> SUBSET Devices]

(***************************************************************************)
(* The write buffer of 2048 bytes is never overrun, however the partial    *)
(* writes move write_pos: the test of wts_cli_append is on the end of the  *)
(* data and not on their amount.                                           *)
(***************************************************************************)
BufferFits == \A c \in Clients : wpos[c] + Len(wbuf[c]) < BufSz

(* Cell b may come after cell a.                                           *)
MayFollow(a, b) ==
  IF a = NoCell THEN b = [frame |-> DevBlock, k |-> 1]
  ELSE IF a.k < FrameLen(a.frame) THEN b = [a EXCEPT !.k = @ + 1]
  ELSE b.frame.type = "sweep" /\ b.k = 1

(***************************************************************************)
(* What a client has taken, what is on its way and what is buffered is the *)
(* device block and then whole sweep frames: neither a partial write nor a *)
(* full buffer cuts a frame, on which the parser of the client depends (it *)
(* has no way back into step but to throw its buffer away).                *)
(***************************************************************************)
StreamIsFramed ==
  \A c \in Clients : conn[c] = "open" /\ server = "running" =>
    LET s == <<last[c]>> \o down[c] \o wbuf[c]
    IN  /\ \A i \in 1 .. Len(s) - 1 : MayFollow(s[i], s[i + 1])
        /\ s[Len(s)] # NoCell /\ s[Len(s)].k = FrameLen(s[Len(s)].frame)

(***************************************************************************)
(* A client is never sent the sweeps of a device it disabled last, or      *)
(* never enabled, whatever the commands repeat and whichever device of the *)
(* list they name.                                                         *)
(***************************************************************************)
NothingUnwanted ==
  server = "running" => \A c \in Clients : \A i \in DOMAIN devlist[c] : devlist[c][i] \in want[c]

(***************************************************************************)
(* "We assume that we can write faster than we can fill [...] we don't     *)
(* mind so much if we lose sweep data": a client that keeps reading keeps  *)
(* getting the sweeps of its only device, however many were lost while its *)
(* buffer was full.                                                        *)
(***************************************************************************)
SubscriberIsServed ==
  \A c \in Clients, d \in Devices :
    (/\ <>[](server = "running" /\ conn[c] = "open" /\ devlist[c] = <<d>>)
     /\ []<><<ClientReceives(c)>>_vars \/ <>[](down[c] = <<>>))
    => []<><<ClientReceives(c) /\ last'[c].frame = Sweep(d)>>_vars

-----------------------------------------------------------------------------
(* The connection of c as NetClient sees it.                               *)
Linked(c) == server = "running" /\ conn[c] = "open"

StreamTo(c) == INSTANCE SweepStream WITH
  Sweeps     <- {Sweep(d) : d \in Devices},
  up         <- Linked(c),
  wire       <- IF Linked(c) THEN down[c] \o wbuf[c] ELSE <<>>,
  subscribed <- IF Linked(c) THEN want[c] ELSE {}

(***************************************************************************)
(* To each client the server is a SweepStream, which is all that NetClient *)
(* assumes of it: a device block, then whole sweeps of the devices the     *)
(* client asked for, through partial writes, full buffers, commands in any *)
(* order and hang-ups.                                                     *)
(***************************************************************************)
ImplementsStream ==
  /\ \A c \in Clients : StreamTo(c)!Init
  /\ [][\A c \in Clients : [StreamTo(c)!Next]_(StreamTo(c)!streamVars)]_vars

-----------------------------------------------------------------------------
(***************************************************************************)
(* "Shortcut removing the only device" (wts_handle_command): a client gets *)
(* the sweeps of the devices it enabled and did not disable.               *)
(***************************************************************************)
SubscriptionsFollowCommands ==
  server = "running" =>
    \A c \in Clients : want[c] = {devlist[c][i] : i \in DOMAIN devlist[c]}
=============================================================================
