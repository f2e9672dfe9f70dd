-------------------------- MODULE NetClientProofs ---------------------------
(***************************************************************************)
(* Proofs about the network client on any stream of the server, for every  *)
(* set of devices, every size of frame, header, buffer and pipe read, and  *)
(* every number of sweeps: the parser stays in step, a front end is woken  *)
(* for what it has not taken, the connection is not given up without need, *)
(* and the sweeps are those of a SweepFeed.                                *)
(***************************************************************************)
EXTENDS NetClient, DataLemmas, SequenceTheorems

(***************************************************************************)
(* What the client has read and not yet parsed, and what it will read.     *)
(***************************************************************************)
Ahead == rbuf \o wire

(* Every cell of s lies in a frame that is whole in s.                     *)
Whole(s) ==
  \A i \in 1 .. Len(s) : \A j \in 1 .. Stream!FrameLen(s[i].frame) :
    LET p == i - s[i].k + j
    IN  p \in 1 .. Len(s) /\ s[p] = [frame |-> s[i].frame, k |-> j]

AheadIsWhole == up => Whole(Ahead)

(***************************************************************************)
(* Until the device block is parsed it is all there is, and nothing has    *)
(* been asked for.                                                         *)
(***************************************************************************)
NotConnectedYet == pc = "connect" => link = "none" /\ rbuf = <<>> /\ devlist = {}

BlockFirst ==
  /\ newdevs => devlist = Devices
  /\ devlist # Devices =>
       /\ devlist = {} /\ subscribed = {} /\ commands = {} /\ wbuf = {}
       /\ up => Ahead = Stream!Cells(Stream!DevBlock)

(***************************************************************************)
(* The sweeps between a device and its reader are in the order they were   *)
(* made, none of them is there twice, and all are later than the one the   *)
(* phy holds.                                                              *)
(***************************************************************************)
IsSweep(x) == x.frame.type = "sweep"

InOrder(s, lo, hi) ==
  /\ \A i \in 1 .. Len(s) : IsSweep(s[i]) =>
       lo[s[i].frame.dev] < s[i].frame.n /\ s[i].frame.n <= hi[s[i].frame.dev]
  /\ \A i, j \in 1 .. Len(s) :
       IsSweep(s[i]) /\ IsSweep(s[j]) /\ s[i].frame.dev = s[j].frame.dev =>
         /\ i <= j => s[i].frame.n <= s[j].frame.n
         /\ s[i].frame.n = s[j].frame.n => i - s[i].k = j - s[j].k

AheadIsOrdered == up => InOrder(Ahead, sweep, made)

PhyIsOrdered ==
  \A d \in Devices :
    /\ taken[d] <= sweep[d] /\ sweep[d] <= made[d]
    /\ newsweep[d] => taken[d] < sweep[d]

(* What a phy has before it is enabled, and before it is configured.       *)
PhyStages ==
  \A d \in Devices :
    /\ phy[d] = "none" => ~newsweep[d]
    /\ phy[d] # "RUNNING" => taken[d] = 0

Places == (pc = "net" => up) /\ (pc = "idle" => frontend = "gtk")

FeedInv ==
  AheadIsWhole /\ NotConnectedYet /\ BlockFirst /\ AheadIsOrdered /\ PhyIsOrdered
  /\ PhyStages /\ Places

-----------------------------------------------------------------------------
(***************************************************************************)
(* Types.                                                                  *)
(***************************************************************************)

LEMMA FrameSizes ==
  ASSUME NEW f \in {Stream!DevBlock} \cup Sweeps
  PROVE  Stream!FrameLen(f) \in Nat \ {0} /\ Stream!FrameLen(f) <= RbufSz
BY SizesAssumption DEF Stream!FrameLen

LEMMA CellTypes ==
  ASSUME NEW x \in Stream!Cell
  PROVE  /\ x.frame \in {Stream!DevBlock} \cup Sweeps
         /\ x.k \in 1 .. Stream!FrameLen(x.frame)
         /\ x = [frame |-> x.frame, k |-> x.k]
         /\ IsSweep(x) => x.frame.dev \in Devices /\ x.frame.n \in 1 .. MaxSweeps
<1>1. PICK f \in {Stream!DevBlock} \cup Sweeps : x \in [frame : {f}, k : 1 .. Stream!FrameLen(f)]
  BY DEF Stream!Cell
<1>2. x.frame = f /\ x.k \in 1 .. Stream!FrameLen(f) /\ x = [frame |-> x.frame, k |-> x.k]
  BY <1>1
<1>3. f.type = "sweep" => f.dev \in Devices /\ f.n \in 1 .. MaxSweeps
  <2>1. CASE f = Stream!DevBlock
    BY <2>1 DEF Stream!DevBlock
  <2>2. CASE f \in Sweeps
    BY <2>2 DEF Sweeps, Sweep
  <2> QED
    BY <2>1, <2>2
<1> QED
  BY <1>1, <1>2, <1>3 DEF IsSweep

LEMMA FrameCells ==
  ASSUME NEW f \in {Stream!DevBlock} \cup Sweeps
  PROVE  /\ Stream!Cells(f) \in Seq(Stream!Cell) /\ Len(Stream!Cells(f)) = Stream!FrameLen(f)
         /\ \A i \in 1 .. Stream!FrameLen(f) : Stream!Cells(f)[i] = [frame |-> f, k |-> i]
<1>1. Stream!FrameLen(f) \in Nat
  BY FrameSizes
<1>2. \A k \in 1 .. Stream!FrameLen(f) : [frame |-> f, k |-> k] \in Stream!Cell
  BY DEF Stream!Cell
<1>3. Stream!Cells(f) \in [1 .. Stream!FrameLen(f) -> Stream!Cell]
  BY <1>2 DEF Stream!Cells
<1> QED
  BY <1>1, <1>3 DEF Stream!Cells

(* The frame at read_pos.                                                  *)
LEMMA FrontTypes ==
  ASSUME TypeOK, HasHeader
  PROVE  /\ rbuf \in Seq(Stream!Cell) /\ Len(rbuf) \in Nat \ {0} /\ rbuf[1] \in Stream!Cell
         /\ FrontLen \in Nat \ {0}
         /\ ~Incomplete /\ InStep => FrontLen \in 1 .. Len(rbuf)
<1>1. rbuf \in Seq(Stream!Cell) /\ Len(rbuf) \in Nat \ {0}
  BY SizesAssumption DEF TypeOK, HasHeader
<1>2. rbuf[1] \in Stream!Cell
  BY <1>1
<1>3. FrontLen \in Nat \ {0}
  BY <1>2, CellTypes, FrameSizes DEF FrontLen
<1> QED
  BY <1>1, <1>2, <1>3 DEF Incomplete

LEMMA InitTypes == Init => TypeOK
<1> SUFFICES ASSUME Init PROVE TypeOK
  OBVIOUS
<1>1. wire \in Seq(Stream!Cell) /\ rbuf \in Seq(Stream!Cell) /\ rpos + Len(rbuf) <= RbufSz
  BY SizesAssumption DEF Init
<1>2. {made, taken, sweep} \subseteq [Devices -> 0 .. MaxSweeps]
  BY SizesAssumption DEF Init
<1> QED
  BY <1>1, <1>2 DEF Init, TypeOK

(* A command that is buffered or written.                                  *)
LEMMA EnableTypes ==
  ASSUME TypeOK, EnableNewDevs \/ (\E d \in Devices : d \in devlist /\ EnableDevs({d}))
  PROVE  /\ phy' \in [Devices -> {"none", "CONFIGURING", "RUNNING"}]
         /\ {commands', wbuf', piped'} \subseteq SUBSET Devices
<1>1. ASSUME NEW ds, ds \subseteq Devices, EnableDevs(ds)
      PROVE  /\ phy' \in [Devices -> {"none", "CONFIGURING", "RUNNING"}]
             /\ {commands', wbuf', piped'} \subseteq SUBSET Devices
  BY <1>1 DEF TypeOK, EnableDevs, Fresh
<1>2. devlist \subseteq Devices
  BY DEF TypeOK
<1>3. CASE UNCHANGED <<phy, piped, wbuf, commands>>
  BY <1>3 DEF TypeOK
<1> QED
  BY <1>1, <1>2, <1>3 DEF EnableNewDevs

LEMMA PollReturnTypes ==
  ASSUME TypeOK, PollReturns
  PROVE  pc' \in {"devices", "idle"} /\ todo' \subseteq Devices
BY DEF TypeOK, PollReturns

LEMMA CloseTypes ==
  ASSUME PollFails
  PROVE  /\ up /\ ~up' /\ link' = "ended" /\ pc' \in {"stopped", "idle"}
         /\ wire' = <<>> /\ subscribed' = {}
BY DEF PollFails, Stream!Close, up

LEMMA TakeTypes ==
  ASSUME TypeOK, NEW n, Stream!Take(n), link' = link
  PROVE  /\ n \in 1 .. Len(wire) /\ subscribed' = subscribed
         /\ wire' = SubSeq(wire, n + 1, Len(wire)) /\ wire' \in Seq(Stream!Cell)
         /\ SubSeq(wire, 1, n) \in Seq(Stream!Cell) /\ Len(SubSeq(wire, 1, n)) = n
BY DEF TypeOK, Stream!Take

LEMMA ParseTypes == TypeOK /\ ParseFrame => TypeOK'
<1> SUFFICES ASSUME TypeOK, ParseFrame PROVE TypeOK'
  OBVIOUS
<1>1. /\ HasHeader /\ ~Incomplete
      /\ UNCHANGED <<frontend, commands, wbuf, made, taken>>
  BY DEF ParseFrame
<1>2. /\ rbuf \in Seq(Stream!Cell) /\ Len(rbuf) \in Nat \ {0} /\ rbuf[1] \in Stream!Cell
      /\ InStep => FrontLen \in 1 .. Len(rbuf)
  BY <1>1, FrontTypes
<1>3. CASE ~InStep
  <2>1. /\ rbuf' = <<>> /\ rpos' = 0 /\ newdevs' = FALSE /\ PollReturns
        /\ UNCHANGED <<link, wire, subscribed, devlist, phyVars>>
    BY <1>3 DEF ParseFrame
  <2>2. rbuf' \in Seq(Stream!Cell) /\ rpos' + Len(rbuf') <= RbufSz
    BY <2>1, SizesAssumption
  <2> QED
    BY <1>1, <2>1, <2>2, PollReturnTypes DEF TypeOK, phyVars
<1>4. CASE InStep
  <2>1. Consume(FrontLen)
    BY <1>4 DEF ParseFrame
  <2>2. rbuf' \in Seq(Stream!Cell) /\ rpos' \in Nat /\ rpos' + Len(rbuf') <= RbufSz
    <3> DEFINE n == FrontLen
    <3>1. /\ rbuf' = SubSeq(rbuf, n + 1, Len(rbuf)) /\ n \in 1 .. Len(rbuf)
          /\ rpos' = IF n = Len(rbuf) THEN 0 ELSE rpos + n
      BY <1>2, <1>4, <2>1 DEF Consume
    <3>2. rpos \in Nat /\ rpos + Len(rbuf) <= RbufSz /\ rbuf \in Seq(Stream!Cell)
      BY DEF TypeOK
    <3> HIDE DEF n
    <3>3. rbuf' \in Seq(Stream!Cell) /\ Len(rbuf') = Len(rbuf) - n
      BY <3>1, <3>2
    <3>4. Len(rbuf) \in Nat /\ n \in Nat /\ n <= Len(rbuf) /\ rpos + n \in Nat
      BY <3>1, <3>2
    <3>5. CASE n = Len(rbuf)
      BY <3>1, <3>3, <3>4, <3>5, SizesAssumption
    <3>6. CASE n # Len(rbuf)
      <4>1. rpos' = rpos + n
        BY <3>1, <3>6
      <4> DEFINE l == Len(rbuf)
                 m == Len(rbuf')
      <4>2. l \in Nat /\ m = l - n /\ n \in Nat /\ n <= l /\ rpos + l <= RbufSz
        BY <3>2, <3>3, <3>4
      <4> HIDE DEF l, m
      <4>3. rpos' \in Nat /\ rpos' + m <= RbufSz
        BY <3>2, <4>1, <4>2, SizesAssumption
      <4> QED
        BY <3>3, <4>3 DEF m
    <3> QED
      BY <3>5, <3>6
  <2>3. CASE BlockNetdev
    BY <1>1, <2>2, <2>3 DEF BlockNetdev, TypeOK, phyVars
  <2>4. CASE rbuf[1].frame.type = "sweep" /\ BlockSweep(rbuf[1].frame)
    <3> DEFINE f == rbuf[1].frame
    <3>1. f.dev \in Devices /\ f.n \in 1 .. MaxSweeps
      BY <1>2, <2>4, CellTypes DEF IsSweep
    <3>2. CASE f.dev \notin devlist
      <4>1. PollFails /\ UNCHANGED <<devlist, newdevs, phyVars, todo>>
        BY <2>4, <3>2 DEF BlockSweep
      <4>2. <<>> \in Seq(Stream!Cell)
        OBVIOUS
      <4> QED
        BY <1>1, <2>2, <4>1, <4>2, CloseTypes DEF TypeOK, phyVars
    <3>3. CASE f.dev \in devlist
      <4>1. UNCHANGED <<pc, link, wire, subscribed, devlist, newdevs, phy, piped, todo>>
        BY <2>4, <3>3 DEF BlockSweep
      <4>2. /\ sweep' \in [Devices -> 0 .. MaxSweeps] /\ newsweep' \in [Devices -> BOOLEAN]
            /\ pipe' \in [Devices -> Nat]
        <5> HIDE DEF f
        <5>1. CASE UNCHANGED <<sweep, newsweep, pipe>>
          BY <5>1 DEF TypeOK
        <5>2. CASE /\ sweep' = [sweep EXCEPT ![f.dev] = f.n]
                   /\ newsweep' = [newsweep EXCEPT ![f.dev] = TRUE]
                   /\ pipe' = [pipe EXCEPT ![f.dev] = IF f.dev \in piped THEN @ + 1 ELSE @]
          BY <3>1, <5>2 DEF TypeOK
        <5> QED
          BY <2>4, <3>3, <5>1, <5>2 DEF BlockSweep, f
      <4> QED
        BY <1>1, <2>2, <4>1, <4>2 DEF TypeOK
    <3> QED
      BY <3>2, <3>3
  <2> QED
    BY <1>4, <2>3, <2>4 DEF ParseFrame
<1> QED
  BY <1>3, <1>4

LEMMA PollTypes == TypeOK /\ (GiveUpOnFrame \/ ReadMore \/ ReadNothing \/ ReadZero) => TypeOK'
<1> SUFFICES ASSUME TypeOK, GiveUpOnFrame \/ ReadMore \/ ReadNothing \/ ReadZero PROVE TypeOK'
  OBVIOUS
<1>1. CASE GiveUpOnFrame
  BY <1>1, PollReturnTypes DEF GiveUpOnFrame, TypeOK, connVars, phyVars
<1>2. CASE ReadMore
  <2>1. PICK n \in 1 .. Len(wire) :
          /\ rpos + Len(rbuf) + n <= RbufSz
          /\ rbuf' = rbuf \o SubSeq(wire, 1, n)
          /\ link' = link /\ Stream!Take(n)
    BY <1>2 DEF ReadMore
  <2>2. rbuf \in Seq(Stream!Cell) /\ SubSeq(wire, 1, n) \in Seq(Stream!Cell)
        /\ Len(SubSeq(wire, 1, n)) = n
    BY <2>1, TakeTypes DEF TypeOK
  <2>3. rbuf' \in Seq(Stream!Cell) /\ Len(rbuf') = Len(rbuf) + n
    BY <2>1, <2>2
  <2>4. rpos' = rpos /\ rpos' + Len(rbuf') <= RbufSz
    BY <1>2, <2>1, <2>2, <2>3 DEF ReadMore, TypeOK
  <2>5. wire' \in Seq(Stream!Cell) /\ subscribed' = subscribed
    BY <2>1, TakeTypes
  <2> QED
    BY <1>2, <2>1, <2>3, <2>4, <2>5, EnableTypes DEF ReadMore, TypeOK
<1>3. CASE ReadNothing
  BY <1>3, EnableTypes, PollReturnTypes DEF ReadNothing, TypeOK
<1>4. CASE ReadZero
  <2>1. <<>> \in Seq(Stream!Cell)
    OBVIOUS
  <2>2. UNCHANGED <<frontend, rbuf, rpos, devlist, pipe, sweep, newsweep, made, taken>>
        /\ newdevs' = FALSE
    BY <1>4 DEF ReadZero
  <2>3. CASE EnableNewDevs /\ PollReturns /\ UNCHANGED <<link, wire, subscribed>>
    BY <2>2, <2>3, EnableTypes, PollReturnTypes DEF TypeOK
  <2>4. CASE PollFails /\ UNCHANGED <<commands, wbuf, phy, piped, todo>>
    <3>1. /\ link' = "ended" /\ pc' \in {"stopped", "idle"} /\ wire' = <<>> /\ subscribed' = {}
      BY <2>4, CloseTypes
    <3>2. wire' \in Seq(Stream!Cell)
      BY <2>1, <3>1
    <3> QED
      BY <2>2, <2>4, <3>1, <3>2 DEF TypeOK
  <2> QED
    BY <1>4, <2>3, <2>4 DEF ReadZero
<1> QED
  BY <1>1, <1>2, <1>3, <1>4

(* What a poll of a phy changes.                                           *)
LEMMA NetPollTypes ==
  ASSUME TypeOK, NEW d \in Devices,
         NetPollConfigured(d) \/ NetPollSweep(d) \/ NetPollNone(d)
  PROVE  /\ phy' \in [Devices -> {"none", "CONFIGURING", "RUNNING"}]
         /\ pipe' \in [Devices -> Nat] /\ newsweep' \in [Devices -> BOOLEAN]
         /\ taken' \in [Devices -> 0 .. MaxSweeps]
<1>1. pipe' \in [Devices -> Nat]
  <2>1. pipe \in [Devices -> Nat] /\ DrainPipe(d)
    BY DEF TypeOK, NetPollConfigured, NetPollSweep, NetPollNone
  <2> QED
    BY <2>1, SizesAssumption DEF DrainPipe
<1>2. sweep[d] \in 0 .. MaxSweeps
  BY DEF TypeOK
<1> QED
  BY <1>1, <1>2 DEF TypeOK, NetPollConfigured, NetPollSweep, NetPollNone

LEMMA FrontEndTypes ==
  TypeOK /\ (\/ Connect \/ Select \/ CursesCrashes \/ RoundEnds \/ UserQuits \/ GtkReadsServer
             \/ \E d \in Devices : PollDevice(d) \/ GtkPolls(d) \/ GtkOpens(d) \/ GtkDrops(d))
  => TypeOK'
<1> SUFFICES ASSUME TypeOK
             PROVE  \/ Connect \/ Select \/ CursesCrashes \/ RoundEnds \/ UserQuits
                    \/ GtkReadsServer
                    \/ \E d \in Devices : PollDevice(d) \/ GtkPolls(d) \/ GtkOpens(d) \/ GtkDrops(d)
                    => TypeOK'
  OBVIOUS
<1>1. CASE Connect
  <2>1. /\ link' \in {"open", "ended"} /\ pc' \in {"select", "stopped", "idle"}
        /\ wire' = Stream!Cells(Stream!DevBlock) \/ wire' = wire
        /\ subscribed' = subscribed
        /\ UNCHANGED <<frontend, commands, parseVars, phyVars, todo, made, taken>>
    BY <1>1 DEF Connect, Home, Stream!Accept
  <2>2. wire' \in Seq(Stream!Cell)
    BY <2>1, FrameCells DEF TypeOK
  <2> QED
    BY <2>1, <2>2 DEF TypeOK, parseVars, phyVars
<1>2. CASE Select
  BY <1>2 DEF Select, TypeOK, phyVars
<1>3. CASE CursesCrashes \/ RoundEnds \/ UserQuits \/ GtkReadsServer
  BY <1>3 DEF CursesCrashes, RoundEnds, UserQuits, GtkReadsServer, TypeOK, connVars,
              parseVars, phyVars
<1>4. ASSUME NEW d \in Devices, PollDevice(d) \/ GtkPolls(d) PROVE TypeOK'
  <2>1. /\ NetPollConfigured(d) \/ NetPollSweep(d) \/ NetPollNone(d)
        /\ todo' \subseteq todo
        /\ UNCHANGED <<frontend, pc, connVars, parseVars, piped, sweep, made>>
    BY <1>4 DEF PollDevice, GtkPolls
  <2> QED
    BY <2>1, NetPollTypes DEF TypeOK, connVars, parseVars
<1>5. ASSUME NEW d \in Devices, GtkOpens(d) PROVE TypeOK'
  BY <1>5, EnableTypes DEF GtkOpens, TypeOK
<1>6. ASSUME NEW d \in Devices, GtkDrops(d) PROVE TypeOK'
  BY <1>6 DEF GtkDrops, TypeOK, connVars, parseVars
<1> QED
  BY <1>1, <1>2, <1>3, <1>4, <1>5, <1>6

(* A sweep that is made, and perhaps sent.                                 *)
LEMMA SweepMade ==
  ASSUME TypeOK, NEW d \in Devices, ServerSweeps(d)
  PROVE  LET f == Sweep(d, made[d] + 1) IN
         /\ made[d] \in Nat /\ f \in Sweeps /\ made' = [made EXCEPT ![d] = made[d] + 1]
         /\ wire' = wire \/ wire' = wire \o Stream!Cells(f)
         /\ UNCHANGED <<frontend, pc, link, subscribed, commands, parseVars, phyVars, todo, taken>>
<1>1. made \in [Devices -> 0 .. MaxSweeps] /\ made[d] < MaxSweeps
  BY DEF TypeOK, ServerSweeps
<1>2. made' = [made EXCEPT ![d] = made[d] + 1] /\ taken' = taken
  BY DEF ServerSweeps, Feed!Make
<1>3. made'[d] = made[d] + 1
  BY <1>1, <1>2
<1>4. made[d] + 1 \in 1 .. MaxSweeps
  BY <1>1, SizesAssumption
<1>5. Sweep(d, made[d] + 1) \in Sweeps
  BY <1>4 DEF Sweeps
<1>6. /\ wire' = wire \/ wire' = wire \o Stream!Cells(Sweep(d, made[d] + 1))
      /\ subscribed' = subscribed
  BY <1>3 DEF ServerSweeps, Stream!Offer
<1> QED
  BY <1>1, <1>2, <1>5, <1>6 DEF ServerSweeps

LEMMA ServerTypes == TypeOK /\ Server => TypeOK'
<1> SUFFICES ASSUME TypeOK PROVE Server => TypeOK'
  OBVIOUS
<1>1. CASE ServerReadsCommand
  BY <1>1 DEF ServerReadsCommand, Stream!Subscribe, TypeOK, parseVars, phyVars
<1>2. CASE ServerExits
  BY <1>2 DEF ServerExits, TypeOK, parseVars, phyVars
<1>3. ASSUME NEW d \in Devices, ServerSweeps(d) PROVE TypeOK'
  <2> DEFINE f == Sweep(d, made[d] + 1)
  <2>1. /\ f \in Sweeps /\ made' = [made EXCEPT ![d] = made[d] + 1]
        /\ wire' = wire \/ wire' = wire \o Stream!Cells(f)
        /\ UNCHANGED <<frontend, pc, link, subscribed, commands, parseVars, phyVars, todo, taken>>
    BY <1>3, SweepMade
  <2>2. wire \in Seq(Stream!Cell) /\ Stream!Cells(f) \in Seq(Stream!Cell)
    BY <2>1, FrameCells DEF TypeOK
  <2>3. wire' \in Seq(Stream!Cell)
    <3> DEFINE cs == Stream!Cells(f)
    <3>1. /\ wire \in Seq(Stream!Cell) /\ cs \in Seq(Stream!Cell)
          /\ wire' = wire \/ wire' = wire \o cs
      BY <2>1, <2>2
    <3> HIDE DEF f, cs
    <3>2. wire \o cs \in Seq(Stream!Cell)
      BY <3>1, ConcatProperties
    <3> QED
      BY <3>1, <3>2
  <2>4. made' \in [Devices -> 0 .. MaxSweeps]
    <3>1. made \in [Devices -> 0 .. MaxSweeps] /\ made[d] < MaxSweeps
      BY <1>3 DEF TypeOK, ServerSweeps
    <3>2. made[d] + 1 \in 0 .. MaxSweeps
      BY <3>1, SizesAssumption
    <3> QED
      BY <2>1, <3>1, <3>2
  <2> QED
    BY <2>1, <2>3, <2>4 DEF TypeOK, parseVars, phyVars
<1> QED
  BY <1>1, <1>2, <1>3 DEF Server

LEMMA NextTypes == TypeOK /\ [Next]_vars => TypeOK'
<1>1. TypeOK /\ UNCHANGED vars => TypeOK'
  BY DEF TypeOK, vars, connVars, parseVars, phyVars
<1> QED
  BY <1>1, ParseTypes, PollTypes, FrontEndTypes, ServerTypes DEF Next, Client, User, NetPoll

(***************************************************************************)
(* The client's records keep their types, and the data of rbuf ends within *)
(* CLI_BUF_SZ, wherever the reads of spectool_netcli_poll end.             *)
(***************************************************************************)
THEOREM TypeCorrect == Spec => []TypeOK
  BY InitTypes, NextTypes, PTL DEF Spec

-----------------------------------------------------------------------------
(***************************************************************************)
(* Sequences of whole frames in order: what is left when the first frame   *)
(* is taken, and what there is when the next one is added.                 *)
(***************************************************************************)
Cut(s) == SubSeq(s, Stream!FrameLen(s[1].frame) + 1, Len(s))

LEMMA FrontOfWhole ==
  ASSUME NEW s \in Seq(Stream!Cell), Whole(s), Len(s) > 0
  PROVE  /\ s[1].k = 1 /\ Stream!FrameLen(s[1].frame) \in 1 .. Len(s)
         /\ \A j \in 1 .. Stream!FrameLen(s[1].frame) : s[j] = [frame |-> s[1].frame, k |-> j]
<1> DEFINE n == Stream!FrameLen(s[1].frame)
<1>1. Len(s) \in Nat /\ 1 \in 1 .. Len(s) /\ s[1] \in Stream!Cell
  OBVIOUS
<1>2. s[1].k \in 1 .. n /\ n \in Nat \ {0}
  BY <1>1, CellTypes, FrameSizes
<1>3. \A j \in 1 .. n : LET p == 1 - s[1].k + j
                       IN  p \in 1 .. Len(s) /\ s[p] = [frame |-> s[1].frame, k |-> j]
  BY <1>1 DEF Whole
<1> HIDE DEF n
<1>4. s[1].k = 1
  <2>1. 1 \in 1 .. n
    BY <1>2
  <2>2. 1 - s[1].k + 1 \in 1 .. Len(s)
    BY <1>3, <2>1
  <2> QED
    BY <1>2, <2>2
<1>5. \A j \in 1 .. n : j \in 1 .. Len(s) /\ s[j] = [frame |-> s[1].frame, k |-> j]
  <2> TAKE j \in 1 .. n
  <2>1. 1 - s[1].k + j = j
    BY <1>2, <1>4
  <2> QED
    BY <1>3, <2>1
<1>6. n \in 1 .. Len(s)
  <2>1. n \in 1 .. n
    BY <1>2
  <2> QED
    BY <1>5, <2>1
<1> QED
  BY <1>4, <1>5, <1>6 DEF n

LEMMA CutProperties ==
  ASSUME NEW s \in Seq(Stream!Cell), Whole(s), Len(s) > 0, NEW n, n = Stream!FrameLen(s[1].frame)
  PROVE  /\ Cut(s) \in Seq(Stream!Cell) /\ n \in 1 .. Len(s) /\ Len(Cut(s)) = Len(s) - n
         /\ \A i \in 1 .. Len(s) - n : i + n \in 1 .. Len(s) /\ Cut(s)[i] = s[i + n]
<1>1. n \in 1 .. Len(s) /\ Cut(s) = SubSeq(s, n + 1, Len(s))
  BY FrontOfWhole DEF Cut
<1> DEFINE t == SubSeq(s, n + 1, Len(s))
<1>2. t \in Seq(Stream!Cell)
  BY <1>1
<1>3. Len(t) = Len(s) - n /\ \A i \in 1 .. Len(s) - n : t[i] = s[i + n]
  BY <1>1, SubSeqProperties
<1>4. \A i \in 1 .. Len(s) - n : i + n \in 1 .. Len(s)
  BY <1>1
<1> HIDE DEF t
<1>5. Cut(s) = t
  BY <1>1 DEF t
<1> QED
  BY <1>1, <1>2, <1>3, <1>4, <1>5

LEMMA CutIsWhole ==
  ASSUME NEW s \in Seq(Stream!Cell), Whole(s), Len(s) > 0
  PROVE  Whole(Cut(s))
<1> DEFINE n == Stream!FrameLen(s[1].frame)
           t == Cut(s)
<1>1. /\ t \in Seq(Stream!Cell) /\ n \in 1 .. Len(s) /\ Len(t) = Len(s) - n
      /\ \A i \in 1 .. Len(s) - n : i + n \in 1 .. Len(s) /\ t[i] = s[i + n]
  BY CutProperties
<1>2. \A j \in 1 .. n : s[j] = [frame |-> s[1].frame, k |-> j]
  BY FrontOfWhole
<1> HIDE DEF t
<1> SUFFICES ASSUME NEW i \in 1 .. Len(t), NEW j \in 1 .. Stream!FrameLen(t[i].frame)
             PROVE  LET p == i - t[i].k + j
                    IN  p \in 1 .. Len(t) /\ t[p] = [frame |-> t[i].frame, k |-> j]
  BY DEF Whole, t
<1> DEFINE f == t[i].frame
           k == t[i].k
           p == i - k + j
<1>3. i + n \in 1 .. Len(s) /\ t[i] = s[i + n] /\ s[i + n] \in Stream!Cell
  BY <1>1
<1>4. k \in 1 .. Stream!FrameLen(f) /\ Stream!FrameLen(f) \in Nat
  BY <1>3, CellTypes, FrameSizes
<1>5. LET q == (i + n) - k + j IN q \in 1 .. Len(s) /\ s[q] = [frame |-> f, k |-> j]
  BY <1>3 DEF Whole
<1>6. p + n = (i + n) - k + j
  BY <1>1, <1>3, <1>4
<1>7. p + n \in 1 .. Len(s) /\ s[p + n] = [frame |-> f, k |-> j]
  BY <1>5, <1>6
<1>8. p + n \notin 1 .. n
  <2> SUFFICES ASSUME p + n \in 1 .. n PROVE FALSE
    OBVIOUS
  <2>1. s[p + n] = [frame |-> s[1].frame, k |-> p + n]
    BY <1>2
  <2>2. f = s[1].frame /\ j = p + n
    BY <1>7, <2>1
  <2>3. Stream!FrameLen(f) = n
    BY <2>2
  <2> HIDE DEF n, f, k
  <2> QED
    BY <1>1, <1>3, <1>4, <1>6, <2>2, <2>3
<1> HIDE DEF n, f, k
<1>9. p \in 1 .. Len(t)
  BY <1>1, <1>3, <1>4, <1>7, <1>8
<1>10. t[p] = s[p + n]
  BY <1>1, <1>9
<1> QED
  BY <1>7, <1>9, <1>10 DEF f, k

IsAppended(t, s, f) ==
  LET l == Len(s)
      n == Stream!FrameLen(f)
  IN  /\ l \in Nat /\ n \in Nat \ {0} /\ t \in Seq(Stream!Cell) /\ Len(t) = l + n
      /\ \A i \in 1 .. l : t[i] = s[i]
      /\ \A i \in 1 .. n : l + i \in 1 .. l + n /\ t[l + i] = [frame |-> f, k |-> i]
      /\ \A i \in 1 .. l + n : i \in 1 .. l \/ (i - l \in 1 .. n /\ i = l + (i - l))

LEMMA AppendedProperties ==
  ASSUME NEW s \in Seq(Stream!Cell), NEW f \in {Stream!DevBlock} \cup Sweeps
  PROVE  IsAppended(s \o Stream!Cells(f), s, f)
<1> DEFINE cs == Stream!Cells(f)
           l == Len(s)
           n == Stream!FrameLen(f)
           t == s \o cs
<1>1. /\ cs \in Seq(Stream!Cell) /\ Len(cs) = n /\ n \in Nat \ {0}
      /\ \A i \in 1 .. n : cs[i] = [frame |-> f, k |-> i]
  BY FrameCells, FrameSizes
<1>2. l \in Nat
  OBVIOUS
<1> HIDE DEF cs, n
<1>3. /\ t \in Seq(Stream!Cell) /\ Len(t) = Len(s) + Len(cs)
      /\ \A i \in 1 .. Len(s) + Len(cs) : t[i] = IF i <= Len(s) THEN s[i] ELSE cs[i - Len(s)]
  <2>1. cs \in Seq(Stream!Cell)
    BY <1>1
  <2> QED
    BY <2>1, ConcatProperties, Zenon
<1> HIDE DEF t
<1>4. \A i \in 1 .. l : t[i] = s[i]
  BY <1>1, <1>2, <1>3
<1>5. ASSUME NEW i \in 1 .. n PROVE l + i \in 1 .. l + n /\ t[l + i] = cs[i]
  <2>1. l + i \in 1 .. l + n /\ ~(l + i <= l) /\ (l + i) - l = i
    BY <1>1, <1>2
  <2>2. t[l + i] = cs[(l + i) - l]
    BY <1>1, <1>3, <2>1
  <2> QED
    BY <2>1, <2>2
<1>6. \A i \in 1 .. l + n : i \in 1 .. l \/ (i - l \in 1 .. n /\ i = l + (i - l))
  BY <1>1, <1>2
<1> QED
  BY <1>1, <1>2, <1>3, <1>4, <1>5, <1>6 DEF IsAppended, t, cs, n

LEMMA AppendedIsWhole ==
  ASSUME NEW s \in Seq(Stream!Cell), Whole(s), NEW f \in {Stream!DevBlock} \cup Sweeps
  PROVE  Whole(s \o Stream!Cells(f))
<1> DEFINE t == s \o Stream!Cells(f)
           l == Len(s)
           n == Stream!FrameLen(f)
<1>1. /\ l \in Nat /\ n \in Nat \ {0} /\ Len(t) = l + n
      /\ \A i \in 1 .. l : t[i] = s[i]
      /\ \A i \in 1 .. n : l + i \in 1 .. l + n /\ t[l + i] = [frame |-> f, k |-> i]
      /\ \A i \in 1 .. l + n : i \in 1 .. l \/ (i - l \in 1 .. n /\ i = l + (i - l))
  BY AppendedProperties DEF IsAppended
<1> HIDE DEF t
<1> SUFFICES ASSUME NEW i \in 1 .. Len(t), NEW j \in 1 .. Stream!FrameLen(t[i].frame)
             PROVE  LET p == i - t[i].k + j
                    IN  p \in 1 .. Len(t) /\ t[p] = [frame |-> t[i].frame, k |-> j]
  BY DEF Whole, t
<1>2. CASE i \in 1 .. l
  <2>1. t[i] = s[i]
    BY <1>1, <1>2
  <2>2. LET p == i - s[i].k + j
        IN  p \in 1 .. l /\ s[p] = [frame |-> s[i].frame, k |-> j]
    BY <1>2, <2>1 DEF Whole
  <2> QED
    BY <1>1, <2>1, <2>2
<1>3. CASE i - l \in 1 .. n /\ i = l + (i - l)
  <2>1. t[i] = [frame |-> f, k |-> i - l]
    BY <1>1, <1>3
  <2>2. t[i].frame = f /\ t[i].k = i - l
    BY <2>1
  <2>3. j \in 1 .. n
    BY <2>2
  <2>4. i - (i - l) + j = l + j
    BY <1>1, <1>3, <2>3
  <2> QED
    BY <1>1, <2>2, <2>3, <2>4
<1> QED
  BY <1>1, <1>2, <1>3

-----------------------------------------------------------------------------
LEMMA CutInOrder ==
  ASSUME NEW s \in Seq(Stream!Cell), Whole(s), Len(s) > 0, NEW lo, NEW hi, InOrder(s, lo, hi)
  PROVE  InOrder(Cut(s), lo, hi)
<1> DEFINE n == Stream!FrameLen(s[1].frame)
           t == Cut(s)
<1>1. /\ t \in Seq(Stream!Cell) /\ n \in 1 .. Len(s) /\ Len(t) = Len(s) - n
      /\ \A i \in 1 .. Len(s) - n : i + n \in 1 .. Len(s) /\ t[i] = s[i + n]
  BY CutProperties
<1> HIDE DEF n, t
<1>2. n \in Int /\ Len(t) \in Nat
  BY <1>1
<1>3. \A i \in 1 .. Len(t) : i \in Int /\ i + n \in 1 .. Len(s) /\ t[i] = s[i + n] /\ t[i].k \in Int
  <2>1. \A x \in Stream!Cell : x.k \in Int
    BY CellTypes, FrameSizes
  <2> QED
    BY <1>1, <2>1
<1>4. ASSUME NEW i \in 1 .. Len(t), NEW j \in 1 .. Len(t), IsSweep(t[i]), IsSweep(t[j]),
             t[i].frame.dev = t[j].frame.dev
      PROVE  /\ i <= j => t[i].frame.n <= t[j].frame.n
             /\ t[i].frame.n = t[j].frame.n => i - t[i].k = j - t[j].k
  <2> DEFINE a == i + n
             b == j + n
  <2>1. a \in 1 .. Len(s) /\ b \in 1 .. Len(s) /\ t[i] = s[a] /\ t[j] = s[b]
    BY <1>3
  <2> HIDE DEF a, b
  <2>2. /\ a <= b => t[i].frame.n <= t[j].frame.n
        /\ t[i].frame.n = t[j].frame.n => a - t[i].k = b - t[j].k
    BY <1>4, <2>1 DEF InOrder
  <2>3. /\ i <= j => a <= b
        /\ a - t[i].k = b - t[j].k => i - t[i].k = j - t[j].k
    <3> DEFINE ki == t[i].k
               kj == t[j].k
    <3>1. i \in Int /\ j \in Int /\ n \in Int /\ ki \in Int /\ kj \in Int
      BY <1>2, <1>3
    <3> HIDE DEF ki, kj
    <3>2. /\ i <= j => i + n <= j + n
          /\ (i + n) - ki = (j + n) - kj => i - ki = j - kj
      BY <3>1
    <3> QED
      BY <3>2 DEF a, b, ki, kj
  <2> QED
    BY <2>2, <2>3
<1>5. \A i \in 1 .. Len(t) : IsSweep(t[i]) =>
        lo[t[i].frame.dev] < t[i].frame.n /\ t[i].frame.n <= hi[t[i].frame.dev]
  BY <1>3 DEF InOrder
<1> QED
  BY <1>4, <1>5 DEF InOrder, t

(* And once the first sweep is with its phy.                               *)
LEMMA CutAfterSweep ==
  ASSUME NEW s \in Seq(Stream!Cell), Whole(s), Len(s) > 0, NEW lo, NEW hi, InOrder(s, lo, hi),
         NEW d, NEW lo2, IsSweep(s[1]), d = s[1].frame.dev, lo2[d] = s[1].frame.n,
         \A e \in Devices : e # d => lo2[e] = lo[e]
  PROVE  InOrder(Cut(s), lo2, hi)
<1> DEFINE n == Stream!FrameLen(s[1].frame)
           t == Cut(s)
<1>1. /\ t \in Seq(Stream!Cell) /\ n \in 1 .. Len(s) /\ Len(t) = Len(s) - n
      /\ \A i \in 1 .. Len(s) - n : i + n \in 1 .. Len(s) /\ t[i] = s[i + n]
  BY CutProperties
<1>2. s[1].k = 1 /\ 1 \in 1 .. Len(s) /\ n = SweepLen
  BY FrontOfWhole DEF IsSweep, Stream!FrameLen
<1> HIDE DEF n, t
<1>3. ASSUME NEW i \in 1 .. Len(t), IsSweep(t[i])
      PROVE  LET f == t[i].frame IN
             f.n <= hi[f.dev] /\ lo2[f.dev] < f.n
  <2>1. i + n \in 1 .. Len(s) /\ t[i] = s[i + n] /\ t[i] \in Stream!Cell
    BY <1>1
  <2> DEFINE f == t[i].frame
  <2>2. lo[f.dev] < f.n /\ f.n <= hi[f.dev]
    BY <1>3, <2>1 DEF InOrder
  <2>3. f.dev \in Devices /\ f.n \in Nat /\ t[i].k \in 1 .. SweepLen /\ SweepLen \in Nat
    <3>1. f.dev \in Devices /\ f.n \in 1 .. MaxSweeps /\ t[i].k \in 1 .. Stream!FrameLen(f)
      BY <1>3, <2>1, CellTypes
    <3>2. Stream!FrameLen(f) = SweepLen
      BY <1>3 DEF IsSweep, Stream!FrameLen
    <3> QED
      BY <3>1, <3>2, SizesAssumption
  <2>4. CASE f.dev # d
    BY <2>2, <2>3, <2>4
  <2>5. CASE f.dev = d
    <3>1. 1 <= i + n
      BY <1>1, <2>1
    <3>2. s[1].frame.n <= f.n /\ (s[1].frame.n = f.n => 1 - 1 = (i + n) - t[i].k)
      BY <1>2, <1>3, <2>1, <2>5, <3>1 DEF InOrder
    <3>3. s[1].frame.n \in Nat
      <4>1. s[1] \in Stream!Cell
        BY <1>2
      <4> QED
        BY <4>1, CellTypes
    <3>4. s[1].frame.n # f.n
      BY <1>1, <1>2, <2>1, <2>3, <3>2
    <3> QED
      BY <2>2, <2>3, <2>5, <3>2, <3>3, <3>4
  <2> QED
    BY <2>2, <2>4, <2>5
<1>4. InOrder(t, lo, hi)
  BY CutInOrder DEF t
<1> QED
  BY <1>3, <1>4 DEF InOrder, t

LEMMA AppendedInOrder ==
  ASSUME NEW s \in Seq(Stream!Cell), NEW lo, NEW hi, InOrder(s, lo, hi),
         NEW d \in Devices, hi[d] \in Nat, lo[d] \in Nat, lo[d] <= hi[d],
         NEW f \in Sweeps, f = Sweep(d, hi[d] + 1),
         NEW hi2, hi2[d] = hi[d] + 1, \A e \in Devices : e # d => hi2[e] = hi[e]
  PROVE  InOrder(s, lo, hi2) /\ InOrder(s \o Stream!Cells(f), lo, hi2)
<1> DEFINE t == s \o Stream!Cells(f)
           l == Len(s)
           n == Stream!FrameLen(f)
<1>1. /\ l \in Nat /\ n \in Nat \ {0} /\ Len(t) = l + n
      /\ \A i \in 1 .. l : t[i] = s[i]
      /\ \A i \in 1 .. n : l + i \in 1 .. l + n /\ t[l + i] = [frame |-> f, k |-> i]
      /\ \A i \in 1 .. l + n : i \in 1 .. l \/ (i - l \in 1 .. n /\ i = l + (i - l))
  BY AppendedProperties DEF IsAppended
<1>2. f.type = "sweep" /\ f.dev = d /\ f.n = hi[d] + 1
  BY DEF Sweep
<1>3. ASSUME NEW i \in 1 .. l, IsSweep(s[i])
      PROVE  LET g == s[i].frame IN
             /\ g.dev \in Devices /\ g.n \in Nat /\ g.n <= hi[g.dev]
             /\ lo[g.dev] < g.n /\ g.n <= hi2[g.dev]
  <2>1. s[i] \in Stream!Cell
    OBVIOUS
  <2>2. s[i].frame.dev \in Devices /\ s[i].frame.n \in Nat
    BY <1>3, <2>1, CellTypes
  <2>3. lo[s[i].frame.dev] < s[i].frame.n /\ s[i].frame.n <= hi[s[i].frame.dev]
    BY <1>3 DEF InOrder
  <2>4. s[i].frame.n <= hi2[s[i].frame.dev]
    BY <2>2, <2>3
  <2> QED
    BY <2>2, <2>3, <2>4
<1>4. InOrder(s, lo, hi2)
  BY <1>3 DEF InOrder
<1> HIDE DEF t, n
<1>5. ASSUME NEW i \in 1 .. Len(t), i \notin 1 .. l
      PROVE  i > l /\ i \in Nat /\ t[i].frame = f /\ t[i].k = i - l
  <2>1. i - l \in 1 .. n /\ i = l + (i - l)
    BY <1>1, <1>5
  <2>2. t[i] = [frame |-> f, k |-> i - l]
    BY <1>1, <2>1
  <2> QED
    BY <1>1, <2>1, <2>2
<1>6. ASSUME NEW i \in 1 .. Len(t), IsSweep(t[i])
      PROVE  LET g == t[i].frame IN lo[g.dev] < g.n /\ g.n <= hi2[g.dev]
  <2>1. CASE i \in 1 .. l
    BY <1>1, <1>3, <1>6, <2>1
  <2>2. CASE i \notin 1 .. l
    <3>1. t[i].frame = f
      BY <1>5, <2>2
    <3>2. lo[d] < hi[d] + 1 /\ hi[d] + 1 <= hi2[d]
      OBVIOUS
    <3> QED
      BY <1>2, <3>1, <3>2
  <2> QED
    BY <2>1, <2>2
<1>7. ASSUME NEW i \in 1 .. Len(t), NEW j \in 1 .. Len(t), IsSweep(t[i]), IsSweep(t[j]),
             t[i].frame.dev = t[j].frame.dev
      PROVE  /\ i <= j => t[i].frame.n <= t[j].frame.n
             /\ t[i].frame.n = t[j].frame.n => i - t[i].k = j - t[j].k
  <2>1. CASE i \in 1 .. l /\ j \in 1 .. l
    <3>1. t[i] = s[i] /\ t[j] = s[j]
      BY <1>1, <2>1
    <3> QED
      BY <1>7, <2>1, <3>1 DEF InOrder
  <2>2. CASE i \in 1 .. l /\ j \notin 1 .. l
    <3>1. t[i] = s[i] /\ t[j].frame = f
      BY <1>1, <1>5, <2>2
    <3>2. t[i].frame.n \in Nat /\ t[i].frame.n <= hi[d]
      BY <1>2, <1>3, <1>7, <2>2, <3>1
    <3> QED
      BY <1>2, <3>1, <3>2
  <2>3. CASE i \notin 1 .. l /\ j \in 1 .. l
    <3>1. t[j] = s[j] /\ t[i].frame = f /\ i > l /\ i \in Nat
      BY <1>1, <1>5, <2>3
    <3>2. t[j].frame.n \in Nat /\ t[j].frame.n <= hi[d]
      BY <1>2, <1>3, <1>7, <2>3, <3>1
    <3>3. ~(i <= j)
      BY <1>1, <2>3, <3>1
    <3> QED
      BY <1>2, <3>1, <3>2, <3>3
  <2>4. CASE i \notin 1 .. l /\ j \notin 1 .. l
    <3>1. t[i].frame = f /\ t[i].k = i - l /\ t[j].frame = f /\ t[j].k = j - l
          /\ i \in Nat /\ j \in Nat
      BY <1>5, <2>4
    <3>2. i - (i - l) = j - (j - l)
      BY <1>1, <3>1
    <3> QED
      BY <1>2, <3>1, <3>2
  <2> QED
    BY <2>1, <2>2, <2>3, <2>4
<1>8. InOrder(t, lo, hi2)
  BY <1>6, <1>7 DEF InOrder
<1> QED
  BY <1>4, <1>8 DEF t

-----------------------------------------------------------------------------
(***************************************************************************)
(* The steps.  Only connecting, parsing and sweeping change what is ahead. *)
(***************************************************************************)
LEMMA AheadTypes ==
  ASSUME TypeOK
  PROVE  /\ rbuf \in Seq(Stream!Cell) /\ wire \in Seq(Stream!Cell) /\ Ahead \in Seq(Stream!Cell)
         /\ Len(Ahead) = Len(rbuf) + Len(wire)
         /\ Len(rbuf) > 0 => Len(Ahead) > 0 /\ Ahead[1] = rbuf[1]
<1>1. rbuf \in Seq(Stream!Cell) /\ wire \in Seq(Stream!Cell)
  BY DEF TypeOK
<1> DEFINE r == rbuf
           w == wire
<1>2. r \in Seq(Stream!Cell) /\ w \in Seq(Stream!Cell) /\ Ahead = r \o w
  BY <1>1 DEF Ahead
<1> HIDE DEF r, w
<1>3. r \o w \in Seq(Stream!Cell) /\ Len(r \o w) = Len(r) + Len(w)
  BY <1>2, ConcatProperties
<1>4. Len(r) > 0 => Len(r \o w) > 0 /\ (r \o w)[1] = r[1]
  BY <1>2, <1>3
<1> QED
  BY <1>1, <1>2, <1>3, <1>4 DEF r, w

LEMMA FrontDropped ==
  ASSUME NEW S, NEW r \in Seq(S), NEW w \in Seq(S), NEW n \in 1 .. Len(r)
  PROVE  SubSeq(r, n + 1, Len(r)) \o w = SubSeq(r \o w, n + 1, Len(r \o w))
<1> DEFINE t == SubSeq(r, n + 1, Len(r))
           s == r \o w
           u == t \o w
           v == SubSeq(s, n + 1, Len(s))
<1>1. t \in Seq(S) /\ Len(t) = Len(r) - n /\ \A i \in 1 .. Len(r) - n : t[i] = r[i + n]
  OBVIOUS
<1>2. s \in Seq(S) /\ Len(s) = Len(r) + Len(w) /\ Len(r) \in Nat /\ Len(w) \in Nat
      /\ \A i \in 1 .. Len(r) + Len(w) : s[i] = IF i <= Len(r) THEN r[i] ELSE w[i - Len(r)]
  BY ConcatProperties
<1> HIDE DEF t, s
<1>3. v \in Seq(S) /\ Len(v) = Len(s) - n /\ \A i \in 1 .. Len(s) - n : v[i] = s[i + n]
  BY <1>2
<1>4. u \in Seq(S) /\ Len(u) = Len(t) + Len(w)
      /\ \A i \in 1 .. Len(t) + Len(w) : u[i] = IF i <= Len(t) THEN t[i] ELSE w[i - Len(t)]
  BY <1>1, ConcatProperties
<1> HIDE DEF u, v
<1>5. Len(u) = Len(v)
  BY <1>1, <1>2, <1>3, <1>4
<1>6. ASSUME NEW i \in 1 .. Len(u) PROVE u[i] = v[i]
  <2>1. v[i] = s[i + n] /\ i + n \in 1 .. Len(r) + Len(w)
    BY <1>2, <1>3, <1>5
  <2>2. CASE i <= Len(r) - n
    <3>1. i \in 1 .. Len(r) - n /\ i <= Len(t) /\ i + n <= Len(r)
      BY <1>1, <1>2, <2>2
    <3> QED
      BY <1>1, <1>2, <1>4, <2>1, <3>1
  <2>3. CASE ~(i <= Len(r) - n)
    <3>1. ~(i <= Len(t)) /\ ~(i + n <= Len(r)) /\ i - Len(t) = (i + n) - Len(r)
      BY <1>1, <1>2, <2>3
    <3> QED
      BY <1>2, <1>4, <2>1, <3>1
  <2> QED
    BY <2>2, <2>3
<1>7. u = v
  BY <1>3, <1>4, <1>5, <1>6, SeqEqual
<1> QED
  BY <1>7 DEF u, v, t, s

LEMMA PieceMoved ==
  ASSUME NEW S, NEW r \in Seq(S), NEW w \in Seq(S), NEW n \in 1 .. Len(w)
  PROVE  (r \o SubSeq(w, 1, n)) \o SubSeq(w, n + 1, Len(w)) = r \o w
<1> DEFINE a == SubSeq(w, 1, n)
           b == SubSeq(w, n + 1, Len(w))
<1>1. a \in Seq(S) /\ b \in Seq(S)
  OBVIOUS
<1>2. a \o b = w
  <2>1. a \o b = SubSeq(w, 1, Len(w))
    BY ConcatAdjacentSubSeq
  <2> QED
    BY <2>1, SubSeqFull
<1> HIDE DEF a, b
<1>3. (r \o a) \o b = r \o (a \o b)
  BY <1>1
<1> QED
  BY <1>2, <1>3 DEF a, b

LEMMA InStepAtFront ==
  ASSUME TypeOK, AheadIsWhole, up, Len(Ahead) > 0
  PROVE  Ahead[1].k = 1
BY AheadTypes, FrontOfWhole DEF AheadIsWhole

(* A frame is parsed: it is what was ahead first, and never a sweep before *)
(* the device block.                                                       *)
Parsed(f) ==
  \/ f.type = "devices" /\ BlockNetdev
  \/ /\ f.type = "sweep" /\ f.dev \in devlist
     /\ \/ phy[f.dev] = "none" /\ UNCHANGED <<sweep, newsweep, pipe>>
        \/ /\ phy[f.dev] # "none"
           /\ sweep' = [sweep EXCEPT ![f.dev] = f.n]
           /\ newsweep' = [newsweep EXCEPT ![f.dev] = TRUE]
           /\ pipe' = [pipe EXCEPT ![f.dev] = IF f.dev \in piped THEN @ + 1 ELSE @]
     /\ UNCHANGED <<pc, link, wire, subscribed, devlist, newdevs, phy, piped, todo>>

LEMMA ParseStep ==
  ASSUME TypeOK, FeedInv, ParseFrame
  PROVE  /\ up /\ up' /\ Len(Ahead) > 0 /\ Ahead[1] = rbuf[1]
         /\ Ahead' = Cut(Ahead)
         /\ Parsed(rbuf[1].frame)
         /\ UNCHANGED <<frontend, pc, link, wire, subscribed, commands, wbuf, phy, piped, todo,
                        made, taken>>
<1>1. HasHeader /\ pc = "net" /\ ~Incomplete
      /\ UNCHANGED <<frontend, commands, wbuf, made, taken>>
  BY DEF ParseFrame
<1>2. up
  BY <1>1 DEF FeedInv, Places
<1>3. /\ rbuf \in Seq(Stream!Cell) /\ Len(rbuf) > 0 /\ rbuf[1] \in Stream!Cell
      /\ InStep => FrontLen \in 1 .. Len(rbuf)
  BY <1>1, FrontTypes
<1>4. Len(Ahead) > 0 /\ Ahead[1] = rbuf[1]
  BY <1>3, AheadTypes
<1>5. InStep
  BY <1>2, <1>4, InStepAtFront DEF FeedInv, InStep
<1>6. /\ Consume(FrontLen)
      /\ \/ rbuf[1].frame.type = "devices" /\ BlockNetdev
         \/ rbuf[1].frame.type = "sweep" /\ BlockSweep(rbuf[1].frame)
  BY <1>5 DEF ParseFrame
<1>7. rbuf[1].frame.type = "sweep" => rbuf[1].frame.dev \in devlist
  <2> SUFFICES ASSUME rbuf[1].frame.type = "sweep", devlist # Devices PROVE FALSE
    BY <1>3, CellTypes DEF IsSweep
  <2>1. Ahead = Stream!Cells(Stream!DevBlock)
    BY <1>2 DEF FeedInv, BlockFirst
  <2>2. Ahead[1] = [frame |-> Stream!DevBlock, k |-> 1]
    <3>1. Stream!FrameLen(Stream!DevBlock) \in Nat \ {0}
      BY FrameSizes
    <3>2. 1 \in 1 .. Stream!FrameLen(Stream!DevBlock)
      BY <3>1
    <3> QED
      BY <2>1, <3>2, FrameCells
  <2>3. rbuf[1].frame = Stream!DevBlock
    BY <1>4, <2>2
  <2> QED
    BY <2>3 DEF Stream!DevBlock
<1>8. /\ Parsed(rbuf[1].frame)
      /\ UNCHANGED <<pc, link, wire, subscribed, phy, piped, todo>>
  BY <1>6, <1>7 DEF Parsed, BlockSweep, BlockNetdev, phyVars
<1>9. Ahead' = Cut(Ahead)
  <2> DEFINE r == rbuf
             w == wire
             n == FrontLen
  <2>1. /\ Ahead' = SubSeq(r, n + 1, Len(r)) \o w /\ n \in 1 .. Len(r)
        /\ Ahead = r \o w /\ r \in Seq(Stream!Cell) /\ w \in Seq(Stream!Cell)
    BY <1>3, <1>5, <1>6, <1>8, AheadTypes DEF Ahead, Consume
  <2>2. Cut(Ahead) = SubSeq(Ahead, n + 1, Len(Ahead))
    BY <1>4 DEF Cut, FrontLen
  <2> HIDE DEF r, w, n
  <2>3. SubSeq(r, n + 1, Len(r)) \o w = SubSeq(r \o w, n + 1, Len(r \o w))
    BY <2>1, FrontDropped
  <2> QED
    BY <2>1, <2>2, <2>3
<1> QED
  BY <1>1, <1>2, <1>4, <1>8, <1>9 DEF up

(* What is ahead is not touched, or given up with the connection.          *)
Quiet == (up' => up /\ Ahead' = Ahead) /\ sweep' = sweep /\ made' = made

OtherStep ==
  \/ GiveUpOnFrame \/ ReadMore \/ ReadNothing \/ ReadZero
  \/ Select \/ CursesCrashes \/ RoundEnds \/ UserQuits \/ GtkReadsServer
  \/ \E d \in Devices : PollDevice(d) \/ GtkPolls(d) \/ GtkOpens(d) \/ GtkDrops(d)
  \/ ServerReadsCommand \/ ServerExits
  \/ UNCHANGED vars

LEMMA Steps ==
  [Next]_vars <=> (OtherStep \/ Connect \/ ParseFrame \/ \E d \in Devices : ServerSweeps(d))
BY DEF Next, Client, User, Server, NetPoll, OtherStep

LEMMA OtherIsQuiet == ASSUME TypeOK, OtherStep PROVE Quiet
<1>1. CASE ReadMore
  <2>1. PICK n \in 1 .. Len(wire) :
          /\ rbuf' = rbuf \o SubSeq(wire, 1, n)
          /\ wire' = SubSeq(wire, n + 1, Len(wire))
    BY <1>1 DEF ReadMore, Stream!Take
  <2>2. link' = link /\ sweep' = sweep /\ made' = made
    BY <1>1 DEF ReadMore
  <2> DEFINE r == rbuf
             w == wire
  <2>3. /\ r \in Seq(Stream!Cell) /\ w \in Seq(Stream!Cell) /\ n \in 1 .. Len(w)
        /\ Ahead' = (r \o SubSeq(w, 1, n)) \o SubSeq(w, n + 1, Len(w)) /\ Ahead = r \o w
    BY <2>1, AheadTypes DEF Ahead
  <2> HIDE DEF r, w
  <2>4. Ahead' = Ahead
    BY <2>3, PieceMoved
  <2> QED
    BY <2>2, <2>4 DEF Quiet, up
<1>2. CASE GiveUpOnFrame \/ ReadNothing \/ ReadZero
  <2>1. rbuf' = rbuf /\ sweep' = sweep /\ made' = made
    BY <1>2 DEF GiveUpOnFrame, ReadNothing, ReadZero, phyVars
  <2>2. (wire' = wire /\ link' = link) \/ ~up'
    BY <1>2, CloseTypes DEF GiveUpOnFrame, ReadNothing, ReadZero, connVars
  <2> QED
    BY <2>1, <2>2 DEF Quiet, up, Ahead
<1>3. CASE Select \/ CursesCrashes \/ RoundEnds \/ UserQuits \/ GtkReadsServer
  BY <1>3 DEF Select, CursesCrashes, RoundEnds, UserQuits, GtkReadsServer, Quiet, up, Ahead,
              connVars, parseVars, phyVars
<1>4. CASE \E d \in Devices : PollDevice(d) \/ GtkPolls(d) \/ GtkOpens(d) \/ GtkDrops(d)
  BY <1>4 DEF PollDevice, GtkPolls, GtkOpens, GtkDrops, Quiet, up, Ahead, connVars, parseVars
<1>5. CASE ServerReadsCommand \/ ServerExits \/ UNCHANGED vars
  BY <1>5 DEF ServerReadsCommand, ServerExits, Stream!Subscribe, Quiet, up, Ahead,
              vars, connVars, parseVars, phyVars
<1> QED
  BY <1>1, <1>2, <1>3, <1>4, <1>5 DEF OtherStep

LEMMA ConnectStep ==
  ASSUME TypeOK, FeedInv, Connect
  PROVE  /\ ~up' \/ (link' = "open" /\ Ahead' = Stream!Cells(Stream!DevBlock))
         /\ pc' # "net" /\ (pc' = "idle" => frontend = "gtk") /\ pc' # "connect"
         /\ UNCHANGED <<frontend, subscribed, commands, parseVars, phyVars, todo, made, taken>>
<1>1. rbuf = <<>> /\ link = "none"
  BY DEF Connect, FeedInv, NotConnectedYet
<1>2. Stream!FrameLen(Stream!DevBlock) \in Nat
  BY FrameSizes
<1>3. CASE link' = "open" /\ Stream!Accept
  <2>1. Ahead' = <<>> \o Stream!Cells(Stream!DevBlock)
    BY <1>1, <1>3 DEF Connect, Stream!Accept, Ahead, parseVars
  <2>2. Stream!Cells(Stream!DevBlock) \in Seq(Stream!Cell)
    BY FrameCells
  <2> DEFINE b == Stream!Cells(Stream!DevBlock)
  <2> HIDE DEF b
  <2>3. \A c \in Seq(Stream!Cell) : <<>> \o c = c
    OBVIOUS
  <2>4. Ahead' = Stream!Cells(Stream!DevBlock)
    BY <2>1, <2>2, <2>3
  <2>5. UNCHANGED subscribed
    BY <1>3 DEF Stream!Accept
  <2> QED
    BY <1>3, <2>4, <2>5 DEF Connect, Home, Selecting, TypeOK
<1>4. CASE link' = "ended" /\ UNCHANGED <<wire, subscribed>>
  BY <1>4 DEF Connect, Home, Selecting, up, TypeOK
<1> QED
  BY <1>3, <1>4 DEF Connect

LEMMA BlockIsWhole ==
  ASSUME NEW lo, NEW hi
  PROVE  Whole(Stream!Cells(Stream!DevBlock)) /\ InOrder(Stream!Cells(Stream!DevBlock), lo, hi)
<1> DEFINE b == Stream!Cells(Stream!DevBlock)
           n == Stream!FrameLen(Stream!DevBlock)
<1>1. /\ b \in Seq(Stream!Cell) /\ Len(b) = n /\ n \in Nat \ {0}
      /\ \A i \in 1 .. n : b[i] = [frame |-> Stream!DevBlock, k |-> i]
  BY FrameCells, FrameSizes
<1>2. Stream!DevBlock.type # "sweep"
  BY DEF Stream!DevBlock
<1> HIDE DEF b
<1>3. \A i \in 1 .. n : b[i].frame = Stream!DevBlock /\ b[i].k = i
  BY <1>1
<1>4. InOrder(b, lo, hi)
  BY <1>1, <1>2, <1>3 DEF InOrder, IsSweep
<1>5. ASSUME NEW i \in 1 .. Len(b), NEW j \in 1 .. Stream!FrameLen(b[i].frame)
      PROVE  LET p == i - b[i].k + j
             IN  p \in 1 .. Len(b) /\ b[p] = [frame |-> b[i].frame, k |-> j]
  <2>1. b[i].frame = Stream!DevBlock /\ b[i].k = i /\ j \in 1 .. n
    BY <1>1, <1>3
  <2>2. i - b[i].k + j = j
    BY <1>1, <2>1
  <2> QED
    BY <1>1, <2>1, <2>2
<1> QED
  BY <1>4, <1>5 DEF Whole, b

-----------------------------------------------------------------------------
LEMMA InitFeed == Init => FeedInv
BY DEF Init, FeedInv, AheadIsWhole, NotConnectedYet, BlockFirst, AheadIsOrdered, PhyIsOrdered,
       PhyStages, Places, up

LEMMA NextAhead ==
  TypeOK /\ FeedInv /\ [Next]_vars => (AheadIsWhole /\ AheadIsOrdered)'
<1> SUFFICES ASSUME TypeOK, FeedInv, [Next]_vars, up'
             PROVE  Whole(Ahead') /\ InOrder(Ahead', sweep', made')
  BY DEF AheadIsWhole, AheadIsOrdered, Whole, InOrder
<1>1. Ahead \in Seq(Stream!Cell)
  BY AheadTypes
<1>2. up => Whole(Ahead) /\ InOrder(Ahead, sweep, made)
  BY DEF FeedInv, AheadIsWhole, AheadIsOrdered
<1>3. CASE OtherStep
  BY <1>2, <1>3, OtherIsQuiet DEF Quiet
<1>4. CASE Connect
  BY <1>4, ConnectStep, BlockIsWhole
<1>5. CASE ParseFrame
  <2> DEFINE f == rbuf[1].frame
  <2>1. /\ up /\ Len(Ahead) > 0 /\ Ahead[1].frame = f /\ Ahead' = Cut(Ahead)
        /\ Parsed(f) /\ made' = made
    BY <1>5, ParseStep
  <2>2. Whole(Ahead')
    BY <1>1, <1>2, <2>1, CutIsWhole
  <2>3. InOrder(Cut(Ahead), sweep, made)
    BY <1>1, <1>2, <2>1, CutInOrder
  <2>4. CASE sweep' = sweep
    BY <2>1, <2>2, <2>3, <2>4
  <2>5. CASE f.type = "sweep" /\ f.dev \in devlist /\ sweep' = [sweep EXCEPT ![f.dev] = f.n]
    <3>1. sweep'[f.dev] = f.n /\ \A e \in Devices : e # f.dev => sweep'[e] = sweep[e]
      BY <2>5 DEF TypeOK
    <3>2. IsSweep(Ahead[1]) /\ Ahead[1].frame.n = f.n /\ Ahead[1].frame.dev = f.dev
      BY <2>1, <2>5 DEF IsSweep
    <3> HIDE DEF f
    <3>3. InOrder(Cut(Ahead), sweep', made)
      BY <1>1, <1>2, <2>1, <3>1, <3>2, CutAfterSweep
    <3> QED
      BY <2>1, <2>2, <3>3
  <2> QED
    BY <2>1, <2>4, <2>5 DEF Parsed, BlockNetdev, phyVars
<1>6. ASSUME NEW d \in Devices, ServerSweeps(d)
      PROVE  Whole(Ahead') /\ InOrder(Ahead', sweep', made')
  <2> DEFINE f == Sweep(d, made[d] + 1)
             cs == Stream!Cells(f)
  <2>1. /\ made[d] \in Nat /\ f \in Sweeps /\ made' = [made EXCEPT ![d] = made[d] + 1]
        /\ wire' = wire \/ wire' = wire \o cs
        /\ UNCHANGED <<link, rbuf, sweep>>
    BY <1>6, SweepMade DEF parseVars, phyVars
  <2>2. Whole(Ahead) /\ InOrder(Ahead, sweep, made)
    BY <1>2, <2>1 DEF up
  <2>3. sweep[d] \in Nat /\ sweep[d] <= made[d]
    BY DEF TypeOK, FeedInv, PhyIsOrdered
  <2>4. made'[d] = made[d] + 1 /\ \A e \in Devices : e # d => made'[e] = made[e]
    BY <2>1 DEF TypeOK
  <2>5. Ahead' = Ahead \/ Ahead' = Ahead \o cs
    <3> DEFINE r == rbuf
               w == wire
    <3>1. cs \in Seq(Stream!Cell) /\ r \in Seq(Stream!Cell) /\ w \in Seq(Stream!Cell)
      BY <2>1, FrameCells, AheadTypes
    <3>2. (Ahead' = r \o w \/ Ahead' = r \o (w \o cs)) /\ Ahead = r \o w
      BY <2>1 DEF Ahead
    <3> HIDE DEF r, w, cs
    <3>3. r \o (w \o cs) = (r \o w) \o cs
      BY <3>1
    <3> QED
      BY <3>2, <3>3
  <2>6. Whole(Ahead \o cs)
    BY <1>1, <2>1, <2>2, AppendedIsWhole
  <2>7. InOrder(Ahead, sweep, made') /\ InOrder(Ahead \o cs, sweep, made')
    <3>1. f = Sweep(d, made[d] + 1) /\ f \in Sweeps
      BY <2>1
    <3> HIDE DEF f
    <3> QED
      BY <1>1, <2>1, <2>2, <2>3, <2>4, <3>1, AppendedInOrder
  <2> QED
    BY <2>1, <2>2, <2>5, <2>6, <2>7
<1> QED
  BY <1>3, <1>4, <1>5, <1>6, Steps

LEMMA NextBlock ==
  TypeOK /\ FeedInv /\ [Next]_vars => (NotConnectedYet /\ BlockFirst)'
<1> SUFFICES ASSUME TypeOK, FeedInv, [Next]_vars PROVE (NotConnectedYet /\ BlockFirst)'
  OBVIOUS
<1>1. NotConnectedYet /\ BlockFirst
  BY DEF FeedInv
<1>2. CASE OtherStep
  <2>1. up' => up /\ Ahead' = Ahead
    BY <1>2, OtherIsQuiet DEF Quiet
  <2>2. devlist' = devlist /\ (newdevs' => newdevs)
    <3>1. CASE GiveUpOnFrame \/ ReadMore \/ ReadNothing \/ ReadZero
      BY <3>1 DEF GiveUpOnFrame, ReadMore, ReadNothing, ReadZero
    <3>2. CASE Select \/ CursesCrashes \/ RoundEnds \/ UserQuits \/ GtkReadsServer
      BY <3>2 DEF Select, CursesCrashes, RoundEnds, UserQuits, GtkReadsServer, parseVars
    <3>3. CASE \E d \in Devices : PollDevice(d) \/ GtkPolls(d) \/ GtkOpens(d) \/ GtkDrops(d)
      BY <3>3 DEF PollDevice, GtkPolls, GtkOpens, GtkDrops, parseVars
    <3>4. CASE ServerReadsCommand \/ ServerExits \/ UNCHANGED vars
      BY <3>4 DEF ServerReadsCommand, ServerExits, vars, parseVars
    <3> QED
      BY <1>2, <3>1, <3>2, <3>3, <3>4 DEF OtherStep
  <2>3. pc' = "connect" => pc = "connect" /\ UNCHANGED <<link, rbuf>>
    <3>1. CASE GiveUpOnFrame \/ ReadNothing \/ ReadZero
      BY <3>1, CloseTypes DEF GiveUpOnFrame, ReadNothing, ReadZero, PollReturns
    <3>2. CASE ReadMore \/ Select \/ CursesCrashes \/ RoundEnds \/ UserQuits \/ GtkReadsServer
      BY <3>2 DEF ReadMore, Select, CursesCrashes, RoundEnds, UserQuits, GtkReadsServer
    <3>3. CASE \E d \in Devices : PollDevice(d) \/ GtkPolls(d) \/ GtkOpens(d) \/ GtkDrops(d)
      BY <3>3 DEF PollDevice, GtkPolls, GtkOpens, GtkDrops
    <3>4. CASE ServerReadsCommand \/ ServerExits \/ UNCHANGED vars
      BY <1>1, <3>4 DEF ServerReadsCommand, ServerExits, NotConnectedYet, vars, connVars, parseVars
    <3> QED
      BY <1>2, <3>1, <3>2, <3>3, <3>4 DEF OtherStep
  <2>4. ASSUME devlist # Devices
        PROVE  devlist' = {} /\ subscribed' = {} /\ commands' = {} /\ wbuf' = {}
    <3>1. devlist = {} /\ subscribed = {} /\ commands = {} /\ wbuf = {} /\ ~newdevs
      BY <1>1, <2>4 DEF BlockFirst
    <3>2. EnableNewDevs => UNCHANGED <<phy, piped, wbuf, commands>>
      BY <3>1 DEF EnableNewDevs
    <3>3. CASE GiveUpOnFrame \/ ReadMore \/ ReadNothing \/ ReadZero
      BY <2>2, <3>1, <3>2, <3>3, CloseTypes
         DEF GiveUpOnFrame, ReadMore, ReadNothing, ReadZero, Stream!Take, connVars
    <3>4. CASE Select \/ CursesCrashes \/ RoundEnds \/ UserQuits \/ GtkReadsServer
      BY <2>2, <3>1, <3>4 DEF Select, CursesCrashes, RoundEnds, UserQuits, GtkReadsServer,
                               connVars, parseVars
    <3>5. CASE \E d \in Devices : PollDevice(d) \/ GtkPolls(d) \/ GtkOpens(d) \/ GtkDrops(d)
      BY <2>2, <3>1, <3>5 DEF PollDevice, GtkPolls, GtkOpens, GtkDrops, connVars, parseVars
    <3>6. CASE ServerReadsCommand \/ ServerExits \/ UNCHANGED vars
      BY <2>2, <3>1, <3>6 DEF ServerReadsCommand, ServerExits, vars, connVars, parseVars
    <3> QED
      BY <1>2, <3>3, <3>4, <3>5, <3>6 DEF OtherStep
  <2>5. NotConnectedYet'
    BY <1>1, <2>2, <2>3 DEF NotConnectedYet
  <2>6. BlockFirst'
    BY <1>1, <2>1, <2>2, <2>4 DEF BlockFirst
  <2> QED
    BY <2>5, <2>6
<1>3. CASE Connect
  <2>1. /\ pc' # "connect" /\ UNCHANGED <<subscribed, commands, wbuf, devlist, newdevs>>
        /\ up' => Ahead' = Stream!Cells(Stream!DevBlock)
    BY <1>3, ConnectStep DEF parseVars
  <2>2. Stream!Cells(Stream!DevBlock)' = Stream!Cells(Stream!DevBlock)
    OBVIOUS
  <2> QED
    BY <1>1, <2>1, <2>2 DEF NotConnectedYet, BlockFirst
<1>4. CASE ParseFrame
  <2>1. /\ up /\ pc' = pc /\ Len(Ahead) > 0 /\ Parsed(rbuf[1].frame)
        /\ Ahead[1] = rbuf[1] /\ UNCHANGED <<subscribed, commands, wbuf, link>>
    BY <1>4, ParseStep
  <2>2. pc = "net"
    BY <1>4 DEF ParseFrame
  <2>3. devlist' = Devices
    <3>1. CASE BlockNetdev
      BY <3>1 DEF BlockNetdev
    <3>2. CASE rbuf[1].frame.dev \in devlist /\ devlist' = devlist
      BY <1>1, <3>2 DEF BlockFirst
    <3> QED
      BY <2>1, <3>1, <3>2 DEF Parsed
  <2> QED
    BY <2>1, <2>2, <2>3 DEF NotConnectedYet, BlockFirst
<1>5. ASSUME NEW d \in Devices, ServerSweeps(d) PROVE (NotConnectedYet /\ BlockFirst)'
  <2>1. d \in subscribed /\ link = "open"
    BY <1>5 DEF ServerSweeps
  <2>2. devlist = Devices /\ pc # "connect"
    BY <1>1, <2>1 DEF BlockFirst, NotConnectedYet
  <2>3. UNCHANGED <<pc, devlist>>
    BY <1>5 DEF ServerSweeps, parseVars
  <2> QED
    BY <2>2, <2>3 DEF NotConnectedYet, BlockFirst
<1> QED
  BY <1>2, <1>3, <1>4, <1>5, Steps

LEMMA NextPhys ==
  TypeOK /\ FeedInv /\ [Next]_vars => (PhyIsOrdered /\ PhyStages /\ Places)'
<1> SUFFICES ASSUME TypeOK, FeedInv, [Next]_vars PROVE (PhyIsOrdered /\ PhyStages /\ Places)'
  OBVIOUS
<1>1. PhyIsOrdered /\ PhyStages /\ Places
  BY DEF FeedInv
<1>2. ASSUME UNCHANGED <<sweep, newsweep, made, taken>>,
             \A e \in Devices : phy'[e] = phy[e] \/ (phy[e] = "none" /\ phy'[e] = "CONFIGURING")
      PROVE  (PhyIsOrdered /\ PhyStages)'
  BY <1>1, <1>2 DEF PhyIsOrdered, PhyStages
<1>3. ASSUME EnableNewDevs \/ \E d \in Devices : EnableDevs({d})
      PROVE  \A e \in Devices : phy'[e] = phy[e] \/ (phy[e] = "none" /\ phy'[e] = "CONFIGURING")
  BY <1>3 DEF EnableNewDevs, EnableDevs, Fresh
<1>4. CASE GiveUpOnFrame \/ ReadMore \/ ReadNothing \/ ReadZero
  <2>1. UNCHANGED <<frontend, sweep, newsweep, made, taken>>
    BY <1>4 DEF GiveUpOnFrame, ReadMore, ReadNothing, ReadZero, phyVars
  <2>2. EnableNewDevs \/ phy' = phy
    BY <1>4 DEF GiveUpOnFrame, ReadMore, ReadNothing, ReadZero, phyVars
  <2>3. (PhyIsOrdered /\ PhyStages)'
    BY <1>2, <1>3, <2>1, <2>2
  <2>4. Places'
    <3>1. PollReturns \/ PollFails => pc' # "net" /\ (pc' = "idle" => frontend = "gtk")
      BY DEF PollReturns, PollFails, Selecting, TypeOK
    <3>2. ReadMore => pc' = "net" /\ up'
      BY DEF ReadMore, up
    <3> QED
      BY <1>4, <2>1, <3>1, <3>2 DEF GiveUpOnFrame, ReadNothing, ReadZero, Places
  <2> QED
    BY <2>3, <2>4
<1>5. CASE Connect
  <2>1. UNCHANGED phyVars /\ UNCHANGED <<frontend, made, taken>>
        /\ pc' # "net" /\ (pc' = "idle" => frontend = "gtk")
    BY <1>5, ConnectStep
  <2> QED
    BY <1>2, <2>1 DEF phyVars, Places
<1>6. CASE Select \/ CursesCrashes \/ RoundEnds \/ UserQuits \/ GtkReadsServer
  <2>1. UNCHANGED <<frontend, phy, sweep, newsweep, made, taken>>
    BY <1>6 DEF Select, CursesCrashes, RoundEnds, UserQuits, GtkReadsServer, phyVars
  <2>2. (pc' = "net" => up') /\ pc' # "idle"
    BY <1>6 DEF Select, CursesCrashes, RoundEnds, UserQuits, GtkReadsServer, up, connVars
  <2> QED
    BY <1>2, <2>1, <2>2 DEF Places
<1>7. ASSUME NEW d \in Devices, PollDevice(d) \/ GtkPolls(d)
      PROVE  (PhyIsOrdered /\ PhyStages /\ Places)'
  <2>1. /\ NetPollConfigured(d) \/ NetPollSweep(d) \/ NetPollNone(d)
        /\ UNCHANGED <<frontend, pc, link, sweep, made>>
        /\ pc # "net"
    BY <1>7 DEF PollDevice, GtkPolls, connVars
  <2>2. Places'
    BY <1>1, <2>1 DEF Places
  <2>3. (PhyIsOrdered /\ PhyStages)'
    <3>1. CASE NetPollConfigured(d)
      BY <1>1, <2>1, <3>1 DEF NetPollConfigured, PhyIsOrdered, PhyStages, TypeOK
    <3>2. CASE NetPollSweep(d)
      <4>1. /\ phy[d] = "RUNNING" /\ phy' = phy
            /\ newsweep' = [newsweep EXCEPT ![d] = FALSE]
            /\ taken' = [taken EXCEPT ![d] = sweep[d]]
        BY <3>2 DEF NetPollSweep
      <4>2. sweep[d] <= made[d] /\ sweep[d] <= sweep[d]
        BY <1>1 DEF PhyIsOrdered, TypeOK
      <4> QED
        BY <1>1, <2>1, <4>1, <4>2 DEF PhyIsOrdered, PhyStages, TypeOK
    <3>3. CASE NetPollNone(d)
      BY <1>1, <2>1, <3>3 DEF NetPollNone, PhyIsOrdered, PhyStages
    <3> QED
      BY <2>1, <3>1, <3>2, <3>3
  <2> QED
    BY <2>2, <2>3
<1>8. ASSUME NEW d \in Devices, GtkOpens(d) \/ GtkDrops(d)
      PROVE  (PhyIsOrdered /\ PhyStages /\ Places)'
  <2>1. UNCHANGED <<frontend, pc, sweep, newsweep, made, taken>> /\ pc = "idle"
    BY <1>8 DEF GtkOpens, GtkDrops
  <2>2. (\E e \in Devices : EnableDevs({e})) \/ phy' = phy
    BY <1>8 DEF GtkOpens, GtkDrops
  <2> QED
    BY <1>1, <1>2, <1>3, <2>1, <2>2 DEF Places
<1>9. CASE ParseFrame
  <2> DEFINE f == rbuf[1].frame
  <2>1. /\ up /\ Len(Ahead) > 0 /\ Ahead[1].frame = f /\ Parsed(f)
        /\ UNCHANGED <<frontend, pc, link, phy, made, taken>>
    BY <1>9, ParseStep
  <2>2. Places'
    BY <1>1, <2>1 DEF Places, up
  <2>3. CASE UNCHANGED <<sweep, newsweep>>
    BY <1>2, <2>1, <2>2, <2>3
  <2>4. CASE /\ f.type = "sweep" /\ f.dev \in devlist /\ phy[f.dev] # "none"
             /\ sweep' = [sweep EXCEPT ![f.dev] = f.n]
             /\ newsweep' = [newsweep EXCEPT ![f.dev] = TRUE]
    <3>1. f.dev \in Devices
      BY <2>4 DEF TypeOK
    <3>2. sweep[f.dev] < f.n /\ f.n <= made[f.dev]
      <4>1. InOrder(Ahead, sweep, made) /\ 1 \in 1 .. Len(Ahead)
        BY <2>1, AheadTypes DEF FeedInv, AheadIsOrdered
      <4>2. IsSweep(Ahead[1])
        BY <2>1, <2>4 DEF IsSweep
      <4> QED
        BY <2>1, <4>1, <4>2 DEF InOrder
    <3>3. f.n \in Nat
      <4>1. Ahead \in Seq(Stream!Cell) /\ 1 \in 1 .. Len(Ahead)
        BY <2>1, AheadTypes
      <4>2. Ahead[1] \in Stream!Cell /\ IsSweep(Ahead[1])
        BY <2>1, <2>4, <4>1 DEF IsSweep
      <4> QED
        BY <2>1, <4>2, CellTypes
    <3> HIDE DEF f
    <3>4. taken[f.dev] \in Nat /\ sweep[f.dev] \in Nat /\ made[f.dev] \in Nat
          /\ taken[f.dev] <= sweep[f.dev]
      BY <1>1, <3>1 DEF TypeOK, PhyIsOrdered
    <3>5. taken[f.dev] < f.n
      BY <3>2, <3>3, <3>4
    <3>6. taken[f.dev] <= f.n
      BY <3>3, <3>4, <3>5
    <3>7. sweep'[f.dev] = f.n /\ \A e \in Devices : e # f.dev => sweep'[e] = sweep[e]
                                                           /\ newsweep'[e] = newsweep[e]
      BY <2>4, <3>1 DEF TypeOK
    <3>8. PhyIsOrdered'
      BY <1>1, <2>1, <3>2, <3>5, <3>6, <3>7 DEF PhyIsOrdered
    <3>9. PhyStages'
      BY <1>1, <2>1, <2>4, <3>7 DEF PhyStages
    <3> QED
      BY <2>2, <3>8, <3>9
  <2> QED
    BY <2>1, <2>3, <2>4 DEF Parsed, BlockNetdev, phyVars
<1>10. ASSUME NEW d \in Devices, ServerSweeps(d) PROVE (PhyIsOrdered /\ PhyStages /\ Places)'
  <2>1. /\ made[d] \in Nat /\ made' = [made EXCEPT ![d] = made[d] + 1]
        /\ UNCHANGED <<frontend, pc, link, phyVars, taken>>
    BY <1>10, SweepMade
  <2>2. \A e \in Devices : sweep[e] <= made'[e]
    <3> TAKE e \in Devices
    <3>1. sweep[e] \in Nat /\ made[e] \in Nat /\ sweep[e] <= made[e]
      BY <1>1 DEF TypeOK, PhyIsOrdered
    <3>2. made'[e] = made[e] \/ made'[e] = made[e] + 1
      BY <2>1 DEF TypeOK
    <3> QED
      BY <3>1, <3>2
  <2> QED
    BY <1>1, <2>1, <2>2 DEF PhyIsOrdered, PhyStages, Places, phyVars, up
<1>11. CASE ServerReadsCommand \/ ServerExits \/ UNCHANGED vars
  <2>1. UNCHANGED <<frontend, pc, phyVars, made, taken>> /\ (up => up')
    BY <1>11 DEF ServerReadsCommand, ServerExits, vars, connVars, up
  <2> QED
    BY <1>1, <1>2, <2>1 DEF phyVars, Places
<1> QED
  BY <1>4, <1>5, <1>6, <1>7, <1>8, <1>9, <1>10, <1>11, Steps DEF OtherStep

LEMMA NextFeed == TypeOK /\ FeedInv /\ [Next]_vars => (TypeOK /\ FeedInv)'
BY NextTypes, NextAhead, NextBlock, NextPhys DEF FeedInv

(***************************************************************************)
(* Wherever reads end in the frames, whichever sweeps the server loses and *)
(* whenever the buffer starts over, a frame begins at read_pos: the parser *)
(* never throws a buffer of good frames away.                              *)
(***************************************************************************)
THEOREM FramesFound == Spec => []ParserInStep
<1>1. TypeOK /\ FeedInv => ParserInStep
  <2> SUFFICES ASSUME TypeOK, FeedInv, up, Ahead # <<>> PROVE Ahead[1].k = 1
    BY DEF ParserInStep, Ahead
  <2>1. Ahead \in Seq(Stream!Cell)
    BY AheadTypes
  <2>2. Len(Ahead) > 0
    BY <2>1, EmptySeq
  <2> QED
    BY <2>2, InStepAtFront DEF FeedInv
<1> QED
  BY <1>1, InitTypes, InitFeed, NextFeed, PTL DEF Spec

(***************************************************************************)
(* The client gives its connection up only for the server's end or a full  *)
(* buffer: a sweep of a device that was not advertised, or a frame out of  *)
(* step, never comes.                                                      *)
(***************************************************************************)
THEOREM ConnectionKept == Spec => EndsWithServer
<1>1. TypeOK /\ FeedInv /\ [Next]_vars => [up /\ link' = "ended" => (link = "eof" \/ NoRoom)]_vars
  <2> SUFFICES ASSUME TypeOK, FeedInv, [Next]_vars, up, link' = "ended", link # "eof"
               PROVE  NoRoom
    OBVIOUS
  <2>1. link = "open"
    BY DEF up
  <2>2. link' # link
    BY <2>1
  <2>3. ~ParseFrame
    BY <2>2, ParseStep
  <2>4. ~Connect
    BY <2>1 DEF Connect, FeedInv, NotConnectedYet
  <2>5. ~ \E d \in Devices : ServerSweeps(d)
    BY <2>2 DEF ServerSweeps
  <2>6. ReadZero
    BY <2>1, <2>2, <2>3, <2>4, <2>5, Steps
       DEF OtherStep, GiveUpOnFrame, ReadMore, ReadNothing, Select, CursesCrashes,
           RoundEnds, UserQuits, GtkReadsServer, PollDevice, GtkPolls, GtkOpens, GtkDrops,
           ServerReadsCommand, ServerExits, vars, connVars
  <2> QED
    BY <2>1, <2>6 DEF ReadZero
<1> QED
  BY <1>1, InitTypes, InitFeed, NextFeed, PTL DEF Spec, EndsWithServer

-----------------------------------------------------------------------------
(***************************************************************************)
(* Wake-ups.  A sweep that comes writes a byte, and what drains the pipe   *)
(* either takes the sweep, or leaves the phy to be polled again in the     *)
(* same round, or is the one call of wdr_poll that returns CONFIGURED.     *)
(***************************************************************************)
Woken(d) ==
  newsweep[d] /\ pc \notin {"stopped", "crashed"} =>
    \/ pipe[d] > 0
    \/ frontend = "gtk" /\ taken[d] = 0
    \/ pc = "devices" /\ d \in todo

LEMMA NextWoken == TypeOK /\ FeedInv /\ NoLostWakeup /\ [Next]_vars => NoLostWakeup'
<1> SUFFICES ASSUME TypeOK, FeedInv, NoLostWakeup, [Next]_vars, NEW d \in piped' PROVE Woken(d)'
  BY DEF NoLostWakeup, Woken
<1>1. PhyStages /\ Places
  BY DEF FeedInv
<1>2. /\ d \in piped => Woken(d)
      /\ frontend \in {"raw", "curses", "gtk"} /\ pipe \in [Devices -> Nat]
      /\ newsweep \in [Devices -> BOOLEAN] /\ taken \in [Devices -> 0 .. MaxSweeps]
  BY DEF TypeOK, NoLostWakeup, Woken
<1>3. d \in Devices
  BY NextTypes DEF TypeOK
<1>4. ASSUME EnableNewDevs \/ \E e \in Devices : EnableDevs({e})
      PROVE  d \in piped \/ ~newsweep[d]
  BY <1>1, <1>3, <1>4 DEF EnableNewDevs, EnableDevs, Fresh, PhyStages
<1>5. ASSUME UNCHANGED <<frontend, newsweep, pipe, taken>>, d \in piped \/ ~newsweep[d],
             \/ pc' = pc /\ todo' = todo
             \/ pc # "devices" /\ pc \notin {"stopped", "crashed"}
      PROVE  Woken(d)'
  BY <1>2, <1>5 DEF Woken
<1>6. CASE GiveUpOnFrame \/ ReadMore \/ ReadNothing \/ ReadZero
  <2>1. UNCHANGED <<frontend, newsweep, pipe, taken>> /\ pc = "net"
    BY <1>6 DEF GiveUpOnFrame, ReadMore, ReadNothing, ReadZero, phyVars
  <2>2. EnableNewDevs \/ piped' = piped
    BY <1>6 DEF GiveUpOnFrame, ReadMore, ReadNothing, ReadZero, phyVars
  <2> QED
    BY <1>4, <1>5, <2>1, <2>2
<1>7. CASE Connect \/ Select \/ GtkReadsServer
  <2>1. /\ UNCHANGED <<frontend, newsweep, pipe, taken, piped>>
        /\ pc # "devices" /\ pc \notin {"stopped", "crashed"}
    BY <1>7 DEF Connect, Select, GtkReadsServer, phyVars
  <2> QED
    BY <1>5, <2>1
<1>8. CASE CursesCrashes \/ UserQuits
  BY <1>8 DEF CursesCrashes, UserQuits, Woken
<1>9. CASE RoundEnds
  BY <1>2, <1>9 DEF RoundEnds, Woken, phyVars
<1>10. ASSUME NEW e \in Devices, PollDevice(e) PROVE Woken(d)'
  <2>1. /\ pc = "devices" /\ pc' = pc /\ e \in todo
        /\ UNCHANGED <<frontend, piped>>
    BY <1>10 DEF PollDevice
  <2>2. CASE NetPollConfigured(e) /\ todo' = todo
    <3>1. newsweep' = newsweep /\ taken' = taken /\ DrainPipe(e)
      BY <2>2 DEF NetPollConfigured
    <3>2. d # e => pipe'[d] = pipe[d]
      BY <1>2, <1>3, <3>1 DEF DrainPipe
    <3> QED
      BY <1>2, <2>1, <2>2, <3>1, <3>2 DEF Woken
  <2>3. CASE (NetPollSweep(e) \/ NetPollNone(e)) /\ todo \ {e} \subseteq todo'
    <3>1. /\ DrainPipe(e) /\ ~newsweep'[e]
          /\ \A c \in Devices : c # e => newsweep'[c] = newsweep[c] /\ taken'[c] = taken[c]
      BY <1>2, <2>3 DEF NetPollSweep, NetPollNone
    <3>2. d # e => pipe'[d] = pipe[d]
      BY <1>2, <1>3, <3>1 DEF DrainPipe
    <3> QED
      BY <1>2, <1>3, <2>1, <2>3, <3>1, <3>2 DEF Woken
  <2> QED
    BY <1>10, <2>2, <2>3 DEF PollDevice
<1>11. ASSUME NEW e \in Devices, GtkPolls(e) PROVE Woken(d)'
  <2>1. pc = "idle" /\ frontend = "gtk" /\ UNCHANGED <<frontend, pc, piped, todo>>
    BY <1>1, <1>11 DEF GtkPolls, Places
  <2>2. ASSUME d # e
        PROVE  (newsweep'[d] <=> newsweep[d]) /\ pipe'[d] = pipe[d] /\ taken'[d] = taken[d]
    BY <1>2, <1>3, <1>11, <2>2
       DEF GtkPolls, NetPollConfigured, NetPollSweep, NetPollNone, DrainPipe
  <2>3. CASE NetPollConfigured(e)
    <3>1. taken'[e] = 0
      BY <1>1, <2>3 DEF NetPollConfigured, PhyStages
    <3>2. CASE d = e
      BY <2>1, <3>1, <3>2 DEF Woken
    <3>3. CASE d # e
      <4>1. d \in piped /\ Woken(d)
        BY <1>2, <2>1
      <4> QED
        BY <2>1, <2>2, <3>3, <4>1 DEF Woken
    <3> QED
      BY <3>2, <3>3
  <2>4. CASE NetPollSweep(e) \/ NetPollNone(e)
    <3>1. ~newsweep'[e]
      BY <1>2, <2>4 DEF NetPollSweep, NetPollNone
    <3> QED
      BY <1>2, <2>1, <2>2, <3>1 DEF Woken
  <2> QED
    BY <1>11, <2>3, <2>4 DEF GtkPolls
<1>12. ASSUME NEW e \in Devices, GtkOpens(e) PROVE Woken(d)'
  BY <1>4, <1>5, <1>12 DEF GtkOpens
<1>13. ASSUME NEW e \in Devices, GtkDrops(e) PROVE Woken(d)'
  BY <1>2, <1>13 DEF GtkDrops, Woken
<1>14. CASE ParseFrame
  <2> DEFINE f == rbuf[1].frame
  <2>1. Parsed(f) /\ UNCHANGED <<frontend, pc, piped, todo, taken>>
    BY <1>14, ParseStep
  <2>2. CASE UNCHANGED <<newsweep, pipe>>
    BY <1>2, <2>1, <2>2 DEF Woken
  <2>3. CASE /\ newsweep' = [newsweep EXCEPT ![f.dev] = TRUE]
             /\ pipe' = [pipe EXCEPT ![f.dev] = IF f.dev \in piped THEN @ + 1 ELSE @]
    <3> HIDE DEF f
    <3>1. CASE d # f.dev
      BY <1>2, <1>3, <2>1, <2>3, <3>1 DEF Woken
    <3>2. CASE d = f.dev
      <4>1. pipe'[d] = pipe[d] + 1 /\ pipe[d] \in Nat
        BY <1>2, <1>3, <2>1, <2>3, <3>2
      <4> QED
        BY <4>1 DEF Woken
    <3> QED
      BY <3>1, <3>2
  <2> QED
    BY <2>1, <2>2, <2>3 DEF Parsed, BlockNetdev, phyVars
<1>15. CASE \/ ServerReadsCommand \/ ServerExits \/ UNCHANGED vars
            \/ \E e \in Devices : ServerSweeps(e)
  <2>1. UNCHANGED <<frontend, newsweep, pipe, taken, piped, pc, todo>>
    BY <1>15 DEF ServerReadsCommand, ServerExits, ServerSweeps, Feed!Make, vars, phyVars
  <2>2. d \in piped
    BY <2>1
  <2>3. UNCHANGED <<frontend, newsweep, pipe, taken>> /\ pc' = pc /\ todo' = todo
    BY <2>1
  <2> QED
    BY <1>5, <2>2, <2>3
<1> QED
  BY <1>6, <1>7, <1>8, <1>9, <1>10, <1>11, <1>12, <1>13, <1>14, <1>15, Steps DEF OtherStep

(***************************************************************************)
(* A front end is never left asleep with a sweep it has not taken, however *)
(* many sweeps come between two polls and however many bytes one poll      *)
(* reads; the exceptions are those NoLostWakeup names.                     *)
(***************************************************************************)
THEOREM AlwaysWoken == Spec => []NoLostWakeup
<1>1. Init => NoLostWakeup
  BY DEF Init, NoLostWakeup
<1>2. TypeOK /\ FeedInv /\ NoLostWakeup /\ [Next]_vars => (TypeOK /\ FeedInv /\ NoLostWakeup)'
  BY NextFeed, NextWoken
<1> QED
  BY <1>1, <1>2, InitTypes, InitFeed, PTL DEF Spec

-----------------------------------------------------------------------------
LEMMA StepsRefineFeed == TypeOK /\ FeedInv /\ [Next]_vars => [Feed!Next]_(Feed!feedVars)
<1> SUFFICES ASSUME TypeOK, FeedInv, [Next]_vars PROVE [Feed!Next]_(Feed!feedVars)
  OBVIOUS
<1>1. ASSUME UNCHANGED <<made, taken>> PROVE [Feed!Next]_(Feed!feedVars)
  BY <1>1 DEF Feed!feedVars
<1>2. ASSUME NEW d \in Devices, PollDevice(d) \/ GtkPolls(d) PROVE [Feed!Next]_(Feed!feedVars)
  <2>1. made' = made /\ (NetPollConfigured(d) \/ NetPollSweep(d) \/ NetPollNone(d))
    BY <1>2 DEF PollDevice, GtkPolls
  <2>2. CASE NetPollSweep(d)
    <3>1. newsweep[d] /\ taken' = [taken EXCEPT ![d] = sweep[d]]
      BY <2>2 DEF NetPollSweep
    <3>2. /\ taken[d] \in Nat /\ sweep[d] \in Nat /\ made[d] \in Nat
          /\ taken[d] < sweep[d] /\ sweep[d] <= made[d]
      BY <3>1 DEF TypeOK, FeedInv, PhyIsOrdered
    <3>3. sweep[d] \in taken[d] + 1 .. made[d]
      BY <3>2
    <3> QED
      BY <2>1, <3>1, <3>3 DEF Feed!Get, Feed!Next
  <2>3. CASE NetPollConfigured(d) \/ NetPollNone(d)
    BY <1>1, <2>1, <2>3 DEF NetPollConfigured, NetPollNone
  <2> QED
    BY <2>1, <2>2, <2>3
<1>3. ASSUME NEW d \in Devices, ServerSweeps(d) PROVE [Feed!Next]_(Feed!feedVars)
  BY <1>3 DEF ServerSweeps, Feed!Next
<1>4. CASE Connect \/ ParseFrame \/ GiveUpOnFrame \/ ReadMore \/ ReadNothing \/ ReadZero
  BY <1>1, <1>4 DEF Connect, ParseFrame, GiveUpOnFrame, ReadMore, ReadNothing, ReadZero
<1>5. CASE Select \/ CursesCrashes \/ RoundEnds \/ UserQuits \/ GtkReadsServer
  BY <1>1, <1>5 DEF Select, CursesCrashes, RoundEnds, UserQuits, GtkReadsServer
<1>6. CASE \/ ServerReadsCommand \/ ServerExits \/ UNCHANGED vars
           \/ \E d \in Devices : GtkOpens(d) \/ GtkDrops(d)
  BY <1>1, <1>6 DEF ServerReadsCommand, ServerExits, vars, GtkOpens, GtkDrops
<1> QED
  BY <1>2, <1>3, <1>4, <1>5, <1>6, Steps DEF OtherStep

(***************************************************************************)
(* What the front end gets of a device are sweeps the device made, each at *)
(* most once and in the order they were made, through the server's losses, *)
(* the parser, and the phy that keeps only the newest.                     *)
(***************************************************************************)
THEOREM FeedImplemented == Spec => ImplementsFeed
<1>1. Init => Feed!Init
  BY DEF Init, Feed!Init
<1>2. Init => TypeOK /\ FeedInv
  BY InitTypes, InitFeed
<1>3. TypeOK /\ FeedInv /\ [Next]_vars => [Feed!Next]_(Feed!feedVars)
  BY StepsRefineFeed
<1> QED
  BY <1>1, <1>2, <1>3, NextFeed, PTL DEF Spec, ImplementsFeed, Feed!Spec
=============================================================================
