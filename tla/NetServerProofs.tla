-------------------------- MODULE NetServerProofs ---------------------------
(***************************************************************************)
(* Proofs about the network server, for every set of clients and devices,  *)
(* every size of frame and buffer and every number of commands: the write  *)
(* buffer is never overrun, a client gets no sweeps it did not ask for     *)
(* last, the frames it gets are whole, and each connection is a            *)
(* SweepStream.                                                            *)
(***************************************************************************)
EXTENDS NetServer, DataLemmas, SequenceTheorems

(***************************************************************************)
(* Types.                                                                  *)
(***************************************************************************)

LEMMA FrameSizes ==
  ASSUME NEW f \in Frame PROVE FrameLen(f) \in Nat \ {0}
BY LenAssumption DEF FrameLen, Frame

LEMMA CellsOfFrame ==
  ASSUME NEW f \in Frame PROVE Cells(f) \in Seq(Cell) /\ Len(Cells(f)) = FrameLen(f)
<1>1. FrameLen(f) \in Nat
  BY FrameSizes
<1>2. \A k \in 1 .. FrameLen(f) : [frame |-> f, k |-> k] \in Cell
  BY DEF Cell
<1>3. Cells(f) \in [1 .. FrameLen(f) -> Cell]
  BY <1>2 DEF Cells
<1> QED
  BY <1>1, <1>3

LEMMA AppendedTypes ==
  ASSUME NEW c \in Clients, wbuf \in [Clients -> Seq(Cell)], NEW f \in Frame
  PROVE  Appended(c, f) \in Seq(Cell)
BY CellsOfFrame, ConcatProperties DEF Appended

(* The list without its first match: still a list of devices; each of them *)
(* was there; and if none was there twice, the match is gone.              *)
Distinct(s) == \A i, j \in DOMAIN s : s[i] = s[j] => i = j

LEMMA RemoveFirstProperties ==
  ASSUME NEW S, NEW s \in Seq(S), NEW e
  PROVE  /\ RemoveFirst(s, e) \in Seq(S)
         /\ \A i \in DOMAIN RemoveFirst(s, e) : \E j \in DOMAIN s : RemoveFirst(s, e)[i] = s[j]
         /\ Distinct(s) => /\ Distinct(RemoveFirst(s, e))
                           /\ \A i \in DOMAIN RemoveFirst(s, e) : RemoveFirst(s, e)[i] # e
<1>1. CASE ~ \E i \in 1 .. Len(s) : s[i] = e
  BY <1>1 DEF RemoveFirst
<1>2. CASE \E i \in 1 .. Len(s) : s[i] = e
  <2> DEFINE I == {i \in 1 .. Len(s) : s[i] = e}
             m == Min(I)
             h == SubSeq(s, 1, m - 1)
             t == SubSeq(s, m + 1, Len(s))
  <2>1. I # {} /\ I \subseteq Nat
    BY <1>2
  <2>2. m \in I
    <3>1. PICK x \in I : \A y \in I : x <= y
      BY <2>1, LeastExists
    <3> QED
      BY <3>1 DEF Min
  <2>3. RemoveFirst(s, e) = h \o t
    BY <1>2, <2>1 DEF RemoveFirst, RemoveAt, SelectInSeq
  <2>4. m \in 1 .. Len(s) /\ s[m] = e
    BY <2>2
  <2> HIDE DEF m
  <2>5. /\ h \in Seq(S) /\ Len(h) = m - 1
        /\ \A i \in 1 .. m - 1 : h[i] = s[i]
    BY <2>4, SubSeqProperties
  <2>6. /\ t \in Seq(S) /\ Len(t) = Len(s) - m
        /\ \A i \in 1 .. Len(s) - m : t[i] = s[i + m]
    BY <2>4, SubSeqProperties
  <2> HIDE DEF h, t
  <2>7. /\ h \o t \in Seq(S) /\ Len(h \o t) = Len(s) - 1
        /\ \A i \in 1 .. Len(s) - 1 : (h \o t)[i] = IF i < m THEN s[i] ELSE s[i + 1]
    <3>1. Len(s) \in Nat /\ m \in 1 .. Len(s)
      BY <2>4
    <3>2. /\ h \o t \in Seq(S) /\ Len(h \o t) = (m - 1) + (Len(s) - m)
          /\ \A i \in 1 .. (m - 1) + (Len(s) - m) :
               (h \o t)[i] = IF i <= m - 1 THEN h[i] ELSE t[i - (m - 1)]
      <4>1. h \in Seq(S) /\ t \in Seq(S) /\ Len(h) = m - 1 /\ Len(t) = Len(s) - m
        BY <2>5, <2>6
      <4>2. /\ h \o t \in Seq(S) /\ Len(h \o t) = Len(h) + Len(t)
            /\ \A i \in 1 .. Len(h) + Len(t) :
                 (h \o t)[i] = IF i <= Len(h) THEN h[i] ELSE t[i - Len(h)]
        BY <4>1, ConcatProperties, Zenon
      <4> QED
        BY <4>1, <4>2, Zenon
    <3>3. (m - 1) + (Len(s) - m) = Len(s) - 1
      BY <3>1
    <3>4. ASSUME NEW i \in 1 .. Len(s) - 1
          PROVE  (h \o t)[i] = IF i < m THEN s[i] ELSE s[i + 1]
      <4>1. (h \o t)[i] = IF i <= m - 1 THEN h[i] ELSE t[i - (m - 1)]
        BY <3>2, <3>3
      <4>2. CASE i < m
        <5>1. i <= m - 1 /\ i \in 1 .. m - 1
          BY <3>1, <4>2
        <5>2. h[i] = s[i]
          BY <2>5, <5>1, Zenon
        <5>3. (h \o t)[i] = h[i]
          BY <4>1, <5>1, Zenon
        <5> QED
          BY <4>2, <5>2, <5>3, Zenon
      <4>3. CASE ~(i < m)
        <5>1. i - (m - 1) \in 1 .. Len(s) - m /\ i - (m - 1) + m = i + 1
          BY <3>1, <4>3
        <5>2. t[i - (m - 1)] = s[(i - (m - 1)) + m]
          BY <2>6, <5>1, Zenon
        <5>3. ~(i <= m - 1)
          BY <3>1, <4>3
        <5>4. (h \o t)[i] = t[i - (m - 1)]
          BY <4>1, <5>3, Zenon
        <5>5. (h \o t)[i] = s[i + 1]
          BY <5>1, <5>2, <5>4, Zenon
        <5> QED
          BY <4>3, <5>5, Zenon
      <4> QED
        BY <4>2, <4>3
    <3> QED
      BY <3>2, <3>3, <3>4
  <2> DEFINE u == RemoveFirst(s, e)
             P(i) == IF i < m THEN i ELSE i + 1
  <2>8. /\ u \in Seq(S) /\ DOMAIN u = 1 .. Len(s) - 1
        /\ \A i \in DOMAIN u : P(i) \in DOMAIN s /\ P(i) # m /\ u[i] = s[P(i)]
    <3>1. u \in Seq(S) /\ Len(u) = Len(s) - 1
      BY <2>3, <2>7
    <3>2. DOMAIN u = 1 .. Len(s) - 1
      BY <3>1
    <3>3. ASSUME NEW i \in 1 .. Len(s) - 1
          PROVE  P(i) \in DOMAIN s /\ P(i) # m /\ u[i] = s[P(i)]
      <4>1. u[i] = s[P(i)]
        BY <2>3, <2>7
      <4>2. P(i) \in 1 .. Len(s) /\ P(i) # m
        BY <2>4
      <4> QED
        BY <4>1, <4>2
    <3> QED
      BY <3>1, <3>2, <3>3
  <2>9. \A i, j \in DOMAIN u : P(i) = P(j) => i = j
    <3>1. m \in Int /\ DOMAIN u \subseteq Int
      BY <2>4, <2>8
    <3> HIDE DEF u
    <3> QED
      BY <3>1
  <2>10. m \in DOMAIN s
    BY <2>4
  <2> HIDE DEF u, P
  <2>11. \A i \in DOMAIN u : \E j \in DOMAIN s : u[i] = s[j]
    BY <2>8
  <2>12. ASSUME Distinct(s) PROVE Distinct(u) /\ \A i \in DOMAIN u : u[i] # e
    BY <2>12, <2>4, <2>8, <2>9, <2>10 DEF Distinct
  <2> QED
    BY <2>8, <2>11, <2>12 DEF u
<1> QED
  BY <1>1, <1>2
-----------------------------------------------------------------------------
LEMMA InitTypes == Init => TypeOK /\ BufferFits
BY LenAssumption DEF Init, TypeOK, BufferFits

(* What a partial write leaves.                                            *)
LEMMA WriteTypes == TypeOK /\ (\E c \in Clients : WriteToClient(c)) => TypeOK'
<1> SUFFICES ASSUME TypeOK, NEW c \in Clients, WriteToClient(c) PROVE TypeOK'
  OBVIOUS
<1>1. PICK n \in 1 .. Len(wbuf[c]) :
        /\ down' = [down EXCEPT ![c] = @ \o SubSeq(wbuf[c], 1, n)]
        /\ wbuf' = [wbuf EXCEPT ![c] = SubSeq(@, n + 1, Len(@))]
        /\ wpos' = [wpos EXCEPT ![c] = WritePos(c, n)]
  BY DEF WriteToClient
<1>2. wbuf[c] \in Seq(Cell) /\ down[c] \in Seq(Cell) /\ wpos[c] \in Nat
  BY DEF TypeOK
<1>3. SubSeq(wbuf[c], 1, n) \in Seq(Cell) /\ SubSeq(wbuf[c], n + 1, Len(wbuf[c])) \in Seq(Cell)
  BY <1>2
<1>4. down[c] \o SubSeq(wbuf[c], 1, n) \in Seq(Cell)
  BY <1>2, <1>3
<1>5. WritePos(c, n) \in Nat
  BY <1>1, <1>2 DEF WritePos
<1> QED
  BY <1>1, <1>3, <1>4, <1>5 DEF TypeOK, WriteToClient

(* What a command leaves.                                                  *)
LEMMA CommandTypes ==
  TypeOK /\ (\E c \in Clients : ReadEnable(c) \/ ReadDisable(c)) => TypeOK'
<1> SUFFICES ASSUME TypeOK, NEW c \in Clients, ReadEnable(c) \/ ReadDisable(c) PROVE TypeOK'
  OBVIOUS
<1>1. devlist[c] \in Seq(Devices) /\ want[c] \subseteq Devices
  BY DEF TypeOK
<1>2. up[c] \in Seq(Command) /\ up[c] # <<>>
  BY DEF TypeOK, ReadEnable, ReadDisable
<1>3. Tail(up[c]) \in Seq(Command)
  BY <1>2
<1>4. ASSUME NEW d PROVE Enabled(c, d) \in Seq(Devices) /\ Disabled(c, d) \in Seq(Devices)
  <2>1. RemoveFirst(devlist[c], d) \in Seq(Devices)
    BY <1>1, RemoveFirstProperties
  <2> QED
    BY <1>1, <2>1 DEF Enabled, Disabled
<1>5. CASE ReadEnable(c)
  BY <1>1, <1>3, <1>4, <1>5 DEF TypeOK, ReadEnable
<1>6. CASE ReadDisable(c)
  <2>1. server' \in {"crashed", server}
    BY <1>6 DEF ReadDisable
  <2>2. devlist' = devlist \/ devlist' = [devlist EXCEPT ![c] = Disabled(c, Head(up[c]).id)]
    BY <1>6 DEF ReadDisable
  <2>3. want' = want \/ want' = [want EXCEPT ![c] = @ \ {Head(up[c]).id}]
    BY <1>6 DEF ReadDisable
  <2>4. devlist' \in [Clients -> Seq(Devices)] /\ want' \in [Clients -> SUBSET Devices]
    <3>1. Disabled(c, Head(up[c]).id) \in Seq(Devices)
      BY <1>4
    <3>2. devlist' \in [Clients -> Seq(Devices)]
      BY <2>2, <3>1 DEF TypeOK
    <3>3. want' \in [Clients -> SUBSET Devices]
      BY <1>1, <2>3 DEF TypeOK
    <3> QED
      BY <3>2, <3>3
  <2>5. up' = [up EXCEPT ![c] = Tail(@)] /\ UNCHANGED <<conn, wbuf, wpos, down, last>>
    BY <1>6 DEF ReadDisable
  <2>6. up' \in [Clients -> Seq(Command)]
    BY <1>3, <2>5 DEF TypeOK
  <2> QED
    BY <2>1, <2>4, <2>5, <2>6 DEF TypeOK
<1> QED
  BY <1>5, <1>6

(* What a frame leaves.                                                    *)
LEMMA FrameTypes ==
  TypeOK /\ ((\E c \in Clients : Accept(c)) \/ (\E d \in Devices : SendSweepBlock(d))) => TypeOK'
<1>1. ASSUME TypeOK, NEW c \in Clients, Accept(c) PROVE TypeOK'
  <2>1. Appended(c, DevBlock) \in Seq(Cell)
    BY <1>1, AppendedTypes DEF TypeOK, Frame
  <2> QED
    BY <1>1, <2>1 DEF TypeOK, Accept
<1>2. ASSUME TypeOK, NEW d \in Devices, SendSweepBlock(d) PROVE TypeOK'
  <2>1. \A c \in Clients : Appended(c, Sweep(d)) \in Seq(Cell)
    BY <1>2, AppendedTypes DEF TypeOK, Frame
  <2> QED
    BY <1>2, <2>1 DEF TypeOK, SendSweepBlock
<1> QED
  BY <1>1, <1>2

LEMMA ClientTypes ==
  TypeOK /\ (\E c \in Clients : ClientStep(c) \/ DropClient(c)) => TypeOK'
<1> SUFFICES ASSUME TypeOK, NEW c \in Clients, ClientStep(c) \/ DropClient(c) PROVE TypeOK'
  OBVIOUS
<1>1. CASE ClientConnects(c)
  BY <1>1 DEF ClientConnects, TypeOK
<1>2. CASE ClientReceives(c)
  <2>1. down[c] \in Seq(Cell) /\ down[c] # <<>>
    BY <1>2 DEF ClientReceives, TypeOK
  <2>2. Head(down[c]) \in Cell /\ Tail(down[c]) \in Seq(Cell)
    BY <2>1
  <2> QED
    BY <1>2, <2>2 DEF ClientReceives, TypeOK
<1>3. CASE ClientHangsUp(c)
  BY <1>3 DEF ClientHangsUp, TypeOK
<1>4. ASSUME NEW m \in Command, ClientSends(c, m) PROVE TypeOK'
  <2>1. Append(up[c], m) \in Seq(Command)
    BY DEF TypeOK
  <2> QED
    BY <1>4, <2>1 DEF ClientSends, TypeOK
<1>5. CASE DropClient(c)
  BY <1>5 DEF DropClient, Unlink, TypeOK
<1> QED
  BY <1>1, <1>2, <1>3, <1>4, <1>5 DEF ClientStep

LEMMA NextTypes == TypeOK /\ [Next]_vars => TypeOK'
<1>1. TypeOK /\ (ServerExits \/ UNCHANGED vars) => TypeOK'
  BY DEF TypeOK, ServerExits, vars
<1> QED
  BY <1>1, WriteTypes, CommandTypes, FrameTypes, ClientTypes DEF Next, ServerStep

(***************************************************************************)
(* The records of wts_poll keep their types whatever the clients do: only  *)
(* devices of the server are ever in the list of a client.                 *)
(***************************************************************************)
THEOREM TypeCorrect == Spec => []TypeOK
  BY InitTypes, NextTypes, PTL DEF Spec

-----------------------------------------------------------------------------
(***************************************************************************)
(* The buffer.  A write moves its begin and leaves its end where it is, or *)
(* leaves it empty at the start; an append moves its end as far as the     *)
(* test of wts_cli_append allows.                                          *)
(***************************************************************************)
LEMMA AppendedFits ==
  ASSUME TypeOK, BufferFits, NEW c \in Clients, NEW f \in Frame
  PROVE  wpos[c] + Len(Appended(c, f)) < BufSz
<1>1. /\ wpos[c] \in Nat /\ wbuf[c] \in Seq(Cell) /\ Cells(f) \in Seq(Cell)
      /\ Len(Cells(f)) = FrameLen(f) /\ FrameLen(f) \in Nat
  BY CellsOfFrame, FrameSizes DEF TypeOK
<1>2. Len(wbuf[c] \o Cells(f)) = Len(wbuf[c]) + FrameLen(f)
  BY <1>1
<1> QED
  BY <1>1, <1>2, LenAssumption DEF Appended, Fits, BufferFits

LEMMA NextFits == TypeOK /\ BufferFits /\ [Next]_vars => BufferFits'
<1> SUFFICES ASSUME TypeOK, BufferFits, [Next]_vars PROVE BufferFits'
  OBVIOUS
<1>1. ASSUME NEW c \in Clients, WriteToClient(c) PROVE BufferFits'
  <2>1. PICK n \in 1 .. Len(wbuf[c]) :
          /\ wbuf' = [wbuf EXCEPT ![c] = SubSeq(@, n + 1, Len(@))]
          /\ wpos' = [wpos EXCEPT ![c] = WritePos(c, n)]
    BY <1>1 DEF WriteToClient
  <2>2. wbuf[c] \in Seq(Cell) /\ wpos[c] \in Nat /\ wpos[c] + Len(wbuf[c]) < BufSz
    BY DEF TypeOK, BufferFits
  <2>3. Len(SubSeq(wbuf[c], n + 1, Len(wbuf[c]))) = Len(wbuf[c]) - n
    BY <2>2
  <2>4. WritePos(c, n) + (Len(wbuf[c]) - n) < BufSz
    BY <2>2, LenAssumption DEF WritePos
  <2> QED
    BY <2>1, <2>3, <2>4 DEF BufferFits, TypeOK
<1>2. ASSUME NEW c \in Clients, DropClient(c) PROVE BufferFits'
  BY <1>2, LenAssumption DEF DropClient, Unlink, BufferFits, TypeOK
<1>3. ASSUME NEW c \in Clients, Accept(c) PROVE BufferFits'
  <2>1. DevBlock \in Frame
    BY DEF Frame
  <2>2. wpos[c] + Len(Appended(c, DevBlock)) < BufSz
    BY <2>1, AppendedFits
  <2> QED
    BY <1>3, <2>2 DEF Accept, BufferFits, TypeOK
<1>4. ASSUME NEW d \in Devices, SendSweepBlock(d) PROVE BufferFits'
  <2>1. Sweep(d) \in Frame
    BY DEF Frame
  <2>2. \A c \in Clients : wpos[c] + Len(Appended(c, Sweep(d))) < BufSz
    BY <2>1, AppendedFits
  <2> QED
    BY <1>4, <2>2 DEF SendSweepBlock, BufferFits, TypeOK
<1>5. ASSUME UNCHANGED <<wbuf, wpos>> PROVE BufferFits'
  BY <1>5 DEF BufferFits
<1>6. ASSUME NEW c \in Clients, ReadEnable(c) \/ ReadDisable(c) \/ ClientStep(c)
      PROVE  UNCHANGED <<wbuf, wpos>>
  BY <1>6 DEF ReadEnable, ReadDisable, ClientStep, ClientConnects, ClientReceives,
              ClientHangsUp, ClientSends
<1>7. ServerExits \/ UNCHANGED vars => UNCHANGED <<wbuf, wpos>>
  BY DEF ServerExits, vars
<1> QED
  BY <1>1, <1>2, <1>3, <1>4, <1>5, <1>6, <1>7 DEF Next, ServerStep

(***************************************************************************)
(* wts_cli_append writes nothing past the end of wbuf, for every size of   *)
(* frame and buffer and every partial write.                               *)
(***************************************************************************)
THEOREM BufferSafe == Spec => []BufferFits
<1>1. TypeOK /\ BufferFits /\ [Next]_vars => (TypeOK /\ BufferFits)'
  BY NextTypes, NextFits
<1> QED
  BY <1>1, InitTypes, PTL DEF Spec

-----------------------------------------------------------------------------
(***************************************************************************)
(* Subscriptions.  Without the test for "dupe enables" a device could be   *)
(* in a list twice, and a disable that unlinks the first match would leave *)
(* it there.                                                               *)
(***************************************************************************)
NoDuplicates == \A c \in Clients : Distinct(devlist[c])

SubInv == TypeOK /\ NoDuplicates /\ NothingUnwanted

LEMMA EnabledList ==
  ASSUME NEW c \in Clients, devlist[c] \in Seq(Devices), Distinct(devlist[c]),
         NEW d, NEW W, \A i \in DOMAIN devlist[c] : devlist[c][i] \in W
  PROVE  /\ Distinct(Enabled(c, d))
         /\ \A i \in DOMAIN Enabled(c, d) : Enabled(c, d)[i] \in W \cup ({d} \cap Devices)
<1> DEFINE s == devlist[c]
           u == <<d>> \o s
<1>1. CASE d \in Devices /\ ~Contains(s, d)
  <2>1. Len(u) = Len(s) + 1 /\ DOMAIN u = 1 .. Len(s) + 1
    BY <1>1
  <2>2. u[1] = d /\ \A i \in 2 .. Len(s) + 1 : u[i] = s[i - 1]
    BY <1>1
  <2>3. \A i \in 1 .. Len(s) : s[i] # d
    BY <1>1 DEF Contains
  <2> HIDE DEF u
  <2>4. Distinct(u)
    BY <2>1, <2>2, <2>3 DEF Distinct
  <2>5. \A i \in DOMAIN u : u[i] \in W \cup {d}
    BY <2>1, <2>2
  <2> QED
    BY <1>1, <2>4, <2>5 DEF Enabled, u
<1>2. CASE ~(d \in Devices /\ ~Contains(s, d))
  BY <1>2 DEF Enabled
<1> QED
  BY <1>1, <1>2

LEMMA DisabledList ==
  ASSUME NEW c \in Clients, devlist[c] \in Seq(Devices), Distinct(devlist[c]),
         NEW d, NEW W, \A i \in DOMAIN devlist[c] : devlist[c][i] \in W
  PROVE  /\ Distinct(Disabled(c, d))
         /\ \A i \in DOMAIN Disabled(c, d) : Disabled(c, d)[i] \in W \ {d}
<1>1. /\ Distinct(RemoveFirst(devlist[c], d))
      /\ \A i \in DOMAIN RemoveFirst(devlist[c], d) :
           /\ RemoveFirst(devlist[c], d)[i] # d
           /\ \E j \in DOMAIN devlist[c] : RemoveFirst(devlist[c], d)[i] = devlist[c][j]
  BY RemoveFirstProperties
<1>2. Distinct(<<>>) /\ DOMAIN <<>> = {}
  BY DEF Distinct
<1> QED
  BY <1>1, <1>2 DEF Disabled

LEMMA InitSub == Init => SubInv
<1>1. Init => NoDuplicates /\ NothingUnwanted
  BY DEF Init, NoDuplicates, Distinct, NothingUnwanted
<1> QED
  BY <1>1, InitTypes DEF SubInv

LEMMA NextSub == SubInv /\ [Next]_vars => SubInv'
<1> SUFFICES ASSUME SubInv, [Next]_vars PROVE (NoDuplicates /\ NothingUnwanted)'
  BY NextTypes DEF SubInv
<1> USE DEF SubInv
<1>1. ASSUME NEW c \in Clients, ReadEnable(c) PROVE (NoDuplicates /\ NothingUnwanted)'
  <2> DEFINE d == Head(up[c]).id
  <2>1. /\ devlist' = [devlist EXCEPT ![c] = Enabled(c, d)]
        /\ want' = [want EXCEPT ![c] = @ \cup ({d} \cap Devices)]
        /\ server' = server /\ server = "running"
    BY <1>1 DEF ReadEnable, Served
  <2>2. /\ Distinct(Enabled(c, d))
        /\ \A i \in DOMAIN Enabled(c, d) : Enabled(c, d)[i] \in want[c] \cup ({d} \cap Devices)
    BY <2>1, EnabledList DEF TypeOK, NoDuplicates, NothingUnwanted
  <2> HIDE DEF d
  <2> QED
    BY <2>1, <2>2 DEF TypeOK, NoDuplicates, NothingUnwanted
<1>2. ASSUME NEW c \in Clients, ReadDisable(c) PROVE (NoDuplicates /\ NothingUnwanted)'
  <2> DEFINE d == Head(up[c]).id
  <2>1. CASE SearchFaults(c, d)
    BY <1>2, <2>1 DEF ReadDisable, NoDuplicates, NothingUnwanted
  <2>2. CASE ~SearchFaults(c, d)
    <3>1. /\ devlist' = [devlist EXCEPT ![c] = Disabled(c, d)]
          /\ want' = [want EXCEPT ![c] = @ \ {d}]
          /\ server' = server /\ server = "running"
      BY <1>2, <2>2 DEF ReadDisable, Served
    <3>2. /\ Distinct(Disabled(c, d))
          /\ \A i \in DOMAIN Disabled(c, d) : Disabled(c, d)[i] \in want[c] \ {d}
      BY <3>1, DisabledList DEF TypeOK, NoDuplicates, NothingUnwanted
    <3> HIDE DEF d
    <3> QED
      BY <3>1, <3>2 DEF TypeOK, NoDuplicates, NothingUnwanted
  <2> QED
    BY <2>1, <2>2
<1>3. ASSUME NEW c \in Clients, DropClient(c) PROVE (NoDuplicates /\ NothingUnwanted)'
  BY <1>3 DEF DropClient, Unlink, TypeOK, NoDuplicates, NothingUnwanted, Distinct
<1>4. ASSUME UNCHANGED <<devlist, want>>, server' = "running" => server = "running"
      PROVE  (NoDuplicates /\ NothingUnwanted)'
  BY <1>4 DEF NoDuplicates, NothingUnwanted
<1>5. ASSUME NEW c \in Clients, WriteToClient(c) \/ Accept(c) \/ ClientStep(c)
      PROVE  UNCHANGED <<devlist, want>> /\ (server' = "running" => server = "running")
  BY <1>5 DEF WriteToClient, Accept, ClientStep, ClientConnects, ClientReceives,
              ClientHangsUp, ClientSends
<1>6. (\E d \in Devices : SendSweepBlock(d)) \/ ServerExits \/ UNCHANGED vars
      => UNCHANGED <<devlist, want>> /\ (server' = "running" => server = "running")
  BY DEF SendSweepBlock, ServerExits, vars
<1> QED
  BY <1>1, <1>2, <1>3, <1>4, <1>5, <1>6 DEF Next, ServerStep

(***************************************************************************)
(* Whatever commands a client sends, repeated, in any order or naming      *)
(* devices the server does not have, it is sent no sweeps of a device it   *)
(* did not enable or disabled last.                                        *)
(***************************************************************************)
THEOREM NoUnwantedSweeps == Spec => []NothingUnwanted
<1>1. SubInv => NothingUnwanted
  BY DEF SubInv
<1> QED
  BY <1>1, InitSub, NextSub, PTL DEF Spec

-----------------------------------------------------------------------------
(***************************************************************************)
(* Framing.  What a client has taken last, what is in flight and what is   *)
(* buffered is one sequence: a write moves cells from its third part to    *)
(* its second, a receive takes its first away, and only whole frames are   *)
(* added at its end.                                                       *)
(***************************************************************************)
AnyCell == Cell \cup {NoCell}

Framed(s) ==
  /\ \A i \in 1 .. Len(s) - 1 : MayFollow(s[i], s[i + 1])
  /\ s[Len(s)] # NoCell /\ s[Len(s)].k = FrameLen(s[Len(s)].frame)

LEMMA CellFields ==
  ASSUME NEW f, NEW i \in Nat \ {0}, NEW x, x = [frame |-> f, k |-> i]
  PROVE  /\ x.frame = f /\ x.k = i /\ x # NoCell
         /\ [x EXCEPT !.k = @ + 1] = [frame |-> f, k |-> i + 1]
<1>1. x.frame = f /\ x.k = i
  OBVIOUS
<1>2. x # NoCell
  <2>1. NoCell.k = 0
    BY DEF NoCell
  <2> QED
    BY <1>1, <2>1
<1>3. [x EXCEPT !.k = x.k + 1] = [frame |-> f, k |-> i + 1]
  BY <1>1
<1> QED
  BY <1>1, <1>2, <1>3

LEMMA FrameCells ==
  ASSUME NEW f \in Frame
  PROVE  LET cs == Cells(f) IN
         /\ cs \in Seq(AnyCell) /\ Len(cs) = FrameLen(f) /\ Len(cs) \in Nat \ {0}
         /\ \A i \in 1 .. Len(cs) : cs[i] = [frame |-> f, k |-> i]
         /\ Framed(cs)
<1> DEFINE cs == Cells(f)
<1>1. FrameLen(f) \in Nat \ {0}
  BY FrameSizes
<1>2. cs \in Seq(Cell) /\ Len(cs) = FrameLen(f)
  BY CellsOfFrame
<1>3. cs \in Seq(AnyCell)
  BY <1>2, SeqMonotonic DEF AnyCell
<1>4. \A i \in 1 .. Len(cs) : cs[i] = [frame |-> f, k |-> i]
  BY <1>2 DEF Cells
<1> HIDE DEF cs
<1>5. ASSUME NEW i \in 1 .. Len(cs)
      PROVE  /\ cs[i] # NoCell /\ cs[i].frame = f /\ cs[i].k = i
             /\ [cs[i] EXCEPT !.k = @ + 1] = [frame |-> f, k |-> i + 1]
  <2>1. i \in Nat \ {0} /\ cs[i] = [frame |-> f, k |-> i]
    BY <1>1, <1>2, <1>4
  <2> QED
    BY <2>1, CellFields
<1>6. ASSUME NEW i \in 1 .. Len(cs) - 1 PROVE MayFollow(cs[i], cs[i + 1])
  <2>1. i \in 1 .. Len(cs) /\ i + 1 \in 1 .. Len(cs) /\ i < FrameLen(f)
    BY <1>1, <1>2
  <2>2. cs[i] # NoCell /\ cs[i].k < FrameLen(cs[i].frame)
    BY <1>5, <2>1
  <2>3. cs[i + 1] = [cs[i] EXCEPT !.k = @ + 1]
    BY <1>4, <1>5, <2>1
  <2> QED
    BY <2>2, <2>3 DEF MayFollow
<1>7. Framed(cs)
  <2>1. Len(cs) \in 1 .. Len(cs)
    BY <1>1, <1>2
  <2>2. cs[Len(cs)] # NoCell /\ cs[Len(cs)].frame = f /\ cs[Len(cs)].k = Len(cs)
    BY <1>5, <2>1
  <2> QED
    BY <1>2, <1>6, <2>2 DEF Framed
<1> QED
  BY <1>1, <1>2, <1>3, <1>4, <1>7 DEF cs

LEMMA TailFramed ==
  ASSUME NEW s \in Seq(AnyCell), Len(s) > 1, Framed(s)
  PROVE  Framed(Tail(s))
<1>1. s # <<>> /\ Len(s) \in Nat
  BY EmptySeq
<1>2. /\ Len(Tail(s)) = Len(s) - 1
      /\ \A i \in 1 .. Len(Tail(s)) : Tail(s)[i] = s[i + 1]
  BY <1>1, HeadTailProperties
<1> DEFINE t == Tail(s)
<1> HIDE DEF t
<1>3. Len(t) = Len(s) - 1 /\ \A i \in 1 .. Len(t) : t[i] = s[i + 1]
  BY <1>2 DEF t
<1>4. t[Len(t)] = s[Len(s)]
  BY <1>1, <1>3
<1>5. \A i \in 1 .. Len(t) - 1 : MayFollow(t[i], t[i + 1])
  BY <1>1, <1>3 DEF Framed
<1> QED
  BY <1>4, <1>5 DEF Framed, t

(* The next frame may follow the last cell of a frame, or no cell at all.  *)
LEMMA FrameAppended ==
  ASSUME NEW s \in Seq(AnyCell), NEW f \in Frame,
         \/ Framed(s) /\ s # <<>> /\ f # DevBlock
         \/ s = <<NoCell>> /\ f = DevBlock
  PROVE  Framed(s \o Cells(f))
<1> DEFINE cs == Cells(f)
           t == s \o cs
<1>1. /\ cs \in Seq(AnyCell) /\ Len(cs) = FrameLen(f) /\ Len(cs) \in Nat \ {0}
      /\ \A i \in 1 .. Len(cs) : cs[i] = [frame |-> f, k |-> i]
      /\ Framed(cs)
  BY FrameCells
<1>2. Len(s) \in Nat \ {0}
  BY EmptySeq
<1> HIDE DEF cs
<1>3. /\ Len(t) = Len(s) + Len(cs)
      /\ \A i \in 1 .. Len(s) + Len(cs) : t[i] = IF i <= Len(s) THEN s[i] ELSE cs[i - Len(s)]
  <2>1. s \in Seq(AnyCell) /\ cs \in Seq(AnyCell)
    BY <1>1
  <2> QED
    BY <2>1, ConcatProperties, Zenon
<1> HIDE DEF t
<1>4. MayFollow(s[Len(s)], cs[1])
  <2>1. cs[1] = [frame |-> f, k |-> 1]
    BY <1>1
  <2>2. CASE s = <<NoCell>> /\ f = DevBlock
    <3>1. s[Len(s)] = NoCell
      BY <2>2
    <3> QED
      BY <2>1, <2>2, <3>1 DEF MayFollow
  <2>3. CASE Framed(s) /\ f # DevBlock
    <3>1. s[Len(s)] # NoCell /\ s[Len(s)].k = FrameLen(s[Len(s)].frame)
      BY <2>3 DEF Framed
    <3>2. cs[1].frame.type = "sweep" /\ cs[1].k = 1
      BY <2>1, <2>3 DEF Frame, Sweep
    <3>3. s[Len(s)] \in Cell
      BY <1>2, <3>1, ElementOfSeq DEF AnyCell
    <3>4. FrameLen(s[Len(s)].frame) \in Nat
      BY <3>3, LenAssumption DEF Cell, FrameLen
    <3> QED
      BY <3>1, <3>2, <3>4 DEF MayFollow
  <2> QED
    BY <2>2, <2>3
<1>5. ASSUME NEW i \in 1 .. Len(t) - 1 PROVE MayFollow(t[i], t[i + 1])
  <2>1. CASE i < Len(s)
    <3>1. t[i] = s[i] /\ t[i + 1] = s[i + 1] /\ i \in 1 .. Len(s) - 1
      BY <1>1, <1>2, <1>3, <2>1
    <3>2. Framed(s)
      <4>1. Len(<<NoCell>>) = 1
        OBVIOUS
      <4> QED
        BY <1>1, <1>2, <1>3, <2>1, <4>1
    <3> QED
      BY <3>1, <3>2 DEF Framed
  <2>2. CASE i = Len(s)
    <3>1. t[i] = s[Len(s)] /\ t[i + 1] = cs[1]
      BY <1>1, <1>2, <1>3, <2>2
    <3> QED
      BY <1>4, <3>1
  <2>3. CASE i > Len(s)
    <3> DEFINE j == i - Len(s)
    <3>1. j \in 1 .. Len(cs) - 1 /\ t[i] = cs[j] /\ t[i + 1] = cs[j + 1]
      BY <1>1, <1>2, <1>3, <2>3
    <3> QED
      BY <1>1, <3>1 DEF Framed
  <2> QED
    BY <1>2, <1>1, <1>3, <2>1, <2>2, <2>3
<1>6. t[Len(t)] = cs[Len(cs)]
  BY <1>1, <1>2, <1>3
<1> QED
  BY <1>1, <1>5, <1>6 DEF Framed, t, cs

(* A sequence in three parts; the third is cut in two, or the second loses *)
(* its head to the first.                                                  *)
CutIsWhole(x, d, w, n) ==
  /\ (d \o SubSeq(w, 1, n)) \o SubSeq(w, n + 1, Len(w)) = d \o w
  /\ (<<x>> \o (d \o SubSeq(w, 1, n))) \o SubSeq(w, n + 1, Len(w)) = (<<x>> \o d) \o w

LEMMA CutKeeps ==
  ASSUME NEW S, NEW x \in S, NEW d \in Seq(S), NEW w \in Seq(S), NEW n \in 1 .. Len(w)
  PROVE  CutIsWhole(x, d, w, n)
<1> DEFINE a == SubSeq(w, 1, n)
           b == SubSeq(w, n + 1, Len(w))
<1>1. a \in Seq(S) /\ b \in Seq(S)
  OBVIOUS
<1>2. a \o b = w
  <2>1. a \o b = SubSeq(w, 1, Len(w))
    BY ConcatAdjacentSubSeq
  <2> QED
    BY <2>1, SubSeqFull
<1> HIDE DEF a, b
<1>3. (d \o a) \o b = d \o (a \o b)
  BY <1>1
<1>4. d \o a \in Seq(S)
  BY <1>1, ConcatProperties
<1>5. (<<x>> \o (d \o a)) \o b = <<x>> \o ((d \o a) \o b)
  BY <1>1, <1>4
<1>6. (<<x>> \o d) \o w = <<x>> \o (d \o w)
  OBVIOUS
<1> QED
  BY <1>2, <1>3, <1>5, <1>6 DEF a, b, CutIsWhole

LEMMA HeadMoves ==
  ASSUME NEW S, NEW x \in S, NEW d \in Seq(S), NEW w \in Seq(S), d # <<>>
  PROVE  (<<Head(d)>> \o Tail(d)) \o w = Tail((<<x>> \o d) \o w)
<1>1. <<Head(d)>> \o Tail(d) = d
  OBVIOUS
<1>2. (<<x>> \o d) \o w = <<x>> \o (d \o w)
  OBVIOUS
<1>3. Tail(<<x>> \o (d \o w)) = d \o w
  OBVIOUS
<1> QED
  BY <1>1, <1>2, <1>3

LEMMA ThreeParts ==
  ASSUME NEW S, NEW x \in S, NEW d \in Seq(S), NEW w \in Seq(S)
  PROVE  /\ (<<x>> \o d) \o w \in Seq(S)
         /\ Len((<<x>> \o d) \o w) = 1 + Len(d) + Len(w)
         /\ (<<x>> \o d) \o w # <<>>
OBVIOUS
StreamOf(c) == <<last[c]>> \o down[c] \o wbuf[c]

(* Before a connection is accepted nothing of it is there.                 *)
NotYetOpen(c) ==
  conn[c] \in {"idle", "backlog"} =>
    last[c] = NoCell /\ down[c] = <<>> /\ wbuf[c] = <<>> /\ want[c] = {}

OpenIsFramed(c) == conn[c] = "open" => Framed(StreamOf(c))

ClientInv(c) == NotYetOpen(c) /\ OpenIsFramed(c)

StreamInv == server = "running" => \A c \in Clients : ClientInv(c)

LEMMA StreamTypes ==
  ASSUME TypeOK, NEW c \in Clients
  PROVE  /\ last[c] \in AnyCell /\ down[c] \in Seq(AnyCell) /\ wbuf[c] \in Seq(AnyCell)
         /\ StreamOf(c) \in Seq(AnyCell)
         /\ Len(StreamOf(c)) = 1 + Len(down[c]) + Len(wbuf[c])
         /\ StreamOf(c) # <<>>
<1>1. last[c] \in AnyCell
  BY DEF TypeOK, AnyCell
<1>2. down[c] \in Seq(Cell) /\ wbuf[c] \in Seq(Cell)
  BY DEF TypeOK
<1>3. down[c] \in Seq(AnyCell) /\ wbuf[c] \in Seq(AnyCell)
  BY <1>2 DEF AnyCell
<1> DEFINE x == last[c]
           d == down[c]
           w == wbuf[c]
<1>4. StreamOf(c) = (<<x>> \o d) \o w
  BY DEF StreamOf
<1>5. x \in AnyCell /\ d \in Seq(AnyCell) /\ w \in Seq(AnyCell)
  BY <1>1, <1>3
<1> HIDE DEF x, d, w
<1>6. /\ StreamOf(c) \in Seq(AnyCell) /\ Len(StreamOf(c)) = 1 + Len(d) + Len(w)
      /\ StreamOf(c) # <<>>
  BY <1>4, <1>5, ThreeParts
<1> QED
  BY <1>1, <1>3, <1>6 DEF d, w

(* A partial write cuts the buffer where it likes.                         *)
LEMMA WriteKeepsStream ==
  ASSUME TypeOK, NEW c \in Clients, WriteToClient(c)
  PROVE  /\ down'[c] \o wbuf'[c] = down[c] \o wbuf[c]
         /\ StreamOf(c)' = StreamOf(c)
         /\ \A e \in Clients : e # c => down'[e] = down[e] /\ wbuf'[e] = wbuf[e]
         /\ UNCHANGED <<server, conn, last, want>>
<1>1. PICK n \in 1 .. Len(wbuf[c]) :
        /\ down' = [down EXCEPT ![c] = @ \o SubSeq(wbuf[c], 1, n)]
        /\ wbuf' = [wbuf EXCEPT ![c] = SubSeq(@, n + 1, Len(@))]
  BY DEF WriteToClient
<1> DEFINE x == last[c]
           d == down[c]
           w == wbuf[c]
<1>2. x \in AnyCell /\ d \in Seq(AnyCell) /\ w \in Seq(AnyCell) /\ n \in 1 .. Len(w)
  BY StreamTypes
<1>3. /\ down'[c] = d \o SubSeq(w, 1, n) /\ wbuf'[c] = SubSeq(w, n + 1, Len(w))
      /\ \A e \in Clients : e # c => down'[e] = down[e] /\ wbuf'[e] = wbuf[e]
  BY <1>1 DEF TypeOK
<1>4. UNCHANGED <<server, conn, last, want>>
  BY DEF WriteToClient
<1>5. /\ StreamOf(c)' = (<<x>> \o (d \o SubSeq(w, 1, n))) \o SubSeq(w, n + 1, Len(w))
      /\ StreamOf(c) = (<<x>> \o d) \o w
  BY <1>3, <1>4 DEF StreamOf
<1> HIDE DEF x, d, w
<1>6. CutIsWhole(x, d, w, n)
  BY <1>2, CutKeeps
<1>7. StreamOf(c)' = StreamOf(c)
  BY <1>5, <1>6 DEF CutIsWhole
<1>8. down'[c] \o wbuf'[c] = down[c] \o wbuf[c]
  BY <1>3, <1>6 DEF CutIsWhole, d, w
<1> QED
  BY <1>3, <1>4, <1>7, <1>8

LEMMA ReceiveTakesHead ==
  ASSUME TypeOK, NEW c \in Clients, ClientReceives(c)
  PROVE  StreamOf(c)' = Tail(StreamOf(c)) /\ Len(StreamOf(c)) > 1
<1> DEFINE x == last[c]
           d == down[c]
           w == wbuf[c]
<1>1. /\ x \in AnyCell /\ d \in Seq(AnyCell) /\ w \in Seq(AnyCell)
      /\ Len(StreamOf(c)) = 1 + Len(d) + Len(w)
  BY StreamTypes
<1>2. d # <<>> /\ last'[c] = Head(d) /\ down'[c] = Tail(d) /\ wbuf'[c] = w
  BY DEF TypeOK, ClientReceives
<1>3. StreamOf(c)' = (<<Head(d)>> \o Tail(d)) \o w /\ StreamOf(c) = (<<x>> \o d) \o w
  BY <1>2 DEF StreamOf
<1> HIDE DEF x, d, w
<1>4. (<<Head(d)>> \o Tail(d)) \o w = Tail((<<x>> \o d) \o w)
  BY <1>1, <1>2, HeadMoves
<1>5. Len(d) \in Nat \ {0} /\ Len(w) \in Nat
  BY <1>1, <1>2, EmptySeq
<1> QED
  BY <1>1, <1>3, <1>4, <1>5

(* What a full buffer leaves, and what an append adds.                     *)
LEMMA AppendKeepsFraming ==
  ASSUME TypeOK, NEW c \in Clients, NEW f \in Frame, wbuf'[c] = Appended(c, f),
         down'[c] = down[c], last'[c] = last[c],
         \/ Framed(StreamOf(c)) /\ f # DevBlock
         \/ /\ last[c] = NoCell /\ down[c] = <<>> /\ wbuf[c] = <<>>
            /\ f = DevBlock /\ Fits(c, f)
  PROVE  Framed(StreamOf(c)')
<1> DEFINE s == StreamOf(c)
           h == <<last[c]>> \o down[c]
           w == wbuf[c]
           cs == Cells(f)
<1>1. s \in Seq(AnyCell) /\ Len(s) = 1 + Len(down[c]) + Len(wbuf[c])
  BY StreamTypes
<1>2. s # <<>>
  BY StreamTypes
<1>3. CASE Fits(c, f)
  <2>1. StreamOf(c)' = h \o (w \o cs) /\ s = h \o w
    BY <1>3 DEF StreamOf, Appended
  <2>2. h \in Seq(AnyCell) /\ w \in Seq(AnyCell) /\ cs \in Seq(AnyCell)
    <3>1. last[c] \in AnyCell /\ down[c] \in Seq(AnyCell) /\ w \in Seq(AnyCell)
      BY StreamTypes
    <3>2. h \in Seq(AnyCell)
      BY <3>1
    <3> QED
      BY <3>1, <3>2, FrameCells
  <2>3. (last[c] = NoCell /\ down[c] = <<>> /\ wbuf[c] = <<>>) => s = <<NoCell>>
    BY DEF StreamOf
  <2> HIDE DEF s, h, w, cs
  <2>4. h \o (w \o cs) = (h \o w) \o cs
    BY <2>2
  <2>5. Framed(s \o cs)
    BY <1>1, <1>2, <2>3, FrameAppended DEF cs, s
  <2> QED
    BY <2>1, <2>4, <2>5
<1>4. CASE ~Fits(c, f)
  BY <1>4 DEF StreamOf, Appended
<1> QED
  BY <1>3, <1>4
LEMMA InitStream == Init => StreamInv
BY DEF Init, StreamInv, ClientInv, NotYetOpen, OpenIsFramed

LEMMA NextStream == TypeOK /\ StreamInv /\ [Next]_vars => StreamInv'
<1> SUFFICES ASSUME TypeOK, StreamInv, [Next]_vars, server' = "running", NEW e \in Clients
             PROVE  ClientInv(e)'
  BY DEF StreamInv
<1>1. server = "running"
  BY DEF Next, ServerStep, ClientStep, WriteToClient, DropClient, Unlink, ReadEnable,
         ReadDisable, Accept, SendSweepBlock, ServerExits, ClientConnects, ClientReceives,
         ClientHangsUp, ClientSends, Served, vars
<1>2. ClientInv(e)
  BY <1>1 DEF StreamInv
<1>3. ASSUME conn'[e] = conn[e], last'[e] = last[e], down'[e] = down[e], wbuf'[e] = wbuf[e],
             want'[e] = want[e]
      PROVE  ClientInv(e)'
  BY <1>2, <1>3 DEF ClientInv, NotYetOpen, OpenIsFramed, StreamOf
<1>4. ASSUME NEW c \in Clients, WriteToClient(c) PROVE ClientInv(e)'
  <2>1. CASE c # e
    BY <1>3, <1>4, <2>1, WriteKeepsStream
  <2>2. CASE c = e
    <3>1. conn[e] = "open"
      BY <1>4, <2>2 DEF WriteToClient
    <3>2. conn' = conn /\ StreamOf(e)' = StreamOf(e)
      BY <1>4, <2>2, WriteKeepsStream
    <3> QED
      BY <1>2, <3>1, <3>2 DEF ClientInv, NotYetOpen, OpenIsFramed
  <2> QED
    BY <2>1, <2>2
<1>5. ASSUME NEW c \in Clients, DropClient(c) PROVE ClientInv(e)'
  <2>1. CASE c # e
    BY <1>3, <1>5, <2>1 DEF DropClient, Unlink, TypeOK
  <2>2. CASE c = e
    BY <1>5, <2>2 DEF DropClient, Unlink, TypeOK, ClientInv, NotYetOpen, OpenIsFramed
  <2> QED
    BY <2>1, <2>2
<1>6. ASSUME NEW c \in Clients, ReadEnable(c) \/ ReadDisable(c) PROVE ClientInv(e)'
  <2>1. UNCHANGED <<conn, last, down, wbuf>> /\ (e # c => want'[e] = want[e])
    BY <1>6 DEF ReadEnable, ReadDisable, TypeOK
  <2>2. e = c => conn[e] \in {"open", "hungup"}
    BY <1>6 DEF ReadEnable, ReadDisable, Served
  <2> QED
    BY <1>2, <2>1, <2>2 DEF ClientInv, NotYetOpen, OpenIsFramed, StreamOf
<1>7. ASSUME NEW c \in Clients, Accept(c) PROVE ClientInv(e)'
  <2>1. UNCHANGED <<last, down, want>> /\ (e # c => conn'[e] = conn[e] /\ wbuf'[e] = wbuf[e])
    BY <1>1, <1>7 DEF Accept, TypeOK
  <2>2. CASE e = c
    <3>1. conn[e] = "backlog" /\ conn'[e] = "open"
      BY <1>7, <2>2 DEF Accept, TypeOK
    <3>2. Fits(e, DevBlock) /\ wbuf'[e] = Appended(e, DevBlock)
      BY <1>7, <2>2 DEF Accept, TypeOK
    <3>3. last[e] = NoCell /\ down[e] = <<>> /\ wbuf[e] = <<>>
      BY <1>2, <3>1 DEF ClientInv, NotYetOpen
    <3>4. Framed(StreamOf(e)')
      BY <2>1, <3>2, <3>3, AppendKeepsFraming DEF Frame
    <3>5. Framed(StreamOf(e))'
      BY <3>4 DEF Framed
    <3> QED
      BY <3>1, <3>5 DEF ClientInv, NotYetOpen, OpenIsFramed
  <2> QED
    BY <1>3, <2>1, <2>2
<1>8. ASSUME NEW d \in Devices, SendSweepBlock(d) PROVE ClientInv(e)'
  <2>1. UNCHANGED <<conn, last, down, want>>
    BY <1>8 DEF SendSweepBlock
  <2>2. wbuf'[e] = wbuf[e] \/ (Served(e) /\ wbuf'[e] = Appended(e, Sweep(d)))
    BY <1>8 DEF SendSweepBlock
  <2>3. CASE conn[e] = "open" /\ wbuf'[e] = Appended(e, Sweep(d))
    <3>1. Sweep(d) \in Frame /\ Sweep(d) # DevBlock
      BY DEF Frame, Sweep, DevBlock
    <3>2. Framed(StreamOf(e)')
      BY <1>2, <2>1, <2>3, <3>1, AppendKeepsFraming DEF ClientInv, OpenIsFramed
    <3>3. Framed(StreamOf(e))'
      BY <3>2 DEF Framed
    <3> QED
      BY <2>1, <2>3, <3>3 DEF ClientInv, NotYetOpen, OpenIsFramed
  <2>4. CASE conn[e] # "open" /\ Served(e)
    BY <2>1, <2>4 DEF Served, ClientInv, NotYetOpen, OpenIsFramed
  <2> QED
    BY <1>3, <2>1, <2>2, <2>3, <2>4
<1>9. ASSUME NEW c \in Clients, ClientReceives(c) PROVE ClientInv(e)'
  <2>1. CASE c # e
    BY <1>3, <1>9, <2>1 DEF ClientReceives, TypeOK
  <2>2. CASE c = e
    <3>1. conn[e] = "open" /\ conn' = conn
      BY <1>9, <2>2 DEF ClientReceives
    <3>2. Framed(StreamOf(e)')
      BY <1>2, <1>9, <2>2, <3>1, StreamTypes, ReceiveTakesHead, TailFramed
         DEF ClientInv, OpenIsFramed
    <3>3. Framed(StreamOf(e))'
      BY <3>2 DEF Framed
    <3> QED
      BY <3>1, <3>3 DEF ClientInv, NotYetOpen, OpenIsFramed
  <2> QED
    BY <2>1, <2>2
<1>10. ASSUME NEW c \in Clients, ClientConnects(c) \/ ClientHangsUp(c) PROVE ClientInv(e)'
  <2>1. CASE c # e
    BY <1>3, <1>10, <2>1 DEF ClientConnects, ClientHangsUp, TypeOK
  <2>2. CASE c = e
    BY <1>2, <1>10, <2>2 DEF ClientConnects, ClientHangsUp, TypeOK, ClientInv, NotYetOpen,
                             OpenIsFramed
  <2> QED
    BY <2>1, <2>2
<1>11. ASSUME \/ \E c \in Clients, m \in Command : ClientSends(c, m)
              \/ ServerExits \/ UNCHANGED vars
       PROVE  ClientInv(e)'
  BY <1>3, <1>11 DEF ClientSends, ServerExits, vars
<1> QED
  BY <1>4, <1>5, <1>6, <1>7, <1>8, <1>9, <1>10, <1>11 DEF Next, ServerStep, ClientStep

(***************************************************************************)
(* Whatever the sizes of frames, buffer and socket, wherever partial       *)
(* writes end and whichever frames a full buffer loses, what a client is   *)
(* sent is the device block and whole sweep frames.                        *)
(***************************************************************************)
THEOREM WholeFrames == Spec => []StreamIsFramed
<1>1. StreamInv => StreamIsFramed
  BY DEF StreamInv, ClientInv, OpenIsFramed, StreamOf, Framed, StreamIsFramed
<1>2. TypeOK /\ StreamInv /\ [Next]_vars => (TypeOK /\ StreamInv)'
  BY NextTypes, NextStream
<1> QED
  BY <1>1, <1>2, InitTypes, InitStream, PTL DEF Spec
-----------------------------------------------------------------------------
(***************************************************************************)
(* The refinement of SweepStream, connection by connection.                *)
(***************************************************************************)
LEMMA SameCells == ASSUME NEW c \in Clients, NEW f PROVE StreamTo(c)!Cells(f) = Cells(f)
BY DEF StreamTo!Cells, StreamTo!FrameLen, Cells, FrameLen

LEMMA LinkStutters ==
  ASSUME NEW c \in Clients, Linked(c)' = Linked(c),
         Linked(c) => down'[c] \o wbuf'[c] = down[c] \o wbuf[c] /\ want'[c] = want[c]
  PROVE  UNCHANGED (StreamTo(c)!streamVars)
BY DEF StreamTo!streamVars

LEMMA LinkCloses ==
  ASSUME NEW c \in Clients, Linked(c), ~Linked(c)' PROVE StreamTo(c)!Next
<1>1. StreamTo(c)!Close
  BY DEF StreamTo!Close, Linked
<1> QED
  BY <1>1 DEF StreamTo!Next

LEMMA AcceptRefines ==
  ASSUME TypeOK, StreamInv, NEW c \in Clients, Accept(c), Linked(c)' PROVE StreamTo(c)!Next
<1>1. server = "running" /\ server' = "running" /\ conn[c] = "backlog"
  BY DEF Accept, Linked
<1>2. wbuf'[c] = Appended(c, DevBlock) /\ Fits(c, DevBlock)
      /\ UNCHANGED <<down, want>>
  BY <1>1 DEF Accept, TypeOK
<1>3. down[c] = <<>> /\ wbuf[c] = <<>> /\ want[c] = {}
  BY <1>1 DEF StreamInv, ClientInv, NotYetOpen
<1>4. DevBlock \in Frame
  BY DEF Frame
<1>5. down'[c] \o wbuf'[c] = Cells(DevBlock)
  BY <1>2, <1>3, <1>4, CellsOfFrame DEF Appended
<1>6. StreamTo(c)!Cells(StreamTo(c)!DevBlock) = Cells(DevBlock)
  BY SameCells DEF StreamTo!DevBlock, DevBlock
<1>7. ~Linked(c)
  BY <1>1 DEF Linked
<1>8. StreamTo(c)!Accept
  BY <1>2, <1>3, <1>5, <1>6, <1>7 DEF StreamTo!Accept
<1> QED
  BY <1>8 DEF StreamTo!Next

(* A frame that finds room is an offer of a device the client wants, one   *)
(* that is lost is no step of the stream.                                  *)
LEMMA SendRefines ==
  ASSUME TypeOK, NothingUnwanted, NEW c \in Clients, NEW d \in Devices, SendSweepBlock(d),
         Linked(c), Linked(c)'
  PROVE  [StreamTo(c)!Next]_(StreamTo(c)!streamVars)
<1>1. UNCHANGED <<down, want>> /\ server = "running"
  BY DEF SendSweepBlock
<1>2. CASE wbuf'[c] = wbuf[c]
  BY <1>1, <1>2, LinkStutters
<1>3. CASE wbuf'[c] # wbuf[c]
  <2>1. Contains(devlist[c], d) /\ wbuf'[c] = wbuf[c] \o Cells(Sweep(d))
    BY <1>3 DEF SendSweepBlock, Appended
  <2>2. d \in want[c]
    BY <1>1, <2>1 DEF Contains, NothingUnwanted, TypeOK
  <2>3. Sweep(d) \in Frame
    BY DEF Frame
  <2>4. down[c] \in Seq(Cell) /\ wbuf[c] \in Seq(Cell) /\ Cells(Sweep(d)) \in Seq(Cell)
    BY <2>3, CellsOfFrame DEF TypeOK
  <2>5. down'[c] \o wbuf'[c] = (down[c] \o wbuf[c]) \o Cells(Sweep(d))
    <3> DEFINE b == down[c]
               w == wbuf[c]
               x == Cells(Sweep(d))
    <3>1. down'[c] = b /\ wbuf'[c] = w \o x
      BY <1>1, <2>1
    <3>2. b \in Seq(Cell) /\ w \in Seq(Cell) /\ x \in Seq(Cell)
      BY <2>4
    <3> HIDE DEF b, w, x
    <3>3. b \o (w \o x) = (b \o w) \o x
      BY <3>2
    <3> QED
      BY <3>1, <3>3 DEF b, w, x
  <2>6. StreamTo(c)!Offer(Sweep(d))
    <3>1. Sweep(d).dev \in want[c]
      BY <2>2 DEF Sweep
    <3> QED
      BY <1>1, <2>5, <3>1, SameCells DEF StreamTo!Offer
  <2> QED
    BY <2>6 DEF StreamTo!Next
<1> QED
  BY <1>2, <1>3

LEMMA ReceiveRefines ==
  ASSUME TypeOK, NEW c \in Clients, ClientReceives(c), Linked(c), Linked(c)'
  PROVE  StreamTo(c)!Next
<1> DEFINE d == down[c]
           w == wbuf[c]
<1>1. d \in Seq(Cell) /\ w \in Seq(Cell) /\ d # <<>>
  BY DEF TypeOK, ClientReceives
<1>2. down'[c] = Tail(d) /\ wbuf'[c] = w /\ want'[c] = want[c]
  BY DEF TypeOK, ClientReceives
<1> HIDE DEF d, w
<1>3. Tail(d) \o w = SubSeq(d \o w, 2, Len(d \o w)) /\ 1 \in 1 .. Len(d \o w)
  <2>1. d \o w \in Seq(Cell) /\ d \o w # <<>> /\ Tail(d \o w) = Tail(d) \o w
    BY <1>1
  <2>2. Tail(d \o w) = SubSeq(d \o w, 2, Len(d \o w))
    BY <2>1, TailIsSubSeq
  <2>3. Len(d \o w) \in Nat \ {0}
    BY <2>1, EmptySeq
  <2>4. 1 \in 1 .. Len(d \o w)
    BY <2>3
  <2> QED
    BY <2>1, <2>2, <2>4, Zenon
<1>4. StreamTo(c)!Take(1)
  <2>1. (IF Linked(c) THEN down[c] \o wbuf[c] ELSE <<>>) = d \o w
    BY DEF d, w
  <2>2. (IF Linked(c) THEN down[c] \o wbuf[c] ELSE <<>>)' = Tail(d) \o w
    BY <1>2
  <2>3. UNCHANGED <<Linked(c), IF Linked(c) THEN want[c] ELSE {}>>
    BY <1>2 DEF Linked
  <2>4. 1 + 1 = 2
    OBVIOUS
  <2> QED
    BY <1>3, <2>1, <2>2, <2>3, <2>4, Zenon DEF StreamTo!Take
<1>5. 1 \in 1 .. Len(IF Linked(c) THEN down[c] \o wbuf[c] ELSE <<>>)
  BY <1>3 DEF d, w
<1> QED
  BY <1>4, <1>5 DEF StreamTo!Next

(* A command is a subscription or an unsubscription, or, when it names no  *)
(* device of the server, nothing.                                          *)
LEMMA CommandRefines ==
  ASSUME TypeOK, NEW c \in Clients, ReadEnable(c) \/ ReadDisable(c), Linked(c), Linked(c)'
  PROVE  [StreamTo(c)!Next]_(StreamTo(c)!streamVars)
<1> DEFINE d == Head(up[c]).id
<1>1. UNCHANGED <<down, wbuf>> /\ server' = server
  BY DEF ReadEnable, ReadDisable, Linked
<1>2. want[c] \subseteq Devices
  BY DEF TypeOK
<1>3. want'[c] = want[c] \cup ({d} \cap Devices) \/ want'[c] = want[c] \ {d}
  BY <1>1 DEF ReadEnable, ReadDisable, TypeOK, Linked
<1> HIDE DEF d
<1>4. CASE d \notin Devices
  <2>1. want'[c] = want[c]
    BY <1>2, <1>3, <1>4
  <2> QED
    BY <1>1, <2>1, LinkStutters
<1>5. CASE d \in Devices
  <2>1. want'[c] = want[c] \cup {d} => StreamTo(c)!Subscribe(d)
    BY <1>1 DEF StreamTo!Subscribe
  <2>2. want'[c] = want[c] \ {d} => StreamTo(c)!Unsubscribe(d)
    BY <1>1 DEF StreamTo!Unsubscribe
  <2>3. {d} \cap Devices = {d}
    BY <1>5
  <2> QED
    BY <1>3, <1>5, <2>1, <2>2, <2>3 DEF StreamTo!Next
<1> QED
  BY <1>4, <1>5

LEMMA StepRefines ==
  ASSUME TypeOK, StreamInv, NothingUnwanted, [Next]_vars, NEW e \in Clients
  PROVE  [StreamTo(e)!Next]_(StreamTo(e)!streamVars)
<1>1. CASE ~Linked(e) /\ ~Linked(e)'
  BY <1>1, LinkStutters DEF Linked
<1>2. CASE Linked(e) /\ ~Linked(e)'
  BY <1>2, LinkCloses
<1>3. CASE ~Linked(e) /\ Linked(e)'
  <2>1. \A c \in Clients : Accept(c) => c = e
    BY <1>3 DEF Accept, Linked, TypeOK
  <2>2. server = "running" /\ server' = "running" /\ conn[e] # "open" /\ conn'[e] = "open"
    BY <1>3 DEF Linked, Next, ServerStep, ClientStep, WriteToClient, DropClient, Unlink,
                ReadEnable, ReadDisable, Accept, SendSweepBlock, ServerExits, ClientConnects,
                ClientReceives, ClientHangsUp, ClientSends, Served, vars
  <2>3. Accept(e)
    BY <2>1, <2>2 DEF Next, ServerStep, ClientStep, WriteToClient, DropClient, Unlink,
                ReadEnable, ReadDisable, SendSweepBlock, ServerExits, ClientConnects,
                ClientReceives, ClientHangsUp, ClientSends, vars, TypeOK
  <2> QED
    BY <1>3, <2>3, AcceptRefines
<1>4. CASE Linked(e) /\ Linked(e)'
  <2>1. ASSUME UNCHANGED <<down[e], wbuf[e], want[e]>>
        PROVE  [StreamTo(e)!Next]_(StreamTo(e)!streamVars)
    BY <1>4, <2>1, LinkStutters
  <2>2. ASSUME NEW c \in Clients, WriteToClient(c)
        PROVE  [StreamTo(e)!Next]_(StreamTo(e)!streamVars)
    BY <1>4, <2>2, WriteKeepsStream, LinkStutters
  <2>3. ASSUME NEW c \in Clients,
               DropClient(c) \/ ClientConnects(c) \/ ClientHangsUp(c) \/ Accept(c)
        PROVE  [StreamTo(e)!Next]_(StreamTo(e)!streamVars)
    <3>1. c # e
      BY <1>4, <2>3 DEF Linked, DropClient, Unlink, ClientConnects, ClientHangsUp, Accept, TypeOK
    <3> QED
      BY <2>1, <2>3, <3>1 DEF DropClient, Unlink, ClientConnects, ClientHangsUp, Accept, TypeOK
  <2>4. ASSUME NEW c \in Clients, ReadEnable(c) \/ ReadDisable(c)
        PROVE  [StreamTo(e)!Next]_(StreamTo(e)!streamVars)
    <3>1. CASE c = e
      BY <1>4, <2>4, <3>1, CommandRefines
    <3>2. CASE c # e
      BY <2>1, <2>4, <3>2 DEF ReadEnable, ReadDisable, TypeOK
    <3> QED
      BY <3>1, <3>2
  <2>5. ASSUME NEW c \in Clients, ClientReceives(c)
        PROVE  [StreamTo(e)!Next]_(StreamTo(e)!streamVars)
    <3>1. CASE c = e
      BY <1>4, <2>5, <3>1, ReceiveRefines
    <3>2. CASE c # e
      BY <2>1, <2>5, <3>2 DEF ClientReceives, TypeOK
    <3> QED
      BY <3>1, <3>2
  <2>6. ASSUME NEW d \in Devices, SendSweepBlock(d)
        PROVE  [StreamTo(e)!Next]_(StreamTo(e)!streamVars)
    BY <1>4, <2>6, SendRefines
  <2>7. ASSUME \/ \E c \in Clients, m \in Command : ClientSends(c, m)
               \/ ServerExits \/ UNCHANGED vars
        PROVE  [StreamTo(e)!Next]_(StreamTo(e)!streamVars)
    BY <2>1, <2>7 DEF ClientSends, ServerExits, vars
  <2> QED
    BY <2>2, <2>3, <2>4, <2>5, <2>6, <2>7 DEF Next, ServerStep, ClientStep
<1> QED
  BY <1>1, <1>2, <1>3, <1>4

(***************************************************************************)
(* The server is to each of its clients what NetClient assumes of it.      *)
(***************************************************************************)
THEOREM StreamImplemented == Spec => ImplementsStream
<1> DEFINE Inv == TypeOK /\ StreamInv /\ SubInv
<1>1. Init => Inv
  BY InitTypes, InitStream, InitSub
<1>2. Inv /\ [Next]_vars => Inv'
  BY NextTypes, NextStream, NextSub
<1>3. Init => \A c \in Clients : StreamTo(c)!Init
  BY DEF Init, Linked, StreamTo!Init
<1>4. Inv /\ [Next]_vars
      => \A c \in Clients : [StreamTo(c)!Next]_(StreamTo(c)!streamVars)
  BY StepRefines DEF SubInv
<1> HIDE DEF Inv
<1> QED
  BY <1>1, <1>2, <1>3, <1>4, PTL DEF Spec, ImplementsStream

=============================================================================
