---------------------------- MODULE SweepStream ----------------------------
(***************************************************************************)
(* What the server and a client agree on: the byte stream of one           *)
(* connection.  It starts with the device block and goes on with whole     *)
(* sweep frames of the devices the client is subscribed to; the client     *)
(* takes it in pieces of any size.  NetServer implements it and NetClient  *)
(* is built on it.                                                         *)
(***************************************************************************)
EXTENDS Integers, Sequences

CONSTANTS
  Devices,      \* the devices of the server
  Sweeps,       \* the sweep frames: records with a field dev
  BlockLen,     \* cells of the device block
  SweepLen      \* cells of a sweep frame

VARIABLES
  up,           \* the connection exists
  wire,         \* the cells between the server and the client
  subscribed    \* the devices whose sweeps may be sent

streamVars == <<up, wire, subscribed>>

DevBlock    == [type |-> "devices"]
FrameLen(f) == IF f.type = "devices" THEN BlockLen ELSE SweepLen
Cells(f)    == [k \in 1 .. FrameLen(f) |-> [frame |-> f, k |-> k]]
Cell        == UNION {[frame : {f}, k : 1 .. FrameLen(f)] : f \in {DevBlock} \cup Sweeps}

Init == up = FALSE /\ wire = <<>> /\ subscribed = {}

Accept ==
  /\ ~up /\ up' = TRUE
  /\ wire' = Cells(DevBlock)
  /\ UNCHANGED subscribed

(* A whole frame; the server may also lose it, which is no step.           *)
Offer(f) ==
  /\ up /\ f.dev \in subscribed
  /\ wire' = wire \o Cells(f)
  /\ UNCHANGED <<up, subscribed>>

Subscribe(d) ==
  /\ up /\ subscribed' = subscribed \cup {d}
  /\ UNCHANGED <<up, wire>>

Unsubscribe(d) ==
  /\ up /\ subscribed' = subscribed \ {d}
  /\ UNCHANGED <<up, wire>>

Take(n) ==
  /\ up /\ n \in 1 .. Len(wire)
  /\ wire' = SubSeq(wire, n + 1, Len(wire))
  /\ UNCHANGED <<up, subscribed>>

Close == up /\ up' = FALSE /\ wire' = <<>> /\ subscribed' = {}

Next ==
  \/ Accept \/ Close
  \/ \E f \in Sweeps : Offer(f)
  \/ \E d \in Devices : Subscribe(d) \/ Unsubscribe(d)
  \/ \E n \in 1 .. Len(wire) : Take(n)

Spec == Init /\ [][Next]_streamVars
=============================================================================
