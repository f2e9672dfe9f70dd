----------------------------- MODULE SweepFeed -----------------------------
(***************************************************************************)
(* What a front end may rely on, whatever lies between it and the devices: *)
(* from each device it gets sweeps the device made, in the order in which  *)
(* they were made, some perhaps missing and none twice.                    *)
(***************************************************************************)
EXTENDS Integers

CONSTANT Devices

VARIABLES
  made,     \* the number of sweeps a device has completed
  taken     \* the number of the last one the front end got, 0 for none

feedVars == <<made, taken>>

Init == made = [d \in Devices |-> 0] /\ taken = [d \in Devices |-> 0]

Make(d) ==
  /\ made' = [made EXCEPT ![d] = @ + 1]
  /\ UNCHANGED taken

Get(d) ==
  /\ \E n \in taken[d] + 1 .. made[d] : taken' = [taken EXCEPT ![d] = n]
  /\ UNCHANGED made

Next == \E d \in Devices : Make(d) \/ Get(d)

Spec == Init /\ [][Next]_feedVars
=============================================================================
