----------------------------- MODULE CBusMemory -----------------------------
(***************************************************************************)
(* What a cache bus promises its master: one memory, one transaction at a  *)
(* time, len + 1 beats at the addresses of a wrapping burst, each beat     *)
(* atomic when it is answered.  kept is what a reset leaves of the memory. *)
(***************************************************************************)
EXTENDS CBusMaster

VARIABLES
  beat,    \* beats of the current transaction already answered
  ram,     \* the memory the master sees
  kept     \* the memory it would see after a reset

vars == <<creq, taken, beat, ram, kept>>

Here   == WordAt(BeatAddress(creq.addr, creq.size, creq.len, beat))
IsLast == beat = creq.len

Init ==
  /\ MasterInit
  /\ beat = 0
  /\ ram \in Images
  /\ kept = ram

\* No answer; writes that are complete may become permanent.
Wait ==
  /\ MasterStep(NoResp)
  /\ kept' \in {kept} \cup (IF beat = 0 THEN {ram} ELSE {})
  /\ UNCHANGED <<beat, ram>>

Serve ==
  /\ creq.valid
  /\ MasterStep([ready |-> TRUE, last |-> IsLast,
                 data |-> IF creq.is_write THEN ZeroWord ELSE ram[Here]])
  /\ beat' = IF IsLast THEN 0 ELSE beat + 1
  /\ ram' = IF creq.is_write THEN [ram EXCEPT ![Here] = Merge(@, creq)] ELSE ram
  /\ UNCHANGED kept

Reset ==
  /\ MasterReset
  /\ beat' = 0
  /\ ram' = kept
  /\ UNCHANGED kept

Next == Wait \/ Serve \/ Reset

Spec == Init /\ [][Next]_vars
=============================================================================
