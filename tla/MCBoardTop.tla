----------------------------- MODULE MCBoardTop -----------------------------
(***************************************************************************)
(* Two parts of the board that do not meet in RAM programs, side by side:  *)
(* the CPU top with its RAM, or the device.                                *)
(***************************************************************************)
EXTENDS BoardTop, MCProgram, Device

VARIABLE part

\* The greeting: two characters and the zero that is never sent.
MCGreeting == <<<<1, 0>>, <<0, 1>>, <<0, 0>>>>
MCChars    == {<<1, 0>>, <<1, 1>>}

MCInit ==
  /\ Init /\ DeviceInit
  /\ part \in {"cpu", "device"}
  /\ part = "device" => program = CHOOSE p \in Programs : TRUE

MCNext ==
  \/ part = "cpu" /\ Tick /\ UNCHANGED <<deviceVars, part>>
  \/ part = "device" /\ DeviceNext /\ UNCHANGED <<vars, part>>

MCSpec == /\ MCInit /\ [][MCNext]_<<vars, deviceVars, part>>
          /\ WF_<<vars, deviceVars, part>>(MCNext)
=============================================================================
