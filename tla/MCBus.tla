------------------------------- MODULE MCBus --------------------------------
(***************************************************************************)
(* Values for the two implementations of the cache bus: words of two       *)
(* bytes, a memory of two words, single beats, bursts of two and four, an  *)
(* aligned start, one in the middle of its window and one off its slot.    *)
(***************************************************************************)
EXTENDS Integers

\* A burst fits its window in memory: size and len of each kind of transfer.
MCRequests ==
  {[is_write |-> w, size |-> k[1], addr |-> a, len |-> k[2]] :
     w \in BOOLEAN, k \in {<<0, 0>>, <<1, 0>>, <<1, 1>>, <<0, 3>>}, a \in {0, 3}}

MCPayloads ==
  {[strobe |-> {0, 1}, data |-> [l \in {0, 1} |-> l]],
   [strobe |-> {0}, data |-> [l \in {0, 1} |-> 1]]}

MCImages == {[w \in {0, 1} |-> [l \in {0, 1} |-> 0]]}
=============================================================================
