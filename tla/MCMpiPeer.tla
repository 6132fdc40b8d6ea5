----------------------------- MODULE MCMpiPeer -----------------------------
(* Model checking MpiPeer: both modes under every buffering, without and   *)
(* with the setups in which a number can change in its stack slot.         *)
EXTENDS MpiPeer

Modes == [async : BOOLEAN, eager : SUBSET Tags]
Sound == {s \in Modes : ~s.async \/ "size" \in s.eager}
Risky == Modes \ Sound
=============================================================================
