---------------------------- MODULE MCClientMenu ----------------------------
(***************************************************************************)
(* Instances of ClientMenu for TLC.                                        *)
(***************************************************************************)
EXTENDS ClientMenu

CONSTANTS r1, r2

MCOneReader  == {r1}
MCTwoReaders == {r1, r2}

=============================================================================
