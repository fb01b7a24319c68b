----------------------------- MODULE MCFraming ------------------------------
(***************************************************************************)
(* Instance of Framing for TLC: wires with good frames too short to hold a *)
(* message type.                                                           *)
(***************************************************************************)
EXTENDS Framing

Cells   == {NoSync} \cup {Sync(n, TRUE) : n \in {2, 3}}
MCWires == {w \in [1..6 -> Cells] : FramesApart(w)}
=============================================================================
