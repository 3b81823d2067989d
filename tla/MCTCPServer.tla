----------------------------- MODULE MCTCPServer -----------------------------
(* Instances of TCPServer for TLC. *)
EXTENDS TCPServer

(* The connections are interchangeable; used for safety only. *)
Symmetry == Permutations(Conns)
=============================================================================
