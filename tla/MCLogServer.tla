----------------------------- MODULE MCLogServer -----------------------------
(* Small instances of LogServer for TLC.                                     *)
EXTENDS LogServer, TLC

(* Slots are only told apart by their contents, descriptors by what is open  *)
(* behind them.                                                              *)
Symmetry == Permutations(ConnReqs) \cup Permutations(FD)

=============================================================================
