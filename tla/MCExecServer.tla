---------------------------- MODULE MCExecServer ----------------------------
(* Small instances of ExecServer for TLC. *)
EXTENDS ExecServerInv, TLC

OneKey  == {[id |-> "k_1", label |-> [fold |-> "a"]]}
TwoKeys == OneKey \cup {[id |-> "k_2", label |-> [fold |-> "b"]]}

\* The requests are interchangeable
AnyRequest == Permutations(Requests)
=============================================================================
