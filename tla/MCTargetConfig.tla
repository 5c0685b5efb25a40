--------------------------- MODULE MCTargetConfig ---------------------------
(* Commands, symmetries and small instances of TargetConfig for TLC. *)
EXTENDS TargetConfigInv, TLC

Add(name, key, use) == [kind |-> "add", name |-> name, ns |-> "ns", key |-> key, use |-> use]

\* Two targets come and go, with keys issued, given, replaced and revoked
TargetCommands ==
    {Add(1, 0, FALSE), Add(2, 0, TRUE), Add(2, 1, FALSE)}
      \cup {[kind |-> "use", name |-> 1]}
      \cup {[kind |-> "remove", name |-> n] : n \in Names}
      \cup {[kind |-> "keyAdd", name |-> 0, label |-> "a", noSave |-> b] : b \in BOOLEAN}
      \cup {[kind |-> "remoteInit", name |-> 1, label |-> "b"]}
      \cup {[kind |-> "revoke", name |-> n, id |-> 1] : n \in {0, 1}}

\* One target and the commands that issue it a key
KeyCommands ==
    {Add(1, 0, FALSE)}
      \cup {[kind |-> "keyAdd", name |-> 0, label |-> "a", noSave |-> FALSE]}
      \cup {[kind |-> "remoteInit", name |-> 1, label |-> "b"]}

AnyShell == Permutations(Procs)
=============================================================================
