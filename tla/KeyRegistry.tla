---------------------------- MODULE KeyRegistry ----------------------------
(***************************************************************************)
(* What the key store promises, without files, locks or processes.  Every  *)
(* namespace has a registry of keys that Authenticate accepts; a key that  *)
(* IssueKey returned is granted and stays registered until somebody        *)
(* removes it, or power loss takes a namespace that had not reached stable *)
(* storage; a key whose revocation was reported never comes back.  Between *)
(* the moment a change shows and the moment it is reported, power loss may *)
(* undo it, and nothing else may.                                          *)
(*                                                                         *)
(* A key is a record with at least an id and a label with its case fold.   *)
(* The server (ExecServer) is checked against this specification of the    *)
(* store, and the store's files and locks (KeyStore) implement it.         *)
(***************************************************************************)
CONSTANTS Namespaces, Keys

VARIABLES
    registry, \* the keys Authenticate accepts
    granted,  \* registered keys whose issue was reported, and that are owed
    removed,  \* keys taken out of the registry, reported or not
    revoked   \* removed keys whose revocation was reported

vars == <<registry, granted, removed, revoked>>

Init ==
    /\ registry = [n \in Namespaces |-> {}]
    /\ granted = [n \in Namespaces |-> {}]
    /\ removed = [n \in Namespaces |-> {}]
    /\ revoked = [n \in Namespaces |-> {}]

DistinctLabels(keys) ==
    \A j, k \in keys : j.label.fold = k.label.fold => j = k

\* A new key shows; its label differs from every registered one
Add(n, k) ==
    /\ k \notin registry[n] \cup removed[n]
    /\ registry' = [registry EXCEPT ![n] = @ \cup {k}]
    /\ DistinctLabels(registry'[n])
    /\ UNCHANGED <<granted, removed, revoked>>

\* All keys with the id of a registered key disappear, granted or not
Remove(n, k) ==
    LET gone == {j \in registry[n] : j.id = k.id} IN
    /\ registry' = [registry EXCEPT ![n] = @ \ gone]
    /\ granted' = [granted EXCEPT ![n] = @ \ gone]
    /\ removed' = [removed EXCEPT ![n] = @ \cup gone]
    /\ UNCHANGED revoked

\* The issue of a registered key is reported
Grant(n, k) ==
    /\ granted' = [granted EXCEPT ![n] = @ \cup {k}]
    /\ UNCHANGED <<registry, removed, revoked>>

\* The removal of some keys is reported
Retire(n, keys) ==
    /\ revoked' = [revoked EXCEPT ![n] = @ \cup keys]
    /\ UNCHANGED <<registry, granted, removed>>

\* Power loss keeps what was reported and some of what was not; a namespace
\* whose directory had not reached stable storage is lost as a whole
PowerLoss ==
    /\ UNCHANGED revoked
    /\ removed' = revoked
    /\ registry' \in [Namespaces -> SUBSET UNION {registry[n] \cup removed[n] : n \in Namespaces}]
    /\ granted' \in [Namespaces -> SUBSET UNION {granted[n] : n \in Namespaces}]
    /\ \A n \in Namespaces :
         \/ granted'[n] = {} /\ registry'[n] = {}
         \/ /\ granted'[n] = granted[n]
            /\ granted[n] \subseteq registry'[n]
            /\ registry'[n] \subseteq (registry[n] \cup removed[n]) \ revoked[n]
            /\ DistinctLabels(registry'[n])

Next ==
    \/ \E n \in Namespaces :
         \/ \E keys \in SUBSET removed[n] : Retire(n, keys)
         \/ \E k \in registry[n] : Remove(n, k) \/ Grant(n, k)
         \/ \E k \in Keys : Add(n, k)
    \/ PowerLoss

Spec == Init /\ [][Next]_vars

=============================================================================
