----------------------------- MODULE KeyStoreInv -----------------------------
(***************************************************************************)
(* The inductive invariant behind the safety properties of KeyStore, kept  *)
(* apart because the proofs need it and the model does not.  TLC checks it *)
(* on the instances of MCKeyStore, TLAPS that every step preserves it.     *)
(***************************************************************************)
EXTENDS KeyStore

\* Where each kind of call can be
Reach(kind) ==
    IF kind = "init"
      THEN {"lock", "readNamespace", "statKeys", "sync", "rename", "syncDir"}
    ELSE IF kind \in {"issue", "revoke"}
      THEN {"stat", "lock", "readKeys", "sync", "rename", "syncDir"}
    ELSE {"stat", "readKeys"}

Control ==
    \A p \in Procs :
      /\ pc[p] = "idle" <=> op[p] = Nil
      /\ op[p] # Nil => op[p].ns \in Namespaces /\ pc[p] \in Reach(op[p].kind)
      /\ pc[p] \in {"sync", "rename", "syncDir"} =>
           /\ tmp[p].target \in Files
           /\ op[p].kind # "init" => tmp[p].target = "keys.json"
      /\ pc[p] \in {"rename", "syncDir"} => tmp[p].state = "clean"

\* A call holds its lock from withLock to its return
Holds(p) ==
    \/ pc[p] \in {"readNamespace", "statKeys", "sync", "rename", "syncDir"}
    \/ pc[p] = "readKeys" /\ op[p].kind \in {"issue", "revoke"}

Locking == \A p \in Procs : Holds(p) => lock[op[p].ns][LockFile(op[p])] = p

\* writeJSONAtomic's order of fsync and rename: no process reads, and no power
\* loss leaves, a file whose contents were not synced before they were named
FilesWhole ==
    \A n \in Namespaces, f \in Files : \A view \in {file[n], disk[n]} :
      view[f].state \in {"none", "clean"}

\* Files are whole, and a missing key file holds no keys
Whole ==
    /\ FilesWhole
    /\ \A n \in Namespaces : \A view \in {file[n], disk[n]} :
         view["keys.json"].state = "none" => view["keys.json"].keys = {}

\* What a writer of keys.json knows of the file it is about to replace, or has
\* just replaced: nobody else changes it, Init (under the other lock) included
WriterOf(n, p) ==
    /\ op[p] # Nil
    /\ op[p].ns = n
    /\ pc[p] \in {"sync", "rename", "syncDir"}
    /\ tmp[p].target = "keys.json"

InitWriter(n, p) ==
    IF pc[p] = "syncDir" THEN Found(n, "keys.json")
    ELSE ~Found(n, "keys.json") /\ tmp[p].keys = {}

IssueWriter(n, p) ==
    /\ Found(n, "keys.json") /\ Found(n, "namespace.json")
    /\ delta[p] \cap revoked[n] = {}
    /\ IF pc[p] = "syncDir" THEN delta[p] \subseteq KeysIn(n)
       ELSE /\ tmp[p].keys = KeysIn(n) \cup delta[p]
            /\ \A j, k \in tmp[p].keys : j.label.fold = k.label.fold => j = k

RevokeWriter(n, p) ==
    /\ Found(n, "keys.json")
    /\ IF pc[p] = "syncDir" THEN delta[p] \cap KeysIn(n) = {}
       ELSE tmp[p].keys = KeysIn(n) \ delta[p]

Writers ==
    \A n \in Namespaces, p \in Procs : WriterOf(n, p) =>
      /\ op[p].kind = "init" => InitWriter(n, p)
      /\ op[p].kind = "issue" => IssueWriter(n, p)
      /\ op[p].kind = "revoke" => RevokeWriter(n, p)

\* Init has found or renamed namespace.json and has turned to keys.json
AtKeys(p) ==
    \/ pc[p] \in {"statKeys", "syncDir"}
    \/ pc[p] \in {"sync", "rename"} /\ tmp[p].target = "keys.json"

\* A call past existingDir, or an Init past namespace.json, has seen that file,
\* and nothing removes it
PastStat ==
    \A p \in Procs :
      ((op[p] # Nil /\ op[p].kind # "init" /\ pc[p] # "stat") \/ AtKeys(p))
        => Found(op[p].ns, "namespace.json")

\* No key has a serial that was not given out
Fresh ==
    /\ \A n \in Namespaces :
         \A k \in revoked[n] \cup KeysIn(n) \cup disk[n]["keys.json"].keys :
           k.serial <= serial
    /\ \A p \in Procs : \A k \in delta[p] \cup tmp[p].keys : k.serial <= serial

Inv ==
    /\ Control /\ Locking /\ Whole /\ Writers /\ PastStat /\ Fresh
    /\ GrantedKeysKept /\ RevokedKeysGone /\ LabelsUnique

(***************************************************************************)
(* What the refinement of KeyRegistry needs besides: where the keys of a   *)
(* call under way, and those power loss may bring back, belong.            *)
(***************************************************************************)
IssueTrace(n, p) ==
    \E k \in Keys :
      /\ delta[p] = {k}
      /\ k \notin released[n]
      /\ pc[p] # "syncDir" => k \notin KeysIn(n) \cup removed[n]

RevokeTrace(n, p) ==
    IF pc[p] = "syncDir" THEN delta[p] \subseteq removed[n]
    ELSE delta[p] # {} /\ delta[p] = {k \in KeysIn(n) : k.id = op[p].arg}

Traced ==
    /\ \A n \in Namespaces, p \in Procs : WriterOf(n, p) =>
         /\ op[p].kind = "issue" => IssueTrace(n, p)
         /\ op[p].kind = "revoke" => RevokeTrace(n, p)
    /\ \A n \in Namespaces :
         /\ disk[n]["keys.json"].keys \subseteq KeysIn(n) \cup removed[n]
         /\ \A k \in granted[n] \cup released[n] \cup removed[n] : k.serial <= serial

=============================================================================
