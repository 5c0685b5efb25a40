------------------------- MODULE KeyStoreRefinement -------------------------
(***************************************************************************)
(* The files, locks and write steps of KeyStore implement KeyRegistry, the *)
(* specification of the key store that the HTTP server relies on: every    *)
(* step changes the visible keys as one action of KeyRegistry does, or not *)
(* at all.                                                                 *)
(***************************************************************************)
EXTENDS KeyStoreProofs

-----------------------------------------------------------------------------
\* Serials are given out in order.
LEMMA SerialGrows ==
    ASSUME TypeOK, Inv, [Next]_vars
    PROVE  serial \in Nat /\ serial' \in Nat /\ serial <= serial'
<1>1. serial \in Nat /\ serial' \in Nat
  BY TypeStep, SerialAssumption DEF TypeOK, Inv
<1>2. serial' = serial \/ serial' = serial + 1
  BY DEF Next, Step, Begin, Refuse, Lock, Stat, ReadNamespace, StatKeys, ReadFails,
         IssueKey, RevokeKey, Authenticate, ListKeys, SyncTmp, Rename, SyncDir, IOError,
         Crash, WriteBack, WriteBackRoot, PowerLoss, vars
<1> QED
  BY <1>1, <1>2

\* Keys that were handed out or removed had serials of their own.
LEMMA HistoryStep ==
    ASSUME TypeOK, Inv, Traced, [Next]_vars, NEW n \in Namespaces
    PROVE  \A k \in granted'[n] \cup released'[n] \cup removed'[n] : k.serial <= serial'
<1> DEFINE Past == granted[n] \cup released[n] \cup removed[n]
           Mine == UNION {delta[p] : p \in Procs}
<1>1. serial \in Nat /\ serial' \in Nat /\ serial <= serial'
  BY SerialGrows
<1>2. \A k \in Past \cup revoked[n] : k.serial <= serial
  BY DEF Traced, Inv, Fresh
<1>3. \A p \in Procs : \A k \in delta[p] : k.serial <= serial
  BY DEF Inv, Fresh
<1>4. Past' \subseteq Past \cup revoked[n] \cup Mine
  <2>1. ASSUME NEW p \in Procs, Rename(p)
        PROVE  Past' \subseteq Past \cup delta[p]
    BY <2>1 DEF TypeOK, Rename
  <2>2. ASSUME NEW p \in Procs, SyncDir(p)
        PROVE  Past' \subseteq Past \cup delta[p]
    <3>1. granted'[n] \subseteq granted[n] \cup delta[p]
      BY <2>2 DEF TypeOK, SyncDir, Promise, history
    <3>2. released' = released /\ removed' = removed
      BY <2>2 DEF SyncDir, Promise, history
    <3> QED
      BY <3>1, <3>2
  <2>3. ASSUME NEW m \in Namespaces, NEW f \in Files, WriteBack(m, f)
        PROVE  Past' = Past
    BY <2>3 DEF WriteBack, history
  <2>4. CASE PowerLoss
    BY <2>4 DEF PowerLoss
  <2>5. \A p \in Procs : delta[p] \subseteq Mine
    OBVIOUS
  <2> HIDE DEF Mine
  <2> QED
    BY <2>1, <2>2, <2>3, <2>4, <2>5, StoreSteps
<1>5. \A k \in Past' : k \in Keys /\ k.serial \in Nat
  <2>1. TypeOK'
    BY TypeStep DEF Inv
  <2>2. Past' \subseteq Keys
    BY <2>1 DEF TypeOK
  <2>3. ASSUME NEW k \in Keys PROVE k.serial \in Nat
    <3>1. PICK id \in Ids, label \in Labels, s \in Serials : k = Key(id, label, s)
      BY DEF Keys
    <3>2. s \in Nat
      BY SerialAssumption DEF Serials
    <3> QED
      BY <3>1, <3>2 DEF Key
  <2> QED
    BY <2>2, <2>3
<1>6. ASSUME NEW k \in Past' PROVE k.serial <= serial'
  <2>1. k.serial <= serial
    BY <1>2, <1>3, <1>4
  <2> QED
    BY <1>1, <1>5, <2>1
<1> QED
  BY <1>6

\* Power loss brings back nothing but removed keys.
LEMMA RecoverableStep ==
    ASSUME TypeOK, Inv, Traced, [Next]_vars, NEW n \in Namespaces
    PROVE  disk'[n]["keys.json"].keys \subseteq KeysIn(n)' \cup removed'[n]
<1>1. disk[n]["keys.json"].keys \subseteq KeysIn(n) \cup removed[n]
  BY DEF Traced
<1>2. ASSUME NEW p \in Procs, Rename(p)
      PROVE  disk'[n]["keys.json"].keys \subseteq KeysIn(n)' \cup removed'[n]
  <2>1. disk' = disk
    BY <1>2 DEF Rename
  <2>2. removed'[n] = IF n = op[p].ns /\ op[p].kind = "revoke" THEN removed[n] \cup delta[p]
                      ELSE removed[n]
    BY <1>2 DEF TypeOK, Rename
  <2>3. ~Found(n, "keys.json") => KeysIn(n) = {}
    BY DEF Inv, Whole, Found, KeysIn
  <2>4. Control /\ Writers
    BY DEF Inv
  <2> QED
    BY <1>1, <1>2, <2>1, <2>2, <2>3, <2>4, RenameKeys
<1>3. ASSUME NEW p \in Procs, SyncDir(p)
      PROVE  disk'[n]["keys.json"].keys \subseteq KeysIn(n)' \cup removed'[n]
  <2>1. removed' = removed
    BY <1>3 DEF SyncDir, Promise, history
  <2> QED
    <3>1. file' = file /\ (disk'[n] = file[n] \/ disk'[n] = disk[n])
      BY <1>3, SyncDirDisk DEF Inv
    <3> QED
      BY <1>1, <2>1, <3>1 DEF KeysIn
<1>4. ASSUME NEW m \in Namespaces, NEW f \in Files, WriteBack(m, f)
      PROVE  disk'[n]["keys.json"].keys \subseteq KeysIn(n)' \cup removed'[n]
  <2>1. removed' = removed
    BY <1>4 DEF WriteBack, history
  <2> QED
    <3>1. /\ file' = file
          /\ \/ disk'[n]["keys.json"] = file[n]["keys.json"]
             \/ disk'[n]["keys.json"] = disk[n]["keys.json"]
      BY <1>4, WriteBackDisk DEF Files
    <3> QED
      BY <1>1, <2>1, <3>1 DEF KeysIn
<1>5. CASE PowerLoss
  <2>1. disk'[n]["keys.json"] = file'[n]["keys.json"]
    BY <1>5, PowerLossFiles DEF Inv, Files
  <2> QED
    BY <2>1 DEF KeysIn
<1> QED
  BY <1>1, <1>2, <1>3, <1>4, <1>5, StoreSteps DEF KeysIn

-----------------------------------------------------------------------------
(* The keys of a call under way. *)

Traces(n, q) ==
    /\ op[q].kind = "issue" => IssueTrace(n, q)
    /\ op[q].kind = "revoke" => RevokeTrace(n, q)

\* A writer's keys keep their place when neither it nor its file changes.
LEMMA TraceKept ==
    ASSUME NEW n \in Namespaces, NEW q \in Procs, Traced, WriterOf(n, q),
           op'[q] = op[q], delta'[q] = delta[q], pc[q] = "syncDir" <=> pc'[q] = "syncDir",
           KeysIn(n)' = KeysIn(n), released'[n] = released[n], removed'[n] = removed[n]
    PROVE  Traces(n, q)'
<1>1. /\ op[q].kind = "issue" => IssueTrace(n, q)
      /\ op[q].kind = "revoke" => RevokeTrace(n, q)
  BY DEF Traced
<1> DEFINE keys == KeysIn(n)
<1>2. keys' = keys
  OBVIOUS
<1>3. ASSUME op[q].kind = "issue" PROVE IssueTrace(n, q)'
  BY <1>1, <1>3 DEF IssueTrace
<1>4. ASSUME op[q].kind = "revoke" PROVE RevokeTrace(n, q)'
  BY <1>1, <1>4 DEF RevokeTrace
<1> QED
  BY <1>3, <1>4 DEF Traces

\* Between the read under the lock and the end of the call, nobody else moves
\* the keys a writer is about to add or remove.
LEMMA TracesStep ==
    ASSUME TypeOK, Inv, Traced, [Next]_vars,
           NEW n \in Namespaces, NEW q \in Procs, WriterOf(n, q)'
    PROVE  Traces(n, q)'
<1> USE DEF Inv
<1> DEFINE Same == /\ op'[q] = op[q] /\ pc'[q] = pc[q]
                   /\ tmp'[q] = tmp[q] /\ delta'[q] = delta[q]
<1>1. CASE Same /\ file' = file /\ released' = released /\ removed' = removed
  BY <1>1, TraceKept DEF WriterOf, KeysIn
<1>2. ASSUME NEW p \in Procs, Forget(p)
      PROVE  p # q /\ Same
  BY <1>2 DEF WriterOf, TypeOK, Forget
<1>3. ASSUME NEW p \in Procs, NEW call \in Workload, Begin(p, call) \/ Refuse(p, call)
      PROVE  Traces(n, q)'
  <2>1. Same
    BY <1>3 DEF WriterOf, TypeOK, Begin, Refuse, Goto, local
  <2> QED
    BY <1>1, <1>3, <2>1 DEF Begin, Refuse, store, history
<1>4. ASSUME NEW p \in Procs, Lock(p) \/ Stat(p)
      PROVE  Traces(n, q)'
  <2>1. Same
    BY <1>2, <1>4 DEF WriterOf, TypeOK, Lock, Stat, Return, Goto, local
  <2> QED
    BY <1>1, <1>4, <2>1 DEF Lock, Stat, store, history
<1>5. ASSUME NEW p \in Procs, ReadNamespace(p) \/ StatKeys(p)
      PROVE  Traces(n, q)'
  <2>1. file' = file /\ released' = released /\ removed' = removed
    BY <1>5 DEF ReadNamespace, StatKeys, store, history
  <2>2. CASE p # q
    <3>1. Same
      BY <1>2, <1>5, <2>2 DEF TypeOK, ReadNamespace, StatKeys, Encode, Goto, Return, local
    <3> QED
      BY <1>1, <2>1, <3>1
  <2>3. CASE p = q /\ ~Forget(p)
    <3>1. op[p].kind = "init"
      BY <1>5 DEF ReadNamespace, StatKeys, Control, Reach
    <3>2. op' = op
      BY <1>5, <2>3 DEF ReadNamespace, StatKeys, Return, local
    <3> QED
      BY <2>3, <3>1, <3>2 DEF Traces
  <2> QED
    BY <1>2, <2>2, <2>3
<1>6. ASSUME NEW p \in Procs, ReadFails(p) \/ Authenticate(p) \/ ListKeys(p)
                                 \/ IOError(p) \/ Crash(p)
      PROVE  Traces(n, q)'
  BY <1>1, <1>2, <1>6
     DEF ReadFails, Authenticate, ListKeys, IOError, Crash, Return, store, history
<1>7. ASSUME NEW p \in Procs, IssueKey(p)
      PROVE  Traces(n, q)'
  <2> DEFINE label == Trim(op[p].arg)
  <2>1. file' = file /\ released' = released /\ removed' = removed
    BY <1>7 DEF IssueKey, store, history
  <2>2. CASE Return(p, "ErrDuplicateLabel")
    BY <1>1, <1>2, <2>1, <2>2 DEF Return
  <2>3. ASSUME NEW id \in Ids, serial < MaxSerial,
               delta' = [delta EXCEPT ![p] = {NewKey(id, label)}],
               Encode(p, "keys.json", KeysIn(op[p].ns) \cup {NewKey(id, label)}),
               UNCHANGED <<lock, op>>
        PROVE  Traces(n, q)'
    <3> DEFINE key == NewKey(id, label)
    <3>1. CASE p # q
      BY <1>1, <2>1, <2>3, <3>1 DEF TypeOK, Encode, Goto
    <3>2. CASE p = q
      <4>1. op[q].ns = n /\ op'[q].kind = "issue"
        BY <1>7, <2>3, <3>2 DEF WriterOf, IssueKey
      <4>2. delta'[q] = {key}
        BY <2>3, <3>2 DEF TypeOK
      <4>3. key \in Keys /\ key.serial = serial + 1
        <5>1. op[p] \in Calls
          BY <1>7, Running DEF IssueKey
        <5>2. op[p].arg \in RawLabels
          BY <1>7, <5>1, CallFields DEF IssueKey
        <5> QED
          BY <2>3, <5>2, NewKeyType
      <4>4. key \notin KeysIn(n) \cup released[n] \cup removed[n]
        <5>1. \A k \in KeysIn(n) \cup released[n] \cup removed[n] : k.serial <= serial
          BY DEF Fresh, Traced
        <5>2. serial \in Nat
          BY SerialGrows
        <5> HIDE DEF key
        <5> QED
          BY <4>3, <5>1, <5>2
      <4> HIDE DEF key
      <4>5. IssueTrace(n, q)'
        BY <2>1, <4>2, <4>3, <4>4 DEF IssueTrace, KeysIn
      <4> QED
        BY <4>1, <4>5 DEF Traces
    <3> QED
      BY <3>1, <3>2
  <2> QED
    BY <1>7, <2>2, <2>3 DEF IssueKey
<1>8. ASSUME NEW p \in Procs, RevokeKey(p)
      PROVE  Traces(n, q)'
  <2> DEFINE match == {k \in KeysIn(op[p].ns) : k.id = op[p].arg}
  <2>1. file' = file /\ released' = released /\ removed' = removed
    BY <1>8 DEF RevokeKey, store, history
  <2>2. CASE Return(p, "ErrKeyMissing")
    BY <1>1, <1>2, <2>1, <2>2 DEF Return
  <2>3. CASE /\ match # {}
             /\ delta' = [delta EXCEPT ![p] = match]
             /\ Encode(p, "keys.json", KeysIn(op[p].ns) \ match)
             /\ UNCHANGED <<lock, op>>
    <3>1. CASE p # q
      BY <1>1, <2>1, <2>3, <3>1 DEF TypeOK, Encode, Goto
    <3>2. CASE p = q
      <4>1. op[q].ns = n /\ op' = op /\ op[q].kind = "revoke" /\ pc'[q] = "sync"
        BY <1>8, <2>3, <3>2 DEF WriterOf, TypeOK, RevokeKey, Encode, Goto
      <4>2. delta'[q] = {k \in KeysIn(n) : k.id = op[q].arg} /\ delta'[q] # {}
        BY <2>3, <3>2, <4>1 DEF TypeOK
      <4>3. KeysIn(n)' = KeysIn(n)
        BY <2>1 DEF KeysIn
      <4>4. RevokeTrace(n, q)'
        BY <4>1, <4>2, <4>3 DEF RevokeTrace
      <4> QED
        BY <4>1, <4>4 DEF Traces
    <3> QED
      BY <3>1, <3>2
  <2> QED
    BY <1>8, <2>2, <2>3 DEF RevokeKey
<1>9. ASSUME NEW p \in Procs, SyncTmp(p)
      PROVE  Traces(n, q)'
  <2>1. /\ op'[q] = op[q] /\ delta'[q] = delta[q] /\ tmp'[q].target = tmp[q].target
        /\ pc[q] \in {"sync", "rename", "syncDir"}
        /\ pc[q] = "syncDir" <=> pc'[q] = "syncDir"
    BY <1>9 DEF WriterOf, TypeOK, SyncTmp, Goto, Tmps
  <2>2. file' = file /\ released' = released /\ removed' = removed
    BY <1>9 DEF SyncTmp, store, history
  <2> QED
    BY <2>1, <2>2, TraceKept DEF WriterOf, KeysIn
<1>10. ASSUME NEW p \in Procs, Rename(p)
       PROVE  Traces(n, q)'
  <2>1. op' = op /\ tmp' = tmp /\ delta' = delta
    BY <1>10 DEF Rename, local
  <2>2. /\ removed'[n] = IF op[p].ns = n /\ op[p].kind = "revoke" THEN removed[n] \cup delta[p]
                         ELSE removed[n]
        /\ ~(op[p].ns = n /\ op[p].kind = "revoke") => released'[n] = released[n]
    BY <1>10 DEF TypeOK, Rename
  <2>3. CASE p = q
    <3>1. WriterOf(n, q) /\ pc[q] = "rename" /\ pc'[q] = "syncDir"
      BY <1>10, <2>1, <2>3 DEF WriterOf, TypeOK, Rename, Goto
    <3>2. /\ op[q].kind = "issue" => IssueTrace(n, q)
          /\ op[q].kind = "revoke" => RevokeTrace(n, q)
      BY <3>1 DEF Traced
    <3>3. op[q].kind = "issue" => IssueTrace(n, q)'
      BY <2>1, <2>2, <2>3, <3>1, <3>2 DEF IssueTrace
    <3>4. op[q].kind = "revoke" => RevokeTrace(n, q)'
      BY <2>1, <2>2, <2>3, <3>1 DEF RevokeTrace, WriterOf
    <3> QED
      BY <2>1, <3>3, <3>4 DEF Traces
  <2>4. CASE p # q
    <3>1. pc'[q] = pc[q] /\ WriterOf(n, q)
      BY <1>10, <2>1, <2>4 DEF WriterOf, TypeOK, Rename, Goto
    <3>2. CASE /\ KeysIn(n)' = KeysIn(n)
               /\ released'[n] = released[n] /\ removed'[n] = removed[n]
      BY <2>1, <3>1, <3>2, TraceKept
    <3>3. CASE op[p].ns = n /\ tmp[p].target = "keys.json"
      <4>1. WriterOf(n, p) /\ pc[p] = "rename"
        BY <1>10, <3>3 DEF WriterOf, Rename, Control
      <4>2. /\ op[p].kind \in {"init", "issue", "revoke"}
            /\ op[q].kind \in {"init", "issue", "revoke"}
        BY <3>1, <4>1 DEF WriterOf, Control, Reach
      <4>3. LockFile(op[p]) # LockFile(op[q])
        BY <2>4, <3>1, <4>1, Exclusive DEF WriterOf, Holds
      <4>4. (op[p].kind = "init" /\ op[q].kind \in {"issue", "revoke"})
              \/ (op[q].kind = "init" /\ op[p].kind \in {"issue", "revoke"})
        BY <4>2, <4>3 DEF LockFile
      <4>5. op[p].kind = "init" => ~Found(n, "keys.json")
        BY <4>1 DEF Writers, InitWriter
      <4>6. op[q].kind \in {"issue", "revoke"} => Found(n, "keys.json")
        BY <3>1 DEF Writers, IssueWriter, RevokeWriter
      <4>7. op[q].kind = "init"
        BY <4>4, <4>5, <4>6
      <4> QED
        BY <2>1, <4>7 DEF Traces
    <3>4. CASE ~(op[p].ns = n /\ tmp[p].target = "keys.json")
      <4>1. KeysIn(n)' = KeysIn(n)
        BY <1>10, <3>4, RenameFile DEF KeysIn, Files
      <4>2. ~(op[p].ns = n /\ op[p].kind = "revoke")
        BY <1>10, <3>4 DEF Rename, Control
      <4> QED
        BY <2>2, <3>2, <4>1, <4>2
    <3> QED
      BY <3>3, <3>4
  <2> QED
    BY <2>3, <2>4
<1>11. ASSUME NEW p \in Procs, SyncDir(p)
       PROVE  Traces(n, q)'
  <2>1. p # q /\ Same
    BY <1>2, <1>11 DEF WriterOf, TypeOK, SyncDir, Return, Goto
  <2> QED
    BY <1>1, <1>11, <2>1 DEF SyncDir, Promise, history
<1>12. ASSUME NEW m \in Namespaces,
              (\E f \in Files : WriteBack(m, f)) \/ WriteBackRoot(m)
       PROVE  Traces(n, q)'
  BY <1>1, <1>12 DEF WriteBack, WriteBackRoot, local, history
<1>13. CASE PowerLoss
  BY <1>13 DEF PowerLoss, WriterOf
<1>14. CASE UNCHANGED vars
  BY <1>1, <1>14 DEF vars, local, history
<1> QED
  BY <1>3, <1>4, <1>5, <1>6, <1>7, <1>8, <1>9, <1>10, <1>11, <1>12, <1>13, <1>14
     DEF Next, Step

LEMMA TracedStep == TypeOK /\ Inv /\ Traced /\ [Next]_vars => Traced'
<1> SUFFICES ASSUME TypeOK, Inv, Traced, [Next]_vars PROVE Traced'
  OBVIOUS
<1>1. \A n \in Namespaces, q \in Procs : WriterOf(n, q)' => Traces(n, q)'
  BY TracesStep
<1>2. \A n \in Namespaces :
        /\ disk'[n]["keys.json"].keys \subseteq KeysIn(n)' \cup removed'[n]
        /\ \A k \in granted'[n] \cup released'[n] \cup removed'[n] : k.serial <= serial'
  BY HistoryStep, RecoverableStep
<1> QED
  BY <1>1, <1>2 DEF Traced, Traces

-----------------------------------------------------------------------------
(* Every step is a step of KeyRegistry or a stutter. *)

\* A rename of keys.json adds the key of an IssueKey, removes those of a
\* RevokeKey, and shows nothing new for Init.
LEMMA RenameRefines ==
    ASSUME TypeOK, Inv, Traced, NEW p \in Procs, Rename(p)
    PROVE  Registry!Next \/ UNCHANGED <<Visible, Kept, removed, revoked>>
<1> DEFINE n == op[p].ns
<1>1. n \in Namespaces
  BY Running DEF Rename, Inv
<1>2. \A m \in Namespaces : KeysIn(m)' = IF m = n /\ tmp[p].target = "keys.json"
                                          THEN tmp[p].keys ELSE KeysIn(m)
  <2>1. "keys.json" \in Files /\ Control
    BY DEF Files, Inv
  <2>2. \A m \in Namespaces :
          file'[m]["keys.json"] = IF m = n /\ "keys.json" = tmp[p].target
                                    THEN [state |-> "clean", keys |-> tmp[p].keys]
                                    ELSE file[m]["keys.json"]
    BY <2>1, RenameFile
  <2> QED
    BY <2>2 DEF KeysIn
<1>3. /\ granted' = granted
      /\ released' = [released EXCEPT ![n] =
                         IF op[p].kind = "revoke" THEN @ \cup delta[p] ELSE @]
      /\ removed' = [removed EXCEPT ![n] = IF op[p].kind = "revoke" THEN @ \cup delta[p] ELSE @]
      /\ revoked' = revoked
  BY DEF Rename
<1>4. Control /\ Writers
  BY DEF Inv
<1>5. {granted, released, removed} \subseteq [Namespaces -> SUBSET Keys]
  BY DEF TypeOK
<1>6. WriterOf(n, p) \/ (tmp[p].target # "keys.json" /\ op[p].kind = "init")
  BY <1>4 DEF Rename, WriterOf, Control
<1>7. pc[p] = "rename"
  BY DEF Rename
<1>8. WriterOf(n, p) => /\ op[p].kind \in {"init", "issue", "revoke"}
                        /\ tmp[p].target = "keys.json"
  BY <1>4 DEF WriterOf, Control, Reach
<1>9. CASE op[p].kind = "init"
  <2>1. Kept' = Kept /\ removed' = removed
    BY <1>1, <1>3, <1>5, <1>9 DEF Kept
  <2>2. WriterOf(n, p) => tmp[p].keys = {} /\ KeysIn(n) = {}
    BY <1>1, <1>4, <1>7, <1>9 DEF Writers, InitWriter, Inv, Whole, Found, KeysIn
  <2>3. \A m \in Namespaces : KeysIn(m)' = KeysIn(m)
    BY <1>2, <1>6, <2>2
  <2>4. Visible' = Visible
    BY <2>3 DEF Visible
  <2> QED
    BY <1>3, <2>1, <2>4
<1>10. CASE op[p].kind = "issue"
  <2>1. WriterOf(n, p) /\ tmp[p].target = "keys.json"
    BY <1>6, <1>8, <1>10
  <2>2. PICK k \in Keys : delta[p] = {k} /\ k \notin KeysIn(n) \cup removed[n]
    BY <1>1, <1>7, <1>10, <2>1 DEF Traced, IssueTrace
  <2>3. tmp[p].keys = KeysIn(n) \cup {k} /\ UniqueIn(tmp[p].keys)
    BY <1>1, <1>4, <1>7, <1>10, <2>1, <2>2 DEF Writers, IssueWriter, UniqueIn
  <2>4. Visible' = [Visible EXCEPT ![n] = @ \cup {k}]
    BY <1>1, <1>2, <2>1, <2>3 DEF Visible
  <2>5. Visible'[n] = tmp[p].keys /\ Visible[n] = KeysIn(n)
    BY <1>1, <1>2, <2>1 DEF Visible
  <2>6. Kept' = Kept /\ removed' = removed
    BY <1>1, <1>3, <1>5, <1>10 DEF Kept
  <2>7. Registry!Add(n, k)
    BY <1>3, <2>2, <2>3, <2>4, <2>5, <2>6
       DEF Registry!Add, Registry!DistinctLabels, UniqueIn, Visible
  <2> QED
    BY <1>1, <2>2, <2>7 DEF Registry!Next
<1>11. CASE op[p].kind = "revoke"
  <2>1. WriterOf(n, p) /\ tmp[p].target = "keys.json"
    BY <1>6, <1>8, <1>11
  <2>2. delta[p] # {} /\ delta[p] = {j \in KeysIn(n) : j.id = op[p].arg}
    BY <1>1, <1>7, <1>11, <2>1 DEF Traced, RevokeTrace
  <2>3. PICK k \in delta[p] : TRUE
    BY <2>2
  <2>4. k \in KeysIn(n) /\ delta[p] = {j \in KeysIn(n) : j.id = k.id}
    BY <2>2, <2>3
  <2>5. tmp[p].keys = KeysIn(n) \ delta[p]
    BY <1>1, <1>4, <1>7, <1>11, <2>1 DEF Writers, RevokeWriter
  <2>6. Visible' = [Visible EXCEPT ![n] = @ \ delta[p]] /\ Visible[n] = KeysIn(n)
    BY <1>1, <1>2, <2>1, <2>5 DEF Visible
  <2>7. /\ Kept' = [Kept EXCEPT ![n] = @ \ delta[p]]
        /\ removed' = [removed EXCEPT ![n] = @ \cup delta[p]]
    <3>1. \A m \in Namespaces :
            released'[m] = IF m = n THEN released[m] \cup delta[p] ELSE released[m]
      BY <1>1, <1>3, <1>5, <1>11
    <3>2. \A m \in Namespaces :
            granted'[m] \ released'[m] = IF m = n THEN (granted[m] \ released[m]) \ delta[p]
                                         ELSE granted[m] \ released[m]
      BY <1>3, <3>1
    <3>3. Kept' = [Kept EXCEPT ![n] = @ \ delta[p]]
      BY <1>1, <3>2 DEF Kept
    <3>4. removed' = [removed EXCEPT ![n] = @ \cup delta[p]]
      BY <1>3, <1>11
    <3> QED
      BY <3>3, <3>4
  <2>8. Registry!Remove(n, k)
    BY <1>3, <2>4, <2>6, <2>7 DEF Registry!Remove, Visible
  <2>9. k \in Visible[n]
    BY <2>4, <2>6
  <2> QED
    BY <1>1, <2>8, <2>9 DEF Registry!Next, Visible
<1> QED
  BY <1>6, <1>8, <1>9, <1>10, <1>11

\* The end of a call reports its key as issued or its keys as revoked.
LEMMA SyncDirRefines ==
    ASSUME TypeOK, Inv, Traced, NEW p \in Procs, SyncDir(p)
    PROVE  Registry!Next \/ UNCHANGED <<Visible, Kept, removed, revoked>>
<1> DEFINE n == op[p].ns
<1>1. n \in Namespaces
  BY Running DEF SyncDir, Inv
<1>2. Visible' = Visible /\ removed' = removed
  BY DEF SyncDir, Visible, KeysIn, Promise, history
<1>3. CASE UNCHANGED history
  BY <1>2, <1>3 DEF history, Kept
<1>4. CASE Promise(p) /\ tmp[p].target # "namespace.json"
  <2>1. WriterOf(n, p) /\ pc[p] = "syncDir"
    BY <1>4 DEF SyncDir, WriterOf, Inv, Control, Files
  <2>2. {granted, released, revoked} \subseteq [Namespaces -> SUBSET Keys]
    BY DEF TypeOK
  <2>3. CASE op[p].kind = "issue"
    <3>1. PICK k \in Keys : delta[p] = {k} /\ k \notin released[n]
      BY <1>1, <2>1, <2>3 DEF Traced, IssueTrace
    <3>2. k \in KeysIn(n)
      BY <1>1, <2>1, <2>3, <3>1 DEF Inv, Writers, IssueWriter
    <3>3. Kept' = [Kept EXCEPT ![n] = @ \cup {k}] /\ revoked' = revoked
      <4>1. /\ granted' = [granted EXCEPT ![n] = @ \cup {k}]
            /\ released' = released /\ revoked' = revoked
        BY <1>1, <1>4, <2>2, <2>3, <3>1 DEF Promise
      <4>2. \A m \in Namespaces :
              granted'[m] \ released[m] = IF m = n THEN (granted[m] \ released[m]) \cup {k}
                                          ELSE granted[m] \ released[m]
        BY <1>1, <2>2, <3>1, <4>1
      <4> QED
        BY <1>1, <4>1, <4>2 DEF Kept
    <3>4. Registry!Grant(n, k)
      BY <1>2, <3>3 DEF Registry!Grant, Visible
    <3>5. k \in Visible[n]
      BY <1>1, <3>2 DEF Visible
    <3> QED
      BY <1>1, <3>4, <3>5 DEF Registry!Next, Visible
  <2>4. CASE op[p].kind = "revoke"
    <3>1. delta[p] \subseteq removed[n]
      BY <1>1, <2>1, <2>4 DEF Traced, RevokeTrace
    <3>2. revoked' = [revoked EXCEPT ![n] = @ \cup delta[p]] /\ Kept' = Kept
      BY <1>1, <1>4, <2>2, <2>4 DEF Promise, Kept
    <3>3. Registry!Retire(n, delta[p])
      BY <1>2, <3>2 DEF Registry!Retire, Visible
    <3> QED
      BY <1>1, <3>1, <3>3 DEF Registry!Next
  <2>5. CASE op[p].kind \notin {"issue", "revoke"}
    <3>1. Kept' = Kept /\ revoked' = revoked
      BY <1>1, <1>4, <2>2, <2>5 DEF Promise, Kept
    <3> QED
      BY <1>2, <3>1
  <2> QED
    BY <2>3, <2>4, <2>5
<1> QED
  BY <1>3, <1>4 DEF SyncDir

\* Power loss keeps what was reported, in every namespace whose directory had
\* reached stable storage.
LEMMA PowerLossRefines ==
    ASSUME TypeOK, Inv, Traced, PowerLoss
    PROVE  Registry!Next
<1> DEFINE All == UNION {KeysIn(n) \cup removed[n] : n \in Namespaces}
           Owed == UNION {Kept[n] : n \in Namespaces}
<1>1. ASSUME NEW n \in Namespaces, dir[n] # "durable"
      PROVE  KeysIn(n)' = {} /\ Kept'[n] = {}
  <2>1. KeysIn(n)' = {}
    BY <1>1, PowerLossFiles DEF Inv, KeysIn, Files, Missing
  <2> QED
    BY <1>1, <2>1 DEF PowerLoss, Kept
<1>2. ASSUME NEW n \in Namespaces, dir[n] = "durable"
      PROVE  /\ Kept'[n] = Kept[n]
             /\ Kept[n] \subseteq KeysIn(n)'
             /\ KeysIn(n)' \subseteq (KeysIn(n) \cup removed[n]) \ revoked[n]
  <2>1. KeysIn(n)' = disk[n]["keys.json"].keys
    BY <1>2, PowerLossFiles DEF Inv, KeysIn, Files
  <2>2. Kept[n] \subseteq disk[n]["keys.json"].keys
    BY DEF Inv, GrantedKeysKept
  <2>3. disk[n]["keys.json"].keys \subseteq KeysIn(n) \cup removed[n]
    BY DEF Traced
  <2>4. disk[n]["keys.json"].keys \cap revoked[n] = {}
    BY DEF Inv, RevokedKeysGone
  <2>5. Kept'[n] = Kept[n]
    BY <1>2 DEF PowerLoss, Kept
  <2> QED
    BY <2>1, <2>2, <2>3, <2>4, <2>5
<1>3. LabelsUnique'
  BY InvStep DEF Next, Inv
<1>4. \A n \in Namespaces : Registry!DistinctLabels(KeysIn(n)')
  BY <1>3 DEF LabelsUnique, Registry!DistinctLabels, KeysIn
<1>5. \A n \in Namespaces : Visible[n] = KeysIn(n) /\ Visible'[n] = KeysIn(n)'
  BY DEF Visible
<1>6. \A n \in Namespaces : Kept'[n] \subseteq Kept[n] /\ KeysIn(n)' \subseteq KeysIn(n) \cup removed[n]
  BY <1>1, <1>2
<1>7. Visible' \in [Namespaces -> SUBSET All]
  BY <1>5, <1>6 DEF Visible
<1>8. Kept' \in [Namespaces -> SUBSET Owed]
  BY <1>6 DEF Kept
<1>9. All = UNION {Visible[n] \cup removed[n] : n \in Namespaces}
  BY <1>5
<1>10. \A n \in Namespaces :
         \/ Kept'[n] = {} /\ Visible'[n] = {}
         \/ /\ Kept'[n] = Kept[n]
            /\ Kept[n] \subseteq Visible'[n]
            /\ Visible'[n] \subseteq (Visible[n] \cup removed[n]) \ revoked[n]
            /\ Registry!DistinctLabels(Visible'[n])
  BY <1>1, <1>2, <1>4, <1>5
<1>11. removed' = revoked /\ revoked' = revoked
  BY DEF PowerLoss
<1> HIDE DEF All, Owed
<1>12. Registry!PowerLoss
  BY <1>7, <1>8, <1>9, <1>10, <1>11 DEF Registry!PowerLoss, Owed
<1> QED
  BY <1>12 DEF Registry!Next

LEMMA StepRefines ==
    TypeOK /\ Inv /\ Traced /\ [Next]_vars => [Registry!Next]_(Registry!vars)
<1> SUFFICES ASSUME TypeOK, Inv, Traced, [Next]_vars
             PROVE  Registry!Next \/ UNCHANGED <<Visible, Kept, removed, revoked>>
  BY DEF Registry!vars, Visible, Kept
<1>1. CASE /\ file' = file /\ granted' = granted /\ released' = released
           /\ removed' = removed /\ revoked' = revoked
  BY <1>1 DEF Visible, KeysIn, Kept
<1>2. ASSUME NEW n \in Namespaces, NEW f \in Files, WriteBack(n, f)
      PROVE  UNCHANGED <<Visible, Kept, removed, revoked>>
  BY <1>2 DEF WriteBack, history, Visible, KeysIn, Kept
<1> QED
  BY <1>1, <1>2, RenameRefines, SyncDirRefines, PowerLossRefines, StoreSteps

LEMMA TracedAlways == Spec => [](TypeOK /\ Inv /\ Traced)
<1>1. Init => Traced
  BY DEF Init, Traced, WriterOf, Missing, Empty, KeysIn, Files
<1> QED
  BY <1>1, TracedStep, InvInit, InvStep, PTL DEF Spec

\* The key store implements KeyRegistry for any namespaces, callers, labels and
\* ids: whatever is proved of the HTTP server over that specification holds
\* over the files.
THEOREM Refinement == Spec => RefinesRegistry
<1>1. Init => Registry!Init
  BY DEF Init, Registry!Init, Missing, Empty, KeysIn, Files, Visible, Kept
<1> QED
  BY <1>1, StepRefines, TracedAlways, PTL DEF Spec, RefinesRegistry, Registry!Spec

=============================================================================
