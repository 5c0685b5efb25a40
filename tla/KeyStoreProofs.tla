--------------------------- MODULE KeyStoreProofs ---------------------------
(***************************************************************************)
(* Proofs about KeyStore for any sets of namespaces, processes, labels and *)
(* ids and any number of keys.                                             *)
(***************************************************************************)
EXTENDS KeyStoreInv, TLAPS

USE DEF Files, Locks

(***************************************************************************)
(* What the steps need to know of a call.                                  *)
(***************************************************************************)

\* The argument of a call has the type its kind asks for.
LEMMA CallFields ==
    ASSUME NEW c \in Calls
    PROVE  /\ c.kind \in Kinds
           /\ c.ns \in Names
           /\ c.kind = "issue" => c.arg \in RawLabels
           /\ c.kind = "revoke" => c.arg \in Ids
           /\ c.kind = "auth" => c.arg \in Tokens \cup {Nil}
  BY DEF Calls, Op, Kinds

\* A call whose name is accepted names a namespace; a refusal is an error.
LEMMA LocalErrors ==
    ASSUME NEW c \in Calls
    PROVE  /\ LocalError(c) \in Errors
           /\ LocalError(c) = "nil" => c.ns \in Namespaces
  BY CallFields, NamesAssumption DEF LocalError, Errors, Names

\* A process that is not idle executes a call on a namespace.
LEMMA Running ==
    ASSUME TypeOK, Control, NEW p \in Procs, pc[p] # "idle"
    PROVE  op[p] \in Calls /\ op[p].ns \in Namespaces
  BY DEF TypeOK, Control

\* A call that ends, however it ends, leaves its process's state well typed.
LEMMA ForgetTypes ==
    ASSUME TypeOK, NEW p \in Procs, Forget(p)
    PROVE  /\ lock' \in [Namespaces -> [Locks -> Procs \cup {Nil}]]
           /\ pc' \in [Procs -> PCs]
           /\ op' \in [Procs -> Calls \cup {Nil}]
           /\ tmp' \in [Procs -> Tmps]
           /\ delta' \in [Procs -> SUBSET Keys]
  BY DEF TypeOK, Forget, Unlock, NoTmp, Tmps, PCs

\* A new temporary file has the type of one.
LEMMA EncodeTypes ==
    ASSUME TypeOK, NEW p \in Procs, NEW f \in Files, NEW keys \in SUBSET Keys,
           Encode(p, f, keys)
    PROVE  /\ tmp' \in [Procs -> Tmps]
           /\ pc' \in [Procs -> PCs]
           /\ ret' = Nil
  BY DEF TypeOK, Encode, Goto, Tmps, PCs

\* The key IssueKey makes is a key.
LEMMA NewKeyType ==
    ASSUME TypeOK, serial < MaxSerial, NEW id \in Ids, NEW raw \in RawLabels
    PROVE  /\ NewKey(id, Trim(raw)) \in Keys
           /\ NewKey(id, Trim(raw)).serial = serial + 1
           /\ serial + 1 \in 0 .. MaxSerial
<1>1. serial + 1 \in Serials /\ serial + 1 \in 0 .. MaxSerial
  BY SerialAssumption DEF TypeOK, Serials
<1>2. Trim(raw) \in Labels
  BY DEF Trim, Labels, RawLabels
<1>3. NewKey(id, Trim(raw)).serial = serial + 1
  BY DEF NewKey, Key
<1> QED
  BY <1>1, <1>2, <1>3 DEF NewKey, Keys

-----------------------------------------------------------------------------
\* Every step of a call, every failure and every write-back keeps the types.
LEMMA TypeStep == TypeOK /\ Control /\ [Next]_vars => TypeOK'
<1> SUFFICES ASSUME TypeOK, Control, [Next]_vars
             PROVE  TypeOK'
  OBVIOUS
<1>1. ASSUME NEW p \in Procs, NEW call \in Workload, Begin(p, call)
      PROVE  TypeOK'
  <2>1. call \in Calls /\ call.ns \in Namespaces
    BY <1>1, WorkloadAssumption, LocalErrors DEF Begin
  <2> QED
    BY <1>1, <2>1 DEF TypeOK, Begin, Goto, PCs, history
<1>2. ASSUME NEW p \in Procs, NEW call \in Workload, Refuse(p, call)
      PROVE  TypeOK'
  BY <1>2, WorkloadAssumption, LocalErrors DEF TypeOK, Refuse, Returns, store, local, history
<1>3. ASSUME NEW p \in Procs, Lock(p)
      PROVE  TypeOK'
  BY <1>3 DEF TypeOK, Lock, Goto, LockFile, PCs, store, local, history
<1>4. ASSUME NEW p \in Procs, Stat(p)
      PROVE  TypeOK'
  <2>1. CASE \E err \in Errors : Return(p, err)
    BY <1>4, <2>1, ForgetTypes DEF TypeOK, Stat, Return, Returns, store, history
  <2>2. CASE (Goto(p, "lock") \/ Goto(p, "readKeys")) /\ UNCHANGED <<lock, local>>
    BY <1>4, <2>2 DEF TypeOK, Stat, Goto, PCs, store, local, history
  <2>3. MissingError(op[p]) \in Errors /\ "ErrInvalidKey" \in Errors
    BY DEF MissingError, Errors
  <2> QED
    BY <1>4, <2>1, <2>2, <2>3 DEF Stat
<1>5. ASSUME NEW p \in Procs, ReadNamespace(p)
      PROVE  TypeOK'
  <2>1. CASE Encode(p, "namespace.json", {}) /\ UNCHANGED <<lock, op, delta>>
    BY <1>5, <2>1, EncodeTypes DEF TypeOK, ReadNamespace, store, history
  <2>2. CASE Goto(p, "statKeys") /\ UNCHANGED <<lock, local>>
    BY <1>5, <2>2 DEF TypeOK, ReadNamespace, Goto, PCs, store, local, history
  <2>3. CASE Return(p, "other")
    BY <1>5, <2>3, ForgetTypes DEF TypeOK, ReadNamespace, Return, Returns, Errors, store, history
  <2> QED
    BY <1>5, <2>1, <2>2, <2>3 DEF ReadNamespace
<1>6. ASSUME NEW p \in Procs, StatKeys(p)
      PROVE  TypeOK'
  <2>1. CASE Encode(p, "keys.json", {}) /\ UNCHANGED <<lock, op, delta>>
    BY <1>6, <2>1, EncodeTypes DEF TypeOK, StatKeys, store, history
  <2>2. CASE Return(p, "nil")
    BY <1>6, <2>2, ForgetTypes DEF TypeOK, StatKeys, Return, Returns, Errors, store, history
  <2> QED
    BY <1>6, <2>1, <2>2 DEF StatKeys
<1>7. ASSUME NEW p \in Procs, ReadFails(p)
      PROVE  TypeOK'
  BY <1>7, ForgetTypes DEF TypeOK, ReadFails, Return, Returns, Errors, store, history
<1>8. ASSUME NEW p \in Procs, IssueKey(p)
      PROVE  TypeOK'
  <2> DEFINE n == op[p].ns
             label == Trim(op[p].arg)
  <2>1. n \in Namespaces /\ op[p].arg \in RawLabels
    BY <1>8, Running, CallFields DEF IssueKey
  <2>2. CASE Return(p, "ErrDuplicateLabel") /\ UNCHANGED serial
    BY <1>8, <2>2, ForgetTypes DEF TypeOK, IssueKey, Return, Returns, Errors, store, history
  <2>3. ASSUME serial < MaxSerial, serial' = serial + 1, NEW id \in Ids,
               delta' = [delta EXCEPT ![p] = {NewKey(id, label)}],
               Encode(p, "keys.json", KeysIn(n) \cup {NewKey(id, label)}),
               UNCHANGED <<lock, op>>
        PROVE  TypeOK'
    <3>1. NewKey(id, label) \in Keys /\ serial' \in 0 .. MaxSerial
      BY <2>1, <2>3, NewKeyType
    <3>2. KeysIn(n) \cup {NewKey(id, label)} \in SUBSET Keys
      BY <2>1, <3>1 DEF TypeOK, KeysIn, Contents
    <3>3. tmp' \in [Procs -> Tmps] /\ pc' \in [Procs -> PCs] /\ ret' = Nil
      BY <2>3, <3>2, EncodeTypes
    <3>4. delta' \in [Procs -> SUBSET Keys]
      BY <2>3, <3>1 DEF TypeOK
    <3> QED
      BY <1>8, <2>3, <3>1, <3>3, <3>4 DEF TypeOK, IssueKey, store, history
  <2> QED
    BY <1>8, <2>2, <2>3 DEF IssueKey
<1>9. ASSUME NEW p \in Procs, RevokeKey(p)
      PROVE  TypeOK'
  <2> DEFINE n == op[p].ns
             match == {k \in KeysIn(n) : k.id = op[p].arg}
  <2>1. n \in Namespaces
    BY <1>9, Running DEF RevokeKey
  <2>2. match \in SUBSET Keys /\ KeysIn(n) \ match \in SUBSET Keys
    BY <2>1 DEF TypeOK, KeysIn, Contents
  <2>3. CASE Return(p, "ErrKeyMissing")
    BY <1>9, <2>3, ForgetTypes DEF TypeOK, RevokeKey, Return, Returns, Errors, store, history
  <2>4. CASE /\ delta' = [delta EXCEPT ![p] = match]
             /\ Encode(p, "keys.json", KeysIn(n) \ match)
             /\ UNCHANGED <<lock, op>>
    <3>1. tmp' \in [Procs -> Tmps] /\ pc' \in [Procs -> PCs] /\ ret' = Nil
      BY <2>2, <2>4, EncodeTypes
    <3>2. delta' \in [Procs -> SUBSET Keys]
      BY <2>2, <2>4 DEF TypeOK
    <3> QED
      BY <1>9, <2>4, <3>1, <3>2 DEF TypeOK, RevokeKey, store, history
  <2> QED
    BY <1>9, <2>3, <2>4 DEF RevokeKey
<1>10. ASSUME NEW p \in Procs, Authenticate(p) \/ ListKeys(p)
       PROVE  TypeOK'
  BY <1>10, ForgetTypes
     DEF TypeOK, Authenticate, ListKeys, Return, Returns, Errors, store, history
<1>11. ASSUME NEW p \in Procs, SyncTmp(p)
       PROVE  TypeOK'
  <2>1. tmp' \in [Procs -> Tmps]
    BY <1>11 DEF TypeOK, SyncTmp, Tmps
  <2> QED
    BY <1>11, <2>1 DEF TypeOK, SyncTmp, Goto, PCs, store, history
<1>12. ASSUME NEW p \in Procs, Rename(p)
       PROVE  TypeOK'
  BY <1>12 DEF TypeOK, Rename, Goto, PCs, Tmps, Contents, local
<1>13. ASSUME NEW p \in Procs, SyncDir(p)
       PROVE  TypeOK'
  <2>1. op[p].ns \in Namespaces
    BY <1>13, Running DEF SyncDir
  <2>2. disk' \in [Namespaces -> [Files -> Contents]] /\ UNCHANGED <<dir, file, serial>>
    BY <1>13, <2>1 DEF TypeOK, SyncDir
  <2>3. CASE tmp[p].target = "namespace.json"
    <3>1. /\ Goto(p, "statKeys")
          /\ tmp' = [tmp EXCEPT ![p] = NoTmp]
          /\ UNCHANGED <<lock, op, delta, history>>
      BY <1>13, <2>3 DEF SyncDir
    <3>2. tmp' \in [Procs -> Tmps]
      BY <3>1 DEF TypeOK, Tmps, NoTmp
    <3> QED
      BY <2>2, <3>1, <3>2 DEF TypeOK, Goto, PCs, history
  <2>4. CASE tmp[p].target # "namespace.json"
    <3>1. /\ granted' \in [Namespaces -> SUBSET Keys]
          /\ released' \in [Namespaces -> SUBSET Keys]
          /\ removed' \in [Namespaces -> SUBSET Keys]
          /\ revoked' \in [Namespaces -> SUBSET Keys]
      <4>1. Promise(p)
        BY <1>13, <2>4 DEF SyncDir
      <4>2. delta[p] \in SUBSET Keys
        BY DEF TypeOK
      <4> QED
        BY <2>1, <4>1, <4>2 DEF TypeOK, Promise
    <3> QED
      BY <1>13, <2>2, <2>4, <3>1, ForgetTypes DEF TypeOK, SyncDir, Return, Returns, Errors
  <2> QED
    BY <2>3, <2>4
<1>14. ASSUME NEW p \in Procs, IOError(p) \/ Crash(p)
       PROVE  TypeOK'
  BY <1>14, ForgetTypes DEF TypeOK, IOError, Crash, Return, Returns, Errors, store, history
<1>15. ASSUME NEW n \in Namespaces, NEW f \in Files, WriteBack(n, f)
       PROVE  TypeOK'
  BY <1>15 DEF TypeOK, WriteBack, local, history
<1>16. ASSUME NEW n \in Namespaces, WriteBackRoot(n)
       PROVE  TypeOK'
  BY <1>16 DEF TypeOK, WriteBackRoot, local, history
<1>17. ASSUME PowerLoss
       PROVE  TypeOK'
  <2>1. \A n \in Namespaces, f \in Files : Survives(n, f) \in Contents
    <3> TAKE n \in Namespaces, f \in Files
    <3>1. disk[n][f] \in Contents
      BY DEF TypeOK
    <3> QED
      BY <3>1 DEF Survives, Missing, Contents
  <2>2. file' \in [Namespaces -> [Files -> Contents]] /\ disk' = file'
    BY <1>17, <2>1 DEF PowerLoss
  <2> QED
    BY <1>17, <2>2 DEF TypeOK, PowerLoss, NoTmp, Tmps, PCs
<1>18. CASE UNCHANGED vars
  BY <1>18 DEF TypeOK, vars
<1> QED
  BY <1>1, <1>2, <1>3, <1>4, <1>5, <1>6, <1>7, <1>8, <1>9, <1>10, <1>11,
     <1>12, <1>13, <1>14, <1>15, <1>16, <1>17, <1>18 DEF Next, Step

-----------------------------------------------------------------------------
\* Ending a call leaves every other process where it was.
LEMMA ControlForget ==
    ASSUME TypeOK, Control, NEW p \in Procs, Forget(p)
    PROVE  Control'
  BY DEF TypeOK, Control, Forget

\* Every step leaves each process with the state its program counter says.
LEMMA ControlStep == TypeOK /\ Control /\ [Next]_vars => Control'
<1> SUFFICES ASSUME TypeOK, Control, [Next]_vars
             PROVE  Control'
  OBVIOUS
<1>1. ASSUME NEW p \in Procs, NEW call \in Workload, Begin(p, call)
      PROVE  Control'
  <2>1. call \in Calls /\ call.ns \in Namespaces /\ call # Nil
    BY <1>1, WorkloadAssumption, NilAssumption, LocalErrors DEF Begin
  <2>2. call.kind \in Kinds
    BY <2>1, CallFields
  <2>3. CASE call.kind = "init"
    BY <1>1, <2>1, <2>3 DEF TypeOK, Control, Reach, Begin, Goto
  <2>4. CASE call.kind # "init"
    BY <1>1, <2>1, <2>2, <2>4 DEF TypeOK, Control, Reach, Begin, Goto, Kinds
  <2> QED
    BY <2>3, <2>4
<1>2. ASSUME NEW p \in Procs, NEW call \in Workload, Refuse(p, call)
      PROVE  Control'
  BY <1>2 DEF Control, Refuse, local
<1>3. ASSUME NEW p \in Procs, Lock(p)
      PROVE  Control'
  BY <1>3 DEF TypeOK, Control, Reach, Lock, Goto, local
<1>4. ASSUME NEW p \in Procs, Stat(p)
      PROVE  Control'
  <2>1. CASE \E err \in Errors : Return(p, err)
    BY <2>1, ControlForget DEF Return
  <2>2. CASE Goto(p, IF op[p].kind \in {"issue", "revoke"} THEN "lock" ELSE "readKeys")
             /\ UNCHANGED <<lock, local>>
    BY <1>4, <2>2 DEF TypeOK, Control, Reach, Stat, Goto, local
  <2>3. MissingError(op[p]) \in Errors /\ "ErrInvalidKey" \in Errors
    BY DEF MissingError, Errors
  <2> QED
    BY <1>4, <2>1, <2>2, <2>3 DEF Stat
<1>5. ASSUME NEW p \in Procs, ReadNamespace(p) \/ StatKeys(p)
      PROVE  Control'
  <2>1. CASE \E err \in Errors : Return(p, err)
    BY <2>1, ControlForget DEF Return
  <2>2. CASE pc[p] = "readNamespace" /\ Goto(p, "statKeys") /\ UNCHANGED local
    BY <2>2 DEF TypeOK, Control, Reach, Goto, local
  <2>3. ASSUME NEW f \in Files, Encode(p, f, {}), UNCHANGED op
        PROVE  Control'
    BY <1>5, <2>3 DEF TypeOK, Control, Reach, ReadNamespace, StatKeys, Encode, Goto, Tmps
  <2> QED
    BY <1>5, <2>1, <2>2, <2>3 DEF ReadNamespace, StatKeys, local, Errors
<1>6. ASSUME NEW p \in Procs,
             ReadFails(p) \/ Authenticate(p) \/ ListKeys(p) \/ IOError(p) \/ Crash(p)
      PROVE  Control'
  BY <1>6, ControlForget DEF ReadFails, Authenticate, ListKeys, IOError, Crash, Return
<1>7. ASSUME NEW p \in Procs, IssueKey(p) \/ RevokeKey(p)
      PROVE  Control'
  <2>1. CASE \E err \in Errors : Return(p, err)
    BY <2>1, ControlForget DEF Return
  <2>2. ASSUME NEW keys, Encode(p, "keys.json", keys), UNCHANGED op
        PROVE  Control'
    BY <1>7, <2>2 DEF TypeOK, Control, Reach, IssueKey, RevokeKey, Encode, Goto, Tmps
  <2> QED
    BY <1>7, <2>1, <2>2 DEF IssueKey, RevokeKey, Errors
<1>8. ASSUME NEW p \in Procs, SyncTmp(p) \/ Rename(p)
      PROVE  Control'
  BY <1>8 DEF TypeOK, Control, Reach, SyncTmp, Rename, Goto, Tmps, local
<1>9. ASSUME NEW p \in Procs, SyncDir(p)
      PROVE  Control'
  <2>1. CASE tmp[p].target = "namespace.json"
    BY <1>9, <2>1 DEF TypeOK, Control, Reach, SyncDir, Goto
  <2>2. CASE tmp[p].target # "namespace.json"
    BY <1>9, <2>2, ControlForget DEF SyncDir, Return
  <2> QED
    BY <2>1, <2>2
<1>10. ASSUME NEW n \in Namespaces, (\E f \in Files : WriteBack(n, f)) \/ WriteBackRoot(n)
       PROVE  Control'
  BY <1>10 DEF Control, WriteBack, WriteBackRoot, local
<1>11. ASSUME PowerLoss
       PROVE  Control'
  BY <1>11 DEF Control, PowerLoss
<1>12. CASE UNCHANGED vars
  BY <1>12 DEF Control, vars
<1> QED
  BY <1>1, <1>2, <1>3, <1>4, <1>5, <1>6, <1>7, <1>8, <1>9, <1>10, <1>11, <1>12
     DEF Next, Step

-----------------------------------------------------------------------------
\* A call that ends releases its own locks and no others.
LEMMA LockingForget ==
    ASSUME TypeOK, Control, Locking, NEW p \in Procs, Forget(p)
    PROVE  Locking'
<1> SUFFICES ASSUME NEW q \in Procs, Holds(q)'
             PROVE  (lock[op[q].ns][LockFile(op[q])])' = q
  BY DEF Locking
<1>1. q # p /\ pc'[q] = pc[q] /\ op'[q] = op[q]
  BY DEF TypeOK, Forget, Holds
<1>2. Holds(q) /\ pc[q] # "idle"
  BY <1>1 DEF Holds
<1>3. lock[op[q].ns][LockFile(op[q])] = q /\ op[q].ns \in Namespaces
  BY <1>2, Running DEF Locking
<1> QED
  BY <1>1, <1>3 DEF Forget, Unlock, LockFile

\* A call that already holds its lock keeps Locking as it goes on.
LEMMA LockingGoto ==
    ASSUME TypeOK, Control, Locking, NEW p \in Procs, Holds(p),
           lock' = lock, op' = op, \E label : pc' = [pc EXCEPT ![p] = label]
    PROVE  Locking'
  BY DEF TypeOK, Locking, Holds, LockFile

\* Every step leaves a lock with the one process that is between the flock and
\* the end of its call.
LEMMA LockingStep == TypeOK /\ Control /\ Locking /\ [Next]_vars => Locking'
<1> SUFFICES ASSUME TypeOK, Control, Locking, [Next]_vars
             PROVE  Locking'
  OBVIOUS
<1>1. ASSUME NEW p \in Procs, NEW call \in Workload, Begin(p, call)
      PROVE  Locking'
  BY <1>1 DEF TypeOK, Locking, Holds, LockFile, Begin, Goto
<1>2. ASSUME NEW p \in Procs, NEW call \in Workload, Refuse(p, call)
      PROVE  Locking'
  BY <1>2 DEF Locking, Holds, LockFile, Refuse, local
<1>3. ASSUME NEW p \in Procs, Lock(p)
      PROVE  Locking'
  <2> SUFFICES ASSUME NEW q \in Procs, Holds(q)'
               PROVE  (lock[op[q].ns][LockFile(op[q])])' = q
    BY DEF Locking
  <2>1. op' = op /\ op[p].ns \in Namespaces
    BY <1>3, Running DEF Lock, local
  <2>2. CASE q = p
    BY <1>3, <2>1, <2>2 DEF TypeOK, Lock, LockFile
  <2>3. CASE q # p
    <3>1. Holds(q)
      BY <1>3, <2>1, <2>3 DEF TypeOK, Holds, Lock, Goto
    <3>2. lock[op[q].ns][LockFile(op[q])] = q /\ op[q].ns \in Namespaces
      BY <3>1, Running DEF Locking, Holds
    <3> QED
      BY <1>3, <2>1, <3>2, NilAssumption DEF TypeOK, Lock, LockFile
  <2> QED
    BY <2>2, <2>3
<1>4. ASSUME NEW p \in Procs, Stat(p)
      PROVE  Locking'
  <2>1. CASE \E err : Return(p, err)
    BY <2>1, LockingForget DEF Return
  <2>2. CASE Goto(p, IF op[p].kind \in {"issue", "revoke"} THEN "lock" ELSE "readKeys")
             /\ UNCHANGED <<lock, local>>
    BY <2>2 DEF TypeOK, Locking, Holds, LockFile, Goto, local
  <2> QED
    BY <1>4, <2>1, <2>2 DEF Stat
<1>5. ASSUME NEW p \in Procs, ReadNamespace(p) \/ StatKeys(p) \/ IssueKey(p) \/ RevokeKey(p)
      PROVE  Locking'
  <2>1. CASE \E err : Return(p, err)
    BY <2>1, LockingForget DEF Return
  <2>2. CASE Holds(p) /\ (\E label : Goto(p, label)) /\ UNCHANGED <<lock, op>>
    BY <2>2, LockingGoto DEF Goto
  <2> QED
    BY <1>5, <2>1, <2>2
       DEF ReadNamespace, StatKeys, IssueKey, RevokeKey, Encode, Holds, local
<1>6. ASSUME NEW p \in Procs,
             ReadFails(p) \/ Authenticate(p) \/ ListKeys(p) \/ IOError(p) \/ Crash(p)
      PROVE  Locking'
  BY <1>6, LockingForget DEF ReadFails, Authenticate, ListKeys, IOError, Crash, Return
<1>7. ASSUME NEW p \in Procs, SyncTmp(p) \/ Rename(p)
      PROVE  Locking'
  BY <1>7, LockingGoto DEF SyncTmp, Rename, Goto, Holds, local
<1>8. ASSUME NEW p \in Procs, SyncDir(p)
      PROVE  Locking'
  <2>1. CASE tmp[p].target = "namespace.json"
    BY <1>8, <2>1, LockingGoto DEF SyncDir, Goto, Holds
  <2>2. CASE tmp[p].target # "namespace.json"
    BY <1>8, <2>2, LockingForget DEF SyncDir, Return
  <2> QED
    BY <2>1, <2>2
<1>9. ASSUME NEW n \in Namespaces, (\E f \in Files : WriteBack(n, f)) \/ WriteBackRoot(n)
      PROVE  Locking'
  BY <1>9 DEF Locking, Holds, LockFile, WriteBack, WriteBackRoot, local
<1>10. ASSUME PowerLoss
       PROVE  Locking'
  BY <1>10 DEF Locking, Holds, PowerLoss
<1>11. CASE UNCHANGED vars
  BY <1>11 DEF Locking, Holds, LockFile, vars
<1> QED
  BY <1>1, <1>2, <1>3, <1>4, <1>5, <1>6, <1>7, <1>8, <1>9, <1>10, <1>11
     DEF Next, Step

-----------------------------------------------------------------------------
\* A call that ends takes its locks with it.
LEMMA ServedForget ==
    ASSUME TypeOK, Control, LocksServed, NEW p \in Procs, Forget(p)
    PROVE  LocksServed'
<1> SUFFICES ASSUME NEW n \in Namespaces, NEW l \in Locks, NEW q, q = lock'[n][l], q # Nil
             PROVE  /\ pc'[q] \notin {"idle", "stat", "lock"}
                    /\ op'[q].ns = n /\ LockFile(op'[q]) = l
  BY DEF LocksServed, LockFile
<1>1. q = lock[n][l] /\ q # p /\ q \in Procs
  BY DEF TypeOK, Forget, Unlock
<1>2. pc'[q] = pc[q] /\ op'[q] = op[q]
  BY <1>1 DEF TypeOK, Forget
<1> QED
  BY <1>1, <1>2 DEF LocksServed

\* A call past its flock keeps its locks as it goes on.
LEMMA ServedGoto ==
    ASSUME TypeOK, LocksServed, NEW p \in Procs, lock' = lock, op' = op,
           \E label : label \notin {"idle", "stat", "lock"} /\ pc' = [pc EXCEPT ![p] = label]
    PROVE  LocksServed'
  BY DEF TypeOK, LocksServed, LockFile

\* A call that has not taken a lock has none, whatever it does next.
LEMMA ServedOutside ==
    ASSUME TypeOK, LocksServed, NEW p \in Procs, lock' = lock,
           pc[p] \in {"idle", "stat", "lock"},
           \A q \in Procs \ {p} : pc'[q] = pc[q] /\ op'[q] = op[q]
    PROVE  LocksServed'
<1> SUFFICES ASSUME NEW n \in Namespaces, NEW l \in Locks, NEW q, q = lock'[n][l], q # Nil
             PROVE  /\ pc'[q] \notin {"idle", "stat", "lock"}
                    /\ op'[q].ns = n /\ LockFile(op'[q]) = l
  BY DEF LocksServed, LockFile
<1>1. q = lock[n][l] /\ q \in Procs
  BY DEF TypeOK
<1>2. pc[q] \notin {"idle", "stat", "lock"} /\ op[q].ns = n /\ LockFile(op[q]) = l
  BY <1>1 DEF LocksServed
<1>3. q # p
  BY <1>2
<1> QED
  BY <1>1, <1>2, <1>3

LEMMA ServedStep == TypeOK /\ Control /\ LocksServed /\ [Next]_vars => LocksServed'
<1> SUFFICES ASSUME TypeOK, Control, LocksServed, [Next]_vars
             PROVE  LocksServed'
  OBVIOUS
<1>1. ASSUME NEW p \in Procs, NEW call \in Workload, Begin(p, call) \/ Refuse(p, call)
      PROVE  LocksServed'
  <2>1. /\ lock' = lock /\ pc[p] = "idle"
        /\ \A q \in Procs \ {p} : pc'[q] = pc[q] /\ op'[q] = op[q]
    BY <1>1 DEF TypeOK, Begin, Refuse, Goto, local
  <2> QED
    BY <2>1, ServedOutside
<1>2. ASSUME NEW p \in Procs, Lock(p)
      PROVE  LocksServed'
  <2> DEFINE mine(n, l) == n = op[p].ns /\ l = LockFile(op[p])
  <2>1. op' = op /\ pc[p] = "lock" /\ pc'[p] \in {"readNamespace", "readKeys"}
    BY <1>2 DEF TypeOK, Lock, Goto, local
  <2>2. \A q \in Procs \ {p} : pc'[q] = pc[q]
    BY <1>2 DEF TypeOK, Lock, Goto
  <2>3. \A n \in Namespaces, l \in Locks :
          lock'[n][l] = IF mine(n, l) THEN p ELSE lock[n][l]
    BY <1>2 DEF TypeOK, Lock
  <2> SUFFICES ASSUME NEW n \in Namespaces, NEW l \in Locks, NEW q, q = lock'[n][l], q # Nil
               PROVE  /\ pc'[q] \notin {"idle", "stat", "lock"}
                      /\ op'[q].ns = n /\ LockFile(op'[q]) = l
    BY DEF LocksServed, LockFile
  <2>4. CASE mine(n, l)
    BY <2>1, <2>3, <2>4
  <2>5. CASE ~mine(n, l)
    <3>1. q = lock[n][l] /\ q \in Procs
      BY <2>3, <2>5 DEF TypeOK
    <3>2. pc[q] \notin {"idle", "stat", "lock"} /\ op[q].ns = n /\ LockFile(op[q]) = l
      BY <3>1 DEF LocksServed
    <3> QED
      BY <2>1, <2>2, <3>1, <3>2
  <2> QED
    BY <2>4, <2>5
<1>3. ASSUME NEW p \in Procs, Stat(p)
      PROVE  LocksServed'
  <2>1. CASE \E err : Return(p, err)
    BY <2>1, ServedForget DEF Return
  <2>2. CASE (\E label : Goto(p, label)) /\ UNCHANGED <<lock, local>>
    <3>1. /\ lock' = lock /\ pc[p] = "stat"
          /\ \A q \in Procs \ {p} : pc'[q] = pc[q] /\ op'[q] = op[q]
      BY <1>3, <2>2 DEF TypeOK, Stat, Goto, local
    <3> QED
      BY <3>1, ServedOutside
  <2> QED
    BY <1>3, <2>1, <2>2 DEF Stat
<1>4. ASSUME NEW p \in Procs, ReadNamespace(p) \/ StatKeys(p) \/ IssueKey(p) \/ RevokeKey(p)
      PROVE  LocksServed'
  <2>1. CASE \E err : Return(p, err)
    BY <2>1, ServedForget DEF Return
  <2>2. CASE /\ \E label \in {"statKeys", "sync"} : Goto(p, label)
             /\ UNCHANGED <<lock, op>>
    BY <2>2, ServedGoto DEF Goto
  <2> QED
    BY <1>4, <2>1, <2>2
       DEF ReadNamespace, StatKeys, IssueKey, RevokeKey, Encode, local
<1>5. ASSUME NEW p \in Procs,
             ReadFails(p) \/ Authenticate(p) \/ ListKeys(p) \/ IOError(p) \/ Crash(p)
      PROVE  LocksServed'
  BY <1>5, ServedForget DEF ReadFails, Authenticate, ListKeys, IOError, Crash, Return
<1>6. ASSUME NEW p \in Procs, SyncTmp(p) \/ Rename(p)
      PROVE  LocksServed'
  BY <1>6, ServedGoto DEF SyncTmp, Rename, Goto, local
<1>7. ASSUME NEW p \in Procs, SyncDir(p)
      PROVE  LocksServed'
  <2>1. CASE tmp[p].target = "namespace.json"
    BY <1>7, <2>1, ServedGoto DEF SyncDir, Goto
  <2>2. CASE tmp[p].target # "namespace.json"
    BY <1>7, <2>2, ServedForget DEF SyncDir, Return
  <2> QED
    BY <2>1, <2>2
<1>8. ASSUME NEW n \in Namespaces, (\E f \in Files : WriteBack(n, f)) \/ WriteBackRoot(n)
      PROVE  LocksServed'
  BY <1>8 DEF LocksServed, LockFile, WriteBack, WriteBackRoot, local
<1>9. ASSUME PowerLoss
       PROVE  LocksServed'
  BY <1>9 DEF LocksServed, PowerLoss
<1>10. CASE UNCHANGED vars
  BY <1>10 DEF LocksServed, LockFile, vars
<1> QED
  BY <1>1, <1>2, <1>3, <1>4, <1>5, <1>6, <1>7, <1>8, <1>9, <1>10
     DEF Next, Step

-----------------------------------------------------------------------------
\* The steps that change the files, visible or stable, and the promises.
LEMMA StoreSteps ==
    ASSUME [Next]_vars
    PROVE  \/ /\ file' = file /\ disk' = disk /\ granted' = granted
              /\ released' = released /\ removed' = removed /\ revoked' = revoked
           \/ \E p \in Procs : Rename(p) \/ SyncDir(p)
           \/ \E n \in Namespaces, f \in Files : WriteBack(n, f)
           \/ PowerLoss
<1> DEFINE Quiet == /\ file' = file /\ disk' = disk /\ granted' = granted
                    /\ released' = released /\ removed' = removed /\ revoked' = revoked
<1>1. ASSUME NEW p \in Procs, NEW call \in Workload, Begin(p, call) \/ Refuse(p, call)
      PROVE  Quiet
  BY <1>1 DEF Begin, Refuse, store, history
<1>2. ASSUME NEW p \in Procs, Lock(p) \/ Stat(p) \/ SyncTmp(p) \/ IOError(p) \/ Crash(p)
      PROVE  Quiet
  BY <1>2 DEF Lock, Stat, SyncTmp, IOError, Crash, store, history
<1>3. ASSUME NEW p \in Procs,
             ReadNamespace(p) \/ StatKeys(p) \/ ReadFails(p) \/ Authenticate(p) \/ ListKeys(p)
      PROVE  Quiet
  BY <1>3 DEF ReadNamespace, StatKeys, ReadFails, Authenticate, ListKeys, store, history
<1>4. ASSUME NEW p \in Procs, IssueKey(p) \/ RevokeKey(p)
      PROVE  Quiet
  BY <1>4 DEF IssueKey, RevokeKey, store, history
<1>5. ASSUME NEW n \in Namespaces, WriteBackRoot(n)
      PROVE  Quiet
  BY <1>5 DEF WriteBackRoot, history
<1>6. CASE UNCHANGED vars
  BY <1>6 DEF vars
<1> QED
  BY <1>1, <1>2, <1>3, <1>4, <1>5, <1>6 DEF Next, Step

\* What a rename and a synced directory do to the files.
LEMMA RenameFile ==
    ASSUME TypeOK, Control, NEW p \in Procs, Rename(p),
           NEW n \in Namespaces, NEW f \in Files
    PROVE  /\ disk' = disk
           /\ file'[n][f] = IF n = op[p].ns /\ f = tmp[p].target
                              THEN [state |-> "clean", keys |-> tmp[p].keys]
                              ELSE file[n][f]
<1>1. tmp[p].state = "clean" /\ tmp[p].target \in Files /\ op[p].ns \in Namespaces
  BY Running DEF Control, Rename
<1> QED
  BY <1>1 DEF TypeOK, Rename

\* What d.Sync puts on stable storage.
LEMMA SyncDirDisk ==
    ASSUME TypeOK, Control, NEW p \in Procs, SyncDir(p), NEW n \in Namespaces
    PROVE  /\ file' = file
           /\ disk'[n] = IF n = op[p].ns THEN file[n] ELSE disk[n]
  BY DEF TypeOK, SyncDir

\* What every process finds after power loss.
LEMMA PowerLossFiles ==
    ASSUME TypeOK, Whole, PowerLoss, NEW n \in Namespaces, NEW f \in Files
    PROVE  /\ file'[n][f] = IF dir[n] = "durable" THEN disk[n][f] ELSE Missing
           /\ disk'[n][f] = file'[n][f]
<1>1. disk[n][f] \in Contents /\ disk[n][f].state \in {"none", "clean"}
  BY DEF TypeOK, Whole, FilesWhole
<1> QED
  BY <1>1 DEF PowerLoss, Survives, Contents

\* What a write-back puts on stable storage.
LEMMA WriteBackDisk ==
    ASSUME TypeOK, NEW n \in Namespaces, NEW f \in Files, WriteBack(n, f),
           NEW m \in Namespaces, NEW g \in Files
    PROVE  /\ file' = file
           /\ disk'[m][g] = IF m = n /\ g = f THEN file[m][g] ELSE disk[m][g]
  BY DEF TypeOK, WriteBack

-----------------------------------------------------------------------------
\* writeJSONAtomic syncs before it renames: no step leaves a file torn or dirty.
LEMMA WholeStep == TypeOK /\ Control /\ Whole /\ [Next]_vars => Whole'
<1> DEFINE Good(content) == /\ content.state \in {"none", "clean"}
                            /\ content.state = "none" => content.keys = {}
           AllGood == \A n \in Namespaces, f \in Files :
                        /\ file[n][f].state \in {"none", "clean"}
                        /\ disk[n][f].state \in {"none", "clean"}
                        /\ f = "keys.json" => Good(file[n][f]) /\ Good(disk[n][f])
<1> SUFFICES ASSUME TypeOK, Control, Whole, [Next]_vars
             PROVE  Whole'
  OBVIOUS
<1>1. AllGood
  BY DEF Whole, FilesWhole
<1>2. AllGood'
  <2> SUFFICES ASSUME NEW n \in Namespaces, NEW f \in Files
               PROVE  /\ file'[n][f].state \in {"none", "clean"}
                      /\ disk'[n][f].state \in {"none", "clean"}
                      /\ f = "keys.json" => Good(file'[n][f]) /\ Good(disk'[n][f])
    OBVIOUS
  <2>1. CASE file' = file /\ disk' = disk
    BY <1>1, <2>1
  <2>2. ASSUME NEW p \in Procs, Rename(p)
        PROVE  /\ disk' = disk
               /\ file'[n][f] = file[n][f] \/ file'[n][f].state = "clean"
    <3>1. file'[n][f] = IF n = op[p].ns /\ f = tmp[p].target
                          THEN [state |-> "clean", keys |-> tmp[p].keys]
                          ELSE file[n][f]
      BY <2>2, RenameFile
    <3>2. disk' = disk
      BY <2>2 DEF Rename
    <3> QED
      BY <3>1, <3>2
  <2>3. ASSUME NEW p \in Procs, SyncDir(p)
        PROVE  file' = file /\ (disk'[n] = file[n] \/ disk'[n] = disk[n])
    BY <2>3, SyncDirDisk
  <2>4. ASSUME NEW m \in Namespaces, NEW g \in Files, WriteBack(m, g)
        PROVE  file' = file /\ (disk'[n][f] = file[n][f] \/ disk'[n][f] = disk[n][f])
    BY <2>4, WriteBackDisk
  <2>5. ASSUME PowerLoss
        PROVE  /\ file'[n][f] = disk[n][f] \/ file'[n][f] = Missing
               /\ disk'[n][f] = file'[n][f]
    BY <2>5, PowerLossFiles
  <2> QED
    BY <1>1, <2>1, <2>2, <2>3, <2>4, <2>5, StoreSteps DEF Missing
<1> QED
  BY <1>2 DEF Whole, FilesWhole

\* A file that is there stays there but for power loss.
LEMMA FoundStays ==
    ASSUME TypeOK, Control, [Next]_vars, ~PowerLoss,
           NEW n \in Namespaces, NEW f \in Files, Found(n, f)
    PROVE  Found(n, f)'
<1>1. CASE file' = file
  BY <1>1 DEF Found
<1>2. ASSUME NEW p \in Procs, Rename(p)
      PROVE  Found(n, f)'
  <2>1. file'[n][f] = IF n = op[p].ns /\ f = tmp[p].target
                        THEN [state |-> "clean", keys |-> tmp[p].keys]
                        ELSE file[n][f]
    BY <1>2, RenameFile
  <2> QED
    BY <2>1 DEF Found
<1> QED
  BY <1>1, <1>2, StoreSteps DEF SyncDir, WriteBack

\* Once existingDir has found namespace.json, only power loss, which ends the
\* call, takes it away.
LEMMA StatSeen ==
    ASSUME TypeOK, Control, PastStat, [Next]_vars,
           NEW q \in Procs, op'[q] # Nil, op'[q].kind # "init", pc'[q] # "stat"
    PROVE  Found(op[q].ns, "namespace.json")' /\ op'[q] = op[q]
<1>1. ~PowerLoss
  BY DEF PowerLoss
<1>2. /\ op[q] # Nil /\ op'[q] = op[q] /\ op[q].ns \in Namespaces
      /\ pc[q] # "stat" \/ Found(op[q].ns, "namespace.json")
  <2> DEFINE Same == op'[q] = op[q] /\ pc[q] # "stat"
  <2>1. ASSUME NEW p \in Procs, NEW call \in Workload, Begin(p, call) \/ Refuse(p, call)
        PROVE  Same
    BY <2>1 DEF TypeOK, Begin, Refuse, Goto, local
  <2>2. ASSUME NEW p \in Procs, Stat(p)
        PROVE  op'[q] = op[q] /\ (pc[q] # "stat" \/ Found(op[q].ns, "namespace.json"))
    BY <2>2 DEF TypeOK, Stat, Goto, Return, Forget, local
  <2>3. ASSUME NEW p \in Procs, \E err : Return(p, err), pc[p] # "stat"
        PROVE  Same
    BY <2>3 DEF TypeOK, Return, Forget
  <2>4. ASSUME NEW p \in Procs, Forget(p)
        PROVE  Same
    BY <2>4 DEF TypeOK, Forget
  <2>5. ASSUME NEW p \in Procs, \E label : Goto(p, label), op' = op, pc[p] # "stat"
        PROVE  Same
    BY <2>5 DEF TypeOK, Goto
  <2>6. ASSUME NEW p \in Procs, Lock(p) \/ SyncTmp(p) \/ Rename(p) \/ SyncDir(p)
        PROVE  Same
    BY <2>6, <2>3, <2>5 DEF Lock, SyncTmp, Rename, SyncDir, local
  <2>7. ASSUME NEW p \in Procs,
               ReadNamespace(p) \/ StatKeys(p) \/ IssueKey(p) \/ RevokeKey(p)
        PROVE  Same
    BY <2>7, <2>3, <2>5 DEF ReadNamespace, StatKeys, IssueKey, RevokeKey, Encode, local
  <2>8. ASSUME NEW p \in Procs,
               ReadFails(p) \/ Authenticate(p) \/ ListKeys(p) \/ IOError(p) \/ Crash(p)
        PROVE  Same
    BY <2>8, <2>4 DEF ReadFails, Authenticate, ListKeys, IOError, Crash, Return
  <2>9. ASSUME NEW n \in Namespaces,
               (\E f \in Files : WriteBack(n, f)) \/ WriteBackRoot(n)
        PROVE  Same
    BY <2>9 DEF WriteBack, WriteBackRoot, local
  <2>10. ASSUME UNCHANGED vars
         PROVE  Same
    BY <2>10 DEF vars
  <2>11. /\ op'[q] = op[q]
         /\ pc[q] # "stat" \/ Found(op[q].ns, "namespace.json")
    BY <1>1, <2>1, <2>2, <2>6, <2>7, <2>8, <2>9, <2>10 DEF Next, Step
  <2> QED
    BY <2>11 DEF Control
<1>3. Found(op[q].ns, "namespace.json")
  BY <1>2 DEF PastStat
<1> QED
  BY <1>1, <1>2, <1>3, FoundStays

\* An Init turns to keys.json when it has read, or renamed, namespace.json.
LEMMA KeysSeen ==
    ASSUME TypeOK, Control, PastStat, [Next]_vars, NEW q \in Procs, AtKeys(q)'
    PROVE  Found(op[q].ns, "namespace.json")' /\ op'[q] = op[q]
<1> DEFINE Same == op'[q] = op[q] /\ pc'[q] = pc[q] /\ tmp'[q] = tmp[q]
           Seen == /\ op'[q] = op[q] /\ pc[q] # "idle"
                   /\ Found(op[q].ns, "namespace.json") \/ Rename(q)
<1>1. ~PowerLoss
  BY DEF PowerLoss, AtKeys
<1>2. ASSUME Same PROVE Seen
  <2>1. AtKeys(q)
    BY <1>2 DEF AtKeys
  <2> QED
    BY <1>2, <2>1 DEF PastStat, AtKeys
<1>3. ASSUME NEW p \in Procs, Forget(p)
      PROVE  p # q /\ Same
  BY <1>3 DEF TypeOK, Forget, AtKeys
<1>4. ASSUME NEW p \in Procs, NEW call \in Workload, Begin(p, call) \/ Refuse(p, call)
      PROVE  Same
  BY <1>4 DEF TypeOK, Begin, Refuse, Goto, local, AtKeys
<1>5. ASSUME NEW p \in Procs, Stat(p) \/ Lock(p) \/ SyncTmp(p)
      PROVE  Same \/ Seen
  <2>1. CASE p # q
    BY <1>3, <1>5, <2>1 DEF TypeOK, Stat, Lock, SyncTmp, Goto, Return, local
  <2>2. CASE p = q
    BY <1>3, <1>5, <2>2 DEF TypeOK, Tmps, Stat, Lock, SyncTmp, Goto, Return, local, AtKeys, PastStat
  <2> QED
    BY <2>1, <2>2
<1>6. ASSUME NEW p \in Procs, ReadNamespace(p) \/ StatKeys(p)
      PROVE  Same \/ Seen
  <2>1. CASE p # q
    BY <1>3, <1>6, <2>1 DEF TypeOK, ReadNamespace, StatKeys, Goto, Encode, Return, local
  <2>2. CASE p = q
    BY <1>3, <1>6, <2>2
       DEF TypeOK, ReadNamespace, StatKeys, Goto, Encode, Return, local, AtKeys, PastStat,
           Readable, Found
  <2> QED
    BY <2>1, <2>2
<1>7. ASSUME NEW p \in Procs, IssueKey(p) \/ RevokeKey(p)
      PROVE  Same \/ Seen
  <2>1. CASE p # q
    BY <1>3, <1>7, <2>1 DEF TypeOK, IssueKey, RevokeKey, Goto, Encode, Return, local
  <2>2. CASE p = q
    <3>1. op[q] # Nil /\ op[q].kind # "init" /\ pc[q] = "readKeys"
      BY <1>7, <2>2 DEF IssueKey, RevokeKey, Control
    <3>2. Found(op[q].ns, "namespace.json")
      BY <3>1 DEF PastStat
    <3>3. op'[q] = op[q]
      BY <1>3, <1>7, <2>2 DEF IssueKey, RevokeKey, Return
    <3> QED
      BY <3>1, <3>2, <3>3
  <2> QED
    BY <2>1, <2>2
<1>8. ASSUME NEW p \in Procs,
             ReadFails(p) \/ Authenticate(p) \/ ListKeys(p) \/ IOError(p) \/ Crash(p)
      PROVE  Same
  BY <1>3, <1>8 DEF ReadFails, Authenticate, ListKeys, IOError, Crash, Return
<1>9. ASSUME NEW p \in Procs, Rename(p) \/ SyncDir(p)
      PROVE  Same \/ Seen
  <2>1. CASE p # q
    BY <1>3, <1>9, <2>1 DEF TypeOK, Rename, SyncDir, Goto, Return, local
  <2>2. CASE p = q
    BY <1>3, <1>9, <2>2
       DEF TypeOK, Rename, SyncDir, Goto, Return, local, AtKeys, PastStat
  <2> QED
    BY <2>1, <2>2
<1>10. ASSUME NEW n \in Namespaces, (\E f \in Files : WriteBack(n, f)) \/ WriteBackRoot(n)
       PROVE  Same
  BY <1>10 DEF WriteBack, WriteBackRoot, local
<1>11. ASSUME UNCHANGED vars
       PROVE  Same
  BY <1>11 DEF vars
<1>12. Seen
  BY <1>1, <1>2, <1>4, <1>5, <1>6, <1>7, <1>8, <1>9, <1>10, <1>11 DEF Next, Step
<1>13. op[q].ns \in Namespaces
  BY <1>12, Running
<1>14. CASE Found(op[q].ns, "namespace.json")
  BY <1>1, <1>12, <1>13, <1>14, FoundStays
<1>15. CASE Rename(q)
  <2>1. pc[q] = "rename" /\ tmp[q].target \in Files
    BY <1>15 DEF Rename, Control
  <2>2. CASE tmp[q].target = "namespace.json"
    <3> DEFINE n == op[q].ns
    <3>1. "namespace.json" \in Files
      BY DEF Files
    <3>2. file'[n]["namespace.json"] = [state |-> "clean", keys |-> tmp[q].keys]
      BY <1>13, <1>15, <2>2, <3>1, RenameFile
    <3>3. file'[op[q].ns]["namespace.json"].state = "clean"
      BY <3>2
    <3> QED
      BY <1>12, <3>3 DEF Found
  <2>3. CASE tmp[q].target = "keys.json"
    BY <1>1, <1>12, <1>13, <2>1, <2>3, FoundStays DEF AtKeys, PastStat
  <2> QED
    BY <2>1, <2>2, <2>3 DEF Files
<1> QED
  BY <1>12, <1>14, <1>15

LEMMA PastStatStep == TypeOK /\ Control /\ PastStat /\ [Next]_vars => PastStat'
<1> SUFFICES ASSUME TypeOK, Control, PastStat, [Next]_vars,
                    NEW q \in Procs,
                    (op'[q] # Nil /\ op'[q].kind # "init" /\ pc'[q] # "stat") \/ AtKeys(q)'
             PROVE  Found(op[q].ns, "namespace.json")'
  BY DEF PastStat
<1> QED
  BY StatSeen, KeysSeen

-----------------------------------------------------------------------------
\* Fresh depends on the keys a step adds to a call's own state.
LEMMA FreshStep == TypeOK /\ Control /\ Whole /\ Fresh /\ [Next]_vars => Fresh'
<1> SUFFICES ASSUME TypeOK, Control, Whole, Fresh, [Next]_vars
             PROVE  Fresh'
  OBVIOUS
<1> DEFINE Old(n) == revoked[n] \cup KeysIn(n) \cup disk[n]["keys.json"].keys
           Mine(p) == delta[p] \cup tmp[p].keys
<1>1. serial \in Nat /\ serial' \in Nat /\ serial <= serial'
  <2>1. TypeOK'
    BY TypeStep
  <2>2. serial \in Nat /\ serial' \in Nat
    BY <2>1, SerialAssumption DEF TypeOK
  <2>3. serial' = serial \/ serial' = serial + 1
    BY DEF Next, Step, Begin, Refuse, Lock, Stat, ReadNamespace, StatKeys, ReadFails,
           IssueKey, RevokeKey, Authenticate, ListKeys, SyncTmp, Rename, SyncDir, IOError,
           Crash, WriteBack, WriteBackRoot, PowerLoss, vars
  <2> QED
    BY <2>2, <2>3
<1>2. ASSUME NEW n \in Namespaces, NEW k \in Old(n)'
      PROVE  k \in Old(n) \/ \E p \in Procs : k \in Mine(p)
  <2>1. CASE file' = file /\ disk' = disk /\ granted' = granted /\ revoked' = revoked
    BY <1>2, <2>1 DEF KeysIn
  <2>2. ASSUME NEW p \in Procs, Rename(p)
        PROVE  k \in Old(n) \/ k \in Mine(p)
    <3>1. file'[n]["keys.json"] = IF n = op[p].ns /\ "keys.json" = tmp[p].target
                                    THEN [state |-> "clean", keys |-> tmp[p].keys]
                                    ELSE file[n]["keys.json"]
      BY <2>2, RenameFile
    <3> QED
      BY <1>2, <2>2, <3>1 DEF KeysIn, Rename
  <2>3. ASSUME NEW p \in Procs, SyncDir(p)
        PROVE  k \in Old(n) \/ k \in Mine(p)
    <3>1. file' = file /\ (disk'[n] = file[n] \/ disk'[n] = disk[n])
      BY <2>3, SyncDirDisk
    <3>2. revoked'[n] \subseteq revoked[n] \cup delta[p]
      BY <2>3 DEF TypeOK, SyncDir, Promise, history
    <3> QED
      BY <1>2, <3>1, <3>2 DEF KeysIn
  <2>4. ASSUME NEW m \in Namespaces, NEW f \in Files, WriteBack(m, f)
        PROVE  k \in Old(n)
    <3>1. /\ file' = file
          /\ \/ disk'[n]["keys.json"] = file[n]["keys.json"]
             \/ disk'[n]["keys.json"] = disk[n]["keys.json"]
      BY <2>4, WriteBackDisk
    <3> QED
      BY <1>2, <2>4, <3>1 DEF KeysIn, WriteBack, history
  <2>5. CASE PowerLoss
    <3>1. /\ \/ file'[n]["keys.json"] = disk[n]["keys.json"]
             \/ file'[n]["keys.json"] = Missing
          /\ disk'[n]["keys.json"] = file'[n]["keys.json"]
      BY <2>5, PowerLossFiles
    <3> QED
      BY <1>2, <2>5, <3>1 DEF KeysIn, Missing, PowerLoss
  <2> QED
    BY <2>1, <2>2, <2>3, <2>4, <2>5, StoreSteps
<1>3. ASSUME NEW p \in Procs, NEW k \in Mine(p)'
      PROVE  \/ k \in Mine(p)
             \/ \E n \in Namespaces : k \in KeysIn(n)
             \/ k.serial = serial'
  <2> DEFINE Goal == \/ k \in Mine(p)
                     \/ \E n \in Namespaces : k \in KeysIn(n)
                     \/ k.serial = serial'
  <2>1. CASE delta'[p] = delta[p] /\ tmp'[p] = tmp[p]
    BY <1>3, <2>1
  <2>2. ASSUME NEW q \in Procs, Forget(q)
        PROVE  Goal
    BY <1>3, <2>2 DEF TypeOK, Forget, NoTmp
  <2>3. ASSUME NEW q \in Procs, NEW call \in Workload, Begin(q, call) \/ Refuse(q, call)
        PROVE  Goal
    BY <2>1, <2>3 DEF Begin, Refuse, local
  <2>4. ASSUME NEW q \in Procs, Lock(q) \/ Stat(q) \/ Rename(q)
        PROVE  Goal
    BY <2>1, <2>2, <2>4 DEF Lock, Stat, Rename, Return, local
  <2>5. ASSUME NEW q \in Procs, ReadNamespace(q) \/ StatKeys(q)
        PROVE  Goal
    <3>1. CASE \E f \in Files : Encode(q, f, {}) /\ delta' = delta
      BY <1>3, <3>1 DEF TypeOK, Encode
    <3> QED
      BY <2>1, <2>2, <2>5, <3>1 DEF ReadNamespace, StatKeys, Return, local
  <2>6. ASSUME NEW q \in Procs, IssueKey(q)
        PROVE  Goal
    <3>1. op[q].ns \in Namespaces
      BY <2>6, Running DEF IssueKey
    <3>2. CASE Return(q, "ErrDuplicateLabel")
      BY <2>2, <3>2 DEF Return
    <3>3. ASSUME serial' = serial + 1, NEW id \in Ids,
                 delta' = [delta EXCEPT ![q] = {NewKey(id, Trim(op[q].arg))}],
                 Encode(q, "keys.json", KeysIn(op[q].ns) \cup {NewKey(id, Trim(op[q].arg))})
          PROVE  Goal
      <4> DEFINE key == NewKey(id, Trim(op[q].arg))
      <4>1. key.serial = serial'
        BY <3>3 DEF NewKey, Key
      <4> HIDE DEF key
      <4>2. /\ delta' = [delta EXCEPT ![q] = {key}]
            /\ tmp' = [tmp EXCEPT ![q] = [target |-> "keys.json", state |-> "dirty",
                                          keys |-> KeysIn(op[q].ns) \cup {key}]]
        BY <3>3 DEF Encode, key
      <4> QED
        BY <1>3, <3>1, <4>1, <4>2 DEF TypeOK
    <3> QED
      BY <2>6, <3>2, <3>3 DEF IssueKey
  <2>7. ASSUME NEW q \in Procs, RevokeKey(q)
        PROVE  Goal
    <3>1. op[q].ns \in Namespaces
      BY <2>7, Running DEF RevokeKey
    <3>2. ASSUME NEW match \in SUBSET KeysIn(op[q].ns), delta' = [delta EXCEPT ![q] = match],
                 Encode(q, "keys.json", KeysIn(op[q].ns) \ match)
          PROVE  Goal
      BY <1>3, <3>1, <3>2 DEF TypeOK, Encode
    <3> QED
      BY <2>2, <2>7, <3>2 DEF RevokeKey, Return
  <2>8. ASSUME NEW q \in Procs, ReadFails(q) \/ Authenticate(q) \/ ListKeys(q)
                                 \/ IOError(q) \/ Crash(q)
        PROVE  Goal
    BY <2>2, <2>8 DEF ReadFails, Authenticate, ListKeys, IOError, Crash, Return
  <2>9. ASSUME NEW q \in Procs, SyncTmp(q)
        PROVE  Goal
    BY <1>3, <2>9 DEF TypeOK, Tmps, SyncTmp
  <2>10. ASSUME NEW q \in Procs, SyncDir(q)
         PROVE  Goal
    <3>1. CASE tmp[q].target = "namespace.json"
      <4>1. tmp' = [tmp EXCEPT ![q] = NoTmp] /\ delta' = delta
        BY <2>10, <3>1 DEF SyncDir
      <4>2. CASE p = q
        <5>1. Mine(p)' = delta[p]
          BY <4>1, <4>2 DEF TypeOK, NoTmp
        <5> QED
          BY <1>3, <5>1
      <4>3. CASE p # q
        <5>1. tmp'[p] = tmp[p]
          BY <4>1, <4>3 DEF TypeOK
        <5> QED
          BY <2>1, <4>1, <5>1
      <4> QED
        BY <4>2, <4>3
    <3>2. CASE tmp[q].target # "namespace.json"
      BY <2>2, <2>10, <3>2 DEF SyncDir, Return
    <3> QED
      BY <3>1, <3>2
  <2>11. ASSUME NEW n \in Namespaces,
                (\E f \in Files : WriteBack(n, f)) \/ WriteBackRoot(n)
         PROVE  Goal
    BY <2>1, <2>11 DEF WriteBack, WriteBackRoot, local
  <2>12. CASE PowerLoss
    BY <1>3, <2>12 DEF PowerLoss, NoTmp
  <2>13. CASE UNCHANGED vars
    BY <2>1, <2>13 DEF vars
  <2> QED
    BY <2>3, <2>4, <2>5, <2>6, <2>7, <2>8, <2>9, <2>10, <2>11, <2>12, <2>13 DEF Next, Step
<1>4. \A n \in Namespaces : Old(n) \subseteq Keys /\ Old(n)' \subseteq Keys
  BY TypeStep DEF TypeOK, KeysIn, Contents
<1>5. \A p \in Procs : Mine(p) \subseteq Keys /\ Mine(p)' \subseteq Keys
  BY TypeStep DEF TypeOK, Tmps
<1>6. \A k \in Keys : k.serial \in Nat
  <2>1. \A id \in Ids, label \in Labels, s \in Serials : Key(id, label, s).serial = s
    BY DEF Key
  <2>2. Serials \subseteq Nat
    BY SerialAssumption DEF Serials
  <2> QED
    BY <2>1, <2>2 DEF Keys
<1>7. /\ \A n \in Namespaces : \A k \in Old(n) : k.serial <= serial
      /\ \A p \in Procs : \A k \in Mine(p) : k.serial <= serial
  BY DEF Fresh
<1> HIDE DEF Old, Mine
<1>8. \A n \in Namespaces : \A k \in Old(n)' : k.serial <= serial'
  BY <1>1, <1>2, <1>4, <1>6, <1>7
<1>9. \A p \in Procs : \A k \in Mine(p)' : k.serial <= serial'
  <2>1. \A n \in Namespaces : KeysIn(n) \subseteq Old(n)
    BY DEF Old
  <2> QED
    BY <1>1, <1>3, <1>4, <1>5, <1>6, <1>7, <2>1
<1> QED
  BY <1>8, <1>9 DEF Old, Mine, Fresh

-----------------------------------------------------------------------------
\* The lock files keep the writers of a namespace apart.
LEMMA Exclusive ==
    ASSUME TypeOK, Control, Locking, NEW p \in Procs, NEW q \in Procs,
           Holds(p), Holds(q), op[p].ns = op[q].ns, LockFile(op[p]) = LockFile(op[q])
    PROVE  p = q
  BY DEF Locking

\* LabelsUnique, for one set of keys
UniqueIn(keys) == \A j, k \in keys : j.label.fold = k.label.fold => j = k

\* Writers, for one process and namespace
WriterKnows(n, q) ==
    /\ op[q].kind = "init" => InitWriter(n, q)
    /\ op[q].kind = "issue" => IssueWriter(n, q)
    /\ op[q].kind = "revoke" => RevokeWriter(n, q)

\* A writer knows what it knew when neither it nor its file changes.
LEMMA WriterKept ==
    ASSUME NEW n \in Namespaces, NEW q \in Procs, Writers, WriterOf(n, q),
           op'[q] = op[q], delta'[q] = delta[q], tmp'[q].keys = tmp[q].keys,
           pc[q] = "syncDir" <=> pc'[q] = "syncDir",
           file'[n]["keys.json"] = file[n]["keys.json"],
           Found(n, "namespace.json") => Found(n, "namespace.json")',
           op[q].kind = "issue" => revoked'[n] = revoked[n]
    PROVE  WriterKnows(n, q)'
<1>1. /\ op[q].kind = "init" => InitWriter(n, q)
      /\ op[q].kind = "issue" => IssueWriter(n, q)
      /\ op[q].kind = "revoke" => RevokeWriter(n, q)
  BY DEF Writers
<1> QED
  BY <1>1 DEF WriterKnows, InitWriter, IssueWriter, RevokeWriter, Found, KeysIn

\* What a writer read under the lock stays what keys.json holds until its own
\* rename, whatever the other processes do.
LEMMA WritersStep ==
    TypeOK /\ Control /\ Locking /\ PastStat /\ Fresh /\ Writers /\ LabelsUnique
      /\ [Next]_vars => Writers'
<1> SUFFICES ASSUME TypeOK, Control, Locking, PastStat, Fresh, Writers, LabelsUnique,
                    [Next]_vars,
                    NEW n \in Namespaces, NEW q \in Procs, WriterOf(n, q)'
             PROVE  WriterKnows(n, q)'
  BY DEF Writers, WriterKnows
<1> DEFINE Same == /\ op'[q] = op[q] /\ pc'[q] = pc[q]
                   /\ tmp'[q] = tmp[q] /\ delta'[q] = delta[q]
<1>1. CASE Same /\ file' = file /\ revoked' = revoked
  BY <1>1, WriterKept DEF WriterOf, Found
<1>2. ASSUME NEW p \in Procs, Forget(p)
      PROVE  p # q /\ Same
  BY <1>2 DEF WriterOf, TypeOK, Forget
<1>3. ASSUME NEW p \in Procs, NEW call \in Workload, Begin(p, call) \/ Refuse(p, call)
      PROVE  WriterKnows(n, q)'
  <2>1. Same
    BY <1>3 DEF WriterOf, TypeOK, Begin, Refuse, Goto, local
  <2> QED
    BY <1>1, <1>3, <2>1 DEF Begin, Refuse, store, history
<1>4. ASSUME NEW p \in Procs, Lock(p) \/ Stat(p)
      PROVE  WriterKnows(n, q)'
  <2>1. Same
    BY <1>2, <1>4 DEF WriterOf, TypeOK, Lock, Stat, Return, Goto, local
  <2> QED
    BY <1>1, <1>4, <2>1 DEF Lock, Stat, store, history
<1>5. ASSUME NEW p \in Procs, ReadNamespace(p)
      PROVE  WriterKnows(n, q)'
  <2>1. Same
    <3>1. CASE p # q
      BY <1>2, <1>5, <3>1 DEF TypeOK, ReadNamespace, Encode, Goto, Return, local
    <3>2. CASE p = q
      <4>1. CASE Encode(p, "namespace.json", {}) /\ UNCHANGED <<lock, op, delta>>
        BY <3>2, <4>1 DEF WriterOf, TypeOK, Encode, Goto
      <4>2. CASE Goto(p, "statKeys") /\ UNCHANGED <<lock, local>>
        BY <3>2, <4>2 DEF WriterOf, TypeOK, Goto, local
      <4> QED
        BY <1>2, <1>5, <4>1, <4>2 DEF ReadNamespace, Return
    <3> QED
      BY <3>1, <3>2
  <2> QED
    BY <1>1, <1>5, <2>1 DEF ReadNamespace, store, history
<1>6. ASSUME NEW p \in Procs, StatKeys(p)
      PROVE  WriterKnows(n, q)'
  <2>1. file' = file /\ revoked' = revoked
    BY <1>6 DEF StatKeys, store, history
  <2>2. CASE Return(p, "nil")
    BY <1>1, <1>2, <2>1, <2>2 DEF Return
  <2>3. CASE ~Found(op[p].ns, "keys.json") /\ Encode(p, "keys.json", {})
             /\ UNCHANGED <<lock, op, delta>>
    <3>1. CASE p # q
      BY <1>1, <2>1, <2>3, <3>1 DEF TypeOK, Encode, Goto
    <3>2. CASE p = q
      <4>1. op'[q].kind = "init"
        BY <1>6, <2>3, <3>2 DEF StatKeys, Control, Reach
      <4>2. op'[q].ns = n /\ tmp'[q].keys = {} /\ ~Found(n, "keys.json")
        BY <2>3, <3>2 DEF WriterOf, TypeOK, Encode
      <4>3. pc'[q] = "sync"
        BY <2>3, <3>2 DEF TypeOK, Encode, Goto
      <4> QED
        BY <2>1, <4>1, <4>2, <4>3 DEF WriterKnows, InitWriter, Found
    <3> QED
      BY <3>1, <3>2
  <2> QED
    BY <1>6, <2>2, <2>3 DEF StatKeys
<1>7. ASSUME NEW p \in Procs, ReadFails(p) \/ Authenticate(p) \/ ListKeys(p)
                                 \/ IOError(p) \/ Crash(p)
      PROVE  WriterKnows(n, q)'
  BY <1>1, <1>2, <1>7
     DEF ReadFails, Authenticate, ListKeys, IOError, Crash, Return, store, history
<1>8. ASSUME NEW p \in Procs, IssueKey(p)
      PROVE  WriterKnows(n, q)'
  <2> DEFINE label == Trim(op[p].arg)
  <2>1. file' = file /\ revoked' = revoked
    BY <1>8 DEF IssueKey, store, history
  <2>2. CASE Return(p, "ErrDuplicateLabel")
    BY <1>1, <1>2, <2>1, <2>2 DEF Return
  <2>3. ASSUME NEW id \in Ids, ~Taken(op[p].ns, label),
               delta' = [delta EXCEPT ![p] = {NewKey(id, label)}],
               Encode(p, "keys.json", KeysIn(op[p].ns) \cup {NewKey(id, label)}),
               UNCHANGED <<lock, op>>
        PROVE  WriterKnows(n, q)'
    <3> DEFINE key == NewKey(id, label)
    <3>1. CASE p # q
      BY <1>1, <2>1, <2>3, <3>1 DEF TypeOK, Encode, Goto
    <3>2. CASE p = q
      <4>1. op[q].ns = n /\ op'[q].kind = "issue" /\ pc'[q] = "sync"
        BY <1>8, <2>3, <3>2 DEF WriterOf, TypeOK, IssueKey, Encode, Goto
      <4>2. tmp'[q].keys = KeysIn(n) \cup {key} /\ delta'[q] = {key}
        BY <2>3, <3>2, <4>1 DEF TypeOK, Encode
      <4>3. Found(n, "keys.json") /\ Found(n, "namespace.json")
        BY <1>8, <3>2, <4>1 DEF IssueKey, Readable, Found, PastStat, Control
      <4>4. key \notin revoked[n]
        BY SerialAssumption DEF Fresh, NewKey, Key, TypeOK
      <4>5. UniqueIn(KeysIn(n))
        BY DEF LabelsUnique, UniqueIn, KeysIn
      <4>6. key.label = label
        BY DEF NewKey, Key
      <4>7. UniqueIn(KeysIn(n) \cup {key})
        <5> HIDE DEF key, label
        <5> QED
          BY <2>3, <3>2, <4>1, <4>5, <4>6 DEF UniqueIn, Taken, EqualFold, label
      <4> HIDE DEF key
      <4> QED
        BY <2>1, <4>1, <4>2, <4>3, <4>4, <4>7
           DEF WriterKnows, IssueWriter, Found, KeysIn, UniqueIn
    <3> QED
      BY <3>1, <3>2
  <2> QED
    BY <1>8, <2>2, <2>3 DEF IssueKey
<1>9. ASSUME NEW p \in Procs, RevokeKey(p)
      PROVE  WriterKnows(n, q)'
  <2> DEFINE match == {k \in KeysIn(op[p].ns) : k.id = op[p].arg}
  <2>1. file' = file /\ revoked' = revoked
    BY <1>9 DEF RevokeKey, store, history
  <2>2. CASE Return(p, "ErrKeyMissing")
    BY <1>1, <1>2, <2>1, <2>2 DEF Return
  <2>3. CASE /\ delta' = [delta EXCEPT ![p] = match]
             /\ Encode(p, "keys.json", KeysIn(op[p].ns) \ match)
             /\ UNCHANGED <<lock, op>>
    <3>1. CASE p # q
      BY <1>1, <2>1, <2>3, <3>1 DEF TypeOK, Encode, Goto
    <3>2. CASE p = q
      <4> HIDE DEF match
      <4>1. op[q].ns = n /\ op'[q].kind = "revoke" /\ pc'[q] = "sync"
        BY <1>9, <2>3, <3>2 DEF WriterOf, TypeOK, RevokeKey, Encode, Goto
      <4>2. tmp'[q].keys = KeysIn(n) \ match /\ delta'[q] = match
        BY <2>3, <3>2, <4>1 DEF TypeOK, Encode
      <4>3. Found(n, "keys.json")
        BY <1>9, <3>2, <4>1 DEF RevokeKey, Readable, Found
      <4> QED
        BY <2>1, <4>1, <4>2, <4>3 DEF WriterKnows, RevokeWriter, Found, KeysIn
    <3> QED
      BY <3>1, <3>2
  <2> QED
    BY <1>9, <2>2, <2>3 DEF RevokeKey
<1>10. ASSUME NEW p \in Procs, SyncTmp(p)
       PROVE  WriterKnows(n, q)'
  <2>1. /\ op'[q] = op[q] /\ delta'[q] = delta[q] /\ tmp'[q].keys = tmp[q].keys
        /\ tmp'[q].target = tmp[q].target /\ pc[q] \in {"sync", "rename", "syncDir"}
        /\ pc[q] = "syncDir" <=> pc'[q] = "syncDir"
    BY <1>10 DEF WriterOf, TypeOK, SyncTmp, Goto, Tmps
  <2>2. file' = file /\ revoked' = revoked
    BY <1>10 DEF SyncTmp, store, history
  <2> QED
    BY <2>1, <2>2, WriterKept DEF WriterOf, Found
<1>11. ASSUME NEW p \in Procs, Rename(p)
       PROVE  WriterKnows(n, q)'
  <2>1. op' = op /\ tmp' = tmp /\ delta' = delta /\ revoked' = revoked
    BY <1>11 DEF Rename, local
  <2>2. \A f \in Files : file'[n][f] = IF n = op[p].ns /\ f = tmp[p].target
                                        THEN [state |-> "clean", keys |-> tmp[p].keys]
                                        ELSE file[n][f]
    BY <1>11, RenameFile
  <2>3. Found(n, "namespace.json") => Found(n, "namespace.json")'
    BY <2>2 DEF Found
  <2>4. CASE p = q
    <3>1. WriterOf(n, q) /\ pc[q] = "rename" /\ pc'[q] = "syncDir"
      BY <1>11, <2>1, <2>4 DEF WriterOf, TypeOK, Rename, Goto
    <3>2. file'[n]["keys.json"] = [state |-> "clean", keys |-> tmp[q].keys]
      BY <2>2, <2>4, <3>1 DEF WriterOf
    <3>3. /\ op[q].kind = "issue" => IssueWriter(n, q)
          /\ op[q].kind = "revoke" => RevokeWriter(n, q)
      BY <3>1 DEF Writers
    <3> QED
      BY <2>1, <2>3, <3>1, <3>2, <3>3
         DEF WriterKnows, InitWriter, IssueWriter, RevokeWriter, Found, KeysIn
  <2>5. CASE p # q
    <3>1. pc'[q] = pc[q] /\ WriterOf(n, q)
      BY <1>11, <2>1, <2>5 DEF WriterOf, TypeOK, Rename, Goto
    <3>2. CASE op[p].ns # n \/ tmp[p].target # "keys.json"
      <4>1. file'[n]["keys.json"] = file[n]["keys.json"]
        BY <2>2, <3>2
      <4> QED
        BY <2>1, <2>3, <3>1, <4>1, WriterKept
    <3>3. CASE op[p].ns = n /\ tmp[p].target = "keys.json"
      <4>1. WriterOf(n, p) /\ pc[p] = "rename"
        BY <1>11, <3>3 DEF WriterOf, Rename, Control
      <4>2. /\ op[p].kind \in {"init", "issue", "revoke"}
            /\ op[q].kind \in {"init", "issue", "revoke"}
        BY <3>1, <4>1 DEF WriterOf, Control, Reach
      <4>3. LockFile(op[p]) # LockFile(op[q])
        BY <2>5, <3>1, <4>1, Exclusive DEF WriterOf, Holds
      <4>4. (op[p].kind = "init" /\ op[q].kind \in {"issue", "revoke"})
              \/ (op[q].kind = "init" /\ op[p].kind \in {"issue", "revoke"})
        BY <4>2, <4>3 DEF LockFile
      <4>5. /\ op[p].kind = "init" => ~Found(n, "keys.json")
            /\ op[p].kind \in {"issue", "revoke"} => Found(n, "keys.json")
        BY <4>1 DEF Writers, InitWriter, IssueWriter, RevokeWriter
      <4>6. /\ op[q].kind = "init" /\ pc[q] # "syncDir" => ~Found(n, "keys.json")
            /\ op[q].kind \in {"issue", "revoke"} => Found(n, "keys.json")
        BY <3>1 DEF Writers, InitWriter, IssueWriter, RevokeWriter
      <4>7. Found(n, "keys.json")'
        BY <2>2, <3>3 DEF Found
      <4> QED
        BY <2>1, <3>1, <4>4, <4>5, <4>6, <4>7 DEF WriterKnows, InitWriter
    <3> QED
      BY <3>2, <3>3
  <2> QED
    BY <2>4, <2>5
<1>12. ASSUME NEW p \in Procs, SyncDir(p)
       PROVE  WriterKnows(n, q)'
  <2>1. p # q /\ Same
    BY <1>2, <1>12 DEF WriterOf, TypeOK, SyncDir, Return, Goto
  <2>2. WriterOf(n, q) /\ file' = file
    BY <1>12, <2>1 DEF WriterOf, SyncDir
  <2>3. ASSUME op[q].kind = "issue"
        PROVE  revoked'[n] = revoked[n]
    <3>1. op[p].ns # n \/ op[p].kind # "revoke"
      <4>1. Holds(p) /\ Holds(q)
        BY <1>12, <2>2 DEF SyncDir, Holds, WriterOf
      <4> QED
        BY <2>1, <2>2, <2>3, <4>1, Exclusive DEF LockFile, WriterOf
    <3> QED
      BY <1>12, <3>1 DEF TypeOK, SyncDir, Promise, history
  <2> QED
    BY <2>1, <2>2, <2>3, WriterKept DEF Found
<1>13. ASSUME NEW m \in Namespaces,
              (\E f \in Files : WriteBack(m, f)) \/ WriteBackRoot(m)
       PROVE  WriterKnows(n, q)'
  BY <1>1, <1>13 DEF WriteBack, WriteBackRoot, local, history
<1>14. CASE PowerLoss
  BY <1>14 DEF PowerLoss, WriterOf
<1>15. CASE UNCHANGED vars
  BY <1>1, <1>15 DEF vars
<1> QED
  BY <1>3, <1>4, <1>5, <1>6, <1>7, <1>8, <1>9, <1>10, <1>11, <1>12, <1>13, <1>14, <1>15
     DEF Next, Step

-----------------------------------------------------------------------------
\* What a rename of keys.json does to the registered keys, kind by kind.
LEMMA RenameKeys ==
    ASSUME TypeOK, Control, Writers, NEW p \in Procs, Rename(p), NEW n \in Namespaces
    PROVE  \/ KeysIn(n)' = KeysIn(n)
           \/ /\ op[p].ns = n
              /\ KeysIn(n)' = tmp[p].keys
              /\ \/ op[p].kind = "init" /\ ~Found(n, "keys.json") /\ tmp[p].keys = {}
                 \/ op[p].kind = "issue" /\ IssueWriter(n, p)
                      /\ tmp[p].keys = KeysIn(n) \cup delta[p] /\ UniqueIn(tmp[p].keys)
                 \/ op[p].kind = "revoke" /\ tmp[p].keys = KeysIn(n) \ delta[p]
<1>1. file'[n]["keys.json"] = IF n = op[p].ns /\ "keys.json" = tmp[p].target
                                THEN [state |-> "clean", keys |-> tmp[p].keys]
                                ELSE file[n]["keys.json"]
  BY RenameFile
<1>2. CASE n = op[p].ns /\ "keys.json" = tmp[p].target
  <2>1. WriterOf(n, p) /\ pc[p] = "rename"
    BY <1>2 DEF WriterOf, Rename, Control
  <2>2. op[p].kind \in {"init", "issue", "revoke"}
    BY <2>1 DEF WriterOf, Control, Reach
  <2>3. /\ op[p].kind = "init" => InitWriter(n, p)
        /\ op[p].kind = "issue" => IssueWriter(n, p)
        /\ op[p].kind = "revoke" => RevokeWriter(n, p)
    BY <2>1 DEF Writers
  <2>4. KeysIn(n)' = tmp[p].keys
    BY <1>1, <1>2 DEF KeysIn
  <2> QED
    BY <1>2, <2>1, <2>2, <2>3, <2>4 DEF InitWriter, IssueWriter, RevokeWriter, UniqueIn
<1>3. CASE ~(n = op[p].ns /\ "keys.json" = tmp[p].target)
  BY <1>1, <1>3 DEF KeysIn
<1> QED
  BY <1>2, <1>3

\* The duplicate check under the lock keeps labels apart in every step.
LEMMA LabelsStep ==
    TypeOK /\ Control /\ Whole /\ Writers /\ LabelsUnique /\ [Next]_vars => LabelsUnique'
<1> SUFFICES ASSUME TypeOK, Control, Whole, Writers, LabelsUnique, [Next]_vars,
                    NEW n \in Namespaces
             PROVE  UniqueIn(KeysIn(n)') /\ UniqueIn(disk'[n]["keys.json"].keys)
  BY DEF LabelsUnique, UniqueIn, KeysIn
<1>1. UniqueIn(KeysIn(n)) /\ UniqueIn(disk[n]["keys.json"].keys)
  BY DEF LabelsUnique, UniqueIn, KeysIn
<1>2. CASE file' = file /\ disk' = disk
  BY <1>1, <1>2 DEF KeysIn
<1>3. ASSUME NEW p \in Procs, Rename(p)
      PROVE  UniqueIn(KeysIn(n)') /\ disk' = disk
  <2>1. disk' = disk
    BY <1>3 DEF Rename
  <2>2. UniqueIn({}) /\ UniqueIn(KeysIn(n) \ delta[p])
    BY <1>1 DEF UniqueIn
  <2> QED
    BY <1>1, <1>3, <2>1, <2>2, RenameKeys
<1>4. ASSUME NEW p \in Procs, SyncDir(p)
      PROVE  file' = file /\ (disk'[n] = file[n] \/ disk'[n] = disk[n])
  BY <1>4, SyncDirDisk
<1>5. ASSUME NEW m \in Namespaces, NEW f \in Files, WriteBack(m, f)
      PROVE  /\ file' = file
             /\ \/ disk'[n]["keys.json"] = file[n]["keys.json"]
                \/ disk'[n]["keys.json"] = disk[n]["keys.json"]
  BY <1>5, WriteBackDisk
<1>6. ASSUME PowerLoss
      PROVE  /\ \/ file'[n]["keys.json"] = disk[n]["keys.json"]
                \/ file'[n]["keys.json"].keys = {}
             /\ disk'[n]["keys.json"] = file'[n]["keys.json"]
  BY <1>6, PowerLossFiles DEF Missing
<1>7. UniqueIn({})
  BY DEF UniqueIn
<1> QED
  BY <1>1, <1>2, <1>3, <1>4, <1>5, <1>6, <1>7, StoreSteps DEF KeysIn

-----------------------------------------------------------------------------
\* What SyncDir knows and promises, in the namespace of its call.
LEMMA SyncDirPromise ==
    ASSUME TypeOK, Control, Writers, NEW p \in Procs, SyncDir(p), NEW n \in Namespaces
    PROVE  /\ \/ Kept'[n] = Kept[n]
              \/ /\ op[p].ns = n /\ Kept'[n] \subseteq Kept[n] \cup delta[p]
                 /\ delta[p] \subseteq KeysIn(n)
                 /\ Found(n, "keys.json") /\ Found(n, "namespace.json")
           /\ \/ revoked'[n] = revoked[n]
              \/ /\ op[p].ns = n /\ revoked'[n] = revoked[n] \cup delta[p]
                 /\ delta[p] \cap KeysIn(n) = {}
<1>1. CASE UNCHANGED history
  BY <1>1 DEF history, Kept
<1>2. CASE Promise(p) /\ op[p].ns = n /\ tmp[p].target # "namespace.json"
  <2>1. WriterOf(n, p) /\ pc[p] = "syncDir"
    BY <1>2 DEF SyncDir, WriterOf, Control
  <2>2. /\ op[p].kind = "issue" => IssueWriter(n, p)
        /\ op[p].kind = "revoke" => RevokeWriter(n, p)
    BY <2>1 DEF Writers
  <2>3. /\ granted'[n] = IF op[p].kind = "issue" THEN granted[n] \cup delta[p] ELSE granted[n]
        /\ released'[n] = released[n]
        /\ revoked'[n] = IF op[p].kind = "revoke" THEN revoked[n] \cup delta[p] ELSE revoked[n]
    BY <1>2 DEF TypeOK, Promise
  <2>4. Kept[n] = granted[n] \ released[n] /\ Kept'[n] = granted'[n] \ released'[n]
    BY DEF Kept
  <2>5. op[p].kind = "issue" => /\ delta[p] \subseteq KeysIn(n)
                                /\ Found(n, "keys.json") /\ Found(n, "namespace.json")
    BY <2>1, <2>2 DEF IssueWriter
  <2>6. op[p].kind = "revoke" => delta[p] \cap KeysIn(n) = {}
    BY <2>1, <2>2 DEF RevokeWriter
  <2>7. CASE op[p].kind = "issue"
    BY <1>2, <2>3, <2>4, <2>5, <2>7
  <2>8. CASE op[p].kind # "issue"
    BY <1>2, <2>3, <2>4, <2>6, <2>8
  <2> QED
    BY <2>7, <2>8
<1>3. CASE Promise(p) /\ op[p].ns # n
  BY <1>3 DEF TypeOK, Promise, Kept
<1> QED
  BY <1>1, <1>2, <1>3 DEF SyncDir

\* No step loses a key the store owes, in the visible file or on stable storage.
LEMMA GrantedStep ==
    TypeOK /\ Control /\ Whole /\ Writers /\ GrantedKeysKept /\ [Next]_vars
      => GrantedKeysKept'
<1> DEFINE Safe(n) == Kept[n] # {} =>
                        /\ \A f \in Files : file[n][f].state = "clean"
                        /\ \A f \in Files : disk[n][f].state = "clean"
                        /\ Kept[n] \subseteq KeysIn(n)
                        /\ Kept[n] \subseteq disk[n]["keys.json"].keys
<1> SUFFICES ASSUME TypeOK, Control, Whole, Writers, GrantedKeysKept, [Next]_vars,
                    NEW n \in Namespaces
             PROVE  Safe(n)'
  BY DEF GrantedKeysKept, KeysIn
<1>1. Safe(n)
  BY DEF GrantedKeysKept, KeysIn
<1>a. Kept[n] = granted[n] \ released[n] /\ Kept'[n] = granted'[n] \ released'[n]
  BY DEF Kept
<1>2. CASE file' = file /\ disk' = disk /\ granted' = granted /\ released' = released
  BY <1>1, <1>2 DEF KeysIn, Kept
<1>3. ASSUME NEW p \in Procs, Rename(p)
      PROVE  Safe(n)'
  <2>1. \A f \in Files : file'[n][f] = IF n = op[p].ns /\ f = tmp[p].target
                                        THEN [state |-> "clean", keys |-> tmp[p].keys]
                                        ELSE file[n][f]
    BY <1>3, RenameFile
  <2>2. \A f \in Files : file[n][f].state = "clean" => file'[n][f].state = "clean"
    BY <2>1
  <2>3. /\ disk' = disk /\ granted' = granted /\ released[n] \subseteq released'[n]
        /\ op[p].ns = n /\ op[p].kind = "revoke" => released'[n] = released[n] \cup delta[p]
    BY <1>3 DEF TypeOK, Rename
  <2>4. /\ disk' = disk /\ Kept'[n] \subseteq Kept[n]
        /\ op[p].ns = n /\ op[p].kind = "revoke" => Kept'[n] = Kept[n] \ delta[p]
    BY <1>a, <2>3
  <2>5. Kept[n] # {} => Found(n, "keys.json")
    BY <1>1 DEF Found, Files
  <2>6. Kept'[n] # {} => Kept'[n] \subseteq KeysIn(n)'
    BY <1>1, <1>3, <2>4, <2>5, RenameKeys
  <2> HIDE DEF Safe
  <2>7. Kept'[n] # {} => /\ \A f \in Files : file'[n][f].state = "clean"
                         /\ \A f \in Files : disk'[n][f].state = "clean"
                         /\ Kept'[n] \subseteq disk'[n]["keys.json"].keys
    BY <1>1, <2>2, <2>4 DEF Safe
  <2> QED
    BY <2>6, <2>7 DEF Safe
<1>4. ASSUME NEW p \in Procs, SyncDir(p)
      PROVE  Safe(n)'
  <2>1. file' = file /\ disk'[n] = IF n = op[p].ns THEN file[n] ELSE disk[n]
    BY <1>4, SyncDirDisk
  <2>2. CASE Kept'[n] = Kept[n]
    BY <1>1, <2>1, <2>2 DEF KeysIn
  <2>3. CASE /\ op[p].ns = n /\ Kept'[n] \subseteq Kept[n] \cup delta[p]
             /\ delta[p] \subseteq KeysIn(n)
             /\ Found(n, "keys.json") /\ Found(n, "namespace.json")
    <3>1. \A f \in Files : file[n][f].state = "clean"
      BY <2>3 DEF Found, Whole, FilesWhole, Files
    <3>2. Kept'[n] \subseteq KeysIn(n)
      BY <1>1, <2>3
    <3> QED
      BY <2>1, <2>3, <3>1, <3>2 DEF KeysIn
  <2> QED
    BY <1>4, <2>2, <2>3, SyncDirPromise
<1>5. ASSUME NEW m \in Namespaces, NEW f \in Files, WriteBack(m, f)
      PROVE  Safe(n)'
  <2>1. file' = file /\ Kept'[n] = Kept[n]
    BY <1>5, <1>a DEF WriteBack, history
  <2>2. \A g \in Files : disk'[n][g] = file[n][g] \/ disk'[n][g] = disk[n][g]
    BY <1>5, WriteBackDisk
  <2> QED
    BY <1>1, <2>1, <2>2 DEF KeysIn, Files
<1>6. CASE PowerLoss
  <2>1. \A f \in Files : /\ file'[n][f] = IF dir[n] = "durable" THEN disk[n][f] ELSE Missing
                         /\ disk'[n][f] = file'[n][f]
    BY <1>6, PowerLossFiles
  <2>2. Kept'[n] = IF dir[n] = "durable" THEN Kept[n] ELSE {}
    BY <1>6, <1>a DEF PowerLoss
  <2> QED
    BY <1>1, <2>1, <2>2 DEF KeysIn, Files
<1> QED
  BY <1>2, <1>3, <1>4, <1>5, <1>6, StoreSteps

\* No step brings back a key whose revocation was reported.
LEMMA RevokedStep ==
    TypeOK /\ Control /\ Whole /\ Writers /\ RevokedKeysGone /\ [Next]_vars
      => RevokedKeysGone'
<1> SUFFICES ASSUME TypeOK, Control, Whole, Writers, RevokedKeysGone, [Next]_vars,
                    NEW n \in Namespaces
             PROVE  /\ revoked'[n] \cap KeysIn(n)' = {}
                    /\ revoked'[n] \cap disk'[n]["keys.json"].keys = {}
  BY DEF RevokedKeysGone
<1>1. revoked[n] \cap KeysIn(n) = {} /\ revoked[n] \cap disk[n]["keys.json"].keys = {}
  BY DEF RevokedKeysGone
<1>2. CASE file' = file /\ disk' = disk /\ revoked' = revoked
  BY <1>1, <1>2 DEF KeysIn
<1>3. ASSUME NEW p \in Procs, Rename(p)
      PROVE  /\ revoked' = revoked /\ disk' = disk
             /\ revoked[n] \cap KeysIn(n)' = {}
  <2>1. revoked' = revoked /\ disk' = disk
    BY <1>3 DEF Rename
  <2>2. IssueWriter(n, p) => delta[p] \cap revoked[n] = {}
    BY DEF IssueWriter
  <2> QED
    BY <1>1, <1>3, <2>1, <2>2, RenameKeys
<1>4. ASSUME NEW p \in Procs, SyncDir(p)
      PROVE  /\ revoked'[n] \cap KeysIn(n)' = {}
             /\ revoked'[n] \cap disk'[n]["keys.json"].keys = {}
  <2>1. file' = file /\ disk'[n] = IF n = op[p].ns THEN file[n] ELSE disk[n]
    BY <1>4, SyncDirDisk
  <2>2. \/ revoked'[n] = revoked[n]
        \/ /\ op[p].ns = n /\ revoked'[n] = revoked[n] \cup delta[p]
           /\ delta[p] \cap KeysIn(n) = {}
    BY <1>4, SyncDirPromise
  <2> QED
    BY <1>1, <2>1, <2>2 DEF KeysIn
<1>5. ASSUME NEW m \in Namespaces, NEW f \in Files, WriteBack(m, f)
      PROVE  /\ file' = file /\ revoked' = revoked
             /\ \/ disk'[n]["keys.json"] = file[n]["keys.json"]
                \/ disk'[n]["keys.json"] = disk[n]["keys.json"]
  BY <1>5, WriteBackDisk DEF WriteBack, history
<1>6. ASSUME PowerLoss
      PROVE  /\ revoked' = revoked
             /\ \/ file'[n]["keys.json"] = disk[n]["keys.json"]
                \/ file'[n]["keys.json"].keys = {}
             /\ disk'[n]["keys.json"] = file'[n]["keys.json"]
  BY <1>6, PowerLossFiles DEF PowerLoss, Missing
<1> QED
  BY <1>1, <1>2, <1>3, <1>4, <1>5, <1>6, StoreSteps DEF KeysIn

-----------------------------------------------------------------------------
(***************************************************************************)
(* The inductive invariant and what follows from it.                       *)
(***************************************************************************)

\* A data root with nothing but namespaces without keys satisfies the invariant.
LEMMA InvInit == Init => TypeOK /\ Inv
<1> SUFFICES ASSUME Init
             PROVE  TypeOK /\ Inv
  OBVIOUS
<1> USE DEF Init
<1>1. TypeOK /\ Control
  BY SerialAssumption DEF TypeOK, Control, Contents, Missing, Empty, Tmps, NoTmp, PCs
<1>2. Locking /\ PastStat
  BY DEF Locking, Holds, PastStat, AtKeys
<1>3. Whole
  BY DEF Whole, FilesWhole, Missing, Empty
<1>4. Writers
  BY DEF Writers, WriterOf
<1>5. Fresh /\ LabelsUnique
  BY DEF Fresh, LabelsUnique, Missing, Empty, NoTmp, KeysIn
<1>6. GrantedKeysKept /\ RevokedKeysGone
  BY DEF GrantedKeysKept, RevokedKeysGone, Kept
<1> QED
  BY <1>1, <1>2, <1>3, <1>4, <1>5, <1>6 DEF Inv

\* Every step preserves the invariant, part by part.
LEMMA InvStep == TypeOK /\ Inv /\ [Next]_vars => (TypeOK /\ Inv)'
  BY TypeStep, ControlStep, LockingStep, WholeStep, WritersStep, PastStatStep, FreshStep,
     GrantedStep, RevokedStep, LabelsStep DEF Inv

\* Inv and the types hold in every state of every run.
THEOREM Invariance == Spec => [](TypeOK /\ Inv)
  BY InvInit, InvStep, PTL DEF Spec

\* Type correctness: every variable keeps its type, whatever the constants.
THEOREM TypeCorrect == Spec => []TypeOK
  BY Invariance, PTL

\* No overlap of calls, no failure and no crash loses a key whose token was
\* handed out, for any number of administrators and namespaces; RevokeKey takes
\* it out, and power loss does where the namespace's own directory entry had not
\* reached the disk.
THEOREM GrantedSafe == Spec => []GrantedKeysKept
<1>1. Inv => GrantedKeysKept
  BY DEF Inv
<1> QED
  BY <1>1, Invariance, PTL

\* A key reported revoked never comes back, in any namespace, for any number
\* of concurrent writers, crashes and power losses.
THEOREM RevokedSafe == Spec => []RevokedKeysGone
<1>1. Inv => RevokedKeysGone
  BY DEF Inv
<1> QED
  BY <1>1, Invariance, PTL

\* Labels stay distinct under case folding whichever calls overlap.
THEOREM LabelsSafe == Spec => []LabelsUnique
<1>1. Inv => LabelsUnique
  BY DEF Inv
<1> QED
  BY <1>1, Invariance, PTL

\* No reader and no restart finds a half-written file.
THEOREM FilesSafe == Spec => []FilesWhole
<1>1. Inv => FilesWhole
  BY DEF Inv, Whole
<1> QED
  BY <1>1, Invariance, PTL

\* However many callers there are, nobody waits for a lock that no running call
\* holds, or whose holder waits for one itself: the locks cannot deadlock.
THEOREM LocksSafe == Spec => []LocksServed
<1>1. Init => LocksServed
  BY DEF Init, LocksServed
<1>2. TypeOK /\ Inv => Control
  BY DEF Inv
<1> QED
  BY <1>1, <1>2, ServedStep, Invariance, PTL DEF Spec

=============================================================================
