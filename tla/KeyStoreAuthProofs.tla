------------------------- MODULE KeyStoreAuthProofs -------------------------
(***************************************************************************)
(* What a call may answer while the files are replaced under it: the       *)
(* action properties of KeyStore about Authenticate and Init, for any      *)
(* number of callers, names, labels and ids.                               *)
(***************************************************************************)
EXTENDS KeyStoreProofs

-----------------------------------------------------------------------------
(* Every key belongs to one namespace. *)

InHand(q) == delta[q] \cup tmp[q].keys

\* The key is in a file of the namespace, or a call on it has it in hand
Has(n, k) ==
    \/ k \in KeysIn(n) \cup disk[n]["keys.json"].keys
    \/ \E q \in Procs : op[q] # Nil /\ op[q].ns = n /\ k \in InHand(q)

Apart ==
    /\ \A q \in Procs : op[q] = Nil => InHand(q) = {}
    /\ \A n, m \in Namespaces : n # m => \A k \in Keys : ~(Has(n, k) /\ Has(m, k))

\* A call has the keys it had, keys it has just read in its own namespace, or
\* the key it has just made.
Source(q, k) ==
    /\ op[q] # Nil /\ op'[q] = op[q]
    /\ \/ k \in InHand(q) \cup KeysIn(op[q].ns)
       \/ IssueKey(q) /\ k.serial = serial + 1

LEMMA CallKeys ==
    ASSUME TypeOK, Inv, Apart, [Next]_vars, NEW q \in Procs, NEW k \in InHand(q)'
    PROVE  Source(q, k)
<1> DEFINE Same == op'[q] = op[q] /\ tmp'[q] = tmp[q] /\ delta'[q] = delta[q]
<1>1. CASE Same
  BY <1>1 DEF Apart, InHand, Source
<1>2. ASSUME NEW p \in Procs, Forget(p)
      PROVE  p # q /\ Same
  BY <1>2 DEF TypeOK, Forget, NoTmp, InHand
<1>3. ASSUME NEW p \in Procs, NEW call \in Workload, Begin(p, call) \/ Refuse(p, call)
      PROVE  Source(q, k)
  <2>1. CASE p # q
    BY <1>1, <1>3, <2>1 DEF TypeOK, Begin, Refuse, local
  <2>2. CASE p = q
    <3>1. op[q] = Nil
      BY <1>3, <2>2 DEF Begin, Refuse, Inv, Control
    <3>2. delta' = delta /\ tmp' = tmp
      BY <1>3 DEF Begin, Refuse, local
    <3> QED
      BY <3>1, <3>2 DEF Apart, InHand
  <2> QED
    BY <2>1, <2>2
<1>4. ASSUME NEW p \in Procs, pc[p] # "idle", op' = op,
             delta' = delta \/ delta' = [delta EXCEPT ![p] = {}],
             \/ tmp' = tmp
             \/ \E t : tmp' = [tmp EXCEPT ![p] = t] /\ t.keys \subseteq tmp[p].keys
      PROVE  Source(q, k)
  <2>1. CASE p # q
    BY <1>1, <1>4, <2>1 DEF TypeOK
  <2>2. CASE p = q
    <3>1. op[q] # Nil
      BY <1>4, <2>2 DEF Inv, Control
    <3>2. InHand(q)' \subseteq InHand(q)
      BY <1>4, <2>2 DEF TypeOK, InHand
    <3> QED
      BY <1>4, <3>1, <3>2 DEF Source
  <2> QED
    BY <2>1, <2>2
<1>5. ASSUME NEW p \in Procs, Lock(p) \/ Stat(p) \/ Rename(p)
      PROVE  Source(q, k)
  BY <1>1, <1>2, <1>5 DEF Lock, Stat, Rename, Return, local
<1>6. ASSUME NEW p \in Procs, ReadNamespace(p) \/ StatKeys(p)
      PROVE  Source(q, k)
  <2>1. CASE Forget(p)
    BY <1>1, <1>2, <2>1
  <2>2. CASE UNCHANGED local
    BY <1>1, <2>2 DEF local
  <2>3. ASSUME NEW f \in Files, Encode(p, f, {}), UNCHANGED <<lock, op, delta>>
        PROVE  Source(q, k)
    <3> DEFINE t == [target |-> f, state |-> "dirty", keys |-> {}]
    <3>1. tmp' = [tmp EXCEPT ![p] = t] /\ t.keys \subseteq tmp[p].keys
      BY <2>3 DEF Encode
    <3>2. pc[p] # "idle"
      BY <1>6 DEF ReadNamespace, StatKeys
    <3> HIDE DEF t
    <3> QED
      BY <1>4, <2>3, <3>1, <3>2
  <2> QED
    BY <1>6, <2>1, <2>2, <2>3 DEF ReadNamespace, StatKeys, Return, Files
<1>7. ASSUME NEW p \in Procs, ReadFails(p) \/ Authenticate(p) \/ ListKeys(p)
                                 \/ IOError(p) \/ Crash(p)
      PROVE  Source(q, k)
  BY <1>1, <1>2, <1>7 DEF ReadFails, Authenticate, ListKeys, IOError, Crash, Return
<1>8. ASSUME NEW p \in Procs, IssueKey(p)
      PROVE  Source(q, k)
  <2> DEFINE label == Trim(op[p].arg)
  <2>1. CASE Return(p, "ErrDuplicateLabel")
    BY <1>1, <1>2, <2>1 DEF Return
  <2>2. ASSUME NEW id \in Ids,
               delta' = [delta EXCEPT ![p] = {NewKey(id, label)}],
               Encode(p, "keys.json", KeysIn(op[p].ns) \cup {NewKey(id, label)}),
               UNCHANGED <<lock, op>>
        PROVE  Source(q, k)
    <3> DEFINE key == NewKey(id, label)
    <3>1. CASE p # q
      BY <1>1, <2>2, <3>1 DEF TypeOK, Encode
    <3>2. CASE p = q
      <4>1. op[q] # Nil
        BY <1>8, <3>2 DEF IssueKey, Inv, Control
      <4>2. key.serial = serial + 1
        BY DEF NewKey, Key
      <4>3. delta'[q] = {key} /\ tmp'[q].keys = KeysIn(op[q].ns) \cup {key}
        BY <2>2, <3>2 DEF TypeOK, Encode
      <4> HIDE DEF key
      <4> QED
        BY <1>8, <2>2, <3>2, <4>1, <4>2, <4>3 DEF Source, InHand
    <3> QED
      BY <3>1, <3>2
  <2> QED
    BY <1>8, <2>1, <2>2 DEF IssueKey
<1>9. ASSUME NEW p \in Procs, RevokeKey(p)
      PROVE  Source(q, k)
  <2> DEFINE match == {j \in KeysIn(op[p].ns) : j.id = op[p].arg}
  <2>1. CASE Return(p, "ErrKeyMissing")
    BY <1>1, <1>2, <2>1 DEF Return
  <2>2. CASE /\ delta' = [delta EXCEPT ![p] = match]
             /\ Encode(p, "keys.json", KeysIn(op[p].ns) \ match)
             /\ UNCHANGED <<lock, op>>
    <3>1. match \subseteq KeysIn(op[p].ns)
      OBVIOUS
    <3> HIDE DEF match
    <3>2. CASE p # q
      BY <1>1, <2>2, <3>2 DEF TypeOK, Encode
    <3>3. CASE p = q
      <4>1. op[q] # Nil
        BY <1>9, <3>3 DEF RevokeKey, Inv, Control
      <4>2. delta'[q] = match /\ tmp'[q].keys = KeysIn(op[q].ns) \ match
        BY <2>2, <3>3 DEF TypeOK, Encode
      <4> QED
        BY <2>2, <3>1, <3>3, <4>1, <4>2 DEF Source, InHand
    <3> QED
      BY <3>2, <3>3
  <2> QED
    BY <1>9, <2>1, <2>2 DEF RevokeKey
<1>10. ASSUME NEW p \in Procs, SyncTmp(p)
       PROVE  Source(q, k)
  <2> DEFINE t == [tmp[p] EXCEPT !.state = "clean"]
  <2>1. tmp' = [tmp EXCEPT ![p] = t] /\ op' = op /\ delta' = delta /\ pc[p] # "idle"
    BY <1>10 DEF SyncTmp
  <2>2. t.keys = tmp[p].keys
    BY DEF TypeOK, Tmps
  <2> HIDE DEF t
  <2> QED
    BY <1>4, <2>1, <2>2
<1>11. ASSUME NEW p \in Procs, SyncDir(p)
       PROVE  Source(q, k)
  <2>1. CASE tmp' = [tmp EXCEPT ![p] = NoTmp] /\ UNCHANGED <<op, delta>>
    <3>1. NoTmp.keys \subseteq tmp[p].keys /\ pc[p] # "idle"
      BY <1>11 DEF NoTmp, SyncDir
    <3> QED
      BY <1>4, <2>1, <3>1
  <2> QED
    BY <1>1, <1>2, <1>11, <2>1 DEF SyncDir, Return
<1>12. ASSUME NEW m \in Namespaces,
              (\E f \in Files : WriteBack(m, f)) \/ WriteBackRoot(m)
       PROVE  Source(q, k)
  BY <1>1, <1>12 DEF WriteBack, WriteBackRoot, local
<1>13. CASE PowerLoss
  BY <1>13 DEF PowerLoss, InHand, NoTmp
<1>14. CASE UNCHANGED vars
  BY <1>1, <1>14 DEF vars
<1> QED
  BY <1>3, <1>5, <1>6, <1>7, <1>8, <1>9, <1>10, <1>11, <1>12, <1>13, <1>14
     DEF Next, Step

\* The files of a namespace hold nothing that was not its own.
LEMMA FileKeys ==
    ASSUME TypeOK, Inv, [Next]_vars, NEW n \in Namespaces,
           NEW k \in KeysIn(n)' \cup disk'[n]["keys.json"].keys
    PROVE  Has(n, k)
<1>1. Control /\ Writers /\ Whole /\ "keys.json" \in Files
  BY DEF Inv, Files
<1>2. CASE file' = file /\ disk' = disk
  BY <1>2 DEF Has, KeysIn
<1>3. ASSUME NEW p \in Procs, Rename(p)
      PROVE  Has(n, k)
  <2>1. disk' = disk /\ op[p] # Nil
    BY <1>1, <1>3 DEF Rename, Control
  <2>2. file'[n]["keys.json"] = IF n = op[p].ns /\ "keys.json" = tmp[p].target
                                  THEN [state |-> "clean", keys |-> tmp[p].keys]
                                  ELSE file[n]["keys.json"]
    BY <1>1, <1>3, RenameFile
  <2>3. KeysIn(n)' = KeysIn(n) \/ (op[p].ns = n /\ KeysIn(n)' = tmp[p].keys)
    BY <2>2 DEF KeysIn
  <2> QED
    BY <2>1, <2>3 DEF Has, InHand
<1>4. ASSUME NEW p \in Procs, SyncDir(p)
      PROVE  Has(n, k)
  <2>1. file' = file /\ (disk'[n] = file[n] \/ disk'[n] = disk[n])
    BY <1>1, <1>4, SyncDirDisk
  <2> QED
    BY <2>1 DEF Has, KeysIn
<1>5. ASSUME NEW m \in Namespaces, NEW f \in Files, WriteBack(m, f)
      PROVE  Has(n, k)
  <2>1. /\ file' = file
        /\ \/ disk'[n]["keys.json"] = file[n]["keys.json"]
           \/ disk'[n]["keys.json"] = disk[n]["keys.json"]
    BY <1>1, <1>5, WriteBackDisk
  <2> QED
    BY <2>1 DEF Has, KeysIn
<1>6. CASE PowerLoss
  <2>1. /\ \/ file'[n]["keys.json"] = disk[n]["keys.json"]
           \/ file'[n]["keys.json"].keys = {}
        /\ disk'[n]["keys.json"] = file'[n]["keys.json"]
    BY <1>1, <1>6, PowerLossFiles DEF Missing
  <2> QED
    BY <2>1 DEF Has, KeysIn
<1> QED
  BY <1>2, <1>3, <1>4, <1>5, <1>6, StoreSteps

\* One key is made at a time.
LEMMA OneIssue ==
    ASSUME TypeOK, NEW p \in Procs, NEW q \in Procs, IssueKey(p), IssueKey(q)
    PROVE  p = q
<1> SUFFICES ASSUME p # q PROVE FALSE
  OBVIOUS
<1>1. pc'[p] = pc[p]
  BY DEF TypeOK, IssueKey, Return, Forget, Encode, Goto
<1>2. pc'[p] # "readKeys"
  BY DEF TypeOK, IssueKey, Return, Forget, Encode, Goto
<1> QED
  BY <1>1, <1>2 DEF IssueKey

LEMMA ApartStep == TypeOK /\ Inv /\ Apart /\ [Next]_vars => Apart'
<1> SUFFICES ASSUME TypeOK, Inv, Apart, [Next]_vars PROVE Apart'
  OBVIOUS
<1>1. ASSUME NEW q \in Procs, op'[q] = Nil PROVE InHand(q)' = {}
  BY <1>1, CallKeys DEF Source
<1>2. ASSUME NEW n \in Namespaces, NEW k, Has(n, k)'
      PROVE  \/ Has(n, k)
             \/ \E q \in Procs : op[q].ns = n /\ IssueKey(q) /\ k.serial = serial + 1
  <2>1. CASE k \in KeysIn(n)' \cup disk'[n]["keys.json"].keys
    BY <2>1, FileKeys
  <2>2. ASSUME NEW q \in Procs, op'[q] # Nil, op'[q].ns = n, k \in InHand(q)'
        PROVE  \/ Has(n, k)
               \/ op[q].ns = n /\ IssueKey(q) /\ k.serial = serial + 1
    <3>1. Source(q, k)
      BY <2>2, CallKeys
    <3> QED
      BY <2>2, <3>1 DEF Source, Has
  <2> QED
    BY <1>2, <2>1, <2>2 DEF Has
<1>3. ASSUME NEW n \in Namespaces, NEW k, Has(n, k)
      PROVE  k.serial # serial + 1
  <2>1. k.serial <= serial
    BY <1>3 DEF Has, Inv, Fresh, InHand
  <2>2. k \in Keys
    <3>1. KeysIn(n) \subseteq Keys /\ disk[n]["keys.json"].keys \subseteq Keys
      BY DEF TypeOK, Contents, Files, KeysIn
    <3>2. \A q \in Procs : InHand(q) \subseteq Keys
      BY DEF TypeOK, Tmps, InHand
    <3> QED
      BY <1>3, <3>1, <3>2 DEF Has
  <2>3. PICK id \in Ids, label \in Labels, s \in Serials : k = Key(id, label, s)
    BY <2>2 DEF Keys
  <2>4. k.serial \in Nat /\ serial \in Nat
    BY <2>3, SerialAssumption DEF Key, Serials, TypeOK
  <2> QED
    BY <2>1, <2>4
<1>4. ASSUME NEW n \in Namespaces, NEW m \in Namespaces, n # m, NEW k \in Keys,
             Has(n, k)', Has(m, k)'
      PROVE  FALSE
  <2>1. CASE Has(n, k) /\ Has(m, k)
    BY <1>4, <2>1 DEF Apart
  <2>2. CASE Has(n, k) /\ ~Has(m, k)
    BY <1>2, <1>3, <1>4, <2>2
  <2>3. CASE ~Has(n, k) /\ Has(m, k)
    BY <1>2, <1>3, <1>4, <2>3
  <2>4. CASE ~Has(n, k) /\ ~Has(m, k)
    <3>1. PICK q \in Procs : op[q].ns = n /\ IssueKey(q)
      BY <1>2, <1>4, <2>4
    <3>2. PICK p \in Procs : op[p].ns = m /\ IssueKey(p)
      BY <1>2, <1>4, <2>4
    <3> QED
      BY <1>4, <3>1, <3>2, OneIssue
  <2> QED
    BY <2>1, <2>2, <2>3, <2>4
<1>5. \A q \in Procs : op'[q] = Nil => InHand(q)' = {}
  BY <1>1
<1>6. \A n, m \in Namespaces : n # m => \A k \in Keys : ~(Has(n, k)' /\ Has(m, k)')
  BY <1>4
<1> QED
  BY <1>5, <1>6 DEF Apart

LEMMA ApartAlways == Spec => [](TypeOK /\ Inv /\ Apart)
<1>1. Init => Apart
  BY DEF Init, Apart, Has, InHand, NoTmp, Missing, Empty, KeysIn, Files
<1> QED
  BY <1>1, ApartStep, InvInit, InvStep, PTL DEF Spec

-----------------------------------------------------------------------------
(* Authenticate. *)

\* Only Authenticate accepts a token.
LEMMA AcceptedBy ==
    ASSUME TypeOK, Inv, Next, NEW p \in Procs,
           op[p] # Nil, op[p].kind = "auth", ret' = [proc |-> p, err |-> "nil"]
    PROVE  Authenticate(p)
<1>1. ret' # Nil
  BY NilAssumption DEF Returns, Errors
<1>2. pc[p] \in {"stat", "readKeys"}
  BY DEF Inv, Control, Reach
<1>3. ASSUME NEW q \in Procs, NEW err, Return(q, err)
      PROVE  q = p /\ err = "nil"
  BY <1>3 DEF Return
<1>4. ASSUME NEW q \in Procs, NEW call \in Workload, Begin(q, call) \/ Refuse(q, call)
      PROVE  FALSE
  BY <1>1, <1>4 DEF Begin, Refuse, Goto
<1>5. ASSUME NEW q \in Procs, Lock(q) \/ SyncTmp(q) \/ Rename(q) \/ Crash(q)
      PROVE  FALSE
  BY <1>1, <1>5 DEF Lock, SyncTmp, Rename, Crash, Goto
<1>6. ASSUME NEW q \in Procs, Stat(q) \/ IOError(q) \/ ReadFails(q)
      PROVE  FALSE
  BY <1>1, <1>3, <1>6 DEF Stat, IOError, ReadFails, Goto, MissingError
<1>7. ASSUME NEW q \in Procs, ReadNamespace(q) \/ StatKeys(q) \/ SyncDir(q)
      PROVE  FALSE
  BY <1>1, <1>2, <1>3, <1>7 DEF ReadNamespace, StatKeys, SyncDir, Goto, Encode
<1>8. ASSUME NEW q \in Procs, IssueKey(q) \/ RevokeKey(q) \/ ListKeys(q)
      PROVE  FALSE
  BY <1>1, <1>3, <1>8 DEF IssueKey, RevokeKey, ListKeys, Goto, Encode
<1>9. ASSUME NEW n \in Namespaces,
             (\E f \in Files : WriteBack(n, f)) \/ WriteBackRoot(n) \/ PowerLoss
      PROVE  FALSE
  BY <1>1, <1>9 DEF WriteBack, WriteBackRoot, PowerLoss
<1>10. CASE PowerLoss
  BY <1>1, <1>10 DEF PowerLoss
<1>11. ASSUME NEW q \in Procs, Authenticate(q)
       PROVE  q = p
  BY <1>3, <1>11 DEF Authenticate
<1> QED
  BY <1>4, <1>5, <1>6, <1>7, <1>8, <1>9, <1>10, <1>11 DEF Next, Step

\* A token that is accepted belongs to a registered key of that namespace and
\* of no other, and to none that was reported revoked.
THEOREM AcceptedSafe == Spec => AcceptedKeyIsLive
<1> DEFINE Live(p) ==
      LET n == op[p].ns IN
      \E k \in KeysIn(n) :
        /\ k.digest = Digest(op[p].arg)
        /\ k \notin revoked[n]
        /\ \A m \in Namespaces \ {n} : k \notin KeysIn(m)
<1>1. ASSUME TypeOK, Inv, Apart, Next, NEW p \in Procs,
             op[p] # Nil, op[p].kind = "auth", ret' = [proc |-> p, err |-> "nil"]
      PROVE  Live(p)
  <2> DEFINE n == op[p].ns
  <2>1. Authenticate(p)
    BY <1>1, AcceptedBy
  <2>2. n \in Namespaces
    BY <1>1 DEF Inv, Control
  <2>3. Accepts(KeysIn(n), op[p].arg)
    BY <1>1, <2>1 DEF Authenticate, Return
  <2>4. PICK k \in KeysIn(n) : k.digest = Digest(op[p].arg)
    BY <2>3 DEF Accepts
  <2>5. k \notin revoked[n]
    BY <1>1, <2>2, <2>4 DEF Inv, RevokedKeysGone
  <2>6. k \in Keys
    BY <1>1, <2>2, <2>4 DEF TypeOK, Contents, Files, KeysIn
  <2>7. ASSUME NEW m \in Namespaces \ {n}
        PROVE  k \notin KeysIn(m)
    BY <1>1, <2>2, <2>4, <2>6, <2>7 DEF Apart, Has
  <2> QED
    BY <2>4, <2>5, <2>7
<1>2. TypeOK /\ Inv /\ Apart /\ [Next]_vars =>
        [\A p \in Procs :
           (op[p] # Nil /\ op[p].kind = "auth" /\ ret' = [proc |-> p, err |-> "nil"])
             => Live(p)]_vars
  <2> HIDE DEF Live
  <2> QED
    BY <1>1
<1> QED
  BY <1>2, ApartAlways, PTL DEF Spec, AcceptedKeyIsLive

\* No step of Authenticate refuses the token of a key the store owes, when it is
\* the first of the file with its id.
THEOREM GrantedAccepted == Spec => GrantedKeysAccepted
<1> DEFINE Granted(p) ==
      \A k \in Kept[op[p].ns] :
        (/\ k.digest = Digest(op[p].arg)
         /\ \A j \in KeysIn(op[p].ns) : j.id = k.id => k.serial <= j.serial
         /\ Stat(p) \/ ReadFails(p) \/ Authenticate(p))
           => ret'.err = "nil"
<1>1. ASSUME TypeOK, Inv, NEW p \in Procs, op[p] # Nil, op[p].kind = "auth", ret' # Nil,
             NEW k \in Kept[op[p].ns], k.digest = Digest(op[p].arg),
             \A j \in KeysIn(op[p].ns) : j.id = k.id => k.serial <= j.serial,
             Stat(p) \/ ReadFails(p) \/ Authenticate(p)
      PROVE  ret'.err = "nil"
  <2> DEFINE n == op[p].ns
  <2>1. n \in Namespaces
    BY <1>1 DEF Inv, Control
  <2>2. k \in KeysIn(n) /\ k \in Keys /\ \A f \in Files : file[n][f].state = "clean"
    <3>1. Kept[n] \subseteq granted[n] /\ granted[n] \subseteq Keys
      BY <1>1, <2>1 DEF TypeOK, Kept
    <3>2. /\ Kept[n] \subseteq KeysIn(n)
          /\ \A f \in Files : file[n][f].state = "clean"
      BY <1>1, <2>1 DEF Inv, GrantedKeysKept, KeysIn
    <3> QED
      BY <1>1, <3>1, <3>2
  <2>3. PICK id \in Ids, label \in Labels, s \in Serials : k = Key(id, label, s)
    BY <2>2 DEF Keys
  <2>4. op[p].arg = [id |-> id, secret |-> s] /\ s \in Nat
    BY <1>1, <2>3, SerialAssumption DEF Key, Digest, Serials
  <2>5. op[p].arg # Nil
    BY <2>4, NilAssumption DEF Tokens
  <2>6. ~Stat(p)
    BY <1>1, <2>2, <2>5 DEF Stat, Found, Files, Goto
  <2>7. ~ReadFails(p)
    BY <2>2 DEF ReadFails, Readable, Files
  <2>8. Accepts(KeysIn(n), op[p].arg)
    <3>1. k.id = id /\ k.serial = s
      BY <2>3 DEF Key
    <3>2. op[p].arg.id = id
      BY <2>4
    <3>3. \A j \in KeysIn(n) : j.id = op[p].arg.id => k.serial <= j.serial
      BY <1>1, <2>4, <3>1, <3>2
    <3> QED
      BY <1>1, <2>2, <3>1, <3>2, <3>3 DEF Accepts
  <2> QED
    BY <1>1, <2>6, <2>7, <2>8 DEF Authenticate, Return
<1>2. TypeOK /\ Inv /\ [Next]_vars =>
        [\A p \in Procs :
           (op[p] # Nil /\ op[p].kind = "auth" /\ ret' # Nil) => Granted(p)]_vars
  BY <1>1
<1> QED
  BY <1>2, Invariance, PTL DEF Spec, GrantedKeysAccepted

-----------------------------------------------------------------------------
(* Init. *)

\* Init succeeds when it finds keys.json, or has written it.
LEMMA InitDone ==
    ASSUME TypeOK, Inv, Next, NEW p \in Procs,
           op[p] # Nil, op[p].kind = "init", ret' = [proc |-> p, err |-> "nil"]
    PROVE  \/ StatKeys(p) /\ Found(op[p].ns, "keys.json")
           \/ SyncDir(p) /\ tmp[p].target = "keys.json"
<1>1. ret' # Nil
  BY NilAssumption DEF Returns, Errors
<1>2. pc[p] \notin {"idle", "stat", "readKeys"}
  BY DEF Inv, Control, Reach
<1>3. ASSUME NEW q \in Procs, NEW err, Return(q, err)
      PROVE  q = p /\ err = "nil"
  BY <1>3 DEF Return
<1>4. ASSUME NEW q \in Procs, NEW call \in Workload, Begin(q, call) \/ Refuse(q, call)
      PROVE  FALSE
  BY <1>1, <1>2, <1>4 DEF Begin, Refuse, Goto
<1>5. ASSUME NEW q \in Procs, Lock(q) \/ SyncTmp(q) \/ Rename(q) \/ Crash(q)
      PROVE  FALSE
  BY <1>1, <1>5 DEF Lock, SyncTmp, Rename, Crash, Goto
<1>6. ASSUME NEW q \in Procs, Stat(q) \/ ReadFails(q) \/ IOError(q) \/ ReadNamespace(q)
      PROVE  FALSE
  BY <1>1, <1>2, <1>3, <1>6
     DEF Stat, ReadFails, IOError, ReadNamespace, Goto, Encode, MissingError
<1>7. ASSUME NEW q \in Procs,
             IssueKey(q) \/ RevokeKey(q) \/ Authenticate(q) \/ ListKeys(q)
      PROVE  FALSE
  BY <1>1, <1>2, <1>3, <1>7
     DEF IssueKey, RevokeKey, Authenticate, ListKeys, Goto, Encode
<1>8. ASSUME NEW n \in Namespaces, (\E f \in Files : WriteBack(n, f)) \/ WriteBackRoot(n)
      PROVE  FALSE
  BY <1>1, <1>8 DEF WriteBack, WriteBackRoot
<1>9. ~PowerLoss
  BY <1>1 DEF PowerLoss
<1>10. ASSUME NEW q \in Procs, StatKeys(q)
       PROVE  StatKeys(p) /\ Found(op[p].ns, "keys.json")
  BY <1>1, <1>3, <1>10 DEF StatKeys, Goto, Encode
<1>11. ASSUME NEW q \in Procs, SyncDir(q)
       PROVE  SyncDir(p) /\ tmp[p].target = "keys.json"
  <2>1. q = p /\ tmp[q].target # "namespace.json"
    BY <1>1, <1>3, <1>11 DEF SyncDir, Goto
  <2>2. tmp[q].target \in Files
    BY <1>11 DEF SyncDir, Inv, Control
  <2> QED
    BY <1>11, <2>1, <2>2 DEF Files
<1> QED
  BY <1>4, <1>5, <1>6, <1>7, <1>8, <1>9, <1>10, <1>11 DEF Next, Step

\* An Init that reports success leaves both files of its namespace in place and
\* whole, whatever failures and calls came before it or run beside it.
THEOREM InitSafe == Spec => InitCompletes
<1> DEFINE Complete(p) == \A f \in Files : file'[op[p].ns][f].state = "clean"
<1>1. ASSUME TypeOK, Inv, Next, NEW p \in Procs,
             op[p] # Nil, op[p].kind = "init", ret' = [proc |-> p, err |-> "nil"]
      PROVE  Complete(p)
  <2> DEFINE n == op[p].ns
  <2>1. n \in Namespaces
    BY <1>1 DEF Inv, Control
  <2>2. file' = file
    BY <1>1, InitDone DEF StatKeys, SyncDir, store
  <2>3. Found(n, "namespace.json")
    BY <1>1, InitDone DEF StatKeys, SyncDir, Inv, PastStat, AtKeys
  <2>4. Found(n, "keys.json")
    BY <1>1, <2>1, InitDone DEF SyncDir, Inv, Writers, WriterOf, InitWriter
  <2>5. \A f \in Files : file[n][f].state \in {"none", "clean"}
    BY <1>1, <2>1 DEF Inv, Whole, FilesWhole
  <2> QED
    BY <2>2, <2>3, <2>4, <2>5 DEF Found, Files
<1>2. TypeOK /\ Inv /\ [Next]_vars =>
        [\A p \in Procs :
           (op[p] # Nil /\ op[p].kind = "init" /\ ret' = [proc |-> p, err |-> "nil"])
             => Complete(p)]_vars
  <2> HIDE DEF Complete
  <2> QED
    BY <1>1
<1> QED
  BY <1>2, Invariance, PTL DEF Spec, InitCompletes

=============================================================================
