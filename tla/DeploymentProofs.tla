-------------------------- MODULE DeploymentProofs --------------------------
(***************************************************************************)
(* The deployment implements both of its parts: the key store, and the     *)
(* HTTP server over the promises of the key store, so that what is proved  *)
(* of either holds of the two together.                                    *)
(***************************************************************************)
EXTENDS DeploymentInv, KeyStoreRefinement, KeyStoreAuthProofs

-----------------------------------------------------------------------------
(* The store. *)

\* A step of the deployment is a step of the store or leaves it alone.
LEMMA StoreStep == [SystemNext]_<<vars, serverVars>> => [Next]_vars
<1> SUFFICES ASSUME [SystemNext]_<<vars, serverVars>>
             PROVE  Next \/ UNCHANGED vars
  OBVIOUS
<1>1. ASSUME NEW r \in Requests, NEW n \in Namespaces, NEW token \in Presentable,
             Arrive(r, n, token)
      PROVE  Next
  <2>1. Op("auth", n, token) \in Workload
    BY RequestsAuthenticate DEF Presentable
  <2>2. r \in Procs
    BY RequestsAreCallers
  <2> QED
    BY <1>1, <2>1, <2>2 DEF Arrive, Next
<1>2. ASSUME NEW r \in Requests, Authenticating(r) \/ Abandoned(r)
      PROVE  Next
  BY <1>2, RequestsAreCallers DEF Authenticating, Abandoned, Next
<1>3. ASSUME NEW r \in Requests, Serving(r)
      PROVE  UNCHANGED vars
  BY <1>3 DEF Serving
<1>4. ASSUME NEW p \in Procs, Administer(p)
      PROVE  Next
  BY <1>4 DEF Administer, Next
<1>5. CASE Process \/ Restart
  BY <1>5 DEF Process, Restart
<1>6. CASE Kernel
  BY <1>6 DEF Kernel, Next
<1>7. CASE Outage
  BY <1>7 DEF Outage, Next
<1>8. CASE UNCHANGED <<vars, serverVars>>
  BY <1>8
<1> QED
  BY <1>1, <1>2, <1>3, <1>4, <1>5, <1>6, <1>7, <1>8 DEF SystemNext

\* The server is one of the callers the key store was verified for: every
\* theorem about the store holds with the server running on it.
THEOREM StoreImplemented == SystemSpec => Spec
<1>1. SystemInit => Init
  BY DEF SystemInit
<1> QED
  BY <1>1, StoreStep, PTL DEF SystemSpec, Spec

-----------------------------------------------------------------------------
(* Secrets. *)

\* No key comes to be shown, none comes to be hidden.
ShownKept == \A n \in Namespaces : KeysIn(n)' = KeysIn(n) /\ Shown(n)' = Shown(n)

LEMMA ShownUntouched ==
    file' = file /\ granted' = granted /\ removed' = removed => ShownKept
  BY DEF ShownKept, Shown, KeysIn

\* The key that an IssueKey hands out is in the file.
LEMMA SyncDirShows ==
    ASSUME TypeOK, Inv, NEW p \in Procs, SyncDir(p)
    PROVE  ShownKept
<1>1. file' = file
  BY DEF SyncDir
<1>2. CASE UNCHANGED history
  BY <1>1, <1>2, ShownUntouched DEF history
<1>3. CASE Promise(p) /\ tmp[p].target # "namespace.json"
  <2> SUFFICES ASSUME NEW n \in Namespaces
               PROVE  Shown(n)' = Shown(n)
    BY <1>1 DEF ShownKept, KeysIn
  <2>1. pc[p] = "syncDir" /\ op[p] # Nil
    BY DEF SyncDir, Inv, Control
  <2>2. op[p].ns = n => WriterOf(n, p)
    BY <1>3, <2>1 DEF WriterOf, Inv, Control, Files
  <2>3. op[p].ns = n /\ op[p].kind = "issue" => delta[p] \subseteq KeysIn(n)
    BY <2>1, <2>2 DEF Inv, Writers, IssueWriter
  <2>4. granted'[n] = IF op[p].ns = n /\ op[p].kind = "issue" THEN granted[n] \cup delta[p]
                      ELSE granted[n]
    BY <1>3 DEF TypeOK, Promise
  <2>5. removed' = removed
    BY <1>3 DEF Promise
  <2> QED
    BY <1>1, <2>3, <2>4, <2>5 DEF Shown, KeysIn
<1> QED
  BY <1>2, <1>3 DEF SyncDir

\* What a step shows and hides: only a rename changes what the files show or
\* hide of the keys, but for power loss.
LEMMA ShownSteps ==
    ASSUME TypeOK, Inv, [Next]_vars
    PROVE  ShownKept \/ (\E p \in Procs : Rename(p)) \/ PowerLoss
<1>1. ASSUME NEW n \in Namespaces, NEW f \in Files, WriteBack(n, f)
      PROVE  ShownKept
  BY <1>1, ShownUntouched DEF WriteBack, history
<1> QED
  BY <1>1, SyncDirShows, ShownUntouched, StoreSteps

\* A rename hides no key that was shown, and shows none that was removed.
LEMMA RenameShows ==
    ASSUME TypeOK, Inv, Traced, NEW p \in Procs, Rename(p), NEW n \in Namespaces
    PROVE  /\ Shown(n) \subseteq Shown(n)'
           /\ \A k \in Shown(n)' : k \in Shown(n) \/ (Pending(n, p) /\ k \in delta[p])
           /\ \A k \in KeysIn(n)' : k \in KeysIn(n) \/ k \notin Shown(n)
<1>1. Control /\ Writers /\ pc[p] = "rename" /\ op[p] # Nil
  BY DEF Inv, Control, Rename
<1>2. removed'[n] = IF n = op[p].ns /\ op[p].kind = "revoke" THEN removed[n] \cup delta[p]
                    ELSE removed[n]
  BY DEF TypeOK, Rename
<1>3. op[p].kind # "init" /\ op[p].ns = n => WriterOf(n, p)
  BY <1>1 DEF WriterOf, Control
<1>4. op[p].kind = "issue" /\ op[p].ns = n => IssueTrace(n, p)
  BY <1>3 DEF Traced
<1>5. op[p].kind = "revoke" /\ op[p].ns = n => delta[p] \subseteq KeysIn(n)
  BY <1>1, <1>3 DEF Traced, RevokeTrace
<1>6. ~Found(n, "keys.json") => KeysIn(n) = {}
  BY DEF Inv, Whole, Found, KeysIn
<1>7. \/ KeysIn(n)' = KeysIn(n)
      \/ /\ op[p].ns = n
         /\ KeysIn(n)' = tmp[p].keys
         /\ \/ op[p].kind = "init" /\ ~Found(n, "keys.json") /\ tmp[p].keys = {}
            \/ op[p].kind = "issue" /\ tmp[p].keys = KeysIn(n) \cup delta[p]
            \/ op[p].kind = "revoke" /\ tmp[p].keys = KeysIn(n) \ delta[p]
  BY <1>1, RenameKeys
<1>8. op[p].kind = "issue" /\ op[p].ns = n => Pending(n, p)
  BY <1>1 DEF Pending
<1> DEFINE keys == KeysIn(n)
<1>9. /\ Shown(n) = keys \cup removed[n] \cup granted[n]
      /\ Shown(n)' = keys' \cup removed'[n] \cup granted[n]
  BY DEF Shown, Rename
<1>10. \A k \in delta[p] : op[p].kind = "issue" /\ op[p].ns = n => k \notin Shown(n)
  <2>1. granted[n] \ released[n] \subseteq keys
    BY DEF Inv, GrantedKeysKept, Kept, KeysIn
  <2> QED
    BY <1>1, <1>4, <1>9, <2>1 DEF IssueTrace
<1> HIDE DEF keys
<1>11. CASE keys' = keys
  <2>1. removed[n] \subseteq removed'[n] /\ removed'[n] \subseteq removed[n] \cup keys
    BY <1>2, <1>5 DEF keys
  <2> QED
    BY <1>9, <1>11, <2>1 DEF keys
<1>12. CASE op[p].ns = n /\ op[p].kind = "init" /\ keys = {} /\ keys' = {}
  BY <1>2, <1>9, <1>12 DEF keys
<1>13. CASE op[p].ns = n /\ op[p].kind = "issue" /\ keys' = keys \cup delta[p]
  BY <1>2, <1>8, <1>9, <1>10, <1>13 DEF keys
<1>14. CASE op[p].ns = n /\ op[p].kind = "revoke" /\ keys' = keys \ delta[p]
  BY <1>2, <1>5, <1>9, <1>14 DEF keys
<1> QED
  BY <1>6, <1>7, <1>11, <1>12, <1>13, <1>14 DEF keys

\* A step that loses no power hides no key that was shown, and shows none that
\* was removed.
LEMMA ShownStep ==
    ASSUME TypeOK, Inv, Traced,
           ShownKept \/ (\E p \in Procs : Rename(p)),
           NEW n \in Namespaces
    PROVE  /\ Shown(n) \subseteq Shown(n)'
           /\ \A k \in KeysIn(n)' : k \in KeysIn(n) \/ k \notin Shown(n)
<1>1. CASE ShownKept
  BY <1>1 DEF ShownKept, Shown
<1>2. ASSUME NEW p \in Procs, Rename(p)
      PROVE  /\ Shown(n) \subseteq Shown(n)'
             /\ \A k \in KeysIn(n)' : k \in KeysIn(n) \/ k \notin Shown(n)
  BY <1>2, RenameShows
<1> QED
  BY <1>1, <1>2

\* A call that is about to show a key was, or has just drawn it.
LEMMA PendingStep ==
    ASSUME TypeOK, Inv, [Next]_vars, NEW n \in Namespaces, NEW q \in Procs, Pending(n, q)'
    PROVE  \/ Pending(n, q) /\ delta'[q] = delta[q]
           \/ IssueKey(q) /\ op[q].ns = n /\ \E k : delta'[q] = {k} /\ k.serial = serial + 1
<1> DEFINE Same == op'[q] = op[q] /\ pc'[q] = pc[q] /\ delta'[q] = delta[q]
<1> USE DEF TypeOK
<1>1. CASE Same
  BY <1>1 DEF Pending
<1>2. ASSUME NEW p \in Procs, Forget(p)
      PROVE  p # q /\ Same
  BY <1>2 DEF Pending, Forget
<1>3. ASSUME NEW p \in Procs, NEW c \in Workload, Begin(p, c) \/ Refuse(p, c)
      PROVE  Same
  BY <1>3 DEF Pending, Begin, Refuse, Goto, local
<1>4. ASSUME NEW p \in Procs, Lock(p) \/ Stat(p)
      PROVE  Same
  BY <1>2, <1>4 DEF Pending, Lock, Stat, Return, Goto, local
<1>5. ASSUME NEW p \in Procs, ReadNamespace(p) \/ StatKeys(p)
      PROVE  Same
  <2>1. op[p].kind = "init"
    BY <1>5 DEF ReadNamespace, StatKeys, Inv, Control, Reach
  <2> QED
    BY <1>2, <1>5, <2>1 DEF Pending, ReadNamespace, StatKeys, Return, Encode, Goto, local
<1>6. ASSUME NEW p \in Procs, ReadFails(p) \/ Authenticate(p) \/ ListKeys(p)
                                 \/ IOError(p) \/ Crash(p)
      PROVE  Same
  BY <1>2, <1>6 DEF ReadFails, Authenticate, ListKeys, IOError, Crash, Return
<1>7. ASSUME NEW p \in Procs, IssueKey(p)
      PROVE  \/ Same
             \/ IssueKey(q) /\ op[q].ns = n /\ \E k : delta'[q] = {k} /\ k.serial = serial + 1
  <2> DEFINE label == Trim(op[p].arg)
  <2>1. CASE Return(p, "ErrDuplicateLabel")
    BY <1>2, <2>1 DEF Return
  <2>2. ASSUME NEW id \in Ids,
               delta' = [delta EXCEPT ![p] = {NewKey(id, label)}],
               Encode(p, "keys.json", KeysIn(op[p].ns) \cup {NewKey(id, label)}),
               UNCHANGED <<lock, op>>
        PROVE  \/ Same
               \/ IssueKey(q) /\ op[q].ns = n
                    /\ \E k : delta'[q] = {k} /\ k.serial = serial + 1
    <3> DEFINE key == NewKey(id, label)
    <3>1. CASE p # q
      BY <2>2, <3>1 DEF Encode, Goto
    <3>2. CASE p = q
      <4>1. key.serial = serial + 1
        BY DEF NewKey, Key
      <4>2. delta'[q] = {key} /\ op'[q] = op[q]
        BY <2>2, <3>2
      <4> HIDE DEF key
      <4> QED
        BY <1>7, <3>2, <4>1, <4>2 DEF Pending
    <3> QED
      BY <3>1, <3>2
  <2> QED
    BY <1>7, <2>1, <2>2 DEF IssueKey
<1>8. ASSUME NEW p \in Procs, RevokeKey(p)
      PROVE  Same
  BY <1>2, <1>8 DEF Pending, RevokeKey, Return, Encode, Goto
<1>9. ASSUME NEW p \in Procs, SyncTmp(p)
      PROVE  Pending(n, q) /\ delta'[q] = delta[q]
  BY <1>9 DEF Pending, SyncTmp, Goto
<1>10. ASSUME NEW p \in Procs, Rename(p)
       PROVE  Same
  BY <1>10 DEF Pending, Rename, Goto, local
<1>11. ASSUME NEW p \in Procs, SyncDir(p)
       PROVE  Same
  BY <1>2, <1>11 DEF Pending, SyncDir, Return, Goto
<1>12. ASSUME NEW m \in Namespaces, (\E f \in Files : WriteBack(m, f)) \/ WriteBackRoot(m)
       PROVE  Same
  BY <1>12 DEF WriteBack, WriteBackRoot, local
<1>13. CASE PowerLoss
  BY <1>13 DEF PowerLoss, Pending
<1>14. CASE UNCHANGED vars
  BY <1>1, <1>14 DEF vars
<1> QED
  BY <1>1, <1>3, <1>4, <1>5, <1>6, <1>7, <1>8, <1>9, <1>10, <1>11, <1>12, <1>13, <1>14
     DEF Next, Step

\* A key that is drawn was before, but for the one an IssueKey has just made.
LEMMA DrawnStep ==
    ASSUME TypeOK, Inv, Traced, Secrets, [Next]_vars, NEW n \in Namespaces,
           NEW k \in Drawn(n)'
    PROVE  \/ k \in Drawn(n)
           \/ \E q \in Procs : /\ IssueKey(q) /\ op[q].ns = n
                               /\ delta'[q] = {k} /\ k.serial = serial + 1
<1>1. CASE k \in Shown(n)'
  <2>1. CASE ShownKept
    BY <1>1, <2>1 DEF Drawn, ShownKept
  <2>2. ASSUME NEW p \in Procs, Rename(p)
        PROVE  k \in Drawn(n)
    <3>1. k \in Shown(n) \/ (Pending(n, p) /\ k \in delta[p])
      BY <1>1, <2>2, RenameShows
    <3> QED
      BY <3>1 DEF Drawn
  <2>3. CASE PowerLoss
    <3>1. KeysIn(n)' \subseteq disk[n]["keys.json"].keys
      BY <2>3, PowerLossFiles DEF Inv, KeysIn, Files, Missing
    <3>2. disk[n]["keys.json"].keys \subseteq KeysIn(n) \cup removed[n]
      BY DEF Traced
    <3>3. removed'[n] \subseteq removed[n] /\ granted' = granted
      BY <2>3 DEF PowerLoss, Secrets
    <3> QED
      BY <1>1, <3>1, <3>2, <3>3 DEF Drawn, Shown
  <2> QED
    BY <2>1, <2>2, <2>3, ShownSteps
<1>2. ASSUME NEW q \in Procs, Pending(n, q)', k \in delta'[q]
      PROVE  \/ k \in Drawn(n)
             \/ IssueKey(q) /\ op[q].ns = n /\ delta'[q] = {k} /\ k.serial = serial + 1
  <2>1. \/ Pending(n, q) /\ delta'[q] = delta[q]
        \/ IssueKey(q) /\ op[q].ns = n /\ \E j : delta'[q] = {j} /\ j.serial = serial + 1
    BY <1>2, PendingStep
  <2>2. CASE Pending(n, q) /\ delta'[q] = delta[q]
    BY <1>2, <2>2 DEF Drawn
  <2>3. CASE IssueKey(q) /\ op[q].ns = n /\ \E j : delta'[q] = {j} /\ j.serial = serial + 1
    BY <1>2, <2>3
  <2> QED
    BY <2>1, <2>2, <2>3
<1>3. k \in Shown(n)' \/ \E q \in Procs : Pending(n, q)' /\ k \in delta'[q]
  BY DEF Drawn
<1> QED
  BY <1>1, <1>2, <1>3

\* A drawn key has a serial that was given out.
LEMMA DrawnSerials ==
    ASSUME TypeOK, Inv, Traced, NEW n \in Namespaces, NEW k \in Drawn(n)
    PROVE  k \in Keys /\ k.serial # serial + 1
<1>1. k.serial <= serial
  BY DEF Drawn, Shown, Inv, Fresh, Traced
<1>2. k \in Keys
  <2>1. KeysIn(n) \subseteq Keys /\ removed[n] \subseteq Keys /\ granted[n] \subseteq Keys
    BY DEF TypeOK, Contents, Files, KeysIn
  <2>2. \A q \in Procs : delta[q] \subseteq Keys
    BY DEF TypeOK
  <2> QED
    BY <2>1, <2>2 DEF Drawn, Shown
<1>3. PICK id \in Ids, label \in Labels, s \in Serials : k = Key(id, label, s)
  BY <1>2 DEF Keys
<1>4. k.serial \in Nat /\ serial \in Nat
  BY <1>3, SerialAssumption DEF Key, Serials, TypeOK
<1> QED
  BY <1>1, <1>2, <1>4

\* Only keys that were removed are reported revoked.
LEMMA RevokedShown ==
    ASSUME TypeOK, Inv, Traced, Secrets, [Next]_vars, NEW n \in Namespaces
    PROVE  revoked'[n] \subseteq removed'[n]
<1>1. revoked[n] \subseteq removed[n]
  BY DEF Secrets
<1>2. ASSUME NEW p \in Procs, Rename(p)
      PROVE  revoked' = revoked /\ removed[n] \subseteq removed'[n]
  BY <1>2 DEF TypeOK, Rename
<1>3. ASSUME NEW p \in Procs, SyncDir(p)
      PROVE  revoked'[n] \subseteq removed'[n]
  <2>1. CASE UNCHANGED history
    BY <1>1, <2>1 DEF history
  <2>2. CASE Promise(p) /\ tmp[p].target # "namespace.json"
    <3>1. removed' = removed
      BY <2>2 DEF Promise
    <3>2. revoked'[n] = IF op[p].ns = n /\ op[p].kind = "revoke" THEN revoked[n] \cup delta[p]
                        ELSE revoked[n]
      BY <2>2 DEF TypeOK, Promise
    <3>3. pc[p] = "syncDir" /\ op[p] # Nil
      BY <1>3 DEF SyncDir, Inv, Control
    <3>4. op[p].ns = n => WriterOf(n, p)
      BY <2>2, <3>3 DEF WriterOf, Inv, Control, Files
    <3>5. op[p].ns = n /\ op[p].kind = "revoke" => delta[p] \subseteq removed[n]
      BY <3>3, <3>4 DEF Traced, RevokeTrace
    <3> QED
      BY <1>1, <3>1, <3>2, <3>5
  <2> QED
    BY <1>3, <2>1, <2>2 DEF SyncDir
<1>4. ASSUME NEW m \in Namespaces, NEW f \in Files, WriteBack(m, f)
      PROVE  revoked' = revoked /\ removed' = removed
  BY <1>4 DEF WriteBack, history
<1>5. CASE PowerLoss
  BY <1>5 DEF PowerLoss
<1>6. CASE removed' = removed /\ revoked' = revoked
  BY <1>1, <1>6
<1> QED
  BY <1>1, <1>2, <1>3, <1>4, <1>5, <1>6, StoreSteps

\* No two keys ever drawn have one secret.
LEMMA SecretsStep == TypeOK /\ Inv /\ Traced /\ Secrets /\ [Next]_vars => Secrets'
<1> SUFFICES ASSUME TypeOK, Inv, Traced, Secrets, [Next]_vars
             PROVE  Secrets'
  OBVIOUS
<1>1. ASSUME NEW n \in Namespaces, NEW m \in Namespaces,
             NEW k \in Drawn(n)', NEW j \in Drawn(m)', k.serial = j.serial
      PROVE  n = m /\ k = j
  <2>1. \/ k \in Drawn(n)
        \/ \E q \in Procs : /\ IssueKey(q) /\ op[q].ns = n
                            /\ delta'[q] = {k} /\ k.serial = serial + 1
    BY DrawnStep
  <2>2. \/ j \in Drawn(m)
        \/ \E q \in Procs : /\ IssueKey(q) /\ op[q].ns = m
                            /\ delta'[q] = {j} /\ j.serial = serial + 1
    BY DrawnStep
  <2>3. k \in Drawn(n) => k.serial # serial + 1
    BY DrawnSerials
  <2>4. j \in Drawn(m) => j.serial # serial + 1
    BY DrawnSerials
  <2>5. CASE k \in Drawn(n) /\ j \in Drawn(m)
    BY <1>1, <2>5 DEF Secrets
  <2>6. ASSUME NEW p \in Procs, IssueKey(p), op[p].ns = n, delta'[p] = {k},
               NEW q \in Procs, IssueKey(q), op[q].ns = m, delta'[q] = {j}
        PROVE  n = m /\ k = j
    <3>1. p = q
      BY <2>6, OneIssue
    <3> QED
      BY <2>6, <3>1
  <2> QED
    BY <1>1, <2>1, <2>2, <2>3, <2>4, <2>5, <2>6
<1>2. \A n \in Namespaces : revoked'[n] \subseteq removed'[n]
  BY RevokedShown
<1> QED
  BY <1>1, <1>2 DEF Secrets

\* What the deployment relies on of the store, in every state of every run.
StoreInv == TypeOK /\ Inv /\ Traced /\ Secrets

LEMMA StoreInvInit == Init => StoreInv
<1>1. Init => Traced
  BY DEF Init, Traced, WriterOf, Missing, Empty, KeysIn, Files
<1>2. Init => Secrets
  <2> SUFFICES ASSUME Init PROVE Secrets
    OBVIOUS
  <2>1. \A n \in Namespaces : Shown(n) = {}
    BY DEF Init, Shown, KeysIn, Missing, Empty, Files
  <2>2. \A n \in Namespaces : Drawn(n) = {}
    BY <2>1 DEF Init, Drawn
  <2> QED
    BY <2>2 DEF Init, Secrets
<1> QED
  BY <1>1, <1>2, InvInit DEF StoreInv

LEMMA StoreInvStep == StoreInv /\ [Next]_vars => StoreInv'
  BY InvStep, TracedStep, SecretsStep DEF StoreInv

-----------------------------------------------------------------------------
(* The steps of the server that do not touch the store. *)

\* What the rest of a handler changes: its own request, and no request that is
\* being authenticated or was refused.
LEMMA ServingChanges ==
    ASSUME Typed, NEW r \in Requests, Serving(r)
    PROVE  /\ UNCHANGED <<vars, call, late, server>>
           /\ Typed'
           /\ \A q \in Requests \ {r} :
                phase'[q] = phase[q] /\ child'[q] = child[q] /\ status'[q] = status[q]
           /\ phase'[r] # phase[r] =>
                phase[r] \notin {"absent", "auth", "done", "lost"} /\ phase'[r] \notin {"absent", "auth"}
           /\ child'[r] # child[r] => child[r] # "none" \/ phase[r] = "run"
           /\ status'[r] # status[r] => phase'[r] # phase[r]
<1> USE DEF Typed, Server!Phases, Server!InFlight, Server!Timed, Server!Holding,
            Server!Reply, Server!Advance, Server!input, Server!command
<1>1. CASE Server!ReadBody(r)
  BY <1>1 DEF Serving, Server!ReadBody, Server!Statuses
<1>2. CASE Server!Acquire(r)
  BY <1>2 DEF Serving, Server!Acquire
<1>3. CASE Server!Busy(r)
  BY <1>3 DEF Serving, Server!Busy, Server!Statuses
<1>4. CASE Server!Start(r)
  BY <1>4 DEF Serving, Server!Start
<1>5. CASE Server!Reap(r)
  BY <1>5 DEF Serving, Server!Reap
<1>6. CASE Server!Finish(r)
  <2>1. UNCHANGED <<vars, call, late, child, server>> /\ phase[r] = "finish"
    BY <1>6 DEF Serving, Server!Finish
  <2>2. CASE Server!Advance(r, "write")
    BY <2>1, <2>2
  <2>3. CASE \E code \in Server!Statuses \cup {0} : Server!Reply(r, code)
    BY <2>1, <2>3
  <2>4. 502 \in Server!Statuses /\ 504 \in Server!Statuses
        /\ Server!CommandStatus(outcome[r]) \in Server!Statuses
    BY DEF Server!CommandStatus, Server!ErrorStatus, Server!Statuses
  <2> QED
    BY <1>6, <2>2, <2>3, <2>4 DEF Server!Finish
<1>7. CASE Server!Kill(r)
  BY <1>7 DEF Serving, Server!Kill
<1>8. CASE Server!Deadline(r) \/ Server!Disconnect(r)
  BY <1>8 DEF Serving, Server!Deadline, Server!Disconnect
<1>9. CASE Server!TakeEffect(r)
  BY <1>9 DEF Serving, Server!TakeEffect
<1>10. ASSUME NEW out \in Server!Outcomes, Server!Exit(r, out)
       PROVE  /\ UNCHANGED <<vars, call, late, server, phase, status>>
              /\ child[r] = "running" /\ child' = [child EXCEPT ![r] = "exited"]
  BY <1>10 DEF Serving, Server!Exit
<1>11. CASE \E out \in Server!Outcomes : Server!Exit(r, out)
  BY <1>10, <1>11
<1>12. CASE Server!KillGroup(r)
  BY <1>12 DEF Serving, Server!KillGroup
<1>13. CASE Server!Sent(r)
  <2>1. Server!CommandStatus(outcome[r]) \in Server!Statuses
    BY DEF Server!CommandStatus, Server!ErrorStatus, Server!Statuses
  <2> HIDE DEF Server!Statuses
  <2> QED
    BY <1>13, <2>1 DEF Serving, Server!Sent
<1>14. CASE Server!WriteFails(r)
  BY <1>14 DEF Serving, Server!WriteFails
<1> QED
  BY <1>1, <1>2, <1>3, <1>4, <1>5, <1>6, <1>7, <1>8, <1>9, <1>11, <1>12, <1>13, <1>14
     DEF Serving

-----------------------------------------------------------------------------
(* What a handler and its call of the store know of each other. *)

\* Nothing that happens to other requests matters.
LEMMA AsksKept ==
    ASSUME NEW r \in Requests, Asks(r),
           op'[r] = op[r], pc'[r] = pc[r], call'[r] = call[r],
           file' = file, granted' = granted, removed' = removed
    PROVE  Asks(r)'
  BY DEF Asks, Shown, KeysIn

LEMMA HandlerKept ==
    ASSUME NEW r \in Requests, Handler(r), op'[r] = op[r], phase'[r] = phase[r],
           server' = server, Asks(r) => Asks(r)'
    PROVE  Handler(r)'
  BY DEF Handler, Server!Up

LEMMA ShutOutKept ==
    ASSUME NEW r \in Requests, ShutOut(r), Typed, phase'[r] = phase[r],
           child'[r] = child[r], status'[r] = status[r], call'[r] = call[r],
           late'[r] = late[r], \A n \in Namespaces : revoked[n] \subseteq revoked'[n]
    PROVE  ShutOut(r)'
<1>1. late[r] => call[r].ns \in Namespaces
  BY DEF ShutOut, Typed, Server!Calls
<1> QED
  BY <1>1 DEF ShutOut

LEMMA TypedKept ==
    Typed /\ UNCHANGED serverVars => Typed'
  BY DEF Typed, serverVars

\* The rest of a handler.
LEMMA ServingServed ==
    ASSUME StoreInv, Served, NEW r \in Requests, Serving(r)
    PROVE  Served'
<1>1. /\ UNCHANGED <<vars, call, late, server>>
      /\ Typed'
      /\ \A q \in Requests \ {r} :
           phase'[q] = phase[q] /\ child'[q] = child[q] /\ status'[q] = status[q]
      /\ phase'[r] # phase[r] =>
           phase[r] \notin {"absent", "auth", "done", "lost"} /\ phase'[r] \notin {"absent", "auth"}
      /\ child'[r] # child[r] => child[r] # "none" \/ phase[r] = "run"
      /\ status'[r] # status[r] => phase'[r] # phase[r]
  BY ServingChanges DEF Served
<1>2. ASSUME NEW q \in Requests PROVE Handler(q)'
  <2>1. Handler(q) /\ (Asks(q) => Asks(q)')
    BY <1>1, AsksKept DEF Served, vars, history
  <2> QED
    BY <1>1, <2>1 DEF Handler, Server!Up, vars
<1>3. ASSUME NEW q \in Requests PROVE ShutOut(q)'
  <2>1. ShutOut(q)
    BY DEF Served
  <2> QED
    BY <1>1, <2>1 DEF ShutOut, vars
<1> QED
  BY <1>1, <1>2, <1>3 DEF Served

\* The process ends or starts.
LEMMA ProcessServed ==
    ASSUME StoreInv, Served, Process \/ Restart
    PROVE  Served'
<1> USE DEF Server!input, Server!command, Server!InFlight, Server!Timed, Server!Holding
<1>1. vars' = vars /\ call' = call /\ late' = late /\ child' = child /\ status' = status
  BY DEF Process, Restart, Server!Terminate, Server!Drained, Server!ShutdownTimeout,
         Server!Abort, Server!Die, Server!Restart
<1>2. ASSUME NEW q \in Requests
      PROVE  phase'[q] = phase[q] \/ (phase[q] # "absent" /\ phase'[q] = "lost")
  BY DEF Process, Restart, Server!Terminate, Server!Drained, Server!ShutdownTimeout,
         Server!Abort, Server!Die, Server!Restart
<1>3. Typed'
  BY <1>1 DEF Process, Restart, Server!Terminate, Server!Drained, Server!ShutdownTimeout,
              Server!Abort, Server!Die, Server!Restart, Served, Typed, Server!Phases
<1>4. ASSUME NEW q \in Requests PROVE Handler(q)'
  <2>1. Handler(q) /\ (call' = call /\ Asks(q) => Asks(q)')
    BY <1>1, AsksKept DEF Served, vars, history
  <2>2. op' = op
    BY <1>1 DEF vars
  <2>3. CASE Server!Terminate
    BY <1>1, <2>1, <2>2, <2>3 DEF Server!Terminate, Handler, Server!Up
  <2>4. CASE Server!Drained
    BY <2>1, <2>2, <2>4 DEF Server!Drained, Handler, Server!Up
  <2>6. CASE Server!ShutdownTimeout \/ Server!Abort
    BY <1>1, <2>1, <2>2, <2>6
       DEF Server!ShutdownTimeout, Server!Abort, Server!Die, Handler, Served, Typed, Server!Up
  <2>5. CASE Restart
    <3>1. q \in Procs /\ pc[q] = "idle"
      BY <2>5, RequestsAreCallers DEF Restart, Stopped
    <3>2. op[q] = Nil
      BY <3>1 DEF StoreInv, Inv, Control
    <3> QED
      BY <2>1, <2>2, <2>5, <3>2 DEF Restart, Server!Restart, Handler, Server!Up
  <2> QED
    BY <2>3, <2>4, <2>5, <2>6 DEF Process
<1>5. ASSUME NEW q \in Requests PROVE ShutOut(q)'
  <2>1. ShutOut(q)
    BY DEF Served
  <2> QED
    BY <1>1, <1>2, <2>1 DEF ShutOut, vars
<1> QED
  BY <1>3, <1>4, <1>5 DEF Served

\* Two keys with one digest have one secret.
LEMMA DigestSecret ==
    ASSUME NEW k \in Keys, NEW j \in Keys, k.digest = j.digest
    PROVE  k.serial = j.serial
<1>1. PICK id \in Ids, label \in Labels, s \in Serials : k = Key(id, label, s)
  BY DEF Keys
<1>2. PICK jd \in Ids, jlabel \in Labels, js \in Serials : j = Key(jd, jlabel, js)
  BY DEF Keys
<1>3. k.digest = [sha256 |-> [id |-> id, secret |-> s]] /\ k.serial = s
  BY <1>1 DEF Key, Digest
<1>4. j.digest = [sha256 |-> [id |-> jd, secret |-> js]] /\ j.serial = js
  BY <1>2 DEF Key, Digest
<1>5. k.digest.sha256.secret = s
  BY <1>3
<1>6. j.digest.sha256.secret = js
  BY <1>4
<1> QED
  BY <1>3, <1>4, <1>5, <1>6

\* A token that is for a key has the key's secret.
LEMMA TokenSecret ==
    ASSUME NEW k \in Keys, NEW token \in Tokens, k.digest = Digest(token)
    PROVE  k.serial = token.secret
<1>1. PICK id \in Ids, label \in Labels, s \in Serials : k = Key(id, label, s)
  BY DEF Keys
<1>2. k.digest.sha256.secret = s /\ k.serial = s
  BY <1>1 DEF Key, Digest
<1>3. k.digest.sha256.secret = token.secret
  BY DEF Digest
<1> QED
  BY <1>2, <1>3

LEMMA ShownKeys ==
    ASSUME TypeOK, NEW n \in Namespaces
    PROVE  Shown(n) \subseteq Keys
  BY DEF TypeOK, Contents, Files, KeysIn, Shown

\* At most one key of a namespace is for a token.
LEMMA KeyForToken ==
    ASSUME StoreInv, NEW n \in Namespaces, NEW token
    PROVE  /\ KeyFor(n, token) \in Keys \cup {Nil}
           /\ \A k \in KeysIn(n) : k.digest = Digest(token) => k = KeyFor(n, token)
<1> DEFINE For(k) == k.digest = Digest(token)
<1>1. \A k, j \in Shown(n) : For(k) /\ For(j) => k = j
  <2> SUFFICES ASSUME NEW k \in Shown(n), NEW j \in Shown(n), For(k), For(j)
               PROVE  k = j
    OBVIOUS
  <2>1. k \in Keys /\ j \in Keys
    BY ShownKeys DEF StoreInv
  <2>2. k.serial = j.serial
    BY <2>1, DigestSecret
  <2>3. k \in Drawn(n) /\ j \in Drawn(n)
    BY DEF Drawn
  <2> QED
    BY <2>2, <2>3 DEF StoreInv, Secrets
<1>2. Shown(n) \subseteq Keys /\ KeysIn(n) \subseteq Shown(n)
  BY ShownKeys DEF StoreInv, Shown
<1>3. CASE \E k \in Shown(n) : For(k)
  <2>1. KeyFor(n, token) \in Shown(n) /\ For(KeyFor(n, token))
    BY <1>3 DEF KeyFor
  <2> QED
    BY <1>1, <1>2, <2>1
<1>4. CASE ~\E k \in Shown(n) : For(k)
  BY <1>2, <1>4 DEF KeyFor
<1> QED
  BY <1>3, <1>4

\* A request arrives.
LEMMA ArriveServed ==
    ASSUME StoreInv, Served, NEW r \in Requests, NEW n \in Namespaces,
           NEW token \in Presentable, Arrive(r, n, token)
    PROVE  Served'
<1> DEFINE c == [ns |-> n, key |-> KeyFor(n, token)]
           auth == Op("auth", n, token)
<1>1. /\ phase[r] = "absent" /\ Server!Up
      /\ call' = [call EXCEPT ![r] = c]
      /\ late' = [late EXCEPT ![r] = KeyFor(n, token) \in revoked[n]]
      /\ phase' = [phase EXCEPT ![r] = "auth"]
      /\ status' = status /\ child' = child /\ server' = server
  BY DEF Arrive, Server!Arrive, Server!Advance, Server!command
<1>2. /\ pc[r] = "idle" /\ op' = [op EXCEPT ![r] = auth]
      /\ pc' = [pc EXCEPT ![r] = "stat"]
      /\ file' = file /\ granted' = granted /\ removed' = removed /\ revoked' = revoked
      /\ auth.kind = "auth" /\ auth.ns = n /\ auth.arg = token
  BY DEF Arrive, Begin, Op, Goto, history
<1>3. r \in Procs /\ op \in [Procs -> Calls \cup {Nil}] /\ pc \in [Procs -> PCs]
  BY RequestsAreCallers DEF StoreInv, TypeOK
<1>4. c \in Server!Calls
  BY KeyForToken DEF Server!Calls
<1>5. Typed /\ Typed'
  <2>1. Typed
    BY DEF Served
  <2>2. late' \in [Requests -> BOOLEAN]
    <3>1. late \in [Requests -> BOOLEAN]
      BY <2>1 DEF Typed
    <3> QED
      BY <1>1, <3>1
  <2> HIDE DEF c
  <2> QED
    BY <1>1, <1>4, <2>1, <2>2
       DEF Typed, Server!Phases, Server!InFlight, Server!Timed, Server!Holding
<1>6. ASSUME NEW q \in Requests \ {r} PROVE Handler(q)' /\ ShutOut(q)'
  <2>1. /\ op'[q] = op[q] /\ pc'[q] = pc[q] /\ phase'[q] = phase[q] /\ call'[q] = call[q]
        /\ late'[q] = late[q]
    BY <1>1, <1>2
  <2>2. Handler(q) /\ ShutOut(q)
    BY DEF Served
  <2>3. Asks(q) => Asks(q)'
    BY <1>2, <2>1, AsksKept
  <2> QED
    BY <1>1, <1>2, <1>5, <2>1, <2>2, <2>3, HandlerKept, ShutOutKept
<1>7. Asks(r)'
  <2>1. op'[r] = auth /\ pc'[r] = "stat" /\ call'[r] = c
    BY <1>1, <1>2, <1>3, <1>5 DEF Typed
  <2>2. token # Nil => \E m \in Namespaces : \E k \in Shown(m) : k.serial = token.secret
    BY DEF Presentable
  <2>3. \A m \in Namespaces : Shown(m)' = Shown(m) /\ KeysIn(m)' = KeysIn(m)
    BY <1>2 DEF Shown, KeysIn
  <2>4. \A k \in KeysIn(n) : k.digest = Digest(token) => k = c.key
    BY KeyForToken
  <2> HIDE DEF auth
  <2> QED
    BY <1>2, <2>1, <2>2, <2>3, <2>4 DEF Asks
<1>8. Handler(r)'
  <2>1. op'[r] = auth /\ auth # Nil
    <3>1. auth \in Calls
      BY RequestsAuthenticate, WorkloadAssumption DEF Presentable
    <3> QED
      BY <1>2, <1>3, <3>1, NilAssumption
  <2> HIDE DEF auth
  <2> QED
    BY <1>1, <1>2, <1>5, <1>7, <2>1 DEF Handler, Server!Up, Typed
<1>9. ShutOut(r)'
  <2>1. child[r] = "none" /\ status[r] = 0
    BY <1>1 DEF Served, ShutOut
  <2>2. late'[r] => c.key \in revoked[c.ns]
    BY <1>1, <1>5 DEF Typed
  <2> HIDE DEF c
  <2> QED
    BY <1>1, <1>2, <1>5, <2>1, <2>2 DEF ShutOut, Typed
<1> QED
  BY <1>5, <1>6, <1>8, <1>9 DEF Served

\* What the store's access for a handler does: the call goes on to the file of
\* keys, or returns.
LEMMA CallGoesOn ==
    ASSUME StoreInv, NEW r \in Procs, op[r] # Nil, op[r].kind = "auth", Step(r) \/ IOError(r)
    PROVE  /\ UNCHANGED <<store, serial, history>>
           /\ \A q \in Procs \ {r} : op'[q] = op[q] /\ pc'[q] = pc[q]
           /\ \/ /\ ret' = Nil /\ op' = op
                 /\ op[r].arg # Nil
              \/ /\ op'[r] = Nil
                 /\ \E err \in Errors :
                      /\ ret' = [proc |-> r, err |-> err]
                      /\ err = "nil" => /\ pc[r] = "readKeys"
                                        /\ Accepts(KeysIn(op[r].ns), op[r].arg)
<1> USE DEF StoreInv, TypeOK
<1>1. pc[r] \in {"stat", "readKeys"}
  BY DEF Inv, Control, Reach
<1>2. ASSUME NEW err \in Errors, Return(r, err)
      PROVE  /\ \A q \in Procs \ {r} : op'[q] = op[q] /\ pc'[q] = pc[q]
             /\ op'[r] = Nil /\ ret' = [proc |-> r, err |-> err]
  BY <1>2 DEF Return, Forget
<1>3. CASE Stat(r)
  <2>1. CASE Return(r, MissingError(op[r]))
    <3>1. MissingError(op[r]) = "ErrInvalidKey"
      BY DEF MissingError
    <3> QED
      BY <1>2, <1>3, <2>1, <3>1 DEF Stat, Errors
  <2>2. CASE Return(r, "ErrInvalidKey")
    BY <1>2, <1>3, <2>2 DEF Stat, Errors
  <2>3. CASE /\ op[r].arg # Nil
             /\ Goto(r, "readKeys")
             /\ UNCHANGED <<lock, local>>
    BY <1>3, <2>3 DEF Stat, Goto, local
  <2> QED
    BY <1>3, <2>1, <2>2, <2>3 DEF Stat
<1>4. CASE ReadFails(r)
  BY <1>2, <1>4 DEF ReadFails, Errors
<1>5. CASE Authenticate(r)
  <2>1. CASE Accepts(KeysIn(op[r].ns), op[r].arg)
    <3>1. Return(r, "nil")
      BY <1>5, <2>1 DEF Authenticate
    <3> QED
      BY <1>2, <1>5, <2>1, <3>1 DEF Authenticate, Errors
  <2>2. CASE ~Accepts(KeysIn(op[r].ns), op[r].arg)
    <3>1. Return(r, "ErrInvalidKey")
      BY <1>5, <2>2 DEF Authenticate
    <3> QED
      BY <1>2, <1>5, <3>1 DEF Authenticate, Errors
  <2> QED
    BY <2>1, <2>2
<1>6. CASE IOError(r)
  <2>1. PICK err \in {"ErrInvalidKey", "other"} : Return(r, err)
    BY <1>6 DEF IOError
  <2> QED
    BY <1>2, <1>6, <2>1 DEF IOError, Errors
<1>7. ~(ReadNamespace(r) \/ StatKeys(r) \/ IssueKey(r) \/ RevokeKey(r) \/ ListKeys(r)
          \/ SyncTmp(r) \/ Rename(r) \/ SyncDir(r))
  BY <1>1 DEF ReadNamespace, StatKeys, IssueKey, RevokeKey, ListKeys, SyncTmp, Rename, SyncDir
<1> QED
  BY <1>3, <1>4, <1>5, <1>6, <1>7 DEF Step

\* An answer of the store is for the key the request came with, and that key is
\* in the namespace's file as the answer is given.
LEMMA AnswerGoesOut ==
    ASSUME StoreInv, Served, NEW r \in Requests, Authenticating(r)
    PROVE  /\ UNCHANGED <<store, serial, history, call, late, child, server>>
           /\ phase[r] = "auth" /\ op[r] # Nil /\ op[r].kind = "auth"
           /\ \A q \in Procs \ {r} : op'[q] = op[q] /\ pc'[q] = pc[q]
           /\ \/ /\ op' = op /\ op[r].arg # Nil
                 /\ UNCHANGED <<phase, status, slots>>
              \/ /\ op'[r] = Nil
                 /\ Server!Advance(r, "body") /\ UNCHANGED slots
                 /\ call[r].key \in KeysIn(call[r].ns)
              \/ /\ op'[r] = Nil
                 /\ Server!Reply(r, 401)
<1>1. r \in Procs /\ Handler(r) /\ Server!Up
  BY RequestsAreCallers DEF Served, Authenticating
<1>2. pc[r] # "idle"
  BY DEF Authenticating, Step, Stat, ReadNamespace, StatKeys, ReadFails, IssueKey, RevokeKey,
         Authenticate, ListKeys, SyncTmp, Rename, SyncDir, IOError
<1>3. op[r] # Nil /\ op[r].kind = "auth" /\ phase[r] = "auth" /\ Asks(r)
  BY <1>1, <1>2 DEF Handler, StoreInv, Inv, Control
<1>4. /\ UNCHANGED <<store, serial, history>>
      /\ \A q \in Procs \ {r} : op'[q] = op[q] /\ pc'[q] = pc[q]
      /\ \/ /\ ret' = Nil /\ op' = op
            /\ op[r].arg # Nil
         \/ /\ op'[r] = Nil
            /\ \E err \in Errors :
                 /\ ret' = [proc |-> r, err |-> err]
                 /\ err = "nil" => /\ pc[r] = "readKeys"
                                   /\ Accepts(KeysIn(op[r].ns), op[r].arg)
  BY <1>1, <1>3, CallGoesOn DEF Authenticating
<1>5. UNCHANGED <<call, late, child, server>>
  BY DEF Authenticating
<1>6. CASE ret' = Nil /\ op' = op /\ op[r].arg # Nil
  BY <1>3, <1>4, <1>5, <1>6 DEF Authenticating, Authenticated
<1>7. ASSUME NEW err \in Errors, op'[r] = Nil, ret' = [proc |-> r, err |-> err],
             err = "nil" => pc[r] = "readKeys" /\ Accepts(KeysIn(op[r].ns), op[r].arg)
      PROVE  \/ /\ Server!Advance(r, "body") /\ UNCHANGED slots
                /\ call[r].key \in KeysIn(call[r].ns)
             \/ Server!Reply(r, 401)
  <2>1. ret' # Nil /\ ret'.err = err
    BY <1>1, <1>7, NilAssumption DEF Returns
  <2>2. CASE err # "nil"
    BY <2>1, <2>2 DEF Authenticating, Authenticated
  <2>3. CASE err = "nil"
    <3>1. Server!Advance(r, "body") /\ UNCHANGED slots
      BY <2>1, <2>3 DEF Authenticating, Authenticated
    <3>2. PICK k \in KeysIn(op[r].ns) : k.digest = Digest(op[r].arg)
      BY <1>7, <2>3 DEF Accepts
    <3>3. k = call[r].key /\ op[r].ns = call[r].ns
      BY <1>3, <1>7, <2>3, <3>2 DEF Asks
    <3> QED
      BY <3>1, <3>2, <3>3
  <2> QED
    BY <2>2, <2>3
<1> QED
  BY <1>3, <1>4, <1>5, <1>6, <1>7

LEMMA AuthenticatingServed ==
    ASSUME StoreInv, Served, NEW r \in Requests, Authenticating(r)
    PROVE  Served'
<1>1. /\ UNCHANGED <<store, serial, history, call, late, child, server>>
      /\ phase[r] = "auth" /\ op[r] # Nil /\ op[r].kind = "auth"
      /\ \A q \in Procs \ {r} : op'[q] = op[q] /\ pc'[q] = pc[q]
      /\ \/ /\ op' = op /\ op[r].arg # Nil
            /\ UNCHANGED <<phase, status, slots>>
         \/ /\ op'[r] = Nil
            /\ Server!Advance(r, "body") /\ UNCHANGED slots
            /\ call[r].key \in KeysIn(call[r].ns)
         \/ /\ op'[r] = Nil
            /\ Server!Reply(r, 401)
  BY AnswerGoesOut
<1>2. r \in Procs /\ Typed /\ Handler(r) /\ ShutOut(r) /\ Server!Up
  BY RequestsAreCallers DEF Served, Authenticating
<1>3. file' = file /\ granted' = granted /\ removed' = removed /\ revoked' = revoked
  BY <1>1 DEF store, history
<1>4. /\ phase' \in [Requests -> Server!Phases]
      /\ status' \in [Requests -> Server!Statuses \cup {0}]
      /\ \A q \in Requests \ {r} : phase'[q] = phase[q] /\ status'[q] = status[q]
      /\ \A q \in Requests : phase'[q] # "absent" => phase[q] # "absent"
  BY <1>1, <1>2 DEF Server!Advance, Server!Reply, Typed, Server!Phases, Server!InFlight,
                    Server!Timed, Server!Holding, Server!Statuses
<1>5. Typed'
  BY <1>1, <1>2, <1>4 DEF Typed
<1>6. ASSUME NEW q \in Requests \ {r} PROVE Handler(q)' /\ ShutOut(q)'
  <2>1. Handler(q) /\ ShutOut(q) /\ q \in Procs \ {r}
    BY RequestsAreCallers DEF Served
  <2>2. Asks(q) => Asks(q)'
    BY <1>1, <1>3, <2>1, AsksKept
  <2> QED
    BY <1>1, <1>2, <1>3, <1>4, <2>1, <2>2, HandlerKept, ShutOutKept
<1>7. Handler(r)'
  <2>1. CASE op' = op /\ op[r].arg # Nil /\ phase' = phase
    <3>1. Asks(r)'
      <4>1. Asks(r)
        BY <1>1, <1>2 DEF Handler
      <4>2. \A m \in Namespaces : Shown(m)' = Shown(m)
        BY <1>3 DEF Shown, KeysIn
      <4>3. KeysIn(op[r].ns)' = KeysIn(op[r].ns)
        BY <1>3, <2>1 DEF KeysIn
      <4> QED
        BY <1>1, <2>1, <4>1, <4>2, <4>3 DEF Asks
    <3> QED
      BY <1>1, <1>2, <2>1, <3>1 DEF Handler, Server!Up
  <2>2. CASE op'[r] = Nil /\ phase'[r] # "auth"
    BY <1>1, <1>2, <2>2 DEF Handler, Server!Up
  <2> QED
    BY <1>1, <1>2, <2>1, <2>2 DEF Server!Advance, Server!Reply, Typed
<1>8. ShutOut(r)'
  <2>1. late[r] => call[r].key \notin KeysIn(call[r].ns)
    <3>1. late[r] => call[r].key \in revoked[call[r].ns]
      BY <1>2 DEF ShutOut
    <3>2. call[r].ns \in Namespaces
      BY <1>1, <1>2 DEF Typed, Server!Calls
    <3> QED
      BY <3>1, <3>2 DEF StoreInv, Inv, RevokedKeysGone
  <2> QED
    BY <1>1, <1>2, <1>3, <2>1 DEF ShutOut, Server!Advance, Server!Reply, Typed
<1> QED
  BY <1>5, <1>6, <1>7, <1>8 DEF Served

\* No revocation is taken back, not by power loss either.
LEMMA RevokedGrows ==
    ASSUME TypeOK, [Next]_vars, NEW n \in Namespaces
    PROVE  revoked[n] \subseteq revoked'[n]
<1>1. ASSUME NEW p \in Procs, Rename(p) PROVE revoked' = revoked
  BY <1>1 DEF Rename
<1>2. ASSUME NEW p \in Procs, SyncDir(p) PROVE revoked[n] \subseteq revoked'[n]
  <2>1. CASE UNCHANGED history
    BY <2>1 DEF history
  <2>2. CASE Promise(p)
    BY <2>2 DEF TypeOK, Promise
  <2> QED
    BY <1>2, <2>1, <2>2 DEF SyncDir
<1>3. ASSUME NEW m \in Namespaces, NEW f \in Files, WriteBack(m, f) PROVE revoked' = revoked
  BY <1>3 DEF WriteBack, history
<1>4. CASE PowerLoss
  BY <1>4 DEF PowerLoss
<1> QED
  BY <1>1, <1>2, <1>3, <1>4, StoreSteps

\* The answer a handler waits for is not disturbed by the administrators: a key
\* that shows meanwhile has a secret of its own.
LEMMA AsksAmongWriters ==
    ASSUME StoreInv, [Next]_vars, Typed,
           ShownKept \/ (\E p \in Procs : Rename(p)),
           NEW r \in Requests, Asks(r), phase[r] = "auth", op[r] \in Calls, op[r].kind = "auth",
           op'[r] = op[r], pc'[r] = pc[r], call'[r] = call[r]
    PROVE  Asks(r)'
<1> DEFINE n == op[r].ns
           token == op[r].arg
<1>1. n \in Namespaces /\ call[r].ns = n
  BY DEF Asks, Typed, Server!Calls
<1>2. \A m \in Namespaces :
        /\ Shown(m) \subseteq Shown(m)'
        /\ \A k \in KeysIn(m)' : k \in KeysIn(m) \/ k \notin Shown(m)
  BY ShownStep DEF StoreInv
<1>3. StoreInv'
  BY StoreInvStep
<1>4. ASSUME token # Nil
      PROVE  /\ \E m \in Namespaces : \E k \in Shown(m)' : k.serial = token.secret
             /\ \A k \in KeysIn(n)' : k.digest = Digest(token) => k = call[r].key
  <2>1. PICK m \in Namespaces : \E j \in Shown(m) : j.serial = token.secret
    BY <1>4 DEF Asks
  <2>2. PICK j \in Shown(m) : j.serial = token.secret
    BY <2>1
  <2>3. j \in Shown(m)'
    BY <1>2
  <2>4. ASSUME NEW k \in KeysIn(n)', k.digest = Digest(token)
        PROVE  k = call[r].key
    <3>1. CASE k \in KeysIn(n)
      BY <1>4, <2>4, <3>1 DEF Asks
    <3>2. CASE k \notin Shown(n)
      <4>1. k \in Shown(n)'
        BY DEF Shown
      <4>2. Shown(n)' \subseteq Keys
        <5>1. TypeOK'
          BY <1>3 DEF StoreInv
        <5> QED
          BY <1>1, <5>1 DEF TypeOK, Contents, Files, KeysIn, Shown
      <4>3. token \in Tokens
        BY <1>4, CallFields
      <4>4. k.serial = token.secret
        BY <2>4, <4>1, <4>2, <4>3, TokenSecret
      <4>5. k \in Drawn(n)' /\ j \in Drawn(m)'
        BY <2>3, <4>1 DEF Drawn
      <4>6. n = m /\ k = j
        BY <1>1, <1>3, <2>2, <4>4, <4>5 DEF StoreInv, Secrets
      <4> QED
        BY <3>2, <4>6
    <3> QED
      BY <1>1, <1>2, <3>1, <3>2
  <2> QED
    BY <2>2, <2>3, <2>4
<1> QED
  BY <1>4 DEF Asks

\* Whatever the store's other callers and the kernel do, the server goes on.
LEMMA OthersServed ==
    ASSUME StoreInv, Served, Next, UNCHANGED serverVars,
           ShownKept \/ (\E p \in Procs : Rename(p)),
           \A r \in Requests : op'[r] = op[r] /\ pc'[r] = pc[r]
    PROVE  Served'
<1>1. Typed /\ Typed'
  BY TypedKept DEF Served
<1>2. /\ phase' = phase /\ call' = call /\ late' = late /\ child' = child
      /\ status' = status /\ server' = server
  BY DEF serverVars
<1>3. \A n \in Namespaces : revoked[n] \subseteq revoked'[n]
  BY RevokedGrows DEF StoreInv
<1>4. ASSUME NEW r \in Requests PROVE Handler(r)' /\ ShutOut(r)'
  <2>1. Handler(r) /\ ShutOut(r) /\ r \in Procs
    BY RequestsAreCallers DEF Served
  <2>2. ShutOut(r)'
    BY <1>1, <1>2, <1>3, <2>1, ShutOutKept
  <2>3. CASE Server!Up /\ phase[r] = "auth"
    <3>1. Asks(r) /\ op[r] # Nil /\ op[r].kind = "auth"
      BY <2>1, <2>3 DEF Handler
    <3>2. op[r] \in Calls
      BY <2>1, <3>1 DEF StoreInv, TypeOK
    <3>3. Asks(r)'
      BY <1>1, <1>2, <2>3, <3>1, <3>2, AsksAmongWriters
    <3> QED
      BY <1>2, <2>1, <2>2, <3>3, HandlerKept
  <2>4. CASE ~(Server!Up /\ phase[r] = "auth")
    BY <1>2, <2>1, <2>2, <2>4 DEF Handler, Server!Up
  <2> QED
    BY <2>3, <2>4
<1> QED
  BY <1>1, <1>4 DEF Served

\* A call changes only its own process's call, and shows or hides keys only by
\* its rename.
LEMMA CallChanges ==
    ASSUME NEW p \in Procs,
           \/ \E c \in Workload : Begin(p, c) \/ Refuse(p, c)
           \/ Lock(p) \/ Step(p) \/ IOError(p) \/ Crash(p)
    PROVE  /\ TypeOK /\ Inv => ShownKept \/ Rename(p)
           /\ \A q \in Procs \ {p} : TypeOK => op'[q] = op[q] /\ pc'[q] = pc[q]
<1> DEFINE Quiet == file' = file /\ granted' = granted /\ removed' = removed
           Others == \A q \in Procs \ {p} : TypeOK => op'[q] = op[q] /\ pc'[q] = pc[q]
<1> USE DEF TypeOK
<1>1. ASSUME NEW c \in Workload, Begin(p, c) \/ Refuse(p, c)
      PROVE  Quiet /\ Others
  BY <1>1 DEF Begin, Refuse, Goto, store, local, history
<1>2. ASSUME Lock(p) \/ Stat(p) \/ ReadNamespace(p) \/ StatKeys(p) \/ ReadFails(p)
      PROVE  Quiet /\ Others
  BY <1>2 DEF Lock, Stat, ReadNamespace, StatKeys, ReadFails, Return, Forget, Encode, Goto,
              store, local, history
<1>3. ASSUME IssueKey(p) \/ RevokeKey(p)
      PROVE  Quiet /\ Others
  BY <1>3 DEF IssueKey, RevokeKey, Return, Forget, Encode, Goto, store, history
<1>4. ASSUME Authenticate(p) \/ ListKeys(p) \/ SyncTmp(p)
      PROVE  Quiet /\ Others
  BY <1>4 DEF Authenticate, ListKeys, SyncTmp, Return, Forget, Goto, store, history
<1>5. ASSUME Rename(p)
      PROVE  Others
  BY <1>5 DEF Rename, Goto, local
<1>6. ASSUME SyncDir(p)
      PROVE  Others
  BY <1>6 DEF SyncDir, Promise, Return, Forget, Goto, history
<1>7. ASSUME IOError(p) \/ Crash(p)
      PROVE  Quiet /\ Others
  BY <1>7 DEF IOError, Crash, Return, Forget, store, history
<1>8. Quiet => ShownKept
  BY ShownUntouched
<1> HIDE DEF Quiet, Others, TypeOK
<1>9. (TypeOK /\ Inv => ShownKept \/ Rename(p)) /\ Others
  BY <1>1, <1>2, <1>3, <1>4, <1>5, <1>6, <1>7, <1>8, SyncDirShows DEF Step
<1> QED
  BY <1>9 DEF Others

\* The administrators, the kernel, and the calls of a server that died.
LEMMA StoreServed ==
    ASSUME StoreInv, Served,
           \/ \E r \in Requests : Abandoned(r)
           \/ \E p \in Procs \ Requests : Administer(p)
           \/ Kernel \/ Outage
    PROVE  Served'
<1>1. ASSUME NEW p \in Procs \ Requests, Administer(p) PROVE Served'
  <2>1. Next /\ UNCHANGED serverVars
    BY <1>1 DEF Administer, Next
  <2>2. /\ ShownKept \/ Rename(p)
        /\ \A q \in Procs \ {p} : TypeOK => op'[q] = op[q] /\ pc'[q] = pc[q]
    BY <1>1, CallChanges DEF Administer, StoreInv
  <2>3. \A r \in Requests : op'[r] = op[r] /\ pc'[r] = pc[r]
    BY <1>1, <2>2, RequestsAreCallers DEF StoreInv
  <2> QED
    BY <1>1, <2>1, <2>2, <2>3, OthersServed
<1>2. CASE Kernel
  <2>1. Next /\ UNCHANGED serverVars
    BY <1>2 DEF Kernel, Next
  <2>2. file' = file /\ granted' = granted /\ removed' = removed /\ op' = op /\ pc' = pc
    BY <1>2 DEF Kernel, WriteBack, WriteBackRoot, local, history
  <2> QED
    BY <2>1, <2>2, OthersServed, ShownUntouched
<1>3. ASSUME ~Server!Up, UNCHANGED serverVars, revoked' = revoked,
             \A q \in Requests : op'[q] = op[q] \/ op'[q] = Nil
      PROVE  Served'
  <2>1. Typed'
    BY <1>3, TypedKept DEF Served
  <2>2. ASSUME NEW q \in Requests PROVE Handler(q)' /\ ShutOut(q)'
    BY <1>3, <2>2 DEF Served, Handler, ShutOut, Server!Up, serverVars
  <2> QED
    BY <2>1, <2>2 DEF Served
<1>4. ASSUME NEW r \in Requests, Abandoned(r) PROVE Served'
  <2>1. /\ revoked' = revoked
        /\ \A q \in Requests : op'[q] = op[q] \/ op'[q] = Nil
    BY <1>4, RequestsAreCallers DEF StoreInv, TypeOK, Abandoned, Crash, Forget, history
  <2> QED
    BY <1>3, <1>4, <2>1 DEF Abandoned
<1>5. CASE Outage
  <2>1. revoked' = revoked /\ \A q \in Requests : op'[q] = Nil
    BY <1>5, RequestsAreCallers DEF Outage, PowerLoss
  <2> QED
    BY <1>3, <1>5, <2>1 DEF Outage
<1> QED
  BY <1>1, <1>2, <1>4, <1>5

-----------------------------------------------------------------------------
(* The invariant. *)

LEMMA SystemInvInit == SystemInit => StoreInv /\ Served
<1> SUFFICES ASSUME SystemInit PROVE StoreInv /\ Served
  OBVIOUS
<1>1. StoreInv
  BY StoreInvInit DEF SystemInit
<1>2. Typed
  BY DEF SystemInit, Server!Init, Typed, Server!Phases
<1>3. ASSUME NEW r \in Requests PROVE Handler(r) /\ ShutOut(r)
  BY RequestsAreCallers DEF SystemInit, Init, Server!Init, Handler, ShutOut, Server!Up
<1> QED
  BY <1>1, <1>2, <1>3 DEF Served

LEMMA SystemInvStep ==
    StoreInv /\ Served /\ [SystemNext]_<<vars, serverVars>> => (StoreInv /\ Served)'
<1> SUFFICES ASSUME StoreInv, Served, [SystemNext]_<<vars, serverVars>>
             PROVE  StoreInv' /\ Served'
  OBVIOUS
<1>1. StoreInv'
  BY StoreStep, StoreInvStep
<1>2. CASE UNCHANGED <<vars, serverVars>>
  <2>1. ASSUME NEW r \in Requests PROVE Handler(r)' /\ ShutOut(r)'
    <3>1. Handler(r) /\ ShutOut(r) /\ (Asks(r) => Asks(r)')
      BY <1>2, AsksKept DEF vars, serverVars, Served
    <3> QED
      BY <1>2, <3>1 DEF vars, serverVars, Handler, ShutOut, Server!Up
  <2> QED
    BY <1>1, <1>2, <2>1, TypedKept DEF Served
<1> QED
  BY <1>1, <1>2, ArriveServed, AuthenticatingServed, ServingServed, ProcessServed, StoreServed
     DEF SystemNext

-----------------------------------------------------------------------------
(* The refinement. *)

\* The store's steps are those of its specification, seen from the server.
LEMMA StoreChangesKeys ==
    ASSUME StoreInv, Next, UNCHANGED serverVars
    PROVE  Server!ChangeKeys \/ UNCHANGED Server!vars
<1>1. Registry!Next \/ UNCHANGED <<Visible, Kept, removed, revoked>>
  BY StepRefines DEF StoreInv, Registry!vars
<1>2. CASE Registry!Next
  <2>1. Server!Store!Next
    BY <1>2 DEF Registry!Next, Server!Store!Next, Registry!Add, Server!Store!Add,
                Registry!Remove, Server!Store!Remove, Registry!Grant, Server!Store!Grant,
                Registry!Retire, Server!Store!Retire, Registry!PowerLoss,
                Server!Store!PowerLoss, Registry!DistinctLabels, Server!Store!DistinctLabels
  <2> QED
    BY <2>1 DEF Server!ChangeKeys, Server!input, Server!command, serverVars
<1>3. CASE UNCHANGED <<Visible, Kept, removed, revoked>>
  BY <1>3 DEF Server!vars, Server!keyVars, serverVars
<1> QED
  BY <1>1, <1>2, <1>3

\* Every step of the deployment is one of ExecServer or changes nothing there.
LEMMA ServerStep ==
    StoreInv /\ Served /\ [SystemNext]_<<vars, serverVars>> => [Server!Next]_(Server!vars)
<1> SUFFICES ASSUME StoreInv, Served, [SystemNext]_<<vars, serverVars>>
             PROVE  Server!Next \/ UNCHANGED Server!vars
  OBVIOUS
<1>1. ASSUME NEW r \in Requests, NEW n \in Namespaces, NEW token \in Presentable,
             Arrive(r, n, token)
      PROVE  Server!Next
  <2>1. [ns |-> n, key |-> KeyFor(n, token)] \in Server!Calls
    BY KeyForToken DEF Server!Calls
  <2> QED
    BY <1>1, <2>1 DEF Arrive, Server!Next
<1>2. ASSUME NEW r \in Requests, Authenticating(r)
      PROVE  Server!Next \/ UNCHANGED Server!vars
  <2>1. /\ UNCHANGED <<store, serial, history, call, late, child, server>>
        /\ phase[r] = "auth"
        /\ \/ UNCHANGED <<phase, status, slots>>
           \/ /\ Server!Advance(r, "body") /\ UNCHANGED slots
              /\ call[r].key \in KeysIn(call[r].ns)
           \/ Server!Reply(r, 401)
    BY <1>2, AnswerGoesOut
  <2>2. UNCHANGED <<Visible, Kept, removed, revoked>>
    BY <2>1 DEF store, history, Visible, KeysIn, Kept
  <2>3. UNCHANGED <<call, late, ctx, child, outcome, effect, server>> /\ Server!Up
    BY <1>2 DEF Authenticating
  <2>4. Visible[call[r].ns] = KeysIn(call[r].ns)
    BY <2>1 DEF Visible, Served, Typed, Server!Calls
  <2>5. CASE UNCHANGED <<phase, status, slots>>
    BY <2>2, <2>3, <2>5 DEF Server!vars, Server!keyVars
  <2>6. CASE \/ /\ Server!Advance(r, "body") /\ UNCHANGED slots
                /\ call[r].key \in KeysIn(call[r].ns)
             \/ Server!Reply(r, 401)
    <3>1. Server!Authenticate(r)
      BY <2>1, <2>2, <2>3, <2>4, <2>6
         DEF Server!Authenticate, Server!keyVars, Server!input, Server!command
    <3> QED
      BY <2>3, <3>1 DEF Server!Next, Server!Handler
  <2> QED
    BY <2>1, <2>5, <2>6
<1>3. ASSUME NEW r \in Requests, Serving(r)
      PROVE  Server!Next
  BY <1>3 DEF Serving, Server!Next, Server!Handler
<1>4. CASE Process \/ Restart
  BY <1>4 DEF Process, Restart, Server!Next
<1>5. ASSUME \/ \E r \in Requests : Abandoned(r)
             \/ \E p \in Procs \ Requests : Administer(p)
             \/ Kernel \/ Outage
      PROVE  Server!Next \/ UNCHANGED Server!vars
  <2>1. Next /\ UNCHANGED serverVars
    BY <1>5, RequestsAreCallers DEF Abandoned, Administer, Kernel, Outage, Next
  <2> QED
    BY <2>1, StoreChangesKeys DEF Server!Next
<1>6. CASE UNCHANGED <<vars, serverVars>>
  BY <1>6 DEF vars, serverVars, history, Server!vars, Server!keyVars, Visible, KeysIn, Kept
<1> QED
  BY <1>1, <1>2, <1>3, <1>4, <1>5, <1>6 DEF SystemNext

LEMMA SystemInvAlways == SystemSpec => [](StoreInv /\ Served)
  BY SystemInvInit, SystemInvStep, PTL DEF SystemSpec

\* What a handler and its call of the store know of each other holds in every
\* run, for any number of handlers, administrators and namespaces.
THEOREM SystemInvariance == SystemSpec => []SystemInv
<1>1. StoreInv /\ Served => SystemInv
  BY DEF StoreInv, SystemInv
<1> QED
  BY <1>1, SystemInvAlways, PTL

\* The server over the files implements ExecServer, in which Authenticate is one
\* step on the promises of KeyRegistry: the stat and the read between which
\* administrators, crashes and the kernel act let in no request that ExecServer
\* would refuse.
THEOREM ServerImplemented == SystemSpec => RefinesServer
<1>1. SystemInit => Server!Init
  <2> SUFFICES ASSUME SystemInit PROVE Server!Init
    OBVIOUS
  <2>1. Visible = [n \in Namespaces |-> {}] /\ Kept = [n \in Namespaces |-> {}]
    BY DEF SystemInit, Init, Visible, KeysIn, Kept, Missing, Empty, Files
  <2> QED
    BY <2>1 DEF SystemInit, Init, Server!Init, Server!Store!Init
<1> QED
  BY <1>1, ServerStep, SystemInvAlways, PTL DEF SystemSpec, RefinesServer, Server!Spec

\* A revocation that was reported shuts its key's requests out, through
\* concurrent writers, crashes, power loss and restarts of the server.
THEOREM RevocationSafe == SystemSpec => []RevocationHolds
<1>1. Served => RevocationHolds
  BY DEF Served, ShutOut, RevocationHolds, Server!RevokedKeysShutOut
<1> QED
  BY <1>1, SystemInvAlways, PTL

=============================================================================
