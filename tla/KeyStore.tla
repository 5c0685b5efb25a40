------------------------------ MODULE KeyStore ------------------------------
(***************************************************************************)
(* The namespace and API-key store of contextq-server,                     *)
(* internal/namespace/store.go: one directory per namespace holding        *)
(* namespace.json and keys.json, two advisory lock files, and operations   *)
(* that several processes run at once: the HTTP server authenticates every *)
(* request while administrators run "namespace init", "key add" and        *)
(* "key revoke" from shells of their own.                                  *)
(*                                                                         *)
(* One step is one access to shared state: a stat, a flock, the read of a  *)
(* file, the fsync of a temporary file, the rename, the fsync of the       *)
(* directory.  Any step may fail, any process may die, and the machine may *)
(* lose power and keep only what had reached stable storage.               *)
(*                                                                         *)
(* Data: a key file is the set of its keys, and a key's serial stands for  *)
(* its position in the file (keys are only appended) and for its random    *)
(* secret; 256-bit secrets do not collide, 48-bit ids may.                 *)
(***************************************************************************)
EXTENDS Naturals, FiniteSets

CONSTANTS
    Namespaces,  \* names that match namespacePattern
    BadNames,    \* names that do not
    Installed,   \* namespaces that were set up before, and have no keys yet
    Procs,       \* concurrent callers of the store
    Folds,       \* classes of labels equal under Unicode case folding
    BadFolds,    \* classes of labels that validateLabel rejects
    Ids,         \* key ids ("k_" and 6 random bytes)
    Workload,    \* the calls the processes make
    MaxSerial,   \* bound: IssueKey mints at most this many keys
    Nil          \* no process, no argument, no return

ASSUME NamesAssumption == Namespaces \cap BadNames = {}
ASSUME InstalledAssumption == Installed \subseteq Namespaces
ASSUME SerialAssumption == MaxSerial \in Nat

(***************************************************************************)
(* Files and what they hold.  A file that was encoded but not yet synced   *)
(* is "dirty": its text is readable, but power loss may tear it.           *)
(***************************************************************************)
Files == {"namespace.json", "keys.json"}
Locks == {".namespace.lock", ".keys.lock"}

RawLabels == [fold : Folds, upper : BOOLEAN, padded : BOOLEAN]
Labels    == [fold : Folds, upper : BOOLEAN]
Serials   == 1 .. MaxSerial
Tokens    == [id : Ids, secret : Serials]

Digest(token) == [sha256 |-> token]

\* What IssueKey appends; the token itself is never stored
Key(id, label, s) ==
    [id |-> id, label |-> label,
     digest |-> Digest([id |-> id, secret |-> s]), serial |-> s]

Keys == {Key(id, label, s) : id \in Ids, label \in Labels, s \in Serials}

Contents == [state : {"none", "dirty", "clean", "torn"}, keys : SUBSET Keys]
Missing  == [state |-> "none", keys |-> {}]
Empty    == [state |-> "clean", keys |-> {}]

VARIABLES
    dir,     \* the namespace directory's entry in the data root
    file,    \* the files as every process sees them
    disk,    \* the files as they would be found after power loss
    lock,    \* the holder of each lock file
    pc,      \* the next access of each process
    op,      \* the call each process is executing
    tmp,     \* the temporary file of each process's writeJSONAtomic
    delta,   \* the keys the process's call adds or removes
    serial,  \* keys minted so far
    ret,     \* who returned what in the last step, or Nil
    granted, \* history: keys IssueKey has handed out
    released, \* history: keys RevokeKey took out of the visible file, and
              \* granted ones that power loss took with their namespace
    removed, \* history: those RevokeKey took out and power loss did not undo
    revoked  \* history: keys whose removal RevokeKey has reported

vars == <<dir, file, disk, lock, pc, op, tmp, delta, serial, ret,
          granted, released, removed, revoked>>

(***************************************************************************)
(* The calls: Init(name), IssueKey(name, label), RevokeKey(name, id),      *)
(* Authenticate(name, token) and ListKeys(name).  A token that keyID       *)
(* cannot parse is Nil.                                                    *)
(***************************************************************************)
Names == Namespaces \cup BadNames
Kinds == {"init", "issue", "revoke", "auth", "list"}

Op(kind, ns, arg) == [kind |-> kind, ns |-> ns, arg |-> arg]
Args == RawLabels \cup Ids \cup Tokens \cup {Nil}
Calls == {Op("init", n, Nil) : n \in Names}
           \cup {Op("issue", n, l) : n \in Names, l \in RawLabels}
           \cup {Op("revoke", n, i) : n \in Names, i \in Ids}
           \cup {Op("auth", n, t) : n \in Names, t \in Tokens \cup {Nil}}
           \cup {Op("list", n, Nil) : n \in Names}

Errors == {"nil", "ErrInvalidNamespace", "ErrNamespaceMissing",
           "ErrInvalidLabel", "ErrDuplicateLabel", "ErrKeyMissing",
           "ErrInvalidKey", "other"}
Returns == [proc : Procs, err : Errors]

ASSUME NilAssumption == Nil \notin Procs \cup Calls \cup Tokens \cup Returns
ASSUME WorkloadAssumption == Workload \subseteq Calls

NoTmp == [target |-> "none", state |-> "none", keys |-> {}]
Tmps  == [target : Files \cup {"none"}, state : {"none", "dirty", "clean"},
          keys : SUBSET Keys]

PCs == {"idle", "stat", "lock", "readNamespace", "statKeys", "readKeys",
        "sync", "rename", "syncDir"}

TypeOK ==
    /\ dir \in [Namespaces -> {"none", "volatile", "durable"}]
    /\ file \in [Namespaces -> [Files -> Contents]]
    /\ disk \in [Namespaces -> [Files -> Contents]]
    /\ lock \in [Namespaces -> [Locks -> Procs \cup {Nil}]]
    /\ pc \in [Procs -> PCs]
    /\ op \in [Procs -> Calls \cup {Nil}]
    /\ tmp \in [Procs -> Tmps]
    /\ delta \in [Procs -> SUBSET Keys]
    /\ serial \in 0 .. MaxSerial
    /\ ret \in Returns \cup {Nil}
    /\ granted \in [Namespaces -> SUBSET Keys]
    /\ released \in [Namespaces -> SUBSET Keys]
    /\ removed \in [Namespaces -> SUBSET Keys]
    /\ revoked \in [Namespaces -> SUBSET Keys]

Init ==
    /\ dir = [n \in Namespaces |-> IF n \in Installed THEN "durable" ELSE "none"]
    /\ file = [n \in Namespaces |->
                 [f \in Files |-> IF n \in Installed THEN Empty ELSE Missing]]
    /\ disk = file
    /\ lock = [n \in Namespaces |-> [l \in Locks |-> Nil]]
    /\ pc = [p \in Procs |-> "idle"]
    /\ op = [p \in Procs |-> Nil]
    /\ tmp = [p \in Procs |-> NoTmp]
    /\ delta = [p \in Procs |-> {}]
    /\ serial = 0
    /\ ret = Nil
    /\ granted = [n \in Namespaces |-> {}]
    /\ released = [n \in Namespaces |-> {}]
    /\ removed = [n \in Namespaces |-> {}]
    /\ revoked = [n \in Namespaces |-> {}]

-----------------------------------------------------------------------------
(***************************************************************************)
(* Helpers of the operations.                                              *)
(***************************************************************************)

\* Mutants: the label is stored as it was given; labels are compared byte for
\* byte
TrimNothing(raw) == raw
EqualBytes(l, m) == l = m

\* strings.TrimSpace and strings.EqualFold on labels
Trim(raw) == [fold |-> raw.fold, upper |-> raw.upper]
EqualFold(l, m) == l.fold = m.fold

\* readJSON and readKeyFile succeed
Readable(n, f) == file[n][f].state \in {"dirty", "clean"}

\* Stat finds the file
Found(n, f) == file[n][f].state # "none"

KeysIn(n) == file[n]["keys.json"].keys

\* The keys that IssueKey has handed out and the store still owes
Kept == [n \in Namespaces |-> granted[n] \ released[n]]

\* Mutant of LockFile: RevokeKey takes Init's lock
SplitLockFile(call) ==
    IF call.kind = "issue" THEN ".keys.lock" ELSE ".namespace.lock"

\* The lock file withLock is given
LockFile(call) ==
    IF call.kind = "init" THEN ".namespace.lock" ELSE ".keys.lock"

\* The checks made before the file system is touched
LocalError(call) ==
    IF call.kind = "issue" /\ call.arg.fold \in BadFolds THEN "ErrInvalidLabel"
    ELSE IF call.ns \notin BadNames THEN "nil"
    ELSE IF call.kind = "auth" THEN "ErrInvalidKey" ELSE "ErrInvalidNamespace"

\* The error of existingDir when namespace.json is missing, as the caller sees it
MissingError(call) ==
    IF call.kind = "auth" THEN "ErrInvalidKey" ELSE "ErrNamespaceMissing"

\* Mutant of Unlock: a lock is left behind
LeaveLocked(p) == UNCHANGED lock

\* The deferred LOCK_UN and Close, and what the kernel does when a process dies
Unlock(p) ==
    lock' = [n \in Namespaces |->
               [l \in Locks |-> IF lock[n][l] = p THEN Nil ELSE lock[n][l]]]

Forget(p) ==
    /\ pc' = [pc EXCEPT ![p] = "idle"]
    /\ op' = [op EXCEPT ![p] = Nil]
    /\ tmp' = [tmp EXCEPT ![p] = NoTmp]
    /\ delta' = [delta EXCEPT ![p] = {}]
    /\ Unlock(p)

Return(p, err) ==
    /\ Forget(p)
    /\ ret' = [proc |-> p, err |-> err]

Goto(p, label) ==
    /\ pc' = [pc EXCEPT ![p] = label]
    /\ ret' = Nil

\* writeJSONAtomic up to the end of Encode: the content is in a temporary file
Encode(p, target, keys) ==
    /\ tmp' = [tmp EXCEPT ![p] = [target |-> target, state |-> "dirty",
                                  keys |-> keys]]
    /\ Goto(p, "sync")

store == <<dir, file, disk>>
local == <<op, tmp, delta>>
history == <<granted, released, removed, revoked>>

-----------------------------------------------------------------------------
(***************************************************************************)
(* The steps of a call.                                                    *)
(***************************************************************************)

\* The IssueKey calls under way, each of which may still need a serial
Issuing == {q \in Procs : op[q] # Nil /\ op[q].kind = "issue"}

\* A call is made; Init's MkdirAll comes before its lock
Begin(p, call) ==
    /\ pc[p] = "idle"
    /\ LocalError(call) = "nil"
    /\ call.kind = "issue" => serial + Cardinality(Issuing) < MaxSerial
    /\ op' = [op EXCEPT ![p] = call]
    /\ IF call.kind = "init"
         THEN /\ dir' = [dir EXCEPT ![call.ns] =
                           IF @ = "none" THEN "volatile" ELSE @]
              /\ Goto(p, "lock")
         ELSE /\ dir' = dir
              /\ Goto(p, "stat")
    /\ UNCHANGED <<file, disk, lock, tmp, delta, serial, history>>

\* A call whose name or label is refused
Refuse(p, call) ==
    /\ pc[p] = "idle"
    /\ LocalError(call) # "nil"
    /\ ret' = [proc |-> p, err |-> LocalError(call)]
    /\ UNCHANGED <<store, lock, pc, local, serial, history>>

\* existingDir, and Authenticate's keyID
Stat(p) ==
    /\ pc[p] = "stat"
    /\ LET call == op[p] IN
         IF ~Found(call.ns, "namespace.json")
         THEN Return(p, MissingError(call))
         ELSE IF call.kind = "auth" /\ call.arg = Nil
         THEN Return(p, "ErrInvalidKey")
         ELSE /\ Goto(p, IF call.kind \in {"issue", "revoke"}
                           THEN "lock" ELSE "readKeys")
              /\ UNCHANGED <<lock, local>>
    /\ UNCHANGED <<store, serial, history>>

\* Flock returns in withLock
Lock(p) ==
    /\ pc[p] = "lock"
    /\ lock[op[p].ns][LockFile(op[p])] = Nil
    /\ lock' = [lock EXCEPT ![op[p].ns][LockFile(op[p])] = p]
    /\ Goto(p, IF op[p].kind = "init" THEN "readNamespace" ELSE "readKeys")
    /\ UNCHANGED <<store, local, serial, history>>

\* Mutant of ReadNamespace: a namespace that has its namespace.json is complete
NamespaceSuffices(p) ==
    /\ pc[p] = "readNamespace"
    /\ LET n == op[p].ns IN
         \/ /\ Readable(n, "namespace.json")
            /\ Return(p, "nil")
         \/ /\ ~Found(n, "namespace.json")
            /\ Encode(p, "namespace.json", {})
            /\ UNCHANGED <<lock, op, delta>>
         \/ /\ Found(n, "namespace.json")
            /\ ~Readable(n, "namespace.json")
            /\ Return(p, "other")
    /\ UNCHANGED <<store, serial, history>>

\* Init reads namespace.json and writes it when it is not there
ReadNamespace(p) ==
    /\ pc[p] = "readNamespace"
    /\ LET n == op[p].ns IN
         \/ /\ Readable(n, "namespace.json")
            /\ Goto(p, "statKeys")
            /\ UNCHANGED <<lock, local>>
         \/ /\ ~Found(n, "namespace.json")
            /\ Encode(p, "namespace.json", {})
            /\ UNCHANGED <<lock, op, delta>>
         \/ /\ Found(n, "namespace.json")
            /\ ~Readable(n, "namespace.json")
            /\ Return(p, "other")
    /\ UNCHANGED <<store, serial, history>>

\* Mutant of StatKeys: Init writes keys.json whether or not there is one
ResetKeys(p) ==
    /\ pc[p] = "statKeys"
    /\ Encode(p, "keys.json", {})
    /\ UNCHANGED <<store, lock, op, delta, serial, history>>

\* Init writes an empty keys.json unless there is one
StatKeys(p) ==
    /\ pc[p] = "statKeys"
    /\ IF Found(op[p].ns, "keys.json")
         THEN Return(p, "nil")
         ELSE /\ Encode(p, "keys.json", {})
              /\ UNCHANGED <<lock, op, delta>>
    /\ UNCHANGED <<store, serial, history>>

\* readKeyFile fails under IssueKey, RevokeKey, Authenticate or ListKeys
ReadFails(p) ==
    /\ pc[p] = "readKeys"
    /\ ~Readable(op[p].ns, "keys.json")
    /\ Return(p, "other")
    /\ UNCHANGED <<store, serial, history>>

\* The key of the next serial
NewKey(id, label) == Key(id, label, serial + 1)

Taken(n, label) == \E k \in KeysIn(n) : EqualFold(k.label, label)

\* IssueKey under the lock, up to its writeJSONAtomic
IssueKey(p) ==
    /\ pc[p] = "readKeys"
    /\ op[p].kind = "issue"
    /\ LET n == op[p].ns
           label == Trim(op[p].arg)
       IN /\ Readable(n, "keys.json")
          /\ \/ /\ Taken(n, label)
                /\ Return(p, "ErrDuplicateLabel")
                /\ UNCHANGED serial
             \/ /\ ~Taken(n, label)
                /\ serial < MaxSerial
                /\ serial' = serial + 1
                /\ \E id \in Ids :
                     /\ delta' = [delta EXCEPT ![p] = {NewKey(id, label)}]
                     /\ Encode(p, "keys.json", KeysIn(n) \cup {NewKey(id, label)})
                /\ UNCHANGED <<lock, op>>
    /\ UNCHANGED <<store, history>>

\* RevokeKey under the lock, up to its writeJSONAtomic
RevokeKey(p) ==
    /\ pc[p] = "readKeys"
    /\ op[p].kind = "revoke"
    /\ LET n == op[p].ns
           match == {k \in KeysIn(n) : k.id = op[p].arg}
       IN /\ Readable(n, "keys.json")
          /\ \/ /\ match = {}
                /\ Return(p, "ErrKeyMissing")
             \/ /\ match # {}
                /\ delta' = [delta EXCEPT ![p] = match]
                /\ Encode(p, "keys.json", KeysIn(n) \ match)
                /\ UNCHANGED <<lock, op>>
    /\ UNCHANGED <<store, serial, history>>

\* Mutant of Accepts: the secret is not compared
AcceptsId(keys, token) == \E k \in keys : k.id = token.id

\* The first key of the file with the token's id decides
Accepts(keys, token) ==
    \E k \in keys :
      /\ k.id = token.id
      /\ \A j \in keys : j.id = token.id => k.serial <= j.serial
      /\ k.digest = Digest(token)

\* Mutant of Authenticate: the keys of every namespace are tried
AuthenticateAnywhere(p) ==
    /\ pc[p] = "readKeys"
    /\ op[p].kind = "auth"
    /\ Readable(op[p].ns, "keys.json")
    /\ Return(p, IF \E n \in Namespaces : Accepts(KeysIn(n), op[p].arg)
                   THEN "nil" ELSE "ErrInvalidKey")
    /\ UNCHANGED <<store, serial, history>>

\* Authenticate reads keys.json without a lock and compares digests
Authenticate(p) ==
    /\ pc[p] = "readKeys"
    /\ op[p].kind = "auth"
    /\ Readable(op[p].ns, "keys.json")
    /\ Return(p, IF Accepts(KeysIn(op[p].ns), op[p].arg)
                   THEN "nil" ELSE "ErrInvalidKey")
    /\ UNCHANGED <<store, serial, history>>

\* ListKeys reads keys.json without a lock
ListKeys(p) ==
    /\ pc[p] = "readKeys"
    /\ op[p].kind = "list"
    /\ Readable(op[p].ns, "keys.json")
    /\ Return(p, "nil")
    /\ UNCHANGED <<store, serial, history>>

-----------------------------------------------------------------------------
(***************************************************************************)
(* The rest of writeJSONAtomic.                                            *)
(***************************************************************************)

\* Mutant of SyncTmp: the old file is removed before the rename
SyncTmpUnlink(p) ==
    /\ pc[p] = "sync"
    /\ tmp' = [tmp EXCEPT ![p].state = "clean"]
    /\ file' = [file EXCEPT ![op[p].ns][tmp[p].target] = Missing]
    /\ Goto(p, "rename")
    /\ UNCHANGED <<dir, disk, lock, op, delta, serial, history>>

\* tmp.Sync and Close
SyncTmp(p) ==
    /\ pc[p] = "sync"
    /\ tmp' = [tmp EXCEPT ![p].state = "clean"]
    /\ Goto(p, "rename")
    /\ UNCHANGED <<store, lock, op, delta, serial, history>>

\* The rename: every later read sees the new file, power loss may undo it
Rename(p) ==
    /\ pc[p] = "rename"
    /\ file' = [file EXCEPT ![op[p].ns][tmp[p].target] =
                  [state |-> tmp[p].state, keys |-> tmp[p].keys]]
    /\ released' = [released EXCEPT ![op[p].ns] =
                      IF op[p].kind = "revoke" THEN @ \cup delta[p] ELSE @]
    /\ removed' = [removed EXCEPT ![op[p].ns] =
                     IF op[p].kind = "revoke" THEN @ \cup delta[p] ELSE @]
    /\ Goto(p, "syncDir")
    /\ UNCHANGED <<dir, disk, lock, local, serial, granted, revoked>>

\* What the caller is promised once the call has returned nil
Promise(p) ==
    /\ granted' = [granted EXCEPT ![op[p].ns] =
                     IF op[p].kind = "issue" THEN @ \cup delta[p] ELSE @]
    /\ revoked' = [revoked EXCEPT ![op[p].ns] =
                     IF op[p].kind = "revoke" THEN @ \cup delta[p] ELSE @]
    /\ UNCHANGED <<released, removed>>

\* Mutant of SyncDir: the directory is not synced
SkipSyncDir(p) ==
    /\ pc[p] = "syncDir"
    /\ IF tmp[p].target = "namespace.json"
         THEN /\ Goto(p, "statKeys")
              /\ tmp' = [tmp EXCEPT ![p] = NoTmp]
              /\ UNCHANGED <<lock, op, delta, history>>
         ELSE /\ Promise(p)
              /\ Return(p, "nil")
    /\ UNCHANGED <<store, serial>>

\* d.Sync puts every entry of the directory on stable storage
SyncDir(p) ==
    /\ pc[p] = "syncDir"
    /\ disk' = [disk EXCEPT ![op[p].ns] = file[op[p].ns]]
    /\ IF tmp[p].target = "namespace.json"
         THEN /\ Goto(p, "statKeys")
              /\ tmp' = [tmp EXCEPT ![p] = NoTmp]
              /\ UNCHANGED <<lock, op, delta, history>>
         ELSE /\ Promise(p)
              /\ Return(p, "nil")
    /\ UNCHANGED <<dir, file, serial>>

-----------------------------------------------------------------------------
(***************************************************************************)
(* Failures.                                                               *)
(***************************************************************************)

\* The next access of the call fails and the call returns its error
IOError(p) ==
    /\ pc[p] # "idle"
    /\ Return(p, IF pc[p] = "stat" /\ op[p].kind = "auth"
                   THEN "ErrInvalidKey" ELSE "other")
    /\ UNCHANGED <<store, serial, history>>

\* The process dies; the kernel drops its locks
Crash(p) ==
    /\ pc[p] # "idle"
    /\ Forget(p)
    /\ ret' = Nil
    /\ UNCHANGED <<store, serial, history>>

\* The kernel writes back a directory entry in its own time
WriteBack(n, f) ==
    /\ disk[n][f] # file[n][f]
    /\ disk' = [disk EXCEPT ![n][f] = file[n][f]]
    /\ ret' = Nil
    /\ UNCHANGED <<dir, file, lock, pc, local, serial, history>>

\* Nothing syncs the data root, so a new directory's entry reaches stable
\* storage only this way
WriteBackRoot(n) ==
    /\ dir[n] = "volatile"
    /\ dir' = [dir EXCEPT ![n] = "durable"]
    /\ ret' = Nil
    /\ UNCHANGED <<file, disk, lock, pc, local, serial, history>>

\* What is found again after power loss
Survives(n, f) ==
    IF dir[n] # "durable" THEN Missing
    ELSE [state |-> IF disk[n][f].state = "dirty" THEN "torn" ELSE disk[n][f].state,
          keys |-> disk[n][f].keys]

\* A namespace whose entry in the data root is not there yet goes with all its
\* keys, those that IssueKey has handed out included
PowerLoss ==
    /\ dir' = [n \in Namespaces |-> IF dir[n] = "durable" THEN "durable" ELSE "none"]
    /\ file' = [n \in Namespaces |-> [f \in Files |-> Survives(n, f)]]
    /\ disk' = file'
    /\ lock' = [n \in Namespaces |-> [l \in Locks |-> Nil]]
    /\ pc' = [p \in Procs |-> "idle"]
    /\ op' = [p \in Procs |-> Nil]
    /\ tmp' = [p \in Procs |-> NoTmp]
    /\ delta' = [p \in Procs |-> {}]
    /\ ret' = Nil
    /\ released' = [n \in Namespaces |->
                      IF dir[n] = "durable" THEN released[n]
                      ELSE released[n] \cup granted[n]]
    /\ removed' = revoked
    /\ UNCHANGED <<serial, granted, revoked>>

-----------------------------------------------------------------------------
Step(p) ==
    \/ Stat(p) \/ ReadNamespace(p) \/ StatKeys(p) \/ ReadFails(p)
    \/ IssueKey(p) \/ RevokeKey(p) \/ Authenticate(p) \/ ListKeys(p)
    \/ SyncTmp(p) \/ Rename(p) \/ SyncDir(p)

Next ==
    \/ \E p \in Procs :
         \/ \E call \in Workload : Begin(p, call) \/ Refuse(p, call)
         \/ Lock(p)
         \/ Step(p)
         \/ IOError(p)
         \/ Crash(p)
    \/ \E n \in Namespaces, f \in Files : WriteBack(n, f)
    \/ \E n \in Namespaces : WriteBackRoot(n)
    \/ PowerLoss

Spec == Init /\ [][Next]_vars

\* A process that can run does, and flock(2) wakes its waiters in turn;
\* nothing forces a call to be made or a failure to happen
Fairness == \A p \in Procs : WF_vars(Step(p)) /\ SF_vars(Lock(p))

LiveSpec == Spec /\ Fairness

-----------------------------------------------------------------------------
(***************************************************************************)
(* Properties.                                                             *)
(***************************************************************************)

\* A key whose token IssueKey returned is in keys.json, and in the copy power
\* loss leaves behind, until a RevokeKey takes it out or a power loss finds that
\* its namespace's entry in the data root, which nothing syncs, never reached the
\* disk; so is the namespace.json without which every request for it is refused.
\* Two administrators' calls that overlap, a failed write, a crash, an Init run
\* again, or power loss once the entry is there lose no key.
GrantedKeysKept ==
    \A n \in Namespaces : Kept[n] # {} =>
      \A view \in {file[n], disk[n]} :
        /\ \A f \in Files : view[f].state = "clean"
        /\ Kept[n] \subseteq view["keys.json"].keys

\* A key whose revocation was reported is in no keys.json that any process
\* reads, nor in the one found after power loss: a concurrent writer that had
\* read the old file, or a restart, does not bring it back.
RevokedKeysGone ==
    \A n \in Namespaces :
      revoked[n] \cap (KeysIn(n) \cup disk[n]["keys.json"].keys) = {}

\* ErrDuplicateLabel does its work: two keys of a namespace never have labels
\* equal but for case and outer space, whichever calls overlap.
LabelsUnique ==
    \A n \in Namespaces : \A view \in {file[n], disk[n]} :
      \A j, k \in view["keys.json"].keys :
        j.label.fold = k.label.fold => j = k

\* Nobody waits for ever behind the two locks: a lock that is taken belongs to a
\* call on that namespace which is past its flock and does not wait for another,
\* so that its holder can go on, and no call that has returned, failed or died
\* left one behind.
LocksServed ==
    \A n \in Namespaces, l \in Locks : lock[n][l] # Nil =>
      LET p == lock[n][l] IN
      /\ pc[p] \notin {"idle", "stat", "lock"}
      /\ op[p].ns = n /\ LockFile(op[p]) = l

\* An Init that reports success leaves a namespace that works, both files there
\* and synced before they were named, whatever an Init that failed, died or lost
\* power half-way had left, and whoever else is at work on the namespace.
InitCompletes ==
    [][\A p \in Procs :
         (op[p] # Nil /\ op[p].kind = "init" /\ ret' = [proc |-> p, err |-> "nil"])
           => \A f \in Files : file'[op[p].ns][f].state = "clean"]_vars

\* A token Authenticate accepts belongs to a key of that namespace's file, one
\* not reported revoked and registered in no other namespace.
AcceptedKeyIsLive ==
    [][\A p \in Procs :
         (op[p] # Nil /\ op[p].kind = "auth" /\ ret' = [proc |-> p, err |-> "nil"])
           => LET n == op[p].ns IN
              \E k \in KeysIn(n) :
                /\ k.digest = Digest(op[p].arg)
                /\ k \notin revoked[n]
                /\ \A m \in Namespaces \ {n} : k \notin KeysIn(m)
      ]_vars

\* Authenticate takes no lock, and still no step of it refuses the token of a
\* granted key while the file is being replaced, keys that come and go included
\* (unless an older key has the same random id: the first one in the file
\* decides).
GrantedKeysAccepted ==
    [][\A p \in Procs :
         (op[p] # Nil /\ op[p].kind = "auth" /\ ret' # Nil) =>
           \A k \in Kept[op[p].ns] :
             (/\ k.digest = Digest(op[p].arg)
              /\ \A j \in KeysIn(op[p].ns) : j.id = k.id => k.serial <= j.serial
              /\ Stat(p) \/ ReadFails(p) \/ Authenticate(p))
                => ret'.err = "nil"]_vars

\* The store keeps the promises of KeyRegistry: the keys the running system
\* sees in keys.json, and those it owes, change only as that specification
\* allows.
Visible == [n \in Namespaces |-> KeysIn(n)]

Registry == INSTANCE KeyRegistry WITH registry <- Visible, granted <- Kept

RefinesRegistry == Registry!Spec

\* Every call returns (or its process dies): the two locks are never waited
\* for in a cycle and are released on every path, error returns included.
CallsReturn == \A p \in Procs : pc[p] # "idle" ~> pc[p] = "idle"

=============================================================================
