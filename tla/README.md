# Verification of contextq-server

TLA+ modules that model contextq-server, TLC configurations that check them on
small instances, and TLAPS proofs of what matters most for every instance. All
of it is written from the Go sources; file and line references below are to the
repository.

## The system

contextq-server puts the `contextq` command line on the network. One process
serves `POST /v1/{namespace}/exec`, authenticates the bearer key, and runs
`contextq --json --root <namespace>/contextq <args>` as a subprocess.
Administrators create namespaces and keys with the same binary, on the host or
over SSH from a workstation that keeps a file of targets.

| Component | State | Operations | Meets the others through |
| --- | --- | --- | --- |
| Key store, `internal/namespace/store.go` | per namespace `namespace.json`, `keys.json`, two lock files | `Init`, `IssueKey`, `RevokeKey`, `ListKeys`, `Authenticate` | files shared by the server and every administrator's process |
| HTTP endpoint, `internal/api/server.go` | semaphore of slots, one context per request | `execute`, `health` | calls `Authenticate` and the runner |
| Runner, `internal/api/runner.go` | the subprocess and its bounded output | `Run` | kills and reaps a process that changes queues |
| Server process, `runServe` in `internal/app/app.go` | serving, draining, ended | start, signal, shutdown | systemd stops its control group and restarts it |
| Target configuration, `internal/target/config.go` and the commands in `internal/app/remote.go` | `~/.contextq-server`: targets, default, tokens | `target add/use/remove`, `remote key add/revoke`, `remote-init` | one file, several shells; the store over SSH |
| Remote command, `exec` in `internal/app/remote.go` | none that outlives it | reads and prints an answer | HTTP to the endpoint |
| Host bootstrap, `internal/setup/bootstrap.go` and `remote-init` in `internal/app/remote.go` | staged and installed binaries, unit, Caddy files of the host | the generated script, the command around it | replaces the running server; the script outlives its command |
| SSH transport, doctor, version, build | none that outlives a command | | |

What is hard, and what makes each part correct:

* **Key store.** Several processes read, change and replace the same file. Two
  different locks guard it (`Init` takes `.namespace.lock`, the others
  `.keys.lock`), authentication takes none, any step can fail, a process can
  die, the machine can lose power. Correct means: a key that was handed out
  stays until it is revoked, a key whose revocation was reported never
  returns, labels are unique, an `Init` that reports success leaves a complete
  namespace, no reader sees a torn file, a token opens one namespace, every call
  returns.
* **Output.** os/exec copies both pipes into bounded buffers while the command
  writes, ends or is killed, and `exec` reads the answer up to a limit of its
  own. Correct means: what is answered as a success is the whole output, and
  `exec` prints exactly that, up to its limit, when it exits with 0.
* **Endpoint and runner.** Handlers compete for slots while their deadlines
  pass and clients leave; the command may already have changed its queue when
  it is killed. Correct means: slots are counted, commands are bounded, an
  answer does not mislead the client about the effect, revoked keys are shut
  out, and nothing hangs but the writing of an answer to a client that stays and
  does not read.
* **Process.** Shutdown, its timeout, death and restart race with handlers.
  Correct means: exit status 0 only when everything was answered, and no
  command left behind.
* **Workstation.** Commands save a whole file they read minutes before, and
  tokens are shown once. Correct means: the default stays valid and a token
  that arrived is printed or saved.
* **Bootstrap.** A shell script of many replacements that may stop anywhere, be
  run again, outlive its command, or run twice at once. Correct means: a script
  that completes undisturbed has made the host what its plan says, no upgrade
  takes an installed server away, and a script refuses what earlier ones left
  behind in a few known cases only.

`PROJECT.json` lists the hazards line by line with the properties that cover
them.

## The modules

| Module | What it is |
| --- | --- |
| `KeyRegistry` | what the key store promises: keys are added, granted, removed, retired; power loss may undo only what was not reported, or take a whole namespace |
| `KeyStore` | the key store, one step per access to shared state; its properties; the refinement of `KeyRegistry` |
| `KeyStoreInv` | the inductive invariant of the proofs |
| `KeyStoreProofs` | the inductive invariant and the state properties of `KeyStore`, proved |
| `KeyStoreRefinement` | `KeyStore` implements `KeyRegistry`, proved |
| `KeyStoreAuthProofs` | the properties of lock-free authentication, proved |
| `MCKeyStore` | workloads and symmetries for TLC |
| `CommandService` | what the endpoint promises its clients: a request is let in while its key is registered, takes effect at most once, and is answered in agreement with the effect or not at all |
| `ExecServer` | handler, subprocess, process and supervisor, over `KeyRegistry`; the refinement of `CommandService` |
| `ExecServerInv`, `ExecServerProofs` | its inductive invariant and theorems |
| `MCExecServer` | small instances |
| `Deployment` | the handlers of `ExecServer` as callers of `KeyStore`, beside the administrators: the server on the files; the refinement of `ExecServer` |
| `DeploymentInv`, `DeploymentProofs` | its invariant and theorems |
| `MCDeployment` | calls and symmetry |
| `CommandOutput`, `CommandOutputProofs` | the output of one command, from the pipes to what `exec` prints, and its theorems |
| `TargetConfig` | the workstation: commands that load, change and save the target file |
| `TargetConfigInv`, `TargetConfigProofs` | its inductive invariant and theorems |
| `MCTargetConfig` | commands and symmetry |
| `Bootstrap` | `remote-init --apply`, its script command by command, systemd and Caddy |
| `BootstrapInv`, `BootstrapProofs` | its inductive invariant and theorems |
| `MCBootstrap` | binaries on a workstation, plans, symmetry |

Three refinements tie the server and the store together. `KeyStore` implements
`KeyRegistry`. `ExecServer` is written over `KeyRegistry`: `ChangeKeys` is a
step of that specification and `Authenticate` one read of its `registry`.
`Deployment` puts the two on the same files, with the stat and the read of
`Authenticate` as separate steps among the writers', and implements
`ExecServer` again; so neither the promises of the store nor the single step of
`Authenticate` is an assumption. `ExecServer` in turn implements
`CommandService`, which is all a client needs to know. `CommandOutput` looks
inside one command, whose output `ExecServer` abstracts to a choice, whether it
went over the limit; both give Run's verdict in the same order. `TargetConfig`
takes over from `Bootstrap` at the steps of `remote-init` that follow the
script.

Each model has a few operators called mutants. They stand before the definition
they would replace, differ from it as a plausible bug would, and are used by no
definition; `PROJECT.json` names the property that each breaks.

### KeyStore and store.go

* `file[n][f]` is what every process reads; `disk[n][f]` is what power loss
  would leave; `dir[n]` says whether the namespace's entry in the data root has
  reached stable storage, which nothing in the code forces (`MkdirAll`,
  store.go:100, is followed by no sync). `Installed` names the namespaces that an
  instance starts with, set up and written back.
* A key file is the set of its keys. A key's `serial` stands for its place in
  the file, since keys are only appended, and for its 256-bit secret, which is
  taken never to repeat; the 48-bit `id` may repeat. A label has a class under
  case folding, a case and outer space.
* A call is `Begin`, `Stat` (`existingDir`), `Lock` (`withLock`), the read and
  decision (`ReadNamespace`, `StatKeys`, `IssueKey`, `RevokeKey`,
  `Authenticate`, `ListKeys`), then for a writer `SyncTmp`, `Rename`, `SyncDir`
  (`writeJSONAtomic`). `Return` stands for the deferred unlock and close.
* `IOError` may end a call at any step, also after the rename; `Crash` ends it
  with no answer and the kernel drops the lock; `PowerLoss` ends every call and
  keeps `Survives`.
* `granted`, `released`, `removed` and `revoked` are history: what was promised to
  callers and what has ended a promise. A promise is made where the code returns
  nil, in `Promise`, whether or not the namespace's entry has been written back.
  A granted key is released by the `RevokeKey` that takes it out of the file, and
  by a power loss that takes its namespace because the entry never reached the
  disk: a loss that the code allows and the model reaches, and the only one.
* A `Begin` of `Init` stands for lines 95-105 too, so an `Init` may be run again
  at any time, beside other calls and after one that died half-way.
* Not modelled: `List` and `Exists`, which only read; the name stored inside
  `namespace.json`, which always is the directory's; file modes.

### ExecServer and server.go, runner.go, app.go

* `phase[r]` is the handler's place between two points where others can act:
  `auth` (server.go:82), `body` (91-117), `queue` (the select, 121), `run`
  (before `cmd.Start`), `wait` (`cmd.Wait`), `finish` (129-153), `write` (245).
* `ctx[r]` is the context: the deadline is set at server.go:119, after the body
  is read, and the client's departure cancels it. `slots` is `len(s.semaphore)`.
* `select` may take the slot although the context is done, as Go chooses among
  ready cases at random; `cmd.Start` then starts nothing.
* `Finish` keeps Run's order: output limit, then context, then exit status. An
  answer that the handler makes itself fits net/http's buffer and is written in
  this step. The command's own answer can be as large as `OutputLimit` and is
  written in `write`: `Sent` when the client has taken enough of it, `WriteFails`
  when the client is gone. The http.Server sets no `WriteTimeout`, so nothing
  else ends this phase, and the slot is held until it ends.
* `contextq` is external: it commits at most once, exits 0 only after its
  commit, with an error code only without it, or dies by a signal either way.
  An error's `Codes` are a constant; `ErrorStatus` maps them.
* `Shutdown` closes the listener; a request on a connection that was accepted
  before may still come (`Arrive`). `ShutdownTimeout` is the expiry of its
  context, after which `runServe` returns an error whatever handlers are left;
  `Abort` is an error of `ListenAndServe`, or death. `KillGroup` and `Restart`
  are systemd's, from the unit that bootstrap.go:106 writes (no `KillMode`, so
  the control group).
* Not modelled: the wording of argument checks (a request is accepted or
  refused), `/healthz`, logs, and the two 401 answers after the body
  (server.go:108-117), which cannot happen because `Authenticate` has checked
  the name by then.

* `CommandService` sees a request as absent, presented, admitted or settled; the
  mapping is `Stage`. A request whose answer was lost stays admitted while its
  command runs, since that may still take effect.

### Deployment, server.go and store.go

* A handler in `auth` is a caller of the store: `Arrive` begins the call,
  `Authenticating` is each access of it (with `IOError`) and, when it returns,
  the rest of server.go:82-89. A request without a bearer token takes the way of
  one whose token `keyID` cannot parse: both get the same 401 and nothing else
  happens.
* A client presents a token, not a key. `KeyFor` names the key the token was
  made for, which is what `ExecServer` calls the request's key; `Presentable`
  says that nobody presents a secret that is yet to be drawn, but anybody may
  present one under a wrong id, in a wrong namespace, after its revocation, or
  after power loss took it with its namespace (`Shown`).
* Administrators run in processes of their own (`Administer`). When the server
  dies its calls are left behind and end (`Abandoned`); systemd starts the next
  server when they and the commands are gone (`Stopped`), and power fails only
  while the server is down: a power loss under a running server is `Abort`
  followed by `Outage`.
* A name that `namespacePattern` refuses is not requested here; `KeyStore` has
  that answer (`Refuse`).

### CommandOutput, runner.go, server.go and remote.go

* A byte is its position on its stream, so a hole, a repetition and a cut are
  all told apart. `Copy` reads a chunk of any size of a pipe; `Written` is
  `boundedBuffer.Write`.
* `Respond` is possible once the child is gone and both pipes are drained, as
  `cmd.Run` waits for its copying goroutines; its verdict has Run's order.
* `exec` reads at most `ClientLimit` bytes and does not notice more. The two
  limits are independent constants: both are 4 MiB by default, and `serve
  --output-limit` takes any positive number. `AnswersExact` says what `exec`
  prints for any two limits, a cut at exactly `ClientLimit` included;
  `AnswersWhole` that nothing is cut, which holds when the server's limit is no
  larger.

### TargetConfig, config.go and remote.go

* `Load` is `loadTargets`, `Resolve` and the checks before anything is saved;
  `Updated` is what the command makes of what it loaded; `Save` is the rename.
* `RemoteKeyAdd` and `RemoteKeyRevoke` take effect on the server and may lose
  their answer; `RemoteReturns` is every remote failure without effect.
* `fate` is history: what became of each token the server issued.
* The file is replaced by one rename; power loss on the workstation is not
  modelled.
* Commands that change nothing (`target list`, `exec`, `doctor`, `remote key
  list`, a preview of `remote-init`) and the validation of URLs and paths are
  left out.

### Bootstrap, bootstrap.go and remote.go

* A run is one `remote-init --apply`. `local` is its command: `Start` resolves
  the binaries (`resolveBootstrapBinaries`), stages them and starts the script,
  `Answer` is its orderly end, `LoseConnection`, `Cleanup` and `Interrupt` the
  other ways: the script goes on, and the deferred removal of the staging
  directory may take the binaries from under it.
* `Script` lists the shell commands of `BootstrapScript` in order; `pc` is the
  place in it. `install` and `cat >` are two steps, since between them a file is
  there and not whole; `grep` and the append are two, since another script may
  come between.
* A file is missing, empty, whole, or cut (no text of any plan), and has a set of
  `writers`: the runs that have opened it and have yet to write. `install` makes
  its `.new` file anew, so a writer that was there before writes into a file that
  is gone; `cat >` empties the one that is there, so two overlapping runs write
  into one file, which gets the text of the later write or a mixture
  (`Written`). A write goes where the file has been moved, as in Unix.
* `set -e` is `Refuse`: a command that finds the host unfit ends the script.
  `Fault` is every other end: a command that fails for reasons of its own, a
  signal, an incomplete script on standard input.
* systemd, Caddy and the shell are external. `Started` says when a server comes
  up: the unit's user exists, unit and binaries are whole and the server's
  architecture is the host's. `restart` succeeds whatever becomes of the
  process, as the unit has the default type; `is-active`, the last command,
  finds out. Caddy refuses a site that is configured twice, and a part of a
  snippet; one that is being written it may find either way. `systemctl reload
  caddy` fails when Caddy is down, which it is after a reboot with a
  configuration that Caddy refuses.
* `RerunSucceeds` lists the cases in which a script refuses though no other ran
  beside it, each by the state that causes it: `BinariesGone` (its staged
  binaries were removed after its command had ended), `LeftByOverlap` (a second
  import, or a part of the snippet of another target), `SiteTaken` (a snippet of
  another target has the same site), `CaddyDown`. Every other thing that scripts
  leave behind is repaired.
* `shared`, `tainted`, `settled` and `installed` are history: whether another
  script ran beside this one, whether scripts have overlapped since the last
  that completed alone, and what that one installed.
* Not modelled: power loss on the host without a sync (a reboot keeps written
  data), systemd's further attempts after a start that failed, and a staging
  directory that is left behind when the upload fails, whose name is random.

## What TLC checks

| Run | Instance | Shows |
| --- | --- | --- |
| `store_admins` | 1 namespace, not there at first, 2 processes, 2 ids, 2 label classes, 2 keys issued | `TypeOK`, `GrantedKeysKept`, `RevokedKeysGone`, `LabelsUnique`, `LocksServed`; `InitCompletes`: an `Init` that reports success leaves both files, whatever an earlier one left; `RefinesRegistry`: the files implement `KeyRegistry`; `Inv`, the invariant of the proofs |
| `store_tokens` | 2 namespaces that are set up, 2 ids, 2 processes, 2 keys issued and revoked; every token that may exist is tried meanwhile | `AcceptedKeyIsLive`, `GrantedKeysAccepted` |
| `store_live` | the calls that lock, and one that does not | `CallsReturn` |
| `server_safety` | 2 requests, 1 slot, 1 key, 2 error codes | `TypeOK`, `SlotsCounted`, `ChildrenBounded`, `DefiniteAnswers`, `RevokedKeysShutOut`, `GracefulExit`, `Inv`; `RefinesService`: the handlers implement `CommandService` |
| `deployment` | 1 administrator, 1 handler, 2 ids, 1 key issued; every fault of both parts | `RefinesServer`: server and store together implement `ExecServer`; `RevocationHolds`; `SystemInv`, the invariant of the proofs |
| `server_live` | 2 requests, 1 slot, `contextq` may hang, clients may read nothing | `RequestsEnd`, `CommandsEnd`, `ShutdownEnds` |
| `command_output` | the server's limit 4 bytes, `exec`'s 3, up to 5 on each stream | `BufferExact`, `RelayedWhole`, `AnswersExact`, `Inv` |
| `targets_shells` | 2 shells, 2 targets, 2 tokens | `TypeOK`, `DefaultKept`, `TokensDelivered`, `Inv`, `AloneIsExact` |
| `bootstrap` | 2 runs; 4 orders over 2 releases, 2 addresses, 2 target names and 2 sites, one of them with a binary for another architecture | `TypeOK`, `Converged`, `NothingTorn`, `ServiceKept`, `RerunSucceeds`, `Inv` |
| `server_statuses` | | refutes docs/api.md's list of statuses: 503 is missing |
| `server_revocation` | | refutes "effective immediately": a waiting request still runs |
| `targets_init` | 2 shells, 1 target | refutes "does not issue another API key when the target already has one" |

**Bounds.** Two processes (or shells) are enough for every race between a
reader and a writer, two writers, or a call and its retry; `MaxSerial = 2` lets
a key be revoked and another take its label or its id. One slot and two
requests make the limit bind: one request holds, one waits. One namespace
suffices where namespaces share nothing; `store_tokens` has two. In
`server_safety` the two error codes are one that means 400 and one that means
502; 404 and 409 differ from 400 in no property. In `deployment` one handler is
enough, since handlers meet only at the semaphore, which is `server_safety`'s
subject, and one key with two ids gives tokens that are right, of the wrong id,
revoked or garbage. In `store_tokens` the second key may have the id of the
first or another, and comes while the first is there, is being revoked, or is
gone. `MaxSerial` is the only bound on a counter there; in `KeyStore` it is a
guard of `Begin`, so that no call gets stuck at the bound and liveness is not
affected. In `command_output` an output may end below, between, at and above
the two limits (`MaxWritten`). In `bootstrap`, `MaxTroubles = 1` allows one
fault, overlap or lost connection between two scripts that complete alone, in
any of the upgrades that follow one another without end; the proofs hold for
any number. Symmetry is used only in runs without liveness.

**Fairness.** `KeyStore`: a process that can take its next step does (weak),
and a waiter of `flock` is woken in turn (strong, since other processes may take
the lock in between). `ExecServer`: goroutines run, the deadline and
the shutdown's timer fire, exec's watcher kills, systemd kills the group (all
weak). Nothing is assumed of clients, administrators, `contextq`, or of failures;
in particular `Sent` has no fairness, because a client may stay and read nothing
and no `WriteTimeout` ends that. So `RequestsEnd` promises the way to the writing
of an answer, and the rest only for a client that leaves, and `ShutdownEnds`
rests on `ShutdownTimeout`: `Shutdown` itself may wait for ever.

**Deadlock** is checked in every run but `command_output`, which follows one
command to its end.

**What the findings show.** (1) server.go:125 answers 503 where the deadline
passes before a slot is free; the documented table has no such row. (2) A key is
checked once per request, before the body is read and a slot is free, so a
command can start up to the request timeout after the revocation was reported.
The property that does hold is `RevokedKeysShutOut`: a request that comes after
the report is refused. (3) `remote-init` decides from the configuration it
loaded before uploading and installing.

## What is proved

Every invariant and every action property of the passing runs is proved too, and
so are the refinements: for all values of the constants that satisfy the named
ASSUMEs, so for any number of namespaces, processes, requests, shells, runs and
faults. `PROJECT.json` lists the theorems.

**KeyStore** (`KeyStoreProofs`). The safety properties are not inductive: that
a revoked key stays away depends on what a writer in the middle of its call is
about to rename into place. `Inv` adds, in this order, what each step needs:
`Control` (which state goes with which program counter), `Locking` (a call past
`withLock` holds its lock), `Whole` (files are synced before they are named),
`Writers` (what a writer of `keys.json` read under the lock is still there
until its own rename, also beside an `Init` under the other lock, because
`Init` writes the file only when there is none and a writer past `existingDir`
has found one), `PastStat` (what such a writer has found stays found, and an
`Init` past `namespace.json` has found or renamed it), and `Fresh` (no key has
a serial not yet given out). Each part has one lemma with one step per action.
From it follow `TypeCorrect`, `GrantedSafe`, `RevokedSafe`, `LabelsSafe` and
`FilesSafe`. `LocksSafe` is the converse of `Locking`: a lock that is taken has
a holder past its flock that waits for no other, so that no set of callers can
block itself; a call takes one lock, and gives it back on every way out
(`ServedForget`).

**KeyStore implements KeyRegistry** (`KeyStoreRefinement`). `Refinement` maps
initial states to initial states and every step to a step or a stutter.
`Traced` says where the keys of a call under way belong: an issued key is
nowhere before its rename, a revoked one is in the file before and among the
removed after, and what power loss may bring back is registered or removed.
With it a `Rename` is `Add` or `Remove`, the directory sync `Grant` or
`Retire`, and `PowerLoss` the abstract one, in which a namespace keeps some of
what was not reported, or is lost as a whole.

**Authentication** (`KeyStoreAuthProofs`). It takes no lock, so `AcceptedSafe`
and `GrantedAccepted` speak of what was true at some moment, or throughout, of
a call. `Apart` adds that every key belongs to one namespace: no file of another
has it and no call on another has it in hand. `InitSafe` stands here too, because
it is an action property like those two: an `Init` may return at `StatKeys`,
having found both files, or after its directory sync, having written the second.

**ExecServer** (`ExecServerProofs`). `Inv` says what is left of a handler, its
command and its slot at each phase: `Registry` (what the server relies on in the
store, preserved by every step of `KeyRegistry`), `Requested`, `Commanded` and
`Supervised` (no handler outlives the process, and a command that does is gone
before the next process serves). `SlotsSafe` counts handlers: each action moves
at most one into or out of the set that holds slots (`HoldersMoved`), and
`ChildrenSafe` follows because, while the process is up, every running command
has a handler in that set (`CommandsHoldSlots`).
`AnswersSafe`, `RevocationSafe` and `ExitSafe` are the other theorems.

**ExecServer implements CommandService** (`ExecServerProofs`). `Refinement`:
`Authenticate` is `Admit` or the answer 401, an answer of the handler settles its
request, the end of a command settles one whose answer was lost, and the death
of the process settles at once every request without a running command
(`AbortServes`). What each step needs beyond its own guard, for instance that a
command which ended with an error code has had no effect and that no command of
a settled request runs, comes from `Inv`.

**Deployment implements KeyStore and ExecServer** (`DeploymentProofs`).
`StoreImplemented`: the server is one of the callers that `KeyStore` was verified
for. `ServerImplemented`: the call of a handler maps to stutters up to its
return, and the return to `Authenticate`, for which the key the request came
with must be registered at that moment. That is what `SystemInv` says: while a
handler is in `auth`, a key of the file with the token's digest can only be the
one that the token was for when the request came (`Asks`). It stays so while
administrators write, because a key that shows meanwhile has a secret of its own
(`AsksAmongWriters`), and that needs `Secrets`: no two keys ever drawn have one
secret, those in the hands of an `IssueKey` and those that power loss may bring
back included (`DrawnStep`). `ShutOut` carries a revocation from the shell of an
administrator to the subprocess: `RevocationSafe`. The other safety theorems of
`ExecServer` hold of the deployment because it implements `ExecServer`; the
prover cannot use a theorem of a module through INSTANCE, so this last step is
the reader's: a behavior of the deployment, seen through the mapping, is one of
`ExecServer`, and every one of those has the property.

**CommandOutput** (`CommandOutputProofs`). The invariant relates the copied
prefix to the buffer under chunks of any size. It holds for any two limits, and
so does `AnswersSafe`; `WholeSafe` adds the condition `ServerLimit <= ClientLimit`
and concludes that nothing is cut.

**TargetConfig** (`TargetConfigProofs`). `Inv` adds `Control` (a command under
way resolved its target in what it loaded, and only one that issues a key has a
token) and `Tokens` (a token in hand belongs to one command). `DefaultKept` is
inductive because it speaks of every loaded copy as well as of the file:
`UpdatedSound` shows that each command makes a sound file out of a sound copy,
however old, so it does not matter which of two overlapping commands saves last.
`FirstNameIn` gets the first of the remaining names from the well-foundedness of
`<`.

**Bootstrap** (`BootstrapProofs`). `Progress` says, command by command, what a
script beside which no other has run has achieved; it is kept by every fault,
because a fault while such a script runs either ends it or, like the death of
the service, finds the files that the script has put in place. `Restartable`
says why an installed host gets its server back between any two commands of an
upgrade, `Undamaged` what an interrupted script cannot have torn, `Solitary`
how the histories go with the scripts that run, `Unwritten` that nobody else
has a file open that such a script puts in place. `RerunSafe` splits on the
command that refuses, and finds the cause of each refusal in the state
(`RefusalsNamed`). Nothing is proved, or true, of a host while scripts overlap:
they write the same `.new` files with no lock. The properties resume with the
next script that completes alone.

**Assumptions.** The number of requests and of runs is finite, limits and
bounds are numbers, accepted and rejected names are disjoint, the installed
namespaces are among the accepted ones, workloads consist of calls, target
names are positive numbers (0 is the empty string) and differ from the names of
the installed files, error codes from `ok` and `signal`; the handlers are
callers of the store and may ask it for any token, `Nil` differs from the
values it is told apart from. No flag of the program can break one.

**Only model-checked**: the liveness properties `CallsReturn`, `RequestsEnd`,
`CommandsEnd` and `ShutdownEnds`, since fairness and ENABLED are out of the
prover's reach, and the three runs that expect a violation.

## Not modelled

* `target list`, `remote key list`, `List`, `Exists`, `doctor`, `/healthz`:
  they read and print.
* Flag parsing, version, validation of URLs, paths and names, SSH argument
  construction and quoting, `validateArgs`: conversions of text without state. A
  request or a name is accepted or refused.
* The SSH control socket and the reading of ELF headers: a connection works or
  breaks, a binary has an architecture or none.
* Power loss on the workstation, and on the host during the bootstrap.
* `KeyStore` models power loss, but nothing in the code syncs the entry of a new
  namespace in the data root; `GrantedKeysKept` allows the loss of a key for this
  reason and no other.
* Overlapping writes of one `.new` file end in one of the texts, or in a mixture
  that no program accepts; how a mixture reads is not modelled further.
* Build scripts, release and CI.

`PROJECT.json` gives the hazards that no property covers with the reason for
each: most are reached by a model, and no document says what should hold.

## Plan

The components with state are modelled and their safety is proved. What could
be added, in order of use:

1. `TargetConfig` over `KeyRegistry`: which saved tokens the server accepts, for
   instance after a revocation whose answer was lost.
2. Power loss on the workstation around `Save`, whose rename is not followed by
   a sync of the directory.
3. `validateArgs` against a reference definition over bounded argument lists.
