----------------------------- MODULE Deployment -----------------------------
(***************************************************************************)
(* The server and the administrators' commands over the same data root:    *)
(* KeyStore with ExecServer's handlers as some of its callers.  Authenticate *)
(* is no longer one step: a handler calls the store, which stats and reads *)
(* the files while "key add" and "key revoke" replace them, and goes on    *)
(* with what the store returned.  All a client presents is a token.        *)
(*                                                                         *)
(* Every step is one of KeyStore, one of ExecServer, or one of both where a *)
(* handler calls the store and gets its answer.                            *)
(***************************************************************************)
EXTENDS KeyStore

CONSTANTS
    Requests,      \* the callers that are handlers of the server
    Codes,         \* error codes contextq reports on stderr
    MaxConcurrent  \* Options.MaxConcurrent

ASSUME RequestsAreCallers == Requests \subseteq Procs
ASSUME RequestsAuthenticate ==
    {Op("auth", n, t) : n \in Namespaces, t \in Tokens \cup {Nil}} \subseteq Workload

\* The state of the server, as in ExecServer
VARIABLES phase, call, late, ctx, slots, child, outcome, effect, status, server

serverVars == <<phase, call, late, ctx, slots, child, outcome, effect, status, server>>

Server == INSTANCE ExecServer WITH registry <- Visible, granted <- Kept

SystemInit == Init /\ Server!Init

-----------------------------------------------------------------------------
(***************************************************************************)
(* A handler and the store.                                                *)
(***************************************************************************)

\* The keys of a namespace whose tokens somebody may have been given, those that
\* the store has lost included
Shown(n) == KeysIn(n) \cup removed[n] \cup granted[n]

\* What clients send: no well-formed token, or one with the secret of a key of
\* some namespace, under its id or another; nobody guesses a secret that is yet
\* to be drawn
Presentable ==
    {Nil} \cup {t \in Tokens : \E n \in Namespaces : \E k \in Shown(n) : k.serial = t.secret}

\* The key a token is for in a namespace, if any
KeyFor(n, token) ==
    IF \E k \in Shown(n) : k.digest = Digest(token)
      THEN CHOOSE k \in Shown(n) : k.digest = Digest(token)
      ELSE Nil

\* A request reaches the handler, which calls Authenticate; one without a bearer
\* token is refused as one whose token keyID cannot parse is
Arrive(r, n, token) ==
    /\ Begin(r, Op("auth", n, token))
    /\ Server!Arrive(r, [ns |-> n, key |-> KeyFor(n, token)])

\* Mutant of Authenticated: the error of Authenticate is not looked at
AuthenticatedAnyway(r) ==
    IF ret' = Nil
      THEN UNCHANGED <<phase, slots, status>>
      ELSE Server!Advance(r, "body") /\ UNCHANGED slots

\* A handler whose call of the store goes on waits; one whose call returned goes
\* on to the body of the request, or answers 401 to any error
Authenticated(r) ==
    IF ret' = Nil THEN UNCHANGED <<phase, slots, status>>
    ELSE IF ret'.err = "nil" THEN Server!Advance(r, "body") /\ UNCHANGED slots
    ELSE Server!Reply(r, 401)

\* The store's next access for a handler
Authenticating(r) ==
    /\ Server!Up
    /\ Step(r) \/ IOError(r)
    /\ Authenticated(r)
    /\ UNCHANGED <<call, late, ctx, child, outcome, effect, server>>

\* The call of a handler that died with its process
Abandoned(r) ==
    /\ ~Server!Up
    /\ Crash(r)
    /\ UNCHANGED serverVars

\* The rest of the handler, its command and its timers
Serving(r) ==
    /\ UNCHANGED vars
    /\ \/ /\ Server!Up
          /\ \/ Server!ReadBody(r) \/ Server!Acquire(r) \/ Server!Busy(r)
             \/ Server!Start(r) \/ Server!Reap(r) \/ Server!Finish(r)
             \/ Server!WriteFails(r)
       \/ Server!Sent(r)
       \/ Server!Kill(r) \/ Server!Deadline(r) \/ Server!Disconnect(r)
       \/ Server!TakeEffect(r) \/ (\E out \in Server!Outcomes : Server!Exit(r, out))
       \/ Server!KillGroup(r)

-----------------------------------------------------------------------------
(***************************************************************************)
(* The process, the administrators and the machine.                        *)
(***************************************************************************)
Process ==
    /\ UNCHANGED vars
    /\ \/ Server!Terminate \/ Server!Drained
       \/ Server!ShutdownTimeout \/ Server!Abort

\* No call or command of the old process is left
Stopped == \A r \in Requests : pc[r] = "idle" /\ child[r] # "running"

Restart ==
    /\ Stopped
    /\ UNCHANGED vars
    /\ Server!Restart

\* Somebody's contextq-server command, in a process of its own
Administer(p) ==
    /\ \/ \E c \in Workload : c.kind # "auth" /\ (Begin(p, c) \/ Refuse(p, c))
       \/ Lock(p) \/ Step(p) \/ IOError(p) \/ Crash(p)
    /\ UNCHANGED serverVars

Kernel ==
    /\ \E n \in Namespaces : (\E f \in Files : WriteBack(n, f)) \/ WriteBackRoot(n)
    /\ UNCHANGED serverVars

\* The power fails: the server is down by then, and so are its commands
Outage ==
    /\ ~Server!Up
    /\ Stopped
    /\ PowerLoss
    /\ UNCHANGED serverVars

SystemNext ==
    \/ \E r \in Requests :
         \/ \E n \in Namespaces : \E token \in Presentable : Arrive(r, n, token)
         \/ Authenticating(r) \/ Abandoned(r) \/ Serving(r)
    \/ \E p \in Procs \ Requests : Administer(p)
    \/ Process \/ Restart
    \/ Kernel \/ Outage

SystemSpec == SystemInit /\ [][SystemNext]_<<vars, serverVars>>

-----------------------------------------------------------------------------
(***************************************************************************)
(* Properties.                                                             *)
(***************************************************************************)

\* Over the real files the server behaves as ExecServer says it does over the
\* promises of KeyRegistry: the stat and the read of a handler, among writers
\* and crashes, let in a token only while its key is registered.
RefinesServer == Server!Spec

\* From the administrator's shell to the subprocess: once "key revoke" has
\* returned, no request that comes with the key's token starts a command, not
\* even after a crash, power loss or a restart of the server.
RevocationHolds == Server!RevokedKeysShutOut

=============================================================================
