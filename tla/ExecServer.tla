----------------------------- MODULE ExecServer -----------------------------
(***************************************************************************)
(* The HTTP server of contextq-server: the handler of                      *)
(* POST /v1/{namespace}/exec (internal/api/server.go), the subprocess it   *)
(* runs for a request (internal/api/runner.go) and the life of the process *)
(* around them (runServe in internal/app/app.go, under systemd).           *)
(*                                                                         *)
(* One step is what a handler does between two points where another        *)
(* goroutine, the subprocess, a timer, the client or an administrator can  *)
(* act.  The key store is the specification KeyRegistry, whose steps are   *)
(* taken by the administrators while requests are in flight.               *)
(*                                                                         *)
(* contextq itself is external: a running command may take effect once,    *)
(* and ends with an exit status, an output, or a signal.                   *)
(***************************************************************************)
EXTENDS Naturals, FiniteSets

CONSTANTS
    Requests,      \* requests that clients send
    Namespaces,    \* namespaces the requests name
    Keys,          \* keys the store may hold
    Codes,         \* error codes contextq reports on stderr
    MaxConcurrent, \* Options.MaxConcurrent, the capacity of the semaphore
    Nil            \* no key presented, no outcome

ASSUME RequestsAssumption == IsFiniteSet(Requests)
ASSUME MaxConcurrentAssumption == MaxConcurrent \in Nat \ {0}
ASSUME CodesAssumption == {"ok", "signal"} \cap Codes = {}
ASSUME NilAssumption == Nil \notin Keys

VARIABLES
    registry, granted, removed, revoked, \* the key store
    phase,   \* how far each request's handler is
    call,    \* the namespace and key each request presents
    late,    \* history: the key was reported revoked before the request came
    ctx,     \* the context of each request
    slots,   \* len(s.semaphore)
    child,   \* the subprocess of each request
    outcome, \* how the subprocess ended
    effect,  \* the subprocess changed its queue
    status,  \* the HTTP status of the response; 0 when there is none
    server   \* the server process

keyVars == <<registry, granted, removed, revoked>>
vars == <<keyVars, phase, call, late, ctx, slots, child, outcome, effect,
          status, server>>

Store == INSTANCE KeyRegistry

(***************************************************************************)
(* The phases of a handler: "auth" before Authenticate, "body" while the   *)
(* request is read and validated, "queue" at the select, "run" holding a   *)
(* slot before cmd.Start, "wait" in cmd.Wait, "finish" after cmd.Run,      *)
(* "write" while the command's answer, up to OutputLimit, goes out.        *)
(***************************************************************************)
Holding  == {"run", "wait", "finish", "write"}
Timed    == {"queue", "run", "wait", "finish"}
InFlight == Holding \cup {"auth", "body", "queue"}
Phases   == InFlight \cup {"absent", "done", "lost"}

Calls == [ns : Namespaces, key : Keys \cup {Nil}]

\* What a command leaves: exit 0, an error code, or death by a signal; a whole
\* JSON answer, if any, on the stream that counts, none when a signal came
\* before it; more than OutputLimit on either stream
Outcomes ==
    {out \in [code : Codes \cup {"ok", "signal"}, json : BOOLEAN, big : BOOLEAN] :
       out.json => ~out.big /\ out.code # "signal"}

Statuses == {200, 400, 401, 404, 409, 502, 503, 504}

TypeOK ==
    /\ phase \in [Requests -> Phases]
    /\ call \in [Requests -> Calls \cup {Nil}]
    /\ late \in [Requests -> BOOLEAN]
    /\ ctx \in [Requests -> {"live", "deadline", "canceled"}]
    /\ slots \in 0 .. MaxConcurrent
    /\ child \in [Requests -> {"none", "running", "exited", "killed"}]
    /\ outcome \in [Requests -> Outcomes \cup {Nil}]
    /\ effect \in [Requests -> BOOLEAN]
    /\ status \in [Requests -> Statuses \cup {0}]
    /\ server \in {"serving", "draining", "exit0", "exit1"}

Init ==
    /\ Store!Init
    /\ phase = [r \in Requests |-> "absent"]
    /\ call = [r \in Requests |-> Nil]
    /\ late = [r \in Requests |-> FALSE]
    /\ ctx = [r \in Requests |-> "live"]
    /\ slots = 0
    /\ child = [r \in Requests |-> "none"]
    /\ outcome = [r \in Requests |-> Nil]
    /\ effect = [r \in Requests |-> FALSE]
    /\ status = [r \in Requests |-> 0]
    /\ server = "serving"

command == <<child, outcome, effect>>
input   == <<call, late>>

Up == server \in {"serving", "draining"}

\* Mutants of Reply: every response gives a slot back, or none does
ReplyReleases(r, code) ==
    /\ status' = [status EXCEPT ![r] = code]
    /\ phase' = [phase EXCEPT ![r] = "done"]
    /\ slots' = slots - 1

ReplyHolds(r, code) ==
    /\ status' = [status EXCEPT ![r] = code]
    /\ phase' = [phase EXCEPT ![r] = "done"]
    /\ slots' = slots

\* The handler returns with its response written, and the deferred receive from
\* the semaphore gives the slot back
Reply(r, code) ==
    /\ status' = [status EXCEPT ![r] = code]
    /\ phase' = [phase EXCEPT ![r] = "done"]
    /\ slots' = IF phase[r] \in Holding THEN slots - 1 ELSE slots

Advance(r, to) ==
    /\ phase' = [phase EXCEPT ![r] = to]
    /\ UNCHANGED status

-----------------------------------------------------------------------------
(***************************************************************************)
(* The handler, execute.                                                   *)
(***************************************************************************)

\* A request reaches the handler, with or without a well-formed bearer token;
\* Shutdown closes the listener, not the connections that were accepted before
Arrive(r, c) ==
    /\ phase[r] = "absent"
    /\ Up
    /\ call' = [call EXCEPT ![r] = c]
    /\ late' = [late EXCEPT ![r] = c.key \in revoked[c.ns]]
    /\ Advance(r, "auth")
    /\ UNCHANGED <<keyVars, ctx, slots, command, server>>

\* Mutant of Authenticate: keys are remembered after their removal
AuthenticateCached(r) ==
    /\ phase[r] = "auth"
    /\ \/ /\ call[r].key \in registry[call[r].ns] \cup removed[call[r].ns]
          /\ Advance(r, "body")
          /\ UNCHANGED slots
       \/ Reply(r, 401)
    /\ UNCHANGED <<keyVars, input, ctx, command, server>>

\* bearerToken and Authenticate; an error of the store is a 401 as well
Authenticate(r) ==
    /\ phase[r] = "auth"
    /\ \/ /\ call[r].key \in registry[call[r].ns]
          /\ Advance(r, "body")
          /\ UNCHANGED slots
       \/ Reply(r, 401)
    /\ UNCHANGED <<keyVars, input, ctx, command, server>>

\* The body is decoded and validateArgs checks the arguments; then the context
\* of the command is made
ReadBody(r) ==
    /\ phase[r] = "body"
    /\ \/ Reply(r, 400)
       \/ Advance(r, "queue") /\ UNCHANGED slots
    /\ UNCHANGED <<keyVars, input, ctx, command, server>>

\* select: the send to the semaphore, which may win even when the context is
\* done, because select picks among the ready cases at random
Acquire(r) ==
    /\ phase[r] = "queue"
    /\ slots < MaxConcurrent
    /\ slots' = slots + 1
    /\ Advance(r, "run")
    /\ UNCHANGED <<keyVars, input, ctx, command, server>>

\* select: ctx.Done
Busy(r) ==
    /\ phase[r] = "queue"
    /\ ctx[r] # "live"
    /\ Reply(r, 503)
    /\ UNCHANGED <<keyVars, input, ctx, command, server>>

\* cmd.Start: a context that is done starts nothing, and a start may fail
Start(r) ==
    /\ phase[r] = "run"
    /\ \/ /\ ctx[r] = "live"
          /\ child' = [child EXCEPT ![r] = "running"]
          /\ Advance(r, "wait")
       \/ /\ Advance(r, "finish")
          /\ UNCHANGED child
    /\ UNCHANGED <<keyVars, input, ctx, slots, outcome, effect, server>>

\* Mutant of Kill: the command is tied to the client, not to the deadline
KillForClient(r) ==
    /\ Up
    /\ phase[r] = "wait"
    /\ child[r] = "running"
    /\ ctx[r] = "canceled"
    /\ child' = [child EXCEPT ![r] = "killed"]
    /\ \E big \in BOOLEAN :
         outcome' = [outcome EXCEPT ![r] = [code |-> "signal", json |-> FALSE, big |-> big]]
    /\ UNCHANGED <<keyVars, phase, input, ctx, slots, effect, status, server>>

\* exec's watcher goroutine kills the command when the context is done; it may
\* have written too much by then
Kill(r) ==
    /\ Up
    /\ phase[r] = "wait"
    /\ child[r] = "running"
    /\ ctx[r] # "live"
    /\ child' = [child EXCEPT ![r] = "killed"]
    /\ \E big \in BOOLEAN :
         outcome' = [outcome EXCEPT ![r] = [code |-> "signal", json |-> FALSE, big |-> big]]
    /\ UNCHANGED <<keyVars, phase, input, ctx, slots, effect, status, server>>

\* Mutant of Reap: the handler does not wait for a command out of time
ReapDetached(r) ==
    /\ phase[r] = "wait"
    /\ child[r] # "running" \/ ctx[r] # "live"
    /\ Advance(r, "finish")
    /\ UNCHANGED <<keyVars, input, ctx, slots, command, server>>

\* cmd.Wait returns once the command has ended and its output is read
Reap(r) ==
    /\ phase[r] = "wait"
    /\ child[r] # "running"
    /\ Advance(r, "finish")
    /\ UNCHANGED <<keyVars, input, ctx, slots, command, server>>

\* contextqErrorStatus
ErrorStatus(code) ==
    IF code = "queue_not_found" THEN 404
    ELSE IF code \in {"queue_name_ambiguous", "duplicate_available_key",
                      "no_available_items", "invalid_state_transition",
                      "no_active_lifecycle"} THEN 409
    ELSE IF code \in {"force_required", "error"} THEN 400
    ELSE 502

\* Mutant of CommandStatus: a command without a JSON answer was a bad request
CommandStatusBadRequest(out) ==
    IF ~out.json THEN 400
    ELSE IF out.code = "ok" THEN 200
    ELSE ErrorStatus(out.code)

\* writeCommandJSON, after the choice by exit code
CommandStatus(out) ==
    IF ~out.json THEN 502
    ELSE IF out.code = "ok" THEN 200
    ELSE ErrorStatus(out.code)

\* An answer of the command that the handler passes on
Relayed(r) == ctx[r] = "live" /\ outcome[r] # Nil /\ outcome[r].json

\* Run's verdict, and the responses that fit net/http's buffer: an output over
\* its limit comes first, then the context, then whether the command ran at all
Finish(r) ==
    /\ phase[r] = "finish"
    /\ \/ Relayed(r) /\ Advance(r, "write") /\ UNCHANGED slots
       \/ /\ ~Relayed(r)
          /\ LET out == outcome[r] IN
               Reply(r, IF out # Nil /\ out.big THEN 502
                        ELSE IF ctx[r] = "deadline" THEN 504
                        ELSE IF ctx[r] = "canceled" THEN 0
                        ELSE IF out = Nil THEN 502
                        ELSE CommandStatus(out))
    /\ UNCHANGED <<keyVars, input, ctx, command, server>>

\* writeCommandJSON's Write returns: the client has taken enough of the answer.
\* Without a WriteTimeout it may take its time, and the slot with it
Sent(r) ==
    /\ Up
    /\ phase[r] = "write"
    /\ Reply(r, CommandStatus(outcome[r]))
    /\ UNCHANGED <<keyVars, input, ctx, command, server>>

\* The Write fails, because the client is gone
WriteFails(r) ==
    /\ phase[r] = "write"
    /\ ctx[r] = "canceled"
    /\ Reply(r, 0)
    /\ UNCHANGED <<keyVars, input, ctx, command, server>>

Handler(r) ==
    /\ Up
    /\ \/ Authenticate(r) \/ ReadBody(r) \/ Acquire(r) \/ Busy(r)
       \/ Start(r) \/ Reap(r) \/ Finish(r) \/ WriteFails(r)

-----------------------------------------------------------------------------
(***************************************************************************)
(* Timers, clients and the command itself.                                 *)
(***************************************************************************)

\* Mutant of Deadline: it bounds the wait for a slot only
DeadlineInQueue(r) ==
    /\ Up
    /\ phase[r] = "queue"
    /\ ctx[r] = "live"
    /\ ctx' = [ctx EXCEPT ![r] = "deadline"]
    /\ UNCHANGED <<keyVars, phase, input, slots, command, status, server>>

\* RequestTimeout runs out
Deadline(r) ==
    /\ Up
    /\ phase[r] \in Timed
    /\ ctx[r] = "live"
    /\ ctx' = [ctx EXCEPT ![r] = "deadline"]
    /\ UNCHANGED <<keyVars, phase, input, slots, command, status, server>>

\* The client goes away; net/http sees it once the body has been read
Disconnect(r) ==
    /\ Up
    /\ phase[r] \in Timed \cup {"write"}
    /\ ctx[r] = "live"
    /\ ctx' = [ctx EXCEPT ![r] = "canceled"]
    /\ UNCHANGED <<keyVars, phase, input, slots, command, status, server>>

\* The command's change to its queue, a single commit
TakeEffect(r) ==
    /\ child[r] = "running"
    /\ ~effect[r]
    /\ effect' = [effect EXCEPT ![r] = TRUE]
    /\ UNCHANGED <<keyVars, phase, input, ctx, slots, child, outcome, status,
                   server>>

\* The command ends: exit 0 only after its effect, an error code only without
\* it, a signal either way
Exit(r, out) ==
    /\ child[r] = "running"
    /\ out.code = "ok" => effect[r]
    /\ out.code \in Codes => ~effect[r]
    /\ child' = [child EXCEPT ![r] = "exited"]
    /\ outcome' = [outcome EXCEPT ![r] = out]
    /\ UNCHANGED <<keyVars, phase, input, ctx, slots, effect, status, server>>

-----------------------------------------------------------------------------
(***************************************************************************)
(* The process, runServe, and its supervisor.                              *)
(***************************************************************************)

\* SIGTERM: the listener closes and Shutdown waits for the handlers
Terminate ==
    /\ server = "serving"
    /\ server' = "draining"
    /\ UNCHANGED <<keyVars, phase, input, ctx, slots, command, status>>

\* Mutant of Drained: Close instead of Shutdown
DrainedAtOnce ==
    /\ server = "draining"
    /\ server' = "exit0"
    /\ UNCHANGED <<keyVars, phase, input, ctx, slots, command, status>>

\* Shutdown returns nil
Drained ==
    /\ server = "draining"
    /\ \A r \in Requests : phase[r] \notin InFlight
    /\ server' = "exit0"
    /\ UNCHANGED <<keyVars, phase, input, ctx, slots, command, status>>

\* The process ends at once, and the handlers in flight with it
Die ==
    /\ server' = "exit1"
    /\ phase' = [r \in Requests |-> IF phase[r] \in InFlight THEN "lost" ELSE phase[r]]
    /\ UNCHANGED <<keyVars, input, ctx, slots, command, status>>

\* Mutant of ShutdownTimeout: Shutdown waits as long as the handlers take
ShutdownPatient ==
    /\ server = "draining"
    /\ \A r \in Requests : phase[r] \notin InFlight
    /\ Die

\* Shutdown's context expires and runServe returns its error
ShutdownTimeout == server = "draining" /\ Die

\* An error of ListenAndServe, or the death of the process
Abort == Up /\ Die

\* systemd kills what is left in the service's control group
KillGroup(r) ==
    /\ ~Up
    /\ child[r] = "running"
    /\ child' = [child EXCEPT ![r] = "killed"]
    /\ UNCHANGED <<keyVars, phase, input, ctx, slots, outcome, effect, status,
                   server>>

\* Mutant of Restart: what the old process left behind runs on
RestartAtOnce ==
    /\ ~Up
    /\ server' = "serving"
    /\ slots' = 0
    /\ UNCHANGED <<keyVars, phase, input, ctx, command, status>>

\* Restart=on-failure, or an administrator; the control group is empty first
Restart ==
    /\ ~Up
    /\ \A r \in Requests : child[r] # "running"
    /\ server' = "serving"
    /\ slots' = 0
    /\ UNCHANGED <<keyVars, phase, input, ctx, command, status>>

\* An administrator's change of the key store
ChangeKeys ==
    /\ UNCHANGED <<phase, input, ctx, slots, command, status, server>>
    /\ Store!Next

-----------------------------------------------------------------------------
Next ==
    \/ ChangeKeys
    \/ \E r \in Requests :
         \/ \E c \in Calls : Arrive(r, c)
         \/ Handler(r) \/ Sent(r)
         \/ Kill(r) \/ Deadline(r) \/ Disconnect(r)
         \/ TakeEffect(r) \/ (\E out \in Outcomes : Exit(r, out))
         \/ KillGroup(r)
    \/ Terminate \/ Drained \/ ShutdownTimeout \/ Abort \/ Restart

Spec == Init /\ [][Next]_vars

\* Goroutines run, timers fire and the supervisor does its work; nothing is
\* assumed of clients, which may stay and read nothing, of administrators, or of
\* contextq, which may hang
Fairness ==
    /\ \A r \in Requests : /\ WF_vars(Handler(r))
                           /\ WF_vars(Kill(r))
                           /\ WF_vars(Deadline(r))
                           /\ WF_vars(KillGroup(r))
    /\ WF_vars(ShutdownTimeout)

LiveSpec == Spec /\ Fairness

-----------------------------------------------------------------------------
(***************************************************************************)
(* Properties.                                                             *)
(***************************************************************************)

\* Every slot of the semaphore is held by exactly one handler between its send
\* and its return: none leaks on an early return, none is given back twice.
SlotsCounted ==
    Up => slots = Cardinality({r \in Requests : phase[r] \in Holding})

\* "The server bounds simultaneous subprocesses": a slot is given back only
\* after the command is gone, killed commands and restarts included.
ChildrenBounded ==
    Cardinality({r \in Requests : child[r] = "running"}) <= MaxConcurrent

\* What a client may conclude from a response: 200 only when the command took
\* effect; 400, 401, 404, 409 and 503 only when it did not and never will, so
\* that the request may be repeated.  502 and 504 say nothing of the effect.
DefiniteAnswers ==
    \A r \in Requests : phase[r] = "done" =>
      /\ child[r] # "running"
      /\ status[r] = 200 => effect[r]
      /\ status[r] \in {400, 401, 404, 409, 503} => ~effect[r]

\* A request that comes after its key's revocation was reported is refused and
\* starts no command, whatever the store goes through meanwhile.
RevokedKeysShutOut ==
    \A r \in Requests : late[r] => child[r] = "none" /\ status[r] \in {0, 401}

\* Exit status 0 means that every request that was accepted has been answered
\* and no command is left behind.
GracefulExit ==
    server = "exit0" =>
      \A r \in Requests : phase[r] \notin InFlight /\ child[r] # "running"

\* The server keeps the promises of CommandService: a command takes effect at
\* most once, for a request whose key was registered after it arrived, before
\* its answer, and the answer agrees with it.  A lost request is settled once
\* its command is gone.
Stage(r) ==
    IF phase[r] = "absent" THEN "absent"
    ELSE IF phase[r] = "auth" THEN "presented"
    ELSE IF phase[r] \in InFlight \/ child[r] = "running" THEN "admitted"
    ELSE "settled"

Stages == [r \in Requests |-> Stage(r)]

Service == INSTANCE CommandService WITH stage <- Stages

RefinesService == Service!Spec

\* Every request comes to the end of its handler or to the writing of its answer,
\* though contextq may hang and every slot may be held by clients that read
\* nothing: the deadline ends the wait for a slot and the wait for the command.
\* And a client that leaves gives back what it held, whatever was going on.
RequestsEnd ==
    \A r \in Requests :
      LET Unanswered == phase[r] \in InFlight \ {"write"} IN
      /\ Unanswered ~> ~Unanswered
      /\ (phase[r] \in InFlight /\ ctx[r] = "canceled") ~> phase[r] \notin InFlight

\* "Request cancellation kills the subprocess": a command does not outlive the
\* context of its request, nor the server.
CommandsEnd ==
    \A r \in Requests :
      (child[r] = "running" /\ (ctx[r] # "live" \/ ~Up)) ~> child[r] # "running"

\* A SIGTERM always ends the service: the process exits and every command is
\* gone before another one serves, though handlers may be stuck in the writing of
\* an answer, and requests still come on old connections.
ShutdownEnds ==
    server = "draining" ~> (~Up /\ \A r \in Requests : child[r] # "running")

\* docs/api.md lists the status codes of the endpoint.
DocumentedStatuses ==
    \A r \in Requests : status[r] \in {0, 200, 400, 401, 404, 409, 502, 504}

\* docs/configuration.md: "Authentication rereads it on every request, making
\* revocation effective immediately": no command starts for a revoked key.
RevocationImmediate ==
    [][\A r \in Requests :
         (child[r] = "none" /\ child'[r] = "running")
           => call[r].key \notin revoked[call[r].ns]]_vars

=============================================================================
