--------------------------- MODULE CommandService ---------------------------
(***************************************************************************)
(* What POST /v1/{namespace}/exec promises its clients, without slots,     *)
(* deadlines, subprocesses or the life of the server.  A request is let in *)
(* at a moment when its key is registered in its namespace; after that, and *)
(* only until it is settled, its command may take effect, once.  An answer *)
(* settles the request and agrees with the effect.  A request whose        *)
(* answer is lost is settled too, whether or not its command took effect.  *)
(*                                                                         *)
(* The keys change as KeyRegistry says.  The server (ExecServer)           *)
(* implements this specification.                                          *)
(***************************************************************************)
CONSTANTS Requests, Namespaces, Keys, Nil

VARIABLES
    registry, granted, removed, revoked, \* the key store
    call,   \* the namespace and key each request presents
    stage,  \* absent, presented, admitted or settled
    effect, \* the command took effect
    status  \* the answer; 0 when there is none

keyVars == <<registry, granted, removed, revoked>>
vars    == <<keyVars, call, stage, effect, status>>

Store == INSTANCE KeyRegistry

Calls == [ns : Namespaces, key : Keys \cup {Nil}]

\* What the statuses say of the command: it was done, it was not and never will
\* be, or nothing
Done      == {200}
NotDone   == {400, 401, 404, 409, 503}
Uncertain == {502, 504}

Init ==
    /\ Store!Init
    /\ call = [r \in Requests |-> Nil]
    /\ stage = [r \in Requests |-> "absent"]
    /\ effect = [r \in Requests |-> FALSE]
    /\ status = [r \in Requests |-> 0]

Present(r, c) ==
    /\ stage[r] = "absent"
    /\ call' = [call EXCEPT ![r] = c]
    /\ stage' = [stage EXCEPT ![r] = "presented"]
    /\ UNCHANGED <<keyVars, effect, status>>

Admit(r) ==
    /\ stage[r] = "presented"
    /\ call[r].key \in registry[call[r].ns]
    /\ stage' = [stage EXCEPT ![r] = "admitted"]
    /\ UNCHANGED <<keyVars, call, effect, status>>

Execute(r) ==
    /\ stage[r] = "admitted"
    /\ ~effect[r]
    /\ effect' = [effect EXCEPT ![r] = TRUE]
    /\ UNCHANGED <<keyVars, call, stage, status>>

\* A request that was not let in is told so and nothing else
Answer(r, code) ==
    /\ \/ stage[r] = "presented" /\ code = 401
       \/ stage[r] = "admitted"
    /\ code \in Done => effect[r]
    /\ code \in NotDone => ~effect[r]
    /\ stage' = [stage EXCEPT ![r] = "settled"]
    /\ status' = [status EXCEPT ![r] = code]
    /\ UNCHANGED <<keyVars, call, effect>>

Open == {r \in Requests : stage[r] \in {"presented", "admitted"}}

\* Requests whose clients left, or whose server died, get no answer
Lose(lost) ==
    /\ stage' = [r \in Requests |-> IF r \in lost THEN "settled" ELSE stage[r]]
    /\ UNCHANGED <<keyVars, call, effect, status>>

ChangeKeys == Store!Next /\ UNCHANGED <<call, stage, effect, status>>

Next ==
    \/ ChangeKeys
    \/ \E r \in Requests :
         \/ \E c \in Calls : Present(r, c)
         \/ Admit(r) \/ Execute(r)
         \/ \E code \in Done \cup NotDone \cup Uncertain : Answer(r, code)
    \/ \E lost \in SUBSET Open : Lose(lost)

Spec == Init /\ [][Next]_vars

=============================================================================
