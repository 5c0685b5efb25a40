---------------------------- MODULE ExecServerInv ----------------------------
(***************************************************************************)
(* The inductive invariant behind the safety properties of ExecServer,     *)
(* kept apart because the proofs need it and the model does not.           *)
(***************************************************************************)
EXTENDS ExecServer

\* What the server relies on in the key store: a removed key is not registered
Registry ==
    /\ {registry, granted, removed, revoked} \subseteq [Namespaces -> SUBSET Keys]
    /\ \A n \in Namespaces :
         /\ granted[n] \subseteq registry[n]
         /\ registry[n] \cap removed[n] = {}
         /\ revoked[n] \subseteq removed[n]

\* A request past Arrive has a call, and one that came too late stays at
\* Authenticate until it is refused
Requested ==
    \A r \in Requests :
      /\ phase[r] # "absent" => call[r] \in Calls
      /\ late[r] => /\ phase[r] \in {"auth", "done", "lost"}
                    /\ call[r].key \in revoked[call[r].ns]
                    /\ status[r] \in {0, 401}

\* A handler starts its command in "run" and leaves "wait" after the command,
\* and the ways a command ends tell whether it took effect
Commanded ==
    \A r \in Requests :
      /\ phase[r] \in {"absent", "auth", "body", "queue", "run"} \/ late[r] =>
           child[r] = "none"
      /\ child[r] = "none" => ~effect[r]
      /\ child[r] \in {"none", "running"} => outcome[r] = Nil
      /\ outcome[r] # Nil => /\ outcome[r].code = "ok" => effect[r]
                             /\ outcome[r].code \in Codes => ~effect[r]
      /\ phase[r] = "write" => /\ outcome[r] # Nil /\ outcome[r].json
                               /\ ctx[r] # "deadline"
      /\ phase[r] # "done" => status[r] = 0

\* No handler outlives the process, and a command that does is gone before the
\* next process serves
Supervised ==
    \A r \in Requests :
      /\ ~Up => phase[r] \notin InFlight
      /\ Up /\ child[r] = "running" => phase[r] = "wait"

Inv == /\ Registry /\ Requested /\ Commanded /\ Supervised
       /\ SlotsCounted /\ ChildrenBounded /\ DefiniteAnswers /\ GracefulExit

=============================================================================
