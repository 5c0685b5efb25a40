---------------------------- MODULE DeploymentInv ----------------------------
(***************************************************************************)
(* What the handlers of the server and the calls of the store know of each *)
(* other: the invariant behind the refinement of ExecServer by Deployment, *)
(* kept apart because the proofs need it and the model does not.           *)
(***************************************************************************)
EXTENDS Deployment, KeyStoreInv

\* An IssueKey on the namespace has drawn a key that nobody has seen
Pending(n, p) ==
    /\ op[p] # Nil
    /\ op[p].kind = "issue" /\ op[p].ns = n
    /\ pc[p] \in {"sync", "rename"}

\* The keys that have been, or are about to be, in the namespace's file
Drawn(n) == Shown(n) \cup UNION {delta[p] : p \in {q \in Procs : Pending(n, q)}}

\* A secret tells the key and its namespace, and a key reported revoked was shown
Secrets ==
    /\ \A n, m \in Namespaces : \A k \in Drawn(n), j \in Drawn(m) :
         k.serial = j.serial => n = m /\ k = j
    /\ \A n \in Namespaces : revoked[n] \subseteq removed[n]

\* The types of what a handler and the process say of a request
Typed ==
    /\ phase \in [Requests -> Server!Phases]
    /\ call \in [Requests -> Server!Calls \cup {Nil}]
    /\ late \in [Requests -> BOOLEAN]
    /\ child \in [Requests -> {"none", "running", "exited", "killed"}]
    /\ status \in [Requests -> Server!Statuses \cup {0}]
    /\ server \in {"serving", "draining", "exit0", "exit1"}
    /\ \A r \in Requests : phase[r] # "absent" => call[r] \in Server!Calls

\* The token a handler asks the store about is for its request's key or for none
Asks(r) ==
    /\ op[r].ns = call[r].ns
    /\ pc[r] = "readKeys" => op[r].arg # Nil
    /\ op[r].arg # Nil =>
         /\ \E n \in Namespaces : \E k \in Shown(n) : k.serial = op[r].arg.secret
         /\ \A k \in KeysIn(op[r].ns) : k.digest = Digest(op[r].arg) => k = call[r].key

\* A handler calls the store while it authenticates its request and at no other
\* time; when the process dies its call is left behind
Handler(r) ==
    /\ op[r] # Nil => op[r].kind = "auth"
    /\ Server!Up => /\ op[r] # Nil <=> phase[r] = "auth"
                    /\ phase[r] = "auth" => Asks(r)
    /\ ~Server!Up => phase[r] # "auth"

\* A request that came too late is refused, and nothing is run for it
ShutOut(r) ==
    /\ phase[r] \in {"absent", "auth"} => child[r] = "none" /\ status[r] = 0
    /\ late[r] => /\ phase[r] \in {"auth", "done", "lost"}
                  /\ child[r] = "none" /\ status[r] \in {0, 401}
                  /\ call[r].key \in revoked[call[r].ns]

Served == Typed /\ \A r \in Requests : Handler(r) /\ ShutOut(r)

SystemInv == Secrets /\ Served

=============================================================================
