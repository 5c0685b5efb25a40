-------------------------- MODULE TargetConfigInv --------------------------
(***************************************************************************)
(* The inductive invariant behind the safety properties of TargetConfig.   *)
(***************************************************************************)
EXTENDS TargetConfig

\* A command under way has resolved its target in what it loaded, and only one
\* that issues a key has a token in hand
Control ==
    \A p \in Procs :
      /\ pc[p] = "idle" <=> cmd[p] = Nil
      /\ cmd[p] # Nil => Resolves(loaded[p], cmd[p])
      /\ token[p] # 0 => pc[p] = "save" /\ cmd[p].kind \in {"keyAdd", "remoteInit"}

\* A token that arrived is held by one command, and none was seen before it
\* was issued
Tokens ==
    /\ \A p \in Procs : token[p] # 0 => fate[token[p]] = "held" /\ token[p] <= serial
    /\ \A p, q \in Procs : token[p] # 0 /\ token[p] = token[q] => p = q
    /\ \A s \in Serials : s > serial => fate[s] = "none"

Inv == Control /\ Tokens /\ DefaultKept /\ TokensDelivered

=============================================================================
