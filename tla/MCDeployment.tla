---------------------------- MODULE MCDeployment ----------------------------
(* A small instance of Deployment for TLC. *)
EXTENDS DeploymentInv, TLC

\* An administrator's calls, and every token a handler may be asked for
Mixed ==
    {Op("init", n, Nil) : n \in Names}
      \cup {Op("issue", n, [fold |-> f, upper |-> FALSE, padded |-> FALSE]) :
              n \in Namespaces, f \in Folds}
      \cup {Op("revoke", n, i) : n \in Namespaces, i \in Ids}
      \cup {Op("auth", n, t) : n \in Namespaces, t \in Tokens \cup {Nil}}

AnyId == Permutations(Ids)
=============================================================================
