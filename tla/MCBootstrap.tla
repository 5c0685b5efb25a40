---------------------------- MODULE MCBootstrap -----------------------------
(* A small instance of Bootstrap for TLC. *)
EXTENDS BootstrapInv, TLC

Binary(arch, release) == [arch |-> arch, release |-> release]

\* Release 1 in linux-<arch>, release 2 in a directory of its own, a contextq
\* for another architecture, and the controller's own executable
Binaries ==
    Server("linux")   :> Binary("amd64", 1) @@
    Contextq("linux") :> Binary("amd64", 1) @@
    Server("v2")      :> Binary("amd64", 2) @@
    Contextq("v2")    :> Binary("amd64", 2) @@
    Contextq("arm")   :> Binary("arm64", 2) @@
    Server("dist")    :> Nil @@
    Server("self")    :> Binary("arm64", 1)

Order(server, contextq, name, site, listen) ==
    [server |-> server, contextq |-> contextq, name |-> name,
     site |-> site, listen |-> listen]

\* An installation; its upgrade with another site and listen address; an upgrade
\* with a contextq for the wrong architecture; a target of another name with the
\* site of the first
Upgrades ==
    { Order(Nil, Nil, "prod", "q", 8787),
      Order(Server("v2"), Nil, "prod", "r", 8788),
      Order(Server("v2"), Contextq("arm"), "prod", "r", 8788),
      Order(Server("v2"), Nil, "new", "q", 8787) }

\* The runs are interchangeable
AnyRun == Permutations(Runs)
=============================================================================
