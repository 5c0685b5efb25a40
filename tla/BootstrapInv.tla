---------------------------- MODULE BootstrapInv -----------------------------
(***************************************************************************)
(* The inductive invariant behind the properties of Bootstrap, kept apart  *)
(* because the proofs need it and the model does not.  The numbers are the *)
(* positions of commands in Script.                                        *)
(***************************************************************************)
EXTENDS Bootstrap

\* A script beside which no other has run
Alone(p) == pc[p] # 0 /\ ~shared[p]

\* What the histories say of the scripts that run
Solitary ==
    /\ \A p \in Runs : Alone(p) => Running = {p}
    /\ ~tainted => \A p \in Running : Alone(p)
    /\ settled # Nil => Running = {}

\* A script that runs has its plan, and its binaries while its command waits
Equipped ==
    \A p \in Running : plan[p] \in Plans /\ (local[p] = "apply" => staged[p])

\* Only a run that is at its write is writing a file
Writers ==
    \A f \in Paths, p \in Runs :
      p \in file[f].writers \cup new[f].writers => pc[p] \in {4, 6, 10, 13}

\* Without an overlap only snippets were ever hurt, and what is left is no part
Undamaged ==
    ~tainted => /\ \A f \in {"server", "contextq", "unit"} :
                     file[f].state \in {"missing", "whole"}
                /\ \A f \in Paths : file[f].writers = {}
                /\ \A n \in Names : file[n].state \in {"missing", "whole", "empty"}
                /\ imports <= 1

\* A file on its way from open to mv
Installs(p, f, open, mv) ==
    /\ pc[p] = open + 1 => new[f] = Empty({p})
    /\ pc[p] \in open + 2 .. mv => new[f] = Whole(Text(plan[p], f))
    /\ pc[p] > mv => file[f] = Whole(Text(plan[p], f))

\* The server of a plan
Serving(pl) == [server |-> pl.server, listen |-> pl.listen]

\* What an undisturbed script has achieved at each of its commands
Progress(p) ==
    /\ pc[p] > 2 => identity
    /\ Installs(p, "server", 3, 7)
    /\ Installs(p, "contextq", 5, 8)
    /\ Installs(p, "unit", 9, 11)
    /\ Installs(p, plan[p].name, 12, 14)
    /\ pc[p] = 16 => imports = 0
    /\ pc[p] > 16 => imports > 0
    /\ pc[p] > 17 => loaded = Whole(plan[p].listen)
    /\ pc[p] > 18 => enabled
    /\ pc[p] > 19 => service = Serving(plan[p])
    /\ pc[p] > 20 => Acceptable
    /\ pc[p] > 21 => Site(plan[p]) \in caddy

Progressing == \A p \in Runs : Alone(p) => Progress(p)

\* The service can be brought up again after a death or a reboot
Restartable ==
    installed /\ ~tainted =>
      /\ identity
      /\ enabled
      /\ loaded.state = "whole"
      /\ \A f \in {"server", "contextq", "unit"} : file[f].state = "whole"

\* The host as a script left it that ran alone
Settled ==
    settled # Nil => settled \in Plans /\ identity /\ enabled /\ Acceptable
                     /\ loaded = file["unit"] /\ ~tainted

\* Each script appends one import at most
ImportsCounted ==
    imports > 0 =>
      imports + Cardinality({p \in Runs : pc[p] = 16}) <= Cardinality(Runs)

Inv == /\ Solitary /\ Equipped /\ Writers /\ Undamaged /\ Progressing
       /\ Restartable /\ Settled /\ ImportsCounted
       /\ Converged /\ ServiceKept

=============================================================================
