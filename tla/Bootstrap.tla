----------------------------- MODULE Bootstrap ------------------------------
(***************************************************************************)
(* remote-init --apply: the command on the workstation (runRemoteInit in   *)
(* internal/app/remote.go) and the shell script that it runs on the host   *)
(* (BootstrapScript in internal/setup/bootstrap.go).  The script replaces  *)
(* two binaries, the systemd unit and a Caddy snippet, restarts the        *)
(* service and reloads Caddy.                                              *)
(*                                                                         *)
(* A run is one remote-init.  Its command may be interrupted, or lose its  *)
(* connection while the script goes on; the script may fail or be killed   *)
(* at any step; the service may die and the host reboot at any time; and   *)
(* runs may overlap, on one host and with different plans.  Nothing on the *)
(* host tells one run from another: they write the same files.             *)
(*                                                                         *)
(* systemd, Caddy and the shell are external.  Data that was written is    *)
(* assumed to survive a reboot.                                            *)
(***************************************************************************)
EXTENDS Naturals, FiniteSets, SequencesExt

CONSTANTS
    Runs,        \* slots for commands of administrators
    Orders,      \* what administrators ask for: flags and target
    Workstation, \* the binaries on the workstation: [place -> artifact or Nil]
    HostArch,    \* uname -m of the host
    MaxTroubles, \* bound: faults and overlaps between two scripts that complete alone
    Nil

VARIABLES
    local,    \* how far the command of each run is
    pc,       \* the next command of each run's script; 0 when it is not running
    exit,     \* how the script of each run ended
    plan,     \* what each run installs
    staged,   \* the binaries are in each run's staging directory
    file,     \* the installed files
    new,      \* the same files with the suffix ".new"
    imports,  \* import lines in the Caddyfile
    identity, \* the service user and the data root exist
    loaded,   \* the unit systemd has loaded
    enabled,  \* the unit is started at boot
    service,  \* the server that runs: its binary and its unit
    caddy,    \* the sites Caddy serves; Nil when it is down
    shared,   \* history: another script ran beside the one of this run
    tainted,  \* history: scripts overlapped since the last one that completed alone
    settled,  \* history: the plan of the script that completed alone and last
    installed,\* history: a script has completed
    troubles  \* faults and overlaps since the last script that completed alone

runVars  == <<local, pc, exit, plan, staged>>
files    == <<file, new, imports, identity>>
services == <<loaded, enabled, service, caddy>>
history  == <<shared, tainted, settled, installed, troubles>>
vars     == <<runVars, files, services, history>>

-----------------------------------------------------------------------------
(***************************************************************************)
(* resolveBootstrapBinaries: which artifacts are uploaded.  A place is a   *)
(* directory and a file in it; what is no ELF file has no architecture.    *)
(***************************************************************************)
Server(dir)   == <<dir, "server">>
Contextq(dir) == <<dir, "contextq">>

ArchAt(place) ==
    IF place \in DOMAIN Workstation /\ Workstation[place] # Nil
      THEN Workstation[place].arch ELSE Nil

\* firstMatchingBinary
FirstMatching(places) ==
    LET first == SelectInSeq(places, LAMBDA place : ArchAt(place) = HostArch)
    IN IF first = 0 THEN Nil ELSE places[first]

\* The server's place: --server-binary, or the first candidate that fits
ServerPlace(order) ==
    IF order.server # Nil THEN order.server
    ELSE FirstMatching(<<Server("linux"), Server("dist"), Server("self")>>)

\* contextq's: --contextq-binary, or beside the server, or elsewhere
ContextqPlace(order) ==
    IF order.contextq # Nil THEN order.contextq
    ELSE FirstMatching(<<Contextq(ServerPlace(order)[1]), Contextq("linux"),
                         Contextq("dist"), Contextq("path")>>)

\* Mutant of Resolved: a binary that was named is taken as it is
ResolvedUnchecked(order) ==
    /\ ServerPlace(order) # Nil
    /\ ContextqPlace(order) # Nil

\* Both are found and, named or not, made for the host
Resolved(order) ==
    /\ ServerPlace(order) # Nil
    /\ ContextqPlace(order) # Nil
    /\ ArchAt(ServerPlace(order)) = HostArch
    /\ ArchAt(ContextqPlace(order)) = HostArch

\* What a command installs for an order
Plans ==
    {[server |-> Workstation[ServerPlace(order)],
      contextq |-> Workstation[ContextqPlace(order)],
      listen |-> order.listen, name |-> order.name, site |-> order.site] :
     order \in {o \in Orders : Resolved(o)}}

-----------------------------------------------------------------------------
(***************************************************************************)
(* BootstrapScript.  A step is a shell command, or the part of one that    *)
(* another process can tell apart: install and cat first make the file     *)
(* (open), then fill it (write).                                           *)
(***************************************************************************)
Script ==
    << <<"check">>, <<"user">>,
       <<"open", "server">>,   <<"write", "server">>,
       <<"open", "contextq">>, <<"write", "contextq">>,
       <<"mv", "server">>,     <<"mv", "contextq">>,
       <<"open", "unit">>,     <<"write", "unit">>,    <<"mv", "unit">>,
       <<"open", "snippet">>,  <<"write", "snippet">>, <<"mv", "snippet">>,
       <<"grep">>, <<"append">>, <<"daemon-reload">>, <<"enable">>,
       <<"restart">>, <<"validate">>, <<"reload">>, <<"is-active">> >>

At(p, command) == pc[p] # 0 /\ Script[pc[p]][1] = command

Argument(p) == Script[pc[p]][2]

Running == {p \in Runs : pc[p] # 0}

\* The snippet is named after the target, the other files have one name
Names == {pl.name : pl \in Plans}

\* The servers that can run: a binary, and the address its unit gives it
Servers == [server : {pl.server : pl \in Plans}, listen : {pl.listen : pl \in Plans}]

ASSUME RunsAssumption == IsFiniteSet(Runs)
ASSUME NamesAssumption == Names \cap {"server", "contextq", "unit"} = {}
ASSUME NilAssumption == HostArch # Nil /\ Nil \notin Plans \cup Servers
ASSUME BoundAssumption == MaxTroubles \in Nat

Paths == {"server", "contextq", "unit"} \cup Names

Path(p) == IF Argument(p) = "snippet" THEN plan[p].name ELSE Argument(p)

Site(pl) == [site |-> pl.site, listen |-> pl.listen]

\* What the plan puts into a file
Text(pl, path) ==
    IF path = "server" THEN pl.server
    ELSE IF path = "contextq" THEN pl.contextq
    ELSE IF path = "unit" THEN pl.listen
    ELSE Site(pl)

Texts == [path \in Paths |-> {Text(pl, path) : pl \in Plans}]

\* What a file holds: a whole text, nothing, or no text of any plan (a part of one,
\* or a mixture of two); and the runs that have opened it and have yet to write
Missing == [text |-> Nil, state |-> "missing", writers |-> {}]
Whole(text) == [text |-> text, state |-> "whole", writers |-> {}]
Empty(writers) == [text |-> Nil, state |-> "empty", writers |-> writers]
Cut(writers) == [text |-> Nil, state |-> "cut", writers |-> writers]

Init ==
    /\ local = [p \in Runs |-> "idle"]
    /\ pc = [p \in Runs |-> 0]
    /\ exit = [p \in Runs |-> "none"]
    /\ plan = [p \in Runs |-> Nil]
    /\ staged = [p \in Runs |-> FALSE]
    /\ file = [f \in Paths |-> Missing]
    /\ new = [f \in Paths |-> Missing]
    /\ imports = 0
    /\ identity = FALSE
    /\ loaded = Missing
    /\ enabled = FALSE
    /\ service = Nil
    /\ caddy = {}
    /\ shared = [p \in Runs |-> FALSE]
    /\ tainted = FALSE
    /\ settled = Nil
    /\ installed = FALSE
    /\ troubles = 0

\* A fault, or an overlap, while a script runs
Trouble ==
    /\ troubles < MaxTroubles
    /\ troubles' = troubles + 1

-----------------------------------------------------------------------------
(***************************************************************************)
(* The command on the workstation, runRemoteInit.                          *)
(***************************************************************************)

\* The command chooses the binaries, makes a staging directory with a random
\* name, uploads both, and starts the script.  What fails before the script
\* has changed nothing but that directory, which no other run can name
Start(p, pl) ==
    /\ local[p] = "idle"
    /\ pc[p] = 0
    /\ local' = [local EXCEPT ![p] = "apply"]
    /\ pc' = [pc EXCEPT ![p] = 1]
    /\ exit' = [exit EXCEPT ![p] = "none"]
    /\ plan' = [plan EXCEPT ![p] = pl]
    /\ staged' = [staged EXCEPT ![p] = TRUE]
    /\ shared' = [q \in Runs |-> IF q = p THEN Running # {}
                                 ELSE shared[q] \/ q \in Running]
    /\ tainted' = (tainted \/ Running # {})
    /\ settled' = Nil
    /\ IF Running = {} THEN UNCHANGED troubles ELSE Trouble
    /\ UNCHANGED <<files, services, installed>>

\* The script has ended; the deferred removal of the staging directory
Answer(p) ==
    /\ local[p] = "apply"
    /\ pc[p] = 0
    /\ local' = [local EXCEPT ![p] = "idle"]
    /\ exit' = [exit EXCEPT ![p] = "none"]
    /\ plan' = [plan EXCEPT ![p] = Nil]
    /\ staged' = [staged EXCEPT ![p] = FALSE]
    /\ UNCHANGED <<pc, files, services, history>>

\* The connection breaks: the command goes on to its deferred calls, and the
\* script goes on
LoseConnection(p) ==
    /\ local[p] = "apply"
    /\ pc[p] # 0
    /\ local' = [local EXCEPT ![p] = "cleanup"]
    /\ Trouble
    /\ UNCHANGED <<pc, exit, plan, staged, files, services>>
    /\ UNCHANGED <<shared, tainted, settled, installed>>

\* The deferred removal of the staging directory, which may not reach the host
Cleanup(p) ==
    /\ local[p] = "cleanup"
    /\ local' = [local EXCEPT ![p] = "idle"]
    /\ staged' \in {staged, [staged EXCEPT ![p] = FALSE]}
    /\ UNCHANGED <<pc, exit, plan, files, services, history>>

\* The command dies, without its deferred calls
Interrupt(p) ==
    /\ local[p] # "idle"
    /\ pc[p] # 0
    /\ local' = [local EXCEPT ![p] = "idle"]
    /\ Trouble
    /\ UNCHANGED <<pc, exit, plan, staged, files, services>>
    /\ UNCHANGED <<shared, tainted, settled, installed>>

-----------------------------------------------------------------------------
(***************************************************************************)
(* The steps of the script.                                                *)
(***************************************************************************)

Advance(p) ==
    /\ pc' = [pc EXCEPT ![p] = @ + 1]
    /\ UNCHANGED <<local, exit, plan, staged>>

\* The script ends and its trap removes the staging directory
Leave(p, how) ==
    /\ pc' = [pc EXCEPT ![p] = 0]
    /\ exit' = [exit EXCEPT ![p] = how]
    /\ staged' = [staged EXCEPT ![p] = FALSE]
    /\ UNCHANGED <<local, plan>>

\* A command finds the host in a state in which it fails: set -e
Refuse(p) == Leave(p, "refused")

\* The staged binaries are there
Check(p) ==
    /\ At(p, "check")
    /\ IF staged[p] THEN Advance(p) ELSE Refuse(p)
    /\ UNCHANGED <<files, services, history>>

\* Mutant of User: the user is added whether or not it exists
UserAgain(p) ==
    /\ At(p, "user")
    /\ IF identity THEN Refuse(p) ELSE Advance(p)
    /\ identity' = TRUE
    /\ UNCHANGED <<file, new, imports, services, history>>

\* The service user and the data root
User(p) ==
    /\ At(p, "user")
    /\ Advance(p)
    /\ identity' = TRUE
    /\ UNCHANGED <<file, new, imports, services, history>>

\* Mutant of Open: files are written in place
OpenInPlace(p) ==
    /\ At(p, "open")
    /\ Advance(p)
    /\ new' = [new EXCEPT ![Path(p)] = Empty({p})]
    /\ file' = [file EXCEPT ![Path(p)] = Empty({p})]
    /\ UNCHANGED <<imports, identity, services, history>>

\* install -D needs its source and makes the ".new" file anew; cat > empties the
\* one that is there, which another run may be writing
Open(p) ==
    /\ At(p, "open")
    /\ LET installs == Argument(p) \in {"server", "contextq"}
           others   == IF installs THEN {} ELSE new[Path(p)].writers
       IN IF installs /\ ~staged[p]
            THEN /\ Refuse(p)
                 /\ UNCHANGED new
            ELSE /\ Advance(p)
                 /\ new' = [new EXCEPT ![Path(p)] = Empty({p} \cup others)]
    /\ UNCHANGED <<file, imports, identity, services, history>>

\* The file that run p has open, wherever it has been moved, gets its text from the
\* start; what was there may show behind a shorter one, unless it is covered
Written(p, content, covered) ==
    [f \in Paths |->
       LET c == content[f]
           text == Text(plan[p], f)
           writers == c.writers \ {p}
       IN IF p \notin c.writers THEN c
          ELSE IF covered \/ c.state = "empty" \/ c.text = text
            THEN [Whole(text) EXCEPT !.writers = writers]
          ELSE Cut(writers)]

Write(p) ==
    /\ At(p, "write")
    /\ Advance(p)
    /\ \E covered \in BOOLEAN :
         /\ file' = Written(p, file, covered)
         /\ new' = Written(p, new, covered)
    /\ UNCHANGED <<imports, identity, services, history>>

\* mv -f
Move(p) ==
    /\ At(p, "mv")
    /\ IF new[Path(p)] = Missing
         THEN /\ Refuse(p)
              /\ UNCHANGED <<file, new>>
         ELSE /\ Advance(p)
              /\ file' = [file EXCEPT ![Path(p)] = new[Path(p)]]
              /\ new' = [new EXCEPT ![Path(p)] = Missing]
    /\ UNCHANGED <<imports, identity, services, history>>

\* Mutant of Grep: the import is appended every time
GrepNothing(p) ==
    /\ At(p, "grep")
    /\ Advance(p)
    /\ UNCHANGED <<files, services, history>>

\* grep -qF: an import that is there is not appended again
Grep(p) ==
    /\ At(p, "grep")
    /\ pc' = [pc EXCEPT ![p] = IF imports > 0 THEN @ + 2 ELSE @ + 1]
    /\ UNCHANGED <<local, exit, plan, staged, files, services, history>>

AppendImport(p) ==
    /\ At(p, "append")
    /\ Advance(p)
    /\ imports' = imports + 1
    /\ UNCHANGED <<file, new, identity, services, history>>

-----------------------------------------------------------------------------
(***************************************************************************)
(* systemd and Caddy.                                                      *)
(***************************************************************************)

\* The server that a start brings up: none unless its unit and its binary are
\* whole, the binary is made for the host, the unit's user exists, and runServe
\* finds contextq executable, which install makes it once it is whole
Started(unit) ==
    IF /\ identity
       /\ unit.state = "whole"
       /\ file["server"].state = "whole"
       /\ file["contextq"].state = "whole"
       /\ file["server"].text.arch = HostArch
      THEN [server |-> file["server"].text, listen |-> unit.text]
      ELSE Nil

\* What Caddy finds when it reads its configuration: the imported snippets; an
\* empty one is no site, and one that is being written may be found in part
Snippets == {n \in Names : imports > 0 /\ file[n] # Missing}
Served   == {n \in Snippets : file[n].state = "whole"}
Sites    == {file[n].text : n \in Served}

\* No site twice, be it by two snippets or by two imports of one
SitesDistinct ==
    /\ imports > 1 => Snippets = {}
    /\ \A m, n \in Served : file[m].text.site = file[n].text.site => m = n

\* Caddy accepts its configuration, or may find it wrong
Acceptable == SitesDistinct /\ \A n \in Snippets : file[n].state # "cut"
Rejectable == ~Acceptable \/ \E n \in Snippets : file[n].writers # {}

\* What systemd has in memory of a unit file
InMemory(content) == [content EXCEPT !.writers = {}]

\* Mutant of DaemonReload: systemd keeps the unit it had
DaemonReloadForgotten(p) ==
    /\ At(p, "daemon-reload")
    /\ Advance(p)
    /\ loaded' = IF loaded = Missing THEN InMemory(file["unit"]) ELSE loaded
    /\ UNCHANGED <<files, enabled, service, caddy, history>>

DaemonReload(p) ==
    /\ At(p, "daemon-reload")
    /\ Advance(p)
    /\ loaded' = InMemory(file["unit"])
    /\ UNCHANGED <<files, enabled, service, caddy, history>>

\* Mutant of Enable: the unit is not enabled
EnableForgotten(p) ==
    /\ At(p, "enable")
    /\ Advance(p)
    /\ UNCHANGED <<files, services, history>>

Enable(p) ==
    /\ At(p, "enable")
    /\ Advance(p)
    /\ enabled' = TRUE
    /\ UNCHANGED <<files, loaded, service, caddy, history>>

\* A unit of type simple counts as started whatever becomes of its process
RestartService(p) ==
    /\ At(p, "restart")
    /\ Advance(p)
    /\ service' = Started(loaded)
    /\ UNCHANGED <<files, loaded, enabled, caddy, history>>

Validate(p) ==
    /\ At(p, "validate")
    /\ \/ Acceptable /\ Advance(p)
       \/ Rejectable /\ Refuse(p)
    /\ UNCHANGED <<files, services, history>>

\* systemctl reload caddy: it fails when Caddy is down, and a configuration that is
\* rejected changes nothing
ReloadCaddy(p) ==
    /\ At(p, "reload")
    /\ \/ Acceptable /\ caddy # Nil /\ Advance(p) /\ caddy' = Sites
       \/ (Rejectable \/ caddy = Nil) /\ Refuse(p) /\ UNCHANGED caddy
    /\ UNCHANGED <<files, loaded, enabled, service, history>>

\* systemctl is-active, the last command: the script has succeeded
IsActive(p) ==
    /\ At(p, "is-active")
    /\ IF service = Nil
         THEN /\ Refuse(p)
              /\ UNCHANGED <<tainted, settled, installed, troubles>>
         ELSE /\ Leave(p, "complete")
              /\ installed' = TRUE
              /\ settled' = IF shared[p] THEN settled ELSE plan[p]
              /\ tainted' = (tainted /\ shared[p])
              /\ troubles' = IF shared[p] THEN troubles ELSE 0
    /\ UNCHANGED <<files, services, shared>>

ScriptStep(p) ==
    \/ Check(p) \/ User(p) \/ Open(p) \/ Write(p) \/ Move(p)
    \/ Grep(p) \/ AppendImport(p) \/ DaemonReload(p) \/ Enable(p)
    \/ RestartService(p) \/ Validate(p) \/ ReloadCaddy(p) \/ IsActive(p)

-----------------------------------------------------------------------------
(***************************************************************************)
(* Faults.                                                                 *)
(***************************************************************************)

\* What stays of the files that runs were writing when they are stopped, some of
\* them in the middle of the write
CutShort(stopped, torn, content) ==
    [f \in Paths |->
       LET writers == content[f].writers \ stopped
       IN IF content[f].writers \cap torn # {} THEN Cut(writers)
          ELSE [content[f] EXCEPT !.writers = writers]]

\* A command of the script fails, or the shell is killed and its trap may not
\* run; a file that was being written stays empty or in part
Fault(p) ==
    /\ pc[p] # 0
    /\ pc' = [pc EXCEPT ![p] = 0]
    /\ exit' = [exit EXCEPT ![p] = "failed"]
    /\ staged' \in {staged, [staged EXCEPT ![p] = FALSE]}
    /\ \E torn \in SUBSET {p} :
         /\ file' = CutShort({p}, torn, file)
         /\ new' = CutShort({p}, torn, new)
    /\ Trouble
    /\ UNCHANGED <<local, plan, imports, identity, services>>
    /\ UNCHANGED <<shared, tainted, settled, installed>>

\* The server dies and systemd restarts it: Restart=on-failure
ServiceDies ==
    /\ service # Nil
    /\ service' = Started(loaded)
    /\ IF Running = {} THEN UNCHANGED troubles ELSE Trouble
    /\ UNCHANGED <<runVars, files, loaded, enabled, caddy>>
    /\ UNCHANGED <<shared, tainted, settled, installed>>

\* The host restarts: scripts are gone, /tmp may be, and systemd and Caddy read
\* their files
Reboot ==
    /\ IF Running = {} THEN UNCHANGED troubles ELSE Trouble
    /\ pc' = [p \in Runs |-> 0]
    /\ exit' = [p \in Runs |-> IF pc[p] = 0 THEN exit[p] ELSE "failed"]
    /\ staged' \in {staged, [p \in Runs |-> FALSE]}
    /\ \E torn \in SUBSET Running :
         /\ file' = CutShort(Running, torn, file)
         /\ new' = CutShort(Running, torn, new)
    /\ UNCHANGED <<local, plan, imports, identity, enabled>>
    /\ loaded' = file'["unit"]
    /\ service' = IF enabled THEN Started(file'["unit"]) ELSE Nil
    /\ caddy' = IF Acceptable' THEN Sites' ELSE Nil
    /\ UNCHANGED <<shared, tainted, settled, installed>>

-----------------------------------------------------------------------------
Next ==
    \/ \E p \in Runs :
         \/ \E pl \in Plans : Start(p, pl)
         \/ Answer(p) \/ LoseConnection(p) \/ Cleanup(p) \/ Interrupt(p)
         \/ ScriptStep(p) \/ Fault(p)
    \/ ServiceDies \/ Reboot

Spec == Init /\ [][Next]_vars

-----------------------------------------------------------------------------
(***************************************************************************)
(* Properties.                                                             *)
(***************************************************************************)

Contents(texts) ==
    {Missing} \cup [text : {Nil}, state : {"empty", "cut"}, writers : SUBSET Runs]
              \cup [text : texts, state : {"whole"}, writers : SUBSET Runs]

TypeOK ==
    /\ local \in [Runs -> {"idle", "apply", "cleanup"}]
    /\ pc \in [Runs -> 0 .. Len(Script)]
    /\ exit \in [Runs -> {"none", "complete", "refused", "failed"}]
    /\ plan \in [Runs -> Plans \cup {Nil}]
    /\ staged \in [Runs -> BOOLEAN]
    /\ \A content \in {file, new} :
         /\ content = [f \in Paths |-> content[f]]
         /\ \A f \in Paths : content[f] \in Contents(Texts[f])
    /\ imports \in 0 .. Cardinality(Runs)
    /\ identity \in BOOLEAN
    /\ loaded \in Contents({pl.listen : pl \in Plans})
    /\ enabled \in BOOLEAN
    /\ service \in Servers \cup {Nil}
    /\ caddy = Nil \/ caddy \subseteq {Site(pl) : pl \in Plans}
    /\ shared \in [Runs -> BOOLEAN]
    /\ tainted \in BOOLEAN
    /\ settled \in Plans \cup {Nil}
    /\ installed \in BOOLEAN
    /\ troubles \in 0 .. MaxTroubles

\* "Idempotent service user, directory, systemd, and Caddy convergence": when a
\* script completes that no other overlapped, the host is what its plan says,
\* whatever earlier scripts left behind, and remains so through deaths of the
\* service and reboots until another script starts.
Converged ==
    settled # Nil =>
      /\ \A f \in {"server", "contextq", "unit", settled.name} :
           file[f] = Whole(Text(settled, f))
      /\ {file["server"].text.arch, file["contextq"].text.arch} = {HostArch}
      /\ imports = 1
      /\ service = [server |-> file["server"].text, listen |-> settled.listen]
      /\ Site(settled) \in caddy

\* "installs both binaries atomically", "writes the systemd unit atomically":
\* while scripts do not overlap, nothing that is executed or loaded is ever
\* torn or being written, and the import is there once, wherever scripts fail or
\* are killed.
NothingTorn ==
    ~tainted =>
      /\ \A f \in {"server", "contextq", "unit"} :
           file[f].state \in {"missing", "whole"} /\ file[f].writers = {}
      /\ imports <= 1

\* Once the host was installed no upgrade, nor its failure at any step, leaves
\* it without a server, even if the server dies or the host reboots meanwhile.
ServiceKept == installed /\ ~tainted => service # Nil

\* The trap or the cleanup of a command that has ended took the binaries first
BinariesGone(p) ==
    (At(p, "check") \/ At(p, "open")) /\ ~staged[p] /\ local[p] # "apply"

\* Scripts overlapped: they imported the snippets twice, or tore another target's
LeftByOverlap(p) ==
    /\ At(p, "validate") \/ At(p, "reload")
    /\ tainted
    /\ imports > 1 \/ \E n \in Names \ {plan[p].name} : file[n].state = "cut"

\* Two targets of the host have the same site
SiteTaken(p) ==
    /\ At(p, "validate") \/ At(p, "reload")
    /\ \E m, n \in Served : m # n /\ file[m].text.site = file[n].text.site

\* A reboot found a configuration that Caddy refuses, and nobody has started it
CaddyDown(p) == At(p, "reload") /\ caddy = Nil

\* "Idempotent convergence": a script beside which no other ran does not refuse
\* what earlier ones left behind, wherever they failed, were killed or overlapped.
\* It refuses in four cases only: its binaries are gone with its command; an
\* overlap left a second import or part of another target's snippet; another
\* target has the same site; Caddy is down.
RerunSucceeds ==
    [][\A p \in Runs :
         exit'[p] = "refused" /\ exit[p] # "refused" /\ ~shared[p] =>
           BinariesGone(p) \/ LeftByOverlap(p) \/ SiteTaken(p) \/ CaddyDown(p)]_vars

=============================================================================
