---------------------------- MODULE TargetConfig ----------------------------
(***************************************************************************)
(* The administrator's workstation: the file of targets                    *)
(* (internal/target/config.go) and the commands that load it, change it,   *)
(* perhaps after work on the server over SSH, and save it whole            *)
(* ("target", "remote key" and "remote-init" of internal/app/remote.go).   *)
(* Commands run in several shells at once and take no lock, so a command   *)
(* saves what it loaded, seconds or minutes before.                        *)
(*                                                                         *)
(* Data: a token is a serial, 0 being the empty string; target names are   *)
(* numbers in the order of Names(), 0 again being the empty string.  The   *)
(* fields of a target that only say how to reach the server are left out,  *)
(* and so are the commands that change nothing.                            *)
(***************************************************************************)
EXTENDS Naturals, FiniteSets

CONSTANTS
    Names,      \* target names
    Namespaces, \* namespaces of the targets
    Labels,     \* labels of keys
    Procs,      \* shells in which commands run
    Workload,   \* the commands they run
    MaxSerial,  \* bound: the server issues at most this many keys
    Nil         \* no target, no command

ASSUME NamesAssumption == Names \subseteq Nat \ {0}
ASSUME SerialAssumption == MaxSerial \in Nat

Serials == 1 .. MaxSerial
Targets == [ns : Namespaces, key : Serials \cup {0}]
Configs == [targets : [Names -> Targets \cup {Nil}], default : Names \cup {0}]
LiveKeys == [ns : Namespaces, label : Labels, serial : Serials]

(***************************************************************************)
(* The commands.  "add" may give a key, "keyAdd" may be told not to save   *)
(* the token; the ones that resolve a target may leave its name out.       *)
(***************************************************************************)
Commands ==
    [kind : {"add"}, name : Names, ns : Namespaces, key : Serials \cup {0}, use : BOOLEAN]
      \cup [kind : {"use", "remove"}, name : Names]
      \cup [kind : {"keyAdd"}, name : Names \cup {0}, label : Labels, noSave : BOOLEAN]
      \cup [kind : {"remoteInit"}, name : Names \cup {0}, label : Labels]
      \cup [kind : {"revoke"}, name : Names \cup {0}, id : Serials]

ASSUME WorkloadAssumption == Workload \subseteq Commands
ASSUME NilAssumption == Nil \notin Commands \cup Targets

VARIABLES
    config, \* the file of targets
    pc,     \* how far each command is
    cmd,    \* the command each shell runs
    loaded, \* the configuration it loaded
    token,  \* the token the server answered it with, or 0
    live,   \* the keys registered on the server
    serial, \* keys issued so far
    fate    \* history: what became of each issued token

vars == <<config, pc, cmd, loaded, token, live, serial, fate>>

NoTargets == [targets |-> [n \in Names |-> Nil], default |-> 0]

TypeOK ==
    /\ config \in Configs
    /\ pc \in [Procs -> {"idle", "remote", "save"}]
    /\ cmd \in [Procs -> Commands \cup {Nil}]
    /\ loaded \in [Procs -> Configs]
    /\ token \in [Procs -> Serials \cup {0}]
    /\ live \subseteq LiveKeys
    /\ serial \in 0 .. MaxSerial
    /\ fate \in [Serials -> {"none", "unanswered", "held", "printed", "saved", "crashed"}]

Init ==
    /\ config = NoTargets
    /\ pc = [p \in Procs |-> "idle"]
    /\ cmd = [p \in Procs |-> Nil]
    /\ loaded = [p \in Procs |-> NoTargets]
    /\ token = [p \in Procs |-> 0]
    /\ live = {}
    /\ serial = 0
    /\ fate = [s \in Serials |-> "none"]

-----------------------------------------------------------------------------
(***************************************************************************)
(* Operations on a loaded configuration.                                   *)
(***************************************************************************)
Known(cfg) == {n \in Names : cfg.targets[n] # Nil}

\* Config.Resolve, the name of the target a command is about
Resolved(cfg, name) == IF name = 0 THEN cfg.default ELSE name

\* Names()[0]
FirstName(names) ==
    IF names = {} THEN 0 ELSE CHOOSE n \in names : \A m \in names : n <= m

\* Config.Validate, which every Load and every Save goes through
Valid(cfg) == cfg.default # 0 => cfg.default \in Known(cfg)

\* Config.Set; "target add" keeps the key of the entry it replaces
WithAdded(cfg, c) ==
    LET old == cfg.targets[c.name]
        key == IF c.key = 0 /\ old # Nil THEN old.key ELSE c.key
    IN [targets |-> [cfg.targets EXCEPT ![c.name] = [ns |-> c.ns, key |-> key]],
        default |-> IF c.use \/ cfg.default = 0 THEN c.name ELSE cfg.default]

\* Mutant of WithRemoved: the default is cleared and not chosen again
WithRemovedDefault(cfg, name) ==
    [targets |-> [cfg.targets EXCEPT ![name] = Nil],
     default |-> IF cfg.default = name THEN 0 ELSE cfg.default]

\* "target remove"
WithRemoved(cfg, name) ==
    LET left == Known(cfg) \ {name}
    IN [targets |-> [cfg.targets EXCEPT ![name] = Nil],
        default |-> IF cfg.default = name THEN FirstName(left) ELSE cfg.default]

\* Mutant of WithKey: the entry is replaced by one that has only the key
WithKeyOnly(cfg, name, key) ==
    [cfg EXCEPT !.targets[name] = [ns |-> Nil, key |-> key]]

\* The key of a target is replaced, or cleared
WithKey(cfg, name, key) == [cfg EXCEPT !.targets[name] = [@ EXCEPT !.key = key]]

\* Mutant of Updated: the key goes to the default target
UpdatedDefault(p) ==
    LET c == cmd[p]
        cfg == loaded[p]
    IN IF c.kind = "add" THEN WithAdded(cfg, c)
       ELSE IF c.kind = "use" THEN [cfg EXCEPT !.default = c.name]
       ELSE IF c.kind = "remove" THEN WithRemoved(cfg, c.name)
       ELSE WithKey(cfg, cfg.default, token[p])

\* What the command of p writes, from what it loaded
Updated(p) ==
    LET c == cmd[p]
        cfg == loaded[p]
    IN IF c.kind = "add" THEN WithAdded(cfg, c)
       ELSE IF c.kind = "use" THEN [cfg EXCEPT !.default = c.name]
       ELSE IF c.kind = "remove" THEN WithRemoved(cfg, c.name)
       ELSE WithKey(cfg, Resolved(cfg, c.name), token[p])

-----------------------------------------------------------------------------
(***************************************************************************)
(* The steps of a command.  One that is refused before it saves, or fails  *)
(* without a token in hand, changes nothing and just returns.              *)
(***************************************************************************)
Local == {"add", "use", "remove"}

\* The target a command resolves exists; "target add" needs none
Resolves(cfg, c) == c.kind = "add" \/ Resolved(cfg, c.name) \in Known(cfg)

\* Mutant of Load: the name given is not looked up
LoadUnresolved(p, c) ==
    /\ pc[p] = "idle"
    /\ Valid(config)
    /\ cmd' = [cmd EXCEPT ![p] = c]
    /\ loaded' = [loaded EXCEPT ![p] = config]
    /\ pc' = [pc EXCEPT ![p] = IF c.kind \in Local THEN "save" ELSE "remote"]
    /\ UNCHANGED <<config, token, live, serial, fate>>

\* The command starts: it loads the configuration
Load(p, c) ==
    /\ pc[p] = "idle"
    /\ Valid(config)
    /\ Resolves(config, c)
    /\ cmd' = [cmd EXCEPT ![p] = c]
    /\ loaded' = [loaded EXCEPT ![p] = config]
    /\ pc' = [pc EXCEPT ![p] = IF c.kind \in Local THEN "save" ELSE "remote"]
    /\ UNCHANGED <<config, token, live, serial, fate>>

Return(p) ==
    /\ pc' = [pc EXCEPT ![p] = "idle"]
    /\ cmd' = [cmd EXCEPT ![p] = Nil]
    /\ loaded' = [loaded EXCEPT ![p] = NoTargets]
    /\ token' = [token EXCEPT ![p] = 0]

Fate(s, what) == fate' = [fate EXCEPT ![s] = what]

\* The entry the command resolved when it loaded the configuration
Target(p) == loaded[p].targets[Resolved(loaded[p], cmd[p].name)]

\* "remote-init" on a target that has a key issues none
NeedsKey(p) ==
    \/ cmd[p].kind = "keyAdd"
    \/ cmd[p].kind = "remoteInit" /\ Target(p).key = 0

\* SSH fails, or the remote command does before it changes anything; or there
\* is nothing to do
RemoteReturns(p) ==
    /\ pc[p] = "remote"
    /\ Return(p)
    /\ UNCHANGED <<config, live, serial, fate>>

\* "key add" on the server, which refuses a label in use; its answer comes back
\* and is printed or about to be saved, or is lost with the connection
RemoteKeyAdd(p) ==
    /\ pc[p] = "remote"
    /\ NeedsKey(p)
    /\ serial < MaxSerial
    /\ \A k \in live : k.ns = Target(p).ns => k.label # cmd[p].label
    /\ serial' = serial + 1
    /\ live' = live \cup {[ns |-> Target(p).ns, label |-> cmd[p].label, serial |-> serial + 1]}
    /\ \/ /\ cmd[p].kind = "keyAdd" /\ cmd[p].noSave
          /\ Fate(serial + 1, "printed")
          /\ Return(p)
       \/ /\ ~(cmd[p].kind = "keyAdd" /\ cmd[p].noSave)
          /\ Fate(serial + 1, "held")
          /\ token' = [token EXCEPT ![p] = serial + 1]
          /\ pc' = [pc EXCEPT ![p] = "save"]
          /\ UNCHANGED <<cmd, loaded>>
       \/ /\ Fate(serial + 1, "unanswered")
          /\ Return(p)
    /\ UNCHANGED config

\* "key revoke" on the server; the target is saved only when the key it had at
\* the start is the one revoked, and only when the answer comes back
RemoteKeyRevoke(p) ==
    /\ pc[p] = "remote"
    /\ cmd[p].kind = "revoke"
    /\ \E k \in live : k.ns = Target(p).ns /\ k.serial = cmd[p].id
    /\ live' = {k \in live : k.serial # cmd[p].id}
    /\ \/ /\ Target(p).key = cmd[p].id
          /\ pc' = [pc EXCEPT ![p] = "save"]
          /\ UNCHANGED <<cmd, loaded, token>>
       \/ Return(p)
    /\ UNCHANGED <<config, serial, fate>>

\* Config.Save: the rename of the new file.  "remote key add" then prints the
\* token, "remote-init" does not
Save(p) ==
    /\ pc[p] = "save"
    /\ Valid(Updated(p))
    /\ config' = Updated(p)
    /\ IF token[p] = 0 THEN UNCHANGED fate
       ELSE Fate(token[p], IF cmd[p].kind = "keyAdd" THEN "printed" ELSE "saved")
    /\ Return(p)
    /\ UNCHANGED <<live, serial>>

\* Mutant of SaveFails: the error does not show the token
SaveFailsSilently(p) ==
    /\ pc[p] = "save"
    /\ Return(p)
    /\ UNCHANGED <<config, live, serial, fate>>

\* Save fails before the rename; the error shows a token that would be lost
SaveFails(p) ==
    /\ pc[p] = "save"
    /\ IF token[p] = 0 THEN UNCHANGED fate ELSE Fate(token[p], "printed")
    /\ Return(p)
    /\ UNCHANGED <<config, live, serial>>

\* The command is interrupted
Crash(p) ==
    /\ pc[p] # "idle"
    /\ IF token[p] = 0 THEN UNCHANGED fate ELSE Fate(token[p], "crashed")
    /\ Return(p)
    /\ UNCHANGED <<config, live, serial>>

Next ==
    \E p \in Procs :
      \/ \E c \in Workload : Load(p, c)
      \/ RemoteReturns(p) \/ RemoteKeyAdd(p) \/ RemoteKeyRevoke(p)
      \/ Save(p) \/ SaveFails(p) \/ Crash(p)

Spec == Init /\ [][Next]_vars

-----------------------------------------------------------------------------
(***************************************************************************)
(* Properties.                                                             *)
(***************************************************************************)

\* While any target is configured one of them is the default, whatever is
\* removed and whichever stale copies are saved over newer ones: a command
\* without --target always finds its target.
DefaultKept ==
    \A cfg \in {config} \cup {loaded[p] : p \in Procs} :
      IF Known(cfg) = {} THEN cfg.default = 0 ELSE cfg.default \in Known(cfg)

\* The server shows a token once, so a command that received one does not end
\* without having printed or saved it, whatever fails, unless it is interrupted.
TokensDelivered ==
    \A s \in Serials : fate[s] = "held" => \E p \in Procs : token[p] = s

\* A command during which no other command saved does what it says and no more:
\* no entry but its target's changes, and a revoked key leaves its target.
AloneIsExact ==
    [][\A p \in Procs :
         (Save(p) /\ config = loaded[p]) =>
           LET name == Resolved(config, cmd[p].name) IN
             /\ \A n \in Names \ {name} : config'.targets[n] = config.targets[n]
             /\ cmd[p].kind = "revoke" => config'.targets[name].key # cmd[p].id]_vars

\* docs/installation.md: "Re-running remote-init --apply [...] does not issue
\* another API key when the target already has one."
InitReusesKey ==
    [][\A p \in Procs :
         (cmd[p] # Nil /\ cmd[p].kind = "remoteInit" /\ RemoteKeyAdd(p)) =>
           LET name == Resolved(loaded[p], cmd[p].name) IN
             config.targets[name] = Nil \/ config.targets[name].key = 0]_vars

=============================================================================
