------------------------- MODULE TargetConfigProofs -------------------------
(***************************************************************************)
(* Safety of the target configuration for any number of shells, targets    *)
(* and commands.                                                           *)
(***************************************************************************)
EXTENDS TargetConfigInv, WellFoundedInduction, TLAPS

USE NamesAssumption, SerialAssumption, NilAssumption, WorkloadAssumption

\* The fields of a command are those of its kind.
LEMMA CommandFields ==
    ASSUME NEW c \in Commands
    PROVE  /\ c.kind \in {"add", "use", "remove", "keyAdd", "remoteInit", "revoke"}
           /\ c.kind \in Local => c.name \in Names
           /\ c.kind \notin Local => c.name \in Names \cup {0}
           /\ c.kind = "add" => /\ c.ns \in Namespaces
                                /\ c.key \in Serials \cup {0}
                                /\ c.use \in BOOLEAN
           /\ c.kind \in {"keyAdd", "remoteInit"} => c.label \in Labels
           /\ c.kind = "revoke" => c.id \in Serials
  BY DEF Commands, Local

\* The order of the names, as a relation.
Before == {ss \in Nat \X Nat : ss[1] < ss[2]}

\* A name no other is before is the least one.
LEMMA NothingBefore ==
    ASSUME NEW names \in SUBSET Nat, NEW n \in names,
           \A m \in names : ~(<<m, n>> \in Before)
    PROVE  \A m \in names : n <= m
<1> SUFFICES ASSUME NEW m \in names
             PROVE  n <= m
  OBVIOUS
<1>1. m \in Nat /\ n \in Nat /\ <<m, n>> \in Nat \X Nat
  OBVIOUS
<1>2. <<m, n>> \notin {ss \in Nat \X Nat : ss[1] < ss[2]}
  BY DEF Before
<1>3. ~(<<m, n>>[1] < <<m, n>>[2])
  BY <1>1, <1>2, Zenon
<1>4. ~(m < n)
  BY <1>3
<1> QED
  BY <1>1, <1>4

\* Names()[0] is one of the names, if there are any.
LEMMA FirstNameIn ==
    ASSUME NEW names \in SUBSET Names
    PROVE  IF names = {} THEN FirstName(names) = 0 ELSE FirstName(names) \in names
<1>1. CASE names = {}
  BY <1>1 DEF FirstName
<1>2. CASE names # {}
  <2>1. names \in SUBSET Nat
    OBVIOUS
  <2>2. \E n \in names : \A m \in names : n <= m
    <3>1. IsWellFoundedOn(Before, Nat)
      BY NatLessThanWellFounded DEF OpToRel, Before
    <3>2. \E n \in names : \A m \in names : ~(<<m, n>> \in Before)
      BY <1>2, <2>1, <3>1, WFMin, Zenon
    <3> QED
      BY <2>1, <3>2, NothingBefore, Zenon
  <2> QED
    BY <1>2, <2>2 DEF FirstName
<1> QED
  BY <1>1, <1>2

\* The configuration whose default is what DefaultKept asks for.
Sound(cfg) == IF Known(cfg) = {} THEN cfg.default = 0 ELSE cfg.default \in Known(cfg)

\* A command resolves to a target of the configuration it loaded.
LEMMA ResolvedKnown ==
    ASSUME NEW cfg \in Configs, NEW c \in Commands, Resolves(cfg, c), c.kind # "add"
    PROVE  /\ Resolved(cfg, c.name) \in Names
           /\ cfg.targets[Resolved(cfg, c.name)] \in Targets
  BY DEF Resolves, Known, Configs

\* target add keeps the configuration sound and well typed.
LEMMA AddedSound ==
    ASSUME NEW cfg \in Configs, Sound(cfg), NEW c \in Commands, c.kind = "add"
    PROVE  WithAdded(cfg, c) \in Configs /\ Sound(WithAdded(cfg, c))
<1> DEFINE old == cfg.targets[c.name]
           key == IF c.key = 0 /\ old # Nil THEN old.key ELSE c.key
           new == [ns |-> c.ns, key |-> key]
           default == IF c.use \/ cfg.default = 0 THEN c.name ELSE cfg.default
<1>1. c.name \in Names /\ c.ns \in Namespaces /\ c.key \in Serials \cup {0} /\ c.use \in BOOLEAN
  BY CommandFields DEF Local
<1>2. /\ cfg.targets \in [Names -> Targets \cup {Nil}]
      /\ cfg.default \in Names \cup {0}
  BY DEF Configs
<1>3. new \in Targets
  <2>1. old # Nil => old.key \in Serials \cup {0}
    BY <1>1, <1>2 DEF Targets
  <2> QED
    BY <1>1, <2>1 DEF Targets
<1>4. new # Nil
  BY <1>3
<1> HIDE DEF new
<1>5. WithAdded(cfg, c) = [targets |-> [cfg.targets EXCEPT ![c.name] = new], default |-> default]
  BY DEF WithAdded, new
<1>6. default \in Names \cup {0}
  BY <1>1, <1>2
<1>7. Known(WithAdded(cfg, c)) = Known(cfg) \cup {c.name}
  BY <1>1, <1>2, <1>4, <1>5 DEF Known
<1>8. default \in Known(cfg) \cup {c.name}
  BY <1>1 DEF Sound
<1> HIDE DEF default
<1> QED
  BY <1>1, <1>2, <1>3, <1>5, <1>6, <1>7, <1>8 DEF Sound, Configs

\* target remove keeps the configuration sound and well typed.
LEMMA RemovedSound ==
    ASSUME NEW cfg \in Configs, Sound(cfg), NEW name \in Names
    PROVE  WithRemoved(cfg, name) \in Configs /\ Sound(WithRemoved(cfg, name))
<1> DEFINE left == Known(cfg) \ {name}
           default == IF cfg.default = name THEN FirstName(left) ELSE cfg.default
<1>1. /\ cfg.targets \in [Names -> Targets \cup {Nil}]
      /\ cfg.default \in Names \cup {0}
  BY DEF Configs
<1>2. left \in SUBSET Names
  BY DEF Known
<1>3. IF left = {} THEN FirstName(left) = 0 ELSE FirstName(left) \in left
  BY <1>2, FirstNameIn
<1>4. WithRemoved(cfg, name) = [targets |-> [cfg.targets EXCEPT ![name] = Nil], default |-> default]
  BY DEF WithRemoved
<1>5. Known(WithRemoved(cfg, name)) = left
  BY <1>1, <1>4 DEF Known
<1>6. IF left = {} THEN default = 0 ELSE default \in left
  <2>1. CASE cfg.default = name
    BY <2>1, <1>3
  <2>2. CASE cfg.default # name
    BY <2>2 DEF Sound
  <2> QED
    BY <2>1, <2>2
<1>7. default \in Names \cup {0}
  BY <1>2, <1>6
<1> HIDE DEF left, default
<1> QED
  BY <1>1, <1>4, <1>5, <1>6, <1>7 DEF Sound, Configs

\* Storing or clearing a key changes neither the targets nor the default.
LEMMA KeySound ==
    ASSUME NEW cfg \in Configs, Sound(cfg), NEW name \in Known(cfg),
           NEW key \in Serials \cup {0}
    PROVE  WithKey(cfg, name, key) \in Configs /\ Sound(WithKey(cfg, name, key))
<1> DEFINE new == [cfg.targets[name] EXCEPT !.key = key]
<1>1. /\ cfg.targets \in [Names -> Targets \cup {Nil}]
      /\ cfg.default \in Names \cup {0}
      /\ name \in Names
      /\ cfg.targets[name] \in Targets
      /\ cfg = [targets |-> cfg.targets, default |-> cfg.default]
  BY DEF Configs, Known
<1>2. new \in Targets
  BY <1>1 DEF Targets
<1>3. new # Nil
  BY <1>2
<1>4. WithKey(cfg, name, key) = [targets |-> [cfg.targets EXCEPT ![name] = new],
                                 default |-> cfg.default]
  BY <1>1 DEF WithKey
<1> HIDE DEF new
<1>5. Known(WithKey(cfg, name, key)) = Known(cfg)
  BY <1>1, <1>3, <1>4 DEF Known
<1> QED
  BY <1>1, <1>2, <1>4, <1>5 DEF Sound, Configs

\* What a command writes is sound when what it loaded was, however old.
LEMMA UpdatedSound ==
    ASSUME TypeOK, NEW p \in Procs, cmd[p] # Nil,
           Resolves(loaded[p], cmd[p]), Sound(loaded[p])
    PROVE  Updated(p) \in Configs /\ Sound(Updated(p))
<1> DEFINE c == cmd[p]
           cfg == loaded[p]
<1>1. c \in Commands /\ cfg \in Configs /\ token[p] \in Serials \cup {0}
  BY DEF TypeOK
<1>2. Resolves(cfg, c) /\ Sound(cfg)
  OBVIOUS
<1> HIDE DEF c, cfg
<1>3. CASE c.kind = "add"
  BY <1>1, <1>2, <1>3, AddedSound DEF Updated, c, cfg
<1>4. CASE c.kind = "use"
  <2>1. c.name \in Names /\ Resolved(cfg, c.name) = c.name
    BY <1>1, <1>4, CommandFields DEF Local, Resolved
  <2>2. c.name \in Known(cfg)
    BY <1>2, <1>4, <2>1 DEF Resolves
  <2>3. Updated(p) = [cfg EXCEPT !.default = c.name]
    BY <1>4 DEF Updated, c, cfg
  <2>4. Updated(p) = [targets |-> cfg.targets, default |-> c.name]
    BY <1>1, <2>3 DEF Configs
  <2>5. Known(Updated(p)) = Known(cfg)
    BY <2>4 DEF Known
  <2> QED
    BY <1>1, <2>1, <2>2, <2>4, <2>5 DEF Sound, Configs
<1>5. CASE c.kind = "remove"
  <2>1. c.name \in Names
    BY <1>1, <1>5, CommandFields DEF Local
  <2>2. Updated(p) = WithRemoved(cfg, c.name)
    BY <1>5 DEF Updated, c, cfg
  <2> QED
    BY <1>1, <1>2, <2>1, <2>2, RemovedSound
<1>6. CASE c.kind \notin Local
  <2>1. Resolved(cfg, c.name) \in Known(cfg)
    BY <1>2, <1>6 DEF Resolves, Local
  <2>2. Updated(p) = WithKey(cfg, Resolved(cfg, c.name), token[p])
    BY <1>6 DEF Updated, Local, c, cfg
  <2> QED
    BY <1>1, <1>2, <2>1, <2>2, KeySound
<1> QED
  BY <1>3, <1>4, <1>5, <1>6 DEF Local

-----------------------------------------------------------------------------
\* A command that returns leaves the state of its shell well typed.
LEMMA ReturnTypes ==
    ASSUME TypeOK, NEW p \in Procs, Return(p)
    PROVE  /\ pc' \in [Procs -> {"idle", "remote", "save"}]
           /\ cmd' \in [Procs -> Commands \cup {Nil}]
           /\ loaded' \in [Procs -> Configs]
           /\ token' \in [Procs -> Serials \cup {0}]
<1>1. NoTargets \in Configs
  BY DEF NoTargets, Configs
<1> QED
  BY <1>1 DEF TypeOK, Return

\* The target a command works on is one of those it loaded.
LEMMA TargetType ==
    ASSUME TypeOK, Control, NEW p \in Procs, pc[p] = "remote"
    PROVE  cmd[p] \in Commands /\ (cmd[p].kind # "add" => Target(p) \in Targets)
<1>1. cmd[p] \in Commands /\ loaded[p] \in Configs /\ Resolves(loaded[p], cmd[p])
  BY DEF TypeOK, Control
<1> QED
  BY <1>1, ResolvedKnown DEF Target

\* A token that is not held anywhere else can change its fate.
LEMMA FateType ==
    ASSUME TypeOK, NEW s \in Serials,
           NEW what \in {"unanswered", "held", "printed", "saved", "crashed"}, Fate(s, what)
    PROVE  fate' \in [Serials -> {"none", "unanswered", "held", "printed", "saved", "crashed"}]
  BY DEF TypeOK, Fate

\* Every step keeps the types.
LEMMA TypeStep == TypeOK /\ Inv /\ [Next]_vars => TypeOK'
<1> SUFFICES ASSUME TypeOK, Inv, [Next]_vars
             PROVE  TypeOK'
  OBVIOUS
<1> USE DEF Inv
<1>1. CASE UNCHANGED vars
  BY <1>1 DEF TypeOK, vars
<1>2. ASSUME NEW p \in Procs, NEW c \in Workload, Load(p, c)
      PROVE  TypeOK'
  BY <1>2 DEF TypeOK, Load
<1>3. ASSUME NEW p \in Procs, RemoteReturns(p)
      PROVE  TypeOK'
  BY <1>3, ReturnTypes DEF TypeOK, RemoteReturns
<1>4. ASSUME NEW p \in Procs, RemoteKeyAdd(p)
      PROVE  TypeOK'
  <2>1. serial + 1 \in Serials /\ serial' \in 0 .. MaxSerial
    BY <1>4 DEF RemoteKeyAdd, TypeOK, Serials
  <2>2. /\ cmd[p] \in Commands
        /\ cmd[p].kind \in {"keyAdd", "remoteInit"}
        /\ Target(p) \in Targets
    BY <1>4, TargetType DEF RemoteKeyAdd, NeedsKey
  <2>3. cmd[p].label \in Labels /\ Target(p).ns \in Namespaces
    BY <2>2, CommandFields DEF Targets
  <2>4. live' \subseteq LiveKeys
    BY <1>4, <2>1, <2>3 DEF RemoteKeyAdd, TypeOK, LiveKeys
  <2>5. fate' \in [Serials -> {"none", "unanswered", "held", "printed", "saved", "crashed"}]
    BY <1>4, <2>1, FateType DEF RemoteKeyAdd
  <2>6. CASE Return(p)
    BY <1>4, <2>1, <2>4, <2>5, <2>6, ReturnTypes DEF TypeOK, RemoteKeyAdd
  <2>7. CASE ~Return(p)
    BY <1>4, <2>1, <2>4, <2>5, <2>7 DEF TypeOK, RemoteKeyAdd
  <2> QED
    BY <2>6, <2>7
<1>5. ASSUME NEW p \in Procs, RemoteKeyRevoke(p)
      PROVE  TypeOK'
  <2>1. live' \subseteq LiveKeys
    BY <1>5 DEF TypeOK, RemoteKeyRevoke
  <2>2. CASE Return(p)
    BY <1>5, <2>1, <2>2, ReturnTypes DEF TypeOK, RemoteKeyRevoke
  <2>3. CASE ~Return(p)
    BY <1>5, <2>1, <2>3 DEF TypeOK, RemoteKeyRevoke
  <2> QED
    BY <2>2, <2>3
<1>6. ASSUME NEW p \in Procs, Save(p) \/ SaveFails(p) \/ Crash(p)
      PROVE  TypeOK'
  <2>1. Return(p) /\ UNCHANGED <<live, serial>>
    BY <1>6 DEF Save, SaveFails, Crash
  <2>2. config' \in Configs
    <3>1. CASE Save(p)
      <4>1. cmd[p] # Nil /\ Resolves(loaded[p], cmd[p]) /\ Sound(loaded[p])
        BY <3>1 DEF Save, Control, DefaultKept, Sound
      <4> QED
        BY <3>1, <4>1, UpdatedSound DEF Save
    <3> QED
      BY <1>6, <3>1 DEF SaveFails, Crash, TypeOK
  <2>3. fate' \in [Serials -> {"none", "unanswered", "held", "printed", "saved", "crashed"}]
    <3>1. CASE token[p] = 0
      BY <1>6, <3>1 DEF Save, SaveFails, Crash, TypeOK
    <3>2. CASE token[p] # 0
      <4>1. token[p] \in Serials
        BY <3>2 DEF TypeOK
      <4> QED
        BY <1>6, <3>2, <4>1, FateType DEF Save, SaveFails, Crash
    <3> QED
      BY <3>1, <3>2
  <2> QED
    BY <2>1, <2>2, <2>3, ReturnTypes DEF TypeOK
<1> QED
  BY <1>1, <1>2, <1>3, <1>4, <1>5, <1>6 DEF Next

\* Every step leaves each command with the target it resolved.
LEMMA ControlStep == TypeOK /\ Control /\ [Next]_vars => Control'
<1> SUFFICES ASSUME TypeOK, Control, [Next]_vars
             PROVE  Control'
  OBVIOUS
<1>1. CASE UNCHANGED vars
  BY <1>1 DEF Control, Resolves, vars
<1>2. ASSUME NEW p \in Procs, NEW c \in Workload, Load(p, c)
      PROVE  Control'
  BY <1>2 DEF Control, Load, TypeOK
<1>3. ASSUME NEW p \in Procs, Return(p)
      PROVE  Control'
  BY <1>3 DEF Control, Return, TypeOK
<1>4. ASSUME NEW p \in Procs, pc[p] = "remote", pc' = [pc EXCEPT ![p] = "save"],
             \/ token' = token
             \/ NeedsKey(p) /\ \E s \in Serials : token' = [token EXCEPT ![p] = s],
             UNCHANGED <<cmd, loaded>>
      PROVE  Control'
  BY <1>4 DEF Control, TypeOK, NeedsKey
<1>5. ASSUME NEW p \in Procs, RemoteKeyAdd(p)
      PROVE  Control'
  <2>1. serial + 1 \in Serials
    BY <1>5 DEF RemoteKeyAdd, TypeOK, Serials
  <2> QED
    BY <1>3, <1>4, <1>5, <2>1 DEF RemoteKeyAdd
<1>6. ASSUME NEW p \in Procs, RemoteKeyRevoke(p)
      PROVE  Control'
  BY <1>3, <1>4, <1>6 DEF RemoteKeyRevoke
<1>7. ASSUME NEW p \in Procs, RemoteReturns(p) \/ Save(p) \/ SaveFails(p) \/ Crash(p)
      PROVE  Control'
  BY <1>3, <1>7 DEF RemoteReturns, Save, SaveFails, Crash
<1> QED
  BY <1>1, <1>2, <1>5, <1>6, <1>7 DEF Next

\* A command that has no token in hand leaves the tokens alone by returning.
LEMMA ReturnWithoutToken ==
    ASSUME TypeOK, NEW p \in Procs, token[p] = 0, Return(p)
    PROVE  token' = token
  BY DEF TypeOK, Return

\* A step that issues nothing and ends no command with a token keeps the
\* account of the tokens.
LEMMA TokensUntouched ==
    ASSUME Tokens, TokensDelivered, UNCHANGED <<token, fate, serial>>
    PROVE  Tokens' /\ TokensDelivered'
  BY DEF Tokens, TokensDelivered

\* A token just issued is in the hand of the command that asked for it, or
\* counts as printed or as unanswered.
LEMMA TokensIssued ==
    ASSUME TypeOK, Tokens, TokensDelivered, NEW p \in Procs, token[p] = 0,
           serial + 1 \in Serials, serial' = serial + 1,
           \/ /\ \E what \in {"printed", "unanswered"} : Fate(serial + 1, what)
              /\ token' = token
           \/ /\ Fate(serial + 1, "held")
              /\ token' = [token EXCEPT ![p] = serial + 1]
    PROVE  Tokens' /\ TokensDelivered'
<1>1. /\ serial \in Nat
      /\ token \in [Procs -> Serials \cup {0}]
      /\ DOMAIN fate = Serials
      /\ Serials \subseteq Nat \ {0}
  BY DEF TypeOK, Serials
<1>2. \A q \in Procs : token[q] # 0 => /\ token[q] \in Serials /\ token[q] # serial + 1
                                       /\ fate[token[q]] = "held" /\ token[q] <= serial'
  <2>1. \A q \in Procs : token[q] # 0 => /\ token[q] \in Serials
                                         /\ fate[token[q]] = "held" /\ token[q] <= serial
    BY <1>1 DEF Tokens
  <2>2. \A s \in Serials : s <= serial => s # serial + 1 /\ s <= serial'
    BY <1>1
  <2> QED
    BY <2>1, <2>2
<1>3. \A s \in Serials : s > serial' => s # serial + 1 /\ fate[s] = "none"
  BY <1>1 DEF Tokens
<1>4. CASE Fate(serial + 1, "held") /\ token' = [token EXCEPT ![p] = serial + 1]
  <2>1. \A q \in Procs : token'[q] = IF q = p THEN serial + 1 ELSE token[q]
    BY <1>1, <1>4
  <2>2. \A s \in Serials : fate'[s] = IF s = serial + 1 THEN "held" ELSE fate[s]
    BY <1>1, <1>4 DEF Fate
  <2>3. \A q \in Procs : token'[q] # 0 => fate'[token'[q]] = "held" /\ token'[q] <= serial'
    <3>1. \A q \in Procs : q # p /\ token'[q] # 0 => fate'[token'[q]] = "held" /\ token'[q] <= serial'
      BY <1>2, <2>1, <2>2
    <3>2. token'[p] = serial + 1 /\ fate'[serial + 1] = "held" /\ serial + 1 <= serial'
      BY <1>1, <2>1, <2>2
    <3> QED
      BY <3>1, <3>2
  <2>4. \A q, r \in Procs : token'[q] # 0 /\ token'[q] = token'[r] => q = r
    BY <1>1, <1>2, <2>1 DEF Tokens
  <2>5. \A s \in Serials : s > serial' => fate'[s] = "none"
    BY <1>3, <2>2
  <2>6. Tokens'
    BY <2>3, <2>4, <2>5 DEF Tokens
  <2>7. TokensDelivered'
    BY <1>1, <1>2, <2>1, <2>2 DEF TokensDelivered
  <2> QED
    BY <2>6, <2>7
<1>5. CASE (\E what \in {"printed", "unanswered"} : Fate(serial + 1, what)) /\ token' = token
  <2>1. PICK what \in {"printed", "unanswered"} : Fate(serial + 1, what)
    BY <1>5
  <2>2. \A s \in Serials : fate'[s] = IF s = serial + 1 THEN what ELSE fate[s]
    BY <1>1, <2>1 DEF Fate
  <2>3. \A q \in Procs : token'[q] # 0 => fate'[token'[q]] = "held" /\ token'[q] <= serial'
    BY <1>2, <1>5, <2>2
  <2>4. \A q, r \in Procs : token'[q] # 0 /\ token'[q] = token'[r] => q = r
    BY <1>5 DEF Tokens
  <2>5. \A s \in Serials : s > serial' => fate'[s] = "none"
    BY <1>3, <2>2
  <2>6. Tokens'
    BY <2>3, <2>4, <2>5 DEF Tokens
  <2>7. TokensDelivered'
    BY <1>1, <1>2, <1>5, <2>2 DEF TokensDelivered
  <2> QED
    BY <2>6, <2>7
<1> QED
  BY <1>4, <1>5

\* A command that ends accounts for the token it has, and for no other.
LEMMA TokensEnded ==
    ASSUME TypeOK, Tokens, TokensDelivered, NEW p \in Procs,
           token' = [token EXCEPT ![p] = 0], serial' = serial,
           IF token[p] = 0 THEN UNCHANGED fate
           ELSE \E what \in {"printed", "saved", "crashed"} : Fate(token[p], what)
    PROVE  Tokens' /\ TokensDelivered'
<1>1. /\ serial \in Nat
      /\ token \in [Procs -> Serials \cup {0}]
      /\ DOMAIN fate = Serials
      /\ Serials \subseteq Nat \ {0}
  BY DEF TypeOK, Serials
<1>2. \A q \in Procs : token'[q] = IF q = p THEN 0 ELSE token[q]
  BY <1>1
<1>3. CASE token[p] = 0
  <2>1. token' = token
    BY <1>1, <1>3
  <2> QED
    BY <1>3, <2>1, TokensUntouched
<1>4. CASE token[p] # 0
  <2>1. PICK what \in {"printed", "saved", "crashed"} : Fate(token[p], what)
    BY <1>4
  <2>2. token[p] \in Serials /\ token[p] <= serial
    BY <1>1, <1>4 DEF Tokens
  <2>3. \A s \in Serials : fate'[s] = IF s = token[p] THEN what ELSE fate[s]
    BY <1>1, <2>1 DEF Fate
  <2>4. \A q \in Procs : q # p /\ token[q] # 0 => token[q] \in Serials /\ token[q] # token[p]
    BY <1>1, <1>4 DEF Tokens
  <2>5. Tokens'
    BY <1>1, <1>2, <2>2, <2>3, <2>4 DEF Tokens
  <2>6. TokensDelivered'
    BY <1>1, <1>2, <2>2, <2>3 DEF TokensDelivered
  <2> QED
    BY <2>5, <2>6
<1> QED
  BY <1>3, <1>4

\* Every step keeps the account of the tokens.
LEMMA TokensStep ==
    TypeOK /\ Inv /\ [Next]_vars => Tokens' /\ TokensDelivered'
<1> SUFFICES ASSUME TypeOK, Control, Tokens, TokensDelivered, [Next]_vars
             PROVE  Tokens' /\ TokensDelivered'
  BY DEF Inv
<1>1. CASE UNCHANGED vars
  BY <1>1, TokensUntouched DEF vars
<1>2. ASSUME NEW p \in Procs, NEW c \in Workload, Load(p, c)
      PROVE  Tokens' /\ TokensDelivered'
  BY <1>2, TokensUntouched DEF Load
<1>3. ASSUME NEW p \in Procs, RemoteReturns(p)
      PROVE  Tokens' /\ TokensDelivered'
  <2>1. token[p] = 0
    BY <1>3 DEF Control, RemoteReturns
  <2> QED
    BY <1>3, <2>1, ReturnWithoutToken, TokensUntouched DEF RemoteReturns
<1>4. ASSUME NEW p \in Procs, RemoteKeyAdd(p)
      PROVE  Tokens' /\ TokensDelivered'
  <2>1. token[p] = 0
    BY <1>4 DEF Control, RemoteKeyAdd
  <2>2. serial + 1 \in Serials /\ serial' = serial + 1
    BY <1>4 DEF RemoteKeyAdd, TypeOK, Serials
  <2>3. \/ /\ \E what \in {"printed", "unanswered"} : Fate(serial + 1, what)
           /\ token' = token
        \/ /\ Fate(serial + 1, "held")
           /\ token' = [token EXCEPT ![p] = serial + 1]
    BY <1>4, <2>1, ReturnWithoutToken DEF RemoteKeyAdd
  <2> QED
    BY <2>1, <2>2, <2>3, TokensIssued
<1>5. ASSUME NEW p \in Procs, RemoteKeyRevoke(p)
      PROVE  Tokens' /\ TokensDelivered'
  <2>1. token[p] = 0
    BY <1>5 DEF Control, RemoteKeyRevoke
  <2> QED
    BY <1>5, <2>1, ReturnWithoutToken, TokensUntouched DEF RemoteKeyRevoke
<1>6. ASSUME NEW p \in Procs, Save(p) \/ SaveFails(p) \/ Crash(p)
      PROVE  Tokens' /\ TokensDelivered'
  <2>1. token' = [token EXCEPT ![p] = 0] /\ serial' = serial
    BY <1>6 DEF Save, SaveFails, Crash, Return
  <2>2. IF token[p] = 0 THEN UNCHANGED fate
        ELSE \E what \in {"printed", "saved", "crashed"} : Fate(token[p], what)
    BY <1>6 DEF Save, SaveFails, Crash
  <2> QED
    BY <2>1, <2>2, TokensEnded
<1> QED
  BY <1>1, <1>2, <1>3, <1>4, <1>5, <1>6 DEF Next

-----------------------------------------------------------------------------
\* Every step keeps a default in the file and in every loaded copy.
LEMMA DefaultStep == TypeOK /\ Inv /\ [Next]_vars => DefaultKept'
<1> SUFFICES ASSUME TypeOK, Control, DefaultKept, [Next]_vars
             PROVE  DefaultKept'
  BY DEF Inv
<1>1. Sound(config) /\ \A q \in Procs : Sound(loaded[q])
  BY DEF DefaultKept, Sound
<1>2. Sound(NoTargets)
  BY DEF Sound, NoTargets, Known
<1>3. SUFFICES Sound(config') /\ \A q \in Procs : Sound(loaded'[q])
  BY <1>3 DEF DefaultKept, Sound, Known
<1>4. CASE UNCHANGED vars
  BY <1>1, <1>4 DEF vars
<1>5. ASSUME NEW p \in Procs, NEW c \in Workload, Load(p, c)
      PROVE  Sound(config') /\ \A q \in Procs : Sound(loaded'[q])
  <2>1. \A q \in Procs : loaded'[q] = IF q = p THEN config ELSE loaded[q]
    BY <1>5 DEF Load, TypeOK
  <2> QED
    BY <1>1, <1>5, <2>1 DEF Load
<1>6. ASSUME NEW p \in Procs, Return(p) \/ UNCHANGED loaded
      PROVE  \A q \in Procs : Sound(loaded'[q])
  <2>1. \A q \in Procs : loaded'[q] = loaded[q] \/ loaded'[q] = NoTargets
    BY <1>6 DEF Return, TypeOK
  <2> QED
    BY <1>1, <1>2, <2>1
<1>7. ASSUME NEW p \in Procs,
             RemoteReturns(p) \/ RemoteKeyAdd(p) \/ RemoteKeyRevoke(p) \/ SaveFails(p) \/ Crash(p)
      PROVE  Sound(config') /\ \A q \in Procs : Sound(loaded'[q])
  <2>1. config' = config /\ (Return(p) \/ UNCHANGED loaded)
    BY <1>7 DEF RemoteReturns, RemoteKeyAdd, RemoteKeyRevoke, SaveFails, Crash
  <2> QED
    BY <1>1, <1>6, <2>1
<1>8. ASSUME NEW p \in Procs, Save(p)
      PROVE  Sound(config') /\ \A q \in Procs : Sound(loaded'[q])
  <2>1. cmd[p] # Nil /\ Resolves(loaded[p], cmd[p]) /\ config' = Updated(p) /\ Return(p)
    BY <1>8 DEF Save, Control
  <2>2. Sound(Updated(p))
    BY <1>1, <2>1, UpdatedSound
  <2> QED
    BY <1>6, <2>1, <2>2
<1> QED
  BY <1>4, <1>5, <1>7, <1>8 DEF Next

\* The invariant holds at first.
LEMMA InvInit == Init => TypeOK /\ Inv
<1> SUFFICES ASSUME Init
             PROVE  TypeOK /\ Inv
  OBVIOUS
<1>1. NoTargets \in Configs /\ Known(NoTargets) = {}
  BY DEF NoTargets, Configs, Known
<1>2. TypeOK
  BY <1>1 DEF Init, TypeOK
<1>3. Control /\ Tokens /\ TokensDelivered
  BY DEF Init, Control, Tokens, TokensDelivered
<1>4. DefaultKept
  <2>1. {config} \cup {loaded[p] : p \in Procs} \subseteq {NoTargets} /\ NoTargets.default = 0
    BY DEF Init, NoTargets
  <2> QED
    BY <1>1, <2>1 DEF DefaultKept
<1> QED
  BY <1>2, <1>3, <1>4 DEF Inv

\* Every step keeps the invariant.
LEMMA InvStep == TypeOK /\ Inv /\ [Next]_vars => TypeOK' /\ Inv'
  BY TypeStep, ControlStep, TokensStep, DefaultStep DEF Inv

\* The invariant holds of every behaviour.
LEMMA InvAlways == Spec => [](TypeOK /\ Inv)
  BY InvInit, InvStep, PTL DEF Spec

-----------------------------------------------------------------------------
\* Every variable keeps its type, for any number of shells, targets and keys:
\* no command, however stale what it loaded, writes an ill-formed file.
THEOREM TypeCorrect == Spec => []TypeOK
  BY InvAlways, PTL

\* While a target is configured there is a default one, in the file and in
\* what every shell loaded, whichever commands of whichever shells overlap.
THEOREM DefaultSafe == Spec => []DefaultKept
<1>1. Inv => DefaultKept
  BY DEF Inv
<1> QED
  BY <1>1, InvAlways, PTL

\* No command that was answered with a token ends without having printed or
\* saved it, unless it is interrupted.
THEOREM TokensSafe == Spec => []TokensDelivered
<1>1. Inv => TokensDelivered
  BY DEF Inv
<1> QED
  BY <1>1, InvAlways, PTL

\* What a command saves differs from what it loaded in no entry but its
\* target's, and a revoked key leaves its target.
LEMMA SavedExactly ==
    ASSUME TypeOK, Control, NEW p \in Procs, Save(p)
    PROVE  LET name == Resolved(loaded[p], cmd[p].name) IN
             /\ \A n \in Names \ {name} : config'.targets[n] = loaded[p].targets[n]
             /\ cmd[p].kind = "revoke" => config'.targets[name].key # cmd[p].id
<1> DEFINE c == cmd[p]
           cfg == loaded[p]
           name == Resolved(cfg, c.name)
<1>1. /\ c \in Commands /\ cfg \in Configs
      /\ Resolves(cfg, c)
      /\ config' = Updated(p)
      /\ c.kind = "revoke" => token[p] = 0
  BY DEF TypeOK, Control, Save
<1>2. cfg.targets \in [Names -> Targets \cup {Nil}]
  BY <1>1 DEF Configs
<1>3. CASE c.kind \in Local
  <2>1. c.name \in Names /\ name = c.name
    BY <1>1, <1>3, CommandFields DEF Resolved
  <2>2. config' = WithAdded(cfg, c) \/ config' = [cfg EXCEPT !.default = c.name]
          \/ config' = WithRemoved(cfg, c.name)
    BY <1>1, <1>3 DEF Updated, Local
  <2>3. \A n \in Names \ {name} : config'.targets[n] = cfg.targets[n]
    BY <1>1, <1>2, <2>1, <2>2 DEF WithAdded, WithRemoved, Configs
  <2> QED
    BY <1>3, <2>3 DEF Local
<1>4. CASE c.kind \notin Local
  <2>1. name \in Names /\ cfg.targets[name] \in Targets
    BY <1>1, <1>4, ResolvedKnown DEF Local
  <2>2. config' = WithKey(cfg, name, token[p])
    BY <1>1, <1>4 DEF Updated, Local
  <2>3. config'.targets = [cfg.targets EXCEPT ![name] = [@ EXCEPT !.key = token[p]]]
    BY <1>1, <2>2 DEF WithKey, Configs
  <2>4. \A n \in Names \ {name} : config'.targets[n] = cfg.targets[n]
    BY <1>2, <2>1, <2>3
  <2>5. config'.targets[name].key = token[p]
    BY <1>2, <2>1, <2>3 DEF Targets
  <2>6. c.kind = "revoke" => c.id \in Serials /\ token[p] = 0
    BY <1>1, CommandFields
  <2> QED
    BY <2>4, <2>5, <2>6 DEF Serials
<1> QED
  BY <1>3, <1>4

\* A command during which no other command saved does what it says and no more,
\* whatever was done to the file before it.
THEOREM AloneExactly == Spec => AloneIsExact
<1>1. TypeOK /\ Inv =>
        \A p \in Procs :
          (Save(p) /\ config = loaded[p]) =>
            LET name == Resolved(config, cmd[p].name) IN
              /\ \A n \in Names \ {name} : config'.targets[n] = config.targets[n]
              /\ cmd[p].kind = "revoke" => config'.targets[name].key # cmd[p].id
  BY SavedExactly DEF Inv
<1>2. TypeOK /\ Inv /\ [Next]_vars =>
        [\A p \in Procs :
          (Save(p) /\ config = loaded[p]) =>
            LET name == Resolved(config, cmd[p].name) IN
              /\ \A n \in Names \ {name} : config'.targets[n] = config.targets[n]
              /\ cmd[p].kind = "revoke" => config'.targets[name].key # cmd[p].id]_vars
  BY <1>1
<1> QED
  BY <1>2, InvAlways, PTL DEF Spec, AloneIsExact

\* The inductive invariant: what a command holds of the configuration names a
\* target that the configuration it loaded had.
THEOREM Invariance == Spec => []Inv
BY InvAlways, PTL

=============================================================================
