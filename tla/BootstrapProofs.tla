--------------------------- MODULE BootstrapProofs ---------------------------
(***************************************************************************)
(* Proofs about Bootstrap: the invariant of BootstrapInv is inductive for  *)
(* any number of runs, any plans and any number of faults and overlaps.    *)
(***************************************************************************)
EXTENDS BootstrapInv, FiniteSetTheorems, TLAPS

-----------------------------------------------------------------------------
(***************************************************************************)
(* The script, plans and files.                                            *)
(***************************************************************************)

\* Where each command of the script stands
LEMMA Positions ==
  ASSUME TypeOK, NEW p \in Runs
  PROVE  /\ pc[p] \in 0 .. 22
         /\ At(p, "check") => pc[p] = 1
         /\ At(p, "user") => pc[p] = 2
         /\ At(p, "open") => pc[p] \in {3, 5, 9, 12}
         /\ At(p, "write") => pc[p] \in {4, 6, 10, 13}
         /\ At(p, "mv") => pc[p] \in {7, 8, 11, 14}
         /\ At(p, "grep") => pc[p] = 15
         /\ At(p, "append") => pc[p] = 16
         /\ At(p, "daemon-reload") => pc[p] = 17
         /\ At(p, "enable") => pc[p] = 18
         /\ At(p, "restart") => pc[p] = 19
         /\ At(p, "validate") => pc[p] = 20
         /\ At(p, "reload") => pc[p] = 21
         /\ At(p, "is-active") => pc[p] = 22
<1>1. pc[p] \in 0 .. 22
  <2>1. Len(Script) = 22
    BY DEF Script
  <2> QED
    BY <2>1 DEF TypeOK
<1>2. /\ Script[1][1] = "check" /\ Script[2][1] = "user"
      /\ \A i \in {3, 5, 9, 12} : Script[i][1] = "open"
      /\ \A i \in {4, 6, 10, 13} : Script[i][1] = "write"
      /\ \A i \in {7, 8, 11, 14} : Script[i][1] = "mv"
      /\ Script[15][1] = "grep" /\ Script[16][1] = "append"
      /\ Script[17][1] = "daemon-reload" /\ Script[18][1] = "enable"
      /\ Script[19][1] = "restart" /\ Script[20][1] = "validate"
      /\ Script[21][1] = "reload" /\ Script[22][1] = "is-active"
  BY DEF Script
<1>3. pc[p] # 0 =>
        pc[p] \in {1, 2} \cup {3, 5, 9, 12} \cup {4, 6, 10, 13} \cup {7, 8, 11, 14}
                  \cup {15, 16, 17, 18, 19, 20, 21, 22}
  BY <1>1
<1> QED
  BY <1>1, <1>2, <1>3 DEF At

\* Which file a command is about
LEMMA Arguments ==
  ASSUME NEW p \in Runs
  PROVE  /\ pc[p] \in {3, 4, 7} => Argument(p) = "server"
         /\ pc[p] \in {5, 6, 8} => Argument(p) = "contextq"
         /\ pc[p] \in {9, 10, 11} => Argument(p) = "unit"
         /\ pc[p] \in {12, 13, 14} => Argument(p) = "snippet"
<1>1. /\ \A i \in {3, 4, 7} : Script[i][2] = "server"
      /\ \A i \in {5, 6, 8} : Script[i][2] = "contextq"
      /\ \A i \in {9, 10, 11} : Script[i][2] = "unit"
      /\ \A i \in {12, 13, 14} : Script[i][2] = "snippet"
  BY DEF Script
<1> QED
  BY <1>1 DEF Argument

\* A plan's binaries are made for the host
LEMMA PlanFacts ==
  ASSUME NEW pl \in Plans
  PROVE  /\ pl.server.arch = HostArch
         /\ pl.contextq.arch = HostArch
         /\ pl.name \in Names
         /\ Serving(pl) \in Servers
<1>1. PICK order \in Orders :
        /\ Resolved(order)
        /\ pl.server = Workstation[ServerPlace(order)]
        /\ pl.contextq = Workstation[ContextqPlace(order)]
  BY DEF Plans
<1>2. \A place : ArchAt(place) = HostArch => Workstation[place].arch = HostArch
  BY NilAssumption DEF ArchAt
<1>3. pl.server.arch = HostArch /\ pl.contextq.arch = HostArch
  BY <1>1, <1>2 DEF Resolved
<1>4. pl.name \in Names
  BY DEF Names
<1>5. Serving(pl) \in Servers
  BY DEF Serving, Servers
<1> QED
  BY <1>3, <1>4, <1>5

\* What the plans put into each file
LEMMA TextFacts ==
  ASSUME NEW pl \in Plans
  PROVE  /\ Text(pl, "server") = pl.server
         /\ Text(pl, "contextq") = pl.contextq
         /\ Text(pl, "unit") = pl.listen
         /\ \A n \in Names : Text(pl, n) = Site(pl)
         /\ \A f \in Paths : Text(pl, f) \in Texts[f]
<1>1. \A n \in Names : n \notin {"server", "contextq", "unit"}
  BY NamesAssumption
<1> QED
  BY <1>1 DEF Text, Texts

LEMMA PathFacts ==
  /\ {"server", "contextq", "unit"} \subseteq Paths
  /\ Names \subseteq Paths
  /\ \A f \in Paths : f \in {"server", "contextq", "unit"} \/ f \in Names
  /\ \A n \in Names : n \notin {"server", "contextq", "unit"}
BY NamesAssumption DEF Paths

\* What the state of a file says about it
LEMMA ContentFacts ==
  ASSUME NEW texts, NEW c \in Contents(texts)
  PROVE  /\ c.state \in {"missing", "whole", "empty", "cut"}
         /\ c.writers \subseteq Runs
         /\ c = [text |-> c.text, state |-> c.state, writers |-> c.writers]
         /\ c.state = "whole" => c.text \in texts
         /\ c.state = "missing" => c = Missing
<1>1. CASE c = Missing
  BY <1>1 DEF Missing
<1>2. CASE c \in [text : {Nil}, state : {"empty", "cut"}, writers : SUBSET Runs]
  BY <1>2
<1>3. CASE c \in [text : texts, state : {"whole"}, writers : SUBSET Runs]
  BY <1>3
<1> QED
  BY <1>1, <1>2, <1>3 DEF Contents

\* Who has a file open may change while what it holds stays
LEMMA WritersTyped ==
  ASSUME NEW texts, NEW c \in Contents(texts), NEW runs, runs \subseteq c.writers
  PROVE  /\ [c EXCEPT !.writers = runs] \in Contents(texts)
         /\ Empty(runs) \in Contents(texts)
         /\ Cut(runs) \in Contents(texts)
<1>1. runs \in SUBSET Runs
  BY ContentFacts
<1>2. CASE c = Missing
  <2>1. runs = {}
    BY <1>2 DEF Missing
  <2>2. [c EXCEPT !.writers = runs] = Missing
    BY <1>2, <2>1 DEF Missing
  <2> QED
    BY <1>1, <2>2 DEF Contents, Empty, Cut
<1>3. CASE c \in [text : {Nil}, state : {"empty", "cut"}, writers : SUBSET Runs]
  BY <1>1, <1>3 DEF Contents, Empty, Cut
<1>4. CASE c \in [text : texts, state : {"whole"}, writers : SUBSET Runs]
  BY <1>1, <1>4 DEF Contents, Empty, Cut
<1> QED
  BY <1>2, <1>3, <1>4 DEF Contents

LEMMA EmptyTyped ==
  ASSUME NEW texts, NEW runs \in SUBSET Runs
  PROVE  Empty(runs) \in Contents(texts)
BY DEF Contents, Empty

LEMMA FileTypes ==
  ASSUME TypeOK
  PROVE  /\ file = [f \in Paths |-> file[f]]
         /\ new = [f \in Paths |-> new[f]]
         /\ \A f \in Paths : file[f] \in Contents(Texts[f]) /\ new[f] \in Contents(Texts[f])
BY DEF TypeOK

\* The path that an open, a write or a mv is about
LEMMA PathTypes ==
  ASSUME TypeOK, NEW p \in Runs, plan[p] \in Plans,
         pc[p] \in {3, 4, 5, 6, 7, 8, 9, 10, 11, 12, 13, 14}
  PROVE  /\ Path(p) \in Paths
         /\ pc[p] \in {3, 4, 7} => Path(p) = "server"
         /\ pc[p] \in {5, 6, 8} => Path(p) = "contextq"
         /\ pc[p] \in {9, 10, 11} => Path(p) = "unit"
         /\ pc[p] \in {12, 13, 14} => Path(p) = plan[p].name
BY Arguments, PathFacts, PlanFacts DEF Path

-----------------------------------------------------------------------------
(***************************************************************************)
(* Types.                                                                  *)
(***************************************************************************)
RunsTyped ==
    /\ local \in [Runs -> {"idle", "apply", "cleanup"}]
    /\ pc \in [Runs -> 0 .. 22]
    /\ exit \in [Runs -> {"none", "complete", "refused", "failed"}]
    /\ plan \in [Runs -> Plans \cup {Nil}]
    /\ staged \in [Runs -> BOOLEAN]

Typed(content) ==
    /\ content = [f \in Paths |-> content[f]]
    /\ \A f \in Paths : content[f] \in Contents(Texts[f])

ServicesTyped ==
    /\ loaded \in Contents({pl.listen : pl \in Plans})
    /\ enabled \in BOOLEAN
    /\ service \in Servers \cup {Nil}
    /\ caddy = Nil \/ caddy \subseteq {Site(pl) : pl \in Plans}

HistoryTyped ==
    /\ shared \in [Runs -> BOOLEAN]
    /\ tainted \in BOOLEAN
    /\ settled \in Plans \cup {Nil}
    /\ installed \in BOOLEAN
    /\ troubles \in 0 .. MaxTroubles

LEMMA TypeParts ==
  TypeOK <=> /\ RunsTyped /\ Typed(file) /\ Typed(new) /\ ServicesTyped /\ HistoryTyped
             /\ identity \in BOOLEAN
             /\ imports \in 0 .. Cardinality(Runs)
<1>1. Len(Script) = 22
  BY DEF Script
<1>2. (\A content \in {file, new} : Typed(content)) <=> Typed(file) /\ Typed(new)
  OBVIOUS
<1> QED
  BY <1>1, <1>2 DEF TypeOK, RunsTyped, Typed, ServicesTyped, HistoryTyped

\* A step of a script that is not its last
LEMMA AdvanceTyped ==
  ASSUME TypeOK, NEW p \in Runs, Advance(p), pc[p] # 22
  PROVE  RunsTyped'
BY TypeParts DEF Advance, RunsTyped

LEMMA LeaveTyped ==
  ASSUME TypeOK, NEW p \in Runs,
         NEW how \in {"none", "complete", "refused", "failed"}, Leave(p, how)
  PROVE  RunsTyped'
BY TypeParts DEF Leave, RunsTyped

LEMMA RefuseTyped ==
  ASSUME TypeOK, NEW p \in Runs, Refuse(p)
  PROVE  RunsTyped'
BY LeaveTyped DEF Refuse

\* Every action keeps the types of the runs
LEMMA RunsTypedNext ==
  ASSUME TypeOK, Next
  PROVE  RunsTyped'
<1>1. ASSUME NEW p \in Runs, NEW pl \in Plans, Start(p, pl)
      PROVE  RunsTyped'
  BY <1>1, TypeParts DEF Start, RunsTyped
<1>2. ASSUME NEW p \in Runs, Answer(p)
      PROVE  RunsTyped'
  BY <1>2, TypeParts DEF Answer, RunsTyped
<1>3. ASSUME NEW p \in Runs, LoseConnection(p) \/ Interrupt(p)
      PROVE  RunsTyped'
  BY <1>3, TypeParts DEF LoseConnection, Interrupt, RunsTyped
<1>4. ASSUME NEW p \in Runs, Cleanup(p)
      PROVE  RunsTyped'
  BY <1>4, TypeParts DEF Cleanup, RunsTyped
<1>5. ASSUME NEW p \in Runs, Check(p) \/ User(p) \/ Open(p) \/ Write(p) \/ Move(p)
      PROVE  RunsTyped'
  <2>1. pc[p] # 22
    BY <1>5, Positions DEF Check, User, Open, Write, Move
  <2>2. Advance(p) \/ Refuse(p)
    BY <1>5 DEF Check, User, Open, Write, Move
  <2> QED
    BY <2>1, <2>2, AdvanceTyped, RefuseTyped
<1>6. ASSUME NEW p \in Runs, Grep(p)
      PROVE  RunsTyped'
  <2>1. pc[p] = 15
    BY <1>6, Positions DEF Grep
  <2> QED
    BY <1>6, <2>1, TypeParts DEF Grep, RunsTyped
<1>7. ASSUME NEW p \in Runs,
             \/ AppendImport(p) \/ DaemonReload(p) \/ Enable(p) \/ RestartService(p)
             \/ Validate(p) \/ ReloadCaddy(p)
      PROVE  RunsTyped'
  <2>1. pc[p] # 22
    BY <1>7, Positions
    DEF AppendImport, DaemonReload, Enable, RestartService, Validate, ReloadCaddy
  <2>2. Advance(p) \/ Refuse(p)
    BY <1>7
    DEF AppendImport, DaemonReload, Enable, RestartService, Validate, ReloadCaddy
  <2> QED
    BY <2>1, <2>2, AdvanceTyped, RefuseTyped
<1>8. ASSUME NEW p \in Runs, IsActive(p)
      PROVE  RunsTyped'
  <2>1. Leave(p, "complete") \/ Refuse(p)
    BY <1>8 DEF IsActive
  <2> QED
    BY <2>1, LeaveTyped, RefuseTyped
<1>9. ASSUME NEW p \in Runs, Fault(p)
      PROVE  RunsTyped'
  <2>1. RunsTyped
    BY TypeParts
  <2>2. staged' \in [Runs -> BOOLEAN]
    <3>1. staged' = staged \/ staged' = [staged EXCEPT ![p] = FALSE]
      BY <1>9 DEF Fault
    <3> QED
      BY <2>1, <3>1, Zenon DEF RunsTyped
  <2>3. /\ pc' = [pc EXCEPT ![p] = 0]
        /\ exit' = [exit EXCEPT ![p] = "failed"]
        /\ local' = local /\ plan' = plan
    BY <1>9 DEF Fault
  <2> QED
    BY <2>1, <2>2, <2>3 DEF RunsTyped
<1>10. ServiceDies => RunsTyped'
  BY TypeParts DEF ServiceDies, RunsTyped, runVars
<1>11. ASSUME Reboot
       PROVE  RunsTyped'
  <2>1. RunsTyped
    BY TypeParts
  <2>2. staged' \in [Runs -> BOOLEAN]
    <3>1. staged' = staged \/ staged' = [p \in Runs |-> FALSE]
      BY <1>11 DEF Reboot
    <3> QED
      BY <2>1, <3>1, Zenon DEF RunsTyped
  <2>3. /\ pc' = [p \in Runs |-> 0]
        /\ exit' = [p \in Runs |-> IF pc[p] = 0 THEN exit[p] ELSE "failed"]
        /\ local' = local /\ plan' = plan
    BY <1>11 DEF Reboot
  <2> QED
    BY <2>1, <2>2, <2>3 DEF RunsTyped
<1> QED
  BY <1>1, <1>2, <1>3, <1>4, <1>5, <1>6, <1>7, <1>8, <1>9, <1>10, <1>11
  DEF Next, ScriptStep

\* What stays of files that were being written is typed
LEMMA CutShortTyped ==
  ASSUME NEW content, Typed(content), NEW stopped, NEW torn
  PROVE  Typed(CutShort(stopped, torn, content))
<1>1. ASSUME NEW f \in Paths
      PROVE  CutShort(stopped, torn, content)[f] \in Contents(Texts[f])
  <2> DEFINE writers == content[f].writers \ stopped
  <2>1. content[f] \in Contents(Texts[f])
    BY DEF Typed
  <2>2. writers \subseteq content[f].writers
    OBVIOUS
  <2> HIDE DEF writers
  <2>3. [content[f] EXCEPT !.writers = writers] \in Contents(Texts[f])
        /\ Cut(writers) \in Contents(Texts[f])
    BY <2>1, <2>2, WritersTyped
  <2>4. CutShort(stopped, torn, content)[f]
          \in {Cut(writers), [content[f] EXCEPT !.writers = writers]}
    BY DEF CutShort, writers
  <2> QED
    BY <2>3, <2>4
<1> QED
  BY <1>1 DEF Typed, CutShort

\* A write leaves a plan's text, or a mixture
WriteLeaves(p, f, writers) ==
    {[text |-> Text(plan[p], f), state |-> "whole", writers |-> writers], Cut(writers)}

LEMMA WrittenFacts ==
  ASSUME NEW content, NEW p \in Runs, NEW covered, NEW f \in Paths
  PROVE  /\ p \notin content[f].writers => Written(p, content, covered)[f] = content[f]
         /\ p \in content[f].writers =>
              Written(p, content, covered)[f] \in WriteLeaves(p, f, content[f].writers \ {p})
         /\ content[f] = Empty({p}) =>
              Written(p, content, covered)[f] = Whole(Text(plan[p], f))
<1>1. ASSUME content[f] = Empty({p})
      PROVE  Written(p, content, covered)[f] = Whole(Text(plan[p], f))
  <2>1. content[f].state = "empty" /\ content[f].writers = {p}
    BY <1>1 DEF Empty
  <2>2. Written(p, content, covered)[f] = [Whole(Text(plan[p], f)) EXCEPT !.writers = {p} \ {p}]
    BY <2>1 DEF Written
  <2>3. {p} \ {p} = {}
    OBVIOUS
  <2> QED
    BY <2>2, <2>3 DEF Whole
<1>2. p \notin content[f].writers => Written(p, content, covered)[f] = content[f]
  BY DEF Written
<1>3. p \in content[f].writers =>
        Written(p, content, covered)[f] \in WriteLeaves(p, f, content[f].writers \ {p})
  BY DEF Written, WriteLeaves, Whole
<1> QED
  BY <1>1, <1>2, <1>3

LEMMA WrittenTyped ==
  ASSUME NEW content, Typed(content), NEW p \in Runs, plan[p] \in Plans, NEW covered
  PROVE  Typed(Written(p, content, covered))
<1>1. ASSUME NEW f \in Paths
      PROVE  Written(p, content, covered)[f] \in Contents(Texts[f])
  <2> DEFINE writers == content[f].writers \ {p}
  <2>1. content[f] \in Contents(Texts[f]) /\ Text(plan[p], f) \in Texts[f]
    BY TextFacts DEF Typed
  <2>2. writers \subseteq content[f].writers /\ writers \in SUBSET Runs
    BY <2>1, ContentFacts
  <2>3. [text |-> Text(plan[p], f), state |-> "whole", writers |-> writers]
          \in Contents(Texts[f])
    BY <2>1, <2>2 DEF Contents
  <2>4. Cut(writers) \in Contents(Texts[f])
    BY <2>1, <2>2, WritersTyped
  <2>5. WriteLeaves(p, f, writers) \subseteq Contents(Texts[f])
    BY <2>3, <2>4 DEF WriteLeaves
  <2> QED
    BY <2>1, <2>5, WrittenFacts
<1> QED
  BY <1>1 DEF Typed, Written

LEMMA UpdateTyped ==
  ASSUME NEW content, Typed(content), NEW f \in Paths, NEW c \in Contents(Texts[f])
  PROVE  Typed([content EXCEPT ![f] = c])
BY DEF Typed

\* Every action keeps the types of the files
LEMMA FilesTypedNext ==
  ASSUME TypeOK, Equipped, Next
  PROVE  Typed(file)' /\ Typed(new)'
<1>1. Typed(file) /\ Typed(new)
  BY TypeParts
<1>2. UNCHANGED <<file, new>> => Typed(file)' /\ Typed(new)'
  BY <1>1 DEF Typed
<1>3. ASSUME NEW p \in Runs, Open(p)
      PROVE  Typed(file)' /\ Typed(new)'
  <2>1. pc[p] \in {3, 5, 9, 12} /\ plan[p] \in Plans
    BY <1>3, Positions DEF Open, Equipped, Running
  <2>2. Path(p) \in Paths
    BY <2>1, PathTypes
  <2>3. PICK others \in {{}, new[Path(p)].writers} :
          file' = file /\ (new' = new \/ new' = [new EXCEPT ![Path(p)] = Empty({p} \cup others)])
    BY <1>3 DEF Open
  <2>4. {p} \cup others \in SUBSET Runs
    BY <1>1, <2>2, <2>3, ContentFacts DEF Typed
  <2>5. Typed([new EXCEPT ![Path(p)] = Empty({p} \cup others)])
    BY <1>1, <2>2, <2>4, EmptyTyped, UpdateTyped
  <2> QED
    BY <1>1, <2>3, <2>5 DEF Typed
<1>4. ASSUME NEW p \in Runs, Write(p)
      PROVE  Typed(file)' /\ Typed(new)'
  <2>1. plan[p] \in Plans
    BY <1>4 DEF Write, At, Equipped, Running
  <2>2. PICK covered :
          file' = Written(p, file, covered) /\ new' = Written(p, new, covered)
    BY <1>4 DEF Write
  <2>3. Typed(Written(p, file, covered)) /\ Typed(Written(p, new, covered))
    BY <1>1, <2>1, WrittenTyped
  <2> QED
    BY <2>2, <2>3 DEF Typed
<1>5. ASSUME NEW p \in Runs, Move(p)
      PROVE  Typed(file)' /\ Typed(new)'
  <2>1. pc[p] \in {7, 8, 11, 14} /\ plan[p] \in Plans
    BY <1>5, Positions DEF Move, Equipped, Running
  <2>2. Path(p) \in Paths
    BY <2>1, PathTypes
  <2>3. /\ new[Path(p)] \in Contents(Texts[Path(p)])
        /\ Missing \in Contents(Texts[Path(p)])
    BY <1>1, <2>2 DEF Typed, Contents
  <2>4. /\ Typed([file EXCEPT ![Path(p)] = new[Path(p)]])
        /\ Typed([new EXCEPT ![Path(p)] = Missing])
    BY <1>1, <2>2, <2>3, UpdateTyped
  <2>5. \/ UNCHANGED <<file, new>>
        \/ /\ file' = [file EXCEPT ![Path(p)] = new[Path(p)]]
           /\ new' = [new EXCEPT ![Path(p)] = Missing]
    BY <1>5 DEF Move
  <2> QED
    BY <1>2, <2>4, <2>5 DEF Typed
<1>6. ASSUME NEW stopped, NEW torn,
             file' = CutShort(stopped, torn, file), new' = CutShort(stopped, torn, new)
      PROVE  Typed(file)' /\ Typed(new)'
  <2>1. Typed(CutShort(stopped, torn, file)) /\ Typed(CutShort(stopped, torn, new))
    BY <1>1, <1>6, CutShortTyped
  <2> QED
    BY <1>6, <2>1 DEF Typed
<1>7. ASSUME NEW p \in Runs, Fault(p)
      PROVE  Typed(file)' /\ Typed(new)'
  <2>1. PICK torn \in SUBSET {p} :
          file' = CutShort({p}, torn, file) /\ new' = CutShort({p}, torn, new)
    BY <1>7 DEF Fault
  <2> QED
    BY <2>1, <1>6
<1>8. ASSUME Reboot
      PROVE  Typed(file)' /\ Typed(new)'
  <2>1. PICK torn \in SUBSET Running :
          /\ file' = CutShort(Running, torn, file)
          /\ new' = CutShort(Running, torn, new)
    BY <1>8 DEF Reboot
  <2> QED
    BY <2>1, <1>6
<1>9. ASSUME NEW p \in Runs,
             \/ \E pl \in Plans : Start(p, pl)
             \/ Answer(p) \/ LoseConnection(p) \/ Cleanup(p) \/ Interrupt(p)
             \/ Check(p) \/ User(p) \/ Grep(p) \/ AppendImport(p)
             \/ DaemonReload(p) \/ Enable(p) \/ RestartService(p) \/ Validate(p)
             \/ ReloadCaddy(p) \/ IsActive(p)
      PROVE  UNCHANGED <<file, new>>
  BY <1>9
  DEF Start, Answer, LoseConnection, Cleanup, Interrupt, Check, User, Grep, AppendImport,
      DaemonReload, Enable, RestartService, Validate, ReloadCaddy, IsActive, files
<1>10. ServiceDies => UNCHANGED <<file, new>>
  BY DEF ServiceDies, files
<1> QED
  BY <1>2, <1>3, <1>4, <1>5, <1>7, <1>8, <1>9, <1>10 DEF Next, ScriptStep

\* What a start brings up, and what Caddy reads, is typed
LEMMA TextsRead ==
  ASSUME NEW content, Typed(content)
  PROVE  /\ content["unit"] \in Contents({pl.listen : pl \in Plans})
         /\ InMemory(content["unit"]) \in Contents({pl.listen : pl \in Plans})
         /\ content["server"].state = "whole" =>
              content["server"].text \in {pl.server : pl \in Plans}
         /\ \A n \in Names :
              content[n].state = "whole" => content[n].text \in {Site(pl) : pl \in Plans}
<1>1. \A f \in Paths : Texts[f] = {Text(pl, f) : pl \in Plans}
  BY DEF Texts
<1>2. Texts["unit"] = {pl.listen : pl \in Plans}
  BY <1>1, PathFacts DEF Text
<1>3. Texts["server"] = {pl.server : pl \in Plans}
  BY <1>1, PathFacts DEF Text
<1>4. ASSUME NEW n \in Names
      PROVE  Texts[n] = {Site(pl) : pl \in Plans}
  <2>1. \A pl \in Plans : Text(pl, n) = Site(pl)
    BY TextFacts
  <2> QED
    BY <1>1, <2>1, PathFacts
<1>5. \A f \in Paths : content[f] \in Contents(Texts[f])
  BY DEF Typed
<1>6. \A f \in Paths : content[f].state = "whole" => content[f].text \in Texts[f]
  BY <1>5, ContentFacts
<1>7. \A runs : {} \subseteq runs
  OBVIOUS
<1>8. InMemory(content["unit"]) \in Contents(Texts["unit"])
  BY <1>5, <1>7, PathFacts, WritersTyped DEF InMemory
<1> QED
  BY <1>2, <1>3, <1>4, <1>5, <1>6, <1>8, PathFacts

LEMMA StartedTyped ==
  ASSUME Typed(file), NEW unit \in Contents({pl.listen : pl \in Plans})
  PROVE  Started(unit) \in Servers \cup {Nil}
<1>1. unit.state = "whole" => unit.text \in {pl.listen : pl \in Plans}
  BY ContentFacts
<1> QED
  BY <1>1, TextsRead DEF Started, Servers

\* Every action keeps the types of the services
LEMMA ServicesTypedNext ==
  ASSUME TypeOK, Next, Typed(file)'
  PROVE  ServicesTyped'
<1>1. Typed(file) /\ ServicesTyped
  BY TypeParts
<1>2. UNCHANGED services => ServicesTyped'
  BY <1>1 DEF ServicesTyped, services
<1>3. ASSUME NEW p \in Runs, DaemonReload(p)
      PROVE  ServicesTyped'
  BY <1>1, <1>3, TextsRead DEF DaemonReload, ServicesTyped
<1>4. ASSUME NEW p \in Runs, Enable(p)
      PROVE  ServicesTyped'
  BY <1>1, <1>4 DEF Enable, ServicesTyped
<1>5. ASSUME NEW p \in Runs, RestartService(p)
      PROVE  ServicesTyped'
  <2>1. Started(loaded) \in Servers \cup {Nil}
    BY <1>1, StartedTyped DEF ServicesTyped
  <2> QED
    BY <1>1, <1>5, <2>1 DEF RestartService, ServicesTyped
<1>6. ASSUME NEW p \in Runs, ReloadCaddy(p)
      PROVE  ServicesTyped'
  <2>1. Sites \subseteq {Site(pl) : pl \in Plans}
    BY <1>1, TextsRead DEF Sites, Served, Snippets
  <2>2. caddy' = caddy \/ caddy' = Sites
    BY <1>6 DEF ReloadCaddy
  <2> QED
    BY <1>1, <1>6, <2>1, <2>2 DEF ReloadCaddy, ServicesTyped
<1>7. ASSUME ServiceDies
      PROVE  ServicesTyped'
  <2>1. Started(loaded) \in Servers \cup {Nil}
    BY <1>1, StartedTyped DEF ServicesTyped
  <2> QED
    BY <1>1, <1>7, <2>1 DEF ServiceDies, ServicesTyped
<1>8. ASSUME Reboot
      PROVE  ServicesTyped'
  <2>1. /\ file'["unit"] \in Contents({pl.listen : pl \in Plans})
        /\ \A n \in Names :
             file'[n].state = "whole" => file'[n].text \in {Site(pl) : pl \in Plans}
    BY TextsRead DEF Typed
  <2>2. Started(file'["unit"]) \in Servers \cup {Nil}
    BY <1>1, <2>1, StartedTyped
  <2>3. Sites' \subseteq {Site(pl) : pl \in Plans}
    BY <2>1 DEF Sites, Served, Snippets
  <2>4. /\ loaded' = file'["unit"]
        /\ service' \in {Started(file'["unit"]), Nil}
        /\ caddy' \in {Sites', Nil}
        /\ enabled' = enabled
    BY <1>8 DEF Reboot
  <2> QED
    BY <1>1, <2>1, <2>2, <2>3, <2>4 DEF ServicesTyped
<1>9. ASSUME NEW p \in Runs,
             \/ \E pl \in Plans : Start(p, pl)
             \/ Answer(p) \/ LoseConnection(p) \/ Cleanup(p) \/ Interrupt(p)
             \/ Check(p) \/ User(p) \/ Open(p) \/ Write(p) \/ Move(p) \/ Grep(p)
             \/ AppendImport(p) \/ Validate(p) \/ IsActive(p) \/ Fault(p)
      PROVE  UNCHANGED services
  BY <1>9
  DEF Start, Answer, LoseConnection, Cleanup, Interrupt, Check, User, Open, Write, Move,
      Grep, AppendImport, Validate, IsActive, Fault
<1> QED
  BY <1>2, <1>3, <1>4, <1>5, <1>6, <1>7, <1>8, <1>9 DEF Next, ScriptStep

\* Every action keeps the types of the histories
LEMMA HistoryTypedNext ==
  ASSUME TypeOK, Equipped, Next
  PROVE  HistoryTyped'
<1>1. HistoryTyped
  BY TypeParts
<1>2. UNCHANGED <<shared, tainted, settled, installed>>
        /\ (troubles' = troubles \/ Trouble)
        => HistoryTyped'
  BY <1>1, BoundAssumption DEF HistoryTyped, Trouble
<1>3. ASSUME NEW p \in Runs, NEW pl \in Plans, Start(p, pl)
      PROVE  HistoryTyped'
  <2> DEFINE running == Running # {}
             now(q) == IF q = p THEN running ELSE shared[q] \/ q \in Running
  <2>1. shared' = [q \in Runs |-> now(q)]
    BY <1>3 DEF Start
  <2>2. \A q \in Runs : now(q) \in BOOLEAN
    BY <1>1 DEF HistoryTyped
  <2> HIDE DEF now, running
  <2>3. shared' \in [Runs -> BOOLEAN]
    BY <2>1, <2>2
  <2>4. tainted' \in BOOLEAN
    BY <1>3 DEF Start
  <2>5. settled' = Nil /\ installed' = installed /\ (troubles' = troubles \/ Trouble)
    BY <1>3 DEF Start
  <2> QED
    BY <1>1, <2>3, <2>4, <2>5, BoundAssumption DEF HistoryTyped, Trouble
<1>4. ASSUME NEW p \in Runs, IsActive(p)
      PROVE  HistoryTyped'
  <2>1. shared' = shared /\ plan[p] \in Plans
    BY <1>4 DEF IsActive, At, Equipped, Running
  <2>2. /\ settled' = settled \/ settled' = plan[p]
        /\ troubles' = troubles \/ troubles' = 0
    BY <1>4 DEF IsActive
  <2>4. installed' \in BOOLEAN
    <3>1. installed' = installed \/ installed' = TRUE
      BY <1>4 DEF IsActive
    <3> QED
      BY <1>1, <3>1 DEF HistoryTyped
  <2>3. tainted' \in BOOLEAN
    <3>1. tainted' = tainted \/ tainted' = (tainted /\ shared[p])
      BY <1>4 DEF IsActive
    <3> QED
      BY <1>1, <3>1 DEF HistoryTyped
  <2> QED
    BY <1>1, <2>1, <2>2, <2>3, <2>4, BoundAssumption DEF HistoryTyped
<1>5. ASSUME NEW p \in Runs,
             \/ Answer(p) \/ LoseConnection(p) \/ Cleanup(p) \/ Interrupt(p)
             \/ Check(p) \/ User(p) \/ Open(p) \/ Write(p) \/ Move(p) \/ Grep(p)
             \/ AppendImport(p) \/ DaemonReload(p) \/ Enable(p) \/ RestartService(p)
             \/ Validate(p) \/ ReloadCaddy(p) \/ Fault(p)
      PROVE  UNCHANGED <<shared, tainted, settled, installed>>
             /\ (troubles' = troubles \/ Trouble)
  BY <1>5
  DEF Answer, LoseConnection, Cleanup, Interrupt, Check, User, Open, Write, Move, Grep,
      AppendImport, DaemonReload, Enable, RestartService, Validate, ReloadCaddy, Fault,
      history
<1>6. ServiceDies \/ Reboot =>
        UNCHANGED <<shared, tainted, settled, installed>>
        /\ (troubles' = troubles \/ Trouble)
  BY DEF ServiceDies, Reboot
<1> QED
  BY <1>2, <1>3, <1>4, <1>5, <1>6 DEF Next, ScriptStep

-----------------------------------------------------------------------------
(***************************************************************************)
(* Runs: which scripts run alone, what they have, and what they write.     *)
(***************************************************************************)

\* What every step of a script leaves alone, its end by a fault included
LEMMA ScriptFrame ==
  ASSUME TypeOK, NEW p \in Runs, ScriptStep(p) \/ Fault(p)
  PROVE  /\ pc[p] # 0
         /\ plan' = plan /\ local' = local /\ shared' = shared
         /\ \A q \in Runs \ {p} : pc'[q] = pc[q]
         /\ \/ staged' = staged
            \/ /\ pc'[p] = 0
               /\ \A q \in Runs \ {p} : staged'[q] = staged[q]
         /\ IsActive(p) \/ UNCHANGED <<tainted, settled, installed>>
<1>1. pc \in [Runs -> 0 .. 22] /\ staged \in [Runs -> BOOLEAN]
  BY TypeParts DEF RunsTyped
<1>2. ASSUME Advance(p), pc[p] # 0
      PROVE  /\ plan' = plan /\ local' = local /\ staged' = staged
             /\ \A q \in Runs \ {p} : pc'[q] = pc[q]
  BY <1>1, <1>2 DEF Advance
<1>3. ASSUME NEW how, Leave(p, how)
      PROVE  /\ plan' = plan /\ local' = local /\ pc'[p] = 0
             /\ \A q \in Runs \ {p} : pc'[q] = pc[q] /\ staged'[q] = staged[q]
  BY <1>1, <1>3 DEF Leave
<1>4. CASE \/ Check(p) \/ User(p) \/ Open(p) \/ Write(p) \/ Move(p) \/ AppendImport(p)
           \/ DaemonReload(p) \/ Enable(p) \/ RestartService(p) \/ Validate(p)
           \/ ReloadCaddy(p)
  <2>1. pc[p] # 0 /\ shared' = shared /\ UNCHANGED <<tainted, settled, installed>>
    BY <1>4
    DEF Check, User, Open, Write, Move, AppendImport, DaemonReload, Enable,
        RestartService, Validate, ReloadCaddy, At, history
  <2>2. Advance(p) \/ Leave(p, "refused")
    BY <1>4
    DEF Check, User, Open, Write, Move, AppendImport, DaemonReload, Enable,
        RestartService, Validate, ReloadCaddy, Refuse
  <2> QED
    BY <2>1, <2>2, <1>2, <1>3
<1>5. CASE Grep(p)
  BY <1>1, <1>5 DEF Grep, At, history
<1>6. CASE IsActive(p)
  <2>1. pc[p] # 0 /\ shared' = shared
    BY <1>6 DEF IsActive, At
  <2>2. Leave(p, "complete") \/ Leave(p, "refused")
    BY <1>6 DEF IsActive, Refuse
  <2> QED
    BY <1>6, <2>1, <2>2, <1>3
<1>7. CASE Fault(p)
  <2>1. /\ pc[p] # 0 /\ plan' = plan /\ local' = local /\ shared' = shared
        /\ UNCHANGED <<tainted, settled, installed>>
        /\ pc' = [pc EXCEPT ![p] = 0]
        /\ staged' = staged \/ staged' = [staged EXCEPT ![p] = FALSE]
    BY <1>7 DEF Fault
  <2> QED
    BY <1>1, <2>1
<1> QED
  BY <1>4, <1>5, <1>6, <1>7 DEF ScriptStep

\* The history variables keep saying which scripts run alone
LEMMA SolitaryNext ==
  ASSUME TypeOK, Solitary, Next
  PROVE  Solitary'
<1>1. pc \in [Runs -> 0 .. 22] /\ shared \in [Runs -> BOOLEAN]
  BY TypeParts DEF RunsTyped, HistoryTyped
<1>2. UNCHANGED <<pc, shared, tainted, settled>> => Solitary'
  BY DEF Solitary, Alone, Running
<1>3. ASSUME NEW p \in Runs, NEW pl \in Plans, Start(p, pl)
      PROVE  Solitary'
  <2>1. /\ pc[p] = 0 /\ pc' = [pc EXCEPT ![p] = 1] /\ settled' = Nil
        /\ shared' = [q \in Runs |-> IF q = p THEN Running # {}
                                      ELSE shared[q] \/ q \in Running]
        /\ tainted' = (tainted \/ Running # {})
    BY <1>3 DEF Start
  <2>2. pc'[p] = 1 /\ \A q \in Runs \ {p} : pc'[q] = pc[q]
    BY <1>1, <2>1
  <2>3. Running' = Running \cup {p}
    BY <2>1, <2>2 DEF Running
  <2>4. (~shared'[p]) <=> (Running = {})
    BY <2>1
  <2>5. \A q \in Running : shared'[q]
    BY <2>1 DEF Running
  <2>6. ASSUME NEW q \in Runs, Alone(q)'
        PROVE  Running' = {q}
    <3>1. q \in Running' /\ ~shared'[q]
      BY <2>6 DEF Alone, Running
    <3>2. q = p
      BY <3>1, <2>3, <2>5
    <3> QED
      BY <3>1, <3>2, <2>3, <2>4
  <2>7. ASSUME ~tainted'
        PROVE  \A q \in Running' : Alone(q)'
    <3>1. Running = {} /\ Running' = {p}
      BY <2>1, <2>3, <2>7
    <3> QED
      BY <2>2, <2>4, <3>1 DEF Alone
  <2> QED
    BY <2>1, <2>6, <2>7 DEF Solitary
<1>4. ASSUME NEW p \in Runs, ScriptStep(p) \/ Fault(p)
      PROVE  Solitary'
  <2>1. /\ pc[p] # 0 /\ shared' = shared
        /\ \A q \in Runs \ {p} : pc'[q] = pc[q]
        /\ IsActive(p) \/ UNCHANGED <<tainted, settled, installed>>
    BY <1>4, ScriptFrame
  <2>2. p \in Running /\ Running' \subseteq Running
    BY <2>1 DEF Running
  <2>3. settled = Nil
    BY <2>2 DEF Solitary
  <2>4. \A q \in Running' : Alone(q) => Alone(q)'
    BY <2>1 DEF Running, Alone
  <2>5. \A q \in Runs : Alone(q)' => Running' = {q}
    <3>1. SUFFICES ASSUME NEW q \in Runs, Alone(q)'
                   PROVE  Running' = {q}
      OBVIOUS
    <3>2. q \in Running' /\ Alone(q)
      BY <3>1, <2>1, <2>2 DEF Alone, Running
    <3> QED
      BY <3>2, <2>2 DEF Solitary
  <2>6. CASE UNCHANGED <<tainted, settled, installed>>
    BY <2>2, <2>3, <2>4, <2>5, <2>6 DEF Solitary
  <2>7. CASE IsActive(p) /\ shared[p]
    <3>1. tainted' = tainted /\ settled' = settled
      <4>1. tainted' = tainted \/ tainted' = (tainted /\ shared[p])
        BY <2>7 DEF IsActive
      <4>2. tainted \in BOOLEAN
        BY TypeParts DEF HistoryTyped
      <4>3. tainted' = tainted
        BY <4>1, <4>2, <2>7
      <4> QED
        BY <2>7, <4>3 DEF IsActive
    <3> QED
      BY <2>2, <2>3, <2>4, <2>5, <3>1 DEF Solitary
  <2>8. CASE IsActive(p) /\ ~shared[p]
    <3>1. Running = {p}
      BY <2>1, <2>8 DEF Solitary, Alone
    <3>2. pc'[p] = 0
      BY <2>8, <1>1 DEF IsActive, Leave, Refuse
    <3>3. Running' = {}
      BY <2>2, <3>1, <3>2 DEF Running
    <3> QED
      BY <2>5, <3>3 DEF Solitary
  <2> QED
    BY <2>1, <2>6, <2>7, <2>8
<1>5. ASSUME NEW p \in Runs,
             Answer(p) \/ LoseConnection(p) \/ Cleanup(p) \/ Interrupt(p)
      PROVE  Solitary'
  BY <1>2, <1>5 DEF Answer, LoseConnection, Cleanup, Interrupt, history
<1>6. ServiceDies => Solitary'
  BY <1>2 DEF ServiceDies, runVars
<1>7. ASSUME Reboot
      PROVE  Solitary'
  <2>1. Running' = {} /\ \A q \in Runs : ~Alone(q)'
    BY <1>7 DEF Reboot, Running, Alone
  <2> QED
    BY <2>1 DEF Solitary
<1> QED
  BY <1>3, <1>4, <1>5, <1>6, <1>7 DEF Next

\* A running script keeps its plan, and its binaries while its command waits
LEMMA EquippedNext ==
  ASSUME TypeOK, Equipped, Next
  PROVE  Equipped'
<1>1. /\ pc \in [Runs -> 0 .. 22] /\ staged \in [Runs -> BOOLEAN]
      /\ plan \in [Runs -> Plans \cup {Nil}]
      /\ local \in [Runs -> {"idle", "apply", "cleanup"}]
  BY TypeParts DEF RunsTyped
<1>2. ASSUME NEW p \in Runs, NEW pl \in Plans, Start(p, pl)
      PROVE  Equipped'
  <2>1. /\ plan' = [plan EXCEPT ![p] = pl] /\ staged' = [staged EXCEPT ![p] = TRUE]
        /\ local' = [local EXCEPT ![p] = "apply"] /\ pc' = [pc EXCEPT ![p] = 1]
    BY <1>2 DEF Start
  <2> QED
    BY <1>1, <2>1 DEF Equipped, Running
<1>3. ASSUME NEW p \in Runs, Answer(p)
      PROVE  Equipped'
  BY <1>1, <1>3 DEF Answer, Equipped, Running
<1>4. ASSUME NEW p \in Runs, LoseConnection(p) \/ Interrupt(p)
      PROVE  Equipped'
  BY <1>1, <1>4 DEF LoseConnection, Interrupt, Equipped, Running
<1>5. ASSUME NEW p \in Runs, Cleanup(p)
      PROVE  Equipped'
  <2>1. /\ pc' = pc /\ plan' = plan /\ local' = [local EXCEPT ![p] = "idle"]
        /\ staged' = staged \/ staged' = [staged EXCEPT ![p] = FALSE]
    BY <1>5 DEF Cleanup
  <2> QED
    BY <1>1, <2>1 DEF Equipped, Running
<1>6. ASSUME NEW p \in Runs, ScriptStep(p) \/ Fault(p)
      PROVE  Equipped'
  BY <1>6, ScriptFrame DEF Equipped, Running
<1>7. ServiceDies => Equipped'
  BY DEF ServiceDies, runVars, Equipped, Running
<1>8. Reboot => Equipped'
  BY DEF Reboot, Equipped, Running
<1> QED
  BY <1>2, <1>3, <1>4, <1>5, <1>6, <1>7, <1>8 DEF Next

\* CutShort leaves no file that a stopped run has open
LEMMA CutShortFacts ==
  ASSUME NEW content, Typed(content), NEW stopped, NEW torn, NEW f \in Paths
  PROVE  /\ CutShort(stopped, torn, content)[f].writers = content[f].writers \ stopped
         /\ content[f].writers = {} => CutShort(stopped, torn, content)[f] = content[f]
<1> DEFINE c == content[f]
<1>1. c = [text |-> c.text, state |-> c.state, writers |-> c.writers]
  BY ContentFacts DEF Typed
<1>2. CutShort(stopped, torn, content)[f].writers = c.writers \ stopped
  BY <1>1 DEF CutShort, Cut
<1>3. ASSUME c.writers = {}
      PROVE  CutShort(stopped, torn, content)[f] = c
  <2>1. c.writers \ stopped = c.writers /\ c.writers \cap torn = {}
    BY <1>3
  <2> QED
    BY <1>1, <2>1 DEF CutShort
<1> QED
  BY <1>2, <1>3

\* A file that is being written belongs to a run that is at its write
LEMMA WritersNext ==
  ASSUME TypeOK, Equipped, Writers, Next
  PROVE  Writers'
<1>1. /\ pc \in [Runs -> 0 .. 22]
      /\ file = [f \in Paths |-> file[f]] /\ new = [f \in Paths |-> new[f]]
  BY TypeParts DEF RunsTyped, Typed
<1>2. ASSUME NEW p \in Runs, pc[p] \notin {4, 6, 10, 13},
             \A q \in Runs \ {p} : pc'[q] = pc[q],
             UNCHANGED <<file, new>>
      PROVE  Writers'
  BY <1>2 DEF Writers
<1>3. ASSUME NEW p \in Runs, NEW pl \in Plans, Start(p, pl)
      PROVE  Writers'
  <2>1. pc[p] = 0 /\ pc' = [pc EXCEPT ![p] = 1] /\ UNCHANGED <<file, new>>
    BY <1>3 DEF Start, files
  <2> QED
    BY <1>1, <1>2, <2>1
<1>4. ASSUME NEW p \in Runs,
             \/ Check(p) \/ User(p) \/ Grep(p) \/ AppendImport(p) \/ DaemonReload(p)
             \/ Enable(p) \/ RestartService(p) \/ Validate(p) \/ ReloadCaddy(p)
             \/ IsActive(p)
      PROVE  Writers'
  <2>1. pc[p] \notin {4, 6, 10, 13}
    BY <1>4, Positions
    DEF Check, User, Grep, AppendImport, DaemonReload, Enable, RestartService, Validate,
        ReloadCaddy, IsActive
  <2>2. \A q \in Runs \ {p} : pc'[q] = pc[q]
    BY <1>4, ScriptFrame DEF ScriptStep
  <2>3. UNCHANGED <<file, new>>
    BY <1>4
    DEF Check, User, Grep, AppendImport, DaemonReload, Enable, RestartService, Validate,
        ReloadCaddy, IsActive, files
  <2> QED
    BY <2>1, <2>2, <2>3, <1>2
<1>5. ASSUME NEW p \in Runs, Open(p)
      PROVE  Writers'
  <2>1. pc[p] \in {3, 5, 9, 12}
    BY <1>5, Positions DEF Open
  <2>2. \A q \in Runs \ {p} : pc'[q] = pc[q]
    BY <1>5, ScriptFrame DEF ScriptStep
  <2>3. CASE UNCHANGED <<file, new>>
    BY <2>1, <2>2, <2>3, <1>2
  <2>4. CASE ~UNCHANGED <<file, new>>
    <3>1. PICK others \in {{}, new[Path(p)].writers} :
            Advance(p) /\ file' = file /\ new' = [new EXCEPT ![Path(p)] = Empty({p} \cup others)]
      BY <1>5, <2>4 DEF Open
    <3>2. pc'[p] \in {4, 6, 10, 13}
      BY <1>1, <2>1, <3>1 DEF Advance
    <3>3. \A f \in Paths : new'[f].writers \subseteq {p} \cup new[f].writers
      BY <1>1, <3>1 DEF Empty
    <3> QED
      BY <2>1, <2>2, <3>1, <3>2, <3>3 DEF Writers
  <2> QED
    BY <2>3, <2>4
<1>6. ASSUME NEW p \in Runs, Write(p)
      PROVE  Writers'
  <2>1. \A q \in Runs \ {p} : pc'[q] = pc[q]
    BY <1>6, ScriptFrame DEF ScriptStep
  <2>2. PICK covered :
          file' = Written(p, file, covered) /\ new' = Written(p, new, covered)
    BY <1>6 DEF Write
  <2>3. ASSUME NEW content, NEW f \in Paths
        PROVE  Written(p, content, covered)[f].writers = content[f].writers \ {p}
    <3>1. CASE p \notin content[f].writers
      <4>1. content[f].writers \ {p} = content[f].writers
        BY <3>1
      <4>2. Written(p, content, covered)[f] = content[f]
        BY <3>1, WrittenFacts
      <4> QED
        BY <4>1, <4>2
    <3>2. CASE p \in content[f].writers
      <4>1. Written(p, content, covered)[f] \in WriteLeaves(p, f, content[f].writers \ {p})
        BY <3>2, WrittenFacts
      <4> QED
        BY <4>1 DEF WriteLeaves, Cut
    <3> QED
      BY <3>1, <3>2
  <2>4. \A f \in Paths : /\ file'[f].writers = file[f].writers \ {p}
                         /\ new'[f].writers = new[f].writers \ {p}
    BY <2>2, <2>3
  <2> QED
    BY <2>1, <2>4 DEF Writers
<1>7. ASSUME NEW p \in Runs, Move(p)
      PROVE  Writers'
  <2>1. pc[p] \in {7, 8, 11, 14} /\ plan[p] \in Plans
    BY <1>7, Positions DEF Move, Equipped, Running
  <2>2. \A q \in Runs \ {p} : pc'[q] = pc[q]
    BY <1>7, ScriptFrame DEF ScriptStep
  <2>3. Path(p) \in Paths
    BY <2>1, PathTypes
  <2>4. \/ UNCHANGED <<file, new>>
        \/ /\ file' = [file EXCEPT ![Path(p)] = new[Path(p)]]
           /\ new' = [new EXCEPT ![Path(p)] = Missing]
    BY <1>7 DEF Move
  <2>5. Missing.writers = {}
    BY DEF Missing
  <2>6. \A f \in Paths, q \in Runs :
          q \in file'[f].writers \cup new'[f].writers =>
            \E g \in Paths : q \in file[g].writers \cup new[g].writers
    BY <1>1, <2>3, <2>4, <2>5
  <2> QED
    BY <2>1, <2>2, <2>6 DEF Writers
<1>8. ASSUME NEW runs \in SUBSET Runs, NEW torn,
             file' = CutShort(runs, torn, file), new' = CutShort(runs, torn, new),
             \A q \in Runs \ runs : pc'[q] = pc[q] \/ pc[q] = 0
      PROVE  Writers'
  <2>1. Typed(file) /\ Typed(new)
    BY TypeParts
  <2>2. \A f \in Paths : /\ file'[f].writers = file[f].writers \ runs
                         /\ new'[f].writers = new[f].writers \ runs
    BY <1>8, <2>1, CutShortFacts
  <2> QED
    BY <1>8, <2>2 DEF Writers
<1>9. ASSUME NEW p \in Runs, Fault(p)
      PROVE  Writers'
  <2>1. PICK torn \in SUBSET {p} :
          file' = CutShort({p}, torn, file) /\ new' = CutShort({p}, torn, new)
    BY <1>9 DEF Fault
  <2>2. \A q \in Runs \ {p} : pc'[q] = pc[q]
    BY <1>9, ScriptFrame
  <2> QED
    BY <2>1, <2>2, <1>8
<1>10. ASSUME Reboot
       PROVE  Writers'
  <2>1. PICK torn \in SUBSET Running :
          /\ file' = CutShort(Running, torn, file)
          /\ new' = CutShort(Running, torn, new)
    BY <1>10 DEF Reboot
  <2>2. \A q \in Runs \ Running : pc[q] = 0
    BY DEF Running
  <2> QED
    BY <2>1, <2>2, <1>8 DEF Running
<1>11. ASSUME NEW p \in Runs,
              Answer(p) \/ LoseConnection(p) \/ Cleanup(p) \/ Interrupt(p)
       PROVE  Writers'
  <2>1. UNCHANGED <<pc, file, new>>
    BY <1>11 DEF Answer, LoseConnection, Cleanup, Interrupt, files
  <2> QED
    BY <2>1 DEF Writers
<1>12. ASSUME ServiceDies
       PROVE  Writers'
  <2>1. UNCHANGED <<pc, file, new>>
    BY <1>12 DEF ServiceDies, files, runVars
  <2> QED
    BY <2>1 DEF Writers
<1> QED
  BY <1>3, <1>4, <1>5, <1>6, <1>7, <1>9, <1>10, <1>11, <1>12 DEF Next, ScriptStep

\* Scripts that overlap may append the import more than once, each once at most
LEMMA ImportsCountedNext ==
  ASSUME TypeOK, ImportsCounted, Next
  PROVE  ImportsCounted' /\ imports' \in 0 .. Cardinality(Runs)
<1> DEFINE waiting == {p \in Runs : pc[p] = 16}
<1>1. pc \in [Runs -> 0 .. 22] /\ imports \in 0 .. Cardinality(Runs)
  BY TypeParts DEF RunsTyped
<1>2. Cardinality(Runs) \in Nat /\ IsFiniteSet(waiting)
      /\ Cardinality(waiting) \in 0 .. Cardinality(Runs)
  BY RunsAssumption, FS_CardinalityType, FS_Subset
<1>3. ASSUME waiting' \subseteq waiting, imports' = imports
      PROVE  ImportsCounted' /\ imports' \in 0 .. Cardinality(Runs)
  <2>1. Cardinality(waiting') \in Nat /\ Cardinality(waiting') <= Cardinality(waiting)
    BY <1>2, <1>3, FS_Subset, FS_CardinalityType
  <2> QED
    BY <1>1, <1>2, <1>3, <2>1 DEF ImportsCounted
<1>4. ASSUME NEW p \in Runs, AppendImport(p)
      PROVE  ImportsCounted' /\ imports' \in 0 .. Cardinality(Runs)
  <2>1. pc[p] = 16 /\ pc'[p] = 17 /\ imports' = imports + 1
    BY <1>1, <1>4, Positions DEF AppendImport, Advance
  <2>2. \A q \in Runs \ {p} : pc'[q] = pc[q]
    BY <1>4, ScriptFrame DEF ScriptStep
  <2>3. waiting' = waiting \ {p} /\ p \in waiting
    BY <2>1, <2>2
  <2>4. Cardinality(waiting') = Cardinality(waiting) - 1
    BY <1>2, <2>3, FS_RemoveElement
  <2>5. imports' + Cardinality(waiting') <= Cardinality(Runs)
    BY <1>1, <1>2, <2>1, <2>4 DEF ImportsCounted
  <2>6. Cardinality(waiting') \in Nat
    BY <1>2, <2>3, FS_Subset, FS_CardinalityType
  <2> QED
    BY <1>1, <1>2, <2>1, <2>5, <2>6 DEF ImportsCounted
<1>5. ASSUME NEW p \in Runs, Grep(p)
      PROVE  ImportsCounted' /\ imports' \in 0 .. Cardinality(Runs)
  <2>1. /\ imports' = imports
        /\ imports > 0 => pc'[p] = 17
        /\ \A q \in Runs \ {p} : pc'[q] = pc[q]
    <3>1. pc[p] = 15
      BY <1>5, Positions DEF Grep
    <3> QED
      BY <1>1, <1>5, <3>1 DEF Grep, files
  <2>2. CASE imports > 0
    <3>1. waiting' \subseteq waiting
      BY <1>1, <2>1, <2>2
    <3> QED
      BY <3>1, <2>1, <1>3
  <2>3. CASE imports = 0
    BY <1>1, <1>2, <2>1, <2>3 DEF ImportsCounted
  <2> QED
    BY <1>1, <2>2, <2>3
<1>6. ASSUME NEW p \in Runs,
             \/ \E pl \in Plans : Start(p, pl)
             \/ Answer(p) \/ LoseConnection(p) \/ Cleanup(p) \/ Interrupt(p)
      PROVE  waiting' \subseteq waiting /\ imports' = imports
  BY <1>1, <1>6 DEF Start, Answer, LoseConnection, Cleanup, Interrupt, files
<1>7. ASSUME NEW p \in Runs,
             \/ Check(p) \/ User(p) \/ Open(p) \/ Write(p) \/ Move(p) \/ DaemonReload(p)
             \/ Enable(p) \/ RestartService(p) \/ Validate(p) \/ ReloadCaddy(p)
             \/ IsActive(p) \/ Fault(p)
      PROVE  waiting' \subseteq waiting /\ imports' = imports
  <2>1. imports' = imports
    BY <1>7
    DEF Check, User, Open, Write, Move, DaemonReload, Enable, RestartService, Validate,
        ReloadCaddy, IsActive, Fault, files
  <2>2. pc'[p] = 0 \/ (pc'[p] = pc[p] + 1 /\ pc[p] # 15)
    <3>1. CASE Fault(p) \/ IsActive(p)
      BY <1>1, <3>1 DEF Fault, IsActive, Leave, Refuse
    <3>2. CASE ~(Fault(p) \/ IsActive(p))
      <4>1. Advance(p) \/ Leave(p, "refused")
        BY <1>7, <3>2
        DEF Check, User, Open, Write, Move, DaemonReload, Enable, RestartService,
            Validate, ReloadCaddy, Refuse
      <4>2. pc[p] # 15
        BY <1>7, <3>2, Positions
        DEF Check, User, Open, Write, Move, DaemonReload, Enable, RestartService,
            Validate, ReloadCaddy
      <4> QED
        BY <1>1, <4>1, <4>2 DEF Advance, Leave
    <3> QED
      BY <3>1, <3>2
  <2>3. \A q \in Runs \ {p} : pc'[q] = pc[q]
    BY <1>7, ScriptFrame DEF ScriptStep
  <2> QED
    BY <1>1, <2>1, <2>2, <2>3
<1>8. ServiceDies \/ Reboot => waiting' \subseteq waiting /\ imports' = imports
  BY DEF ServiceDies, Reboot, runVars, files
<1> HIDE DEF waiting
<1> QED
  BY <1>3, <1>4, <1>5, <1>6, <1>7, <1>8 DEF Next, ScriptStep

-----------------------------------------------------------------------------
(***************************************************************************)
(* Progress: what an undisturbed script has achieved.                      *)
(***************************************************************************)

\* The files of a plan, its snippet included, are four
LEMMA PlanPaths ==
  ASSUME NEW pl \in Plans
  PROVE  /\ pl.name \notin {"server", "contextq", "unit"}
         /\ pl.name \in Paths
         /\ Text(pl, pl.name) = Site(pl)
BY PlanFacts, PathFacts, TextFacts

\* A script advances when it neither ends nor finds the import
LEMMA Advances ==
  ASSUME TypeOK, NEW p \in Runs, ScriptStep(p), pc'[p] # 0, ~Grep(p)
  PROVE  Advance(p) /\ pc'[p] = pc[p] + 1
<1>1. pc \in [Runs -> 0 .. 22]
  BY TypeParts DEF RunsTyped
<1>2. Advance(p) \/ Leave(p, "refused") \/ Leave(p, "complete")
  BY DEF ScriptStep, Check, User, Open, Write, Move, AppendImport, DaemonReload, Enable,
         RestartService, Validate, ReloadCaddy, IsActive, Refuse
<1>3. \A how : ~Leave(p, how)
  BY <1>1 DEF Leave
<1> QED
  BY <1>1, <1>2, <1>3 DEF Advance

\* What a start brings up from files that are whole
LEMMA StartedUp ==
  ASSUME TypeOK, NEW unit \in Contents({pl.listen : pl \in Plans}),
         identity, unit.state = "whole",
         file["server"].state = "whole", file["contextq"].state = "whole"
  PROVE  /\ Started(unit) = [server |-> file["server"].text, listen |-> unit.text]
         /\ Started(unit) # Nil
<1>1. /\ file["server"].text \in {pl.server : pl \in Plans}
      /\ unit.text \in {pl.listen : pl \in Plans}
  BY TextsRead, TypeParts, ContentFacts
<1>2. file["server"].text.arch = HostArch
  BY <1>1, PlanFacts
<1>3. Started(unit) = [server |-> file["server"].text, listen |-> unit.text]
  BY <1>2 DEF Started
<1>4. [server |-> file["server"].text, listen |-> unit.text] \in Servers
  BY <1>1 DEF Servers
<1> QED
  BY <1>3, <1>4, NilAssumption

\* No other run has a file open beside that of an undisturbed script
Unwritten(p) ==
    \A f \in Paths : file[f].writers \cup new[f].writers \subseteq {p} /\
                     (file[f].writers \cup new[f].writers # {} => pc[p] \in {4, 6, 10, 13})

LEMMA AloneUnwritten ==
  ASSUME TypeOK, Solitary, Writers, NEW p \in Runs, Alone(p)
  PROVE  Unwritten(p)
<1>1. ASSUME NEW f \in Paths, NEW q \in file[f].writers \cup new[f].writers
      PROVE  q = p /\ pc[p] \in {4, 6, 10, 13}
  <2>1. q \in Runs
    BY <1>1, FileTypes, ContentFacts
  <2>2. pc[q] \in {4, 6, 10, 13}
    BY <1>1, <2>1 DEF Writers
  <2>3. q \in Running
    BY <2>1, <2>2 DEF Running
  <2> QED
    BY <2>2, <2>3 DEF Solitary
<1> QED
  BY <1>1 DEF Unwritten

\* The steps that fill and place files carry a plan's files forward
LEMMA InstallsNext ==
  ASSUME TypeOK, Equipped, NEW p \in Runs, Open(p) \/ Write(p) \/ Move(p),
         Progress(p), pc'[p] # 0, Unwritten(p)
  PROVE  /\ Installs(p, "server", 3, 7)'
         /\ Installs(p, "contextq", 5, 8)'
         /\ Installs(p, "unit", 9, 11)'
         /\ Installs(p, plan[p].name, 12, 14)'
<1> DEFINE pl == plan[p]
<1>1. pl \in Plans /\ plan' = plan
  BY ScriptFrame DEF Equipped, Running, ScriptStep
<1>2. /\ file = [f \in Paths |-> file[f]] /\ new = [f \in Paths |-> new[f]]
  BY FileTypes
<1>3. Advance(p) /\ pc'[p] = pc[p] + 1
  BY Advances DEF ScriptStep, Grep, Open, Write, Move, At
<1>4. /\ Open(p) => pc[p] \in {3, 5, 9, 12}
      /\ Write(p) => pc[p] \in {4, 6, 10, 13}
      /\ Move(p) => pc[p] \in {7, 8, 11, 14}
  BY Positions DEF Open, Write, Move
<1>5. ~Refuse(p)
  <2>1. pc \in [Runs -> 0 .. 22]
    BY TypeParts DEF RunsTyped
  <2> QED
    BY <2>1 DEF Refuse, Leave
<1>6. Path(p) \in Paths
  BY <1>1, <1>4, PathTypes
<1>7. ASSUME Open(p)
      PROVE  /\ file' = file
             /\ new'[Path(p)] = Empty({p})
             /\ \A f \in Paths \ {Path(p)} : new'[f] = new[f]
  <2>1. PICK others \in {{}, new[Path(p)].writers} :
          file' = file /\ new' = [new EXCEPT ![Path(p)] = Empty({p} \cup others)]
    BY <1>5, <1>7 DEF Open
  <2>2. {p} \cup others = {p}
    BY <1>6, <2>1 DEF Unwritten
  <2> QED
    BY <1>2, <1>6, <2>1, <2>2
<1>8. ASSUME Write(p)
      PROVE  \A f \in Paths :
               /\ file[f].writers = {} => file'[f] = file[f]
               /\ new[f].writers = {} => new'[f] = new[f]
               /\ new[f] = Empty({p}) => new'[f] = Whole(Text(pl, f))
  <2>1. PICK covered :
          file' = Written(p, file, covered) /\ new' = Written(p, new, covered)
    BY <1>8 DEF Write
  <2>2. ASSUME NEW content, NEW f \in Paths
        PROVE  /\ content[f].writers = {} => Written(p, content, covered)[f] = content[f]
               /\ content[f] = Empty({p}) =>
                    Written(p, content, covered)[f] = Whole(Text(pl, f))
    <3>1. content[f].writers = {} => p \notin content[f].writers
      OBVIOUS
    <3> QED
      BY <3>1, WrittenFacts
  <2> QED
    BY <2>1, <2>2
<1>9. ASSUME Move(p)
      PROVE  /\ file'[Path(p)] = new[Path(p)]
             /\ \A f \in Paths \ {Path(p)} : file'[f] = file[f] /\ new'[f] = new[f]
  BY <1>2, <1>5, <1>6, <1>9 DEF Move
<1>10. \A text : Whole(text).writers = {}
  BY DEF Whole
<1>11. ASSUME NEW f \in Paths, NEW open \in 0 .. 22, NEW mv \in 0 .. 22, open + 1 < mv,
              Installs(p, f, open, mv),
              Path(p) = f <=> pc[p] \in {open, open + 1, mv},
              pc[p] = open => Open(p), pc[p] = open + 1 => Write(p), pc[p] = mv => Move(p)
       PROVE  Installs(p, f, open, mv)'
  <2>1. pc[p] \in 0 .. 22
    BY Positions
  <2>2. pc'[p] = open + 1 => new'[f] = Empty({p})
    BY <1>3, <1>7, <1>11, <2>1
  <2>3. pc'[p] \in open + 2 .. mv => new'[f] = Whole(Text(pl, f))
    <3>1. CASE pc[p] = open + 1
      BY <1>8, <1>11, <3>1 DEF Installs
    <3>2. CASE pc[p] # open + 1 /\ pc'[p] \in open + 2 .. mv
      <4>1. pc[p] \in open + 2 .. mv /\ pc[p] # mv
        BY <1>3, <1>11, <2>1, <3>2
      <4>2. new[f] = Whole(Text(pl, f)) /\ Path(p) # f
        BY <1>11, <4>1 DEF Installs
      <4> QED
        BY <1>7, <1>8, <1>9, <1>10, <4>2
    <3> QED
      BY <3>1, <3>2
  <2>4. pc'[p] > mv => file'[f] = Whole(Text(pl, f))
    <3>1. CASE pc[p] = mv
      BY <1>9, <1>11, <2>1, <3>1 DEF Installs
    <3>2. CASE pc[p] # mv /\ pc'[p] > mv
      <4>1. file[f] = Whole(Text(pl, f)) /\ Path(p) # f
        BY <1>3, <1>11, <2>1, <3>2 DEF Installs
      <4> QED
        BY <1>7, <1>8, <1>9, <1>10, <4>1
    <3> QED
      BY <3>1, <3>2
  <2> QED
    BY <1>1, <2>2, <2>3, <2>4 DEF Installs
<1>12. /\ pc[p] \in {3, 4, 7} => Path(p) = "server"
       /\ pc[p] \in {5, 6, 8} => Path(p) = "contextq"
       /\ pc[p] \in {9, 10, 11} => Path(p) = "unit"
       /\ pc[p] \in {12, 13, 14} => Path(p) = pl.name
  BY <1>1, <1>4, PathTypes
<1>13. pl.name \notin {"server", "contextq", "unit"} /\ pl.name \in Paths
  BY <1>1, PlanPaths
<1>14. /\ pc[p] \in {3, 5, 9, 12} => Open(p)
       /\ pc[p] \in {4, 6, 10, 13} => Write(p)
       /\ pc[p] \in {7, 8, 11, 14} => Move(p)
  BY <1>4
<1>15. pc[p] \in {3, 4, 5, 6, 7, 8, 9, 10, 11, 12, 13, 14}
  BY <1>4
<1>16. Installs(p, "server", 3, 7) /\ Installs(p, "contextq", 5, 8)
       /\ Installs(p, "unit", 9, 11) /\ Installs(p, pl.name, 12, 14)
  BY DEF Progress
<1>17. Installs(p, "server", 3, 7)'
  BY <1>11, <1>12, <1>13, <1>14, <1>15, <1>16, PathFacts
<1>18. Installs(p, "contextq", 5, 8)'
  BY <1>11, <1>12, <1>13, <1>14, <1>15, <1>16, PathFacts
<1>19. Installs(p, "unit", 9, 11)'
  BY <1>11, <1>12, <1>13, <1>14, <1>15, <1>16, PathFacts
<1>20. ASSUME NEW f \in Paths, f = pl.name
       PROVE  Installs(p, f, 12, 14)'
  BY <1>11, <1>12, <1>13, <1>14, <1>15, <1>16, <1>20
<1>21. plan'[p].name = pl.name
  BY <1>1
<1> QED
  BY <1>13, <1>17, <1>18, <1>19, <1>20, <1>21

\* The sites of an acceptable configuration: that of the plan is among them
LEMMA PlanServed ==
  ASSUME NEW pl \in Plans, file[pl.name] = Whole(Text(pl, pl.name)), imports > 0, Acceptable
  PROVE  /\ Site(pl) \in Sites
         /\ pl.name \in Snippets
         /\ ~(imports > 1)
<1>1. pl.name \in Names /\ Text(pl, pl.name) = Site(pl)
  BY PlanFacts, PlanPaths
<1>2. file[pl.name].state = "whole" /\ file[pl.name].text = Site(pl)
      /\ file[pl.name] # Missing
  BY <1>1 DEF Whole, Missing
<1>3. pl.name \in Snippets /\ Site(pl) \in Sites
  BY <1>1, <1>2 DEF Snippets, Served, Sites
<1> QED
  BY <1>3 DEF Acceptable, SitesDistinct

\* Each step of an undisturbed script achieves what it is there for
LEMMA ProgressNext ==
  ASSUME TypeOK, Equipped, NEW p \in Runs, ScriptStep(p), Progress(p), pc'[p] # 0,
         Unwritten(p)
  PROVE  Progress(p)'
<1> DEFINE pl == plan[p]
<1>1. pl \in Plans /\ plan' = plan
  BY ScriptFrame DEF Equipped, Running
<1>2. pl.name \notin {"server", "contextq", "unit"} /\ Text(pl, "unit") = pl.listen
      /\ Text(pl, "server") = pl.server
  BY <1>1, PlanPaths, TextFacts
<1>3. pc[p] \in 0 .. 22
  BY Positions
<1>4. pc'[p] = IF Grep(p) /\ imports > 0 THEN pc[p] + 2 ELSE pc[p] + 1
  <2>1. CASE Grep(p)
    <3>1. pc \in [Runs -> 0 .. 22]
      BY TypeParts DEF RunsTyped
    <3> QED
      BY <2>1, <3>1 DEF Grep
  <2>2. CASE ~Grep(p)
    BY <2>2, Advances
  <2> QED
    BY <2>1, <2>2
<1>5. ~Refuse(p)
  <2>1. pc \in [Runs -> 0 .. 22]
    BY TypeParts DEF RunsTyped
  <2> QED
    BY <2>1 DEF Refuse, Leave
<1>6. imports \in Nat
  BY TypeParts, RunsAssumption, FS_CardinalityType
<1>7. ASSUME file' = file, pc[p] \in {1, 2} \/ pc[p] > 14
      PROVE  /\ Installs(p, "server", 3, 7)' /\ Installs(p, "contextq", 5, 8)'
             /\ Installs(p, "unit", 9, 11)' /\ Installs(p, plan[p].name, 12, 14)'
  <2>1. /\ Installs(p, "server", 3, 7) /\ Installs(p, "contextq", 5, 8)
        /\ Installs(p, "unit", 9, 11) /\ Installs(p, pl.name, 12, 14)
    BY DEF Progress
  <2>2. pc'[p] \in 0 .. 24 /\ (pc[p] \in {1, 2} => pc'[p] \in {2, 3})
        /\ (pc[p] > 14 => pc'[p] > 14)
    <3>1. Grep(p) => pc[p] = 15
      BY Positions DEF Grep
    <3> QED
      BY <1>3, <1>4, <3>1
  <2>3. ASSUME NEW f, f = pl.name
        PROVE  Installs(p, f, 12, 14)'
    BY <1>1, <1>3, <1>7, <2>1, <2>2, <2>3 DEF Installs
  <2>4. Installs(p, "server", 3, 7)'
    BY <1>1, <1>3, <1>7, <2>1, <2>2 DEF Installs
  <2>5. Installs(p, "contextq", 5, 8)'
    BY <1>1, <1>3, <1>7, <2>1, <2>2 DEF Installs
  <2>6. Installs(p, "unit", 9, 11)'
    BY <1>1, <1>3, <1>7, <2>1, <2>2 DEF Installs
  <2>7. plan'[p].name = pl.name
    BY <1>1
  <2> QED
    BY <2>3, <2>4, <2>5, <2>6, <2>7
<1>8. CASE Check(p)
  <2>1. pc[p] = 1 /\ pc'[p] = 2 /\ file' = file
    BY <1>4, <1>8, Positions DEF Check, Grep, At, files
  <2> QED
    BY <1>7, <2>1 DEF Progress
<1>9. CASE User(p)
  <2>1. pc[p] = 2 /\ pc'[p] = 3 /\ identity' = TRUE /\ file' = file
    BY <1>4, <1>9, Positions DEF User, Grep, At
  <2> QED
    BY <1>7, <2>1 DEF Progress
<1>10. CASE Open(p) \/ Write(p) \/ Move(p)
  <2>1. pc[p] \in 3 .. 14 /\ pc'[p] = pc[p] + 1 /\ identity' = identity
    <3>1. pc[p] \in 3 .. 14 /\ pc[p] # 15
      BY <1>10, Positions DEF Open, Write, Move
    <3>2. ~Grep(p)
      BY <3>1, Positions DEF Grep
    <3>3. identity' = identity
      BY <1>10 DEF Open, Write, Move
    <3> QED
      BY <1>4, <3>1, <3>2, <3>3
  <2>2. /\ Installs(p, "server", 3, 7)' /\ Installs(p, "contextq", 5, 8)'
        /\ Installs(p, "unit", 9, 11)' /\ Installs(p, plan[p].name, 12, 14)'
    BY <1>10, InstallsNext
  <2> QED
    BY <2>1, <2>2 DEF Progress
<1>11. CASE Grep(p)
  <2>1. /\ pc[p] = 15 /\ pc'[p] = (IF imports > 0 THEN 17 ELSE 16)
        /\ UNCHANGED <<file, imports, identity>>
    BY <1>4, <1>11, Positions DEF Grep, files
  <2> QED
    BY <1>6, <1>7, <2>1 DEF Progress
<1>12. CASE AppendImport(p)
  <2>1. pc[p] = 16 /\ pc'[p] = 17 /\ imports' = imports + 1 /\ UNCHANGED <<file, identity>>
    BY <1>4, <1>12, Positions DEF AppendImport, Grep
  <2> QED
    BY <1>6, <1>7, <2>1 DEF Progress
<1>13. CASE DaemonReload(p)
  <2>1. /\ pc[p] = 17 /\ pc'[p] = 18 /\ loaded' = InMemory(file["unit"])
        /\ UNCHANGED <<file, imports, identity>>
    BY <1>4, <1>13, Positions DEF DaemonReload, Grep, files
  <2>2. file["unit"] = Whole(pl.listen)
    BY <1>2, <2>1 DEF Progress, Installs
  <2>3. InMemory(file["unit"]) = Whole(pl.listen)
    BY <2>2 DEF InMemory, Whole
  <2> QED
    BY <1>1, <1>7, <2>1, <2>3 DEF Progress
<1>14. CASE Enable(p)
  <2>1. /\ pc[p] = 18 /\ pc'[p] = 19 /\ enabled' = TRUE
        /\ UNCHANGED <<file, imports, identity, loaded>>
    BY <1>4, <1>14, Positions DEF Enable, Grep, files
  <2> QED
    BY <1>1, <1>7, <2>1 DEF Progress
<1>15. CASE RestartService(p)
  <2>1. /\ pc[p] = 19 /\ pc'[p] = 20 /\ service' = Started(loaded)
        /\ UNCHANGED <<file, imports, identity, loaded, enabled>>
    BY <1>4, <1>15, Positions DEF RestartService, Grep, files
  <2>2. /\ identity /\ loaded = Whole(pl.listen)
        /\ file["server"] = Whole(pl.server) /\ file["contextq"].state = "whole"
    BY <1>2, <2>1 DEF Progress, Installs, Whole
  <2>3. loaded \in Contents({pm.listen : pm \in Plans})
    BY TypeParts DEF ServicesTyped
  <2>4. Started(loaded) = Serving(pl)
    BY <2>2, <2>3, StartedUp DEF Whole, Serving
  <2> QED
    BY <1>1, <1>7, <2>1, <2>4 DEF Progress
<1>16. CASE Validate(p)
  <2>1. /\ pc[p] = 20 /\ pc'[p] = 21 /\ Acceptable
        /\ UNCHANGED <<file, imports, identity, loaded, enabled, service>>
    BY <1>4, <1>5, <1>16, Positions DEF Validate, Grep, files, services
  <2>2. Acceptable'
    BY <2>1 DEF Acceptable, SitesDistinct, Snippets, Served
  <2> QED
    BY <1>1, <1>7, <2>1, <2>2 DEF Progress
<1>17. CASE ReloadCaddy(p)
  <2>1. /\ pc[p] = 21 /\ pc'[p] = 22 /\ Acceptable /\ caddy' = Sites
        /\ UNCHANGED <<file, imports, identity, loaded, enabled, service>>
    BY <1>4, <1>5, <1>17, Positions DEF ReloadCaddy, Grep, files
  <2>2. Acceptable'
    BY <2>1 DEF Acceptable, SitesDistinct, Snippets, Served
  <2>3. file[pl.name] = Whole(Text(pl, pl.name)) /\ imports > 0
    BY <2>1 DEF Progress, Installs
  <2>4. Site(pl) \in caddy'
    BY <1>1, <2>1, <2>3, PlanServed
  <2>5. Site(plan[p])' = Site(pl)
    BY <1>1 DEF Site
  <2> QED
    BY <1>1, <1>7, <2>1, <2>2, <2>4, <2>5 DEF Progress
<1>18. CASE IsActive(p)
  <2>1. pc'[p] = 0
    <3>1. pc \in [Runs -> 0 .. 22]
      BY TypeParts DEF RunsTyped
    <3> QED
      BY <1>18, <3>1 DEF IsActive, Leave, Refuse
  <2> QED
    BY <2>1
<1> QED
  BY <1>8, <1>9, <1>10, <1>11, <1>12, <1>13, <1>14, <1>15, <1>16, <1>17, <1>18
  DEF ScriptStep

\* Whatever does not touch what a script has achieved keeps it
LEMMA ProgressFrame ==
  ASSUME NEW p \in Runs, Progress(p), pc'[p] = pc[p], plan'[p] = plan[p],
         UNCHANGED <<file, new, imports, identity, loaded, enabled, service, caddy>>
  PROVE  Progress(p)'
<1>1. Acceptable' = Acceptable
  BY DEF Acceptable, SitesDistinct, Snippets, Served
<1>2. ASSUME NEW f, NEW open \in 0 .. 22, NEW mv \in 0 .. 22, Installs(p, f, open, mv)
      PROVE  Installs(p, f, open, mv)'
  BY <1>2 DEF Installs
<1>3. Installs(p, "server", 3, 7)' /\ Installs(p, "contextq", 5, 8)'
      /\ Installs(p, "unit", 9, 11)'
  BY <1>2 DEF Progress
<1>4. \A f : f = plan[p].name => Installs(p, f, 12, 14)'
  BY <1>2 DEF Progress
<1>5. Installs(p, plan[p].name, 12, 14)'
  BY <1>4
<1>6. Site(plan[p])' = Site(plan[p]) /\ Serving(plan[p])' = Serving(plan[p])
  BY DEF Site, Serving
<1> QED
  BY <1>1, <1>3, <1>5, <1>6 DEF Progress

\* Every action keeps what undisturbed scripts have achieved
LEMMA ProgressingNext ==
  ASSUME TypeOK, Solitary, Equipped, Writers, Progressing, Next
  PROVE  Progressing'
<1>1. pc \in [Runs -> 0 .. 22] /\ shared \in [Runs -> BOOLEAN]
      /\ plan \in [Runs -> Plans \cup {Nil}]
  BY TypeParts DEF RunsTyped, HistoryTyped
<1>2. ASSUME NEW p \in Runs, NEW pl \in Plans, Start(p, pl), NEW q \in Runs, Alone(q)'
      PROVE  Progress(q)'
  <2>1. /\ pc' = [pc EXCEPT ![p] = 1]
        /\ shared' = [r \in Runs |-> IF r = p THEN Running # {}
                                      ELSE shared[r] \/ r \in Running]
    BY <1>2 DEF Start
  <2>2. q = p /\ pc'[q] = 1
    BY <1>1, <1>2, <2>1 DEF Alone, Running
  <2> QED
    BY <2>2 DEF Progress, Installs
<1>3. ASSUME NEW p \in Runs,
             Answer(p) \/ LoseConnection(p) \/ Cleanup(p) \/ Interrupt(p),
             NEW q \in Runs, Alone(q)'
      PROVE  Progress(q)'
  <2>1. /\ pc' = pc /\ shared' = shared
        /\ UNCHANGED <<file, new, imports, identity, loaded, enabled, service, caddy>>
    BY <1>3 DEF Answer, LoseConnection, Cleanup, Interrupt, files, services, history
  <2>2. Alone(q) /\ Progress(q) /\ pc[q] # 0
    BY <1>3, <2>1 DEF Alone, Progressing
  <2>3. plan'[q] = plan[q]
    BY <1>1, <1>3, <2>2 DEF Answer, LoseConnection, Cleanup, Interrupt
  <2> QED
    BY <2>1, <2>2, <2>3, ProgressFrame
<1>4. ASSUME NEW p \in Runs, ScriptStep(p) \/ Fault(p), NEW q \in Runs, Alone(q)'
      PROVE  Progress(q)'
  <2>1. /\ pc[p] # 0 /\ shared' = shared
        /\ \A r \in Runs \ {p} : pc'[r] = pc[r]
    BY <1>4, ScriptFrame
  <2>2. Alone(q) /\ p \in Running
    BY <1>4, <2>1 DEF Alone, Running
  <2>3. q = p /\ Progress(p) /\ pc'[p] # 0
    BY <1>4, <2>2 DEF Solitary, Progressing, Alone
  <2>4. ~Fault(p)
    BY <1>1, <2>3 DEF Fault
  <2>5. Unwritten(p)
    BY <2>2, <2>3, AloneUnwritten
  <2> QED
    BY <1>4, <2>3, <2>4, <2>5, ProgressNext
<1>5. ASSUME ServiceDies, NEW q \in Runs, Alone(q)'
      PROVE  Progress(q)'
  <2>1. /\ pc' = pc /\ shared' = shared /\ plan' = plan /\ service' = Started(loaded)
        /\ UNCHANGED <<file, new, imports, identity, loaded, enabled, caddy>>
    BY <1>5 DEF ServiceDies, runVars, files
  <2>2. Alone(q) /\ Progress(q) /\ plan[q] \in Plans
    BY <1>5, <2>1 DEF Alone, Progressing, Equipped, Running
  <2>3. CASE pc[q] > 19
    <3>1. /\ identity /\ loaded = Whole(plan[q].listen)
          /\ file["server"] = Whole(plan[q].server) /\ file["contextq"].state = "whole"
      <4>1. /\ Text(plan[q], "unit") = plan[q].listen
            /\ Text(plan[q], "server") = plan[q].server
        BY <2>2, TextFacts
      <4>2. pc[q] > 2 /\ pc[q] > 7 /\ pc[q] > 8 /\ pc[q] > 17
        BY <2>3, <1>1
      <4>3. /\ identity /\ loaded = Whole(plan[q].listen)
            /\ file["server"] = Whole(Text(plan[q], "server"))
            /\ file["contextq"] = Whole(Text(plan[q], "contextq"))
        BY <2>2, <4>2 DEF Progress, Installs
      <4> QED
        BY <4>1, <4>3 DEF Whole
    <3>2. loaded \in Contents({pm.listen : pm \in Plans})
      BY TypeParts DEF ServicesTyped
    <3>3. Started(loaded) = Serving(plan[q])
      BY <3>1, <3>2, StartedUp DEF Whole, Serving
    <3>4. service' = service
      BY <2>1, <2>2, <2>3, <3>3 DEF Progress
    <3> QED
      BY <2>1, <2>2, <3>4, ProgressFrame
  <2>4. CASE ~(pc[q] > 19)
    <3>1. pc'[q] \in 0 .. 22 /\ ~(pc'[q] > 19) /\ ~(pc'[q] > 20) /\ ~(pc'[q] > 21)
      BY <1>1, <2>1, <2>4
    <3>2. ASSUME NEW f, NEW open \in 0 .. 22, NEW mv \in 0 .. 22, Installs(q, f, open, mv)
          PROVE  Installs(q, f, open, mv)'
      BY <2>1, <3>2 DEF Installs
    <3>3. Installs(q, "server", 3, 7)' /\ Installs(q, "contextq", 5, 8)'
          /\ Installs(q, "unit", 9, 11)'
      BY <2>2, <3>2 DEF Progress
    <3>4. \A f : f = plan[q].name => Installs(q, f, 12, 14)'
      BY <2>2, <3>2 DEF Progress
    <3>5. Installs(q, plan[q].name, 12, 14)'
      BY <2>1, <3>4
    <3> QED
      BY <2>1, <2>2, <3>1, <3>3, <3>5 DEF Progress
  <2> QED
    BY <2>3, <2>4
<1>6. ASSUME Reboot, NEW q \in Runs
      PROVE  ~Alone(q)'
  BY <1>6 DEF Reboot, Alone
<1> QED
  BY <1>2, <1>3, <1>4, <1>5, <1>6 DEF Next, Progressing

-----------------------------------------------------------------------------
(***************************************************************************)
(* The host.                                                               *)
(***************************************************************************)
Hosts == Undamaged /\ Restartable /\ Settled /\ Converged /\ ServiceKept

LEMMA HostsFrame ==
  ASSUME Hosts,
         UNCHANGED <<tainted, settled, installed>>,
         UNCHANGED <<file, imports, identity, loaded, enabled, service, caddy>>
  PROVE  Hosts'
<1>1. Acceptable' = Acceptable
  BY DEF Acceptable, SitesDistinct, Snippets, Served
<1>2. Undamaged' /\ Restartable' /\ ServiceKept'
  BY DEF Hosts, Undamaged, Restartable, ServiceKept
<1>3. Settled'
  BY <1>1 DEF Hosts, Settled
<1>4. Converged'
  BY DEF Hosts, Converged, Site
<1> QED
  BY <1>2, <1>3, <1>4 DEF Hosts

\* While no scripts have overlapped, one that runs runs alone
LEMMA Undisturbed ==
  ASSUME TypeOK, Inv, NEW p \in Runs, pc[p] # 0
  PROVE  /\ settled = Nil
         /\ ~tainted => Alone(p) /\ Progress(p)
         /\ plan[p] \in Plans
         /\ Hosts
BY DEF Inv, Solitary, Equipped, Progressing, Running, Hosts

\* A file that was hurt is nobody's and the service needs none of them, unless
\* scripts have overlapped
LEMMA HostsOfFiles ==
  ASSUME TypeOK, Inv, NEW p \in Runs, Open(p) \/ Write(p) \/ Move(p)
  PROVE  Hosts'
<1>1. /\ settled = Nil /\ (~tainted => Alone(p) /\ Progress(p)) /\ plan[p] \in Plans
      /\ Hosts
  BY Undisturbed DEF Open, Write, Move, At
<1>2. /\ UNCHANGED <<tainted, settled, installed>>
      /\ UNCHANGED <<imports, identity, loaded, enabled, service>>
  BY DEF Open, Write, Move, history, services
<1>3. Settled' /\ Converged' /\ ServiceKept'
  BY <1>1, <1>2 DEF Settled, Converged, ServiceKept, Hosts
<1>4. ASSUME ~tainted
      PROVE  \A f \in Paths :
               file'[f] = file[f] \/ (file'[f].state = "whole" /\ file'[f].writers = {})
  <2>1. file = [f \in Paths |-> file[f]]
    BY FileTypes
  <2>2. CASE Open(p)
    BY <2>2 DEF Open
  <2>3. CASE Write(p)
    <3>1. PICK covered : file' = Written(p, file, covered)
      BY <2>3 DEF Write
    <3>2. \A f \in Paths : file[f].writers = {}
      BY <1>1, <1>4 DEF Hosts, Undamaged
    <3>3. \A f \in Paths : p \notin file[f].writers
      BY <3>2
    <3>4. ASSUME NEW f \in Paths
          PROVE  Written(p, file, covered)[f] = file[f]
      BY <3>3, WrittenFacts
    <3> QED
      BY <3>1, <3>4
  <2>4. CASE Move(p)
    <3>1. pc[p] \in {7, 8, 11, 14}
      BY <2>4, Positions DEF Move
    <3>2. Path(p) \in Paths /\ new[Path(p)] = Whole(Text(plan[p], Path(p)))
      <4>1. /\ pc[p] = 7 => new["server"] = Whole(Text(plan[p], "server"))
            /\ pc[p] = 8 => new["contextq"] = Whole(Text(plan[p], "contextq"))
            /\ pc[p] = 11 => new["unit"] = Whole(Text(plan[p], "unit"))
            /\ pc[p] = 14 => new[plan[p].name] = Whole(Text(plan[p], plan[p].name))
        BY <1>1, <1>4 DEF Progress, Installs
      <4> QED
        BY <1>1, <3>1, <4>1, PathTypes
    <3>3. file' = file \/ file' = [file EXCEPT ![Path(p)] = new[Path(p)]]
      BY <2>4 DEF Move
    <3> QED
      BY <2>1, <3>2, <3>3 DEF Whole
  <2> QED
    BY <2>2, <2>3, <2>4
<1>5. Undamaged'
  BY <1>1, <1>2, <1>4, PathFacts DEF Hosts, Undamaged
<1>6. Restartable'
  BY <1>1, <1>2, <1>4, PathFacts DEF Hosts, Restartable
<1> QED
  BY <1>3, <1>5, <1>6 DEF Hosts

\* The other commands of the script before its last
LEMMA HostsOfCommands ==
  ASSUME TypeOK, Inv, NEW p \in Runs,
         \/ Check(p) \/ User(p) \/ Grep(p) \/ AppendImport(p) \/ DaemonReload(p)
         \/ Enable(p) \/ RestartService(p) \/ Validate(p) \/ ReloadCaddy(p)
  PROVE  Hosts'
<1>1. /\ settled = Nil /\ (~tainted => Alone(p) /\ Progress(p)) /\ plan[p] \in Plans
      /\ Hosts
  BY Undisturbed
  DEF Check, User, Grep, AppendImport, DaemonReload, Enable, RestartService, Validate,
      ReloadCaddy, At
<1>2. UNCHANGED <<tainted, settled, installed>> /\ UNCHANGED file
  BY DEF Check, User, Grep, AppendImport, DaemonReload, Enable, RestartService, Validate,
         ReloadCaddy, history, files
<1>3. Settled' /\ Converged'
  BY <1>1, <1>2 DEF Settled, Converged
<1>4. Undamaged'
  <2>1. CASE AppendImport(p)
    <3>1. pc[p] = 16 /\ imports' = imports + 1
      BY <2>1, Positions DEF AppendImport
    <3>2. ~tainted => imports = 0
      BY <1>1, <3>1 DEF Progress
    <3> QED
      BY <1>1, <1>2, <3>1, <3>2 DEF Hosts, Undamaged
  <2>2. CASE ~AppendImport(p)
    <3>1. imports' = imports
      BY <2>2
      DEF Check, User, Grep, DaemonReload, Enable, RestartService, Validate, ReloadCaddy,
          files
    <3> QED
      BY <1>1, <1>2, <3>1 DEF Hosts, Undamaged
  <2> QED
    BY <2>1, <2>2
<1>5. Restartable'
  <2>1. /\ identity => identity'
        /\ enabled => enabled'
        /\ loaded' = loaded \/ loaded' = InMemory(file["unit"])
    BY DEF Check, User, Grep, AppendImport, DaemonReload, Enable, RestartService, Validate,
           ReloadCaddy, files, services
  <2>2. Restartable
    BY <1>1 DEF Hosts
  <2>3. file' = file /\ tainted' = tainted /\ installed' = installed
    BY <1>2
  <2>4. ASSUME installed, ~tainted
        PROVE  /\ identity' /\ enabled' /\ loaded'.state = "whole"
               /\ \A f \in {"server", "contextq", "unit"} : file'[f].state = "whole"
    <3>1. InMemory(file["unit"]).state = file["unit"].state
      <4>1. file["unit"] = [text |-> file["unit"].text, state |-> file["unit"].state,
                            writers |-> file["unit"].writers]
        BY FileTypes, ContentFacts, PathFacts
      <4> QED
        BY <4>1 DEF InMemory
    <3> QED
      BY <2>1, <2>2, <2>3, <2>4, <3>1 DEF Restartable
  <2> QED
    BY <2>3, <2>4 DEF Restartable
<1>6. ServiceKept'
  <2>1. CASE RestartService(p)
    <3>1. service' = Started(loaded)
      BY <2>1 DEF RestartService
    <3>2. installed /\ ~tainted => Started(loaded) # Nil
      BY <1>1, StartedUp, TypeParts DEF Hosts, Restartable, ServicesTyped
    <3> QED
      BY <1>2, <3>1, <3>2 DEF ServiceKept
  <2>2. CASE ~RestartService(p)
    <3>1. service' = service
      BY <2>2
      DEF Check, User, Grep, AppendImport, DaemonReload, Enable, Validate, ReloadCaddy,
          services
    <3> QED
      BY <1>1, <1>2, <3>1 DEF Hosts, ServiceKept
  <2> QED
    BY <2>1, <2>2
<1> QED
  BY <1>3, <1>4, <1>5, <1>6 DEF Hosts

\* The last command: a script that ran alone has made the host what it says
LEMMA HostsOfIsActive ==
  ASSUME TypeOK, Inv, NEW p \in Runs, IsActive(p)
  PROVE  Hosts'
<1> DEFINE pl == plan[p]
<1>1. /\ settled = Nil /\ (~tainted => Alone(p) /\ Progress(p)) /\ pl \in Plans
      /\ Hosts
  BY Undisturbed DEF IsActive, At
<1>2. UNCHANGED <<file, imports, identity, loaded, enabled, service, caddy>>
  BY DEF IsActive, files, services
<1>3. CASE service = Nil
  <2>1. UNCHANGED <<tainted, settled, installed>>
    BY <1>1, <1>3 DEF IsActive, Leave, Refuse
  <2> QED
    BY <1>1, <1>2, <2>1, HostsFrame
<1>4. CASE service # Nil /\ shared[p]
  <2>1. tainted /\ settled' = settled
    BY <1>1, <1>4 DEF IsActive, Alone
  <2>2. tainted'
    BY <1>4, <2>1 DEF IsActive
  <2> QED
    BY <1>1, <1>2, <2>1, <2>2
    DEF Hosts, Undamaged, Restartable, Settled, Converged, ServiceKept
<1>5. CASE service # Nil /\ ~shared[p]
  <2>1. ~tainted' /\ settled' = pl
    BY <1>5 DEF IsActive
  <2>2. Alone(p) /\ Progress(p) /\ Running = {p} /\ pc[p] = 22
    <3>1. pc[p] = 22
      BY Positions DEF IsActive
    <3> QED
      BY <1>5, <3>1 DEF Inv, Solitary, Progressing, Alone
  <2>3. /\ identity /\ enabled /\ Acceptable /\ Site(pl) \in caddy /\ imports > 0
        /\ loaded = Whole(pl.listen) /\ service = Serving(pl)
        /\ file["server"] = Whole(Text(pl, "server"))
        /\ file["contextq"] = Whole(Text(pl, "contextq"))
        /\ file["unit"] = Whole(Text(pl, "unit"))
        /\ file[pl.name] = Whole(Text(pl, pl.name))
    BY <2>2 DEF Progress, Installs
  <2>4. /\ Text(pl, "server") = pl.server /\ Text(pl, "contextq") = pl.contextq
        /\ Text(pl, "unit") = pl.listen
        /\ pl.server.arch = HostArch /\ pl.contextq.arch = HostArch
    BY <1>1, TextFacts, PlanFacts
  <2>5. imports = 1
    <3>1. imports \in Nat
      BY TypeParts, RunsAssumption, FS_CardinalityType
    <3>2. ~(imports > 1)
      BY <1>1, <2>3, PlanServed
    <3> QED
      BY <2>3, <3>1, <3>2
  <2>6. \A f \in {"server", "contextq", "unit"} : file[f].state = "whole"
    BY <2>3 DEF Whole
  <2>7. \A n \in Names : file[n].state \in {"missing", "whole", "empty"}
    <3>1. SUFFICES ASSUME NEW n \in Names, file[n] # Missing
                   PROVE  file[n].state \in {"missing", "whole", "empty"}
      BY DEF Missing
    <3>2. n \in Snippets
      BY <2>3, <3>1 DEF Snippets
    <3>3. file[n].state # "cut"
      BY <2>3, <3>2 DEF Acceptable
    <3>4. file[n].state \in {"missing", "whole", "empty", "cut"}
      BY FileTypes, ContentFacts, PathFacts
    <3> QED
      BY <3>3, <3>4
  <2>14. \A f \in Paths : file[f].writers = {}
    BY <2>2, AloneUnwritten DEF Inv, Unwritten
  <2>8. Undamaged'
    BY <1>2, <2>5, <2>6, <2>7, <2>14 DEF Undamaged
  <2>9. Restartable'
    BY <1>2, <2>3, <2>6 DEF Restartable, Whole
  <2>10. ServiceKept'
    BY <1>2, <1>5 DEF ServiceKept
  <2>11. Acceptable'
    BY <1>2, <2>3 DEF Acceptable, SitesDistinct, Snippets, Served
  <2>12. Settled'
    BY <1>1, <1>2, <2>1, <2>3, <2>4, <2>11 DEF Settled
  <2>13. Converged'
    <3>1. /\ \A f \in {"server", "contextq", "unit", pl.name} : file[f] = Whole(Text(pl, f))
          /\ {file["server"].text.arch, file["contextq"].text.arch} = {HostArch}
      BY <2>3, <2>4 DEF Whole
    <3>2. service = [server |-> file["server"].text, listen |-> pl.listen]
      BY <2>3, <2>4 DEF Whole, Serving
    <3> QED
      BY <1>2, <2>1, <2>3, <2>5, <3>1, <3>2 DEF Converged
  <2> QED
    BY <2>8, <2>9, <2>10, <2>12, <2>13 DEF Hosts
<1> QED
  BY <1>3, <1>4, <1>5

\* Nothing is hurt when files that nobody was writing are cut short
LEMMA NothingCut ==
  ASSUME TypeOK, Inv, ~tainted, NEW stopped, NEW torn
  PROVE  CutShort(stopped, torn, file) = file
<1>1. \A f \in Paths : file[f].writers = {}
  BY DEF Inv, Undamaged
<1>2. Typed(file)
  BY TypeParts
<1>3. \A f \in Paths : CutShort(stopped, torn, file)[f] = file[f]
  BY <1>1, <1>2, CutShortFacts
<1>4. CutShort(stopped, torn, file) = [f \in Paths |-> CutShort(stopped, torn, file)[f]]
  BY DEF CutShort
<1> QED
  BY <1>2, <1>3, <1>4 DEF Typed

\* Faults of a script, of the service and of the host
LEMMA HostsOfFaults ==
  ASSUME TypeOK, Inv, (\E p \in Runs : Fault(p)) \/ ServiceDies \/ Reboot
  PROVE  Hosts'
<1>1. Hosts
  BY DEF Inv, Hosts
<1>2. loaded \in Contents({pl.listen : pl \in Plans})
      /\ file["unit"] \in Contents({pl.listen : pl \in Plans})
  BY TypeParts, TextsRead DEF ServicesTyped
<1>3. installed /\ ~tainted =>
        /\ Started(loaded) # Nil
        /\ Started(file["unit"]) # Nil
        /\ enabled
  BY <1>1, <1>2, StartedUp DEF Hosts, Restartable
<1>4. settled # Nil =>
        /\ ~tainted /\ enabled /\ loaded = file["unit"] /\ Acceptable
        /\ Started(loaded) = service
        /\ Site(settled) \in Sites
  <2>1. SUFFICES ASSUME settled # Nil
                 PROVE  /\ ~tainted /\ enabled /\ loaded = file["unit"] /\ Acceptable
                        /\ Started(loaded) = service
                        /\ Site(settled) \in Sites
    OBVIOUS
  <2>2. /\ settled \in Plans /\ identity /\ enabled /\ Acceptable /\ loaded = file["unit"]
        /\ ~tainted
    BY <1>1, <2>1 DEF Hosts, Settled
  <2>3. /\ \A f \in {"server", "contextq", "unit", settled.name} :
             file[f] = Whole(Text(settled, f))
        /\ imports = 1
        /\ service = [server |-> file["server"].text, listen |-> settled.listen]
    BY <1>1, <2>1 DEF Hosts, Converged
  <2>4. loaded = Whole(settled.listen)
    BY <2>2, <2>3, TextFacts
  <2>5. Started(loaded) = service
    BY <1>2, <2>2, <2>3, <2>4, StartedUp DEF Whole
  <2>6. Site(settled) \in Sites
    BY <2>2, <2>3, PlanServed
  <2> QED
    BY <2>2, <2>5, <2>6
<1>5. ASSUME NEW p \in Runs, Fault(p)
      PROVE  Hosts'
  <2>1. /\ UNCHANGED <<tainted, settled, installed>>
        /\ UNCHANGED <<imports, identity, loaded, enabled, service, caddy>>
    BY <1>5 DEF Fault, services
  <2>2. settled = Nil
    BY <1>5, Undisturbed DEF Fault
  <2>3. ASSUME ~tainted
        PROVE  file' = file
    <3>1. PICK torn \in SUBSET {p} : file' = CutShort({p}, torn, file)
      BY <1>5 DEF Fault
    <3> QED
      BY <2>3, <3>1, NothingCut
  <2>4. CASE tainted
    BY <1>1, <2>1, <2>2, <2>4
    DEF Hosts, Undamaged, Restartable, Settled, Converged, ServiceKept
  <2>5. CASE ~tainted
    BY <1>1, <2>1, <2>3, <2>5, HostsFrame
  <2> QED
    BY <2>4, <2>5
<1>6. ASSUME ServiceDies
      PROVE  Hosts'
  <2>1. /\ UNCHANGED <<tainted, settled, installed>>
        /\ UNCHANGED <<file, imports, identity, loaded, enabled, caddy>>
        /\ service' = Started(loaded)
    BY <1>6 DEF ServiceDies, files
  <2>2. Undamaged' /\ Restartable'
    BY <1>1, <2>1 DEF Hosts, Undamaged, Restartable
  <2>3. ServiceKept'
    BY <1>3, <2>1 DEF ServiceKept
  <2>4. Acceptable' = Acceptable
    BY <2>1 DEF Acceptable, SitesDistinct, Snippets, Served
  <2>5. Settled'
    BY <1>1, <2>1, <2>4 DEF Hosts, Settled
  <2>6. Converged'
    <3>1. settled # Nil => service' = service
      BY <1>4, <2>1
    <3> QED
      BY <1>1, <2>1, <3>1 DEF Hosts, Converged, Site
  <2> QED
    BY <2>2, <2>3, <2>5, <2>6 DEF Hosts
<1>7. ASSUME Reboot
      PROVE  Hosts'
  <2>1. /\ UNCHANGED <<tainted, settled, installed>>
        /\ UNCHANGED <<imports, identity, enabled>>
        /\ loaded' = file'["unit"]
        /\ service' = (IF enabled THEN Started(file'["unit"]) ELSE Nil)
        /\ caddy' = (IF Acceptable' THEN Sites' ELSE Nil)
    BY <1>7 DEF Reboot
  <2>2. ASSUME ~tainted
        PROVE  file' = file
    <3>1. PICK torn \in SUBSET Running : file' = CutShort(Running, torn, file)
      BY <1>7 DEF Reboot
    <3> QED
      BY <2>2, <3>1, NothingCut
  <2>3. ~tainted => Acceptable' = Acceptable /\ Sites' = Sites
    BY <2>1, <2>2 DEF Acceptable, SitesDistinct, Snippets, Served, Sites
  <2>4. Undamaged'
    BY <1>1, <2>1, <2>2 DEF Hosts, Undamaged
  <2>5. Restartable'
    BY <1>1, <2>1, <2>2 DEF Hosts, Restartable
  <2>6. ServiceKept'
    BY <1>3, <2>1, <2>2 DEF ServiceKept
  <2>7. ASSUME settled # Nil
        PROVE  /\ file' = file /\ service' = service /\ Acceptable'
               /\ Site(settled) \in caddy' /\ loaded' = file'["unit"]
    BY <1>4, <2>1, <2>2, <2>3, <2>7
  <2>8. Settled'
    BY <1>1, <2>1, <2>7 DEF Hosts, Settled
  <2>9. Converged'
    BY <1>1, <2>1, <2>7 DEF Hosts, Converged, Site
  <2> QED
    BY <2>4, <2>5, <2>6, <2>8, <2>9 DEF Hosts
<1> QED
  BY <1>5, <1>6, <1>7

\* Every action keeps the host in order
LEMMA HostsNext ==
  ASSUME TypeOK, Inv, Next
  PROVE  Hosts'
<1>1. Hosts
  BY DEF Inv, Hosts
<1>2. ASSUME NEW p \in Runs, NEW pl \in Plans, Start(p, pl)
      PROVE  Hosts'
  <2>1. /\ UNCHANGED <<file, imports, identity, loaded, enabled, service, caddy, installed>>
        /\ settled' = Nil /\ (tainted => tainted')
    BY <1>2 DEF Start, files, services
  <2> QED
    BY <1>1, <2>1 DEF Hosts, Undamaged, Restartable, Settled, Converged, ServiceKept
<1>3. ASSUME NEW p \in Runs,
             Answer(p) \/ LoseConnection(p) \/ Cleanup(p) \/ Interrupt(p)
      PROVE  Hosts'
  <2>1. /\ UNCHANGED <<tainted, settled, installed>>
        /\ UNCHANGED <<file, imports, identity, loaded, enabled, service, caddy>>
    BY <1>3 DEF Answer, LoseConnection, Cleanup, Interrupt, files, services, history
  <2> QED
    BY <1>1, <2>1, HostsFrame
<1> QED
  BY <1>2, <1>3, HostsOfFiles, HostsOfCommands, HostsOfIsActive, HostsOfFaults
  DEF Next, ScriptStep

-----------------------------------------------------------------------------
(***************************************************************************)
(* The theorems.                                                           *)
(***************************************************************************)
LEMMA InitInv == Init => TypeOK /\ Inv
<1> SUFFICES ASSUME Init
             PROVE  TypeOK /\ Inv
  OBVIOUS
<1>1. pc = [p \in Runs |-> 0] /\ shared = [p \in Runs |-> FALSE]
  BY DEF Init
<1>2. Typed(file) /\ Typed(new)
  BY DEF Init, Typed, Contents
<1>3. RunsTyped
  BY DEF Init, RunsTyped
<1>4. ServicesTyped /\ HistoryTyped
  <2>1. ServicesTyped
    BY DEF Init, ServicesTyped, Contents
  <2>2. shared \in [Runs -> BOOLEAN]
    BY <1>1, Zenon
  <2>3. tainted \in BOOLEAN /\ installed \in BOOLEAN
    BY Zenon DEF Init
  <2>4. settled = Nil /\ troubles \in 0 .. MaxTroubles
    BY BoundAssumption DEF Init
  <2> QED
    BY <2>1, <2>2, <2>3, <2>4 DEF HistoryTyped
<1>5. imports = 0 /\ Cardinality(Runs) \in Nat /\ identity = FALSE
  BY RunsAssumption, FS_CardinalityType DEF Init
<1>6. TypeOK
  <2>1. imports \in 0 .. Cardinality(Runs)
    BY <1>5
  <2>2. identity \in BOOLEAN
    BY Zenon DEF Init
  <2> QED
    BY <1>2, <1>3, <1>4, <2>1, <2>2, TypeParts
<1>7. Running = {} /\ \A p \in Runs : ~Alone(p)
  BY <1>1 DEF Running, Alone
<1>8. \A f \in Paths : file[f] = Missing /\ new[f] = Missing
  BY DEF Init
<1>9. Writers /\ Undamaged
  BY <1>5, <1>8, PathFacts, RunsAssumption DEF Writers, Undamaged, Missing
<1>10. settled = Nil /\ installed = FALSE
  BY DEF Init
<1>11. Solitary /\ Equipped /\ Progressing
  BY <1>7, <1>10 DEF Solitary, Equipped, Progressing
<1>12. Restartable /\ Settled /\ ImportsCounted /\ Converged /\ ServiceKept
  BY <1>5, <1>10 DEF Restartable, Settled, ImportsCounted, Converged, ServiceKept
<1> QED
  BY <1>6, <1>9, <1>11, <1>12 DEF Inv

LEMMA InvNext == TypeOK /\ Inv /\ [Next]_vars => TypeOK' /\ Inv'
<1> SUFFICES ASSUME TypeOK, Inv, [Next]_vars
             PROVE  TypeOK' /\ Inv'
  OBVIOUS
<1>1. CASE Next
  <2>1. Solitary /\ Equipped /\ Writers /\ Progressing /\ ImportsCounted
    BY DEF Inv
  <2>2. RunsTyped' /\ Typed(file)' /\ Typed(new)' /\ HistoryTyped'
    BY <1>1, <2>1, RunsTypedNext, FilesTypedNext, HistoryTypedNext
  <2>3. ServicesTyped'
    BY <1>1, <2>2, ServicesTypedNext
  <2>4. identity' \in BOOLEAN
    <3>1. identity \in BOOLEAN
      BY TypeParts
    <3>2. identity' = identity \/ \E p \in Runs : User(p)
      BY <1>1
      DEF Next, ScriptStep, Start, Answer, LoseConnection, Cleanup, Interrupt, Check, Open,
          Write, Move, Grep, AppendImport, DaemonReload, Enable, RestartService, Validate,
          ReloadCaddy, IsActive, Fault, ServiceDies, Reboot, files
    <3>3. \A p \in Runs : User(p) => identity' = TRUE
      BY DEF User
    <3> QED
      BY <3>1, <3>2, <3>3
  <2>5. ImportsCounted' /\ imports' \in 0 .. Cardinality(Runs)
    BY <1>1, <2>1, ImportsCountedNext
  <2>6. /\ RunsTyped' /\ Typed(file)' /\ Typed(new)' /\ ServicesTyped' /\ HistoryTyped'
        /\ identity' \in BOOLEAN /\ imports' \in 0 .. Cardinality(Runs)
        => TypeOK'
    <3>1. Len(Script) = 22
      BY DEF Script
    <3>2. (\A content \in {file', new'} : Typed(content)) <=> Typed(file)' /\ Typed(new)'
      BY DEF Typed
    <3> QED
      BY <3>1, <3>2 DEF TypeOK, RunsTyped, Typed, ServicesTyped, HistoryTyped
  <2>7. TypeOK'
    BY <2>2, <2>3, <2>4, <2>5, <2>6
  <2>8. Solitary' /\ Equipped' /\ Writers' /\ Progressing'
    BY <1>1, <2>1, SolitaryNext, EquippedNext, WritersNext, ProgressingNext
  <2>9. Hosts'
    BY <1>1, HostsNext
  <2> QED
    BY <2>5, <2>7, <2>8, <2>9 DEF Inv, Hosts
<1>2. CASE UNCHANGED vars
  <2>1. TypeOK'
    BY <1>2
    DEF TypeOK, vars, runVars, files, services, history
  <2>2. /\ UNCHANGED <<tainted, settled, installed, shared, pc, plan, local, staged, new>>
        /\ UNCHANGED <<file, imports, identity, loaded, enabled, service, caddy>>
    BY <1>2 DEF vars, runVars, files, services, history
  <2>3. Hosts'
    BY <2>2, HostsFrame DEF Inv, Hosts
  <2>4. Solitary' /\ Equipped' /\ Writers' /\ ImportsCounted'
    BY <2>2 DEF Inv, Solitary, Equipped, Writers, ImportsCounted, Alone, Running
  <2>5. Progressing'
    <3>1. \A p \in Runs : Alone(p)' <=> Alone(p)
      BY <2>2 DEF Alone
    <3>2. ASSUME NEW p \in Runs, Progress(p)
          PROVE  Progress(p)'
      BY <2>2, <3>2, ProgressFrame
    <3> QED
      BY <3>1, <3>2 DEF Inv, Progressing
  <2> QED
    BY <2>1, <2>3, <2>4, <2>5 DEF Inv, Hosts
<1> QED
  BY <1>1, <1>2

LEMMA InvAlways == Spec => [](TypeOK /\ Inv)
BY InitInv, InvNext, PTL DEF Spec

\* The inductive invariant: what scripts that nobody disturbs have achieved at
\* each of their commands, and what the history says of the host.
THEOREM Invariance == Spec => []Inv
BY InvAlways, PTL

\* remote-init, its script and the host keep their types; scripts append no more
\* imports than there are runs.
THEOREM TypeCorrect == Spec => []TypeOK
BY InvAlways, PTL

\* A script that completes and that no other overlapped has made the host what
\* its plan says, however many scripts failed or overlapped before it.
THEOREM ConvergedSafe == Spec => []Converged
<1>1. Inv => Converged
  BY DEF Inv
<1> QED
  BY <1>1, InvAlways, PTL

\* Without an overlap no binary and no unit is ever torn, and the import is there
\* once.
THEOREM NothingTornSafe == Spec => []NothingTorn
<1>1. Inv => NothingTorn
  BY PathFacts DEF Inv, Undamaged, NothingTorn
<1> QED
  BY <1>1, InvAlways, PTL

\* Without an overlap an installed host always has its server.
THEOREM ServiceSafe == Spec => []ServiceKept
<1>1. Inv => ServiceKept
  BY DEF Inv
<1> QED
  BY <1>1, InvAlways, PTL

\* The four cases in which a script that runs alone refuses the host's state
LEMMA RefusalsNamed ==
  ASSUME TypeOK, Inv, Next, NEW p \in Runs,
         exit'[p] = "refused", exit[p] # "refused", ~shared[p]
  PROVE  BinariesGone(p) \/ LeftByOverlap(p) \/ SiteTaken(p) \/ CaddyDown(p)
<1>1. exit \in [Runs -> {"none", "complete", "refused", "failed"}]
  BY TypeParts DEF RunsTyped
<1>2. ScriptStep(p) /\ Refuse(p)
  <2>1. ASSUME NEW q \in Runs, NEW how, Leave(q, how)
        PROVE  q = p /\ how = "refused"
    BY <1>1, <2>1 DEF Leave
  <2>2. ASSUME NEW q \in Runs, Advance(q)
        PROVE  FALSE
    BY <2>2 DEF Advance
  <2>3. ASSUME NEW q \in Runs, ScriptStep(q)
        PROVE  q = p /\ Refuse(q)
    <3>1. ~Grep(q)
      BY DEF Grep
    <3>2. \/ Advance(q) \/ Leave(q, "complete") \/ Leave(q, "refused")
      BY <2>3, <3>1
      DEF ScriptStep, Check, User, Open, Write, Move, AppendImport, DaemonReload, Enable,
          RestartService, Validate, ReloadCaddy, IsActive, Refuse
    <3> QED
      BY <2>1, <2>2, <3>2 DEF Refuse
  <2>4. ASSUME NEW q \in Runs,
               \/ \E pl \in Plans : Start(q, pl)
               \/ Answer(q) \/ LoseConnection(q) \/ Cleanup(q) \/ Interrupt(q) \/ Fault(q)
        PROVE  FALSE
    BY <1>1, <2>4 DEF Start, Answer, LoseConnection, Cleanup, Interrupt, Fault
  <2>5. ~ServiceDies /\ ~Reboot
    BY <1>1 DEF ServiceDies, Reboot, runVars
  <2> QED
    BY <2>3, <2>4, <2>5 DEF Next
<1>3. pc[p] # 0
  BY <1>2, ScriptFrame
<1>4. /\ Alone(p) /\ Progress(p) /\ plan[p] \in Plans /\ Unwritten(p)
      /\ local[p] = "apply" => staged[p]
  <2>1. Alone(p)
    BY <1>3 DEF Alone
  <2> QED
    BY <1>3, <2>1, AloneUnwritten DEF Inv, Progressing, Equipped, Running
<1>5. ASSUME Validate(p) \/ ReloadCaddy(p), Rejectable
      PROVE  LeftByOverlap(p) \/ SiteTaken(p)
  <2>1. pc[p] \in {20, 21} /\ (At(p, "validate") \/ At(p, "reload"))
    BY <1>5, Positions DEF Validate, ReloadCaddy
  <2>2. ~Acceptable
    BY <1>4, <1>5, <2>1, PathFacts DEF Rejectable, Unwritten, Snippets
  <2>3. CASE imports > 1
    <3>1. imports \in Nat
      BY TypeParts, RunsAssumption, FS_CardinalityType
    <3>2. tainted
      BY <2>3, <3>1 DEF Inv, Undamaged
    <3> QED
      BY <2>1, <2>3, <3>2 DEF LeftByOverlap
  <2>4. CASE \E m, n \in Served : file[m].text.site = file[n].text.site /\ m # n
    BY <2>1, <2>4 DEF SiteTaken
  <2>5. ASSUME NEW n \in Snippets, file[n].state = "cut"
        PROVE  LeftByOverlap(p)
    <3>1. n \in Names
      BY <2>5 DEF Snippets
    <3>2. tainted
      BY <2>5, <3>1 DEF Inv, Undamaged
    <3>3. file[plan[p].name].state = "whole"
      BY <1>4, <2>1 DEF Progress, Installs, Whole
    <3>4. n # plan[p].name
      BY <2>5, <3>3
    <3> QED
      BY <2>1, <2>5, <3>1, <3>2, <3>4 DEF LeftByOverlap
  <2> QED
    BY <2>2, <2>3, <2>4, <2>5 DEF Acceptable, SitesDistinct
<1>6. ~Advance(p)
  BY <1>2, <1>1 DEF Advance, Refuse, Leave
<1>7. CASE Check(p)
  BY <1>4, <1>6, <1>7 DEF Check, BinariesGone
<1>8. CASE Open(p)
  BY <1>4, <1>6, <1>8 DEF Open, BinariesGone
<1>9. CASE Move(p)
  <2>1. pc[p] \in {7, 8, 11, 14}
    BY <1>9, Positions DEF Move
  <2>2. /\ pc[p] = 7 => new["server"] = Whole(Text(plan[p], "server"))
        /\ pc[p] = 8 => new["contextq"] = Whole(Text(plan[p], "contextq"))
        /\ pc[p] = 11 => new["unit"] = Whole(Text(plan[p], "unit"))
        /\ pc[p] = 14 => new[plan[p].name] = Whole(Text(plan[p], plan[p].name))
    BY <1>4 DEF Progress, Installs
  <2>3. new[Path(p)].state = "whole"
    BY <1>4, <2>1, <2>2, PathTypes DEF Whole
  <2>4. new[Path(p)] # Missing
    BY <2>3 DEF Missing
  <2> QED
    BY <1>6, <1>9, <2>4 DEF Move
<1>10. CASE Validate(p) \/ ReloadCaddy(p)
  BY <1>5, <1>6, <1>10 DEF Validate, ReloadCaddy, CaddyDown
<1>11. CASE IsActive(p)
  <2>1. service = Serving(plan[p])
    BY <1>4, <1>11, Positions DEF IsActive, Progress
  <2>2. service # Nil
    BY <1>4, <2>1, PlanFacts, NilAssumption
  <2> QED
    BY <1>1, <1>2, <1>11, <2>2 DEF IsActive, Refuse, Leave
<1>12. CASE Write(p) \/ User(p) \/ Grep(p) \/ AppendImport(p) \/ DaemonReload(p)
            \/ Enable(p) \/ RestartService(p)
  <2>1. ~Grep(p)
    BY <1>2, <1>1 DEF Grep, Refuse, Leave
  <2> QED
    BY <1>6, <1>12, <2>1
    DEF Write, User, AppendImport, DaemonReload, Enable, RestartService
<1> QED
  BY <1>2, <1>7, <1>8, <1>9, <1>10, <1>11, <1>12 DEF ScriptStep

\* What earlier scripts left behind makes no later one fail that no other overlaps,
\* but in the four cases that RerunSucceeds names: its binaries are gone with its
\* command, an overlap left a second import or part of another target's snippet,
\* another target has its site, or Caddy is down.
THEOREM RerunSafe == Spec => RerunSucceeds
<1>1. TypeOK /\ Inv /\ [Next]_vars =>
        [\A p \in Runs :
           exit'[p] = "refused" /\ exit[p] # "refused" /\ ~shared[p] =>
             BinariesGone(p) \/ LeftByOverlap(p) \/ SiteTaken(p) \/ CaddyDown(p)]_vars
  BY RefusalsNamed
<1> QED
  BY <1>1, InvAlways, PTL DEF Spec, RerunSucceeds
=============================================================================
