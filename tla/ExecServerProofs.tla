-------------------------- MODULE ExecServerProofs --------------------------
(***************************************************************************)
(* The safety properties of the HTTP server, for any number of requests    *)
(* and keys, any capacity of the semaphore and any error codes, and that   *)
(* it implements CommandService.                                           *)
(***************************************************************************)
EXTENDS ExecServerInv, FiniteSetTheorems, TLAPS

USE RequestsAssumption, MaxConcurrentAssumption, CodesAssumption

-----------------------------------------------------------------------------
(* The key store. *)

\* A step of the store keeps what the server relies on, and no revocation is
\* ever taken back.
LEMMA RegistryStep ==
    ASSUME Registry, Store!Next
    PROVE  /\ Registry'
           /\ \A n \in Namespaces : revoked[n] \subseteq revoked'[n]
<1> USE DEF Registry
<1>1. CASE \E n \in Namespaces, k \in Keys : Store!Add(n, k)
  BY <1>1 DEF Store!Add
<1>2. CASE \E n \in Namespaces : \E k \in registry[n] : Store!Remove(n, k)
  <2> PICK n \in Namespaces : \E k \in registry[n] : Store!Remove(n, k)
    BY <1>2
  <2> PICK k \in registry[n] : Store!Remove(n, k)
    OBVIOUS
  <2> DEFINE gone == {j \in registry[n] : j.id = k.id}
  <2>1. /\ registry' = [registry EXCEPT ![n] = @ \ gone]
        /\ granted' = [granted EXCEPT ![n] = @ \ gone]
        /\ removed' = [removed EXCEPT ![n] = @ \cup gone]
        /\ revoked' = revoked
    BY DEF Store!Remove
  <2>2. gone \subseteq registry[n]
    OBVIOUS
  <2> HIDE DEF gone
  <2> QED
    BY <2>1, <2>2
<1>3. CASE \E n \in Namespaces : \E k \in registry[n] : Store!Grant(n, k)
  BY <1>3 DEF Store!Grant
<1>4. CASE \E n \in Namespaces : \E keys \in SUBSET removed[n] : Store!Retire(n, keys)
  BY <1>4 DEF Store!Retire
<1>5. CASE Store!PowerLoss
  <2>1. /\ registry' \in [Namespaces -> SUBSET UNION {registry[n] \cup removed[n] : n \in Namespaces}]
        /\ granted' \in [Namespaces -> SUBSET UNION {granted[n] : n \in Namespaces}]
        /\ removed' = revoked /\ revoked' = revoked
    BY <1>5 DEF Store!PowerLoss
  <2>2. \A n \in Namespaces :
          \/ granted'[n] = {} /\ registry'[n] = {}
          \/ /\ granted'[n] = granted[n]
             /\ granted[n] \subseteq registry'[n]
             /\ registry'[n] \subseteq (registry[n] \cup removed[n]) \ revoked[n]
    BY <1>5 DEF Store!PowerLoss
  <2>3. registry' \in [Namespaces -> SUBSET Keys]
    <3>1. UNION {registry[n] \cup removed[n] : n \in Namespaces} \subseteq Keys
      OBVIOUS
    <3> QED
      BY <2>1, <3>1
  <2>4. granted' \in [Namespaces -> SUBSET Keys]
    <3>1. UNION {granted[n] : n \in Namespaces} \subseteq Keys
      OBVIOUS
    <3> QED
      BY <2>1, <3>1
  <2> QED
    BY <2>1, <2>2, <2>3, <2>4
<1> QED
  BY <1>1, <1>2, <1>3, <1>4, <1>5 DEF Store!Next

-----------------------------------------------------------------------------
(* Slots and handlers. *)

Holders == {r \in Requests : phase[r] \in Holding}

\* A handler that holds a slot is among those counted.
LEMMA HolderCounted ==
    ASSUME TypeOK, SlotsCounted, Up, NEW r \in Requests, phase[r] \in Holding
    PROVE  slots >= 1
<1>1. IsFiniteSet(Holders) /\ r \in Holders
  BY FS_Subset DEF Holders
<1>2. Cardinality(Holders) \in Nat /\ Cardinality(Holders) # 0
  BY <1>1, FS_CardinalityType, FS_EmptySet
<1> QED
  BY <1>2 DEF SlotsCounted, Holders

LEMMA TypeStep == TypeOK /\ Inv /\ [Next]_vars => TypeOK'
<1> SUFFICES ASSUME TypeOK, Inv, [Next]_vars PROVE TypeOK'
  OBVIOUS
<1> USE DEF TypeOK
<1>1. CASE UNCHANGED vars
  BY <1>1 DEF vars, keyVars
<1>2. ASSUME NEW r \in Requests, NEW c \in Calls, Arrive(r, c) PROVE TypeOK'
  BY <1>2 DEF Arrive, Advance, keyVars, command, Phases, InFlight
<1>3. ASSUME NEW r \in Requests, Handler(r) PROVE TypeOK'
  <2>1. \A code \in Statuses \cup {0} : Up /\ Reply(r, code) =>
          /\ phase' \in [Requests -> Phases]
          /\ status' \in [Requests -> Statuses \cup {0}]
          /\ slots' \in 0 .. MaxConcurrent
    BY HolderCounted DEF Reply, Phases, Inv
  <2>2. \A to \in Phases : Advance(r, to) =>
          phase' \in [Requests -> Phases] /\ status' \in [Requests -> Statuses \cup {0}]
    BY DEF Advance
  <2>3. Up /\ {"body", "queue", "run", "wait", "finish", "write"} \subseteq Phases
        /\ {200, 400, 401, 404, 409, 502, 503, 504} \subseteq Statuses
    BY <1>3 DEF Handler, Phases, InFlight, Timed, Holding, Statuses
  <2>4. CASE Authenticate(r)
    BY <2>1, <2>2, <2>3, <2>4 DEF Authenticate, keyVars, input, command
  <2>5. CASE ReadBody(r)
    BY <2>1, <2>2, <2>3, <2>5 DEF ReadBody, keyVars, input, command
  <2>6. CASE Acquire(r)
    BY <2>2, <2>3, <2>6 DEF Acquire, keyVars, input, command
  <2>7. CASE Busy(r)
    BY <2>1, <2>3, <2>7 DEF Busy, keyVars, input, command
  <2>8. CASE Start(r)
    BY <2>2, <2>3, <2>8 DEF Start, keyVars, input
  <2>9. CASE Reap(r)
    BY <2>2, <2>3, <2>9 DEF Reap, keyVars, input, command
  <2>10. CASE Finish(r)
    <3>1. \/ Advance(r, "write") /\ UNCHANGED slots
          \/ \E code \in Statuses \cup {0} : Reply(r, code)
      BY <2>3, <2>10 DEF Finish, CommandStatus, ErrorStatus
    <3> QED
      BY <2>1, <2>2, <2>3, <2>10, <3>1 DEF Finish, keyVars, input, command
  <2>11. CASE WriteFails(r)
    BY <2>1, <2>3, <2>11 DEF WriteFails, keyVars, input, command
  <2> QED
    BY <1>3, <2>4, <2>5, <2>6, <2>7, <2>8, <2>9, <2>10, <2>11 DEF Handler
<1>4. ASSUME NEW r \in Requests, Kill(r) PROVE TypeOK'
  <2> PICK big \in BOOLEAN :
         outcome' = [outcome EXCEPT ![r] = [code |-> "signal", json |-> FALSE, big |-> big]]
    BY <1>4 DEF Kill
  <2>1. [code |-> "signal", json |-> FALSE, big |-> big] \in Outcomes
    BY DEF Outcomes
  <2> QED
    BY <1>4, <2>1 DEF Kill, keyVars, input
<1>5. ASSUME NEW r \in Requests, Deadline(r) \/ Disconnect(r) PROVE TypeOK'
  BY <1>5 DEF Deadline, Disconnect, keyVars, input, command
<1>6. ASSUME NEW r \in Requests, TakeEffect(r) \/ KillGroup(r) PROVE TypeOK'
  BY <1>6 DEF TakeEffect, KillGroup, keyVars, input
<1>7. ASSUME NEW r \in Requests, NEW out \in Outcomes, Exit(r, out) PROVE TypeOK'
  BY <1>7 DEF Exit, keyVars, input
<1>8. CASE Terminate \/ Drained \/ ChangeKeys
  BY <1>8 DEF Terminate, Drained, ChangeKeys, keyVars, input, command
<1>9. CASE ShutdownTimeout \/ Abort
  BY <1>9 DEF ShutdownTimeout, Abort, Die, keyVars, input, command, Phases
<1>10. CASE Restart
  BY <1>10 DEF Restart, keyVars, input, command
<1>11. ASSUME NEW r \in Requests, Sent(r) PROVE TypeOK'
  <2>1. CommandStatus(outcome[r]) \in Statuses
    BY DEF CommandStatus, ErrorStatus, Statuses
  <2>2. slots' \in 0 .. MaxConcurrent
    BY <1>11, HolderCounted DEF Sent, Reply, Inv
  <2> QED
    BY <1>11, <2>1, <2>2 DEF Sent, Reply, Phases, keyVars, input, command
<1> QED
  BY <1>1, <1>2, <1>3, <1>4, <1>5, <1>6, <1>7, <1>8, <1>9, <1>10, <1>11 DEF Next

-----------------------------------------------------------------------------
(* What a step does to the requests. *)

LEMMA RequestedStep == TypeOK /\ Inv /\ [Next]_vars => Requested'
<1> SUFFICES ASSUME TypeOK, Inv, [Next]_vars PROVE Requested'
  OBVIOUS
<1> USE DEF TypeOK, Inv, Requested
<1>1. CASE UNCHANGED vars
  BY <1>1 DEF vars, keyVars
<1>2. ASSUME NEW r \in Requests, NEW c \in Calls, Arrive(r, c) PROVE Requested'
  <2>1. \A q \in Requests : /\ phase'[q] = IF q = r THEN "auth" ELSE phase[q]
                            /\ call'[q] = IF q = r THEN c ELSE call[q]
    BY <1>2 DEF Arrive, Advance
  <2> DEFINE known == c.key \in revoked[c.ns]
  <2>2. /\ \A q \in Requests \ {r} : late'[q] = late[q]
        /\ late'[r] => known
    <3>1. late' = [late EXCEPT ![r] = known]
      BY <1>2 DEF Arrive
    <3> HIDE DEF known
    <3> QED
      BY <3>1
  <2>3. status' = status /\ revoked' = revoked /\ status[r] = 0
    BY <1>2 DEF Arrive, Advance, keyVars, Commanded
  <2> QED
    BY <2>1, <2>2, <2>3
<1>3. ASSUME NEW r \in Requests, Handler(r) PROVE Requested'
  <2>1. CASE Authenticate(r)
    <3>1. phase[r] = "auth" /\ UNCHANGED <<keyVars, call, late>>
      BY <2>1 DEF Authenticate, input
    <3>2. late[r] => call[r].key \notin registry[call[r].ns]
      BY <3>1 DEF Calls, Registry
    <3>3. \/ ~late[r] /\ Advance(r, "body")
          \/ Reply(r, 401)
      BY <2>1, <3>2 DEF Authenticate
    <3> QED
      BY <3>1, <3>3 DEF Advance, Reply, keyVars
  <2>2. CASE ReadBody(r)
    BY <1>3, <2>2 DEF ReadBody, Reply, Advance, keyVars, input, command
  <2>3. CASE Acquire(r)
    BY <1>3, <2>3 DEF Acquire, Advance, keyVars, input, command
  <2>4. CASE Busy(r)
    BY <1>3, <2>4 DEF Busy, Reply, keyVars, input, command
  <2>5. CASE Start(r)
    BY <1>3, <2>5 DEF Start, Advance, keyVars, input
  <2>6. CASE Reap(r)
    BY <1>3, <2>6 DEF Reap, Advance, keyVars, input, command
  <2>7. CASE Finish(r)
    BY <1>3, <2>7 DEF Finish, Reply, Advance, keyVars, input, command
  <2>8. CASE WriteFails(r)
    BY <1>3, <2>8 DEF WriteFails, Reply, keyVars, input, command
  <2> QED
    BY <1>3, <2>1, <2>2, <2>3, <2>4, <2>5, <2>6, <2>7, <2>8 DEF Handler
<1>4. ASSUME NEW r \in Requests, Kill(r) PROVE Requested'
  BY <1>4 DEF Kill, keyVars, input
<1>5. ASSUME NEW r \in Requests, Deadline(r) \/ Disconnect(r) PROVE Requested'
  BY <1>5 DEF Deadline, Disconnect, keyVars, input, command
<1>6. ASSUME NEW r \in Requests, TakeEffect(r) PROVE Requested'
  BY <1>6 DEF TakeEffect, keyVars, input
<1>7. ASSUME NEW r \in Requests, NEW out \in Outcomes, Exit(r, out) PROVE Requested'
  BY <1>7 DEF Exit, keyVars, input
<1>8. ASSUME NEW r \in Requests, KillGroup(r) PROVE Requested'
  BY <1>8 DEF KillGroup, keyVars, input
<1>9. CASE Terminate
  BY <1>9 DEF Terminate, keyVars, input, command
<1>10. CASE Drained
  BY <1>10 DEF Drained, keyVars, input, command
<1>11. CASE ShutdownTimeout \/ Abort
  BY <1>11 DEF ShutdownTimeout, Abort, Die, keyVars, input, command, InFlight, Timed, Holding
<1>12. CASE Restart
  BY <1>12 DEF Restart, keyVars, input, command
<1>13. CASE ChangeKeys
  BY <1>13, RegistryStep DEF ChangeKeys, input, command, Calls, Registry
<1>14. ASSUME NEW r \in Requests, Sent(r) PROVE Requested'
  BY <1>14 DEF Sent, Reply, keyVars, input, command
<1> QED
  BY <1>1, <1>2, <1>3, <1>4, <1>5, <1>6, <1>7, <1>8, <1>9, <1>10,
     <1>11, <1>12, <1>13, <1>14 DEF Next

LEMMA CommandedStep == TypeOK /\ Inv /\ [Next]_vars => Commanded'
<1> SUFFICES ASSUME TypeOK, Inv, [Next]_vars PROVE Commanded'
  OBVIOUS
<1> USE DEF TypeOK, Inv, Commanded, Requested
<1>1. CASE UNCHANGED vars
  BY <1>1 DEF vars, keyVars, Handler, Registry
<1>2. ASSUME NEW r \in Requests, NEW c \in Calls, Arrive(r, c) PROVE Commanded'
  BY <1>2 DEF Arrive, Advance, keyVars, command, Handler, Registry
<1>3. ASSUME NEW r \in Requests, Handler(r) PROVE Commanded'
  <2>1. CASE Authenticate(r)
    BY <1>3, <2>1 DEF Authenticate, Reply, Advance, keyVars, input, command, Handler, Registry
  <2>2. CASE ReadBody(r)
    BY <1>3, <2>2 DEF ReadBody, Reply, Advance, keyVars, input, command, Handler, Registry
  <2>3. CASE Acquire(r)
    BY <1>3, <2>3 DEF Acquire, Advance, keyVars, input, command, Handler, Registry
  <2>4. CASE Busy(r)
    BY <1>3, <2>4 DEF Busy, Reply, keyVars, input, command, Handler, Registry
  <2>5. CASE Start(r)
    BY <1>3, <2>5 DEF Start, Advance, keyVars, input, Handler, Registry
  <2>6. CASE Reap(r)
    BY <1>3, <2>6 DEF Reap, Advance, keyVars, input, command, Handler, Registry
  <2>7. CASE Finish(r)
    <3>1. phase[r] = "finish" /\ UNCHANGED <<command, ctx, late>>
      BY <2>7 DEF Finish, input
    <3>2. CASE Advance(r, "write") /\ Relayed(r)
      BY <3>1, <3>2 DEF Advance, Relayed, command
    <3>3. CASE \E code : Reply(r, code)
      BY <3>1, <3>3 DEF Reply, command
    <3> QED
      BY <2>7, <3>2, <3>3 DEF Finish
  <2>8. CASE WriteFails(r)
    BY <1>3, <2>8 DEF WriteFails, Reply, keyVars, input, command, Handler, Registry
  <2> QED
    BY <1>3, <2>1, <2>2, <2>3, <2>4, <2>5, <2>6, <2>7, <2>8 DEF Handler
<1>4. ASSUME NEW r \in Requests, Kill(r) PROVE Commanded'
  <2> PICK big \in BOOLEAN :
         outcome' = [outcome EXCEPT ![r] = [code |-> "signal", json |-> FALSE, big |-> big]]
    BY <1>4 DEF Kill
  <2>1. \A q \in Requests :
          outcome'[q] = IF q = r THEN [code |-> "signal", json |-> FALSE, big |-> big]
                        ELSE outcome[q]
    OBVIOUS
  <2>2. \A q \in Requests : child'[q] = IF q = r THEN "killed" ELSE child[q]
    BY <1>4 DEF Kill
  <2>3. phase[r] = "wait" /\ ~late[r] /\ UNCHANGED <<phase, late, ctx, effect, status>>
    BY <1>4 DEF Kill, input
  <2> QED
    BY <2>1, <2>2, <2>3
<1>5. ASSUME NEW r \in Requests, Deadline(r) \/ Disconnect(r) PROVE Commanded'
  BY <1>5 DEF Deadline, Disconnect, Timed, keyVars, input, command
<1>6. ASSUME NEW r \in Requests, TakeEffect(r) PROVE Commanded'
  BY <1>6 DEF TakeEffect, keyVars, input, Handler, Registry
<1>7. ASSUME NEW r \in Requests, NEW out \in Outcomes, Exit(r, out) PROVE Commanded'
  BY <1>7 DEF Exit, keyVars, input, Handler, Registry
<1>8. ASSUME NEW r \in Requests, KillGroup(r) PROVE Commanded'
  BY <1>8 DEF KillGroup, keyVars, input, Handler, Registry
<1>9. CASE Terminate
  BY <1>9 DEF Terminate, keyVars, input, command, Handler, Registry
<1>10. CASE Drained
  BY <1>10 DEF Drained, keyVars, input, command, Handler, Registry
<1>11. CASE ShutdownTimeout \/ Abort
  BY <1>11 DEF ShutdownTimeout, Abort, Die, keyVars, input, command, InFlight, Timed, Holding
<1>12. CASE Restart
  BY <1>12 DEF Restart, keyVars, input, command, Handler, Registry
<1>13. CASE ChangeKeys
  BY <1>13 DEF ChangeKeys, input, command, Handler, Registry
<1>14. ASSUME NEW r \in Requests, Sent(r) PROVE Commanded'
  BY <1>14 DEF Sent, Reply, keyVars, input, command, Handler, Registry
<1> QED
  BY <1>1, <1>2, <1>3, <1>4, <1>5, <1>6, <1>7, <1>8, <1>9, <1>10,
     <1>11, <1>12, <1>13, <1>14 DEF Next

LEMMA SupervisedStep == TypeOK /\ Inv /\ [Next]_vars => Supervised'
<1> SUFFICES ASSUME TypeOK, Inv, [Next]_vars PROVE Supervised'
  OBVIOUS
<1> USE DEF TypeOK, Inv, Supervised, Commanded
<1>1. CASE UNCHANGED vars
  BY <1>1 DEF vars, keyVars, Handler, Up, InFlight, Timed, Holding
<1>2. ASSUME NEW r \in Requests, NEW c \in Calls, Arrive(r, c) PROVE Supervised'
  BY <1>2 DEF Arrive, Advance, keyVars, command, Handler, Up, InFlight, Timed, Holding
<1>3. ASSUME NEW r \in Requests, Handler(r) PROVE Supervised'
  <2>1. CASE Authenticate(r)
    BY <1>3, <2>1 DEF Authenticate, Reply, Advance, keyVars, input, command, Handler, Up, InFlight, Timed, Holding
  <2>2. CASE ReadBody(r)
    BY <1>3, <2>2 DEF ReadBody, Reply, Advance, keyVars, input, command, Handler, Up, InFlight, Timed, Holding
  <2>3. CASE Acquire(r)
    BY <1>3, <2>3 DEF Acquire, Advance, keyVars, input, command, Handler, Up, InFlight, Timed, Holding
  <2>4. CASE Busy(r)
    BY <1>3, <2>4 DEF Busy, Reply, keyVars, input, command, Handler, Up, InFlight, Timed, Holding
  <2>5. CASE Start(r)
    BY <1>3, <2>5 DEF Start, Advance, keyVars, input, Handler, Up, InFlight, Timed, Holding
  <2>6. CASE Reap(r)
    BY <1>3, <2>6 DEF Reap, Advance, keyVars, input, command, Handler, Up, InFlight, Timed, Holding
  <2>7. CASE Finish(r)
    BY <1>3, <2>7 DEF Finish, Reply, Advance, keyVars, input, command, Handler, Up, InFlight, Timed, Holding
  <2>8. CASE WriteFails(r)
    BY <1>3, <2>8 DEF WriteFails, Reply, keyVars, input, command, Handler, Up, InFlight, Timed, Holding
  <2> QED
    BY <1>3, <2>1, <2>2, <2>3, <2>4, <2>5, <2>6, <2>7, <2>8 DEF Handler
<1>4. ASSUME NEW r \in Requests, Kill(r) PROVE Supervised'
  BY <1>4 DEF Kill, keyVars, input, Handler, Up, InFlight, Timed, Holding
<1>5. ASSUME NEW r \in Requests, Deadline(r) \/ Disconnect(r) PROVE Supervised'
  BY <1>5 DEF Deadline, Disconnect, keyVars, input, command, Handler, Up, InFlight, Timed, Holding
<1>6. ASSUME NEW r \in Requests, TakeEffect(r) PROVE Supervised'
  BY <1>6 DEF TakeEffect, keyVars, input, Handler, Up, InFlight, Timed, Holding
<1>7. ASSUME NEW r \in Requests, NEW out \in Outcomes, Exit(r, out) PROVE Supervised'
  BY <1>7 DEF Exit, keyVars, input, Handler, Up, InFlight, Timed, Holding
<1>8. ASSUME NEW r \in Requests, KillGroup(r) PROVE Supervised'
  BY <1>8 DEF KillGroup, keyVars, input, Handler, Up, InFlight, Timed, Holding
<1>9. CASE Terminate
  BY <1>9 DEF Terminate, keyVars, input, command, Handler, Up, InFlight, Timed, Holding
<1>10. CASE Drained
  BY <1>10 DEF Drained, keyVars, input, command, Handler, Up, InFlight, Timed, Holding
<1>11. CASE ShutdownTimeout \/ Abort
  BY <1>11 DEF ShutdownTimeout, Abort, Die, keyVars, input, command, Handler, Up, InFlight, Timed, Holding
<1>12. CASE Restart
  BY <1>12 DEF Restart, keyVars, input, command, Handler, Up, InFlight, Timed, Holding
<1>13. CASE ChangeKeys
  BY <1>13 DEF ChangeKeys, input, command, Handler, Up, InFlight, Timed, Holding
<1>14. ASSUME NEW r \in Requests, Sent(r) PROVE Supervised'
  BY <1>14 DEF Sent, Reply, keyVars, input, command, Handler, Up, InFlight, Timed, Holding
<1> QED
  BY <1>1, <1>2, <1>3, <1>4, <1>5, <1>6, <1>7, <1>8, <1>9, <1>10,
     <1>11, <1>12, <1>13, <1>14 DEF Next

\* The status of an answer that is passed on agrees with the effect.
LEMMA SentDefinite ==
    ASSUME TypeOK, Inv, NEW r \in Requests, Sent(r)
    PROVE  /\ child[r] # "running"
           /\ CommandStatus(outcome[r]) \in Statuses
           /\ CommandStatus(outcome[r]) = 200 => effect[r]
           /\ CommandStatus(outcome[r]) \in {400, 401, 404, 409, 503} => ~effect[r]
<1>1. child[r] # "running" /\ outcome[r] # Nil /\ outcome[r].json
  BY DEF Sent, Inv, Commanded, Supervised
<1>2. outcome[r].code \in Codes \cup {"ok"}
  BY <1>1 DEF TypeOK, Outcomes
<1> QED
  BY <1>1, <1>2 DEF CommandStatus, ErrorStatus, Statuses, Inv, Commanded

LEMMA DefiniteStep == TypeOK /\ Inv /\ [Next]_vars => DefiniteAnswers'
<1> SUFFICES ASSUME TypeOK, Inv, [Next]_vars PROVE DefiniteAnswers'
  OBVIOUS
<1> USE DEF TypeOK, Inv, DefiniteAnswers, Commanded, Supervised
<1>1. CASE UNCHANGED vars
  BY <1>1 DEF vars, keyVars, Handler, Up, InFlight, Timed, Holding
<1>2. ASSUME NEW r \in Requests, NEW c \in Calls, Arrive(r, c) PROVE DefiniteAnswers'
  BY <1>2 DEF Arrive, Advance, keyVars, command, Handler, Up, InFlight, Timed, Holding
<1>3. ASSUME NEW r \in Requests, Handler(r) PROVE DefiniteAnswers'
  <2>1. CASE Authenticate(r)
    BY <1>3, <2>1 DEF Authenticate, Reply, Advance, keyVars, input, command, Handler, Up, InFlight, Timed, Holding
  <2>2. CASE ReadBody(r)
    BY <1>3, <2>2 DEF ReadBody, Reply, Advance, keyVars, input, command, Handler, Up, InFlight, Timed, Holding
  <2>3. CASE Acquire(r)
    BY <1>3, <2>3 DEF Acquire, Advance, keyVars, input, command, Handler, Up, InFlight, Timed, Holding
  <2>4. CASE Busy(r)
    BY <1>3, <2>4 DEF Busy, Reply, keyVars, input, command, Handler, Up, InFlight, Timed, Holding
  <2>5. CASE Start(r)
    BY <1>3, <2>5 DEF Start, Advance, keyVars, input, Handler, Up, InFlight, Timed, Holding
  <2>6. CASE Reap(r)
    BY <1>3, <2>6 DEF Reap, Advance, keyVars, input, command, Handler, Up, InFlight, Timed, Holding
  <2>7. CASE Finish(r)
    <3>1. phase[r] = "finish" /\ UNCHANGED command
      BY <2>7 DEF Finish
    <3>2. CASE Advance(r, "write")
      BY <3>1, <3>2 DEF Advance, command
    <3>3. CASE \E code \in {0, 502, 504} : Reply(r, code)
      <4>1. child[r] # "running"
        BY <1>3, <3>1 DEF Handler
      <4> QED
        BY <3>1, <3>3, <4>1 DEF Reply, command
    <3> QED
      BY <2>7, <3>2, <3>3 DEF Finish, Relayed, CommandStatus
  <2>8. CASE WriteFails(r)
    BY <1>3, <2>8 DEF WriteFails, Reply, keyVars, input, command, Handler, Up, InFlight, Timed, Holding
  <2> QED
    BY <1>3, <2>1, <2>2, <2>3, <2>4, <2>5, <2>6, <2>7, <2>8 DEF Handler
<1>4. ASSUME NEW r \in Requests, Kill(r) PROVE DefiniteAnswers'
  BY <1>4 DEF Kill, keyVars, input, Handler, Up, InFlight, Timed, Holding
<1>5. ASSUME NEW r \in Requests, Deadline(r) \/ Disconnect(r) PROVE DefiniteAnswers'
  BY <1>5 DEF Deadline, Disconnect, keyVars, input, command, Handler, Up, InFlight, Timed, Holding
<1>6. ASSUME NEW r \in Requests, TakeEffect(r) PROVE DefiniteAnswers'
  BY <1>6 DEF TakeEffect, keyVars, input, Handler, Up, InFlight, Timed, Holding
<1>7. ASSUME NEW r \in Requests, NEW out \in Outcomes, Exit(r, out) PROVE DefiniteAnswers'
  BY <1>7 DEF Exit, keyVars, input, Handler, Up, InFlight, Timed, Holding
<1>8. ASSUME NEW r \in Requests, KillGroup(r) PROVE DefiniteAnswers'
  BY <1>8 DEF KillGroup, keyVars, input, Handler, Up, InFlight, Timed, Holding
<1>9. CASE Terminate
  BY <1>9 DEF Terminate, keyVars, input, command, Handler, Up, InFlight, Timed, Holding
<1>10. CASE Drained
  BY <1>10 DEF Drained, keyVars, input, command, Handler, Up, InFlight, Timed, Holding
<1>11. CASE ShutdownTimeout \/ Abort
  BY <1>11 DEF ShutdownTimeout, Abort, Die, keyVars, input, command, Handler, Up, InFlight, Timed, Holding
<1>12. CASE Restart
  BY <1>12 DEF Restart, keyVars, input, command, Handler, Up, InFlight, Timed, Holding
<1>13. CASE ChangeKeys
  BY <1>13 DEF ChangeKeys, input, command, Handler, Up, InFlight, Timed, Holding
<1>14. ASSUME NEW r \in Requests, Sent(r) PROVE DefiniteAnswers'
  <2>1. \A q \in Requests \ {r} : phase'[q] = phase[q] /\ status'[q] = status[q]
    BY <1>14 DEF Sent, Reply
  <2>2. status'[r] = CommandStatus(outcome[r]) /\ UNCHANGED <<child, effect>>
    BY <1>14 DEF Sent, Reply, command
  <2> HIDE DEF TypeOK
  <2> QED
    BY <1>14, <2>1, <2>2, SentDefinite
<1> QED
  BY <1>1, <1>2, <1>3, <1>4, <1>5, <1>6, <1>7, <1>8, <1>9, <1>10,
     <1>11, <1>12, <1>13, <1>14 DEF Next

LEMMA ExitStep == TypeOK /\ Inv /\ [Next]_vars => GracefulExit'
<1> SUFFICES ASSUME TypeOK, Inv, [Next]_vars PROVE GracefulExit'
  OBVIOUS
<1> USE DEF TypeOK, Inv, GracefulExit, Supervised
<1>1. CASE UNCHANGED vars
  BY <1>1 DEF vars, keyVars, Handler, Up, InFlight, Timed, Holding
<1>2. ASSUME NEW r \in Requests, NEW c \in Calls, Arrive(r, c) PROVE GracefulExit'
  BY <1>2 DEF Arrive, Advance, keyVars, command, Handler, Up, InFlight, Timed, Holding
<1>3. ASSUME NEW r \in Requests, Handler(r) PROVE GracefulExit'
  <2>1. CASE Authenticate(r)
    BY <1>3, <2>1 DEF Authenticate, Reply, Advance, keyVars, input, command, Handler, Up, InFlight, Timed, Holding
  <2>2. CASE ReadBody(r)
    BY <1>3, <2>2 DEF ReadBody, Reply, Advance, keyVars, input, command, Handler, Up, InFlight, Timed, Holding
  <2>3. CASE Acquire(r)
    BY <1>3, <2>3 DEF Acquire, Advance, keyVars, input, command, Handler, Up, InFlight, Timed, Holding
  <2>4. CASE Busy(r)
    BY <1>3, <2>4 DEF Busy, Reply, keyVars, input, command, Handler, Up, InFlight, Timed, Holding
  <2>5. CASE Start(r)
    BY <1>3, <2>5 DEF Start, Advance, keyVars, input, Handler, Up, InFlight, Timed, Holding
  <2>6. CASE Reap(r)
    BY <1>3, <2>6 DEF Reap, Advance, keyVars, input, command, Handler, Up, InFlight, Timed, Holding
  <2>7. CASE Finish(r)
    BY <1>3, <2>7 DEF Finish, Reply, Advance, keyVars, input, command, Handler, Up, InFlight, Timed, Holding
  <2>8. CASE WriteFails(r)
    BY <1>3, <2>8 DEF WriteFails, Reply, keyVars, input, command, Handler, Up, InFlight, Timed, Holding
  <2> QED
    BY <1>3, <2>1, <2>2, <2>3, <2>4, <2>5, <2>6, <2>7, <2>8 DEF Handler
<1>4. ASSUME NEW r \in Requests, Kill(r) PROVE GracefulExit'
  BY <1>4 DEF Kill, keyVars, input, Handler, Up, InFlight, Timed, Holding
<1>5. ASSUME NEW r \in Requests, Deadline(r) \/ Disconnect(r) PROVE GracefulExit'
  BY <1>5 DEF Deadline, Disconnect, keyVars, input, command, Handler, Up, InFlight, Timed, Holding
<1>6. ASSUME NEW r \in Requests, TakeEffect(r) PROVE GracefulExit'
  BY <1>6 DEF TakeEffect, keyVars, input, Handler, Up, InFlight, Timed, Holding
<1>7. ASSUME NEW r \in Requests, NEW out \in Outcomes, Exit(r, out) PROVE GracefulExit'
  BY <1>7 DEF Exit, keyVars, input, Handler, Up, InFlight, Timed, Holding
<1>8. ASSUME NEW r \in Requests, KillGroup(r) PROVE GracefulExit'
  BY <1>8 DEF KillGroup, keyVars, input, Handler, Up, InFlight, Timed, Holding
<1>9. CASE Terminate
  BY <1>9 DEF Terminate, keyVars, input, command, Handler, Up, InFlight, Timed, Holding
<1>10. CASE Drained
  BY <1>10 DEF Drained, keyVars, input, command, Handler, Up, InFlight, Timed, Holding
<1>11. CASE ShutdownTimeout \/ Abort
  BY <1>11 DEF ShutdownTimeout, Abort, Die, keyVars, input, command, Handler, Up, InFlight, Timed, Holding
<1>12. CASE Restart
  BY <1>12 DEF Restart, keyVars, input, command, Handler, Up, InFlight, Timed, Holding
<1>13. CASE ChangeKeys
  BY <1>13 DEF ChangeKeys, input, command, Handler, Up, InFlight, Timed, Holding
<1>14. ASSUME NEW r \in Requests, Sent(r) PROVE GracefulExit'
  BY <1>14 DEF Sent, Reply, keyVars, input, command, Handler, Up, InFlight, Timed, Holding
<1> QED
  BY <1>1, <1>2, <1>3, <1>4, <1>5, <1>6, <1>7, <1>8, <1>9, <1>10,
     <1>11, <1>12, <1>13, <1>14 DEF Next

-----------------------------------------------------------------------------
(* Slots and commands are counted. *)

\* What a move of one request does to the number of those that hold a slot.
LEMMA HoldersMoved ==
    ASSUME TypeOK, NEW r \in Requests, NEW to \in Phases,
           phase' = [phase EXCEPT ![r] = to]
    PROVE  Cardinality(Holders') =
             IF phase[r] \in Holding /\ to \notin Holding THEN Cardinality(Holders) - 1
             ELSE IF phase[r] \notin Holding /\ to \in Holding THEN Cardinality(Holders) + 1
             ELSE Cardinality(Holders)
<1>1. IsFiniteSet(Holders)
  BY FS_Subset DEF Holders
<1>2. \A q \in Requests : phase'[q] = IF q = r THEN to ELSE phase[q]
  BY DEF TypeOK
<1>3. CASE phase[r] \in Holding /\ to \notin Holding
  <2>1. Holders' = Holders \ {r} /\ r \in Holders
    BY <1>2, <1>3 DEF Holders
  <2> QED
    BY <1>1, <1>3, <2>1, FS_RemoveElement
<1>4. CASE phase[r] \notin Holding /\ to \in Holding
  <2>1. Holders' = Holders \cup {r} /\ r \notin Holders
    BY <1>2, <1>4 DEF Holders
  <2> QED
    BY <1>1, <1>4, <2>1, FS_AddElement
<1>5. CASE phase[r] \in Holding <=> to \in Holding
  <2>1. Holders' = Holders
    BY <1>2, <1>5 DEF Holders
  <2> QED
    BY <1>5, <2>1
<1> QED
  BY <1>3, <1>4, <1>5

LEMMA SlotsStep == TypeOK /\ Inv /\ [Next]_vars => SlotsCounted'
<1> SUFFICES ASSUME TypeOK, Inv, [Next]_vars PROVE SlotsCounted'
  OBVIOUS
<1>1. SlotsCounted <=> (Up => slots = Cardinality(Holders))
  BY DEF SlotsCounted, Holders
<1>2. SlotsCounted' <=> (Up' => slots' = Cardinality(Holders'))
  BY DEF SlotsCounted, Holders
<1>3. SlotsCounted
  BY DEF Inv
<1>4. CASE UNCHANGED <<phase, slots>> /\ (Up' => Up)
  BY <1>1, <1>2, <1>3, <1>4 DEF Holders
<1>5. ASSUME NEW r \in Requests, NEW to \in Phases, phase' = [phase EXCEPT ![r] = to],
             phase[r] \in Holding <=> to \in Holding, UNCHANGED <<slots, server>>
      PROVE  SlotsCounted'
  <2>1. Cardinality(Holders') = Cardinality(Holders)
    BY <1>5, HoldersMoved DEF Inv
  <2> QED
    BY <1>1, <1>2, <1>3, <1>5, <2>1 DEF Up
<1>6. ASSUME NEW r \in Requests, NEW code, Reply(r, code), UNCHANGED server
      PROVE  SlotsCounted'
  <2>1. phase' = [phase EXCEPT ![r] = "done"] /\ "done" \in Phases \ Holding
    BY <1>6 DEF Reply, Phases, Holding
  <2>2. Cardinality(Holders') = IF phase[r] \in Holding THEN Cardinality(Holders) - 1
                                ELSE Cardinality(Holders)
    BY <2>1, HoldersMoved
  <2> QED
    BY <1>1, <1>2, <1>3, <1>6, <2>2 DEF Reply, Up
<1>7. ASSUME NEW r \in Requests, Handler(r) PROVE SlotsCounted'
  <2>1. {"body", "queue", "run", "wait", "finish", "write"} \subseteq Phases
    BY DEF Phases, InFlight, Timed, Holding
  <2>2. CASE Authenticate(r) \/ ReadBody(r)
    BY <1>5, <1>6, <2>1, <2>2 DEF Authenticate, ReadBody, Advance, Holding
  <2>3. CASE Acquire(r)
    <3>1. Cardinality(Holders') = Cardinality(Holders) + 1
      BY <2>1, <2>3, HoldersMoved DEF Acquire, Advance, Holding
    <3> QED
      BY <1>1, <1>2, <1>3, <2>3, <3>1 DEF Acquire, Up
  <2>4. CASE Busy(r) \/ WriteFails(r)
    BY <1>6, <2>4 DEF Busy, WriteFails
  <2>6. CASE Finish(r)
    BY <1>5, <1>6, <2>1, <2>6 DEF Finish, Advance, Holding
  <2>5. CASE Start(r) \/ Reap(r)
    BY <1>5, <2>1, <2>5 DEF Start, Reap, Advance, Holding
  <2> QED
    BY <1>7, <2>2, <2>3, <2>4, <2>5, <2>6 DEF Handler
<1>8. ASSUME NEW r \in Requests, NEW c \in Calls, Arrive(r, c) PROVE SlotsCounted'
  BY <1>5, <1>8 DEF Arrive, Advance, Phases, InFlight, Timed, Holding
<1>9. ASSUME NEW r \in Requests,
             \/ Kill(r) \/ Deadline(r) \/ Disconnect(r) \/ TakeEffect(r) \/ KillGroup(r)
             \/ \E out \in Outcomes : Exit(r, out)
      PROVE  SlotsCounted'
  BY <1>4, <1>9 DEF Kill, Deadline, Disconnect, TakeEffect, KillGroup, Exit, Up
<1>10. CASE Terminate \/ Drained \/ ChangeKeys \/ UNCHANGED vars
  BY <1>4, <1>10 DEF Terminate, Drained, ChangeKeys, vars, Up
<1>11. CASE ShutdownTimeout \/ Abort
  BY <1>2, <1>11 DEF ShutdownTimeout, Abort, Die, Up
<1>12. CASE Restart
  <2>1. Holders' = {}
    BY <1>12 DEF Restart, Inv, Supervised, Holders, InFlight, Timed
  <2> QED
    BY <1>2, <1>12, <2>1, FS_EmptySet DEF Restart
<1>13. ASSUME NEW r \in Requests, Sent(r) PROVE SlotsCounted'
  BY <1>6, <1>13 DEF Sent
<1> QED
  BY <1>7, <1>8, <1>9, <1>10, <1>11, <1>12, <1>13 DEF Next

Running == {r \in Requests : child[r] = "running"}

\* While the process is up, every command has a handler that holds a slot.
LEMMA CommandsHoldSlots ==
    ASSUME TypeOK, Supervised, SlotsCounted, Up
    PROVE  ChildrenBounded
<1>1. Running \subseteq Holders /\ IsFiniteSet(Holders)
  BY FS_Subset DEF Supervised, Running, Holders, Holding
<1>2. /\ Cardinality(Running) \in Nat
      /\ Cardinality(Running) <= Cardinality(Holders)
  BY <1>1, FS_Subset, FS_CardinalityType
<1>3. Cardinality(Holders) = slots /\ slots \in 0 .. MaxConcurrent
  BY DEF SlotsCounted, Holders, TypeOK
<1> QED
  BY <1>2, <1>3 DEF ChildrenBounded, Running

LEMMA ChildrenStep == TypeOK /\ Inv /\ [Next]_vars => ChildrenBounded'
<1> SUFFICES ASSUME TypeOK, Inv, [Next]_vars PROVE ChildrenBounded'
  OBVIOUS
<1>1. CASE Up'
  <2>1. TypeOK' /\ Supervised' /\ SlotsCounted'
    BY TypeStep, SupervisedStep, SlotsStep
  <2> QED
    BY <1>1, <2>1, CommandsHoldSlots, PTL
<1>2. CASE ~Up'
  <2>1. Running' \subseteq Running
    <3>1. ASSUME NEW r \in Requests, Handler(r) PROVE child' = child
      BY <1>2, <3>1 DEF Handler, Authenticate, ReadBody, Acquire, Busy, Start, Reap,
                        Finish, WriteFails, command, Up
    <3>2. ASSUME NEW r \in Requests,
                 \/ (\E c \in Calls : Arrive(r, c)) \/ Sent(r)
                 \/ Kill(r) \/ Deadline(r) \/ Disconnect(r)
                 \/ TakeEffect(r) \/ (\E out \in Outcomes : Exit(r, out))
                 \/ KillGroup(r)
          PROVE  Running' \subseteq Running
      BY <3>2 DEF Arrive, Sent, Kill, Deadline, Disconnect, TakeEffect, Exit, KillGroup,
                  command, Running, TypeOK
    <3>3. \/ Terminate \/ Drained \/ ShutdownTimeout \/ Abort \/ Restart
          \/ ChangeKeys \/ UNCHANGED vars
          => Running' \subseteq Running
      BY DEF Terminate, Drained, ShutdownTimeout, Abort, Die, Restart, ChangeKeys, vars,
             command, Running
    <3> QED
      BY <3>1, <3>2, <3>3 DEF Next, Running
  <2>2. IsFiniteSet(Running)
    BY FS_Subset DEF Running
  <2>3. /\ Cardinality(Running') <= Cardinality(Running)
        /\ Cardinality(Running') \in Nat /\ Cardinality(Running) \in Nat
    BY <2>1, <2>2, FS_Subset, FS_CardinalityType
  <2> QED
    BY <2>3 DEF Inv, ChildrenBounded, Running
<1> QED
  BY <1>1, <1>2

-----------------------------------------------------------------------------
(* The theorems. *)

LEMMA Initial == Init => TypeOK /\ Inv
<1> SUFFICES ASSUME Init PROVE TypeOK /\ Inv
  OBVIOUS
<1> USE DEF Init
<1>1. TypeOK
  BY DEF TypeOK, Phases
<1>2. Registry
  BY DEF Store!Init, Registry
<1>3. Requested /\ Commanded /\ Supervised /\ DefiniteAnswers /\ GracefulExit
  BY DEF Requested, Commanded, Supervised, DefiniteAnswers, GracefulExit, InFlight,
         Timed, Holding
<1>4. SlotsCounted
  <2>1. {r \in Requests : phase[r] \in Holding} = {}
    BY DEF Holding
  <2> QED
    BY <2>1, FS_EmptySet DEF SlotsCounted
<1>5. ChildrenBounded
  <2>1. {r \in Requests : child[r] = "running"} = {}
    OBVIOUS
  <2> QED
    BY <2>1, FS_EmptySet DEF ChildrenBounded
<1> QED
  BY <1>1, <1>2, <1>3, <1>4, <1>5 DEF Inv

LEMMA RegistryKept == Inv /\ [Next]_vars => Registry'
  BY RegistryStep
     DEF Inv, Next, vars, keyVars, ChangeKeys, Arrive, Handler, Authenticate, ReadBody,
         Acquire, Busy, Start, Reap, Finish, Sent, WriteFails, Kill, Deadline, Disconnect,
         TakeEffect, Exit, KillGroup, Terminate, Drained, ShutdownTimeout, Abort, Die,
         Restart, Registry

LEMMA InvStep == TypeOK /\ Inv /\ [Next]_vars => TypeOK' /\ Inv'
  BY TypeStep, RegistryKept, RequestedStep, CommandedStep, SupervisedStep, SlotsStep,
     ChildrenStep, DefiniteStep, ExitStep DEF Inv

LEMMA InvAlways == Spec => [](TypeOK /\ Inv)
  BY Initial, InvStep, PTL DEF Spec

\* In every reachable state the control of the handlers is the one the other
\* theorems rest on.
THEOREM Invariance == Spec => []Inv
  BY InvAlways, PTL

\* The semaphore never holds more than its capacity or fewer than none.
THEOREM TypeCorrect == Spec => []TypeOK
  BY InvAlways, PTL

\* No early return leaks a slot of the semaphore or gives one back twice.
THEOREM SlotsSafe == Spec => []SlotsCounted
<1>1. Inv => SlotsCounted
  BY DEF Inv
<1> QED
  BY <1>1, InvAlways, PTL

\* There are never more commands than slots, restarts included.
THEOREM ChildrenSafe == Spec => []ChildrenBounded
<1>1. Inv => ChildrenBounded
  BY DEF Inv
<1> QED
  BY <1>1, InvAlways, PTL

\* A response that says whether a command took effect is right.
THEOREM AnswersSafe == Spec => []DefiniteAnswers
<1>1. Inv => DefiniteAnswers
  BY DEF Inv
<1> QED
  BY <1>1, InvAlways, PTL

\* A key whose revocation was reported opens nothing to later requests.
THEOREM RevocationSafe == Spec => []RevokedKeysShutOut
<1>1. Inv => RevokedKeysShutOut
  BY DEF Inv, Requested, Commanded, RevokedKeysShutOut
<1> QED
  BY <1>1, InvAlways, PTL

\* The process exits with status 0 only when it owes nobody an answer.
THEOREM ExitSafe == Spec => []GracefulExit
<1>1. Inv => GracefulExit
  BY DEF Inv
<1> QED
  BY <1>1, InvAlways, PTL

-----------------------------------------------------------------------------
(* The server implements CommandService. *)

\* How far a request is, as its clients see it, follows its handler and the life
\* of its command, and a step moves the requests it names only.
LEMMA StagesMove ==
    ASSUME NEW moved \in SUBSET Requests, NEW to,
           \A r \in moved : Stage(r)' = to,
           \A r \in Requests \ moved : Stage(r)' = Stage(r)
    PROVE  Stages' = [r \in Requests |-> IF r \in moved THEN to ELSE Stages[r]]
  BY DEF Stages

LEMMA StageMoves ==
    ASSUME NEW r \in Requests, NEW to, Stage(r)' = to,
           \A q \in Requests \ {r} : phase'[q] = phase[q] /\ child'[q] = child[q]
    PROVE  Stages' = [Stages EXCEPT ![r] = to]
<1>1. \A q \in Requests \ {r} : Stage(q)' = Stage(q)
  BY DEF Stage
<1> QED
  BY <1>1 DEF Stages

LEMMA StagesKept ==
    ASSUME \A r \in Requests : Stage(r)' = Stage(r)
    PROVE  Stages' = Stages
  BY DEF Stages

\* The store of the server is the store of the service.
LEMMA StoreServes == ChangeKeys => Service!ChangeKeys
<1> SUFFICES ASSUME ChangeKeys PROVE Service!ChangeKeys
  OBVIOUS
<1>1. Stages' = Stages
  BY StagesKept DEF ChangeKeys, Stage, command
<1>2. Service!Store!Next
  BY DEF ChangeKeys, Store!Next, Service!Store!Next,
         Store!Add, Service!Store!Add, Store!Remove, Service!Store!Remove,
         Store!Grant, Service!Store!Grant, Store!Retire, Service!Store!Retire,
         Store!PowerLoss, Service!Store!PowerLoss,
         Store!DistinctLabels, Service!Store!DistinctLabels
<1> QED
  BY <1>1, <1>2 DEF ChangeKeys, Service!ChangeKeys, input, command

\* A response goes out for a request that was let in, or refused as such.
LEMMA ReplyAnswers ==
    ASSUME TypeOK, NEW r \in Requests, NEW code \in Statuses, Reply(r, code),
           UNCHANGED <<keyVars, input, command>>,
           phase[r] \in InFlight, child[r] # "running", phase[r] = "auth" => code = 401,
           code = 200 => effect[r],
           code \in {400, 401, 404, 409, 503} => ~effect[r]
    PROVE  \E c \in Service!Done \cup Service!NotDone \cup Service!Uncertain :
              Service!Answer(r, c)
<1>1. /\ status' = [status EXCEPT ![r] = code]
      /\ phase' = [phase EXCEPT ![r] = "done"]
      /\ child' = child
  BY DEF Reply, command
<1>2. Stage(r)' = "settled"
  BY <1>1 DEF Stage, TypeOK, InFlight, Timed, Holding
<1>3. Stages' = [Stages EXCEPT ![r] = "settled"]
  <2>1. \A q \in Requests \ {r} : phase'[q] = phase[q] /\ child'[q] = child[q]
    BY <1>1 DEF TypeOK
  <2> QED
    BY <1>2, <2>1, StageMoves
<1>4. Stages[r] = IF phase[r] = "auth" THEN "presented" ELSE "admitted"
  BY DEF Stages, Stage, InFlight, Timed, Holding
<1>5. Service!Answer(r, code)
  BY <1>1, <1>3, <1>4
     DEF Service!Answer, Service!Done, Service!NotDone, Service!keyVars, keyVars,
         input, command
<1> QED
  BY <1>5 DEF Statuses, Service!Done, Service!NotDone, Service!Uncertain

LEMMA HandlerServes ==
    ASSUME TypeOK, Inv, NEW r \in Requests, Handler(r)
    PROVE  Service!Next \/ UNCHANGED Service!vars
<1> USE DEF TypeOK
<1>1. Up
  BY DEF Handler
<1>2. phase[r] \in InFlight
  BY DEF Handler, Authenticate, ReadBody, Acquire, Busy, Start, Reap, Finish,
         WriteFails, InFlight, Timed, Holding
<1>3. phase[r] # "wait" => child[r] # "running"
  BY <1>1 DEF Inv, Supervised
<1>4. phase[r] \in {"auth", "body", "queue", "run"} => ~effect[r]
  BY DEF Inv, Commanded
<1>5. ASSUME NEW code \in Statuses, Reply(r, code), UNCHANGED <<keyVars, input, command>>,
             phase[r] # "wait", phase[r] = "auth" => code = 401,
             code = 200 => effect[r],
             code \in {400, 401, 404, 409, 503} => ~effect[r]
      PROVE  Service!Next
  BY <1>2, <1>3, <1>5, ReplyAnswers DEF Service!Next
<1>6. ASSUME NEW to, phase[r] # "auth", phase' = [phase EXCEPT ![r] = to], to \in InFlight \ {"auth"},
             UNCHANGED <<keyVars, input, effect, status>>,
             \A q \in Requests \ {r} : child'[q] = child[q]
      PROVE  UNCHANGED Service!vars
  <2>1. Stage(r) = "admitted" /\ Stage(r)' = "admitted"
    BY <1>2, <1>6 DEF Stage, InFlight, Timed, Holding
  <2>2. \A q \in Requests \ {r} : Stage(q)' = Stage(q)
    BY <1>6 DEF Stage
  <2>3. Stages' = Stages
    BY <2>1, <2>2, StagesKept
  <2> QED
    BY <1>6, <2>3 DEF Service!vars, Service!keyVars, keyVars, input
<1>7. CASE Authenticate(r)
  <2>1. CASE Reply(r, 401)
    BY <1>4, <1>5, <1>7, <2>1 DEF Authenticate, Statuses
  <2>2. CASE call[r].key \in registry[call[r].ns] /\ Advance(r, "body")
    <3>1. Stages[r] = "presented"
      BY <1>7 DEF Authenticate, Stages, Stage
    <3>2. Stage(r)' = "admitted"
      BY <2>2 DEF Advance, Stage, InFlight
    <3>3. \A q \in Requests \ {r} : phase'[q] = phase[q] /\ child'[q] = child[q]
      BY <1>7, <2>2 DEF Authenticate, Advance, command
    <3>4. Stages' = [Stages EXCEPT ![r] = "admitted"]
      BY <3>2, <3>3, StageMoves
    <3>5. Service!Admit(r)
      BY <1>7, <2>2, <3>1, <3>4
         DEF Authenticate, Advance, Service!Admit, Service!keyVars, keyVars, input, command
    <3> QED
      BY <3>5 DEF Service!Next
  <2> QED
    BY <1>7, <2>1, <2>2 DEF Authenticate
<1>8. CASE ReadBody(r)
  <2>1. CASE Reply(r, 400)
    BY <1>4, <1>5, <1>8, <2>1 DEF ReadBody, Statuses
  <2>2. CASE Advance(r, "queue")
    BY <1>6, <1>8, <2>2 DEF ReadBody, Advance, InFlight, Timed, command
  <2> QED
    BY <1>8, <2>1, <2>2 DEF ReadBody
<1>9. CASE Acquire(r)
  BY <1>6, <1>9 DEF Acquire, Advance, InFlight, Timed, Holding, command
<1>10. CASE Busy(r)
  BY <1>4, <1>5, <1>10 DEF Busy, Statuses
<1>11. CASE Start(r)
  <2>1. \A q \in Requests \ {r} : child'[q] = child[q]
    BY <1>11 DEF Start
  <2>2. PICK to \in {"wait", "finish"} : Advance(r, to)
    BY <1>11 DEF Start
  <2> QED
    BY <1>6, <1>11, <2>1, <2>2 DEF Start, Advance, InFlight, Timed, Holding
<1>12. CASE Reap(r)
  BY <1>6, <1>12 DEF Reap, Advance, InFlight, Timed, Holding, command
<1>13. ASSUME Reply(r, 0), UNCHANGED <<keyVars, input, ctx, command>>,
              phase[r] \in {"finish", "write"}
       PROVE  Service!Next
  <2>1. phase' = [phase EXCEPT ![r] = "done"] /\ child' = child
    BY <1>13 DEF Reply, command
  <2>2. Stage(r)' = "settled"
    BY <1>3, <1>13, <2>1 DEF Stage, InFlight, Timed, Holding
  <2>3. status' = status
    <3>1. status[r] = 0
      BY <1>13 DEF Inv, Commanded
    <3> QED
      BY <1>13, <3>1 DEF Reply
  <2>4. \A q \in Requests \ {r} : Stage(q)' = Stage(q)
    BY <2>1 DEF Stage
  <2>5. Stages' = [q \in Requests |-> IF q \in {r} THEN "settled" ELSE Stages[q]]
    <3>1. {r} \in SUBSET Requests
      OBVIOUS
    <3>2. \A q \in {r} : Stage(q)' = "settled"
      BY <2>2
    <3>3. \A q \in Requests \ {r} : Stage(q)' = Stage(q)
      BY <2>4
    <3> QED
      BY <3>1, <3>2, <3>3, StagesMove
  <2>6. Stages[r] = "admitted"
    BY <1>13 DEF Stages, Stage, InFlight, Timed, Holding
  <2>7. Service!Lose({r})
    BY <1>13, <2>3, <2>5
       DEF Service!Lose, Service!keyVars, keyVars, input, command
  <2> QED
    BY <2>6, <2>7 DEF Service!Next, Service!Open
<1>14. CASE Finish(r)
  <2>1. CASE Advance(r, "write")
    BY <1>6, <1>14, <2>1 DEF Finish, Advance, InFlight, Holding, command
  <2>2. CASE \E code \in {502, 504} : Reply(r, code)
    BY <1>5, <1>14, <2>2 DEF Finish, Statuses
  <2>3. CASE Reply(r, 0)
    BY <1>13, <1>14, <2>3 DEF Finish
  <2> QED
    BY <1>14, <2>1, <2>2, <2>3 DEF Finish, Relayed, CommandStatus
<1>15. CASE WriteFails(r)
  BY <1>13, <1>15 DEF WriteFails
<1> QED
  BY <1>7, <1>8, <1>9, <1>10, <1>11, <1>12, <1>14, <1>15 DEF Handler

LEMMA SentServes ==
    ASSUME TypeOK, Inv, NEW r \in Requests, Sent(r)
    PROVE  Service!Next
  BY SentDefinite, ReplyAnswers DEF Sent, InFlight, Holding, Service!Next

\* Whatever else happens to a request leaves its place in the service alone,
\* or settles it without an answer.
LEMMA EffectServes ==
    ASSUME TypeOK, Inv, NEW r \in Requests, TakeEffect(r)
    PROVE  Service!Next
<1> USE DEF TypeOK
<1>1. Stages[r] = "admitted"
  <2>1. phase[r] \notin {"absent", "auth"}
    BY DEF TakeEffect, Inv, Commanded
  <2> QED
    BY <2>1 DEF TakeEffect, Stages, Stage
<1>2. Stages' = Stages
  BY StagesKept DEF TakeEffect, Stage
<1>3. Service!Execute(r)
  BY <1>1, <1>2 DEF TakeEffect, Service!Execute, Service!keyVars, keyVars, input
<1> QED
  BY <1>3 DEF Service!Next

LEMMA EndServes ==
    ASSUME TypeOK, Inv, NEW r \in Requests,
           child[r] = "running", \E end \in {"exited", "killed"} : child' = [child EXCEPT ![r] = end],
           UNCHANGED <<keyVars, phase, input, effect, status>>
    PROVE  Service!Next \/ UNCHANGED Service!vars
<1> USE DEF TypeOK
<1>1. \A q \in Requests \ {r} : Stage(q)' = Stage(q)
  BY DEF Stage
<1>2. phase[r] \notin {"absent", "auth"}
  BY DEF Inv, Commanded
<1>3. child'[r] # "running"
  OBVIOUS
<1>4. Stage(r) = "admitted"
  BY <1>2 DEF Stage
<1>5. CASE phase[r] \in InFlight
  <2>1. Stage(r)' = "admitted"
    BY <1>2, <1>5 DEF Stage
  <2>2. Stages' = Stages
    BY <1>1, <1>4, <2>1, StagesKept
  <2> QED
    BY <2>2 DEF Service!vars, Service!keyVars, keyVars, input
<1>6. CASE phase[r] \notin InFlight
  <2>1. Stage(r)' = "settled"
    BY <1>2, <1>3, <1>6 DEF Stage
  <2>2. Stages' = [q \in Requests |-> IF q \in {r} THEN "settled" ELSE Stages[q]]
    <3>1. {r} \in SUBSET Requests
      OBVIOUS
    <3>2. \A q \in {r} : Stage(q)' = "settled"
      BY <2>1
    <3>3. \A q \in Requests \ {r} : Stage(q)' = Stage(q)
      BY <1>1
    <3> QED
      BY <3>1, <3>2, <3>3, StagesMove
  <2>3. Service!Lose({r})
    BY <2>2 DEF Service!Lose, Service!keyVars, keyVars, input
  <2>4. Stages[r] = "admitted"
    BY <1>4 DEF Stages
  <2> QED
    BY <2>3, <2>4 DEF Service!Next, Service!Open
<1> QED
  BY <1>5, <1>6

LEMMA DeathServes ==
    ASSUME TypeOK, Inv, Die
    PROVE  Service!Next
<1> USE DEF TypeOK
<1> DEFINE dead == {r \in Requests : phase[r] \in InFlight /\ child[r] # "running"}
<1>1. \A r \in Requests : phase'[r] = IF phase[r] \in InFlight THEN "lost" ELSE phase[r]
  BY DEF Die
<1>2. child' = child
  BY DEF Die, command
<1>3. \A r \in dead : Stage(r)' = "settled"
  BY <1>1, <1>2 DEF Stage, InFlight, Timed, Holding
<1>4. \A r \in Requests \ dead : Stage(r)' = Stage(r)
  <2> TAKE r \in Requests \ dead
  <2>1. CASE phase[r] \notin InFlight
    BY <1>1, <1>2, <2>1 DEF Stage
  <2>2. CASE child[r] = "running"
    <3>1. phase[r] \notin {"absent", "auth"}
      BY <2>2 DEF Inv, Commanded
    <3> QED
      BY <1>1, <1>2, <2>2, <3>1 DEF Stage
  <2> QED
    BY <2>1, <2>2
<1>5. dead \in SUBSET Requests
  OBVIOUS
<1>6. \A r \in dead : Stages[r] \in {"presented", "admitted"}
  BY DEF Stages, Stage, InFlight, Timed, Holding
<1> HIDE DEF dead
<1>7. Stages' = [r \in Requests |-> IF r \in dead THEN "settled" ELSE Stages[r]]
  BY <1>3, <1>4, <1>5, StagesMove
<1>8. Service!Lose(dead)
  BY <1>7 DEF Die, Service!Lose, Service!keyVars, keyVars, input, command
<1>9. dead \in SUBSET Service!Open
  BY <1>5, <1>6 DEF Service!Open
<1> QED
  BY <1>8, <1>9 DEF Service!Next

LEMMA StepServes == TypeOK /\ Inv /\ [Next]_vars => [Service!Next]_(Service!vars)
<1> SUFFICES ASSUME TypeOK, Inv, [Next]_vars
             PROVE  Service!Next \/ UNCHANGED Service!vars
  OBVIOUS
<1> USE DEF TypeOK
<1>1. ASSUME UNCHANGED <<keyVars, phase, call, child, effect, status>>
      PROVE  UNCHANGED Service!vars
  <2>1. Stages' = Stages
    BY <1>1, StagesKept DEF Stage
  <2> QED
    BY <1>1, <2>1 DEF Service!vars, Service!keyVars, keyVars
<1>2. ASSUME NEW r \in Requests, NEW c \in Calls, Arrive(r, c) PROVE Service!Next
  <2>1. Stages[r] = "absent"
    BY <1>2 DEF Arrive, Stages, Stage
  <2>2. Stage(r)' = "presented"
    BY <1>2 DEF Arrive, Advance, Stage
  <2>3. \A q \in Requests \ {r} : phase'[q] = phase[q] /\ child'[q] = child[q]
    BY <1>2 DEF Arrive, Advance, command
  <2>4. Stages' = [Stages EXCEPT ![r] = "presented"]
    BY <2>2, <2>3, StageMoves
  <2>5. Service!Present(r, c)
    BY <1>2, <2>1, <2>4
       DEF Arrive, Advance, Service!Present, Service!keyVars, keyVars, command
  <2> QED
    BY <2>5 DEF Service!Next, Calls, Service!Calls
<1>3. ASSUME NEW r \in Requests, Kill(r) PROVE Service!Next \/ UNCHANGED Service!vars
  BY <1>3, EndServes DEF Kill
<1>4. ASSUME NEW r \in Requests, NEW out \in Outcomes, Exit(r, out)
      PROVE  Service!Next \/ UNCHANGED Service!vars
  BY <1>4, EndServes DEF Exit
<1>5. ASSUME NEW r \in Requests, KillGroup(r) PROVE Service!Next \/ UNCHANGED Service!vars
  BY <1>5, EndServes DEF KillGroup
<1>6. ASSUME NEW r \in Requests, Deadline(r) \/ Disconnect(r) PROVE UNCHANGED Service!vars
  BY <1>1, <1>6 DEF Deadline, Disconnect, input, command
<1>7. CASE Terminate \/ Drained \/ Restart
  BY <1>1, <1>7 DEF Terminate, Drained, Restart, input, command
<1>8. CASE ChangeKeys
  BY <1>8, StoreServes DEF Service!Next
<1>9. CASE UNCHANGED vars
  BY <1>1, <1>9 DEF vars
<1>10. CASE ShutdownTimeout \/ Abort
  BY <1>10, DeathServes DEF ShutdownTimeout, Abort
<1> QED
  BY <1>2, <1>3, <1>4, <1>5, <1>6, <1>7, <1>8, <1>9, <1>10, HandlerServes, SentServes,
     EffectServes DEF Next

\* The server implements CommandService for any requests, keys, capacity of the
\* semaphore and error codes: a client may reason with that specification alone.
THEOREM Refinement == Spec => RefinesService
<1>1. Init => Service!Init
  <2> SUFFICES ASSUME Init PROVE Service!Init
    OBVIOUS
  <2>1. Stages = [r \in Requests |-> "absent"]
    BY DEF Init, Stages, Stage
  <2>2. Service!Store!Init
    BY DEF Init, Store!Init, Service!Store!Init
  <2> QED
    BY <2>1, <2>2 DEF Init, Service!Init
<1> QED
  BY <1>1, StepServes, InvAlways, PTL DEF Spec, RefinesService, Service!Spec

=============================================================================
