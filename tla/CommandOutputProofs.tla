------------------------ MODULE CommandOutputProofs -------------------------
(***************************************************************************)
(* What is passed on of a command's output, for every output, every pair   *)
(* of limits, and every way to cut the output into chunks.                 *)
(***************************************************************************)
EXTENDS CommandOutput, SequenceTheorems, TLAPS

USE LimitAssumption, MaxWrittenAssumption

LEMMA OutputIsSeq ==
    ASSUME NEW n \in Nat
    PROVE  Output(n) \in Seq(Nat) /\ Len(Output(n)) = n
           /\ \A i \in 1 .. n : Output(n)[i] = i
  BY DEF Output

LEMMA PartIsSeq ==
    ASSUME NEW t \in Nat, NEW m \in Nat
    PROVE  Part(t, m) \in Seq(Nat) /\ Len(Part(t, m)) = m
           /\ \A i \in 1 .. m : Part(t, m)[i] = t + i
  BY DEF Part

\* What is appended to the first bytes of a stream continues them.
LEMMA Continued ==
    ASSUME NEW t \in Nat, NEW m \in Nat
    PROVE  Output(t) \o Part(t, m) = Output(t + m)
<1> DEFINE whole == Output(t) \o Part(t, m)
<1>1. /\ Output(t) \in Seq(Nat) /\ Len(Output(t)) = t
      /\ Part(t, m) \in Seq(Nat) /\ Len(Part(t, m)) = m
  BY OutputIsSeq, PartIsSeq
<1>2. /\ whole \in Seq(Nat)
      /\ Len(whole) = Len(Output(t)) + Len(Part(t, m))
      /\ \A i \in 1 .. Len(Output(t)) + Len(Part(t, m)) :
           whole[i] = IF i <= Len(Output(t)) THEN Output(t)[i]
                      ELSE Part(t, m)[i - Len(Output(t))]
  <2> HIDE DEF Output, Part
  <2> QED
    BY <1>1, ConcatProperties, Zenon
<1>3. \A i \in 1 .. t + m :
        whole[i] = IF i <= t THEN Output(t)[i] ELSE Part(t, m)[i - t]
  BY <1>1, <1>2
<1> HIDE DEF whole
<1>4. \A i \in 1 .. t + m : whole[i] = i
  <2> SUFFICES ASSUME NEW i \in 1 .. t + m
               PROVE  whole[i] = i
    OBVIOUS
  <2>1. CASE i <= t
    <3>1. i \in 1 .. t
      BY <2>1
    <3>2. Output(t)[i] = i
      BY <3>1, OutputIsSeq
    <3> QED
      BY <1>3, <2>1, <3>2
  <2>2. CASE i > t
    <3>1. i - t \in 1 .. m
      BY <2>2
    <3>2. Part(t, m)[i - t] = t + (i - t)
      BY <3>1, PartIsSeq
    <3> QED
      BY <1>3, <2>2, <3>2
  <2> QED
    BY <2>1, <2>2
<1>5. /\ Output(t + m) \in Seq(Nat) /\ Len(Output(t + m)) = t + m
      /\ \A i \in 1 .. t + m : Output(t + m)[i] = i
  BY OutputIsSeq
<1>6. whole \in Seq(Nat) /\ Len(whole) = t + m
  BY <1>1, <1>2
<1>7. whole = Output(t + m)
  <2>1. \A i \in 1 .. Len(whole) : whole[i] = Output(t + m)[i]
    BY <1>4, <1>5, <1>6
  <2> QED
    BY <1>5, <1>6, <2>1, SeqEqual
<1> QED
  BY <1>7 DEF whole

\* The beginning of a part is a part, and so it is for the whole stream.
LEMMA Cut ==
    ASSUME NEW t \in Nat, NEW n \in Nat, NEW m \in 0 .. n
    PROVE  /\ SubSeq(Part(t, n), 1, m) = Part(t, m)
           /\ SubSeq(Output(n), 1, m) = Output(m)
  BY DEF Part, Output

\* boundedBuffer.Write keeps a buffer exact: it holds the first bytes of its
\* stream up to the limit, and knows whether there were more.
LEMMA WriteExact ==
    ASSUME NEW t \in Nat, NEW n \in Nat \ {0}, NEW cut \in BOOLEAN,
           cut <=> t > ServerLimit
    PROVE  \E c \in BOOLEAN :
             /\ Written([bytes |-> Output(Kept(t)), truncated |-> cut], Part(t, n))
                  = [bytes |-> Output(Kept(t + n)), truncated |-> c]
             /\ c <=> t + n > ServerLimit
<1> DEFINE b == [bytes |-> Output(Kept(t)), truncated |-> cut]
<1>1. b.bytes = Output(Kept(t)) /\ Len(b.bytes) = Kept(t) /\ Kept(t) \in Nat
  BY OutputIsSeq DEF Kept
<1>2. Len(Part(t, n)) = n
  BY PartIsSeq
<1>3. CASE t >= ServerLimit
  <2>1. Kept(t) = ServerLimit /\ Kept(t + n) = ServerLimit /\ t + n > ServerLimit
    BY <1>3 DEF Kept
  <2>2. Written(b, Part(t, n)) = [bytes |-> b.bytes, truncated |-> TRUE]
    BY <1>1, <2>1 DEF Written
  <2>3. Written(b, Part(t, n)) = [bytes |-> Output(Kept(t + n)), truncated |-> TRUE]
    BY <1>1, <2>1, <2>2
  <2> QED
    BY <2>1, <2>3
<1>4. CASE t < ServerLimit /\ t + n > ServerLimit
  <2> DEFINE room == ServerLimit - t
  <2>1. /\ room \in Nat /\ room \in 0 .. n /\ room > 0 /\ n > room /\ t + room = ServerLimit
        /\ Kept(t) = t /\ Kept(t + n) = ServerLimit
    BY <1>4 DEF Kept
  <2>2. ServerLimit - Len(b.bytes) = room
    BY <1>1, <2>1
  <2> HIDE DEF room
  <2>3. Written(b, Part(t, n))
          = [bytes |-> b.bytes \o SubSeq(Part(t, n), 1, room), truncated |-> TRUE]
    BY <1>2, <2>1, <2>2 DEF Written
  <2>4. SubSeq(Part(t, n), 1, room) = Part(t, room)
    BY <2>1, Cut
  <2>5. Output(t) \o Part(t, room) = Output(t + room)
    BY <2>1, Continued
  <2>6. Written(b, Part(t, n)) = [bytes |-> Output(Kept(t + n)), truncated |-> TRUE]
    BY <1>1, <2>1, <2>3, <2>4, <2>5
  <2> QED
    BY <1>4, <2>6
<1>5. CASE t + n <= ServerLimit
  <2>1. Kept(t) = t /\ Kept(t + n) = t + n /\ cut = FALSE /\ ServerLimit - t > 0
        /\ n <= ServerLimit - t
    BY <1>5 DEF Kept
  <2>2. Written(b, Part(t, n))
          = [bytes |-> b.bytes \o Part(t, n), truncated |-> b.truncated]
    BY <1>1, <1>2, <2>1 DEF Written
  <2>3. Output(t) \o Part(t, n) = Output(t + n)
    BY Continued
  <2>4. Written(b, Part(t, n)) = [bytes |-> Output(Kept(t + n)), truncated |-> cut]
    BY <1>1, <2>1, <2>2, <2>3
  <2> QED
    BY <1>5, <2>1, <2>4
<1> QED
  BY <1>3, <1>4, <1>5

-----------------------------------------------------------------------------
LEMMA Initial == Init => Inv
<1> SUFFICES ASSUME Init
             PROVE  Inv
  OBVIOUS
<1>1. Output(Kept(0)) = <<>> /\ Output(0) = <<>> /\ <<>> \in Seq(Nat)
  BY DEF Output, Kept
<1>2. TypeOK
  BY <1>1 DEF Init, TypeOK, NoResponse
<1>3. BufferExact
  BY <1>1 DEF Init, BufferExact
<1> QED
  BY <1>2, <1>3 DEF Init, Inv, RelayedWhole, AnswersExact, NoResponse

\* The steps that touch neither the buffers nor the answer.
LEMMA EnvironmentSteps ==
    ASSUME Inv,
           \/ \E s \in Streams, n \in 1 .. MaxWritten : ContextqWrites(s, n)
           \/ \E code \in {"ok", "error", "signal"} : ContextqExits(code)
           \/ Deadline \/ ClientLeaves \/ Kill \/ Break
    PROVE  Inv'
<1> USE DEF Inv
<1>1. CASE \E s \in Streams, n \in 1 .. MaxWritten : ContextqWrites(s, n)
  <2>1. PICK s \in Streams, n \in 1 .. MaxWritten : ContextqWrites(s, n)
    BY <1>1
  <2>2. \A q \in Streams : wrote'[q] = IF q = s THEN wrote[q] + n ELSE wrote[q]
    BY <2>1 DEF ContextqWrites, TypeOK
  <2>3. wrote' \in [Streams -> 0 .. MaxWritten] /\ \A q \in Streams : wrote[q] <= wrote'[q]
    BY <2>1, <2>2 DEF ContextqWrites, TypeOK
  <2>4. response = NoResponse
    BY <2>1 DEF ContextqWrites
  <2>5. TypeOK' /\ \A q \in Streams : taken'[q] <= wrote'[q]
    BY <2>1, <2>3 DEF ContextqWrites, TypeOK
  <2>6. BufferExact'
    BY <2>1 DEF ContextqWrites, BufferExact
  <2>7. RelayedWhole' /\ AnswersExact'
    BY <2>1, <2>4 DEF ContextqWrites, RelayedWhole, AnswersExact, NoResponse
  <2> QED
    BY <2>1, <2>4, <2>5, <2>6, <2>7 DEF ContextqWrites, NoResponse
<1>2. CASE \E code \in {"ok", "error", "signal"} : ContextqExits(code)
  <2>1. PICK code \in {"ok", "error", "signal"} : ContextqExits(code)
    BY <1>2
  <2>2. TypeOK' /\ BufferExact'
    BY <2>1 DEF ContextqExits, TypeOK, BufferExact
  <2>3. response = NoResponse
    BY <2>1 DEF ContextqExits
  <2> QED
    BY <2>1, <2>2, <2>3 DEF ContextqExits, RelayedWhole, AnswersExact, NoResponse
<1>3. CASE Deadline
  <2>1. TypeOK' /\ BufferExact'
    BY <1>3 DEF Deadline, TypeOK, BufferExact
  <2> QED
    BY <1>3, <2>1 DEF Deadline, RelayedWhole, AnswersExact, NoResponse
<1>4. CASE ClientLeaves
  <2>1. TypeOK' /\ BufferExact'
    BY <1>4 DEF ClientLeaves, TypeOK, BufferExact
  <2> QED
    BY <1>4, <2>1 DEF ClientLeaves, RelayedWhole, AnswersExact, NoResponse
<1>5. CASE Kill
  <2>1. TypeOK' /\ BufferExact'
    BY <1>5 DEF Kill, TypeOK, BufferExact
  <2> QED
    BY <1>5, <2>1 DEF Kill, RelayedWhole, AnswersExact, NoResponse
<1>6. CASE Break
  <2>1. TypeOK' /\ BufferExact'
    BY <1>6 DEF Break, TypeOK, BufferExact
  <2> QED
    BY <1>6, <2>1 DEF Break, RelayedWhole, AnswersExact
<1> QED
  BY <1>1, <1>2, <1>3, <1>4, <1>5, <1>6

LEMMA CopyStep ==
    ASSUME Inv, NEW s \in Streams, NEW n \in 1 .. MaxWritten, Copy(s, n)
    PROVE  Inv'
<1> USE DEF Inv
<1>1. /\ taken[s] \in Nat /\ n \in Nat \ {0} /\ wrote[s] \in 0 .. MaxWritten
      /\ taken[s] + n <= wrote[s] /\ taken[s] + n \in Nat
  BY DEF Copy, TypeOK
<1>2. \A q \in Streams : taken'[q] = IF q = s THEN taken[q] + n ELSE taken[q]
  BY DEF Copy, TypeOK
<1>3. \A q \in Streams : buffer'[q] = IF q = s THEN Written(buffer[s], Part(taken[s], n))
                                      ELSE buffer[q]
  BY DEF Copy, TypeOK
<1>4. buffer[s] = [bytes |-> Output(Kept(taken[s])), truncated |-> buffer[s].truncated]
      /\ buffer[s].truncated \in BOOLEAN
      /\ (buffer[s].truncated <=> taken[s] > ServerLimit)
  BY DEF TypeOK, BufferExact
<1>5. PICK c \in BOOLEAN :
        /\ buffer'[s] = [bytes |-> Output(Kept(taken[s] + n)), truncated |-> c]
        /\ c <=> taken[s] + n > ServerLimit
  <2> DEFINE t == taken[s]
             cut == buffer[s].truncated
  <2>1. t \in Nat /\ n \in Nat \ {0} /\ cut \in BOOLEAN /\ (cut <=> t > ServerLimit)
    BY <1>1, <1>4
  <2>2. \E c \in BOOLEAN :
          /\ Written([bytes |-> Output(Kept(t)), truncated |-> cut], Part(t, n))
               = [bytes |-> Output(Kept(t + n)), truncated |-> c]
          /\ c <=> t + n > ServerLimit
    <3> HIDE DEF t, cut
    <3> QED
      BY <2>1, WriteExact
  <2> QED
    BY <1>3, <1>4, <2>2
<1>6. Kept(taken[s] + n) \in Nat
  BY <1>1 DEF Kept
<1>7. buffer'[s] \in [bytes : Seq(Nat), truncated : BOOLEAN]
  BY <1>5, <1>6, OutputIsSeq
<1>8. buffer' \in [Streams -> [bytes : Seq(Nat), truncated : BOOLEAN]]
  BY <1>3, <1>7 DEF Copy, TypeOK
<1>9. taken' \in [Streams -> 0 .. MaxWritten] /\ \A q \in Streams : taken'[q] <= wrote'[q]
  BY <1>1, <1>2 DEF Copy, TypeOK
<1>10. TypeOK'
  BY <1>8, <1>9 DEF Copy, TypeOK
<1>11. BufferExact'
  BY <1>2, <1>3, <1>5 DEF BufferExact
<1>12. response = NoResponse
  <2>1. taken # wrote
    BY <1>1
  <2> QED
    BY <2>1
<1> QED
  BY <1>9, <1>10, <1>11, <1>12 DEF Copy, RelayedWhole, AnswersExact, NoResponse

LEMMA RespondStep ==
    ASSUME Inv, Respond
    PROVE  Inv'
<1> USE DEF Inv
<1>1. child # "running" /\ taken = wrote /\ response = NoResponse
  BY DEF Respond, Waited
<1>2. BufferExact'
  BY DEF Respond, BufferExact
<1>3. client # "ok"
  BY <1>1 DEF NoResponse
<1>4. ASSUME NEW s \in Streams, ~buffer[s].truncated
      PROVE  buffer[s].bytes = Output(wrote[s]) /\ wrote[s] <= ServerLimit
             /\ buffer[s].bytes \in Seq(Nat)
  BY <1>1, <1>4 DEF BufferExact, TypeOK, Kept
<1>5. <<>> \in Seq(Nat)
  OBVIOUS
<1> DEFINE Good(answer) ==
      /\ answer \in [status : {0, 200, 400, 404, 409, 502, 504}, body : Seq(Nat)]
      /\ answer.status = 200 /\ ctx # "canceled" =>
           child = "ok" /\ answer.body = Output(wrote["stdout"])
           /\ wrote["stdout"] <= ServerLimit
      /\ answer.status \in {400, 404, 409} =>
           child \notin {"ok", "killed"} /\ answer.body = Output(wrote["stderr"])
<1>6. Good(response')
  <2>1. ASSUME NEW status \in {502, 504}, response' = [status |-> status, body |-> <<>>]
        PROVE  Good(response')
    BY <1>5, <2>1
  <2>2. CASE \E s \in Streams : buffer[s].truncated
    <3>1. response' = [status |-> 502, body |-> <<>>]
      BY <2>2 DEF Respond
    <3> QED
      BY <2>1, <3>1
  <2>3. CASE ~(\E s \in Streams : buffer[s].truncated) /\ ctx = "deadline"
    <3>1. response' = [status |-> 504, body |-> <<>>]
      BY <2>3 DEF Respond
    <3> QED
      BY <2>1, <3>1
  <2>4. CASE ~(\E s \in Streams : buffer[s].truncated) /\ ctx = "canceled"
    <3>1. response' = [status |-> 200, body |-> <<>>]
      BY <2>4 DEF Respond
    <3> QED
      BY <1>5, <2>4, <3>1
  <2>5. CASE ~(\E s \in Streams : buffer[s].truncated) /\ ctx = "live" /\ child = "ok"
    <3>1. Relay("stdout", {200})
      BY <2>5 DEF Respond
    <3>2. CASE response' = [status |-> 502, body |-> <<>>]
      BY <2>1, <3>2
    <3>3. CASE response' = [status |-> 200, body |-> buffer["stdout"].bytes]
      <4>1. /\ buffer["stdout"].bytes = Output(wrote["stdout"])
            /\ wrote["stdout"] <= ServerLimit /\ buffer["stdout"].bytes \in Seq(Nat)
        BY <1>4, <2>5 DEF Streams
      <4> QED
        BY <2>5, <3>3, <4>1
    <3> QED
      BY <3>1, <3>2, <3>3 DEF Relay
  <2>6. CASE ~(\E s \in Streams : buffer[s].truncated) /\ ctx = "live" /\ child # "ok"
    <3>1. Relay("stderr", {400, 404, 409, 502})
      BY <2>6 DEF Respond
    <3>2. CASE response' = [status |-> 502, body |-> <<>>]
      BY <2>1, <3>2
    <3>3. ASSUME NEW status \in {400, 404, 409, 502},
                 response' = [status |-> status, body |-> buffer["stderr"].bytes]
          PROVE  Good(response')
      <4>1. /\ buffer["stderr"].bytes = Output(wrote["stderr"])
            /\ buffer["stderr"].bytes \in Seq(Nat)
        BY <1>4, <2>6 DEF Streams
      <4>2. child # "killed"
        BY <2>6
      <4> QED
        BY <2>6, <3>3, <4>1, <4>2
    <3> QED
      BY <3>1, <3>2, <3>3 DEF Relay
  <2>7. ctx \in {"live", "deadline", "canceled"}
    BY DEF TypeOK
  <2> QED
    BY <2>2, <2>3, <2>4, <2>5, <2>6, <2>7
<1> QED
  BY <1>1, <1>2, <1>3, <1>6 DEF Respond, TypeOK, RelayedWhole, AnswersExact

LEMMA ReceiveStep ==
    ASSUME Inv, NEW n \in 0 .. MaxWritten, Receive(n)
    PROVE  Inv'
<1> USE DEF Inv
<1>1. BufferExact' /\ RelayedWhole'
  BY DEF Receive, BufferExact, RelayedWhole
<1>2. CASE client' = "failed"
  BY <1>1, <1>2 DEF Receive, TypeOK, AnswersExact
<1>3. CASE client' # "failed"
  <2>1. /\ client' = "ok" /\ client = "waiting" /\ response.status = 200
        /\ ~(n < Len(response.body) /\ n < ClientLimit)
        /\ n \in 0 .. Len(response.body)
        /\ printed' = ReadBody(response.body, n)
    BY <1>3 DEF Receive
  <2>2. /\ child = "ok" /\ response.body = Output(wrote["stdout"])
        /\ wrote["stdout"] <= ServerLimit /\ wrote["stdout"] \in Nat
    BY <2>1 DEF RelayedWhole, TypeOK, Streams
  <2>3. Len(response.body) = wrote["stdout"]
    BY <2>2, OutputIsSeq
  <2>4. Read(wrote["stdout"]) = Read(n) /\ Read(n) \in 0 .. wrote["stdout"]
    BY <2>1, <2>2, <2>3, LimitAssumption DEF Read
  <2>5. printed' = Output(Read(wrote["stdout"]))
    <3>1. printed' = SubSeq(Output(wrote["stdout"]), 1, Read(wrote["stdout"]))
      BY <2>1, <2>2, <2>4 DEF ReadBody, Read
    <3>2. \A w \in Nat : \A m \in 0 .. w : SubSeq(Output(w), 1, m) = Output(m)
      BY Cut
    <3>3. wrote["stdout"] \in Nat /\ Read(wrote["stdout"]) \in 0 .. wrote["stdout"]
      BY <2>2, <2>4
    <3> HIDE DEF Inv
    <3> QED
      BY <3>1, <3>2, <3>3, Zenon
  <2>6. printed' \in Seq(Nat)
    BY <2>4, <2>5, OutputIsSeq
  <2>7. TypeOK' /\ AnswersExact'
    BY <2>1, <2>2, <2>5, <2>6 DEF Receive, TypeOK, AnswersExact
  <2> QED
    BY <1>1, <2>1, <2>7 DEF Receive, TypeOK
<1> QED
  BY <1>2, <1>3

\* The invariant holds in every reachable state.
THEOREM Invariance == Spec => []Inv
<1>1. Inv /\ [Next]_vars => Inv'
  <2> SUFFICES ASSUME Inv, [Next]_vars
               PROVE  Inv'
    OBVIOUS
  <2>1. CASE UNCHANGED vars
    BY <2>1 DEF Inv, TypeOK, BufferExact, RelayedWhole, AnswersExact, vars
  <2>2. CASE Next
    BY <2>2, EnvironmentSteps, CopyStep, RespondStep, ReceiveStep DEF Next
  <2> QED
    BY <2>1, <2>2
<1> QED
  BY Initial, <1>1, PTL DEF Spec

\* Whatever a command writes, and however it is cut into chunks, the buffers
\* hold the beginning of it up to the limit and know whether there was more.
THEOREM BuffersSafe == Spec => []BufferExact
<1>1. Inv => BufferExact
  BY DEF Inv
<1> QED
  BY Invariance, <1>1, PTL

\* A response passes on all that a stream carried or nothing of it.
THEOREM RelaySafe == Spec => []RelayedWhole
<1>1. Inv => RelayedWhole
  BY DEF Inv
<1> QED
  BY Invariance, <1>1, PTL

\* Status 0 of exec means that contextq succeeded and that its output was
\* printed up to the limit of exec's reader, for every pair of limits.
THEOREM AnswersSafe == Spec => []AnswersExact
<1>1. Inv => AnswersExact
  BY DEF Inv
<1> QED
  BY Invariance, <1>1, PTL

\* Where the server's limit does not exceed that of exec's reader, status 0 of
\* exec means that all of the output was printed.
THEOREM WholeSafe == ServerLimit <= ClientLimit => (Spec => []AnswersWhole)
<1> SUFFICES ASSUME ServerLimit <= ClientLimit
             PROVE  Spec => []AnswersWhole
  OBVIOUS
<1>1. Inv => AnswersWhole
  <2> SUFFICES ASSUME Inv, client = "ok"
               PROVE  child = "ok" /\ printed = Output(wrote["stdout"])
    BY DEF AnswersWhole
  <2>1. wrote["stdout"] \in Nat /\ wrote["stdout"] <= ServerLimit
    BY DEF Inv, TypeOK, Streams
  <2>2. Read(wrote["stdout"]) = wrote["stdout"]
    BY <2>1 DEF Read
  <2> QED
    BY <2>2 DEF Inv, AnswersExact
<1> QED
  BY Invariance, <1>1, PTL

=============================================================================
