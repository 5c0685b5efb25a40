--------------------------- MODULE CommandOutput ----------------------------
(***************************************************************************)
(* What becomes of the output of one contextq command: the pipes that      *)
(* os/exec copies into bounded buffers, the verdict of CommandRunner.Run   *)
(* (internal/api/runner.go), the response of the handler                   *)
(* (internal/api/server.go), and what "contextq-server exec" prints of it  *)
(* (runClientExec in internal/app/remote.go).                              *)
(*                                                                         *)
(* A byte is the number of its position on its stream, so that an output   *)
(* with a hole, or one that is cut short, differs from a whole one.  Both  *)
(* streams are copied while contextq writes, is killed, and the client may *)
(* go away.                                                                *)
(***************************************************************************)
EXTENDS Naturals, Sequences

CONSTANTS
    ServerLimit, \* CommandRunner.OutputLimit: --output-limit, 4 MiB by default
    ClientLimit, \* the limit of the reader in runClientExec, always 4 MiB
    MaxWritten   \* bound: bytes contextq writes on a stream

ASSUME LimitAssumption == ServerLimit \in Nat \ {0} /\ ClientLimit \in Nat
ASSUME MaxWrittenAssumption == MaxWritten \in Nat

VARIABLES
    child,   \* contextq, and how it ended
    wrote,   \* bytes contextq has written on each stream
    taken,   \* bytes of each stream that were copied
    buffer,  \* the bounded buffers
    ctx,     \* the request's context
    response,\* the response; NoResponse before there is one
    client,  \* the command on the workstation
    printed  \* what it wrote on its standard output

vars == <<child, wrote, taken, buffer, ctx, response, client, printed>>

Streams == {"stdout", "stderr"}

NoResponse == [status |-> 0, body |-> <<>>]

\* The first n bytes of a stream, and the m bytes after the first t
Output(n)  == [i \in 1 .. n |-> i]
Part(t, m) == [i \in 1 .. m |-> t + i]

Init ==
    /\ child = "running"
    /\ wrote = [s \in Streams |-> 0]
    /\ taken = [s \in Streams |-> 0]
    /\ buffer = [s \in Streams |-> [bytes |-> <<>>, truncated |-> FALSE]]
    /\ ctx = "live"
    /\ response = NoResponse
    /\ client = "waiting"
    /\ printed = <<>>

-----------------------------------------------------------------------------
\* contextq writes n bytes
ContextqWrites(s, n) ==
    /\ child = "running"
    /\ wrote[s] + n <= MaxWritten
    /\ wrote' = [wrote EXCEPT ![s] = @ + n]
    /\ UNCHANGED <<child, taken, buffer, ctx, response, client, printed>>

\* contextq ends by itself
ContextqExits(code) ==
    /\ child = "running"
    /\ child' = code
    /\ UNCHANGED <<wrote, taken, buffer, ctx, response, client, printed>>

\* Mutant of Written: a chunk that does not fit is dropped as a whole
WrittenWhole(b, chunk) ==
    LET remaining == ServerLimit - Len(b.bytes) IN
    IF Len(chunk) <= remaining
      THEN [b EXCEPT !.bytes = @ \o chunk]
      ELSE [b EXCEPT !.truncated = TRUE]

\* Mutant of Written: a chunk that ends at the limit is not noticed to be cut
WrittenSilently(b, chunk) ==
    LET remaining == ServerLimit - Len(b.bytes) IN
    IF remaining <= 0
      THEN b
    ELSE IF Len(chunk) > remaining
      THEN [bytes |-> b.bytes \o SubSeq(chunk, 1, remaining), truncated |-> TRUE]
    ELSE [b EXCEPT !.bytes = @ \o chunk]

\* boundedBuffer.Write
Written(b, chunk) ==
    LET remaining == ServerLimit - Len(b.bytes) IN
    IF remaining <= 0
      THEN [bytes |-> b.bytes, truncated |-> TRUE]
    ELSE IF Len(chunk) > remaining
      THEN [bytes |-> b.bytes \o SubSeq(chunk, 1, remaining), truncated |-> TRUE]
    ELSE [bytes |-> b.bytes \o chunk, truncated |-> b.truncated]

\* A goroutine of os/exec reads n bytes of a pipe into its buffer
Copy(s, n) ==
    /\ n <= wrote[s] - taken[s]
    /\ taken' = [taken EXCEPT ![s] = @ + n]
    /\ buffer' = [buffer EXCEPT ![s] = Written(@, Part(taken[s], n))]
    /\ UNCHANGED <<child, wrote, ctx, response, client, printed>>

\* The deadline passes
Deadline ==
    /\ ctx = "live"
    /\ response = NoResponse
    /\ ctx' = "deadline"
    /\ UNCHANGED <<child, wrote, taken, buffer, response, client, printed>>

\* The client goes away, or its own timeout passes
ClientLeaves ==
    /\ client = "waiting"
    /\ client' = "failed"
    /\ ctx' = IF ctx = "live" /\ response = NoResponse THEN "canceled" ELSE ctx
    /\ UNCHANGED <<child, wrote, taken, buffer, response, printed>>

\* exec's watcher kills contextq
Kill ==
    /\ ctx # "live"
    /\ child = "running"
    /\ child' = "killed"
    /\ UNCHANGED <<wrote, taken, buffer, ctx, response, client, printed>>

\* Mutant of Waited: Wait returns without the rest of the pipes
WaitedForExit == child # "running"

\* cmd.Wait has returned: contextq has ended and both pipes are read to the end
Waited ==
    /\ child # "running"
    /\ taken = wrote

\* CommandRunner.Run's verdict and the handler's response to it; a body that is
\* no JSON is not passed on, and a part of one may be JSON.  A handler that
\* returns without a response makes net/http send an empty one
Relay(stream, statuses) ==
    \/ \E status \in statuses :
         response' = [status |-> status, body |-> buffer[stream].bytes]
    \/ response' = [status |-> 502, body |-> <<>>]

Respond ==
    /\ Waited
    /\ response = NoResponse
    /\ IF \E s \in Streams : buffer[s].truncated
         THEN response' = [status |-> 502, body |-> <<>>]
       ELSE IF ctx = "deadline"
         THEN response' = [status |-> 504, body |-> <<>>]
       ELSE IF ctx = "canceled"
         THEN response' = [status |-> 200, body |-> <<>>]
       ELSE IF child = "ok"
         THEN Relay("stdout", {200})
       ELSE Relay("stderr", {400, 404, 409, 502})
    /\ UNCHANGED <<child, wrote, taken, buffer, ctx, client, printed>>

\* Mutant of ReadBody: the reader's limit is one byte short
ReadBodyShort(body, n) ==
    SubSeq(body, 1, IF n < ClientLimit THEN n ELSE ClientLimit - 1)

\* io.ReadAll(io.LimitReader(...)) of a response of which n bytes arrive
ReadBody(body, n) == SubSeq(body, 1, IF n <= ClientLimit THEN n ELSE ClientLimit)

\* The client reads the response, of which n bytes arrive: a connection that
\* breaks before the end and before the reader's limit is an error
Receive(n) ==
    /\ client = "waiting"
    /\ response # NoResponse
    /\ n \in 0 .. Len(response.body)
    /\ IF (n < Len(response.body) /\ n < ClientLimit) \/ response.status # 200
         THEN /\ client' = "failed"
              /\ UNCHANGED printed
         ELSE /\ client' = "ok"
              /\ printed' = ReadBody(response.body, n)
    /\ UNCHANGED <<child, wrote, taken, buffer, ctx, response>>

\* The server dies, or its connection to the client does
Break ==
    /\ client = "waiting"
    /\ client' = "failed"
    /\ UNCHANGED <<child, wrote, taken, buffer, ctx, response, printed>>

Next ==
    \/ \E s \in Streams, n \in 1 .. MaxWritten : ContextqWrites(s, n) \/ Copy(s, n)
    \/ \E code \in {"ok", "error", "signal"} : ContextqExits(code)
    \/ Deadline \/ ClientLeaves \/ Kill
    \/ Respond
    \/ \E n \in 0 .. MaxWritten : Receive(n)
    \/ Break

Spec == Init /\ [][Next]_vars

-----------------------------------------------------------------------------
TypeOK ==
    /\ child \in {"running", "ok", "error", "signal", "killed"}
    /\ wrote \in [Streams -> 0 .. MaxWritten]
    /\ taken \in [Streams -> 0 .. MaxWritten]
    /\ buffer \in [Streams -> [bytes : Seq(Nat), truncated : BOOLEAN]]
    /\ ctx \in {"live", "deadline", "canceled"}
    /\ response \in [status : {0, 200, 400, 404, 409, 502, 504}, body : Seq(Nat)]
    /\ client \in {"waiting", "ok", "failed"}
    /\ printed \in Seq(Nat)

\* How many of t bytes are kept
Kept(t) == IF t <= ServerLimit THEN t ELSE ServerLimit

\* "bounded output": however the output is cut into chunks, a buffer holds the
\* first bytes of its stream, at most OutputLimit of them, and knows whether
\* there were more.
BufferExact ==
    \A s \in Streams :
      /\ buffer[s].bytes = Output(Kept(taken[s]))
      /\ buffer[s].truncated <=> taken[s] > ServerLimit

\* What a response passes on of a command is all that the command wrote on that
\* stream before it ended: nothing that a pipe, a limit or a kill cut short.
RelayedWhole ==
    /\ response.status = 200 /\ ctx # "canceled" =>
         child = "ok" /\ response.body = Output(wrote["stdout"])
    /\ response.status \in {400, 404, 409} =>
         child \notin {"ok", "killed"} /\ response.body = Output(wrote["stderr"])

\* The bytes of an output that exec reads
Read(n) == IF n <= ClientLimit THEN n ELSE ClientLimit

\* When exec exits with status 0, contextq did, and exec printed its output up to
\* the 4 MiB that exec reads, whatever --output-limit of the server is and
\* wherever the connection breaks: it never prints less, which would be the part
\* that came before a break, and more than 4 MiB it cuts without an error.
AnswersExact ==
    client = "ok" => child = "ok" /\ printed = Output(Read(wrote["stdout"]))

\* Where the server's limit is not above exec's, as by default, that is all of it.
AnswersWhole ==
    client = "ok" => child = "ok" /\ printed = Output(wrote["stdout"])

\* The inductive invariant of the proofs.
Inv ==
    /\ TypeOK
    /\ BufferExact
    /\ RelayedWhole
    /\ AnswersExact
    /\ \A s \in Streams : taken[s] <= wrote[s]
    /\ ctx = "canceled" => client = "failed"
    /\ client = "ok" => response.status = 200
    /\ child = "killed" => ctx # "live"
    /\ response # NoResponse => child # "running" /\ taken = wrote
    /\ response.status = 200 /\ ctx # "canceled" => wrote["stdout"] <= ServerLimit

=============================================================================
