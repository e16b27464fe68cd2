----------------------------- MODULE ExecPipeline -----------------------------
(***************************************************************************)
(* An exec end to end: the adapter's Create handler, the goroutine of      *)
(* agent.Client.Exec that receives the stream into a channel,              *)
(* drainIntoRecord that empties it into the record, writeInitialStdin, a   *)
(* user's Stdin call, the row the record is persisted to, the record that  *)
(* is rebuilt from it, and the clients that poll or stream its output.     *)
(* The guest agent is AgentService, which GuestAgent implements.           *)
(*                                                                         *)
(* Abstractions.  The execs are registered at the start (ExecRegistry is   *)
(* about registration).  A chunk is its stream; the output cap and the     *)
(* fan-out are those of ExecRecord, of which only the panic is kept.  An   *)
(* agent that has gone silent (no keepalive is set) is one that takes no   *)
(* more steps: the model grants the agent no fairness.                     *)
(***************************************************************************)
EXTENDS AgentService, FiniteSets

CONSTANTS
  InitialOf,    \* the request that carries the initial stdin of an exec
  ChanCap,      \* capacity of the client's channel (16 in the code)
  MaxWrites,    \* bound: chunks the process writes to each pipe
  MaxCrashes,   \* bound: restarts of the adapter
  Streaming     \* the execs that have an SSE client

ASSUME PipelineOK ==
  /\ ChanCap \in Nat \ {0} /\ MaxWrites \in Nat /\ MaxCrashes \in Nat
  /\ InitialOf \in [Call -> Writer] /\ Streaming \subseteq Call

VARIABLES
  background,   \* is the exec a background one?
  http,         \* the POST exec request
  ctx,          \* execCtx: "live", "expired" or "canceled"
  rcv, held,    \* the receiving goroutine and the frame it holds
  chan,         \* the channel of chunks, closed when rcv is "closed"
  drain,        \* drainIntoRecord
  gotDone,      \* its local flag
  status,       \* the record object: its status,
  log,          \*   the kinds of its chunks,
  captured,     \*   and the output they hold
  inMemory,     \* does the registry hold the object?
  row,          \* the exec's row: its status and its output columns
  lost,         \* history: a final state did not reach the row
  told,         \* the last final state a caller was told of
  starter,      \* writeInitialStdin
  window,       \* its 500 ms: "open" or "over"
  sse,          \* the SSE client: next sequence number, output, end
  crashes

stream  == <<phase, wrote, sent, wire, link>>
pipes   == <<stdin, input>>
request == <<background, http, ctx>>
client  == <<rcv, held, chan>>
drained == <<drain, gotDone>>
record  == <<status, log, captured>>
stored  == <<inMemory, row, lost>>
writers == <<starter, window>>
adapter == <<request, client, drained, record, stored, told, writers, sse,
             crashes>>
vars == <<stream, pipes, adapter>>

Final == {"completed", "errored"}
NoOutput == [s \in Stream |-> 0]
State(st, output) == [status |-> st, output |-> output]

\* Any registered exec, with or without initial stdin.
Init ==
  /\ AgentInit
  /\ background \in [Call -> BOOLEAN]
  /\ http = [c \in Call |-> "waiting"] /\ ctx = [c \in Call |-> "live"]
  /\ rcv = [c \in Call |-> "idle"] /\ held = [c \in Call |-> "done"]
  /\ chan = [c \in Call |-> <<>>]
  /\ drain = [c \in Call |-> "idle"] /\ gotDone = [c \in Call |-> FALSE]
  /\ status = [c \in Call |-> "running"] /\ log = [c \in Call |-> <<>>]
  /\ captured = [c \in Call |-> NoOutput]
  /\ inMemory = [c \in Call |-> TRUE] /\ lost = [c \in Call |-> FALSE]
  /\ row = [c \in Call |-> State("running", NoOutput)]
  /\ told = [c \in Call |-> State("running", NoOutput)]
  /\ starter \in [Call -> {"none", "asked"}]
  /\ window = [c \in Call |-> "open"]
  /\ sse = [c \in Call |-> [next |-> 0, output |-> NoOutput, done |-> FALSE]]
  /\ crashes = 0

-----------------------------------------------------------------------------
(***************************************************************************)
(* The end of a context: it is marked, and gRPC cancels the stream.        *)
(***************************************************************************)
EndContext(c, how) ==
  /\ ctx' = [ctx EXCEPT ![c] = IF @ = "live" THEN how ELSE @]
  /\ link' = [link EXCEPT ![c] = "cut"]

\* A regression: no deadline is set.
ExpireNever(c) == FALSE /\ UNCHANGED vars
\* Foreground only: the deadline passes, or the caller goes away.
Expire(c) ==
  /\ ~background[c] /\ http[c] = "waiting" /\ ctx[c] = "live"
  /\ EndContext(c, "expired")
  /\ UNCHANGED <<phase, wrote, sent, wire, pipes, background, http, client,
                 drained, record, stored, told, writers, sse, crashes>>

CallerLeaves(c) ==
  /\ ~background[c] /\ http[c] = "waiting" /\ ctx[c] = "live"
  /\ EndContext(c, "canceled")
  /\ UNCHANGED <<phase, wrote, sent, wire, pipes, background, http, client,
                 drained, record, stored, told, writers, sse, crashes>>

-----------------------------------------------------------------------------
(***************************************************************************)
(* Create: start the stream, its receiver, the drain and the stdin writer. *)
(***************************************************************************)
StartStream(c) ==
  /\ rcv[c] = "idle" /\ drain[c] = "idle" /\ ctx[c] = "live"
  /\ rcv' = [rcv EXCEPT ![c] = "receiving"]
  /\ drain' = [drain EXCEPT ![c] = "draining"]
  /\ starter' = [starter EXCEPT ![c] = IF @ = "asked" THEN "calling" ELSE @]
  /\ http' = [http EXCEPT ![c] = IF background[c] THEN "accepted" ELSE @]
  /\ UNCHANGED <<stream, pipes, background, ctx, held, chan, gotDone, record,
                 stored, told, window, sse, crashes>>

\* agent.Exec fails: Errored, which is persisted before the answer.
StartFails(c) ==
  /\ rcv[c] = "idle" /\ drain[c] = "idle"
  /\ rcv' = [rcv EXCEPT ![c] = "closed"]
  /\ drain' = [drain EXCEPT ![c] = "refusing"]
  /\ status' = [status EXCEPT ![c] = "errored"]
  /\ log' = [log EXCEPT ![c] = Append(@, "done")]
  /\ EndContext(c, "canceled")
  /\ UNCHANGED <<phase, wrote, sent, wire, pipes, background, http, held, chan,
                 gotDone, captured, stored, told, writers, sse, crashes>>

\* A foreground request is answered from the record object when the drain
\* is over: 408 if the deadline was what ended the context, else 200.
Reply(c, code) ==
  /\ http[c] = "waiting" /\ drain[c] = "ended"
  /\ code = IF ctx[c] = "expired" THEN "timeout" ELSE "ok"
  /\ http' = [http EXCEPT ![c] = code]
  /\ told' = [told EXCEPT ![c] = State(status[c], captured[c])]
  /\ UNCHANGED <<stream, pipes, background, ctx, client, drained, record, stored,
                 writers, sse, crashes>>

-----------------------------------------------------------------------------
(***************************************************************************)
(* The receiving goroutine of agent.Client.Exec.                           *)
(***************************************************************************)
Recv(c) ==
  /\ rcv[c] = "receiving" /\ Deliver(c)
  /\ rcv' = [rcv EXCEPT ![c] = "holding"]
  /\ held' = [held EXCEPT ![c] = Head(wire[c])]
  /\ UNCHANGED <<request, chan, drained, record, stored, told, writers, sse,
                 crashes>>

\* Regressions of the send: it drops on a full channel; it ignores the cap.
ForwardOrDrop(c) ==
  /\ rcv[c] = "holding" /\ rcv' = [rcv EXCEPT ![c] = "receiving"]
  /\ chan' = [chan EXCEPT ![c] =
                IF Len(@) < ChanCap THEN Append(@, held[c]) ELSE @]
  /\ UNCHANGED <<stream, pipes, request, held, drained, record, stored, told,
                 writers, sse, crashes>>
ForwardUnbounded(c) ==
  /\ rcv[c] = "holding" /\ rcv' = [rcv EXCEPT ![c] = "receiving"]
  /\ chan' = [chan EXCEPT ![c] = Append(@, held[c])]
  /\ UNCHANGED <<stream, pipes, request, held, drained, record, stored, told,
                 writers, sse, crashes>>

\* The send on the channel, which blocks while it is full.
Forward(c) ==
  /\ rcv[c] = "holding" /\ Len(chan[c]) < ChanCap
  /\ rcv' = [rcv EXCEPT ![c] = "receiving"]
  /\ chan' = [chan EXCEPT ![c] = Append(@, held[c])]
  /\ UNCHANGED <<stream, pipes, request, held, drained, record, stored, told,
                 writers, sse, crashes>>

\* A regression: the stream is opened with a context of its own.
EndedByAgent(c) == phase[c] = "over" /\ wire[c] = <<>>
\* Recv reports the end: the agent returned, or the stream is dead.
EndOfStream(c) == (phase[c] = "over" /\ wire[c] = <<>>) \/ link[c] = "cut"

RecvEnds(c) ==
  /\ rcv[c] = "receiving" /\ EndOfStream(c)
  /\ rcv' = [rcv EXCEPT ![c] = "closed"]
  /\ UNCHANGED <<stream, pipes, request, held, chan, drained, record, stored,
                 told, writers, sse, crashes>>

-----------------------------------------------------------------------------
(***************************************************************************)
(* drainIntoRecord.                                                        *)
(***************************************************************************)
Take(c) ==
  /\ drain[c] = "draining" /\ chan[c] # <<>>
  /\ chan' = [chan EXCEPT ![c] = Tail(@)]

DrainOutput(c, s) ==
  /\ Take(c) /\ Head(chan[c]) = s
  /\ log' = [log EXCEPT ![c] = Append(@, s)]
  /\ captured' = [captured EXCEPT ![c][s] = @ + 1]
  /\ UNCHANGED <<stream, pipes, request, rcv, held, drained, status, stored, told,
                 writers, sse, crashes>>

\* Complete on the record, then the UPDATE of the row (Save).
DrainDone(c) ==
  /\ Take(c) /\ Head(chan[c]) = "done"
  /\ status' = [status EXCEPT ![c] = "completed"]
  /\ log' = [log EXCEPT ![c] = Append(@, "done")]
  /\ gotDone' = [gotDone EXCEPT ![c] = TRUE]
  /\ drain' = [drain EXCEPT ![c] = "completing"]
  /\ UNCHANGED <<stream, pipes, request, rcv, held, captured, stored, told,
                 writers, sse, crashes>>

\* A regression: the end of the stream is taken for the end of the exec.
DrainEndsQuietly(c) ==
  /\ drain[c] = "draining" /\ chan[c] = <<>> /\ rcv[c] = "closed"
  /\ drain' = [drain EXCEPT ![c] = "ended"] /\ EndContext(c, "canceled")
  /\ UNCHANGED <<phase, wrote, sent, wire, pipes, background, http, client,
                 gotDone, record, stored, told, writers, sse, crashes>>

\* The channel is closed and empty: cancel() and return, after Errored if no
\* Done frame has come.
DrainEnds(c) ==
  /\ drain[c] = "draining" /\ chan[c] = <<>> /\ rcv[c] = "closed"
  /\ IF gotDone[c]
     THEN /\ drain' = [drain EXCEPT ![c] = "ended"]
          /\ EndContext(c, "canceled") /\ UNCHANGED <<status, log>>
     ELSE /\ drain' = [drain EXCEPT ![c] = "erroring"]
          /\ status' = [status EXCEPT ![c] = "errored"]
          /\ log' = [log EXCEPT ![c] = Append(@, "done")]
          /\ UNCHANGED <<ctx, link>>
  /\ UNCHANGED <<phase, wrote, sent, wire, pipes, background, http, client,
                 gotDone, captured, stored, told, writers, sse, crashes>>

\* What follows persistFinal: the loop, or cancel() and the end.
Proceed(c) ==
  \/ /\ drain[c] = "completing"
     /\ drain' = [drain EXCEPT ![c] = "draining"]
     /\ UNCHANGED <<http, ctx, link>>
  \/ /\ drain[c] = "erroring"
     /\ drain' = [drain EXCEPT ![c] = "ended"]
     /\ EndContext(c, "canceled") /\ UNCHANGED http
  \/ /\ drain[c] = "refusing"
     /\ drain' = [drain EXCEPT ![c] = "failed"]
     /\ http' = [http EXCEPT ![c] = "failed"] /\ UNCHANGED <<ctx, link>>

\* persistFinal: the UPDATE of the row, which may fail.
Save(c) ==
  /\ Proceed(c)
  /\ row' = [row EXCEPT ![c] = State(status[c], captured[c])]
  /\ UNCHANGED <<phase, wrote, sent, wire, pipes, background, client, gotDone,
                 record, inMemory, lost, told, writers, sse, crashes>>

SaveFails(c) ==
  /\ Proceed(c)
  /\ lost' = [lost EXCEPT ![c] = TRUE]
  /\ UNCHANGED <<phase, wrote, sent, wire, pipes, background, client, gotDone,
                 record, inMemory, row, told, writers, sse, crashes>>

\* A fan-out panics (ExecRecord!SendOnClosed) in the handler, after the record
\* has changed: the context is cancelled, the row is not updated, the recover
\* middleware answers 500.  In the goroutine of a background exec the panic
\* ends the adapter: Crash.
Recovered(c) ==
  /\ drain' = [drain EXCEPT ![c] = "panicked"]
  /\ http' = [http EXCEPT ![c] = "failed"]
  /\ EndContext(c, "canceled")

\* The fan-out of Append or Complete.
FramePanics(c) ==
  /\ Take(c) /\ ~background[c] /\ Recovered(c)
  /\ log' = [log EXCEPT ![c] = Append(@, Head(chan[c]))]
  /\ IF Head(chan[c]) = "done"
     THEN status' = [status EXCEPT ![c] = "completed"] /\ UNCHANGED captured
     ELSE captured' = [captured EXCEPT ![c][Head(chan[c])] = @ + 1]
            /\ UNCHANGED status
  /\ UNCHANGED <<phase, wrote, sent, wire, pipes, background, rcv, held, gotDone,
                 stored, told, writers, sse, crashes>>

\* The fan-out of Errored, after StartFails, also of a background exec, or
\* after DrainEnds.
ErroredPanics(c) ==
  /\ \/ rcv[c] = "idle" /\ drain[c] = "idle"
     \/ /\ drain[c] = "draining" /\ chan[c] = <<>> /\ rcv[c] = "closed"
        /\ ~gotDone[c] /\ ~background[c]
  /\ rcv' = [rcv EXCEPT ![c] = "closed"]
  /\ status' = [status EXCEPT ![c] = "errored"]
  /\ log' = [log EXCEPT ![c] = Append(@, "done")]
  /\ Recovered(c)
  /\ UNCHANGED <<phase, wrote, sent, wire, pipes, background, held, chan, gotDone,
                 captured, stored, told, writers, sse, crashes>>

Panics(c) == FramePanics(c) \/ ErroredPanics(c)

-----------------------------------------------------------------------------
(***************************************************************************)
(* The initial stdin: StdinWrite with the data and eof, retried while the  *)
(* answer is NotFound.  The agent looks the exec up, writes, closes.       *)
(***************************************************************************)
Listed(c) == phase[c] \in {"running", "done"}
StarterGoto(c, from, to) ==
  starter[c] = from /\ starter' = [starter EXCEPT ![c] = to]
RestOfStarter(c) ==
  UNCHANGED <<request, client, drained, record, stored, told, window, sse,
              crashes>>

StarterFound(c) ==
  /\ StarterGoto(c, "calling", "writing") /\ Listed(c)
  /\ UNCHANGED <<stream, pipes>> /\ RestOfStarter(c)

\* A regression: NotFound is not retried.
StarterGivesUp(c) ==
  /\ StarterGoto(c, "calling", "lost") /\ ~Listed(c)
  /\ UNCHANGED <<stream, pipes>> /\ RestOfStarter(c)
StarterNotFound(c) ==
  /\ StarterGoto(c, "calling", IF window[c] = "open" THEN "pausing" ELSE "lost")
  /\ ~Listed(c)
  /\ UNCHANGED <<stream, pipes>> /\ RestOfStarter(c)

StarterRetries(c) ==
  /\ StarterGoto(c, "pausing", "calling")
  /\ UNCHANGED <<stream, pipes>> /\ RestOfStarter(c)

\* The context is over, or the connection fails the call: the agent may still
\* serve it.
StarterStops(c) ==
  /\ \E from \in {"calling", "pausing", "writing", "closing"} :
       StarterGoto(c, from, "lost")
  /\ ctx[c] # "live" \/ link[c] = "cut"
  /\ UNCHANGED <<stream, pipes>> /\ RestOfStarter(c)

StarterWrites(c) ==
  /\ StarterGoto(c, "writing", "closing") /\ Feed(c, InitialOf[c])
  /\ RestOfStarter(c)

StarterCloses(c) ==
  /\ StarterGoto(c, "closing", "done") /\ CloseInput(c) /\ RestOfStarter(c)

\* The stdin is closed, or the process does not read it any more.
StarterRefused(c) ==
  /\ \/ StarterGoto(c, "writing", "refused")
     \/ StarterGoto(c, "closing", "refused") /\ stdin[c] = "closed"
  /\ UNCHANGED <<stream, pipes>> /\ RestOfStarter(c)

WindowEnds(c) ==
  /\ window[c] = "open" /\ starter[c] \in {"calling", "pausing"}
  /\ window' = [window EXCEPT ![c] = "over"]
  /\ UNCHANGED <<stream, pipes, request, client, drained, record, stored, told,
                 starter, sse, crashes>>

\* A user's Stdin request that finds the exec: its end of file, its data.  So
\* does an initial request that the agent still holds when its sender is gone.
UserEOF(c) ==
  /\ rcv[c] # "idle" /\ CloseInput(c)
  /\ UNCHANGED adapter

UserWrites(c) ==
  /\ rcv[c] # "idle" /\ UNCHANGED adapter
  /\ \E w \in Writer :
       /\ \A i \in 1..Len(input[c]) : input[c][i] # w
       /\ \A d \in Call : w = InitialOf[d] => d = c /\ starter[c] = "lost"
       /\ Feed(c, w)

-----------------------------------------------------------------------------
(***************************************************************************)
(* Reading the exec back: from the object while the registry holds it,     *)
(* else from a record rebuilt from the row by NewExecRecordFromDB.         *)
(***************************************************************************)
\* A regression: an empty stdout column hides the stderr one.
LoadedWithoutStderr(r) ==
  IF r.output["out"] = 0 THEN State(r.status, NoOutput) ELSE r
\* Status and Output() of the rebuilt record.
Loaded(r) == r

\* Its chunks: one for each column that is not empty, then the marker.
Blob(r, s) == IF r.output[s] = 0 THEN <<>> ELSE <<[kind |-> s, n |-> r.output[s]]>>
LoadedChunks(r) ==
  Blob(r, "out") \o Blob(r, "err")
    \o IF r.status \in Final THEN <<[kind |-> "done", n |-> 0]>> ELSE <<>>

Chunks(c) ==
  IF inMemory[c] THEN [i \in 1..Len(log[c]) |-> [kind |-> log[c][i], n |-> 1]]
                 ELSE LoadedChunks(row[c])

\* GetOutput (its two reads are ExecRecord!PollCall).
Poll(c) ==
  LET now == IF inMemory[c] THEN State(status[c], captured[c]) ELSE Loaded(row[c])
  IN
  /\ told' = [told EXCEPT ![c] = IF now.status \in Final THEN now ELSE @]
  /\ UNCHANGED <<stream, pipes, request, client, drained, record, stored, writers,
                 sse, crashes>>

\* GetOutputStream gives a client the next chunk; a client that reconnects
\* resumes after the last event it received.  Streams of a running exec are
\* the subject of ExecRecord: here it reads once the exec is over.
SseEvent(c) ==
  LET reader == sse[c]
      chunk  == Chunks(c)[reader.next + 1]
  IN
  /\ c \in Streaming /\ (status[c] \in Final \/ ~inMemory[c])
  /\ ~reader.done /\ reader.next < Len(Chunks(c))
  /\ sse' = [sse EXCEPT ![c] =
       [next   |-> reader.next + 1,
        output |-> [s \in Stream |->
           reader.output[s] + IF chunk.kind = s THEN chunk.n ELSE 0],
        done   |-> chunk.kind = "done"]]
  /\ UNCHANGED <<stream, pipes, request, client, drained, record, stored, told,
                 writers, crashes>>

\* DeleteBySandbox drops the record; its drain keeps the object.
Evict(c) ==
  /\ inMemory[c] /\ inMemory' = [inMemory EXCEPT ![c] = FALSE]
  /\ UNCHANGED <<stream, pipes, request, client, drained, record, row, lost, told,
                 writers, sse, crashes>>

\* The adapter dies and restarts: goroutines, streams and records are gone,
\* Reconcile marks the running rows errored.
Crash ==
  /\ crashes < MaxCrashes /\ crashes' = crashes + 1
  /\ link' = [c \in Call |-> "cut"] /\ ctx' = [c \in Call |->
                IF ctx[c] = "live" THEN "canceled" ELSE ctx[c]]
  /\ http' = [c \in Call |-> IF http[c] = "waiting" THEN "gone" ELSE http[c]]
  /\ rcv' = [c \in Call |-> "closed"] /\ chan' = [c \in Call |-> <<>>]
  /\ drain' = [c \in Call |-> "dead"]
  /\ starter' = [c \in Call |->
       IF starter[c] \in {"calling", "pausing", "writing", "closing"}
       THEN "lost" ELSE starter[c]]
  /\ inMemory' = [c \in Call |-> FALSE]
  /\ lost' = [c \in Call |->
       lost[c] \/ (status[c] \in Final /\ row[c].status = "running")]
  /\ row' = [c \in Call |->
       IF row[c].status = "running" THEN State("errored", NoOutput) ELSE row[c]]
  /\ status' = [c \in Call |-> "running"] /\ log' = [c \in Call |-> <<>>]
  /\ captured' = [c \in Call |-> NoOutput]
  /\ gotDone' = [c \in Call |-> FALSE] /\ held' = [c \in Call |-> "done"]
  /\ window' = [c \in Call |-> "over"]
  /\ UNCHANGED <<phase, wrote, sent, wire, pipes, background, told, sse>>

-----------------------------------------------------------------------------
\* The agent's own steps, and the loss of the connection, also by a DELETE.
AgentStep(c) ==
  /\ \/ Begin(c) /\ rcv[c] # "idle" /\ link[c] = "up"
     \/ ServeCall(c) /\ \A s \in Stream : wrote'[c][s] <= MaxWrites
     \/ Cut(c) /\ rcv[c] # "idle"
  /\ UNCHANGED adapter

Create(c)   == StartStream(c) \/ StartFails(c) \/ \E r \in {"ok", "timeout"} : Reply(c, r)
Receiver(c) == Recv(c) \/ Forward(c) \/ RecvEnds(c)
Drain(c)    == (\E s \in Stream : DrainOutput(c, s)) \/ DrainDone(c) \/ DrainEnds(c)
                 \/ Save(c) \/ SaveFails(c)
Starter(c)  == StarterFound(c) \/ StarterNotFound(c) \/ StarterRetries(c)
                 \/ StarterStops(c) \/ StarterCloses(c)
User(c)     == UserEOF(c) \/ UserWrites(c)
Reader(c)   == Poll(c) \/ SseEvent(c) \/ Evict(c)

Next ==
  \/ \E c \in Call :
       \/ AgentStep(c) \/ Expire(c) \/ CallerLeaves(c) \/ Create(c)
       \/ Receiver(c) \/ Drain(c) \/ Panics(c) \/ Starter(c)
       \/ StarterWrites(c) \/ StarterRefused(c) \/ WindowEnds(c)
       \/ User(c) \/ Reader(c)
  \/ Crash

Spec == Init /\ [][Next]_vars

\* Goroutines run while they can, a statement returns or fails, a deadline
\* passes.  The agent, its process and the callers are under no obligation;
\* a write to a stdin nobody reads may block for ever.
Fairness == \A c \in Call :
  WF_vars(Create(c)) /\ WF_vars(Receiver(c)) /\ WF_vars(Drain(c))
    /\ WF_vars(Expire(c)) /\ WF_vars(Starter(c))
FairSpec == Spec /\ Fairness
-----------------------------------------------------------------------------
(***************************************************************************)
(* Properties.                                                             *)
(***************************************************************************)

\* The fields, the channel and the goroutines have the types of the code.
TypeOK ==
  /\ phase \in [Call -> {"idle", "called", "running", "done", "over"}]
  /\ wrote \in [Call -> [Stream -> Nat]] /\ sent \in [Call -> [Stream -> Nat]]
  /\ wire \in [Call -> Seq(Frame)] /\ link \in [Call -> {"up", "cut"}]
  /\ stdin \in [Call -> {"open", "closed"}] /\ input \in [Call -> Seq(Writer)]
  /\ background \in [Call -> BOOLEAN]
  /\ http \in [Call -> {"waiting", "accepted", "ok", "timeout", "failed", "gone"}]
  /\ ctx \in [Call -> {"live", "expired", "canceled"}]
  /\ rcv \in [Call -> {"idle", "receiving", "holding", "closed"}]
  /\ held \in [Call -> Frame]
  /\ chan \in [Call -> Seq(Frame)] /\ \A c \in Call : Len(chan[c]) <= ChanCap
  /\ drain \in [Call -> {"idle", "draining", "completing", "erroring", "refusing",
                         "ended", "failed", "panicked", "dead"}]
  /\ gotDone \in [Call -> BOOLEAN]
  /\ status \in [Call -> {"running"} \cup Final]
  /\ log \in [Call -> Seq(Frame)] /\ captured \in [Call -> [Stream -> Nat]]
  /\ inMemory \in [Call -> BOOLEAN] /\ lost \in [Call -> BOOLEAN]
  /\ row \in [Call -> [status : {"running"} \cup Final, output : [Stream -> Nat]]]
  /\ told \in [Call -> [status : {"running"} \cup Final, output : [Stream -> Nat]]]
  /\ starter \in [Call -> {"none", "asked", "calling", "pausing", "writing",
                           "closing", "done", "lost", "refused"}]
  /\ window \in [Call -> {"open", "over"}]
  /\ sse \in [Call -> [next : Nat, output : [Stream -> Nat], done : BOOLEAN]]
  /\ crashes \in 0..MaxCrashes

\* "The channel closes when the command finishes": an exec is completed only
\* with all that its process wrote to either pipe, through the agent's
\* pumps, the transport, the channel and the drain; so is a 408 answer that
\* finds it completed.
CompletedHasAll ==
  \A c \in Call : status[c] = "completed" => captured[c] = wrote[c]

\* The answer of Create, the record, its row and the record rebuilt from the
\* row agree on how an exec ended: two callers who are told an outcome are told
\* the same status and output, unless that outcome did not reach the row.
\* (That the exec still runs is no outcome: a poll may say so even after
\* another has told the outcome, while the row of an evicted exec is behind.)
AnswersAgree ==
  [][\A c \in Call : told[c].status \in Final
                       => told'[c] = told[c] \/ lost[c]]_told

\* A request that waits is answered: by the end of the exec, its deadline,
\* or the failure of the adapter.
CreateAnswered ==
  \A c \in Call : http[c] = "waiting" ~> http[c] # "waiting"

StreamOver(c) == link[c] = "cut" \/ (phase[c] = "over" /\ wire[c] = <<>>)

\* "The channel closes when the command finishes or the stream errors":
\* when the stream is over the receiving goroutine ends, unless the drain
\* has panicked and left it blocked on a full channel.
ReceiverEnds ==
  \A c \in Call : rcv[c] # "idle" /\ StreamOver(c)
    ~> rcv[c] = "closed" \/ (drain[c] = "panicked" /\ Len(chan[c]) = ChanCap)

\* drainIntoRecord "marks the record errored if the stream closes without a
\* terminal Done frame": no record stays running after its stream.
RecordEnds ==
  \A c \in Call : rcv[c] # "idle" /\ StreamOver(c)
    ~> status[c] # "running" \/ drain[c] \in {"panicked", "dead"}

\* "a small race ... handled by retrying NotFound for up to 500ms": the stdin
\* of a registered exec that has initial stdin gets its end, unless the
\* retries or the exec ended first or its process does not read.
StdinEnds ==
  \A c \in Call : phase[c] = "running" /\ starter[c] \notin {"none", "asked"}
    ~> \/ stdin[c] = "closed" \/ window[c] = "over" \/ ctx[c] # "live"
       \/ link[c] = "cut" \/ starter[c] \in {"writing", "refused"}

(***************************************************************************)
(* What comments of the code say and the code does not do.                 *)
(***************************************************************************)

\* exec.go:345 "Reconnect support via the standard SSE Last-Event-ID header",
\* record.go:118 "Output(), Snapshot(), and Subscribe() all return consistent
\* results": a client that has received the terminal event of an exec has all
\* the output stored for it, also if it reconnected after a restart.
StreamIsComplete ==
  \A c \in Call : sse[c].done /\ row[c].status = "completed"
                     => sse[c].output = row[c].output
=============================================================================
