------------------------------ MODULE ExecRecord ------------------------------
(***************************************************************************)
(* One ExecRecord of the adapter (adapter/internal/exec/record.go), the    *)
(* goroutine that fills it (drainIntoRecord), the handlers that stream it  *)
(* to SSE clients (GetOutputStream) and those that poll it (GetOutput).    *)
(*                                                                         *)
(* A section of code that holds r.mu is one action; what happens between   *)
(* two such sections may be interleaved with every other goroutine.  In    *)
(* particular Append and finish choose their receivers under the lock and  *)
(* send after releasing it, one receiver at a time.                        *)
(*                                                                         *)
(* Abstractions.  A chunk is its sequence number and whether it is the     *)
(* terminal marker: stdout and stderr take the same path, so both are      *)
(* "output", and payload bytes are counted, not stored.  Exit codes,       *)
(* timestamps and the immutable request fields are left out.               *)
(***************************************************************************)
EXTENDS Integers, Sequences, FiniteSets

CONSTANTS
  Client,        \* SSE clients of this exec
  Poller,        \* clients that poll GET .../output once
  MaxConn,       \* bound: connections one SSE client opens
  ChanCap,       \* capacity of a subscriber channel (64 in the code)
  HardCap,       \* MaxOutputBytesHard
  DefaultCap,    \* the 10 MiB the handler puts for an absent limit
  Requested,     \* values of max_output_bytes a caller may send
  FrameSizes,    \* sizes of the agent's output frames
  MaxOffered,    \* bound: bytes the agent offers in all
  Background     \* is the exec a background one?

ASSUME ConstantsOK ==
  /\ MaxConn \in Nat /\ ChanCap \in Nat \ {0} /\ MaxOffered \in Nat
  /\ HardCap \in Nat \ {0} /\ DefaultCap \in Int
  /\ Requested \subseteq Int /\ Requested # {}
  /\ FrameSizes \subseteq Nat \ {0}
  /\ Background \in BOOLEAN

VARIABLES
  maxOutputBytes, status, chunks, nextSeq, outputBytes, truncated,
  subscribers,   \* channels registered for live chunks
  producer,      \* the goroutine running drainIntoRecord
  gotDone,       \* its local flag: the agent's Done frame was seen
  sending,       \* the chunk being fanned out
  targets,       \* the receivers (subs) not served yet
  buf, closed,   \* contents of the subscriber channels; those closed
  conn,          \* what the handler serving each client is doing
  attempt,       \* number of connections each client has opened
  seen,          \* sequence numbers each client has received, in order
  poll,          \* the pollers' requests
  offered,       \* history: bytes handed to Append
  dropped        \* history: chunks a full channel cost each client

record   == <<maxOutputBytes, status, chunks, nextSeq, outputBytes, truncated>>
fanout   == <<sending, targets>>
channels == <<buf, closed, subscribers>>
clients  == <<conn, attempt, seen>>
vars == <<record, fanout, channels, clients, producer, gotDone, poll, offered,
          dropped>>

Chan == Client \X (1..MaxConn)          \* one channel per connection
Chunk == [seq : Nat, kind : {"output", "done"}]
NoChunk == [seq |-> 0, kind |-> "output"]
Current(k) == <<k, attempt[k]>>         \* the channel of k's connection
MinOf(a, b) == IF a < b THEN a ELSE b

(***************************************************************************)
(* The limit of a record: Create replaces an absent limit by the default,  *)
(* NewExecRecord clamps what is not positive or too large to the hard cap. *)
(***************************************************************************)
RequestCap(n) == IF n = 0 THEN DefaultCap ELSE n
\* A regression of the clamp: a negative limit is kept.
ClampCapKeepsNegative(n) == IF n > HardCap THEN HardCap ELSE n
ClampCap(n) == IF n <= 0 \/ n > HardCap THEN HardCap ELSE n

Init ==
  /\ \E n \in Requested : maxOutputBytes = ClampCap(RequestCap(n))
  /\ status = "running" /\ chunks = <<>> /\ nextSeq = 0
  /\ outputBytes = 0 /\ truncated = FALSE
  /\ subscribers = {} /\ closed = {} /\ buf = [c \in Chan |-> <<>>]
  /\ producer = "draining" /\ gotDone = FALSE
  /\ sending = NoChunk /\ targets = {}
  /\ conn = [k \in Client |-> "idle"]
  /\ attempt = [k \in Client |-> 0]
  /\ seen = [k \in Client |-> <<>>]
  /\ poll = [p \in Poller |->
               [step |-> 1, status |-> "running", truncated |-> FALSE, upto |-> 0]]
  /\ offered = 0 /\ dropped = [k \in Client |-> {}]

-----------------------------------------------------------------------------
(***************************************************************************)
(* The producer.  It takes the next frame only when the fan-out of the     *)
(* previous chunk is over.                                                 *)
(***************************************************************************)
ReadyForFrame == producer = "draining" /\ targets = {}

\* Regressions of Publish: the sequence number is not advanced; the terminal
\* chunk is recorded and not fanned out.
PublishSameSeq(kind) ==
  LET chunk == [seq |-> nextSeq, kind |-> kind] IN
  /\ chunks' = Append(chunks, chunk) /\ sending' = chunk
  /\ targets' = subscribers /\ UNCHANGED nextSeq
PublishDoneSilently(kind) ==
  LET chunk == [seq |-> nextSeq, kind |-> kind] IN
  /\ chunks' = Append(chunks, chunk) /\ sending' = chunk
  /\ nextSeq' = nextSeq + 1
  /\ targets' = IF kind = "done" THEN {} ELSE subscribers

\* Append a chunk to the history and choose its receivers, under r.mu.
Publish(kind) ==
  LET chunk == [seq |-> nextSeq, kind |-> kind] IN
  /\ chunks' = Append(chunks, chunk)
  /\ nextSeq' = nextSeq + 1
  /\ sending' = chunk
  /\ targets' = subscribers

\* What the cap leaves; and a regression of it, off by one.
RemainingPlusOne == maxOutputBytes - outputBytes + 1
Remaining == maxOutputBytes - outputBytes

\* Append with room left: keep what fits, flag what does not.
AppendChunk(n) ==
  /\ ReadyForFrame /\ ~gotDone
  /\ offered + n <= MaxOffered
  /\ Remaining > 0
  /\ truncated' = (truncated \/ n > Remaining)
  /\ outputBytes' = outputBytes + MinOf(n, Remaining)
  /\ offered' = offered + n
  /\ Publish("output")
  /\ UNCHANGED <<maxOutputBytes, status, producer, gotDone, channels, clients,
                 poll, dropped>>

\* Append with the cap reached: the chunk is discarded and the flag set.
AppendPastCap(n) ==
  /\ ReadyForFrame /\ ~gotDone
  /\ offered + n <= MaxOffered
  /\ Remaining <= 0
  /\ truncated' = TRUE
  /\ offered' = offered + n
  /\ UNCHANGED <<maxOutputBytes, status, chunks, nextSeq, outputBytes, producer,
                 gotDone, fanout, channels, clients, poll, dropped>>

\* finish: the first call makes the record terminal and publishes the marker.
\* Its one caller here, the drain, makes no second one.
Finish(final) ==
  IF status # "running"
  THEN UNCHANGED <<status, chunks, nextSeq, fanout>>
  ELSE status' = final /\ Publish("done")

\* The Done frame, the agent's last one: Registry.Complete on the record.
DoneFrame ==
  /\ ReadyForFrame /\ ~gotDone
  /\ gotDone' = TRUE
  /\ Finish("completed")
  /\ UNCHANGED <<maxOutputBytes, outputBytes, truncated, producer, channels,
                 clients, poll, offered, dropped>>

\* The agent's channel is closed: end of the loop, Errored without a Done.
\* An Exec that could not be started errors the record in the same way.
StreamClosed ==
  /\ ReadyForFrame
  /\ producer' = "ended"
  /\ IF gotDone THEN UNCHANGED <<status, chunks, nextSeq, fanout>>
                ELSE Finish("errored")
  /\ UNCHANGED <<maxOutputBytes, outputBytes, truncated, gotDone, channels,
                 clients, poll, offered, dropped>>

\* The select of the fan-out, for one receiver: the channel has room.
SendChunk(c) ==
  /\ producer # "panicked" /\ c \in targets
  /\ c \notin closed /\ Len(buf[c]) < ChanCap
  /\ buf' = [buf EXCEPT ![c] = Append(@, sending)]
  /\ targets' = targets \ {c}
  /\ UNCHANGED <<record, sending, closed, subscribers, clients, producer,
                 gotDone, poll, offered, dropped>>

\* The default branch: the channel is full, the receiver misses the chunk.
SkipChunk(c) ==
  /\ producer # "panicked" /\ c \in targets
  /\ c \notin closed /\ Len(buf[c]) >= ChanCap
  /\ dropped' = [dropped EXCEPT ![c[1]] = @ \cup {sending.seq}]
  /\ targets' = targets \ {c}
  /\ UNCHANGED <<record, sending, channels, clients, producer, gotDone, poll,
                 offered>>

\* A send on a channel closed since the lock was released panics.  The
\* recover middleware saves the adapter when the handler drains the exec
\* itself; nothing does in the goroutine of a background exec.
SendOnClosed(c) ==
  /\ producer # "panicked" /\ c \in targets /\ c \in closed
  /\ producer' = "panicked"
  /\ UNCHANGED <<record, fanout, channels, clients, gotDone, poll, offered,
                 dropped>>

Serving == ~(Background /\ producer = "panicked")

-----------------------------------------------------------------------------
(***************************************************************************)
(* The SSE handler.  A client resumes after the last event it received.    *)
(***************************************************************************)
FromSeq(k) == IF seen[k] = <<>> THEN 0 ELSE seen[k][Len(seen[k])] + 1

\* Regressions of the replay: Last-Event-ID is ignored; the first chunk to
\* replay is skipped too (c.Seq <= fromSeq).
ReplayAll(from) == chunks
ReplayTooLate(from) == SubSeq(chunks, from + 2, Len(chunks))

\* The chunks Subscribe replays.  A chunk's Seq is its position in the
\* history (SeqIsPosition), so skipping Seq < fromSeq leaves a suffix.
Replay(from) == SubSeq(chunks, from + 1, Len(chunks))

\* Subscribe, under r.mu: nobody reads the channel yet, so the replay fills
\* it up to its capacity and skips the rest.
Subscribe(k) ==
  LET c      == <<k, attempt[k] + 1>>
      replay == Replay(FromSeq(k))
      fits   == MinOf(Len(replay), ChanCap)
  IN
  /\ Serving /\ conn[k] = "idle" /\ attempt[k] < MaxConn
  /\ attempt' = [attempt EXCEPT ![k] = @ + 1]
  /\ conn' = [conn EXCEPT ![k] = "streaming"]
  /\ buf' = [buf EXCEPT ![c] = SubSeq(replay, 1, fits)]
  /\ dropped' = [dropped EXCEPT ![k] =
                   @ \cup {replay[i].seq : i \in (fits + 1)..Len(replay)}]
  /\ IF status = "running"
     THEN subscribers' = subscribers \cup {c} /\ UNCHANGED closed
     ELSE closed' = closed \cup {c} /\ UNCHANGED subscribers
  /\ UNCHANGED <<record, fanout, producer, gotDone, seen, poll, offered>>

\* The handler writes the next chunk as an event; Done ends the stream.
Receive(k) ==
  LET c == Current(k) IN
  /\ Serving /\ conn[k] = "streaming" /\ buf[c] # <<>>
  /\ buf' = [buf EXCEPT ![c] = Tail(@)]
  /\ seen' = [seen EXCEPT ![k] = Append(@, Head(buf[c]).seq)]
  /\ conn' = [conn EXCEPT ![k] =
                IF Head(buf[c]).kind = "done" THEN "leaving" ELSE "streaming"]
  /\ UNCHANGED <<record, fanout, closed, subscribers, attempt, producer, gotDone,
                 poll, offered, dropped>>

\* The write of the event fails: the chunk is taken and does not arrive.
WriteFails(k) ==
  LET c == Current(k) IN
  /\ Serving /\ conn[k] = "streaming" /\ buf[c] # <<>>
  /\ buf' = [buf EXCEPT ![c] = Tail(@)]
  /\ conn' = [conn EXCEPT ![k] = "leaving"]
  /\ UNCHANGED <<record, fanout, closed, subscribers, attempt, seen, producer,
                 gotDone, poll, offered, dropped>>

\* The channel is closed and drained: the handler returns.
ChannelClosed(k) ==
  /\ Serving /\ conn[k] = "streaming"
  /\ buf[Current(k)] = <<>> /\ Current(k) \in closed
  /\ conn' = [conn EXCEPT ![k] = "leaving"]
  /\ UNCHANGED <<record, fanout, channels, attempt, seen, producer, gotDone,
                 poll, offered, dropped>>

\* The request's context ends, or a heartbeat cannot be written.
Disconnect(k) ==
  /\ Serving /\ conn[k] = "streaming"
  /\ conn' = [conn EXCEPT ![k] = "leaving"]
  /\ UNCHANGED <<record, fanout, channels, attempt, seen, producer, gotDone,
                 poll, offered, dropped>>

\* The deferred cancel, under r.mu: remove the subscription, close the
\* channel.  It does nothing for a channel Subscribe closed itself.
Cancel(k) ==
  LET c == Current(k) IN
  /\ Serving /\ conn[k] = "leaving"
  /\ subscribers' = subscribers \ {c}
  /\ closed' = IF c \in subscribers THEN closed \cup {c} ELSE closed
  /\ conn' = [conn EXCEPT ![k] = "idle"]
  /\ UNCHANGED <<record, fanout, buf, attempt, seen, producer, gotDone, poll,
                 offered, dropped>>

-----------------------------------------------------------------------------
(***************************************************************************)
(* GetOutput reads the record twice, each time under r.mu: the metadata,   *)
(* then the output.  A poll is answered when both calls are made.          *)
(***************************************************************************)
PollOutputFirst == <<"output", "snapshot">>    \* a regression: reads swapped
PollOrder == <<"snapshot", "output">>

PollCall(p) ==
  LET req == poll[p] IN
  /\ Serving /\ req.step \in DOMAIN PollOrder
  /\ poll' = [poll EXCEPT ![p] =
       IF PollOrder[req.step] = "snapshot"
       THEN [req EXCEPT !.step = req.step + 1, !.status = status,
                        !.truncated = truncated]
       ELSE [req EXCEPT !.step = req.step + 1, !.upto = Len(chunks)]]
  /\ UNCHANGED <<record, fanout, channels, clients, producer, gotDone, offered,
                 dropped>>

-----------------------------------------------------------------------------
Produce == (\E n \in FrameSizes : AppendChunk(n) \/ AppendPastCap(n))
             \/ DoneFrame \/ StreamClosed
FanOut == \E c \in Chan : SendChunk(c) \/ SkipChunk(c) \/ SendOnClosed(c)
Serve(k) == \/ Subscribe(k) \/ Receive(k) \/ WriteFails(k)
            \/ ChannelClosed(k) \/ Disconnect(k) \/ Cancel(k)

Next == Produce \/ FanOut \/ (\E k \in Client : Serve(k))
          \/ (\E p \in Poller : PollCall(p))

Spec == Init /\ [][Next]_vars

\* The Go scheduler runs the fan-out loop, which never blocks, to its end,
\* and a handler whose client keeps reading writes what its channel holds.
\* Nothing obliges the agent to send, nor a client to connect or to leave.
Fairness == WF_vars(FanOut)
              /\ \A k \in Client : WF_vars(Receive(k) \/ ChannelClosed(k) \/ Cancel(k))
FairSpec == Spec /\ Fairness
-----------------------------------------------------------------------------
(***************************************************************************)
(* Properties.                                                             *)
(***************************************************************************)

\* The fields of the record, the channels and the goroutines' local state
\* have the types the code declares, and the sizes its bounds allow.
TypeOK ==
  /\ maxOutputBytes \in 1..HardCap
  /\ status \in {"running", "completed", "errored"}
  /\ chunks \in Seq(Chunk) /\ nextSeq \in Nat
  /\ outputBytes \in Nat /\ truncated \in BOOLEAN /\ offered \in Nat
  /\ producer \in {"draining", "ended", "panicked"} /\ gotDone \in BOOLEAN
  /\ sending \in Chunk /\ targets \subseteq Chan
  /\ subscribers \subseteq Chan /\ closed \subseteq Chan
  /\ buf \in [Chan -> Seq(Chunk)] /\ \A c \in Chan : Len(buf[c]) <= ChanCap
  /\ conn \in [Client -> {"idle", "streaming", "leaving"}]
  /\ attempt \in [Client -> 0..MaxConn]
  /\ \A k \in Client : conn[k] # "idle" => attempt[k] > 0
  /\ seen \in [Client -> Seq(Nat)]
  /\ dropped \in [Client -> SUBSET Nat]
  /\ poll \in [Poller -> [step : 1..(Len(PollOrder) + 1),
                         status : {"running", "completed", "errored"},
                         truncated : BOOLEAN, upto : Nat]]

\* A chunk's Seq is its position in the history.
SeqIsPosition ==
  /\ nextSeq = Len(chunks)
  /\ \A i \in 1..Len(chunks) : chunks[i].seq = i - 1

\* NewExecRecord and Append: whatever limit the caller asks for, a record
\* holds exactly the first maxOutputBytes bytes the agent produced, never
\* more than the hard cap, and says so when it lost any.
OutputIsCapped ==
  /\ outputBytes <= HardCap
  /\ outputBytes = MinOf(offered, maxOutputBytes)
  /\ truncated <=> offered > outputBytes

\* "preserving strict seq ordering on the subscriber's channel": over all
\* its connections a client never receives a chunk twice or out of order,
\* although fan-outs, replays and reconnects interleave.
OrderedDelivery ==
  \A k \in Client : \A i, j \in 1..Len(seen[k]) :
     i < j => seen[k][i] < seen[k][j]

\* The only chunks missing from what a resuming client received are those
\* the select of Append, finish or Subscribe skipped because its channel
\* was full: none is lost between a replay and the first live chunk, nor
\* by a connection that broke with chunks still in its channel.
GapsAreDrops ==
  \A k \in Client : \A s \in 0..(FromSeq(k) - 1) :
     \/ \E i \in 1..Len(seen[k]) : seen[k][i] = s
     \/ s \in dropped[k]

\* GetOutput: an answer that says the exec is over carries all its output
\* and the final truncation flag, though the two reads are not atomic.
PollConsistent ==
  \A p \in Poller :
     poll[p].step > Len(PollOrder) /\ poll[p].status # "running"
        => poll[p].upto = Len(chunks) /\ poll[p].truncated = truncated

\* The record and its streams implement the abstract log.
Abstract == INSTANCE OutputLog
  WITH log <- [i \in 1..Len(chunks) |-> chunks[i].kind]
RefinesOutputLog == Abstract!Spec

\* GetOutputStream: the stream of a finished exec ends, unless the channel
\* was full when the terminal chunk was published or the producer died.
DoneSkipped(k) == nextSeq - 1 \in dropped[k]
EndsUnlessDoneSkipped ==
  \A k \in Client : (conn[k] = "streaming" /\ status # "running")
     ~> (conn[k] # "streaming" \/ DoneSkipped(k) \/ producer = "panicked")

\* "The terminal "done" event ends the stream": a stream that has nothing to
\* send once its exec is over and the fan-out done has a closed channel, or
\* was denied the terminal chunk.  Nothing else leaves it on heartbeats.
QuietStreamsEnd ==
  \A k \in Client :
    conn[k] = "streaming" /\ status # "running" /\ targets = {}
      /\ buf[Current(k)] = <<>>
        => Current(k) \in closed \/ DoneSkipped(k)

(***************************************************************************)
(* What comments of the code say and the code does not do.                 *)
(***************************************************************************)

\* record.go:174 "Append is safe to call from a single producer goroutine":
\* its fan-out never sends on a closed channel.
NoSendOnClosed == producer # "panicked"

\* record.go:220 "They'll reconnect with the last seq they did receive and
\* we replay from there": a resuming client misses no chunk.
ResumeMissesNothing ==
  \A k \in Client : \A s \in 0..(FromSeq(k) - 1) :
     \E i \in 1..Len(seen[k]) : seen[k][i] = s
=============================================================================
