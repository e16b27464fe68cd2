# Verification of the sandbox adapter

TLA+ models, TLC runs and TLAPS proofs for the adapter of microvm-agentic-sandbox:
the Go service in `src/adapter` that creates Kata pods, runs commands in them
through a guest agent and serves their output over HTTP and SSE.
Line numbers below are those of `src/`.

## 1. The system

| part | source | state | operations | interacts with |
|---|---|---|---|---|
| exec record | `adapter/internal/exec/record.go` | one exec's chunk history, status, byte count, subscriber channels, under `r.mu` | Append, Complete, Errored, Subscribe and its cancel, Snapshot, Output | filled by one drain goroutine, read by SSE handlers and pollers |
| exec registry | `adapter/internal/exec/registry.go`, `db/schema.sql` | maps `records` and `bySession` under a lock; the `execs` table | Register, Complete, Errored, Get, List, DeleteBySandbox, Reconcile | Postgres, the handlers |
| sandbox manager | `adapter/internal/sandbox/manager.go`, `k8s/client.go` | the `sandboxes` table, the map of agent clients, the pods | Create, Get, Delete, Reconcile | Postgres, Kubernetes, the agent |
| exec handlers | `adapter/internal/api/exec.go` | locals of each request | Create (and `drainIntoRecord`), Get, GetOutput, GetOutputStream, List, Stdin, Signal | manager, registry, agent client |
| sandbox handlers | `adapter/internal/api/sandboxes.go` | none | Create, Get, Delete | manager, registry |
| agent client | `adapter/internal/agent/client.go` | gRPC connection, one goroutine and a channel of 16 per exec | Exec, StdinWrite, Signal, Ping | guest agent |
| guest agent | `guest-agent/server.go` | map of running execs, one process and two pumps per exec | Exec, StdinWrite, Signal, FileRead, FileWrite, Watch | the process |
| adapter process | `adapter/main.go` | none | start-up, shutdown | all |
| HTTP plumbing | `api/middleware.go`, `router.go`, `errors.go`, `types.go` | none | routing, panic recovery | handlers |
| database layer | `db/db.go` | connection pool | New, Migrate | Postgres |
| agent-client CLI | `agent-client/main.go` | none | one RPC per run | guest agent |

What is hard here, and hence what the properties are about:

* **Concurrency.** Append and finish choose their receivers under `r.mu` and send
  after releasing it, while handlers subscribe, read and cancel. A DELETE, a POST
  exec and a GET of the same exec interleave between every lock and statement.
* **Bounded buffers.** A subscriber channel holds 64 chunks; every send is
  non-blocking, so a chunk may be skipped, also the terminal one.
* **Two copies.** Exec state is in memory and in a table, sandbox state in a table,
  in the cluster and in a map of clients. They are written one after another and
  each write may fail, or succeed without an acknowledgement.
* **Crash and restart.** Memory, handlers and the agents' streams are lost; two
  Reconciles repair the tables before the adapter serves.
* **Deadlines and cancelled requests.** Most calls use the request's context, the
  clean-up calls included.
* **Processes and pipes.** The agent's Exec waits for two pumps that share one
  stream, while the process writes to two bounded pipes, may fork, may be killed by
  the end of its stream, and is written to by requests that looked it up earlier.
* **Queues in a row.** A frame goes from a pump through the transport, the
  receiver's channel and the drain into the record and then into a row; every stage
  can block, and the stream can end at each.

What makes each part correct: a record never exceeds its limit, never changes once
it is finished, and its streams deliver in order without duplicates, missing only
what a full channel cost and ending with the exec (record); memory and table never
disagree on an outcome, no answer is older than its request, no row is left running
without a cause, no record outlives a refusal (registry); no pod
without an owner, no reachable sandbox without a client, no client without a
sandbox, no end cause rewritten, every Create answered (manager); the map of running
execs holds exactly those at work, no process is left behind, all output precedes
Done, no full pipe and no dead stream blocks for ever (agent); a completed exec has
all its output, a waiting request is answered, every goroutine ends with its stream,
and no two callers are told different outcomes (pipeline).

## 2. The modules

| module | what it is |
|---|---|
| `OutputLog` | abstract specification: a log that grows and ends with its first `done`, and clients that read it forwards |
| `ExecRecord` | one record, its producer, its SSE clients and pollers; implements `OutputLog` |
| `AgentService` | abstract specification: what the guest agent promises of each Exec call |
| `GuestAgent` | the agent's server: Exec with its process, pumps and stream, StdinWrite, Signal; implements `AgentService` |
| `ExecPipeline` | an exec end to end: Create, `agent.Client`, `drainIntoRecord`, `writeInitialStdin`, Stdin, the row and the record rebuilt from it; composed with `AgentService` |
| `ExecSystem` | the adapter's side of `ExecPipeline` with `GuestAgent` itself for the agent; implements `ExecPipeline` |
| `ExecRecordProofs`, `ExecRegistryProofs`, `SandboxManagerProofs`, `GuestAgentProofs`, `ExecPipelineProofs`, `ExecSystemProofs` | theorems about the six, for every value of the constants |
| `SandboxSessions` | abstract specification: what the exec handlers rely on of the manager, row, client and Delete of each sandbox |
| `ExecRegistry` | the registry over its table, with POST exec, GET, DELETE, crash and restart; composed with `SandboxSessions` |
| `SandboxManager` | the manager over table, cluster and client map, with crash and restart; implements `SandboxSessions` |
| `MCExecRecord`, `MCExecRegistry`, `MCGuestAgent`, `MCExecPipeline`, `MCExecSystem` | constant values for TLC |

`ExecPipeline` EXTENDS `AgentService`: the agent's steps in it are those of the
abstract specification `GuestAgent` is shown to implement. `ExecSystem` puts the
agent itself in their place and is shown to implement `ExecPipeline`, so that what
is shown of the pipeline holds with the real agent; it also states what needs both
sides to be said, such as that a completed exec has no process left.
Likewise `ExecRegistry` EXTENDS `SandboxSessions`: its sandboxes are those of the
abstract specification `SandboxManager` is shown to implement, so that a POST exec
meets the manager's Delete and Reconcile step by step, and what is shown of it holds
whatever the manager does. Of a sandbox it keeps the row and whether a
client is cached, the two things `Manager.Get` reads, and how far a Delete is; of a
record only its status. `SendOnClosed` of `ExecRecord` is `DrainPanics` of
`ExecRegistry` and one outcome of its `StartFails`, and `StartOnNil` of `ExecRegistry` is what a getter with a nil client
in `SandboxManager` leads to.

### ExecRecord

One action is one section under `r.mu`, one `select` of a fan-out or one turn of
the SSE handler's loop.

| action | code |
|---|---|
| `AppendChunk`, `AppendPastCap` | `Append` up to the release of the lock, with and without room |
| `DoneFrame`, `StreamClosed` | `drainIntoRecord`: `Complete` on the Done frame, `Errored` if the channel closes without one |
| `SendChunk`, `SkipChunk`, `SendOnClosed` | one iteration of the fan-out loop: sent, default branch, panic |
| `Subscribe`, `Cancel` | the two critical sections of `Subscribe` |
| `Receive`, `WriteFails`, `ChannelClosed`, `Disconnect` | `GetOutputStream`'s loop |
| `PollCall` | the two reads of `GetOutput` |

A chunk is a sequence number and a kind; stdout and stderr take the same path, and
payloads are counted (`outputBytes`, `offered`), not stored. A client keeps what it
received over all its connections (`seen`) and resumes with its last event id, as a
browser's EventSource does. `sending` and `targets` are the locals of the fan-out.
The channels of all connections exist from the start (`Client \X 1..MaxConn`), and
`dropped` and `offered` are history variables no guard but the bound
`MaxOffered` reads. A panic of the fan-out ends the producer; in a background exec it ends the
adapter (`Serving`), since only handlers run under `RecoverMiddleware`.

### ExecRegistry

`pc[e]` is the progress of the POST handler of exec `e` from `Manager.Get` to the
final UPDATE. Each statement on the table has a success, a failure, and, where it
matters, a lost acknowledgement. `live` is the status of the record object, which
the drain goroutine keeps after the maps have dropped it; `records` and `bySession`
are the maps; `row` is the table. `Lookup` is the two halves of Get and List; the
record objects found in memory are read when the answer is written, rows when they
were queried. `StartExec` needs a client that no DELETE has closed: on a closed
connection `agent.Exec` fails (`StartFails`, whose `Errored` may panic in its fan-out
before the row is written). A DELETE is `Manager.Delete`, whose
progress is `deleting` of `SandboxSessions` (`EndSandbox`, `CloseAgent`,
`EndManagerDelete`), then `DeleteBySandbox`; `cleanup` tells one that did all its
steps (`answered`) from one that only cleared the records, the row being ended
(`repeated`). `Crash` empties the memory; the manager's Reconcile ends the sandboxes
without a pod one by one (`HostFailed`) and `Restart` is the registry's own, after
which the adapter serves.

### SandboxManager

`create[s]` and `del[s]` are the progress of POST and DELETE of a sandbox, `ctx[s]`
says whether the creating request is still alive, `pod[s]` is the cluster's state.
`leaked`, `skipped` and `unready` are history: the pods a failed step gave up on,
the rows left without a client by an unacknowledged INSERT or a failed check, and
those Reconcile left because the pod was not ready.

The mapping to `SandboxSessions` is about the sandboxes whose creation was answered
(`Answered`), for only they can be posted to; the others count as running with a
client until then. While the process is down or reconciles nobody is served, hence
the mapping has no client: those Reconcile dials appear together when it serves again.

### GuestAgent

One action is a critical section of `s.mu`, a read of a pipe, a Send under `sendMu`
or a system call. `pc[c]` is where the Exec handler of call `c` is.

| action | code |
|---|---|
| `Start`, `StartFails` | the pipes and `cmd.Start`; every refusal before it |
| `Register`, `RefuseDuplicate`, `ReapRefused`, `Unregister` | `registerExec`, its failure with Kill and Wait, the deferred `unregisterExec` |
| `PumpRead`, `PumpEOF`, `PumpSend`, `PumpSendFails` | one turn of `pump` and of `send` |
| `AwaitOut`, `AwaitErr`, `Wait`, `SendDone`, `SendDoneFails` | the handler's wait for the two pumps, `cmd.Wait`, the Done frame |
| `KillOnCancel` | `exec.CommandContext`: the end of the stream's context kills the process |
| `StdinFound`, `NotFound`, `StdinWrite`, `StdinWriteFails`, `StdinClose` | `StdinWrite`: `getExec` under the lock, then the pipe without it |
| `SignalFound`, `Signal` | `Signal`, likewise |
| `ProcWrite`, `Fork`, `OrphanEnds`, `Exit`, `Deliver`, `Cut` | the process, its descendant and the client |

A chunk is the stream it comes from. A descendant (`orphan`) keeps the pipes open
when the process is gone, which is why cancelling a stream need not end its Exec.
`wrote`, `sent` and `input` are history; they are what `AgentService` speaks about.

### ExecPipeline

| action | code |
|---|---|
| `StartStream`, `StartFails`, `Reply` | `Create` after `Register`: `agent.Exec`, its failure, the answer 200 or 408 |
| `Expire`, `CallerLeaves` | the two ways `execCtx` of a foreground exec ends early; a background one has neither |
| `Recv`, `Forward`, `RecvEnds` | the goroutine of `Client.Exec`: `stream.Recv`, the send on the channel, `close(out)` |
| `DrainOutput`, `DrainDone`, `DrainEnds` | `drainIntoRecord` |
| `FramePanics`, `ErroredPanics` | `ExecRecord`'s `SendOnClosed` in the handler: in the fan-out of `Append` or `Complete`; in that of `Errored`, at the end of the drain or after `agent.Exec` failed |
| `Save`, `SaveFails` | `persistFinal` and what follows it |
| `StarterFound` ... `StarterRefused`, `WindowEnds` | `writeInitialStdin` with the agent's side of each call, its retries and its 500 ms |
| `UserEOF`, `UserWrites` | the Stdin handler, its end and its data; also an initial request the agent still holds when its sender is gone |
| `Poll`, `SseEvent` | `GetOutput` and `GetOutputStream`, from the object in memory or from a record rebuilt by `NewExecRecordFromDB` (`Loaded`, `LoadedChunks`) |
| `Evict`, `Crash` | `DeleteBySandbox`; the end of the process, restart and `Reconcile` |
| `AgentStep` | the agent (`AgentService`) and the connection, which may break at any time |

The record object is `status`, `log` (the kinds of its chunks) and `captured` (how
many chunks of each stream): the output cap and the fan-out are `ExecRecord`'s. `told`
is the last final state a caller was told (that an exec still runs is no outcome, and
an evicted exec may be said to run again until its row is written), `lost` marks an outcome whose UPDATE failed
or did not happen before a crash; both are history. `writeInitialStdin` passes its
context to the call, so it may be abandoned at any point (`StarterStops`, `Crash`),
while the agent, whose handler ignores that context, serves the request. A SSE client here reads once
its exec is over or evicted: live streams are `ExecRecord`'s.
`Evict` does not require that the connection was closed: `RepeatDelete` of
`ExecRegistry` clears the records without closing anything.

### ExecSystem

`GuestAgent` is extended, `ExecPipeline` is an instance whose `phase` is a function
of the agent's `pc`; both share the streams (`frames`, `link`), the output counters
and the stdin. A step is the agent's alone, the adapter's alone, or a
meeting of the two.

| action | code |
|---|---|
| `AgentWorks`, `ProcessRuns` | `GuestAgent`'s handler, pumps and kill; its process and descendant |
| `CallArrives`, `StreamBreaks` | an Exec call that has been made reaches the agent; its connection breaks |
| `Receive` | `stream.Recv` takes a frame of the transport |
| `AdapterWorks`, `AdapterDisturbed`, `AdapterCrashes` | the steps of `ExecPipeline` the agent does not see, or sees as the end of the stream |
| `InitialFound` ... `InitialCloses` | an attempt of `writeInitialStdin` is a request at the agent, step by step |
| `InitialOrphaned` | its sender is gone and the agent goes on with it |
| `UserRequest` | a user's Stdin or Signal request at the agent |

## 3. The runs

Passing runs. Deadlock checking is off in all of them, because the system may stop:
an exec ends, requests are made a bounded number of times, and nobody has to call.

| run | shows | bounds |
|---|---|---|
| `RecordStreams` | `OrderedDelivery`, `GapsAreDrops`, refinement of `OutputLog` | 2 clients, 2 connections each, channels of 1, 2 output chunks and the terminal one: fan-out to two receivers, full channels at replay and at fan-out, reconnect before, during and after the end |
| `RecordOutput` | `TypeOK`, `OutputIsCapped`, `PollConsistent`, `QuietStreamsEnd`, `EndsUnlessDoneSkipped` (liveness) | limits -1, 0, 1 and 5 against a hard cap of 3 and a default of 2, frames of 1 and 2 bytes up to 4 bytes: every limit is met exactly, straddled and passed; 1 client with 2 connections, 1 poller, a foreground exec |
| `Registry` | `TypeOK`, `RefusedLeavesNoRecord`, `IndexAgrees`, `MemoryAgreesWithRow`, `RunningRowsAreExplained`, `FreshReads`, `FinalRowIsFinal`, `LateRecordsNeverRan` | 2 execs of one sandbox, 1 reader, 1 crash |
| `Agent` | `TypeOK`, `RegisteredIsReachable`, `NoProcessLeft`, refinement of `AgentService`; `PipesDrain`, `CutEnds`, `StdinWriteReturns` (liveness) | 2 calls for the same exec_id, pipes of 1 chunk, a transport of 1 frame, 1 request; the first call writes 1 chunk to each pipe, may fork and may lose its stream (`Faulty`): both pipes full at once, the pumps in competition for one place, a duplicate refused at every point of the first call |
| `Pipeline` | `TypeOK`, `CompletedHasAll`, `AnswersAgree` (action); `CreateAnswered`, `ReceiverEnds`, `RecordEnds`, `StdinEnds` (liveness) | 1 exec, foreground or background, with or without initial stdin, 1 chunk per pipe over a transport of 1 and a channel of 1 (3 frames: both full while one is held), 1 SSE client, 1 restart, 1 stdin request (the initial one) |
| `System` | `CompletedIsOver`, `InitialOnce` | 1 exec with initial stdin, a user's request, 1 chunk to stderr over a pipe, a transport and a channel of 1 each, a process that may fork, a stream that may break, 1 restart |
| `Manager` | `TypeOK`, `PodsAreAccounted`, `RunningIsReachable`, `NoClientOfEnded`, `NilAgentExplained`, `EndCauseIsFinal`, refinement of `SandboxSessions`, `CreateAnswers` (liveness) | 2 sandboxes, 1 getter, 2 crashes (the second may hit Reconcile) |

`MaxConn`, `MaxOffered`, `MaxCrashes`, `MaxWrites`, `MaxOutput`, `Faulty` and `Streaming` are
bounds of the model, not of the code; `ChanCap`, `PipeCap` and `Window` are the
code's, the kernel's and gRPC's capacities, made small so that they are reached.
Two calls of one exec_id are the only way calls of the agent meet, and the execs of
the pipeline do not meet at all (registration is `ExecRegistry`'s), so one is enough.
Two clients are enough for the record because clients meet only in `subscribers`
and `targets`, which the fan-out treats one at a time; the theorems of section 5
need none of these bounds. That `ExecSystem` implements `ExecPipeline` is proved and
not a run: the properties of the `System` run rest on the same composition, and its
instance keeps every kind of step while one pipe carries output. Two execs of one sandbox are the smallest case in which
a DELETE of one's records affects another's; that a step of one sandbox or exec
leaves the others alone is proved (`CreateFrame`, `StepFrame`, `IndexStep`).

Runs that find a counterexample, each a statement of a comment the code does not
keep (PROJECT.json quotes them):

| run | statement | what happens |
|---|---|---|
| `RecordPanic` | `NoSendOnClosed`, record.go:174 | subscribe, append, the client leaves, its channel is closed, the append sends to it: panic |
| `RecordResume` | `ResumeMissesNothing`, record.go:220 | a chunk is skipped, a later one fits, the client resumes after the later one |
| `ManagerCancelled` | `FailedCreateLeavesNoPod`, manager.go:174 | the clean-up uses the context whose end caused it |
| `ReloadResume` | `StreamIsComplete`, record.go:117 | a client has some events of an exec; after an eviction or a restart the rebuilt record merges each stream into one chunk and numbers from 0, so the resumed stream starts past chunks it never sent |
| `ManagerUndeleted` | `DeletedPodIsGone`, sandboxes.go:103, manager.go:295 | the UPDATE that ends the row is committed but not acknowledged and the DELETE fails; the repeated one finds the row ended, answers 204 and clears the records, without an attempt to delete the pod |

Four more known limits show in states the passing runs reach, and are named in
their properties instead of having a run each. A terminal chunk skipped on a full
channel leaves its stream open on heartbeats, though exec.go:348 says that clients
that miss it will reconnect (`DoneSkipped` in `EndsUnlessDoneSkipped`). A DELETE drops
the live record of an exec that is still drained, and a GET then loads a running row
(`FreshReads` says that such an answer is still not older than its request). An exec
whose handler read the sandbox before DELETE ended it registers its record after
DELETE has cleared the sandbox, and nothing clears that record before a restart or
a repeated DELETE (`LateRecordsNeverRan` says that it never ran,
`RunningRowsAreExplained` covers its row). And a pod that was not ready at restart
is never looked at again (`unready` in `RunningIsReachable`).

Of `ManagerUndeleted`, manager.go:293 does say that a repeated call does not touch the
cluster; what does not hold is what its caller makes of that, that the pod is gone when
it returns. A deletion of the pod that fails (manager.go:321) has the same sequel.

`EndsUnlessDoneSkipped`, `GapsAreDrops`, `PodsAreAccounted`,
`RunningRowsAreExplained`, `RunningIsReachable` and `NilAgentExplained` are the
other side of these: they say that the failures named are the only causes.

Every property of a passing run has a mutant, a regression of the code written as an
operator beside the one it would replace (for instance `ReplayTooLate`, the replay
that skips `c.Seq <= fromSeq`), under which the run fails.

## 4. Fairness

* `ExecRecord`: weak fairness of the fan-out, a loop of non-blocking sends that the
  Go scheduler runs to its end, and of each handler's receive, return and deferred
  cancel. The agent need not send, clients need not connect or leave.
* `SandboxManager`: weak fairness of a Create that has begun (its two polls have
  deadlines of 60 s and 30 s and its calls return or fail), of a DELETE at work, of
  start-up, and of the cluster making a pod ready. Callers are under no obligation.
* `GuestAgent`: weak fairness of the handler, of the kill on cancellation, of the
  client's receiving, and of a StdinWrite or Signal whose call cannot block. The
  pumps get strong fairness: they compete for `sendMu`, and Go's mutex hands itself
  over to a waiter that has waited for 1 ms. Processes, descendants and callers owe
  nothing; `ex.stdin.Write` may wait for ever for a process that does not read.
* `ExecPipeline`: weak fairness of the handler, the receiver, the drain, the stdin
  writer and the deadline: goroutines run, statements return or fail, deadlines
  pass. None for the agent, its process or the network: the client sets no
  keepalive, so an agent that goes silent without closing the connection is a case
  of the model (a background exec then stays running, which is why `RecordEnds` and
  `ReceiverEnds` start from the end of the stream).
* `ExecRegistry` is checked for safety only.

## 5. What is proved

Every safety property a passing run checks is proved of its module's `Spec`, for
every value of the constants that satisfies its assumption (`ConstantsOK`,
`WindowOK`, `PipelineOK`, `SystemOK`). Each
theorem is named after its property (`PollConsistentHolds`, `TypeCorrect` for
`TypeOK`, `ServiceImplemented`, `SessionsImplemented` and `PipelineImplemented` for the
refinements) and follows from the module's inductive invariant `Inv`.

| module | for any | properties |
|---|---|---|
| `ExecRecordProofs` | clients, pollers, connections, channel capacity, caps, limits, frames | `TypeOK`, `OrderedDelivery`, `GapsAreDrops`, `OutputIsCapped`, `PollConsistent`, `QuietStreamsEnd`, `RefinesOutputLog` |
| `ExecRegistryProofs` | execs, sandboxes, readers, crashes | `TypeOK`, `IndexAgrees`, `RefusedLeavesNoRecord`, `MemoryAgreesWithRow`, `RunningRowsAreExplained`, `FreshReads`, `FinalRowIsFinal`, `LateRecordsNeverRan` |
| `SandboxManagerProofs` | sandboxes, lookups, crashes | `TypeOK`, `PodsAreAccounted`, `RunningIsReachable`, `NoClientOfEnded`, `NilAgentExplained`, `EndCauseIsFinal`, `ImplementsSessions` |
| `GuestAgentProofs` | calls, exec_ids, requests, capacities | `TypeOK`, `RegisteredIsReachable`, `NoProcessLeft`, `ImplementsService` |
| `ExecPipelineProofs` | execs, channel and transport capacities, amounts of output, restarts | `TypeOK`, `CompletedHasAll`, `AnswersAgree` |
| `ExecSystemProofs` | all of these together | `ImplementsPipeline`, `CompletedIsOver`, `InitialOnce`, and `AnswersAgree` of the whole |

**Record.** The stream properties are not inductive. What a client receives next is the head of
its channel, so the order of `seen` rests on the order within the channel
(`ChannelOrdered`) and between the two (`SeenBeforeBuffered`); a channel grows at
its end with the chunk being fanned out, so that chunk must be newer than all that
wait (`FanOutNewest`), which holds because the producer publishes the next chunk
only when the fan-out is over and because a channel opened meanwhile, whose replay
already holds the chunk, is not among the receivers (`OnlyOpened`, a new connection
has a new channel). That nothing is lost silently rests on `NothingLost`: each chunk
from a stream's resume point on waits in its channel, is under way to it or was
skipped; publishing keeps this because a stream's channel is registered as long as
the record runs (`StreamRegistered`). `Inv` is the conjunction. The proof first
reduces the actions of `Next` to the steps the streams see (`StepCases`), states
what each does element by element (`SendEffect`, `TakeEffect`, `SubscribeEffect`,
...), then shows each part of `Inv` preserved.

`QuietStreamsEnd` is the safety half of `EndsUnlessDoneSkipped`: a stream with nothing
left to send once the record is finished and the fan-out over has a closed channel,
or skipped the terminal chunk. It
needs that the terminal chunk is the last one of the record (`EndsWithDone`), that what waits in
a channel or is fanned out is a chunk of the record (`OnlyRecorded`), and that from the moment
the record ends each open stream has its end ahead, in its channel or under way to
it, unless it was skipped (`EndAhead`). `PollConsistent` rests on `FinishedIsFinal`: a
finished record never changes. The refinement maps the log to the kinds of the chunks; its abstract steps are Publish
and Receive, everything else stutters.

**Registry.** What memory and table say of an exec depends on where its POST
handler is, so the invariant is a statement about one exec: `LifeCycle(e)` gives
for each point of the handler what the record, the row and the maps can be (no row
before the INSERT, a running record and row while draining, a final record while
persisting, nothing running after a save or, once the adapter serves again, after
a crash). A handler leaves other execs alone (`CreateFrame`), so each of its steps
has to be looked at for its own exec only (`OwnLifeCycle`). `FreshReads` needs that both copies of a
status only go forward (`StatusesAdvance`, from `LifeCycle`) and that what List
finds through `bySession` is what `records` has (`IndexAgrees`); `FreshSoFar` is
what holds between the two lookups. `LateRecordsNeverRan` needs what a DELETE has done
by each of its steps (`DeleteLife`): from the deletion of the pod on, and until a
restart, the sandbox's client is closed, hence no exec starts any more, and those
that had started were registered before it cleared the records.

**Manager.** Likewise `LifeCycle(s)` and `StepFrame`. The crash makes it more than
the conjunction of the properties: `RunningIsReachable` speaks of a serving adapter
and has to be rebuilt during Reconcile, where a running row may also be one still
to be looked at (`todo`); and no client is cached for such a row, or marking it
`host_failed` would leave one behind. `LookupOK(g)` carries what a lookup read
before it looks in the map. For the refinement, `SeenFrame` says that a step of one
sandbox changes what the exec handlers see of no other, `UnseenSteps` that every step of its
Create, of the cluster and of Reconcile but `HostFailed` changes nothing they see,
and `SeenSteps` that the rest are the steps of `SandboxSessions`. Two parts of
`LifeCycle` are there for it: a Delete is of a sandbox whose creation was answered,
and a client cached before the adapter serves is of a running row.

**Guest agent.** `RegisteredIsReachable` is inductive once an entry of the map is
known to be filed under its own id (`FiledById`). The refinement needs `Accounts`:
what a process wrote is what was sent, what a pump holds and what is in the pipe, as
long as the stream stands. A handler that has seen both pumps finish on an unbroken
stream knows that the pipes were empty and nobody could write (`PumpLife`), so
Done follows all the output; `StdinLife` and `RpcLife` say that stdin is closed by
the time the process is reaped and that a request acts on a call that was registered
when it looked. The proof maps each action to its action of `AgentService` or to a
stutter.

**Pipeline.** `Flow` counts the frames of each stream: recorded, in the channel, in
the receiver's hand and on the wire they add up to what was sent, until the receiver
ends. `DoneComesLast` says that a Done frame is the last one wherever it is, and that
all output has reached the queue it is in or the record; hence a record that is
completed holds what the process wrote, and nothing is appended after it
(`NoMoreOutput`). Counting is over the set of positions of a queue
(`CountAppend`, `CountTail`). For the answers, `StatusLife` ties the status to where
the drain is, and `Agreement` says that a final row and a final answer are, unless
lost, the current state; an answer changes nothing and tells a final state
(`AnswerReads`), so two answers are the same.

Two queues, one Done: a Done frame is put on a stream only by `Finish` (`OneDone`), which is what the
whole needs to relate a record to the agent.

**The whole.** `SystemInv` is the invariant of the agent, that of the pipeline seen
through the mapping, and two statements about where they meet. `Meeting` says, for each point
of `writeInitialStdin`, at which step of the agent's `StdinWrite` its request is and
which call it has found: a request waits unserved while the writer calls, is spent
while it pauses, holds the data and then the end while it writes and closes; a writer
that is gone leaves it at any point; no input has the request before the agent has
written it. `DoneMeansGone` says that a Done frame, wherever it is, or a completed
status, means a reaped process without a descendant on its pipes. The proof goes
action by action: each is an action of `ExecPipeline` or leaves its variables alone,
so that `PP!Inv` is preserved by the lemmas of `ExecPipelineProofs`, used through an
instance (`PP`) under the mapping, and the two statements have only the step's own
call to be looked at. With `SystemInv`, `PipelineImplemented` is a refinement step by step;
`CompletedIsOver` combines `DoneMeansGone` with the pipeline's `CompletedHasAll`, and
`InitialOnce` is read off `Meeting`.

Only model-checked: the liveness properties (the prover has no rules for fairness
here).

## 6. Not modelled, and why

* Payload bytes, exit codes, timestamps, JSON, headers, logging: no property
  depends on them. `parseSignal` and the stdin encodings are pure conversions.
* Exec and session id collisions in the adapter: ids are random; a colliding Register
  is refused before it changes anything. The agent's refusal of a duplicate is modelled.
* A statement committed by Postgres after the adapter that sent it has restarted.
* Loss of single TCP segments: a connection either delivers or breaks
  (`WriteFails`, `Disconnect`, `Cut`). That an old handler is still at work when its
  client reconnects is covered by two clients. gRPC does not repeat these calls.
* A crash of the agent itself: to the adapter it is a broken stream (`Cut`), and the
  agent, the only process of its pod, does not come back with its execs.
* A process that closes its own stdin or output before it exits. A user's request
  with an end but no data, or data but no end: `UserEOF` and `UserWrites` of
  `ExecPipeline` and the requests of `GuestAgent` have both.
* `Wait` (no caller), deadlines and idle timeouts of sandboxes (stored, never read),
  `FileRead`, `FileWrite`, `Watch` (no state, pass-through, called by nothing in the
  adapter), the CLI, routing, the connection pool and the schema's creation.

## 7. Plan

1. `Adapter`: the composition of `ExecRegistry` and `ExecPipeline`, to state what a
   DELETE racing a POST exec, and a restart, mean for the process at the agent. The
   manager's side of it is `SandboxSessions`.
2. Live SSE streams across a restart: `ExecRecord`'s streams with the rebuilt record
   of `ExecPipeline` as their source after the crash.
3. In the proofs: that nothing is left behind by an exec that has ended (its context
   is cancelled, its stream cut).
