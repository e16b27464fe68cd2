------------------------------ MODULE GuestAgent ------------------------------
(***************************************************************************)
(* The guest agent's server (guest-agent/server.go): the Exec calls, each  *)
(* with its process, its two pumps and its stream, the map of registered   *)
(* execs they share, and the StdinWrite and Signal calls routed by it.     *)
(*                                                                         *)
(* A critical section of s.mu, a read of a pipe, a Send under sendMu and a *)
(* system call are one action each.                                        *)
(*                                                                         *)
(* Abstractions.  A chunk is the stream it comes from and is read whole.   *)
(* The process writes, forks and exits as it likes; a descendant keeps its *)
(* pipes open and is not killed with it.  Exit codes are left out.  A      *)
(* start that fails covers the refusals of an empty exec_id or command.    *)
(* FileRead, FileWrite and Watch share nothing with the execs.             *)
(***************************************************************************)
EXTENDS Naturals, Sequences, FiniteSets

CONSTANTS
  Call,        \* Exec calls
  Request,     \* StdinWrite and Signal calls
  ExecId, IdOf,\* exec_ids; the one each Exec call asks for
  None,        \* no call
  PipeCap,     \* chunks a pipe holds (64 KiB in the kernel)
  Window,      \* frames the transport takes ahead of the client
  MaxWrites,   \* bound: chunks the process of a call writes to each pipe
  Faulty       \* bound: the calls that fork and those whose stream breaks

Stream == {"out", "err"}

ASSUME ConstantsOK ==
  /\ IdOf \in [Call -> ExecId] /\ None \notin Call
  /\ PipeCap \in Nat \ {0} /\ Window \in Nat \ {0}
  /\ MaxWrites \in [Call -> [Stream -> Nat]] /\ Faulty \subseteq Call

VARIABLES
  execs,       \* the map of registered execs
  pc,          \* the Exec handler of each call
  proc,        \* the call's process
  orphan,      \* does a descendant hold the process's pipes?
  pipe,        \* chunks in the two output pipes
  pump,        \* the two pump goroutines
  wire, link,  \* the call's stream: frames under way, "up" or "cut"
  stdin,       \* the write end of the stdin pipe
  rpc,         \* the StdinWrite and Signal calls
  wrote, sent, \* history: chunks written to each pipe, and sent
  input        \* history: the requests whose data stdin accepted

process == <<proc, orphan, pipe, wrote>>
frames  == <<wire, sent>>
feed    == <<stdin, input>>
vars == <<execs, pc, process, pump, frames, link, feed, rpc>>

Id(c) == IdOf[c]
Registered == {"out", "err", "wait", "reaped", "leaving"}
Writing(c) == proc[c] = "running" \/ orphan[c]

Init ==
  /\ execs = [id \in ExecId |-> None]
  /\ pc = [c \in Call |-> "idle"]
  /\ proc = [c \in Call |-> "none"] /\ orphan = [c \in Call |-> FALSE]
  /\ pipe = [c \in Call |-> [s \in Stream |-> 0]]
  /\ pump = [c \in Call |-> [s \in Stream |-> "off"]]
  /\ wire = [c \in Call |-> <<>>] /\ link = [c \in Call |-> "up"]
  /\ stdin = [c \in Call |-> "open"]
  /\ rpc = [r \in Request |-> [step |-> "idle", call |-> None, eof |-> FALSE]]
  /\ wrote = [c \in Call |-> [s \in Stream |-> 0]]
  /\ sent = [c \in Call |-> [s \in Stream |-> 0]]
  /\ input = [c \in Call |-> <<>>]

-----------------------------------------------------------------------------
(***************************************************************************)
(* The Exec handler.                                                       *)
(***************************************************************************)
Goto(c, from, to) == pc[c] = from /\ pc' = [pc EXCEPT ![c] = to]

Begin(c) ==
  /\ Goto(c, "idle", "starting")
  /\ UNCHANGED <<execs, process, pump, frames, link, feed, rpc>>

\* The three pipes and the process; it inherits the stream's context.
Start(c) ==
  /\ Goto(c, "starting", "started") /\ link[c] = "up"
  /\ proc' = [proc EXCEPT ![c] = "running"]
  /\ UNCHANGED <<execs, orphan, pipe, wrote, pump, frames, link, feed, rpc>>

StartFails(c) ==
  /\ Goto(c, "starting", "returned")
  /\ stdin' = [stdin EXCEPT ![c] = "closed"]
  /\ UNCHANGED <<execs, process, pump, frames, link, input, rpc>>

\* registerExec succeeds and the pumps start.
Register(c) ==
  /\ Goto(c, "started", "out") /\ execs[Id(c)] = None
  /\ execs' = [execs EXCEPT ![Id(c)] = c]
  /\ pump' = [pump EXCEPT ![c] = [s \in Stream |-> "reading"]]
  /\ UNCHANGED <<process, frames, link, feed, rpc>>

\* Regressions: a duplicate's process is left alone; a duplicate takes the
\* entry over, or drops it on its way out (the deferred unregister moved up).
RefuseLeavesProcess(c) ==
  /\ Goto(c, "started", "returned") /\ execs[Id(c)] # None
  /\ stdin' = [stdin EXCEPT ![c] = "closed"]
  /\ UNCHANGED <<execs, process, pump, frames, link, input, rpc>>
RefuseUnregisters(c) ==
  /\ Goto(c, "started", "refused") /\ execs[Id(c)] # None
  /\ proc' = [proc EXCEPT ![c] = "zombie"]
  /\ execs' = [execs EXCEPT ![Id(c)] = None]
  /\ UNCHANGED <<orphan, pipe, wrote, pump, frames, link, feed, rpc>>

\* It fails on a taken exec_id: the new process is killed, then waited for.
RefuseDuplicate(c) ==
  /\ Goto(c, "started", "refused") /\ execs[Id(c)] # None
  /\ proc' = [proc EXCEPT ![c] = "zombie"]
  /\ UNCHANGED <<execs, orphan, pipe, wrote, pump, frames, link, feed, rpc>>

\* cmd.Wait: reaps the process and closes the agent's ends of its pipes.
Reap(c) ==
  /\ proc[c] = "zombie"
  /\ proc' = [proc EXCEPT ![c] = "reaped"]
  /\ pipe' = [pipe EXCEPT ![c] = [s \in Stream |-> 0]]
  /\ stdin' = [stdin EXCEPT ![c] = "closed"]
  /\ UNCHANGED <<orphan, wrote, input>>

ReapRefused(c) ==
  /\ Goto(c, "refused", "returned") /\ Reap(c)
  /\ UNCHANGED <<execs, pump, frames, link, rpc>>

\* The handler waits for the stdout pump, the stderr pump, the process.
AwaitOut(c) ==
  /\ Goto(c, "out", "err") /\ pump[c]["out"] = "finished"
  /\ UNCHANGED <<execs, process, pump, frames, link, feed, rpc>>

\* A regression: the stderr pump is not waited for.
AwaitErrSkipped(c) ==
  /\ Goto(c, "err", "wait")
  /\ UNCHANGED <<execs, process, pump, frames, link, feed, rpc>>
AwaitErr(c) ==
  /\ Goto(c, "err", "wait") /\ pump[c]["err"] = "finished"
  /\ UNCHANGED <<execs, process, pump, frames, link, feed, rpc>>

\* A regression: the stdin pipe is the handler's own and stays open.
WaitKeepsStdin(c) ==
  /\ Goto(c, "wait", "reaped") /\ proc[c] = "zombie"
  /\ proc' = [proc EXCEPT ![c] = "reaped"]
  /\ pipe' = [pipe EXCEPT ![c] = [s \in Stream |-> 0]]
  /\ UNCHANGED <<execs, orphan, wrote, pump, frames, link, feed, rpc>>
Wait(c) ==
  /\ Goto(c, "wait", "reaped") /\ Reap(c)
  /\ UNCHANGED <<execs, pump, frames, link, rpc>>

\* The Done frame.  The pumps are gone, so sendMu is free.
SendDone(c) ==
  /\ Goto(c, "reaped", "leaving") /\ link[c] = "up" /\ Len(wire[c]) < Window
  /\ wire' = [wire EXCEPT ![c] = Append(@, "done")]
  /\ UNCHANGED <<execs, process, pump, sent, link, feed, rpc>>

SendDoneFails(c) ==
  /\ Goto(c, "reaped", "leaving") /\ link[c] = "cut"
  /\ UNCHANGED <<execs, process, pump, frames, link, feed, rpc>>

\* The deferred unregisterExec; the handler returns.
Unregister(c) ==
  /\ Goto(c, "leaving", "returned")
  /\ execs' = [execs EXCEPT ![Id(c)] = None]
  /\ UNCHANGED <<process, pump, frames, link, feed, rpc>>

-----------------------------------------------------------------------------
(***************************************************************************)
(* The pumps.                                                              *)
(***************************************************************************)
PumpGoto(c, s, from, to) ==
  pump[c][s] = from /\ pump' = [pump EXCEPT ![c][s] = to]

\* A regression: stderr is read only when stdout has ended.
PumpReadInTurn(c, s) ==
  /\ PumpGoto(c, s, "reading", "holding") /\ pipe[c][s] > 0
  /\ s = "err" => pump[c]["out"] = "finished"
  /\ pipe' = [pipe EXCEPT ![c][s] = @ - 1]
  /\ UNCHANGED <<execs, pc, proc, orphan, wrote, frames, link, feed, rpc>>
\* A regression: an empty read is taken for a chunk (n > 0 not tested).
PumpReadEmpty(c, s) ==
  /\ PumpGoto(c, s, "reading", "holding") /\ (pipe[c][s] > 0 \/ ~Writing(c))
  /\ pipe' = [pipe EXCEPT ![c][s] = @ - 1]
  /\ UNCHANGED <<execs, pc, proc, orphan, wrote, frames, link, feed, rpc>>

PumpRead(c, s) ==
  /\ PumpGoto(c, s, "reading", "holding") /\ pipe[c][s] > 0
  /\ pipe' = [pipe EXCEPT ![c][s] = @ - 1]
  /\ UNCHANGED <<execs, pc, proc, orphan, wrote, frames, link, feed, rpc>>

\* End of file: the pipe is empty and nobody holds its other end.
PumpEOF(c, s) ==
  /\ PumpGoto(c, s, "reading", "finished")
  /\ pipe[c][s] = 0 /\ ~Writing(c)
  /\ UNCHANGED <<execs, pc, process, frames, link, feed, rpc>>

\* send, under sendMu: it waits for room in the stream, or fails on a dead
\* one.  A sender that waits holds up only the other sender.
PumpSend(c, s) ==
  /\ PumpGoto(c, s, "holding", "reading")
  /\ link[c] = "up" /\ Len(wire[c]) < Window
  /\ wire' = [wire EXCEPT ![c] = Append(@, s)]
  /\ sent' = [sent EXCEPT ![c][s] = @ + 1]
  /\ UNCHANGED <<execs, pc, process, link, feed, rpc>>

PumpSendFails(c, s) ==
  /\ PumpGoto(c, s, "holding", "finished") /\ link[c] = "cut"
  /\ UNCHANGED <<execs, pc, process, frames, link, feed, rpc>>

-----------------------------------------------------------------------------
(***************************************************************************)
(* The process, its descendant and the client of the stream.               *)
(***************************************************************************)
ReadEndsOpen(c) == pc[c] \in {"started", "refused", "out", "err", "wait"}

ProcWrite(c, s) ==
  /\ Writing(c) /\ ReadEndsOpen(c)
  /\ pipe[c][s] < PipeCap /\ wrote[c][s] < MaxWrites[c][s]
  /\ pipe' = [pipe EXCEPT ![c][s] = @ + 1]
  /\ wrote' = [wrote EXCEPT ![c][s] = @ + 1]
  /\ UNCHANGED <<execs, pc, proc, orphan, pump, frames, link, feed, rpc>>

Fork(c) ==
  /\ c \in Faulty /\ proc[c] = "running" /\ ~orphan[c]
  /\ orphan' = [orphan EXCEPT ![c] = TRUE]
  /\ UNCHANGED <<execs, pc, proc, pipe, wrote, pump, frames, link, feed, rpc>>

OrphanEnds(c) ==
  /\ orphan[c] /\ pc[c] # "returned"
  /\ orphan' = [orphan EXCEPT ![c] = FALSE]
  /\ UNCHANGED <<execs, pc, proc, pipe, wrote, pump, frames, link, feed, rpc>>

Exit(c) ==
  /\ proc[c] = "running" /\ proc' = [proc EXCEPT ![c] = "zombie"]
  /\ UNCHANGED <<execs, pc, orphan, pipe, wrote, pump, frames, link, feed, rpc>>

\* A regression: the process is not bound to the stream's context.
KillNobody(c) == FALSE /\ UNCHANGED vars
\* CommandContext: the end of the stream kills the process.
KillOnCancel(c) ==
  /\ link[c] = "cut" /\ proc[c] = "running"
  /\ proc' = [proc EXCEPT ![c] = "zombie"]
  /\ UNCHANGED <<execs, pc, orphan, pipe, wrote, pump, frames, link, feed, rpc>>

Deliver(c) ==
  /\ wire[c] # <<>> /\ wire' = [wire EXCEPT ![c] = Tail(@)]
  /\ UNCHANGED <<execs, pc, process, pump, sent, link, feed, rpc>>

Cut(c) ==
  /\ c \in Faulty /\ link[c] = "up" /\ pc[c] \notin {"idle", "returned"}
  /\ link' = [link EXCEPT ![c] = "cut"]
  /\ UNCHANGED <<execs, pc, process, pump, frames, feed, rpc>>

-----------------------------------------------------------------------------
(***************************************************************************)
(* StdinWrite and Signal: look the exec up under s.mu, then act on what    *)
(* was found, which may have ended meanwhile.                              *)
(***************************************************************************)
Answer(r, a) ==
  rpc' = [rpc EXCEPT ![r] = [step |-> a, call |-> None, eof |-> FALSE]]

NotFound(r, id) ==
  /\ rpc[r].step = "idle" /\ execs[id] = None
  /\ Answer(r, "not_found")
  /\ UNCHANGED <<execs, pc, process, pump, frames, link, feed>>

\* A StdinWrite has data, an eof flag, or both.
StdinFound(r, id, hasData, eof) ==
  /\ rpc[r].step = "idle" /\ execs[id] # None /\ (hasData \/ eof)
  /\ rpc' = [rpc EXCEPT ![r] =
       [step |-> IF hasData THEN "write" ELSE "close", call |-> execs[id],
        eof |-> eof]]
  /\ UNCHANGED <<execs, pc, process, pump, frames, link, feed>>

\* ex.stdin.Write waits for room in the pipe, which the process may never
\* make: nothing obliges this step to be taken.
StdinWrite(r) ==
  LET c == rpc[r].call IN
  /\ rpc[r].step = "write" /\ stdin[c] = "open" /\ Writing(c)
  /\ input' = [input EXCEPT ![c] = Append(@, r)]
  /\ IF rpc[r].eof THEN rpc' = [rpc EXCEPT ![r].step = "close"]
                   ELSE Answer(r, "ok")
  /\ UNCHANGED <<execs, pc, process, pump, frames, link, stdin>>

\* It fails on a closed stdin, and when nobody can read it any more.
StdinWriteFails(r) ==
  LET c == rpc[r].call IN
  /\ rpc[r].step = "write" /\ (stdin[c] = "closed" \/ ~Writing(c))
  /\ Answer(r, "internal")
  /\ UNCHANGED <<execs, pc, process, pump, frames, link, feed>>

\* Closing it a second time fails.
StdinClose(r) ==
  LET c == rpc[r].call IN
  /\ rpc[r].step = "close"
  /\ stdin' = [stdin EXCEPT ![c] = "closed"]
  /\ Answer(r, IF stdin[c] = "open" THEN "ok" ELSE "internal")
  /\ UNCHANGED <<execs, pc, process, pump, frames, link, input>>

SignalFound(r, id) ==
  /\ rpc[r].step = "idle" /\ execs[id] # None
  /\ rpc' = [rpc EXCEPT ![r] =
       [step |-> "signal", call |-> execs[id], eof |-> FALSE]]
  /\ UNCHANGED <<execs, pc, process, pump, frames, link, feed>>

\* A running process ends or ignores it, a zombie ignores it, and a reaped
\* process cannot be signalled.
Signal(r) ==
  LET c == rpc[r].call IN
  /\ rpc[r].step = "signal"
  /\ Answer(r, IF proc[c] = "reaped" THEN "internal" ELSE "ok")
  /\ \/ proc[c] = "running" /\ proc' = [proc EXCEPT ![c] = "zombie"]
     \/ UNCHANGED proc
  /\ UNCHANGED <<execs, pc, orphan, pipe, wrote, pump, frames, link, feed>>

-----------------------------------------------------------------------------
Pump(c, s) == \/ PumpRead(c, s) \/ PumpEOF(c, s) \/ PumpSend(c, s)
              \/ PumpSendFails(c, s)

Handle(c) ==
  \/ Start(c) \/ StartFails(c) \/ Register(c) \/ RefuseDuplicate(c)
  \/ ReapRefused(c) \/ AwaitOut(c) \/ AwaitErr(c) \/ Wait(c)
  \/ SendDone(c) \/ SendDoneFails(c) \/ Unregister(c)

Environment(c) ==
  \/ Begin(c) \/ Fork(c) \/ OrphanEnds(c) \/ Exit(c)
  \/ Deliver(c) \/ Cut(c) \/ \E s \in Stream : ProcWrite(c, s)

Serve(r) ==
  \/ \E id \in ExecId : \/ NotFound(r, id) \/ SignalFound(r, id)
                        \/ \E d, eof \in BOOLEAN : StdinFound(r, id, d, eof)
  \/ StdinWrite(r) \/ StdinWriteFails(r) \/ StdinClose(r) \/ Signal(r)

Next ==
  \/ \E c \in Call : \/ Handle(c) \/ KillOnCancel(c) \/ Environment(c)
                     \/ \E s \in Stream : Pump(c, s)
  \/ \E r \in Request : Serve(r)

Spec == Init /\ [][Next]_vars

\* Goroutines run while they can, cancellation kills, the client receives;
\* sync.Mutex does not starve a waiter, hence SF for the pumps.  Processes,
\* descendants and callers are under no obligation.
Fairness ==
  /\ \A c \in Call :
       /\ WF_vars(Handle(c)) /\ WF_vars(KillOnCancel(c)) /\ WF_vars(Deliver(c))
       /\ \A s \in Stream : SF_vars(Pump(c, s))
  /\ \A r \in Request : WF_vars(StdinWriteFails(r) \/ StdinClose(r)
                                  \/ Signal(r))
FairSpec == Spec /\ Fairness
-----------------------------------------------------------------------------
(***************************************************************************)
(* Properties.                                                             *)
(***************************************************************************)

\* The map, the handlers, the pipes and the streams have the types the code
\* declares, and no pipe or stream holds more than its capacity.
TypeOK ==
  /\ execs \in [ExecId -> Call \cup {None}]
  /\ pc \in [Call -> {"idle", "starting", "started", "refused", "returned"}
                       \cup Registered]
  /\ proc \in [Call -> {"none", "running", "zombie", "reaped"}]
  /\ orphan \in [Call -> BOOLEAN]
  /\ pipe \in [Call -> [Stream -> 0..PipeCap]]
  /\ pump \in [Call -> [Stream -> {"off", "reading", "holding", "finished"}]]
  /\ wire \in [Call -> Seq(Stream \cup {"done"})]
  /\ \A c \in Call : Len(wire[c]) <= Window
  /\ link \in [Call -> {"up", "cut"}]
  /\ stdin \in [Call -> {"open", "closed"}]
  /\ rpc \in [Request -> [step : {"idle", "write", "close", "signal", "ok",
                                  "internal", "not_found"},
                          call : Call \cup {None}, eof : BOOLEAN]]
  /\ wrote \in [Call -> [Stream -> Nat]] /\ sent \in [Call -> [Stream -> Nat]]
  /\ input \in [Call -> Seq(Request)]

\* registerExec and the deferred unregisterExec: a call is in the map, under
\* its own exec_id, exactly as long as it is at work; a duplicate that is
\* refused neither takes nor drops the entry of the one before it.
RegisteredIsReachable ==
  \A c \in Call : pc[c] \in Registered <=> execs[Id(c)] = c

\* "reliably terminates the child": whichever way an Exec returns, its
\* process has been reaped or was never started.
NoProcessLeft ==
  \A c \in Call : pc[c] = "returned" => proc[c] \in {"none", "reaped"}

\* The agent's Exec implements the service its clients count on: Done comes
\* last and after all the output of both pipes.
PhaseOf(p) ==
  CASE p = "idle" -> "idle"
    [] p \in {"starting", "started", "refused"} -> "called"
    [] p \in {"out", "err", "wait", "reaped"} -> "running"
    [] p = "leaving" -> "done"
    [] p = "returned" -> "over"
Service == INSTANCE AgentService
  WITH phase <- [c \in Call |-> PhaseOf(pc[c])], Writer <- Request
ImplementsService == Service!AgentSpec

\* "deadlocks when stderr fills its 64KB pipe buffer while stdout is still
\* being drained": whatever the other pipe does, a process blocked on a full
\* pipe gets room, as long as its client receives.
PipesDrain ==
  \A c \in Call, s \in Stream :
     pipe[c][s] = PipeCap
       ~> pipe[c][s] < PipeCap \/ link[c] = "cut"

\* "closing the stream reliably terminates the child": an Exec whose stream
\* has ended returns, unless a descendant of its process holds the pipes.
CutEnds ==
  \A c \in Call : link[c] = "cut" ~> pc[c] = "returned" \/ orphan[c]

\* cmd.Wait closes stdin: no StdinWrite stays blocked on an exec that ended.
StdinWriteReturns ==
  \A r \in Request : \A c \in Call :
     rpc[r].call = c /\ pc[c] = "returned" ~> rpc[r].call # c
=============================================================================
