------------------------------ MODULE ExecSystem ------------------------------
(***************************************************************************)
(* The adapter's execs with the agent that runs them: the handlers, pumps, *)
(* processes and requests of GuestAgent in place of the service that       *)
(* ExecPipeline assumes.  They meet in the stream of each call, which the  *)
(* receiver empties and the end of a context cuts, and in the StdinWrite   *)
(* requests: that of writeInitialStdin and those of the users.             *)
(*                                                                         *)
(* Abstractions.  Those of the two modules.  exec_ids are random, so no    *)
(* two calls share one.  The attempts of writeInitialStdin are one request *)
(* that is made again: an attempt is answered before the next.             *)
(***************************************************************************)
EXTENDS GuestAgent

CONSTANTS
  InitialOf,    \* the request that carries the initial stdin of an exec
  ChanCap,      \* capacity of the client's channel (16 in the code)
  MaxOutput,    \* bound: chunks any process writes to each pipe
  MaxCrashes,   \* bound: restarts of the adapter
  Streaming     \* the execs that have an SSE client

Initial == {InitialOf[c] : c \in Call}

ASSUME SystemOK ==
  /\ ChanCap \in Nat \ {0} /\ MaxCrashes \in Nat /\ Streaming \subseteq Call
  /\ MaxOutput \in Nat /\ \A c \in Call, s \in Stream : MaxWrites[c][s] <= MaxOutput
  /\ InitialOf \in [Call -> Request]
  /\ \A c, d \in Call : c # d => IdOf[c] # IdOf[d] /\ InitialOf[c] # InitialOf[d]

VARIABLES background, http, ctx, rcv, held, chan, drain, gotDone, status, log,
          captured, inMemory, row, lost, told, starter, window, sse, crashes

P == INSTANCE ExecPipeline
  WITH phase <- [c \in Call |-> PhaseOf(pc[c])], Writer <- Request,
       MaxWrites <- MaxOutput

agent == <<execs, pc, process, pump, frames, feed, rpc>>
adapter == <<background, http, ctx, rcv, held, chan, drain, gotDone, status, log,
             captured, inMemory, row, lost, told, starter, window, sse, crashes>>
systemVars == <<agent, link, adapter>>

SystemInit == Init /\ P!Init

-----------------------------------------------------------------------------
(***************************************************************************)
(* The agent, its processes and the network.                               *)
(***************************************************************************)
AgentWorks(c) ==
  /\ Handle(c) \/ KillOnCancel(c) \/ \E s \in Stream : Pump(c, s)
  /\ UNCHANGED adapter

ProcessRuns(c) ==
  /\ Fork(c) \/ OrphanEnds(c) \/ Exit(c) \/ \E s \in Stream : ProcWrite(c, s)
  /\ UNCHANGED adapter

\* A call that agent.Exec has made reaches the agent; its stream breaks.
CallArrives(c) ==
  /\ rcv[c] # "idle" /\ link[c] = "up" /\ Begin(c)
  /\ UNCHANGED adapter

StreamBreaks(c) ==
  /\ rcv[c] # "idle" /\ link[c] = "up" /\ link' = [link EXCEPT ![c] = "cut"]
  /\ UNCHANGED <<agent, adapter>>

-----------------------------------------------------------------------------
(***************************************************************************)
(* The adapter.                                                            *)
(***************************************************************************)
Receive(c) == Deliver(c) /\ P!Recv(c)

\* What the agent does not see, or sees only as the end of the stream.
AdapterWorks(c) ==
  /\ UNCHANGED agent
  /\ \/ P!Create(c) \/ P!Forward(c) \/ P!RecvEnds(c) \/ P!Drain(c)
     \/ P!StarterStops(c) \/ P!Expire(c)

AdapterDisturbed(c) ==
  /\ UNCHANGED agent
  /\ P!CallerLeaves(c) \/ P!Panics(c) \/ P!WindowEnds(c) \/ P!Reader(c)

AdapterCrashes == UNCHANGED agent /\ P!Crash

-----------------------------------------------------------------------------
(***************************************************************************)
(* Requests at the agent.                                                  *)
(***************************************************************************)
\* An attempt of writeInitialStdin is answered NotFound, or has found its
\* exec, whose stdin then accepts the data and its end, or neither.
InitialMoves(c, from, to) ==
  P!StarterGoto(c, from, to) /\ P!RestOfStarter(c)

InitialFound(c) ==
  /\ InitialMoves(c, "calling", "writing")
  /\ StdinFound(InitialOf[c], Id(c), TRUE, TRUE)

InitialNotFound(c) ==
  /\ InitialMoves(c, "calling", IF window[c] = "open" THEN "pausing" ELSE "lost")
  /\ NotFound(InitialOf[c], Id(c))

AskAgain(c) == rpc' = [rpc EXCEPT ![InitialOf[c]].step = "idle"]
InitialRetried(c) ==
  /\ InitialMoves(c, "pausing", "calling") /\ AskAgain(c)
  /\ UNCHANGED <<execs, pc, process, pump, frames, link, feed>>

InitialWrites(c) ==
  InitialMoves(c, "writing", "closing") /\ StdinWrite(InitialOf[c])

InitialRefused(c) ==
  InitialMoves(c, "writing", "refused") /\ StdinWriteFails(InitialOf[c])

\* A regression: an attempt that takes too long is made again.
InitialClosesOrRetries(c) ==
  \/ InitialMoves(c, "closing", "done") /\ StdinClose(InitialOf[c])
  \/ /\ InitialMoves(c, "closing", "calling") /\ AskAgain(c)
     /\ UNCHANGED <<execs, pc, process, pump, frames, link, feed>>
InitialCloses(c) ==
  /\ InitialMoves(c, "closing", IF stdin[c] = "open" THEN "done" ELSE "refused")
  /\ StdinClose(InitialOf[c])

\* The sender is gone, and the agent still serves its attempt.
InitialOrphaned(c) ==
  /\ starter[c] = "lost" /\ UNCHANGED adapter
  /\ LET r == InitialOf[c] IN
       \/ StdinFound(r, Id(c), TRUE, TRUE) \/ NotFound(r, Id(c))
       \/ StdinWrite(r) \/ StdinWriteFails(r) \/ StdinClose(r)

\* A user's Stdin or Signal request.
UserRequest(r) == r \notin Initial /\ Serve(r) /\ UNCHANGED adapter

Initials(c) == \/ InitialFound(c) \/ InitialNotFound(c) \/ InitialRetried(c)
               \/ InitialRefused(c) \/ InitialCloses(c)

SystemNext ==
  \/ \E c \in Call :
       \/ AgentWorks(c) \/ ProcessRuns(c) \/ CallArrives(c) \/ StreamBreaks(c)
       \/ Receive(c) \/ AdapterWorks(c) \/ AdapterDisturbed(c)
       \/ Initials(c) \/ InitialWrites(c) \/ InitialOrphaned(c)
  \/ \E r \in Request : UserRequest(r)
  \/ AdapterCrashes

SystemSpec == SystemInit /\ [][SystemNext]_systemVars
-----------------------------------------------------------------------------
(***************************************************************************)
(* Properties.                                                             *)
(***************************************************************************)

\* The agent's handlers are, to the adapter, the service that ExecPipeline
\* assumes: each step of the whole is a step of it or none.
ImplementsPipeline == P!Spec

\* "The channel closes when the command finishes": an exec that the adapter
\* calls completed has a process that has been reaped, no descendant of it
\* holds its pipes, and all that was written to them is in the record.
CompletedIsOver ==
  \A c \in Call : status[c] = "completed" =>
    proc[c] = "reaped" /\ ~orphan[c] /\ captured[c] = wrote[c]

\* The retries of writeInitialStdin: the initial stdin goes to its own
\* process, once at most; once, and with its end, if the writer has been told
\* so.
InitialOnce ==
  \A c, d \in Call :
    /\ \A i, j \in 1..Len(input[d]) :
         input[d][i] = InitialOf[c] /\ input[d][j] = InitialOf[c] => c = d /\ i = j
    /\ starter[c] = "done" =>
         stdin[c] = "closed" /\ \E i \in 1..Len(input[c]) : input[c][i] = InitialOf[c]
=============================================================================
