--------------------------- MODULE ExecSystemProofs ---------------------------
(***************************************************************************)
(* Theorems about ExecSystem, for any execs, requests, capacities and      *)
(* bounds: the agent's handlers implement what ExecPipeline assumes of     *)
(* them, and what follows for the adapter and the agent together.          *)
(***************************************************************************)
EXTENDS ExecSystem, GuestAgentProofs

PP == INSTANCE ExecPipelineProofs
  WITH phase <- [c \in Call |-> PhaseOf(pc[c])], Writer <- Request,
       MaxWrites <- MaxOutput

(***************************************************************************)
(* The inductive invariant: those of the two modules, and what the state   *)
(* of the one has to do with that of the other.                            *)
(***************************************************************************)
\* A call that has arrived at the agent was made by the adapter.
Arrived(c) == pc[c] # "idle" => rcv[c] # "idle"
Bounded(c) == \A s \in Stream : wrote[c][s] <= MaxOutput

\* Where the writer of the initial stdin is, and its attempt at the agent.
Attempt(c) == rpc[InitialOf[c]]
StarterAgrees(c) ==
  /\ starter[c] \in {"none", "asked", "calling"} => Attempt(c).step = "idle"
  /\ starter[c] = "pausing" => Attempt(c).step = "not_found"
  /\ starter[c] = "writing" => Attempt(c).step = "write"
  /\ starter[c] = "closing" => Attempt(c).step = "close"
  /\ starter[c] \in {"done", "refused"} => Attempt(c).step \in {"ok", "internal"}
  /\ Attempt(c).step # "signal"
  /\ Attempt(c).step = "write" => Attempt(c).call = c /\ Attempt(c).eof
  /\ Attempt(c).step = "close" => Attempt(c).call = c

\* A request is in the input of one call, once; it has been written.
In(r, c) == \E i \in 1..Len(input[c]) : input[c][i] = r
InputAgrees ==
  /\ \A c \in Call, r \in Request :
       In(r, c) => rpc[r].step \in {"close", "ok", "internal"}
  /\ \A c, d \in Call : In(InitialOf[d], c) => c = d
  /\ \A c \in Call : \A i, j \in 1..Len(input[c]) :
       input[c][i] = input[c][j] => i = j

\* What the writer has been told is so.
ToldTrue(c) ==
  /\ starter[c] \in {"closing", "done"} => In(InitialOf[c], c)
  /\ starter[c] = "done" => stdin[c] = "closed"

Meeting ==
  /\ \A c \in Call : Arrived(c) /\ Bounded(c) /\ StarterAgrees(c) /\ ToldTrue(c)
  /\ InputAgrees

\* A Done frame, also one that has been taken for the end of the exec, comes
\* from a process that is gone for good, and that has left nobody behind.
Gone(c) == pc[c] \in {"leaving", "returned"} /\ proc[c] = "reaped" /\ ~orphan[c]
DoneMeansGone == \A c \in Call : PP!DoneSeen(c) => Gone(c)

SystemInv == Inv /\ PP!Inv /\ Meeting /\ DoneMeansGone

-----------------------------------------------------------------------------
(***************************************************************************)
(* The two modules' names for the same things.                             *)
(***************************************************************************)
LEMMA Parameters == P!PipelineOK /\ P!WindowOK
  BY ConstantsOK, SystemOK DEF P!PipelineOK, P!WindowOK

LEMMA SameInit == P!Init <=> PP!Init
  BY DEF P!Init, PP!Init, P!AgentInit, PP!AgentInit, P!State, PP!State, P!NoOutput,
     PP!NoOutput, P!Stream, PP!Stream

LEMMA SameNext == P!Next <=> PP!Next
  BY DEF P!Stream, PP!Stream, P!Frame, PP!Frame, P!Begin, PP!Begin, P!Enroll,
     PP!Enroll, P!Refuse, PP!Refuse, P!Produce, PP!Produce, P!Output, PP!Output,
     P!Finish, PP!Finish, P!GiveUp, PP!GiveUp, P!Return, PP!Return, P!Feed,
     PP!Feed, P!CloseInput, PP!CloseInput, P!Deliver, PP!Deliver, P!Cut, PP!Cut,
     P!ServeCall, PP!ServeCall, P!stream, PP!stream, P!pipes, PP!pipes, P!request,
     PP!request, P!client, PP!client, P!drained, PP!drained, P!record, PP!record,
     P!stored, PP!stored, P!writers, PP!writers, P!adapter, PP!adapter, P!vars,
     PP!vars, P!Final, PP!Final, P!NoOutput, PP!NoOutput, P!State, PP!State,
     P!EndContext, PP!EndContext, P!Expire, PP!Expire, P!CallerLeaves,
     PP!CallerLeaves, P!StartStream, PP!StartStream, P!StartFails, PP!StartFails,
     P!Reply, PP!Reply, P!Recv, PP!Recv, P!Forward, PP!Forward, P!EndOfStream,
     PP!EndOfStream, P!RecvEnds, PP!RecvEnds, P!Take, PP!Take, P!DrainOutput,
     PP!DrainOutput, P!DrainDone, PP!DrainDone, P!DrainEnds, PP!DrainEnds,
     P!Proceed, PP!Proceed, P!Save, PP!Save, P!SaveFails, PP!SaveFails,
     P!Panics, PP!Panics, P!FramePanics, PP!FramePanics, P!ErroredPanics,
     PP!ErroredPanics, P!Recovered, PP!Recovered, P!Listed, PP!Listed, P!StarterGoto,
     PP!StarterGoto, P!RestOfStarter, PP!RestOfStarter, P!StarterFound,
     PP!StarterFound, P!StarterNotFound, PP!StarterNotFound, P!StarterRetries,
     PP!StarterRetries, P!StarterStops, PP!StarterStops, P!StarterWrites,
     PP!StarterWrites, P!StarterCloses, PP!StarterCloses, P!StarterRefused,
     PP!StarterRefused, P!WindowEnds, PP!WindowEnds, P!UserEOF, PP!UserEOF,
     P!UserWrites, PP!UserWrites, P!Loaded, PP!Loaded, P!Blob, PP!Blob,
     P!LoadedChunks, PP!LoadedChunks, P!Chunks, PP!Chunks, P!Poll, PP!Poll,
     P!SseEvent, PP!SseEvent, P!Evict, PP!Evict, P!Crash, PP!Crash, P!AgentStep,
     PP!AgentStep, P!Create, PP!Create, P!Receiver, PP!Receiver, P!Drain,
     PP!Drain, P!Starter, PP!Starter, P!User, PP!User, P!Reader, PP!Reader,
     P!Next, PP!Next

LEMMA SameStep == [P!Next]_(P!vars) <=> [PP!Next]_(PP!vars)
<1>1. UNCHANGED P!vars <=> UNCHANGED PP!vars
  BY DEF P!vars, PP!vars, P!stream, PP!stream, P!pipes, PP!pipes, P!adapter,
     PP!adapter, P!request, PP!request, P!client, PP!client, P!drained, PP!drained,
     P!record, PP!record, P!stored, PP!stored, P!writers, PP!writers
<1> QED  BY <1>1, SameNext

LEMMA SameAdapter == UNCHANGED adapter <=> UNCHANGED P!adapter
  BY DEF adapter, P!adapter, P!request, P!client, P!drained, P!record, P!stored,
     P!writers

\* The agent's service, as GuestAgent and as ExecPipeline know it.
LEMMA SameService ==
  ASSUME NEW c
  PROVE  /\ Service!ServeCall(c) <=> P!ServeCall(c)
         /\ Service!Begin(c) <=> P!Begin(c)
         /\ Service!Deliver(c) <=> P!Deliver(c)
         /\ Service!CloseInput(c) <=> P!CloseInput(c)
         /\ \A r : Service!Feed(c, r) <=> P!Feed(c, r)
  BY DEF Service!ServeCall, P!ServeCall, Service!Enroll, P!Enroll, Service!Refuse,
     P!Refuse, Service!Finish, P!Finish, Service!GiveUp, P!GiveUp, Service!Return,
     P!Return, Service!CloseInput, P!CloseInput, Service!Produce, P!Produce,
     Service!Output, P!Output, Service!Stream, P!Stream, Service!Begin, P!Begin,
     Service!Deliver, P!Deliver, Service!Feed, P!Feed

LEMMA SameAgent ==
  ASSUME UNCHANGED Service!agentVars, UNCHANGED adapter
  PROVE  UNCHANGED P!vars
<1>1. UNCHANGED P!adapter  BY SameAdapter
<1> QED  BY <1>1 DEF Service!agentVars, P!vars, P!stream, P!pipes

-----------------------------------------------------------------------------
(***************************************************************************)
(* The agent's invariant in the whole.  The adapter touches the agent in   *)
(* two ways: it cuts streams, and it makes a request again.                *)
(***************************************************************************)
LinksCut ==
  link' \in [Call -> {"up", "cut"}] /\ \A c \in Call : link'[c] = "up" => link[c] = "up"

LEMMA HangUp == ASSUME Inv, UNCHANGED agent, LinksCut PROVE Inv'
<1> USE DEF agent, process, frames, feed
<1>1. TypeOK'  BY DEF Inv, TypeOK, LinksCut
<1>2. RegisteredIsReachable' /\ FiledById'
  BY DEF Inv, RegisteredIsReachable, FiledById
<1>3. ProcLife' /\ PumpLife' /\ StdinLife' /\ RpcLife'
  BY DEF Inv, ProcLife, PumpLife, StdinLife, RpcLife
<1>4. Accounts'  BY DEF Inv, Accounts, Held, Writing, LinksCut
<1> QED  BY <1>1, <1>2, <1>3, <1>4 DEF Inv

LEMMA AskedAgain ==
  ASSUME Inv, NEW c \in Call, AskAgain(c),
         UNCHANGED <<execs, pc, process, pump, frames, link, feed>>
  PROVE  Inv'
<1> USE DEF process, frames, feed
<1>1. rpc' \in [Request -> [step : {"idle", "write", "close", "signal", "ok",
                                    "internal", "not_found"},
                            call : Call \cup {None}, eof : BOOLEAN]]
  <2>1. rpc \in [Request -> [step : {"idle", "write", "close", "signal", "ok",
                                    "internal", "not_found"},
                            call : Call \cup {None}, eof : BOOLEAN]]
    BY DEF Inv, TypeOK
  <2> QED  BY <2>1 DEF AskAgain
<1>2. TypeOK'  BY <1>1 DEF Inv, TypeOK
<1>3. RegisteredIsReachable' /\ FiledById'
  BY DEF Inv, RegisteredIsReachable, FiledById
<1>4. ProcLife' /\ PumpLife' /\ StdinLife'
  BY DEF Inv, ProcLife, PumpLife, StdinLife
<1>5. RpcLife'
  <2>1. \A r \in Request : rpc'[r].step = "idle" \/ rpc'[r] = rpc[r]
    BY DEF AskAgain, Inv, TypeOK
  <2> QED  BY <2>1 DEF Inv, RpcLife
<1>6. Accounts'  BY DEF Inv, Accounts, Held, Writing
<1> QED  BY <1>2, <1>3, <1>4, <1>5, <1>6 DEF Inv

\* The steps of the whole that are steps of the agent.
AgentMoves(c) ==
  \/ AgentWorks(c) \/ ProcessRuns(c) \/ CallArrives(c) \/ Receive(c)
  \/ InitialFound(c) \/ InitialNotFound(c) \/ InitialWrites(c) \/ InitialRefused(c)
  \/ InitialCloses(c) \/ InitialOrphaned(c)

LEMMA InitialServes ==
  ASSUME NEW c \in Call,
         \/ InitialFound(c) \/ InitialNotFound(c) \/ InitialWrites(c)
         \/ InitialRefused(c) \/ InitialCloses(c) \/ InitialOrphaned(c)
  PROVE  InitialOf[c] \in Request /\ Serve(InitialOf[c])
<1>1. InitialOf[c] \in Request /\ Id(c) \in ExecId
  BY SystemOK, ConstantsOK DEF Id
<1> QED
  BY <1>1 DEF InitialFound, InitialNotFound, InitialWrites, InitialRefused,
     InitialCloses, InitialOrphaned, Serve

LEMMA AgentMovesNext == ASSUME NEW c \in Call, AgentMoves(c) PROVE Next
  BY InitialServes DEF AgentMoves, AgentWorks, ProcessRuns, CallArrives, Receive, Next,
     Environment

\* The steps of the whole that the agent notices only as the end of streams.
LEMMA AdapterHangsUp ==
  ASSUME Inv,
         \/ AdapterCrashes
         \/ \E c \in Call : StreamBreaks(c) \/ AdapterWorks(c) \/ AdapterDisturbed(c)
  PROVE  UNCHANGED agent /\ LinksCut
<1> USE DEF LinksCut
<1>0. link \in [Call -> {"up", "cut"}]  BY DEF Inv, TypeOK
<1>1. CASE AdapterCrashes  BY <1>0, <1>1 DEF AdapterCrashes, P!Crash
<1>2. ASSUME NEW c \in Call,
             link' = link \/ link' = [link EXCEPT ![c] = "cut"]
      PROVE  LinksCut
  BY <1>0, <1>2
<1>3. ASSUME NEW c \in Call, StreamBreaks(c)
      PROVE  UNCHANGED agent /\ LinksCut
  BY <1>2, <1>3 DEF StreamBreaks
<1>4. ASSUME NEW c \in Call, AdapterWorks(c)
      PROVE  UNCHANGED agent /\ LinksCut
  <2>1. link' = link \/ link' = [link EXCEPT ![c] = "cut"]
    BY <1>4 DEF AdapterWorks, P!Create, P!StartStream, P!StartFails, P!Reply, P!Forward,
       P!RecvEnds, P!Drain, P!DrainOutput, P!DrainDone, P!DrainEnds, P!Save,
       P!SaveFails, P!Proceed, P!StarterStops, P!Expire, P!EndContext, P!stream
  <2> QED  BY <1>2, <1>4, <2>1 DEF AdapterWorks
<1>5. ASSUME NEW c \in Call, AdapterDisturbed(c)
      PROVE  UNCHANGED agent /\ LinksCut
  <2>1. link' = link \/ link' = [link EXCEPT ![c] = "cut"]
    BY <1>5 DEF AdapterDisturbed, P!CallerLeaves, P!Panics, P!FramePanics,
       P!ErroredPanics, P!Recovered, P!WindowEnds, P!Reader, P!Poll, P!SseEvent, P!Evict, P!EndContext, P!stream
  <2> QED  BY <1>2, <1>5, <2>1 DEF AdapterDisturbed
<1> QED  BY <1>1, <1>3, <1>4, <1>5

LEMMA AgentStep ==
  ASSUME Inv, [SystemNext]_systemVars
  PROVE  Inv'
<1>1. CASE UNCHANGED systemVars
  BY <1>1, InvStep DEF systemVars, agent, vars, process, frames, feed
<1>2. ASSUME NEW c \in Call, AgentMoves(c)  PROVE Inv'
  BY <1>2, AgentMovesNext, InvStep
<1>3. ASSUME NEW c \in Call, InitialRetried(c)  PROVE Inv'
  BY <1>3, AskedAgain DEF InitialRetried
<1>4. ASSUME NEW r \in Request, UserRequest(r)  PROVE Inv'
  BY <1>4, InvStep DEF UserRequest, Next
<1>5. CASE \/ AdapterCrashes
           \/ \E c \in Call : StreamBreaks(c) \/ AdapterWorks(c) \/ AdapterDisturbed(c)
  BY <1>5, AdapterHangsUp, HangUp
<1> QED  BY <1>1, <1>2, <1>3, <1>4, <1>5 DEF SystemNext, Initials, AgentMoves

-----------------------------------------------------------------------------
(***************************************************************************)
(* What the steps of the agent do to what the two sides share.             *)
(***************************************************************************)
\* The handlers, the pumps and the processes leave the requests alone.
LEMMA QuietAgent ==
  ASSUME TypeOK, NEW c \in Call,
         Handle(c) \/ KillOnCancel(c) \/ Environment(c) \/ \E s \in Stream : Pump(c, s)
  PROVE  /\ UNCHANGED <<rpc, input>>
         /\ \A d \in Call : stdin[d] = "closed" => stdin'[d] = "closed"
         /\ wrote' = wrote \/ \E s \in Stream : ProcWrite(c, s)
<1> USE DEF process, frames, feed, TypeOK
<1>1. CASE Handle(c)
  BY <1>1 DEF Handle, Start, StartFails, Register, RefuseDuplicate, ReapRefused,
     AwaitOut, AwaitErr, Wait, Reap, SendDone, SendDoneFails, Unregister
<1>2. CASE KillOnCancel(c) \/ Environment(c)
  BY <1>2 DEF KillOnCancel, Environment, Begin, Fork, OrphanEnds, Exit, Deliver, Cut,
     ProcWrite
<1>3. ASSUME NEW s \in Stream, Pump(c, s)  PROVE UNCHANGED <<rpc, input, stdin, wrote>>
  BY <1>3 DEF Pump, PumpRead, PumpEOF, PumpSend, PumpSendFails
<1> QED  BY <1>1, <1>2, <1>3

\* A request is served alone.  It goes from its look-up to its write, its
\* close, its answer.
Accepted == {"close", "ok", "internal"}
Writes(r) ==
  /\ rpc[r].step = "write" /\ rpc'[r].step \in Accepted
  /\ input' = [input EXCEPT ![rpc[r].call] = Append(@, r)]

LEMMA ServeMoves ==
  ASSUME TypeOK, NEW r \in Request, Serve(r)
  PROVE  /\ \A q \in Request \ {r} : rpc'[q] = rpc[q]
         /\ rpc[r].step \in Accepted => rpc'[r].step \in Accepted
         /\ input' = input \/ Writes(r)
         /\ \A d \in Call : stdin[d] = "closed" => stdin'[d] = "closed"
         /\ UNCHANGED <<wrote, pc>>
<1> USE DEF process, frames, feed, TypeOK, Answer, Accepted
<1>1. ASSUME NEW id \in ExecId, NotFound(r, id) \/ SignalFound(r, id)
      PROVE  /\ \A q \in Request \ {r} : rpc'[q] = rpc[q]
             /\ rpc[r].step = "idle" /\ UNCHANGED <<input, stdin, wrote, pc>>
  BY <1>1 DEF NotFound, SignalFound
<1>2. ASSUME NEW id \in ExecId, NEW d \in BOOLEAN, NEW eof \in BOOLEAN,
             StdinFound(r, id, d, eof)
      PROVE  /\ \A q \in Request \ {r} : rpc'[q] = rpc[q]
             /\ rpc[r].step = "idle" /\ UNCHANGED <<input, stdin, wrote, pc>>
  BY <1>2 DEF StdinFound
<1>3. CASE StdinWrite(r)
  <2>1. rpc[r].step = "write" /\ UNCHANGED <<stdin, wrote, pc>>
    BY <1>3 DEF StdinWrite
  <2>2. /\ \A q \in Request \ {r} : rpc'[q] = rpc[q]
        /\ rpc'[r].step \in Accepted
    BY <1>3 DEF StdinWrite
  <2>3. input' = [input EXCEPT ![rpc[r].call] = Append(@, r)]  BY <1>3 DEF StdinWrite
  <2> QED  BY <2>1, <2>2, <2>3 DEF Writes
<1>4. CASE StdinWriteFails(r)  BY <1>4 DEF StdinWriteFails
<1>5. CASE StdinClose(r)  BY <1>5 DEF StdinClose
<1>6. CASE Signal(r)  BY <1>6 DEF Signal
<1> QED  BY <1>1, <1>2, <1>3, <1>4, <1>5, <1>6 DEF Serve

\* What the adapter's own steps do to the writer of the initial stdin and to
\* the receiver.
StarterEnds(c) ==
  \/ starter'[c] = starter[c]
  \/ starter[c] = "asked" /\ starter'[c] = "calling"
  \/ starter'[c] = "lost"

LEMMA AdapterMoves ==
  ASSUME PP!TypeOK,
         \/ AdapterCrashes
         \/ \E c \in Call : \/ StreamBreaks(c) \/ AdapterWorks(c) \/ AdapterDisturbed(c)
                            \/ Receive(c)
  PROVE  \A d \in Call : /\ StarterEnds(d)
                         /\ rcv[d] # "idle" => rcv'[d] # "idle"
<1> USE DEF StarterEnds
<1>0. /\ starter \in [Call -> {"none", "asked", "calling", "pausing", "writing",
                                "closing", "done", "lost", "refused"}]
      /\ rcv \in [Call -> {"idle", "receiving", "holding", "closed"}]
  BY DEF PP!TypeOK
<1>1. CASE AdapterCrashes  BY <1>0, <1>1 DEF AdapterCrashes, P!Crash
<1>2. ASSUME NEW c \in Call, StreamBreaks(c)
      PROVE  UNCHANGED <<starter, rcv>>
  BY <1>2 DEF StreamBreaks, adapter
<1>3. ASSUME NEW c \in Call, AdapterWorks(c), NEW d \in Call
      PROVE  StarterEnds(d) /\ (rcv[d] # "idle" => rcv'[d] # "idle")
  <2>1. \/ UNCHANGED starter
        \/ starter' = [starter EXCEPT ![c] = IF @ = "asked" THEN "calling" ELSE @]
        \/ starter' = [starter EXCEPT ![c] = "lost"]
    BY <1>3 DEF AdapterWorks, P!Create, P!StartStream, P!StartFails, P!Reply, P!Forward,
       P!RecvEnds, P!Drain, P!DrainOutput, P!DrainDone, P!DrainEnds, P!Save,
       P!SaveFails, P!StarterStops, P!StarterGoto, P!Expire, P!writers
  <2>2. \/ UNCHANGED rcv
        \/ rcv' = [rcv EXCEPT ![c] = "receiving"]
        \/ rcv' = [rcv EXCEPT ![c] = "closed"]
    BY <1>3 DEF AdapterWorks, P!Create, P!StartStream, P!StartFails, P!Reply, P!Forward,
       P!RecvEnds, P!Drain, P!DrainOutput, P!DrainDone, P!DrainEnds, P!Save,
       P!SaveFails, P!StarterStops, P!RestOfStarter, P!Expire, P!client
  <2> QED  BY <1>0, <2>1, <2>2
<1>4. ASSUME NEW c \in Call, AdapterDisturbed(c), NEW d \in Call
      PROVE  starter' = starter /\ (rcv[d] # "idle" => rcv'[d] # "idle")
  <2>1. starter' = starter /\ (UNCHANGED rcv \/ rcv' = [rcv EXCEPT ![c] = "closed"])
    BY <1>4 DEF AdapterDisturbed, P!CallerLeaves, P!Panics, P!FramePanics,
       P!ErroredPanics, P!WindowEnds, P!Reader, P!Poll, P!SseEvent, P!Evict,
       P!client, P!writers
  <2> QED  BY <1>0, <2>1
<1>5. ASSUME NEW c \in Call, Receive(c), NEW d \in Call
      PROVE  starter' = starter /\ (rcv[d] # "idle" => rcv'[d] # "idle")
  BY <1>0, <1>5 DEF Receive, P!Recv, P!writers
<1> QED  BY <1>0, <1>1, <1>2, <1>3, <1>4, <1>5

\* The initial requests' own steps.
LEMMA InitialStarter ==
  ASSUME PP!TypeOK, NEW c \in Call,
         NEW from, NEW to, InitialMoves(c, from, to)
  PROVE  /\ starter[c] = from /\ starter'[c] = to
         /\ \A d \in Call \ {c} : starter'[d] = starter[d]
         /\ rcv' = rcv
  BY DEF PP!TypeOK, InitialMoves, P!StarterGoto, P!RestOfStarter, P!client

-----------------------------------------------------------------------------
(***************************************************************************)
(* The two sides keep agreeing.                                            *)
(***************************************************************************)
\* Only the arrival of a call makes it known to the agent.
LEMMA ArrivedStep ==
  ASSUME SystemInv, [SystemNext]_systemVars, NEW d \in Call
  PROVE  Arrived(d)'
<1> USE DEF SystemInv, Meeting, Arrived
<1>1. rcv[d] # "idle" => rcv'[d] # "idle"
  <2>1. CASE UNCHANGED adapter  BY <2>1 DEF adapter
  <2>2. CASE \/ AdapterCrashes
             \/ \E c \in Call : \/ StreamBreaks(c) \/ AdapterWorks(c)
                                \/ AdapterDisturbed(c) \/ Receive(c)
    BY <2>2, AdapterMoves DEF PP!Inv
  <2>3. ASSUME NEW c \in Call, Initials(c) \/ InitialWrites(c)
        PROVE  rcv' = rcv
    BY <2>3, InitialStarter DEF PP!Inv, Initials, InitialFound, InitialNotFound,
       InitialRetried, InitialRefused, InitialCloses, InitialWrites
  <2> QED
    BY <2>1, <2>2, <2>3 DEF SystemNext, systemVars, AgentWorks, ProcessRuns,
       CallArrives, InitialOrphaned, UserRequest
<1>2. pc[d] = "idle" => pc'[d] = "idle" \/ CallArrives(d)
  <2>1. ASSUME NEW c \in Call, AgentWorks(c)  PROVE pc[d] = "idle" => pc'[d] = "idle"
    <3>1. CASE Handle(c)
      BY <3>1 DEF Inv, TypeOK, Handle, Goto, Start, StartFails, Register,
         RefuseDuplicate, ReapRefused, AwaitOut, AwaitErr, Wait, SendDone,
         SendDoneFails, Unregister
    <3> QED  BY <2>1, <3>1, HandlersOnly DEF AgentWorks
  <2>2. ASSUME NEW c \in Call, ProcessRuns(c) \/ Receive(c)  PROVE pc' = pc
    BY <2>2 DEF ProcessRuns, Receive, Fork, OrphanEnds, Exit, ProcWrite, Deliver
  <2>3. ASSUME NEW c \in Call, CallArrives(c)
        PROVE  pc[d] = "idle" => pc'[d] = "idle" \/ CallArrives(d)
    BY <2>3 DEF CallArrives, Begin, Goto, Inv, TypeOK
  <2>4. ASSUME NEW c \in Call, Initials(c) \/ InitialWrites(c) \/ InitialOrphaned(c)
        PROVE  pc' = pc
    BY <2>4, InitialServes, HandlersOnly DEF Initials, InitialRetried
  <2>5. ASSUME NEW r \in Request, UserRequest(r)  PROVE pc' = pc
    BY <2>5, HandlersOnly DEF UserRequest
  <2>6. CASE \/ AdapterCrashes
             \/ \E c \in Call : StreamBreaks(c) \/ AdapterWorks(c) \/ AdapterDisturbed(c)
    BY <2>6, AdapterHangsUp DEF agent
  <2>7. CASE UNCHANGED systemVars  BY <2>7 DEF systemVars, agent
  <2> QED  BY <2>1, <2>2, <2>3, <2>4, <2>5, <2>6, <2>7 DEF SystemNext
<1>3. CallArrives(d) => rcv[d] # "idle"  BY DEF CallArrives
<1> QED  BY <1>1, <1>2, <1>3

LEMMA BoundedStep ==
  ASSUME SystemInv, [SystemNext]_systemVars, NEW d \in Call
  PROVE  Bounded(d)'
<1> USE DEF SystemInv, Meeting
<1>1. ASSUME NEW c \in Call, AgentWorks(c) \/ ProcessRuns(c) \/ CallArrives(c) \/ Receive(c)
      PROVE  wrote' = wrote \/ \E s \in Stream : ProcWrite(c, s)
  BY <1>1, QuietAgent DEF AgentWorks, ProcessRuns, CallArrives, Receive, Environment, Inv
<1>2. ASSUME NEW c \in Call, Initials(c) \/ InitialWrites(c) \/ InitialOrphaned(c)
      PROVE  wrote' = wrote
  BY <1>2, InitialServes, ServeMoves DEF Initials, InitialRetried, process, Inv
<1>3. ASSUME NEW r \in Request, UserRequest(r)  PROVE wrote' = wrote
  BY <1>3, ServeMoves DEF UserRequest, Inv
<1>4. CASE \/ AdapterCrashes \/ UNCHANGED systemVars
           \/ \E c \in Call : StreamBreaks(c) \/ AdapterWorks(c) \/ AdapterDisturbed(c)
  BY <1>4, AdapterHangsUp DEF agent, process, Bounded, systemVars
<1>5. ASSUME NEW c \in Call, NEW s \in Stream, ProcWrite(c, s)  PROVE Bounded(d)'
  <2>1. /\ wrote \in [Call -> [Stream -> Nat]] /\ wrote[c][s] < MaxWrites[c][s]
        /\ wrote' = [wrote EXCEPT ![c][s] = @ + 1]
    BY <1>5 DEF ProcWrite, Inv, TypeOK
  <2>2. MaxWrites[c][s] \in Nat /\ MaxOutput \in Nat /\ MaxWrites[c][s] <= MaxOutput
    BY ConstantsOK, SystemOK
  <2>3. wrote[c][s] + 1 <= MaxOutput  BY <2>1, <2>2
  <2>4. \A t \in Stream : wrote'[d][t] = wrote[d][t] \/ wrote'[d][t] <= MaxOutput
    BY <2>1, <2>3
  <2> QED  BY <2>4 DEF Bounded
<1> QED  BY <1>1, <1>2, <1>3, <1>4, <1>5 DEF SystemNext, Bounded

\* What a step does to the requests, to the inputs and to the writers of the
\* initial stdin.  First the steps that are about none of them.
RequestsRest ==
  /\ UNCHANGED <<rpc, input>>
  /\ \A d \in Call : StarterEnds(d) /\ (stdin[d] = "closed" => stdin'[d] = "closed")

LEMMA RestStep ==
  ASSUME SystemInv,
         \/ UNCHANGED systemVars \/ AdapterCrashes
         \/ \E c \in Call :
              \/ AgentWorks(c) \/ ProcessRuns(c) \/ CallArrives(c) \/ StreamBreaks(c)
              \/ Receive(c) \/ AdapterWorks(c) \/ AdapterDisturbed(c)
  PROVE  RequestsRest
<1> USE DEF SystemInv, RequestsRest
<1>1. CASE UNCHANGED systemVars
  BY <1>1 DEF systemVars, agent, feed, adapter, StarterEnds
<1>2. CASE \/ AdapterCrashes
           \/ \E c \in Call : StreamBreaks(c) \/ AdapterWorks(c) \/ AdapterDisturbed(c)
  BY <1>2, AdapterMoves, AdapterHangsUp DEF PP!Inv, agent, feed
<1>3. ASSUME NEW c \in Call, AgentWorks(c) \/ ProcessRuns(c) \/ CallArrives(c)
      PROVE  RequestsRest
  BY <1>3, QuietAgent DEF Inv, AgentWorks, ProcessRuns, CallArrives, Environment,
     adapter, StarterEnds
<1>4. ASSUME NEW c \in Call, Receive(c)  PROVE RequestsRest
  BY <1>4, QuietAgent, AdapterMoves DEF Inv, PP!Inv, Receive, Environment
<1> QED  BY <1>1, <1>2, <1>3, <1>4

LEMMA RestAgrees ==
  ASSUME SystemInv, RequestsRest
  PROVE  /\ \A d \in Call : StarterAgrees(d)' /\ ToldTrue(d)'
         /\ InputAgrees'
<1> USE DEF SystemInv, Meeting, RequestsRest
<1>1. ASSUME NEW d \in Call  PROVE StarterAgrees(d)'
  BY DEF StarterAgrees, Attempt, StarterEnds
<1>2. ASSUME NEW d \in Call  PROVE ToldTrue(d)'
  BY DEF ToldTrue, In, StarterEnds
<1>3. InputAgrees'  BY DEF InputAgrees, In
<1> QED  BY <1>1, <1>2, <1>3

\* A request that is served: what was written stays written, and it is
\* written to one input, once.
LEMMA InputStep ==
  ASSUME SystemInv, NEW r \in Request,
         \A q \in Request \ {r} : rpc'[q] = rpc[q],
         rpc[r].step \in Accepted => rpc'[r].step \in Accepted,
         input' = input \/ Writes(r),
         \A c \in Call : r = InitialOf[c] /\ Writes(r) => rpc[r].call = c
  PROVE  /\ InputAgrees'
         /\ \A c \in Call : \A q : In(q, c) => In(q, c)'
<1> USE DEF SystemInv, Meeting
<1>0. /\ input \in [Call -> Seq(Request)]
      /\ \A c \in Call, q \in Request : In(q, c) => rpc[q].step \in Accepted
      /\ \A c, d \in Call : In(InitialOf[d], c) => c = d
  BY DEF Inv, TypeOK, InputAgrees, Accepted
<1>1. CASE input' = input
  BY <1>0, <1>1 DEF InputAgrees, In, Accepted
<1>2. CASE Writes(r)
  <2>1. PICK k \in Call : k = rpc[r].call  BY <1>2 DEF Writes, Inv, RpcLife
  <2>2. \A c \in Call : ~In(r, c)  BY <1>0, <1>2 DEF Writes, Accepted
  <2>3. \A c \in Call \ {k} : input'[c] = input[c]  BY <1>0, <1>2, <2>1 DEF Writes
  <2>4. /\ input[k] \in Seq(Request) /\ input'[k] = Append(input[k], r)
    BY <1>0, <1>2, <2>1 DEF Writes
  <2>5. /\ Len(input[k]) \in Nat /\ Len(input'[k]) = Len(input[k]) + 1
        /\ input'[k][Len(input[k]) + 1] = r
        /\ \A i \in 1..Len(input[k]) : input'[k][i] = input[k][i]
    BY <2>4
  <2>6. \A q : In(q, k)' <=> In(q, k) \/ q = r
    BY <2>5 DEF In
  <2>7. \A c \in Call \ {k} : \A q : In(q, c)' <=> In(q, c)  BY <2>3 DEF In
  <2>8. ASSUME NEW c \in Call, NEW q \in Request, In(q, c)'
        PROVE  rpc'[q].step \in Accepted
    BY <1>0, <1>2, <2>6, <2>7, <2>8 DEF Writes
  <2>9. ASSUME NEW c \in Call, NEW d \in Call, In(InitialOf[d], c)'
        PROVE  c = d
    <3>1. In(InitialOf[d], c) \/ (c = k /\ InitialOf[d] = r)
      BY <2>6, <2>7, <2>9
    <3>2. InitialOf[d] = r => k = d  BY <1>2, <2>1
    <3> QED  BY <1>0, <3>1, <3>2
  <2>10. ASSUME NEW c \in Call
         PROVE  \A i, j \in 1..Len(input'[c]) : input'[c][i] = input'[c][j] => i = j
    <3>1. CASE c # k  BY <1>0, <2>3, <3>1 DEF InputAgrees
    <3>2. CASE c = k
      <4>1. \A i, j \in 1..Len(input[k]) : input[k][i] = input[k][j] => i = j
        BY <2>1 DEF InputAgrees
      <4>2. \A i \in 1..Len(input[k]) : input[k][i] # r  BY <2>1, <2>2 DEF In
      <4>3. \A i \in 1..Len(input'[k]) :
              i \in 1..Len(input[k]) \/ i = Len(input[k]) + 1
        BY <2>5
      <4> QED  BY <2>5, <3>2, <4>1, <4>2, <4>3
    <3> QED  BY <3>1, <3>2
  <2> QED  BY <2>6, <2>7, <2>8, <2>9, <2>10 DEF InputAgrees, Accepted
<1> QED  BY <1>1, <1>2

\* The users' requests: those of the writers of initial stdin stay.
LEMMA UserAgrees ==
  ASSUME SystemInv, NEW r \in Request, UserRequest(r)
  PROVE  /\ \A d \in Call : StarterAgrees(d)' /\ ToldTrue(d)'
         /\ InputAgrees'
<1> USE DEF SystemInv, Meeting, UserRequest
<1>1. \A c \in Call : r # InitialOf[c]  BY DEF Initial
<1>2. /\ \A q \in Request \ {r} : rpc'[q] = rpc[q]
      /\ rpc[r].step \in Accepted => rpc'[r].step \in Accepted
      /\ input' = input \/ Writes(r)
      /\ \A d \in Call : stdin[d] = "closed" => stdin'[d] = "closed"
  BY ServeMoves DEF Inv
<1>3. InputAgrees' /\ \A c \in Call : \A q : In(q, c) => In(q, c)'
  BY <1>1, <1>2, InputStep
<1>4. starter' = starter  BY DEF adapter
<1>5. ASSUME NEW d \in Call  PROVE StarterAgrees(d)' /\ ToldTrue(d)'
  <2>1. InitialOf[d] \in Request /\ rpc'[InitialOf[d]] = rpc[InitialOf[d]]
    BY <1>1, <1>2, SystemOK
  <2> QED  BY <1>2, <1>3, <1>4, <2>1 DEF StarterAgrees, Attempt, ToldTrue
<1> QED  BY <1>3, <1>5

\* The exec that an attempt finds under its exec_id is its own.
LEMMA OwnExec ==
  ASSUME Inv, NEW c \in Call
  PROVE  /\ execs[Id(c)] # None => execs[Id(c)] = c /\ pc[c] \in Registered
         /\ execs[Id(c)] = None => pc[c] \notin Registered
<1> USE DEF Inv
<1>1. Id(c) \in ExecId /\ None \notin Call  BY ConstantsOK DEF Id
<1>2. execs[Id(c)] = c <=> pc[c] \in Registered  BY DEF RegisteredIsReachable
<1>3. ASSUME execs[Id(c)] # None  PROVE execs[Id(c)] = c
  <2>1. execs[Id(c)] \in Call  BY <1>1, <1>3 DEF TypeOK
  <2>2. Id(execs[Id(c)]) = Id(c)  BY <1>1, <1>3 DEF FiledById
  <2> QED  BY <2>1, <2>2, SystemOK DEF Id
<1> QED  BY <1>1, <1>2, <1>3

\* Where an attempt of writeInitialStdin goes at the agent.
LEMMA AttemptMoves ==
  ASSUME SystemInv, NEW c \in Call, NEW r, r = InitialOf[c]
  PROVE  /\ StdinFound(r, Id(c), TRUE, TRUE) =>
              rpc'[r] = [step |-> "write", call |-> c, eof |-> TRUE]
         /\ NotFound(r, Id(c)) => rpc'[r].step = "not_found"
         /\ AskAgain(c) => rpc'[r].step = "idle"
         /\ StdinWrite(r) => rpc'[r].step = "close" /\ rpc'[r].call = c /\ Writes(r)
         /\ StdinWriteFails(r) => rpc'[r].step = "internal"
         /\ StdinClose(r) => rpc'[r].step \in {"ok", "internal"} /\ stdin'[c] = "closed"
<1> USE DEF SystemInv, Meeting, StarterAgrees, Attempt, Answer
<1>1. r \in Request  BY SystemOK
<1>2. rpc \in [Request -> [step : {"idle", "write", "close", "signal", "ok",
                                   "internal", "not_found"},
                           call : Call \cup {None}, eof : BOOLEAN]]
      /\ stdin \in [Call -> {"open", "closed"}]
  BY DEF Inv, TypeOK
<1>3. ASSUME StdinFound(r, Id(c), TRUE, TRUE)
      PROVE  rpc'[r] = [step |-> "write", call |-> c, eof |-> TRUE]
  BY <1>1, <1>2, <1>3, OwnExec DEF StdinFound
<1>4. NotFound(r, Id(c)) => rpc'[r].step = "not_found"
  BY <1>1, <1>2 DEF NotFound
<1>5. AskAgain(c) => rpc'[r].step = "idle"  BY <1>1, <1>2 DEF AskAgain
<1>6. ASSUME StdinWrite(r)
      PROVE  rpc'[r].step = "close" /\ rpc'[r].call = c /\ Writes(r)
  <2>1. rpc[r].step = "write" /\ rpc[r].call = c /\ rpc[r].eof
    BY <1>6 DEF StdinWrite
  <2>2. rpc' = [rpc EXCEPT ![r].step = "close"]  BY <1>6, <2>1 DEF StdinWrite
  <2>3. rpc'[r].step = "close" /\ rpc'[r].call = c  BY <1>1, <1>2, <2>1, <2>2
  <2> QED  BY <1>6, <2>1, <2>3 DEF StdinWrite, Writes, Accepted
<1>7. StdinWriteFails(r) => rpc'[r].step = "internal"
  BY <1>1, <1>2 DEF StdinWriteFails
<1>8. ASSUME StdinClose(r)
      PROVE  rpc'[r].step \in {"ok", "internal"} /\ stdin'[c] = "closed"
  <2>1. rpc[r].call = c  BY <1>8 DEF StdinClose
  <2> QED  BY <1>1, <1>2, <1>8, <2>1 DEF StdinClose
<1> QED  BY <1>3, <1>4, <1>5, <1>6, <1>7, <1>8

\* The attempts of the other calls stay, and so do their writers.
LEMMA OtherCalls ==
  ASSUME SystemInv, NEW c \in Call, NEW d \in Call \ {c},
         Initials(c) \/ InitialWrites(c) \/ InitialOrphaned(c)
  PROVE  /\ rpc'[InitialOf[d]] = rpc[InitialOf[d]] /\ starter'[d] = starter[d]
         /\ stdin[d] = "closed" => stdin'[d] = "closed"
<1> USE DEF SystemInv
<1>1. InitialOf[d] \in Request \ {InitialOf[c]}  BY SystemOK
<1>2. rpc'[InitialOf[d]] = rpc[InitialOf[d]]
      /\ (stdin[d] = "closed" => stdin'[d] = "closed")
  <2>1. CASE InitialRetried(c)  BY <1>1, <2>1 DEF InitialRetried, AskAgain, feed, Inv, TypeOK
  <2> QED  BY <1>1, <2>1, InitialServes, ServeMoves DEF Inv, Initials
<1>3. starter'[d] = starter[d]
  <2>1. CASE InitialOrphaned(c)  BY <2>1 DEF InitialOrphaned, adapter
  <2> QED
    BY <2>1, InitialStarter DEF PP!Inv, Initials, InitialFound, InitialNotFound,
       InitialRetried, InitialRefused, InitialCloses, InitialWrites
<1> QED  BY <1>2, <1>3

LEMMA InitialAgrees ==
  ASSUME SystemInv, NEW c \in Call,
         Initials(c) \/ InitialWrites(c) \/ InitialOrphaned(c)
  PROVE  /\ \A d \in Call : StarterAgrees(d)' /\ ToldTrue(d)'
         /\ InputAgrees'
<1> DEFINE r == InitialOf[c]
<1>1. StdinFound(r, Id(c), TRUE, TRUE) =>
        rpc'[r] = [step |-> "write", call |-> c, eof |-> TRUE]
  BY AttemptMoves
<1> USE DEF SystemInv, Meeting
<1>2. /\ \A q \in Request \ {r} : rpc'[q] = rpc[q]
      /\ rpc[r].step \in Accepted => rpc'[r].step \in Accepted
      /\ input' = input \/ Writes(r)
      /\ \A d \in Call : stdin[d] = "closed" => stdin'[d] = "closed"
  <2>1. CASE InitialRetried(c)
    <3>1. Attempt(c).step = "not_found"
      BY <2>1, InitialStarter DEF InitialRetried, StarterAgrees, PP!Inv
    <3> QED
      BY <2>1, <3>1 DEF InitialRetried, AskAgain, feed, Inv, TypeOK, Accepted, Attempt
  <2> QED  BY <2>1, InitialServes, ServeMoves DEF Inv, Initials
<1>3. InputAgrees' /\ \A d \in Call : \A q : In(q, d) => In(q, d)'
  <2>1. \A d \in Call : r = InitialOf[d] /\ Writes(r) => rpc[r].call = d
    BY SystemOK DEF StarterAgrees, Attempt, Writes
  <2> QED  BY <1>2, <2>1, InputStep, SystemOK
<1>4. ASSUME NEW d \in Call \ {c}  PROVE StarterAgrees(d)' /\ ToldTrue(d)'
  BY <1>3, <1>4, OtherCalls DEF StarterAgrees, Attempt, ToldTrue
<1>5. StarterAgrees(c)' /\ ToldTrue(c)'
  <2> USE DEF StarterAgrees, Attempt, ToldTrue
  <2>1. CASE InitialFound(c)
    <3>1. starter'[c] = "writing"  BY <2>1, InitialStarter DEF InitialFound, PP!Inv
    <3>2. StdinFound(r, Id(c), TRUE, TRUE)  BY <2>1 DEF InitialFound
    <3>3. rpc'[r] = [step |-> "write", call |-> c, eof |-> TRUE]
      BY <1>1, <3>2
    <3> QED  BY <3>1, <3>3
  <2>2. CASE InitialNotFound(c)
    <3>1. starter'[c] \in {"pausing", "lost"}
      BY <2>2, InitialStarter DEF InitialNotFound, PP!Inv
    <3>2. rpc'[r].step = "not_found"  BY <2>2, AttemptMoves DEF InitialNotFound
    <3> QED  BY <3>1, <3>2
  <2>3. CASE InitialRetried(c)
    <3>1. starter'[c] = "calling"  BY <2>3, InitialStarter DEF InitialRetried, PP!Inv
    <3>2. rpc'[r].step = "idle"  BY <2>3, AttemptMoves DEF InitialRetried
    <3> QED  BY <3>1, <3>2
  <2>4. CASE InitialWrites(c)
    <3>1. starter'[c] = "closing"  BY <2>4, InitialStarter DEF InitialWrites, PP!Inv
    <3>2. rpc'[r].step = "close" /\ rpc'[r].call = c /\ Writes(r)
      BY <2>4, AttemptMoves DEF InitialWrites
    <3>3. rpc[r].call = c  BY <3>2 DEF Writes
    <3>4. input[c] \in Seq(Request) /\ input'[c] = Append(input[c], r)
      BY <3>2, <3>3 DEF Writes, Inv, TypeOK
    <3>5. In(r, c)'
      <4>1. /\ Len(input'[c]) = Len(input[c]) + 1 /\ Len(input[c]) \in Nat
            /\ input'[c][Len(input[c]) + 1] = r
        BY <3>4
      <4> QED  BY <4>1 DEF In
    <3> QED  BY <3>1, <3>2, <3>5
  <2>5. CASE InitialRefused(c)
    <3>1. starter'[c] = "refused"  BY <2>5, InitialStarter DEF InitialRefused, PP!Inv
    <3>2. rpc'[r].step = "internal"  BY <2>5, AttemptMoves DEF InitialRefused
    <3> QED  BY <3>1, <3>2
  <2>6. CASE InitialCloses(c)
    <3>1. starter[c] = "closing" /\ starter'[c] \in {"done", "refused"}
      BY <2>6, InitialStarter DEF InitialCloses, PP!Inv
    <3>2. rpc'[r].step \in {"ok", "internal"} /\ stdin'[c] = "closed"
      BY <2>6, AttemptMoves DEF InitialCloses
    <3>3. In(r, c)'  BY <1>3, <3>1
    <3> QED  BY <3>1, <3>2, <3>3
  <2>7. CASE InitialOrphaned(c)
    <3>1. starter'[c] = "lost"  BY <2>7 DEF InitialOrphaned, adapter
    <3>2. \/ rpc'[r] = [step |-> "write", call |-> c, eof |-> TRUE]
          \/ rpc'[r].step = "close" /\ rpc'[r].call = c
          \/ rpc'[r].step \in {"not_found", "ok", "internal"}
      BY <2>7, AttemptMoves DEF InitialOrphaned
    <3> QED  BY <3>1, <3>2
  <2> QED  BY <2>1, <2>2, <2>3, <2>4, <2>5, <2>6, <2>7 DEF Initials
<1> QED  BY <1>3, <1>4, <1>5

LEMMA MeetingStep ==
  ASSUME SystemInv, [SystemNext]_systemVars
  PROVE  Meeting'
<1>1. /\ \A d \in Call : StarterAgrees(d)' /\ ToldTrue(d)'
      /\ InputAgrees'
  BY RestStep, RestAgrees, InitialAgrees, UserAgrees DEF SystemNext
<1> QED  BY <1>1, ArrivedStep, BoundedStep DEF Meeting

-----------------------------------------------------------------------------
(***************************************************************************)
(* The refinement: each step of the whole is a step of ExecPipeline, or    *)
(* leaves what it is about unchanged.                                      *)
(***************************************************************************)
LEMMA Unchanged ==
  ASSUME UNCHANGED systemVars
  PROVE  UNCHANGED P!vars
<1>1. UNCHANGED P!adapter  BY SameAdapter DEF systemVars
<1> QED
  BY <1>1 DEF systemVars, agent, process, frames, feed, P!vars, P!stream, P!pipes

LEMMA AgentPlays ==
  ASSUME SystemInv, \A d \in Call : Bounded(d)', NEW c \in Call,
         AgentWorks(c) \/ ProcessRuns(c) \/ CallArrives(c) \/ StreamBreaks(c)
  PROVE  P!Next \/ UNCHANGED P!vars
<1>0. UNCHANGED adapter /\ UNCHANGED P!adapter
  BY SameAdapter DEF AgentWorks, ProcessRuns, CallArrives, StreamBreaks
<1>1. P!AgentStep(c) => P!Next  BY DEF P!Next
<1>2. CASE AgentWorks(c) \/ ProcessRuns(c)
  <2>1. Service!ServeCall(c) \/ UNCHANGED Service!agentVars
    BY <1>2, HandleServes, PumpServes, ProcessServes
       DEF AgentWorks, ProcessRuns, SystemInv
  <2>2. \A s \in P!Stream : wrote'[c][s] <= MaxOutput
    BY DEF Bounded, Stream, P!Stream
  <2>3. Service!ServeCall(c) => P!AgentStep(c)
    BY <1>0, <2>2, SameService DEF P!AgentStep
  <2> QED  BY <1>0, <1>1, <2>1, <2>3, SameAgent
<1>3. CASE CallArrives(c)
  <2>1. P!Begin(c)
    BY <1>3, StreamServes, SameService DEF CallArrives, SystemInv
  <2> QED  BY <1>0, <1>1, <1>3, <2>1 DEF CallArrives, P!AgentStep
<1>4. CASE StreamBreaks(c)
  <2>1. P!Cut(c)
    BY <1>4 DEF StreamBreaks, agent, process, frames, feed, P!Cut
  <2> QED  BY <1>0, <1>1, <1>4, <2>1 DEF StreamBreaks, P!AgentStep
<1> QED  BY <1>2, <1>3, <1>4

LEMMA AdapterPlays ==
  ASSUME \/ AdapterCrashes
         \/ \E c \in Call : Receive(c) \/ AdapterWorks(c) \/ AdapterDisturbed(c)
  PROVE  P!Next
  BY DEF AdapterCrashes, Receive, AdapterWorks, AdapterDisturbed, P!Next, P!Receiver,
     P!Starter

\* An attempt of writeInitialStdin: what it finds, and what it does to stdin.
LEMMA InitialPlays ==
  ASSUME SystemInv, NEW c \in Call, Initials(c) \/ InitialWrites(c)
  PROVE  P!Next
<1> DEFINE r == InitialOf[c]
<1> USE DEF SystemInv, InitialMoves
<1>0. /\ r \in Request /\ pc[c] \in {"idle", "starting", "started", "refused",
                                     "returned"} \cup Registered
      /\ stdin[c] \in {"open", "closed"}
  BY SystemOK DEF Inv, TypeOK
<1>1. P!Listed(c) <=> pc[c] \in Registered
  BY <1>0 DEF P!Listed, Registered, PhaseOf
<1>2. P!Starter(c) \/ P!StarterWrites(c) \/ P!StarterRefused(c) => P!Next
  BY DEF P!Next
<1>3. ASSUME UNCHANGED <<execs, pc, process, pump, frames, link, feed>>
      PROVE  UNCHANGED <<P!stream, P!pipes>>
  BY <1>3 DEF process, frames, feed, P!stream, P!pipes
<1>4. CASE InitialFound(c)
  <2>1. P!Listed(c)  BY <1>1, <1>4, OwnExec DEF InitialFound, StdinFound
  <2>2. P!StarterFound(c)
    BY <1>3, <1>4, <2>1 DEF InitialFound, StdinFound, P!StarterFound
  <2> QED  BY <1>2, <2>2 DEF P!Starter
<1>5. CASE InitialNotFound(c)
  <2>1. ~P!Listed(c)  BY <1>1, <1>5, OwnExec DEF InitialNotFound, NotFound
  <2>2. P!StarterNotFound(c)
    BY <1>3, <1>5, <2>1 DEF InitialNotFound, NotFound, P!StarterNotFound
  <2> QED  BY <1>2, <2>2 DEF P!Starter
<1>6. CASE InitialRetried(c)
  <2>1. P!StarterRetries(c)  BY <1>3, <1>6 DEF InitialRetried, P!StarterRetries
  <2> QED  BY <1>2, <2>1 DEF P!Starter
<1>7. CASE InitialRefused(c)
  <2>1. P!StarterRefused(c)
    BY <1>3, <1>7 DEF InitialRefused, StdinWriteFails, P!StarterRefused
  <2> QED  BY <1>2, <2>1
<1>8. rpc[r].step \in {"write", "close"} => rpc[r].call = c
  BY DEF Meeting, StarterAgrees, Attempt
\* An open stdin belongs to a registered call: cmd.Wait has not closed it.
<1>9. stdin[c] = "open" /\ rpc[r].step \in {"write", "close"} =>
        PhaseOf(pc[c]) = "running"
  BY <1>0, <1>8 DEF Inv, RpcLife, StdinLife, Registered, PhaseOf
<1>10. CASE InitialCloses(c)
  <2>1. /\ rpc[r].step = "close" /\ stdin' = [stdin EXCEPT ![c] = "closed"]
        /\ UNCHANGED <<execs, pc, process, pump, frames, link, input>>
    BY <1>8, <1>10 DEF InitialCloses, StdinClose
  <2>2. CASE stdin[c] = "open"
    <3>1. P!CloseInput(c)
      BY <1>9, <2>1, <2>2 DEF P!CloseInput, process, frames
    <3>2. P!StarterCloses(c)  BY <1>10, <2>2, <3>1 DEF InitialCloses, P!StarterCloses
    <3> QED  BY <1>2, <3>2 DEF P!Starter
  <2>3. CASE stdin[c] = "closed"
    <3>1. stdin' = stdin  BY <2>1, <2>3 DEF Inv, TypeOK
    <3>2. UNCHANGED <<P!stream, P!pipes>>  BY <1>3, <2>1, <3>1 DEF feed
    <3>3. P!StarterRefused(c)
      BY <1>10, <2>3, <3>2 DEF InitialCloses, P!StarterRefused
    <3> QED  BY <1>2, <3>3
  <2> QED  BY <1>0, <2>2, <2>3
<1>11. CASE InitialWrites(c)
  <2>1. /\ rpc[r].step = "write" /\ stdin[c] = "open"
        /\ input' = [input EXCEPT ![c] = Append(@, r)]
        /\ UNCHANGED <<execs, pc, process, pump, frames, link, stdin>>
    BY <1>8, <1>11 DEF InitialWrites, StdinWrite
  <2>2. P!Feed(c, r)  BY <1>9, <2>1 DEF P!Feed, process, frames
  <2>3. P!StarterWrites(c)  BY <1>11, <2>2 DEF InitialWrites, P!StarterWrites
  <2> QED  BY <1>2, <2>3
<1> QED  BY <1>4, <1>5, <1>6, <1>7, <1>10, <1>11 DEF Initials

\* The requests of the users, and an initial one whose writer is gone.
LEMMA RequestPlays ==
  ASSUME SystemInv, NEW r \in Request, Serve(r), UNCHANGED adapter,
         \A d \in Call : r = InitialOf[d] => starter[d] = "lost"
  PROVE  P!Next \/ UNCHANGED P!vars
<1> USE DEF SystemInv
<1>0. UNCHANGED P!adapter  BY SameAdapter
<1>1. CASE UNCHANGED Service!agentVars  BY <1>1, SameAgent
<1>2. ASSUME NEW c \in Call, c = rpc[r].call,
             \/ rpc[r].step = "write" /\ Service!Feed(c, r)
             \/ Service!CloseInput(c)
      PROVE  P!Next
  <2>1. rcv[c] # "idle"
    <3>1. PhaseOf(pc[c]) = "running"
      BY <1>2 DEF Service!Feed, Service!CloseInput
    <3> QED  BY <3>1 DEF Meeting, Arrived, PhaseOf
  <2>2. P!User(c) => P!Next  BY DEF P!Next
  <2>3. CASE Service!CloseInput(c)
    BY <1>0, <2>1, <2>2, <2>3, SameService DEF P!User, P!UserEOF
  <2>4. CASE rpc[r].step = "write" /\ Service!Feed(c, r)
    <3>1. \A i \in 1..Len(input[c]) : input[c][i] # r
      BY <2>4 DEF Meeting, InputAgrees, In
    <3>2. \A d \in Call : r = InitialOf[d] => d = c /\ starter[c] = "lost"
      BY <1>2, <2>4 DEF Meeting, StarterAgrees, Attempt
    <3>3. P!Feed(c, r)  BY <2>4, SameService
    <3>4. P!UserWrites(c)  BY <1>0, <2>1, <3>1, <3>2, <3>3 DEF P!UserWrites
    <3> QED  BY <2>2, <3>4 DEF P!User
  <2> QED  BY <1>2, <2>3, <2>4
<1> QED  BY <1>1, <1>2, ServeServes

LEMMA Plays ==
  ASSUME SystemInv, [SystemNext]_systemVars
  PROVE  [P!Next]_(P!vars)
<1>1. ASSUME NEW c \in Call, InitialOrphaned(c)  PROVE P!Next \/ UNCHANGED P!vars
  <2>1. /\ InitialOf[c] \in Request /\ Serve(InitialOf[c])
        /\ UNCHANGED adapter /\ starter[c] = "lost"
    BY <1>1, InitialServes DEF InitialOrphaned
  <2>2. \A d \in Call : InitialOf[c] = InitialOf[d] => d = c  BY SystemOK
  <2> QED  BY <2>1, <2>2, RequestPlays
<1>2. ASSUME NEW r \in Request, UserRequest(r)  PROVE P!Next \/ UNCHANGED P!vars
  BY <1>2, RequestPlays DEF UserRequest, Initial
<1> QED
  BY <1>1, <1>2, Unchanged, AgentPlays, AdapterPlays, InitialPlays, BoundedStep
     DEF SystemNext

-----------------------------------------------------------------------------
(***************************************************************************)
(* The invariant and the theorems it gives.                                *)
(***************************************************************************)
LEMMA InitSystem == ASSUME SystemInit PROVE SystemInv
<1> USE DEF SystemInit
<1>1. Inv  BY InitInv
<1>2. PP!Inv  BY Parameters, SameInit, PP!InitInv
<1>3. \A c \in Call : InitialOf[c] \in Request  BY SystemOK
<1>4. \A c \in Call : rpc[InitialOf[c]].step = "idle" /\ input[c] = <<>> /\ pc[c] = "idle"
  BY <1>3 DEF Init
<1>5. \A c \in Call : starter[c] \in {"none", "asked"}  BY DEF P!Init
<1>6. \A c \in Call : Arrived(c) /\ StarterAgrees(c) /\ ToldTrue(c)
  BY <1>4, <1>5 DEF Arrived, StarterAgrees, Attempt, ToldTrue
<1>7. \A c \in Call : Bounded(c)  BY SystemOK DEF Init, Bounded
<1>8. InputAgrees  BY <1>4 DEF InputAgrees, In
<1>9. DoneMeansGone
  <2>1. \A c \in Call : wire[c] = <<>>  BY DEF Init
  <2>2. \A c \in Call : rcv[c] = "idle" /\ chan[c] = <<>> /\ status[c] = "running"
    BY DEF P!Init
  <2> QED  BY <2>1, <2>2 DEF DoneMeansGone, PP!DoneSeen, PP!Has
<1> QED  BY <1>1, <1>2, <1>6, <1>7, <1>8, <1>9 DEF SystemInv, Meeting

\* A process that is gone stays gone.
LEMMA GoneStays ==
  ASSUME SystemInv, [SystemNext]_systemVars, NEW d \in Call, Gone(d)
  PROVE  Gone(d)'
<1> USE DEF SystemInv, Gone
<1>1. ASSUME NEW c \in Call, AgentWorks(c)  PROVE Gone(d)'
  BY <1>1 DEF Inv, TypeOK, AgentWorks, Handle, KillOnCancel, Pump, PumpRead, PumpEOF,
     PumpSend, PumpSendFails, PumpGoto, Goto, Start, StartFails, Register,
     RefuseDuplicate, ReapRefused, AwaitOut, AwaitErr, Wait, Reap, SendDone,
     SendDoneFails, Unregister, process
<1>2. ASSUME NEW c \in Call, ProcessRuns(c) \/ CallArrives(c) \/ Receive(c)
      PROVE  Gone(d)'
  BY <1>2 DEF Inv, TypeOK, ProcessRuns, CallArrives, Receive, Begin, Goto, Fork,
     OrphanEnds, Exit, ProcWrite, Deliver, process
<1>3. ASSUME NEW r \in Request, Serve(r)  PROVE Gone(d)'
  BY <1>3 DEF Inv, TypeOK, Serve, NotFound, SignalFound, StdinFound, StdinWrite,
     StdinWriteFails, StdinClose, Signal, process
<1>4. ASSUME NEW c \in Call, InitialRetried(c)  PROVE Gone(d)'
  BY <1>4 DEF InitialRetried, process
<1>5. CASE \/ AdapterCrashes \/ UNCHANGED systemVars
           \/ \E c \in Call : StreamBreaks(c) \/ AdapterWorks(c) \/ AdapterDisturbed(c)
  BY <1>5, AdapterHangsUp DEF agent, process, systemVars
<1> QED
  BY <1>1, <1>2, <1>3, <1>4, <1>5, InitialServes DEF SystemNext, Initials, UserRequest

\* A Done frame is sent by a handler that has waited for the pumps and for
\* the process, on a stream that stands.
LEMMA DoneByGone ==
  ASSUME SystemInv, Inv', NEW c \in Call, PP!Finish(c)
  PROVE  Gone(c)'
<1>1. /\ PhaseOf(pc[c]) = "running" /\ link[c] = "up" /\ link' = link
      /\ [d \in Call |-> PhaseOf(pc'[d])]
           = [[d \in Call |-> PhaseOf(pc[d])] EXCEPT ![c] = "done"]
  BY DEF PP!Finish
<1>2. PhaseOf(pc'[c]) = "done"  BY <1>1
<1>3. pc'[c] = "leaving"  BY <1>2 DEF Inv, TypeOK, Registered, PhaseOf
<1>4. proc'[c] = "reaped" /\ \A s \in Stream : pump'[c][s] = "finished"
  BY <1>3 DEF Inv, ProcLife, PumpLife
<1>5. ~Writing(c)'
  BY <1>1, <1>3, <1>4 DEF Inv, Accounts, Stream
<1> QED  BY <1>3, <1>4, <1>5 DEF Gone, Writing

LEMMA SystemStep == ASSUME SystemInv, [SystemNext]_systemVars PROVE SystemInv'
<1>1. Inv'  BY AgentStep DEF SystemInv
<1>2. Meeting'  BY MeetingStep
<1>3. [PP!Next]_(PP!vars)  BY Plays, SameStep
<1>4. PP!Inv'  BY <1>3, Parameters, PP!InvStep DEF SystemInv
<1>5. DoneMeansGone'
  <2> SUFFICES ASSUME NEW c \in Call, PP!DoneSeen(c)' PROVE Gone(c)'
    BY DEF DoneMeansGone
  <2>1. CASE PP!DoneSeen(c)
    BY <2>1, GoneStays DEF SystemInv, DoneMeansGone
  <2>2. CASE ~PP!DoneSeen(c)
    <3>1. PP!Finish(c)
      BY <1>3, <1>4, <2>2, Parameters, PP!OneDone DEF SystemInv, PP!Inv
    <3> QED  BY <1>1, <3>1, DoneByGone
  <2> QED  BY <2>1, <2>2
<1> QED  BY <1>1, <1>2, <1>4, <1>5 DEF SystemInv

LEMMA SystemInvariance == SystemSpec => []SystemInv
<1>1. SystemInit => SystemInv  BY InitSystem
<1>2. SystemInv /\ [SystemNext]_systemVars => SystemInv'  BY SystemStep
<1> QED  BY <1>1, <1>2, PTL DEF SystemSpec

\* The handlers, pumps, processes and requests of the guest agent are, to the
\* adapter, what ExecPipeline assumes of an agent: whatever is proved of
\* ExecPipeline is true of the adapter and the agent together.
THEOREM PipelineImplemented == SystemSpec => ImplementsPipeline
<1>1. SystemInit => P!Init  BY DEF SystemInit
<1>2. SystemInv /\ [SystemNext]_systemVars => [P!Next]_(P!vars)  BY Plays
<1> QED  BY <1>1, <1>2, SystemInvariance, PTL DEF SystemSpec, ImplementsPipeline, P!Spec

\* An exec that is called completed has a process that has been reaped, and
\* all that it wrote is in the record.
THEOREM CompletedOver == SystemSpec => []CompletedIsOver
<1>1. SystemInv => CompletedIsOver
  <2> SUFFICES ASSUME SystemInv, NEW c \in Call, status[c] = "completed"
               PROVE  proc[c] = "reaped" /\ ~orphan[c] /\ captured[c] = wrote[c]
    BY DEF CompletedIsOver
  <2>1. captured[c] = wrote[c]
    BY DEF SystemInv, PP!Inv, PP!DoneComesLast
  <2>2. Gone(c)  BY DEF SystemInv, DoneMeansGone, PP!DoneSeen
  <2> QED  BY <2>1, <2>2 DEF Gone
<1> QED  BY <1>1, SystemInvariance, PTL

\* The retries of writeInitialStdin: the initial stdin goes to its own
\* process, once at most; once, and with its end, if the writer has been told
\* so.
THEOREM InitialStdinOnce == SystemSpec => []InitialOnce
<1>1. SystemInv => InitialOnce
  BY DEF SystemInv, Meeting, InputAgrees, In, ToldTrue, InitialOnce
<1> QED  BY <1>1, SystemInvariance, PTL
\* What ExecPipeline proves of the answers holds with the agent in place: a
\* caller who has been told the outcome of an exec is told the same ever
\* after, from the record and from its row, unless the row was not written.
THEOREM SystemAnswersAgree == SystemSpec => P!AnswersAgree
<1>1. SystemSpec => P!Spec  BY PipelineImplemented DEF ImplementsPipeline
<1>2. P!Spec => PP!Spec  BY SameInit, SameStep, PTL DEF P!Spec, PP!Spec
<1>3. PP!Spec => PP!AnswersAgree  BY Parameters, PP!AnswersCorrect
<1>4. PP!AnswersAgree => P!AnswersAgree
  <2>1. [\A c \in Call : told[c].status \in PP!Final
                           => told'[c] = told[c] \/ lost[c]]_told
          => [\A c \in Call : told[c].status \in P!Final
                                => told'[c] = told[c] \/ lost[c]]_told
    BY DEF PP!Final, P!Final
  <2> QED  BY <2>1, PTL DEF P!AnswersAgree, PP!AnswersAgree
<1> QED  BY <1>1, <1>2, <1>3, <1>4, PTL
=============================================================================
