--------------------------- MODULE GuestAgentProofs ---------------------------
(***************************************************************************)
(* Theorems about GuestAgent, for any calls, exec_ids, requests and        *)
(* capacities: its types, the map of registered execs, the processes it    *)
(* leaves behind, and that it implements AgentService.                     *)
(***************************************************************************)
EXTENDS GuestAgent, TLAPS

(***************************************************************************)
(* The inductive invariant.  Where a handler is tells what its process,    *)
(* its pumps and its stdin can be.                                         *)
(***************************************************************************)
ProcLife ==
  \A c \in Call :
    /\ pc[c] \in {"idle", "starting"} => proc[c] = "none"
    /\ pc[c] \in {"started", "out", "err", "wait"} => proc[c] \in {"running", "zombie"}
    /\ pc[c] = "refused" => proc[c] = "zombie"
    /\ pc[c] \in {"reaped", "leaving"} => proc[c] = "reaped"
    /\ pc[c] = "returned" => proc[c] \in {"none", "reaped"}
    /\ proc[c] = "none" => ~orphan[c]

\* A pump works from the registration on and is waited for.
PumpLife ==
  \A c \in Call, s \in Stream :
    /\ pc[c] \in {"idle", "starting", "started", "refused"} => pump[c][s] = "off"
    /\ pc[c] \in {"out", "err"} => pump[c][s] # "off"
    /\ pc[c] = "err" => pump[c]["out"] = "finished"
    /\ pc[c] \in {"wait", "reaped", "leaving"} => pump[c][s] = "finished"
    /\ pc[c] = "returned" => pump[c][s] \in {"off", "finished"}

\* As long as the stream stands, what was written is sent, held by a pump or
\* in the pipe; and a pump stops only when nothing more can be written.
Held(c, s) == IF pump[c][s] = "holding" THEN 1 ELSE 0
Accounts ==
  \A c \in Call, s \in Stream :
    link[c] = "up" /\ pc[c] \notin {"refused", "returned"} =>
      /\ wrote[c][s] = sent[c][s] + pipe[c][s] + Held(c, s)
      /\ pump[c][s] = "finished" => pipe[c][s] = 0 /\ ~Writing(c)

StdinLife ==
  \A c \in Call : pc[c] \in {"reaped", "leaving", "returned"} => stdin[c] = "closed"

\* A request at work has found a call that was registered.
RpcLife ==
  \A r \in Request : rpc[r].step \in {"write", "close", "signal"} =>
    rpc[r].call \in Call /\ pc[rpc[r].call] \in Registered \cup {"returned"}

\* An entry of the map is filed under the exec_id of its call.
FiledById == \A id \in ExecId : execs[id] # None => Id(execs[id]) = id

Inv == /\ TypeOK /\ RegisteredIsReachable /\ FiledById
       /\ ProcLife /\ PumpLife /\ StdinLife /\ RpcLife /\ Accounts

-----------------------------------------------------------------------------
LEMMA InitInv == ASSUME Init PROVE Inv
<1> USE ConstantsOK DEF Init, Stream
<1>1. TypeOK  BY DEF TypeOK
<1>2. RegisteredIsReachable /\ FiledById
  BY DEF RegisteredIsReachable, FiledById, Registered, Id
<1>3. ProcLife /\ PumpLife /\ StdinLife /\ RpcLife
  BY DEF ProcLife, PumpLife, StdinLife, RpcLife
<1>4. Accounts  BY DEF Accounts, Held, Writing
<1> QED  BY <1>1, <1>2, <1>3, <1>4 DEF Inv

-----------------------------------------------------------------------------
(***************************************************************************)
(* Types.                                                                  *)
(***************************************************************************)
LEMMA HandleTypes ==
  ASSUME TypeOK, NEW c \in Call, Handle(c)
  PROVE  TypeOK'
<1> USE DEF TypeOK, process, frames, feed, Goto, Reap, Registered, Stream
<1>1. CASE Start(c)  BY <1>1 DEF Start
<1>2. CASE StartFails(c)  BY <1>2 DEF StartFails
<1>3. CASE Register(c)
  <2>1. Id(c) \in ExecId  BY ConstantsOK DEF Id
  <2>2. execs' \in [ExecId -> Call \cup {None}] /\ pc' \in [Call -> {"idle", "starting",
                      "started", "refused", "returned"} \cup Registered]
    BY <1>3, <2>1 DEF Register
  <2>3. pump' \in [Call -> [Stream -> {"off", "reading", "holding", "finished"}]]
    BY <1>3 DEF Register
  <2> QED  BY <1>3, <2>2, <2>3 DEF Register
<1>4. CASE RefuseDuplicate(c)  BY <1>4 DEF RefuseDuplicate
<1>5. CASE ReapRefused(c)
  <2>1. pipe' \in [Call -> [Stream -> 0..PipeCap]]  BY <1>5, ConstantsOK DEF ReapRefused
  <2> QED  BY <1>5, <2>1 DEF ReapRefused
<1>6. CASE AwaitOut(c)  BY <1>6 DEF AwaitOut
<1>7. CASE AwaitErr(c)  BY <1>7 DEF AwaitErr
<1>8. CASE Wait(c)
  <2>1. pipe' \in [Call -> [Stream -> 0..PipeCap]]  BY <1>8, ConstantsOK DEF Wait
  <2> QED  BY <1>8, <2>1 DEF Wait
<1>9. CASE SendDone(c)
  <2>1. wire' \in [Call -> Seq(Stream \cup {"done"})]  BY <1>9 DEF SendDone
  <2>2. \A d \in Call : Len(wire'[d]) <= Window  BY <1>9, ConstantsOK DEF SendDone
  <2> QED  BY <1>9, <2>1, <2>2 DEF SendDone
<1>10. CASE SendDoneFails(c)  BY <1>10 DEF SendDoneFails
<1>11. CASE Unregister(c)  BY <1>11, ConstantsOK DEF Unregister, Id
<1> QED
  BY <1>1, <1>2, <1>3, <1>4, <1>5, <1>6, <1>7, <1>8, <1>9, <1>10, <1>11 DEF Handle

LEMMA PumpTypes ==
  ASSUME TypeOK, NEW c \in Call, NEW s \in Stream, Pump(c, s)
  PROVE  TypeOK'
<1> USE DEF TypeOK, process, frames, feed, PumpGoto
<1>1. CASE PumpRead(c, s)
  <2>1. pipe' \in [Call -> [Stream -> 0..PipeCap]]
    <3>1. pipe[c][s] \in 0..PipeCap /\ pipe[c][s] > 0  BY <1>1 DEF PumpRead
    <3>2. pipe[c][s] - 1 \in 0..PipeCap  BY <3>1, ConstantsOK
    <3> QED  BY <1>1, <3>2 DEF PumpRead
  <2>2. pump' \in [Call -> [Stream -> {"off", "reading", "holding", "finished"}]]
    BY <1>1 DEF PumpRead
  <2> QED  BY <1>1, <2>1, <2>2 DEF PumpRead
<1>2. CASE PumpEOF(c, s)  BY <1>2 DEF PumpEOF
<1>3. CASE PumpSend(c, s)
  <2>1. wire' \in [Call -> Seq(Stream \cup {"done"})]  BY <1>3 DEF PumpSend
  <2>2. \A d \in Call : Len(wire'[d]) <= Window  BY <1>3, ConstantsOK DEF PumpSend
  <2>3. sent' \in [Call -> [Stream -> Nat]]  BY <1>3 DEF PumpSend
  <2>4. pump' \in [Call -> [Stream -> {"off", "reading", "holding", "finished"}]]
    BY <1>3 DEF PumpSend
  <2> QED  BY <1>3, <2>1, <2>2, <2>3, <2>4 DEF PumpSend
<1>4. CASE PumpSendFails(c, s)  BY <1>4 DEF PumpSendFails
<1> QED  BY <1>1, <1>2, <1>3, <1>4 DEF Pump

LEMMA EnvironmentTypes ==
  ASSUME TypeOK, NEW c \in Call, Environment(c) \/ KillOnCancel(c)
  PROVE  TypeOK'
<1> USE DEF TypeOK, process, frames, feed, Goto
<1>1. CASE Begin(c)  BY <1>1 DEF Begin
<1>2. CASE Fork(c)  BY <1>2 DEF Fork
<1>3. CASE OrphanEnds(c)  BY <1>3 DEF OrphanEnds
<1>4. CASE Exit(c)  BY <1>4 DEF Exit
<1>5. CASE Deliver(c)
  <2>1. wire[c] \in Seq(Stream \cup {"done"}) /\ wire[c] # <<>>  BY <1>5 DEF Deliver
  <2>2. /\ Tail(wire[c]) \in Seq(Stream \cup {"done"})
        /\ Len(Tail(wire[c])) = Len(wire[c]) - 1 /\ Len(wire[c]) \in Nat
    BY <2>1
  <2>3. \A d \in Call : Len(wire'[d]) <= Window  BY <1>5, <2>2, ConstantsOK DEF Deliver
  <2> QED  BY <1>5, <2>2, <2>3 DEF Deliver
<1>6. CASE Cut(c)  BY <1>6 DEF Cut
<1>7. ASSUME NEW s \in Stream, ProcWrite(c, s)  PROVE TypeOK'
  <2>1. pipe' \in [Call -> [Stream -> 0..PipeCap]]
    <3>1. pipe[c][s] \in 0..PipeCap /\ pipe[c][s] < PipeCap  BY <1>7 DEF ProcWrite
    <3>2. pipe[c][s] + 1 \in 0..PipeCap  BY <3>1, ConstantsOK
    <3> QED  BY <1>7, <3>2 DEF ProcWrite
  <2>2. wrote' \in [Call -> [Stream -> Nat]]  BY <1>7 DEF ProcWrite
  <2> QED  BY <1>7, <2>1, <2>2 DEF ProcWrite
<1>8. CASE KillOnCancel(c)  BY <1>8 DEF KillOnCancel
<1> QED
  BY <1>1, <1>2, <1>3, <1>4, <1>5, <1>6, <1>7, <1>8 DEF Environment

\* A request at work has found a call, so that what it acts on exists.
LEMMA ServeTypes ==
  ASSUME TypeOK, RpcLife, NEW r \in Request, Serve(r)
  PROVE  TypeOK'
<1> USE DEF TypeOK, process, frames, feed, Answer
<1>1. ASSUME NEW id \in ExecId, NotFound(r, id)  PROVE TypeOK'
  BY <1>1 DEF NotFound
<1>2. ASSUME NEW id \in ExecId, SignalFound(r, id)  PROVE TypeOK'
  BY <1>2 DEF SignalFound
<1>3. ASSUME NEW id \in ExecId, NEW d \in BOOLEAN, NEW eof \in BOOLEAN,
             StdinFound(r, id, d, eof)
      PROVE  TypeOK'
  BY <1>3 DEF StdinFound
<1>4. CASE StdinWrite(r)
  <2>1. rpc[r].call \in Call  BY <1>4 DEF StdinWrite, RpcLife
  <2>2. input' \in [Call -> Seq(Request)]  BY <1>4, <2>1 DEF StdinWrite
  <2>3. rpc' \in [Request -> [step : {"idle", "write", "close", "signal", "ok",
                                      "internal", "not_found"},
                              call : Call \cup {None}, eof : BOOLEAN]]
    <3>1. CASE rpc[r].eof
      <4>1. rpc' = [rpc EXCEPT ![r].step = "close"]  BY <1>4, <3>1 DEF StdinWrite
      <4>2. rpc \in [Request -> [step : {"idle", "write", "close", "signal", "ok",
                                        "internal", "not_found"},
                                call : Call \cup {None}, eof : BOOLEAN]]
        OBVIOUS
      <4> HIDE DEF TypeOK
      <4> QED  BY <4>1, <4>2
    <3>2. CASE ~rpc[r].eof
      <4>1. Answer(r, "ok")  BY <1>4, <3>2 DEF StdinWrite
      <4> QED  BY <4>1
    <3> QED  BY <3>1, <3>2
  <2> QED  BY <1>4, <2>2, <2>3 DEF StdinWrite
<1>5. CASE StdinWriteFails(r)  BY <1>5 DEF StdinWriteFails
<1>6. CASE StdinClose(r)  BY <1>6 DEF StdinClose
<1>7. CASE Signal(r)
  <2>1. rpc' \in [Request -> [step : {"idle", "write", "close", "signal", "ok",
                                      "internal", "not_found"},
                              call : Call \cup {None}, eof : BOOLEAN]]
    BY <1>7 DEF Signal
  <2>2. \/ proc' = [proc EXCEPT ![rpc[r].call] = "zombie"]
        \/ proc' = proc
    BY <1>7 DEF Signal
  <2>3. proc' \in [Call -> {"none", "running", "zombie", "reaped"}]
    BY <2>2
  <2> QED  BY <1>7, <2>1, <2>3 DEF Signal
<1> QED
  BY <1>1, <1>2, <1>3, <1>4, <1>5, <1>6, <1>7 DEF Serve

-----------------------------------------------------------------------------
(***************************************************************************)
(* The map.                                                                *)
(***************************************************************************)

\* Only the handlers move a call on and change the map.
LEMMA HandlersOnly ==
  ASSUME \/ \E c \in Call : \/ KillOnCancel(c) \/ (Environment(c) /\ ~Begin(c))
                            \/ \E s \in Stream : Pump(c, s)
         \/ \E r \in Request : Serve(r)
  PROVE  UNCHANGED <<execs, pc>>
<1>1. ASSUME NEW c \in Call, KillOnCancel(c) \/ (Environment(c) /\ ~Begin(c))
      PROVE  UNCHANGED <<execs, pc>>
  BY <1>1 DEF KillOnCancel, Environment, Fork, OrphanEnds, Exit, Deliver, Cut, ProcWrite
<1>2. ASSUME NEW c \in Call, NEW s \in Stream, Pump(c, s)
      PROVE  UNCHANGED <<execs, pc>>
  BY <1>2 DEF Pump, PumpRead, PumpEOF, PumpSend, PumpSendFails
<1>3. ASSUME NEW r \in Request, Serve(r)  PROVE UNCHANGED <<execs, pc>>
  BY <1>3 DEF Serve, NotFound, SignalFound, StdinFound, StdinWrite, StdinWriteFails,
     StdinClose, Signal
<1> QED  BY <1>1, <1>2, <1>3

\* How a handler moves on.
LEMMA HandlerMoves ==
  ASSUME TypeOK, NEW c \in Call, Handle(c) \/ Begin(c)
  PROVE  /\ \A d \in Call : d # c => pc'[d] = pc[d]
         /\ pc[c] \in Registered \cup {"returned"} =>
              pc'[c] \in Registered \cup {"returned"}
         /\ \/ Register(c) \/ Unregister(c)
            \/ execs' = execs /\ (pc[c] \in Registered <=> pc'[c] \in Registered)
<1>1. ASSUME NEW from, NEW to, Goto(c, from, to)
      PROVE  /\ pc[c] = from /\ pc'[c] = to
             /\ \A d \in Call : d # c => pc'[d] = pc[d]
  BY <1>1 DEF Goto, TypeOK
<1>2. CASE Begin(c)  BY <1>1, <1>2 DEF Begin, Registered
<1>3. CASE \/ Start(c) \/ StartFails(c) \/ RefuseDuplicate(c) \/ ReapRefused(c)
  BY <1>1, <1>3 DEF Start, StartFails, RefuseDuplicate, ReapRefused, Registered
<1>4. CASE \/ AwaitOut(c) \/ AwaitErr(c) \/ Wait(c) \/ SendDone(c) \/ SendDoneFails(c)
  BY <1>1, <1>4 DEF AwaitOut, AwaitErr, Wait, SendDone, SendDoneFails, Registered
<1>5. CASE Register(c) \/ Unregister(c)
  BY <1>1, <1>5 DEF Register, Unregister, Registered
<1> QED  BY <1>2, <1>3, <1>4, <1>5 DEF Handle

LEMMA MapStep ==
  ASSUME TypeOK, RegisteredIsReachable, FiledById, [Next]_vars
  PROVE  RegisteredIsReachable' /\ FiledById'
<1> USE DEF RegisteredIsReachable, FiledById, Id
<1>1. CASE UNCHANGED <<execs, pc>>  BY <1>1
<1>2. ASSUME NEW c \in Call, Register(c)
      PROVE  RegisteredIsReachable' /\ FiledById'
  <2>1. /\ execs[Id(c)] = None /\ execs' = [execs EXCEPT ![Id(c)] = c]
        /\ pc[c] \notin Registered /\ pc' = [pc EXCEPT ![c] = "out"]
    BY <1>2 DEF Register, Goto, Registered
  <2>2. \A d \in Call : d # None /\ Id(d) \in ExecId  BY ConstantsOK
  <2> QED  BY <2>1, <2>2 DEF TypeOK, Registered
<1>3. ASSUME NEW c \in Call, Unregister(c)
      PROVE  RegisteredIsReachable' /\ FiledById'
  <2>1. /\ pc[c] \in Registered /\ pc' = [pc EXCEPT ![c] = "returned"]
        /\ execs' = [execs EXCEPT ![Id(c)] = None]
    BY <1>3 DEF Unregister, Goto, Registered
  <2>2. \A d \in Call : d # None /\ Id(d) \in ExecId  BY ConstantsOK
  <2> DEFINE there(d) == pc[d] \in Registered
  <2>3. \A d \in Call : there(d)' <=> there(d) /\ d # c
    BY <2>1 DEF TypeOK, Registered
  <2>4. \A id \in ExecId : execs'[id] = IF id = Id(c) THEN None ELSE execs[id]
    BY <2>1 DEF TypeOK
  <2>5. execs[Id(c)] = c  BY <2>1
  <2> QED  BY <2>2, <2>3, <2>4, <2>5
<1>4. ASSUME NEW c \in Call, Handle(c) \/ Begin(c)
      PROVE  RegisteredIsReachable' /\ FiledById'
  BY <1>2, <1>3, <1>4, HandlerMoves
<1> QED  BY <1>1, <1>4, HandlersOnly DEF Next, vars

-----------------------------------------------------------------------------
(***************************************************************************)
(* The process, the pumps and stdin of a call.                             *)
(***************************************************************************)
Life == ProcLife /\ PumpLife /\ StdinLife

LEMMA HandleLife ==
  ASSUME TypeOK, Life, NEW c \in Call, Handle(c)
  PROVE  Life'
<1> USE DEF TypeOK, Life, ProcLife, PumpLife, StdinLife, process, feed, Goto, Reap, Stream
<1>1. CASE Start(c)  BY <1>1 DEF Start
<1>2. CASE StartFails(c)  BY <1>2 DEF StartFails
<1>3. CASE Register(c)  BY <1>3 DEF Register
<1>4. CASE RefuseDuplicate(c)  BY <1>4 DEF RefuseDuplicate
<1>5. CASE ReapRefused(c)  BY <1>5 DEF ReapRefused
<1>6. CASE AwaitOut(c)  BY <1>6 DEF AwaitOut
<1>7. CASE AwaitErr(c)  BY <1>7 DEF AwaitErr
<1>8. CASE Wait(c)  BY <1>8 DEF Wait
<1>9. CASE SendDone(c)  BY <1>9 DEF SendDone
<1>10. CASE SendDoneFails(c)  BY <1>10 DEF SendDoneFails
<1>11. CASE Unregister(c)  BY <1>11 DEF Unregister
<1> QED
  BY <1>1, <1>2, <1>3, <1>4, <1>5, <1>6, <1>7, <1>8, <1>9, <1>10, <1>11 DEF Handle

LEMMA PumpLifeStep ==
  ASSUME TypeOK, Life, NEW c \in Call, NEW s \in Stream, Pump(c, s)
  PROVE  Life'
<1>1. /\ UNCHANGED <<pc, proc, orphan, stdin>>
      /\ pump[c][s] \in {"reading", "holding"}
      /\ \E to \in {"reading", "holding", "finished"} : pump' = [pump EXCEPT ![c][s] = to]
  BY DEF Pump, PumpRead, PumpEOF, PumpSend, PumpSendFails, PumpGoto, process, feed
<1>2. pump \in [Call -> [Stream -> {"off", "reading", "holding", "finished"}]]
  BY DEF TypeOK
<1>3. /\ pump'[c][s] # "off"
      /\ \A d \in Call, z \in Stream : d # c \/ z # s => pump'[d][z] = pump[d][z]
  BY <1>1, <1>2
<1>4. ProcLife' /\ StdinLife'  BY <1>1 DEF Life, ProcLife, StdinLife
<1>5. PumpLife'
  <2>1. "out" \in Stream  BY DEF Stream
  <2>2. pc[c] \in {"out", "err"}
    BY <1>1 DEF Life, PumpLife, TypeOK, Registered
  <2>3. pc[c] = "err" => s # "out"  BY <1>1 DEF Life, PumpLife
  <2> QED  BY <1>1, <1>3, <2>1, <2>2, <2>3 DEF Life, PumpLife
<1> QED  BY <1>4, <1>5 DEF Life

LEMMA EnvironmentLife ==
  ASSUME TypeOK, Life, NEW c \in Call, Environment(c) \/ KillOnCancel(c)
  PROVE  Life'
<1> USE DEF TypeOK, Life, ProcLife, PumpLife, StdinLife, process, feed, Goto
<1>1. CASE Begin(c)  BY <1>1 DEF Begin
<1>2. CASE Fork(c)  BY <1>2 DEF Fork
<1>3. CASE OrphanEnds(c)  BY <1>3 DEF OrphanEnds
<1>4. CASE Exit(c)  BY <1>4 DEF Exit
<1>5. CASE Deliver(c)  BY <1>5 DEF Deliver
<1>6. CASE Cut(c)  BY <1>6 DEF Cut
<1>7. ASSUME NEW s \in Stream, ProcWrite(c, s)  PROVE Life'
  BY <1>7 DEF ProcWrite
<1>8. CASE KillOnCancel(c)  BY <1>8 DEF KillOnCancel
<1> QED
  BY <1>1, <1>2, <1>3, <1>4, <1>5, <1>6, <1>7, <1>8 DEF Environment

LEMMA ServeLife ==
  ASSUME TypeOK, Life, NEW r \in Request, Serve(r)
  PROVE  Life'
<1> USE DEF TypeOK, Life, ProcLife, PumpLife, StdinLife, process, feed
<1>1. ASSUME NEW id \in ExecId, NotFound(r, id) \/ SignalFound(r, id)  PROVE Life'
  BY <1>1 DEF NotFound, SignalFound
<1>2. ASSUME NEW id \in ExecId, NEW d \in BOOLEAN, NEW eof \in BOOLEAN,
             StdinFound(r, id, d, eof)
      PROVE  Life'
  BY <1>2 DEF StdinFound
<1>3. CASE StdinWrite(r)  BY <1>3 DEF StdinWrite
<1>4. CASE StdinWriteFails(r)  BY <1>4 DEF StdinWriteFails
<1>5. CASE StdinClose(r)  BY <1>5 DEF StdinClose
<1>6. CASE Signal(r)
  <2>1. UNCHANGED <<pc, orphan, pump, stdin>>  BY <1>6 DEF Signal
  <2>2. \A c \in Call : \/ proc'[c] = proc[c]
                        \/ proc[c] = "running" /\ proc'[c] = "zombie"
    BY <1>6 DEF Signal
  <2> QED  BY <2>1, <2>2
<1> QED  BY <1>1, <1>2, <1>3, <1>4, <1>5, <1>6 DEF Serve

LEMMA LifeStep ==
  ASSUME TypeOK, Life, [Next]_vars
  PROVE  Life'
<1>1. CASE UNCHANGED vars
  BY <1>1 DEF Life, ProcLife, PumpLife, StdinLife, vars, process, feed
<1> QED
  BY <1>1, HandleLife, PumpLifeStep, EnvironmentLife, ServeLife DEF Next

-----------------------------------------------------------------------------
(***************************************************************************)
(* The requests: what was found in the map stays a call that has been      *)
(* registered.                                                             *)
(***************************************************************************)
LEMMA RpcStep ==
  ASSUME TypeOK, RegisteredIsReachable, FiledById, RpcLife, [Next]_vars
  PROVE  RpcLife'
<1>1. CASE UNCHANGED vars  BY <1>1 DEF RpcLife, vars
<1>2. \A c \in Call : pc[c] \in Registered \cup {"returned"} =>
        pc'[c] \in Registered \cup {"returned"}
  BY HandlersOnly, HandlerMoves DEF Next, vars
<1>3. ASSUME NEW c \in Call, \/ Handle(c) \/ KillOnCancel(c) \/ Environment(c)
                            \/ \E s \in Stream : Pump(c, s)
      PROVE  rpc' = rpc
  BY <1>3 DEF KillOnCancel, Environment, Begin, Fork, OrphanEnds, Exit, Deliver, Cut,
     ProcWrite, Pump, PumpRead, PumpEOF, PumpSend, PumpSendFails, Handle, Start,
     StartFails, Register, RefuseDuplicate, ReapRefused, AwaitOut, AwaitErr, Wait,
     SendDone, SendDoneFails, Unregister
<1>4. ASSUME NEW r \in Request, Serve(r)  PROVE RpcLife'
  <2>1. UNCHANGED <<execs, pc>>  BY <1>4, HandlersOnly
  <2>2. \A id \in ExecId : execs[id] # None =>
          execs[id] \in Call /\ pc[execs[id]] \in Registered
    BY DEF TypeOK, RegisteredIsReachable, FiledById
  <2>3. \A q \in Request : q # r => rpc'[q] = rpc[q]
    BY <1>4 DEF TypeOK, Serve, NotFound, SignalFound, StdinFound, StdinWrite,
       StdinWriteFails, StdinClose, Signal, Answer
  <2>4. rpc'[r].step \in {"write", "close", "signal"} =>
          \/ rpc'[r].call = rpc[r].call /\ rpc[r].step = "write"
          \/ \E id \in ExecId : execs[id] # None /\ rpc'[r].call = execs[id]
    <3>1. ASSUME NEW id \in ExecId, NEW d \in BOOLEAN, NEW eof \in BOOLEAN,
                 StdinFound(r, id, d, eof)
          PROVE  execs[id] # None /\ rpc'[r].call = execs[id]
      BY <3>1 DEF StdinFound, TypeOK
    <3>2. ASSUME NEW id \in ExecId, SignalFound(r, id)
          PROVE  execs[id] # None /\ rpc'[r].call = execs[id]
      BY <3>2 DEF SignalFound, TypeOK
    <3>3. CASE StdinWrite(r)
      <4>1. rpc[r].step = "write" /\ \/ Answer(r, "ok")
                                     \/ rpc' = [rpc EXCEPT ![r].step = "close"]
        BY <3>3 DEF StdinWrite
      <4> QED  BY <4>1 DEF Answer, TypeOK
    <3>4. ASSUME \/ StdinWriteFails(r) \/ StdinClose(r) \/ Signal(r)
                 \/ \E id \in ExecId : NotFound(r, id)
          PROVE  rpc'[r].step \notin {"write", "close", "signal"}
      BY <3>4 DEF StdinWriteFails, StdinClose, Signal, NotFound, Answer, TypeOK
    <3> QED  BY <1>4, <3>1, <3>2, <3>3, <3>4 DEF Serve
  <2> QED  BY <2>1, <2>2, <2>3, <2>4 DEF RpcLife
<1> QED  BY <1>1, <1>2, <1>3, <1>4 DEF Next, RpcLife

-----------------------------------------------------------------------------
(***************************************************************************)
(* The output: nothing is lost between the process and the stream.         *)
(***************************************************************************)
\* What the accounts need of the types.
LEMMA CountTypes ==
  ASSUME TypeOK
  PROVE  /\ pipe \in [Call -> [Stream -> Nat]] /\ wrote \in [Call -> [Stream -> Nat]]
         /\ sent \in [Call -> [Stream -> Nat]]
         /\ pump \in [Call -> [Stream -> {"off", "reading", "holding", "finished"}]]
         /\ pc = [c \in Call |-> pc[c]] /\ proc = [c \in Call |-> proc[c]]
         /\ orphan = [c \in Call |-> orphan[c]] /\ link = [c \in Call |-> link[c]]
         /\ link \in [Call -> {"up", "cut"}]
  BY ConstantsOK DEF TypeOK

LEMMA HandleAccounts ==
  ASSUME TypeOK, Life, Accounts, NEW c \in Call, Handle(c)
  PROVE  Accounts'
<1> USE CountTypes DEF Accounts, Held, Writing, process, frames, feed, Goto, Reap, Stream
<1>1. CASE Start(c)  BY <1>1 DEF Start, Life, PumpLife
<1>2. CASE StartFails(c)  BY <1>2 DEF StartFails
<1>3. CASE Register(c)
  <2>1. /\ UNCHANGED <<wrote, sent, pipe, link, proc, orphan>>
        /\ pc[c] = "started" /\ \A d \in Call \ {c} : pc'[d] = pc[d]
    BY <1>3 DEF Register
  <2>2. \A d \in Call \ {c}, s \in Stream : pump'[d][s] = pump[d][s]
    BY <1>3 DEF Register
  <2>3. \A s \in Stream : pump[c][s] = "off" /\ pump'[c][s] = "reading"
    BY <1>3, <2>1 DEF Register, Life, PumpLife
  <2> QED  BY <2>1, <2>2, <2>3
<1>4. CASE RefuseDuplicate(c)  BY <1>4 DEF RefuseDuplicate
<1>5. CASE ReapRefused(c)
  <2>1. /\ UNCHANGED <<wrote, sent, link, orphan, pump>>
        /\ pc'[c] = "returned"
    BY <1>5 DEF ReapRefused
  <2>2. \A d \in Call \ {c} : pc'[d] = pc[d] /\ proc'[d] = proc[d]
    BY <1>5 DEF ReapRefused
  <2>3. \A d \in Call \ {c}, s \in Stream : pipe'[d][s] = pipe[d][s]
    BY <1>5 DEF ReapRefused
  <2> QED  BY <2>1, <2>2, <2>3
<1>6. CASE AwaitOut(c)  BY <1>6 DEF AwaitOut
<1>7. CASE AwaitErr(c)  BY <1>7 DEF AwaitErr
<1>8. CASE Wait(c)  BY <1>8 DEF Wait, Life, PumpLife
<1>9. CASE SendDone(c)  BY <1>9 DEF SendDone
<1>10. CASE SendDoneFails(c)  BY <1>10 DEF SendDoneFails
<1>11. CASE Unregister(c)  BY <1>11 DEF Unregister
<1> QED
  BY <1>1, <1>2, <1>3, <1>4, <1>5, <1>6, <1>7, <1>8, <1>9, <1>10, <1>11 DEF Handle

\* A step of one pump: the other accounts stand.
LEMMA OneAccount ==
  ASSUME TypeOK, Accounts, NEW c \in Call, NEW s \in Stream,
         UNCHANGED <<wrote, link, pc, proc, orphan>>,
         \A d \in Call, z \in Stream : <<d, z>> # <<c, s>> =>
           /\ pump'[d][z] = pump[d][z] /\ pipe'[d][z] = pipe[d][z]
           /\ sent'[d][z] = sent[d][z],
         pump'[c][s] # "finished",
         sent'[c][s] + pipe'[c][s] + Held(c, s)' = sent[c][s] + pipe[c][s] + Held(c, s)
  PROVE  Accounts'
<1> SUFFICES ASSUME NEW d \in Call, NEW z \in Stream,
                    link[d] = "up", pc[d] \notin {"refused", "returned"}
             PROVE  /\ wrote[d][z] = sent'[d][z] + pipe'[d][z] + Held(d, z)'
                    /\ pump'[d][z] = "finished" => pipe'[d][z] = 0 /\ ~Writing(d)
  BY DEF Accounts, Writing
<1>1. CASE <<d, z>> = <<c, s>>  BY <1>1 DEF Accounts
<1>2. CASE <<d, z>> # <<c, s>>  BY <1>2 DEF Accounts, Held
<1> QED  BY <1>1, <1>2

LEMMA PumpAccounts ==
  ASSUME TypeOK, Accounts, NEW c \in Call, NEW s \in Stream, Pump(c, s)
  PROVE  Accounts'
<1> USE CountTypes DEF Accounts, Held, Writing, process, frames, feed, PumpGoto
<1>1. CASE PumpRead(c, s)
  <2>1. /\ UNCHANGED <<wrote, sent, link, pc, proc, orphan>>
        /\ pump[c][s] = "reading" /\ pump'[c][s] = "holding"
        /\ pipe'[c][s] = pipe[c][s] - 1
    BY <1>1 DEF PumpRead
  <2>2. \A d \in Call, z \in Stream : <<d, z>> # <<c, s>> =>
          pump'[d][z] = pump[d][z] /\ pipe'[d][z] = pipe[d][z]
    BY <1>1 DEF PumpRead
  <2>3. sent'[c][s] + pipe'[c][s] + Held(c, s)' = sent[c][s] + pipe[c][s] + Held(c, s)
    BY <2>1
  <2>4. pump'[c][s] # "finished"  BY <2>1
  <2>5. \A d \in Call, z \in Stream : <<d, z>> # <<c, s>> =>
          /\ pump'[d][z] = pump[d][z] /\ pipe'[d][z] = pipe[d][z]
          /\ sent'[d][z] = sent[d][z]
    BY <2>1, <2>2
  <2> HIDE DEF Held, Accounts, Writing
  <2> QED  BY <2>1, <2>3, <2>4, <2>5, OneAccount
<1>2. CASE PumpEOF(c, s)  BY <1>2 DEF PumpEOF
<1>3. CASE PumpSend(c, s)
  <2>1. /\ UNCHANGED <<wrote, pipe, link, pc, proc, orphan>>
        /\ pump[c][s] = "holding" /\ pump'[c][s] = "reading"
        /\ sent'[c][s] = sent[c][s] + 1
    BY <1>3 DEF PumpSend
  <2>2. \A d \in Call, z \in Stream : <<d, z>> # <<c, s>> =>
          pump'[d][z] = pump[d][z] /\ sent'[d][z] = sent[d][z]
    BY <1>3 DEF PumpSend
  <2>3. sent'[c][s] + pipe'[c][s] + Held(c, s)' = sent[c][s] + pipe[c][s] + Held(c, s)
    BY <2>1
  <2>4. pump'[c][s] # "finished"  BY <2>1
  <2>5. \A d \in Call, z \in Stream : <<d, z>> # <<c, s>> =>
          /\ pump'[d][z] = pump[d][z] /\ pipe'[d][z] = pipe[d][z]
          /\ sent'[d][z] = sent[d][z]
    BY <2>1, <2>2
  <2> HIDE DEF Held, Accounts, Writing
  <2> QED  BY <2>1, <2>3, <2>4, <2>5, OneAccount
<1>4. CASE PumpSendFails(c, s)  BY <1>4 DEF PumpSendFails
<1> QED  BY <1>1, <1>2, <1>3, <1>4 DEF Pump

LEMMA EnvironmentAccounts ==
  ASSUME TypeOK, Accounts, NEW c \in Call, Environment(c) \/ KillOnCancel(c)
  PROVE  Accounts'
<1> USE CountTypes DEF Accounts, Held, Writing, process, frames, feed, Goto
<1>1. CASE Begin(c)  BY <1>1 DEF Begin
<1>2. CASE Fork(c)  BY <1>2 DEF Fork
<1>3. CASE OrphanEnds(c)  BY <1>3 DEF OrphanEnds
<1>4. CASE Exit(c)  BY <1>4 DEF Exit
<1>5. CASE Deliver(c)  BY <1>5 DEF Deliver
<1>6. CASE Cut(c)  BY <1>6 DEF Cut
<1>7. ASSUME NEW s \in Stream, ProcWrite(c, s)  PROVE Accounts'
  BY <1>7 DEF ProcWrite
<1>8. CASE KillOnCancel(c)  BY <1>8 DEF KillOnCancel
<1> QED
  BY <1>1, <1>2, <1>3, <1>4, <1>5, <1>6, <1>7, <1>8 DEF Environment

\* A request at most kills a process.
LEMMA ServeAccounts ==
  ASSUME TypeOK, Accounts, NEW r \in Request, Serve(r)
  PROVE  Accounts'
<1>1. /\ UNCHANGED <<pc, orphan, pipe, pump, wrote, sent, link>>
      /\ \/ proc' = proc
         \/ \E c \in Call \cup {rpc[r].call} : proc' = [proc EXCEPT ![c] = "zombie"]
  BY DEF Serve, NotFound, SignalFound, StdinFound, StdinWrite, StdinWriteFails,
     StdinClose, Signal, process, frames, feed
<1>2. \A c \in Call : proc'[c] = "running" => proc[c] = "running"
  BY <1>1 DEF TypeOK
<1> QED  BY <1>1, <1>2 DEF Accounts, Held, Writing

LEMMA AccountsStep ==
  ASSUME TypeOK, Life, Accounts, [Next]_vars
  PROVE  Accounts'
<1>1. CASE UNCHANGED vars
  BY <1>1 DEF Accounts, Held, Writing, vars, process, frames
<1> QED
  BY <1>1, HandleAccounts, PumpAccounts, EnvironmentAccounts, ServeAccounts DEF Next

-----------------------------------------------------------------------------
(***************************************************************************)
(* The invariant and the theorems it gives.                                *)
(***************************************************************************)
LEMMA InvStep == ASSUME Inv, [Next]_vars PROVE Inv'
<1> USE DEF Inv
<1>1. TypeOK'
  <2>1. CASE UNCHANGED vars
    BY <2>1 DEF TypeOK, vars, process, frames, feed
  <2> QED  BY <2>1, HandleTypes, PumpTypes, EnvironmentTypes, ServeTypes DEF Next
<1>2. RegisteredIsReachable' /\ FiledById'  BY MapStep
<1>3. ProcLife' /\ PumpLife' /\ StdinLife'  BY LifeStep DEF Life
<1>4. RpcLife'  BY RpcStep
<1>5. Accounts'  BY AccountsStep DEF Life
<1> QED  BY <1>1, <1>2, <1>3, <1>4, <1>5

LEMMA Invariance == Spec => []Inv
<1>1. Init => Inv  BY InitInv
<1>2. Inv /\ [Next]_vars => Inv'  BY InvStep
<1> QED  BY <1>1, <1>2, PTL DEF Spec

\* The types of the map, the handlers, the pipes and the streams, with their
\* capacities.
THEOREM TypeCorrect == Spec => []TypeOK
<1>1. Inv => TypeOK  BY DEF Inv
<1> QED  BY <1>1, Invariance, PTL

\* registerExec and unregisterExec: a call is in the map under its exec_id
\* exactly as long as it is at work.
THEOREM RegisteredCorrect == Spec => []RegisteredIsReachable
<1>1. Inv => RegisteredIsReachable  BY DEF Inv
<1> QED  BY <1>1, Invariance, PTL

\* "reliably terminates the child": no Exec returns before its process has
\* been reaped, on any of its paths.
THEOREM NoProcessLeftCorrect == Spec => []NoProcessLeft
<1>1. Inv => NoProcessLeft  BY DEF Inv, ProcLife, NoProcessLeft
<1> QED  BY <1>1, Invariance, PTL

-----------------------------------------------------------------------------
(***************************************************************************)
(* The refinement: each step is a step of AgentService or leaves what it   *)
(* is about unchanged.                                                     *)
(***************************************************************************)
Phase == [c \in Call |-> PhaseOf(pc[c])]

LEMMA InitService == ASSUME Init PROVE Service!AgentInit
  BY DEF Init, Service!AgentInit, PhaseOf, Stream, Service!Stream

\* A handler that moves changes the phase of its call, or not.
LEMMA PhaseMoves ==
  ASSUME TypeOK, NEW c \in Call, NEW from, NEW to, Goto(c, from, to)
  PROVE  /\ Phase[c] = PhaseOf(from)
         /\ Phase' = [Phase EXCEPT ![c] = PhaseOf(to)]
         /\ PhaseOf(from) = PhaseOf(to) => Phase' = Phase
  BY DEF TypeOK, Goto, Phase

LEMMA HandleServes ==
  ASSUME Inv, NEW c \in Call, Handle(c)
  PROVE  Service!ServeCall(c) \/ UNCHANGED Service!agentVars
<1> USE DEF Inv, process, frames, feed
<1>1. CASE Start(c)
  <2>1. Phase' = Phase  BY <1>1, PhaseMoves DEF Start, PhaseOf
  <2> QED  BY <1>1, <2>1 DEF Start, Service!agentVars, Phase
<1>2. CASE StartFails(c)
  <2>1. Phase[c] = "called" /\ Phase' = [Phase EXCEPT ![c] = "over"]
    BY <1>2, PhaseMoves DEF StartFails, PhaseOf
  <2>2. Service!Refuse(c)  BY <1>2, <2>1 DEF StartFails, Service!Refuse, Phase
  <2> QED  BY <2>2 DEF Service!ServeCall
<1>3. CASE Register(c)
  <2>1. Phase[c] = "called" /\ Phase' = [Phase EXCEPT ![c] = "running"]
    BY <1>3, PhaseMoves DEF Register, PhaseOf
  <2>2. Service!Enroll(c)  BY <1>3, <2>1 DEF Register, Service!Enroll, Phase
  <2> QED  BY <2>2 DEF Service!ServeCall
<1>4. CASE RefuseDuplicate(c)
  <2>1. Phase' = Phase  BY <1>4, PhaseMoves DEF RefuseDuplicate, PhaseOf
  <2> QED  BY <1>4, <2>1 DEF RefuseDuplicate, Service!agentVars, Phase
<1>5. CASE ReapRefused(c)
  <2>1. Phase[c] = "called" /\ Phase' = [Phase EXCEPT ![c] = "over"]
    BY <1>5, PhaseMoves DEF ReapRefused, PhaseOf
  <2>2. Service!Refuse(c)  BY <1>5, <2>1 DEF ReapRefused, Reap, Service!Refuse, Phase
  <2> QED  BY <2>2 DEF Service!ServeCall
<1>6. CASE AwaitOut(c)
  <2>1. Phase' = Phase  BY <1>6, PhaseMoves DEF AwaitOut, PhaseOf
  <2> QED  BY <1>6, <2>1 DEF AwaitOut, Service!agentVars, Phase
<1>7. CASE AwaitErr(c)
  <2>1. Phase' = Phase  BY <1>7, PhaseMoves DEF AwaitErr, PhaseOf
  <2> QED  BY <1>7, <2>1 DEF AwaitErr, Service!agentVars, Phase
\* cmd.Wait closes stdin, unless a request has done so.
<1>8. CASE Wait(c)
  <2>1. Phase' = Phase /\ Phase[c] = "running"
    BY <1>8, PhaseMoves DEF Wait, PhaseOf
  <2>2. /\ UNCHANGED <<wrote, sent, wire, link, input>>
        /\ stdin' = [stdin EXCEPT ![c] = "closed"]
    BY <1>8 DEF Wait, Reap
  <2>3. CASE stdin[c] = "open"
    <3>1. Service!CloseInput(c)  BY <2>1, <2>2, <2>3 DEF Service!CloseInput, Phase
    <3> QED  BY <3>1 DEF Service!ServeCall
  <2>4. CASE stdin[c] = "closed"
    <3>1. stdin' = stdin  BY <2>2, <2>4 DEF TypeOK
    <3> QED  BY <2>1, <2>2, <3>1 DEF Service!agentVars, Phase
  <2> QED  BY <2>3, <2>4 DEF TypeOK
\* Both pumps have finished, so all that was written is sent.
<1>9. CASE SendDone(c)
  <2>1. Phase[c] = "running" /\ Phase' = [Phase EXCEPT ![c] = "done"]
    BY <1>9, PhaseMoves DEF SendDone, PhaseOf
  <2>2. pc[c] = "reaped" /\ link[c] = "up"  BY <1>9 DEF SendDone, Goto
  <2>3. \A s \in Stream : sent[c][s] = wrote[c][s]
    <3> SUFFICES ASSUME NEW s \in Stream PROVE sent[c][s] = wrote[c][s]  OBVIOUS
    <3>1. pump[c][s] = "finished"  BY <2>2 DEF PumpLife
    <3>2. wrote[c][s] = sent[c][s] + pipe[c][s] + Held(c, s) /\ pipe[c][s] = 0
      BY <2>2, <3>1 DEF Accounts
    <3> QED  BY <3>1, <3>2, CountTypes DEF Held
  <2>4. sent[c] = wrote[c]
    <3>1. sent[c] \in [Stream -> Nat] /\ wrote[c] \in [Stream -> Nat]  BY CountTypes
    <3> QED  BY <2>3, <3>1
  <2>5. stdin[c] = "closed"  BY <2>2 DEF StdinLife
  <2>6. Service!Finish(c)
    BY <1>9, <2>1, <2>4, <2>5 DEF SendDone, Service!Finish, Phase
  <2> QED  BY <2>6 DEF Service!ServeCall
<1>10. CASE SendDoneFails(c)
  <2>1. Phase[c] = "running" /\ Phase' = [Phase EXCEPT ![c] = "done"]
    BY <1>10, PhaseMoves DEF SendDoneFails, PhaseOf
  <2>2. stdin[c] = "closed"  BY <1>10 DEF SendDoneFails, Goto, StdinLife
  <2>3. Service!GiveUp(c)
    BY <1>10, <2>1, <2>2 DEF SendDoneFails, Service!GiveUp, Phase
  <2> QED  BY <2>3 DEF Service!ServeCall
<1>11. CASE Unregister(c)
  <2>1. Phase[c] = "done" /\ Phase' = [Phase EXCEPT ![c] = "over"]
    BY <1>11, PhaseMoves DEF Unregister, PhaseOf
  <2>2. Service!Return(c)  BY <1>11, <2>1 DEF Unregister, Service!Return, Phase
  <2> QED  BY <2>2 DEF Service!ServeCall
<1> QED
  BY <1>1, <1>2, <1>3, <1>4, <1>5, <1>6, <1>7, <1>8, <1>9, <1>10, <1>11 DEF Handle

LEMMA PumpServes ==
  ASSUME Inv, NEW c \in Call, NEW s \in Stream, Pump(c, s)
  PROVE  Service!ServeCall(c) \/ UNCHANGED Service!agentVars
<1> USE DEF process, frames, feed
<1>1. CASE PumpRead(c, s)  BY <1>1 DEF PumpRead, Service!agentVars
<1>2. CASE PumpEOF(c, s)  BY <1>2 DEF PumpEOF, Service!agentVars
<1>3. CASE PumpSend(c, s)
  <2>1. /\ link[c] = "up" /\ pump[c][s] = "holding" /\ Len(wire[c]) < Window
        /\ UNCHANGED <<pc, wrote, link, stdin, input>>
        /\ sent' = [sent EXCEPT ![c][s] = @ + 1]
        /\ wire' = [wire EXCEPT ![c] = Append(@, s)]
    BY <1>3 DEF PumpSend, PumpGoto
  <2>2. pc[c] \in {"out", "err"}
    BY <2>1 DEF Inv, TypeOK, PumpLife, Registered
  <2>3. sent[c][s] < wrote[c][s]
    <3>1. wrote[c][s] = sent[c][s] + pipe[c][s] + 1
      BY <2>1, <2>2 DEF Inv, Accounts, Held
    <3>2. sent[c][s] \in Nat /\ pipe[c][s] \in Nat  BY CountTypes DEF Inv
    <3> QED  BY <3>1, <3>2
  <2>4. Phase[c] = "running"  BY <2>2 DEF Phase, PhaseOf
  <2>5. Service!Output(c, s)
    BY <2>1, <2>3, <2>4 DEF Service!Output, Phase
  <2> QED  BY <2>5 DEF Service!ServeCall, Stream, Service!Stream
<1>4. CASE PumpSendFails(c, s)  BY <1>4 DEF PumpSendFails, Service!agentVars
<1> QED  BY <1>1, <1>2, <1>3, <1>4 DEF Pump

\* The process itself: only its output shows.
LEMMA ProcessServes ==
  ASSUME Inv, NEW c \in Call,
         \/ Fork(c) \/ OrphanEnds(c) \/ Exit(c) \/ KillOnCancel(c)
         \/ \E s \in Stream : ProcWrite(c, s)
  PROVE  Service!ServeCall(c) \/ UNCHANGED Service!agentVars
<1> USE DEF process, frames, feed
<1>1. CASE Fork(c)  BY <1>1 DEF Fork, Service!agentVars
<1>2. CASE OrphanEnds(c)  BY <1>2 DEF OrphanEnds, Service!agentVars
<1>3. CASE Exit(c)  BY <1>3 DEF Exit, Service!agentVars
<1>4. CASE KillOnCancel(c)  BY <1>4 DEF KillOnCancel, Service!agentVars
<1>5. ASSUME NEW s \in Stream, ProcWrite(c, s)
      PROVE  Service!ServeCall(c) \/ UNCHANGED Service!agentVars
  <2>1. /\ Writing(c) /\ ReadEndsOpen(c) /\ wrote' = [wrote EXCEPT ![c][s] = @ + 1]
        /\ UNCHANGED <<pc, sent, wire, link, stdin, input>>
    BY <1>5 DEF ProcWrite
  <2>2. Phase[c] \in {"called", "running"}
    BY <2>1 DEF ReadEndsOpen, Phase, PhaseOf
  <2>3. Service!Produce(c, s)  BY <2>1, <2>2 DEF Service!Produce, Phase
  <2> QED  BY <2>3 DEF Service!ServeCall, Stream, Service!Stream
<1> QED  BY <1>1, <1>2, <1>3, <1>4, <1>5

\* A call arrives; its stream delivers a frame, or breaks.
LEMMA StreamServes ==
  ASSUME Inv, NEW c \in Call
  PROVE  /\ Begin(c) => Service!Begin(c)
         /\ Deliver(c) => Service!Deliver(c)
         /\ Cut(c) => Service!Cut(c)
<1> USE DEF process, frames, feed
<1>1. ASSUME Begin(c)  PROVE Service!Begin(c)
  <2>1. Phase[c] = "idle" /\ Phase' = [Phase EXCEPT ![c] = "called"]
    BY <1>1, PhaseMoves DEF Begin, PhaseOf, Inv
  <2> QED  BY <1>1, <2>1 DEF Begin, Service!Begin, Phase
<1>2. ASSUME Deliver(c)  PROVE Service!Deliver(c)
  BY <1>2 DEF Deliver, Service!Deliver
<1>3. ASSUME Cut(c)  PROVE Service!Cut(c)  BY <1>3 DEF Cut, Service!Cut
<1> QED  BY <1>1, <1>2, <1>3

\* A stdin that is open belongs to a call at work: cmd.Wait has not closed it.
LEMMA ServeServes ==
  ASSUME Inv, NEW r \in Request, Serve(r)
  PROVE  \/ UNCHANGED Service!agentVars
         \/ /\ rpc[r].call \in Call
            /\ \/ rpc[r].step = "write" /\ Service!Feed(rpc[r].call, r)
               \/ Service!CloseInput(rpc[r].call)
<1> USE DEF process, frames, feed
<1> DEFINE c == rpc[r].call
<1>1. ASSUME rpc[r].step \in {"write", "close"}, stdin[c] = "open"
      PROVE  c \in Call /\ Phase[c] = "running"
  BY <1>1 DEF Inv, RpcLife, StdinLife, Registered, Phase, PhaseOf
<1>2. CASE StdinWrite(r)
  <2>1. c \in Call /\ Phase[c] = "running"  BY <1>1, <1>2 DEF StdinWrite
  <2>2. rpc[r].step = "write" /\ Service!Feed(c, r)
    BY <1>2, <2>1 DEF StdinWrite, Service!Feed, Phase
  <2> QED  BY <2>1, <2>2
<1>3. CASE StdinClose(r)
  <2>1. c \in Call  BY <1>3 DEF StdinClose, Inv, RpcLife
  <2>2. /\ stdin' = [stdin EXCEPT ![c] = "closed"]
        /\ UNCHANGED <<pc, wrote, sent, wire, link, input>>
    BY <1>3 DEF StdinClose
  <2>3. CASE stdin[c] = "open"
    <3>1. Phase[c] = "running"  BY <1>1, <1>3, <2>3 DEF StdinClose
    <3>2. Service!CloseInput(c)
      BY <2>1, <2>2, <2>3, <3>1 DEF Service!CloseInput, Phase
    <3> QED  BY <2>1, <3>2
  <2>4. CASE stdin[c] = "closed"
    <3>1. stdin' = stdin  BY <2>1, <2>2, <2>4 DEF Inv, TypeOK
    <3> QED  BY <2>2, <3>1 DEF Service!agentVars
  <2> QED  BY <2>1, <2>3, <2>4 DEF Inv, TypeOK
<1>4. ASSUME \/ StdinWriteFails(r) \/ Signal(r)
             \/ \E id \in ExecId : \/ NotFound(r, id) \/ SignalFound(r, id)
                                   \/ \E d, eof \in BOOLEAN : StdinFound(r, id, d, eof)
      PROVE  UNCHANGED Service!agentVars
  BY <1>4 DEF StdinWriteFails, Signal, NotFound, SignalFound, StdinFound,
     Service!agentVars
<1> QED  BY <1>2, <1>3, <1>4 DEF Serve

\* GuestAgent implements AgentService: Done comes last and after all the
\* output, an unbroken stream ends only so or with a refusal, and stdin is
\* closed once, before Done.
THEOREM ServiceImplemented == Spec => ImplementsService
<1>1. Init => Service!AgentInit  BY InitService
<1>2. ASSUME Inv, [Next]_vars
      PROVE  [Service!AgentNext]_(Service!agentVars)
  <2>1. CASE UNCHANGED vars
    BY <2>1 DEF vars, process, frames, feed, Service!agentVars
  <2>2. ASSUME NEW c \in Call,
               \/ Handle(c) \/ KillOnCancel(c) \/ Environment(c)
               \/ \E s \in Stream : Pump(c, s)
        PROVE  [Service!AgentNext]_(Service!agentVars)
    BY <1>2, <2>2, HandleServes, PumpServes, ProcessServes, StreamServes
       DEF Environment, Service!AgentNext
  <2>3. ASSUME NEW r \in Request, Serve(r)
        PROVE  [Service!AgentNext]_(Service!agentVars)
    <3>1. \A d \in Call : Service!CloseInput(d) => Service!ServeCall(d)
      BY DEF Service!ServeCall
    <3> QED  BY <1>2, <2>3, <3>1, ServeServes DEF Service!AgentNext
  <2> QED  BY <1>2, <2>1, <2>2, <2>3 DEF Next
<1> QED  BY <1>1, <1>2, Invariance, PTL DEF Spec, ImplementsService, Service!AgentSpec
=============================================================================
