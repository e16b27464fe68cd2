-------------------------- MODULE ExecPipelineProofs --------------------------
(***************************************************************************)
(* Theorems about ExecPipeline, for any execs, capacities and bounds: its  *)
(* types, that a completed exec has all its output, and that its answers   *)
(* agree.                                                                  *)
(***************************************************************************)
EXTENDS ExecPipeline, FiniteSetTheorems, SequenceTheorems, TLAPS

(***************************************************************************)
(* The inductive invariant: where the frames are, and what the status, the *)
(* row and the answers have to do with each other.                         *)
(***************************************************************************)
\* How many frames of the kind s are in q, and in the receiver's hand.
Places(q, s) == {i \in 1..Len(q) : q[i] = s}
Count(q, s) == Cardinality(Places(q, s))
InHand(c, s) == IF rcv[c] = "holding" /\ held[c] = s THEN 1 ELSE 0

\* Nothing is recorded that was not sent, nothing is sent that was not
\* written; and while the receiver lives, nothing is lost on the way.
Flow(c) ==
  \A s \in Stream :
    /\ captured[c][s] + Count(chan[c], s) <= sent[c][s]
    /\ sent[c][s] <= wrote[c][s]
    /\ rcv[c] # "closed" =>
         sent[c][s] = captured[c][s] + Count(chan[c], s) + InHand(c, s)
                        + Count(wire[c], s)

\* The Done frame is the last, on its whole way, and follows all the output.
Has(q, f) == \E i \in 1..Len(q) : q[i] = f
DoneLast(q) == \A i \in 1..Len(q) : q[i] = "done" => i = Len(q)
AllSent(c) == phase[c] \in {"done", "over"} /\ sent[c] = wrote[c]
DoneComesLast(c) ==
  /\ DoneLast(wire[c]) /\ DoneLast(chan[c])
  /\ Has(wire[c], "done") => AllSent(c)
  /\ rcv[c] = "holding" /\ held[c] = "done" => AllSent(c) /\ wire[c] = <<>>
  /\ Has(chan[c], "done") =>
       /\ AllSent(c) /\ rcv[c] # "holding" /\ (rcv[c] = "closed" \/ wire[c] = <<>>)
       /\ \A s \in Stream : captured[c][s] + Count(chan[c], s) = wrote[c][s]
  /\ status[c] = "completed" =>
       phase[c] \in {"done", "over"} /\ captured[c] = wrote[c]

\* The status and where the drain is.
StatusLife(c) ==
  /\ drain[c] \in {"idle", "dead"} => status[c] = "running"
  /\ drain[c] \in {"completing", "erroring", "refusing", "ended", "failed"} =>
       status[c] \in Final
  /\ status[c] = "errored" =>
       drain[c] \in {"erroring", "refusing", "ended", "failed", "panicked"}
  /\ status[c] = "completed" /\ drain[c] = "draining" => gotDone[c]
  /\ gotDone[c] => status[c] = "completed"
  /\ drain[c] = "completing" => gotDone[c]
  /\ row[c].status \in Final /\ status[c] = "running" => drain[c] = "dead"
  /\ drain[c] = "dead" => ~inMemory[c]

\* A final state that is not lost is the same everywhere.
Current(c) == IF status[c] \in Final THEN State(status[c], captured[c]) ELSE row[c]
Agreement(c) ==
  ~lost[c] => /\ row[c].status \in Final => row[c] = Current(c)
              /\ told[c].status \in Final => told[c] = Current(c)

Inv ==
  /\ TypeOK
  /\ \A c \in Call : Flow(c) /\ DoneComesLast(c)
  /\ \A c \in Call : StatusLife(c) /\ Agreement(c)

-----------------------------------------------------------------------------
(***************************************************************************)
(* Counting the frames of a queue.                                         *)
(***************************************************************************)
LEMMA CountType ==
  ASSUME NEW q \in Seq(Frame), NEW s
  PROVE  IsFiniteSet(Places(q, s)) /\ Count(q, s) \in Nat
<1>1. IsFiniteSet(1..Len(q))  BY FS_Interval
<1>2. IsFiniteSet(Places(q, s))  BY <1>1, FS_Subset DEF Places
<1> QED  BY <1>2, FS_CardinalityType DEF Count

LEMMA CountEmpty ==
  ASSUME NEW s
  PROVE  Count(<<>>, s) = 0
<1>1. Places(<<>>, s) = {}  BY DEF Places
<1> QED  BY <1>1, FS_EmptySet DEF Count

LEMMA CountAppend ==
  ASSUME NEW q \in Seq(Frame), NEW f \in Frame, NEW s
  PROVE  Count(Append(q, f), s) = Count(q, s) + IF f = s THEN 1 ELSE 0
<1> DEFINE n == Len(q) + 1
<1>1. /\ Len(Append(q, f)) = n /\ n \in Nat /\ n \notin 1..Len(q)
      /\ Append(q, f)[n] = f /\ \A i \in 1..Len(q) : Append(q, f)[i] = q[i]
  OBVIOUS
<1>2. 1..n = 1..Len(q) \cup {n}  OBVIOUS
<1>3. CASE f = s
  <2>1. Places(Append(q, f), s) = Places(q, s) \cup {n}  BY <1>1, <1>2, <1>3 DEF Places
  <2>2. n \notin Places(q, s)  BY <1>1 DEF Places
  <2>3. Cardinality(Places(q, s) \cup {n}) = Cardinality(Places(q, s)) + 1
    BY <2>2, CountType, FS_AddElement
  <2> QED  BY <1>3, <2>1, <2>3 DEF Count
<1>4. CASE f # s
  <2>1. Places(Append(q, f), s) = Places(q, s)  BY <1>1, <1>2, <1>4 DEF Places
  <2>2. Cardinality(Places(q, s)) \in Nat  BY CountType DEF Count
  <2> QED  BY <1>4, <2>1, <2>2 DEF Count
<1> QED  BY <1>3, <1>4

\* The places of the tail are those of the queue but the first, moved by one.
LEMMA CountTail ==
  ASSUME NEW q \in Seq(Frame), q # <<>>, NEW s
  PROVE  Count(q, s) = Count(Tail(q), s) + IF Head(q) = s THEN 1 ELSE 0
<1> DEFINE P == Places(q, s)
           T == Places(Tail(q), s)
           f == [i \in T |-> i + 1]
<1>1. /\ Len(q) \in Nat \ {0} /\ Len(Tail(q)) = Len(q) - 1 /\ Tail(q) \in Seq(Frame)
      /\ Head(q) = q[1] /\ \A i \in 1..Len(Tail(q)) : Tail(q)[i] = q[i + 1]
  OBVIOUS
<1>2. f \in [T -> P \ {1}]  BY <1>1 DEF Places
<1>3. \A i, j \in T : f[i] = f[j] => i = j  BY <1>1 DEF Places
<1>4. \A p \in P \ {1} : \E i \in T : f[i] = p
  <2> SUFFICES ASSUME NEW p \in P \ {1} PROVE \E i \in T : f[i] = p  OBVIOUS
  <2>1. p \in 2..Len(q) /\ q[p] = s  BY <1>1 DEF Places
  <2>2. p - 1 \in 1..Len(Tail(q)) /\ p - 1 + 1 = p  BY <1>1, <2>1
  <2>3. p - 1 \in T  BY <1>1, <2>1, <2>2 DEF Places
  <2>4. f[p - 1] = p  BY <2>2, <2>3
  <2> QED  BY <2>3, <2>4
<1>5. ExistsBijection(T, P \ {1})
  <2>1. f \in Bijection(T, P \ {1})
    BY <1>2, <1>3, <1>4 DEF Bijection, Injection, Surjection, IsInjective
  <2> QED  BY <2>1 DEF ExistsBijection
<1>6. Cardinality(P \ {1}) = Cardinality(T)
  BY <1>1, <1>5, CountType, FS_Bijection
<1>7. Cardinality(P \ {1}) = IF 1 \in P THEN Cardinality(P) - 1 ELSE Cardinality(P)
  BY CountType, FS_RemoveElement
<1>8. 1 \in P <=> Head(q) = s  BY <1>1 DEF Places
<1>9. Cardinality(P) \in Nat  BY CountType DEF Count
<1> QED  BY <1>6, <1>7, <1>8, <1>9 DEF Count

\* No place, no frame.
LEMMA CountNone ==
  ASSUME NEW q \in Seq(Frame), NEW s, Count(q, s) = 0
  PROVE  ~Has(q, s)
<1>1. Places(q, s) = {}  BY CountType, FS_EmptySet DEF Count
<1> QED  BY <1>1 DEF Has, Places

-----------------------------------------------------------------------------
(***************************************************************************)
(* Types.                                                                  *)
(***************************************************************************)
AgentTypes ==
  /\ phase \in [Call -> {"idle", "called", "running", "done", "over"}]
  /\ wrote \in [Call -> [Stream -> Nat]] /\ sent \in [Call -> [Stream -> Nat]]
  /\ wire \in [Call -> Seq(Frame)] /\ link \in [Call -> {"up", "cut"}]
  /\ stdin \in [Call -> {"open", "closed"}] /\ input \in [Call -> Seq(Writer)]

LEMMA InitTypes == ASSUME Init PROVE TypeOK
<1>1. AgentTypes  BY DEF Init, AgentInit, AgentTypes, Frame
<1>2. row \in [Call -> [status : {"running"} \cup Final, output : [Stream -> Nat]]]
  BY DEF Init, State, NoOutput
<1>3. told \in [Call -> [status : {"running"} \cup Final, output : [Stream -> Nat]]]
  BY DEF Init, State, NoOutput
<1>4. sse \in [Call -> [next : Nat, output : [Stream -> Nat], done : BOOLEAN]]
  BY DEF Init, NoOutput
<1>5. /\ chan \in [Call -> Seq(Frame)] /\ \A c \in Call : Len(chan[c]) <= ChanCap
      /\ log \in [Call -> Seq(Frame)] /\ held \in [Call -> Frame]
      /\ captured \in [Call -> [Stream -> Nat]] /\ crashes \in 0..MaxCrashes
  BY PipelineOK DEF Init, NoOutput, Frame
<1>6. /\ background \in [Call -> BOOLEAN]
      /\ http \in [Call -> {"waiting", "accepted", "ok", "timeout", "failed", "gone"}]
      /\ ctx \in [Call -> {"live", "expired", "canceled"}]
      /\ rcv \in [Call -> {"idle", "receiving", "holding", "closed"}]
      /\ drain \in [Call -> {"idle", "draining", "completing", "erroring", "refusing",
                             "ended", "failed", "panicked", "dead"}]
      /\ gotDone \in [Call -> BOOLEAN] /\ status \in [Call -> {"running"} \cup Final]
      /\ inMemory \in [Call -> BOOLEAN] /\ lost \in [Call -> BOOLEAN]
      /\ starter \in [Call -> {"none", "asked", "calling", "pausing", "writing",
                               "closing", "done", "lost", "refused"}]
      /\ window \in [Call -> {"open", "over"}]
  BY DEF Init
<1> QED  BY <1>1, <1>2, <1>3, <1>4, <1>5, <1>6 DEF TypeOK, AgentTypes

\* The end of a context.
LEMMA ContextTypes ==
  ASSUME TypeOK, NEW c \in Call, NEW how \in {"expired", "canceled"},
         EndContext(c, how)
  PROVE  ctx' \in [Call -> {"live", "expired", "canceled"}]
         /\ link' \in [Call -> {"up", "cut"}]
  BY DEF TypeOK, EndContext

\* A chunk is recorded.
LEMMA LogTypes ==
  ASSUME TypeOK, NEW c \in Call, NEW f \in Frame, log' = [log EXCEPT ![c] = Append(@, f)]
  PROVE  log' \in [Call -> Seq(Frame)]
<1>1. log \in [Call -> Seq(Frame)]  BY DEF TypeOK
<1> QED  BY <1>1

LEMMA CapturedTypes ==
  ASSUME TypeOK, NEW c \in Call, NEW s \in Stream,
         captured' = [captured EXCEPT ![c][s] = @ + 1]
  PROVE  captured' \in [Call -> [Stream -> Nat]]
<1>1. captured \in [Call -> [Stream -> Nat]]  BY DEF TypeOK
<1> QED  BY <1>1

LEMMA ServeCallTypes ==
  ASSUME AgentTypes, NEW c \in Call, ServeCall(c)
  PROVE  AgentTypes'
<1> USE DEF AgentTypes
<1>1. CASE Enroll(c) \/ Refuse(c)  BY <1>1 DEF Enroll, Refuse
<1>2. CASE GiveUp(c) \/ Return(c) \/ CloseInput(c)
  BY <1>2 DEF GiveUp, Return, CloseInput
<1>3. CASE Finish(c)  BY <1>3 DEF Finish, Frame
<1>4. ASSUME NEW s \in Stream, Produce(c, s)  PROVE AgentTypes'
  BY <1>4 DEF Produce
<1>5. ASSUME NEW s \in Stream, Output(c, s)  PROVE AgentTypes'
  BY <1>5 DEF Output, Frame
<1> QED  BY <1>1, <1>2, <1>3, <1>4, <1>5 DEF ServeCall

LEMMA AgentStepTypes ==
  ASSUME TypeOK, NEW c \in Call, AgentStep(c) \/ User(c)
  PROVE  TypeOK'
<1>1. AgentTypes  BY DEF TypeOK, AgentTypes
<1>2. AgentTypes'
  <2>1. CASE Begin(c) \/ Cut(c)  BY <1>1, <2>1 DEF Begin, Cut, AgentTypes
  <2>2. CASE ServeCall(c)  BY <1>1, <2>2, ServeCallTypes
  <2>3. CASE CloseInput(c)  BY <1>1, <2>3 DEF CloseInput, AgentTypes
  <2>4. ASSUME NEW w \in Writer, Feed(c, w)  PROVE AgentTypes'
    BY <1>1, <2>4 DEF Feed, AgentTypes
  <2> QED  BY <2>1, <2>2, <2>3, <2>4 DEF AgentStep, User, UserEOF, UserWrites
<1>3. UNCHANGED adapter  BY DEF AgentStep, User, UserEOF, UserWrites
<1> QED
  BY <1>2, <1>3 DEF TypeOK, AgentTypes, adapter, request, client, drained, record,
     stored, writers

LEMMA CreateTypes ==
  ASSUME TypeOK, NEW c \in Call, Create(c) \/ Expire(c) \/ CallerLeaves(c)
  PROVE  TypeOK'
<1> USE DEF TypeOK, stream, pipes, request, client, drained, record, stored, writers
<1>1. CASE StartStream(c)  BY <1>1 DEF StartStream
<1>2. CASE StartFails(c)
  <2>1. ctx' \in [Call -> {"live", "expired", "canceled"}] /\ link' \in [Call -> {"up", "cut"}]
    BY <1>2, ContextTypes DEF StartFails
  <2>2. log' \in [Call -> Seq(Frame)]  BY <1>2 DEF StartFails, Frame
  <2> QED  BY <1>2, <2>1, <2>2 DEF StartFails, Final
<1>3. ASSUME NEW code \in {"ok", "timeout"}, Reply(c, code)  PROVE TypeOK'
  <2>1. told' \in [Call -> [status : {"running"} \cup Final, output : [Stream -> Nat]]]
    BY <1>3 DEF Reply, State
  <2> QED  BY <1>3, <2>1 DEF Reply
<1>4. CASE Expire(c)
  <2>1. ctx' \in [Call -> {"live", "expired", "canceled"}] /\ link' \in [Call -> {"up", "cut"}]
    BY <1>4, ContextTypes DEF Expire
  <2> QED  BY <1>4, <2>1 DEF Expire
<1>5. CASE CallerLeaves(c)
  <2>1. ctx' \in [Call -> {"live", "expired", "canceled"}] /\ link' \in [Call -> {"up", "cut"}]
    BY <1>5, ContextTypes DEF CallerLeaves
  <2> QED  BY <1>5, <2>1 DEF CallerLeaves
<1> HIDE DEF TypeOK
<1> QED  BY <1>1, <1>2, <1>3, <1>4, <1>5 DEF Create

LEMMA ReceiverTypes ==
  ASSUME TypeOK, NEW c \in Call, Receiver(c)
  PROVE  TypeOK'
<1> USE DEF TypeOK, stream, pipes, request, client, drained, record, stored, writers
<1>1. CASE Recv(c)
  <2>1. wire[c] \in Seq(Frame) /\ wire[c] # <<>>  BY <1>1 DEF Recv, Deliver
  <2>2. Head(wire[c]) \in Frame /\ Tail(wire[c]) \in Seq(Frame)  BY <2>1
  <2> QED  BY <1>1, <2>2 DEF Recv, Deliver
<1>2. CASE Forward(c)
  <2>1. chan' \in [Call -> Seq(Frame)]  BY <1>2 DEF Forward
  <2>2. \A d \in Call : Len(chan'[d]) <= ChanCap  BY <1>2, PipelineOK DEF Forward
  <2> QED  BY <1>2, <2>1, <2>2 DEF Forward
<1>3. CASE RecvEnds(c)  BY <1>3 DEF RecvEnds
<1> QED  BY <1>1, <1>2, <1>3 DEF Receiver

\* Taking a frame off the channel.
LEMMA TakeTypes ==
  ASSUME TypeOK, NEW c \in Call, Take(c)
  PROVE  /\ Head(chan[c]) \in Frame
         /\ chan' \in [Call -> Seq(Frame)] /\ \A d \in Call : Len(chan'[d]) <= ChanCap
<1>1. chan[c] \in Seq(Frame) /\ chan[c] # <<>> /\ Len(chan[c]) <= ChanCap
  BY DEF Take, TypeOK
<1>2. /\ Head(chan[c]) \in Frame /\ Tail(chan[c]) \in Seq(Frame)
      /\ Len(Tail(chan[c])) <= ChanCap
  BY <1>1, PipelineOK
<1> QED  BY <1>2 DEF Take, TypeOK

LEMMA ControlTypes ==
  ASSUME TypeOK
  PROVE  /\ ctx \in [Call -> {"live", "expired", "canceled"}]
         /\ link \in [Call -> {"up", "cut"}]
         /\ http \in [Call -> {"waiting", "accepted", "ok", "timeout", "failed", "gone"}]
         /\ status \in [Call -> {"running", "completed", "errored"}]
         /\ drain \in [Call -> {"idle", "draining", "completing", "erroring", "refusing",
                                "ended", "failed", "panicked", "dead"}]
  BY DEF TypeOK, Final

LEMMA DrainTypes ==
  ASSUME TypeOK, NEW c \in Call, Drain(c) \/ Panics(c)
  PROVE  TypeOK'
<1> USE DEF stream, pipes, request, client, drained, record, stored, writers
<1>1. ASSUME NEW s \in Stream, DrainOutput(c, s)  PROVE TypeOK'
  <2>1. /\ chan' \in [Call -> Seq(Frame)] /\ \A d \in Call : Len(chan'[d]) <= ChanCap
    BY <1>1, TakeTypes DEF DrainOutput
  <2>2. log' \in [Call -> Seq(Frame)] /\ captured' \in [Call -> [Stream -> Nat]]
    BY <1>1, LogTypes, CapturedTypes DEF DrainOutput, Frame
  <2> QED  BY <1>1, <2>1, <2>2 DEF DrainOutput, TypeOK
<1>2. CASE DrainDone(c)
  <2>1. /\ chan' \in [Call -> Seq(Frame)] /\ \A d \in Call : Len(chan'[d]) <= ChanCap
    BY <1>2, TakeTypes DEF DrainDone
  <2>2. log' \in [Call -> Seq(Frame)]  BY <1>2 DEF DrainDone, Frame, TypeOK
  <2> QED  BY <1>2, <2>1, <2>2 DEF DrainDone, Final, TypeOK
<1>3. CASE DrainEnds(c)
  <2>1. log' \in [Call -> Seq(Frame)]
    <3>1. log' = log \/ log' = [log EXCEPT ![c] = Append(@, "done")]
      BY <1>3 DEF DrainEnds
    <3> QED  BY <3>1, LogTypes DEF TypeOK, Frame
  <2>2. status' = status \/ status' = [status EXCEPT ![c] = "errored"]
    BY <1>3 DEF DrainEnds
  <2>3. \/ drain' = [drain EXCEPT ![c] = "ended"]
        \/ drain' = [drain EXCEPT ![c] = "erroring"]
    BY <1>3 DEF DrainEnds
  <2>4. (ctx' = ctx /\ link' = link) \/ EndContext(c, "canceled")
    BY <1>3 DEF DrainEnds
  <2>5. /\ ctx' \in [Call -> {"live", "expired", "canceled"}]
        /\ link' \in [Call -> {"up", "cut"}]
    BY <2>4, ContextTypes, ControlTypes
  <2>6. status' \in [Call -> {"running"} \cup Final]  BY <2>2, ControlTypes DEF Final
  <2>7. drain' \in [Call -> {"idle", "draining", "completing", "erroring", "refusing",
                             "ended", "failed", "panicked", "dead"}]
    <3>1. drain \in [Call -> {"idle", "draining", "completing", "erroring", "refusing",
                             "ended", "failed", "panicked", "dead"}]
      BY DEF TypeOK
    <3> QED  BY <2>3, <3>1
  <2> QED  BY <1>3, <2>1, <2>5, <2>6, <2>7 DEF DrainEnds, TypeOK
<1>4. ASSUME Save(c) \/ SaveFails(c)
      PROVE  /\ ctx' \in [Call -> {"live", "expired", "canceled"}]
             /\ link' \in [Call -> {"up", "cut"}]
             /\ http' \in [Call -> {"waiting", "accepted", "ok", "timeout", "failed", "gone"}]
             /\ drain' \in [Call -> {"idle", "draining", "completing", "erroring",
                              "refusing", "ended", "failed", "panicked", "dead"}]
  <2>1. (ctx' = ctx /\ link' = link) \/ EndContext(c, "canceled")
    BY <1>4 DEF Save, SaveFails, Proceed
  <2>2. http' = http \/ http' = [http EXCEPT ![c] = "failed"]
    BY <1>4 DEF Save, SaveFails, Proceed
  <2>3. \E to \in {"draining", "ended", "failed"} : drain' = [drain EXCEPT ![c] = to]
    BY <1>4 DEF Save, SaveFails, Proceed
  <2>4. /\ ctx' \in [Call -> {"live", "expired", "canceled"}]
        /\ link' \in [Call -> {"up", "cut"}]
    BY <2>1, ContextTypes, ControlTypes
  <2>5. http' \in [Call -> {"waiting", "accepted", "ok", "timeout", "failed", "gone"}]
    BY <2>2, ControlTypes
  <2>6. drain' \in [Call -> {"idle", "draining", "completing", "erroring", "refusing",
                             "ended", "failed", "panicked", "dead"}]
    BY <2>3, ControlTypes
  <2> QED  BY <2>4, <2>5, <2>6
<1>5. CASE Save(c)
  <2>1. row' \in [Call -> [status : {"running"} \cup Final, output : [Stream -> Nat]]]
    BY <1>5 DEF Save, State, TypeOK
  <2> QED  BY <1>4, <1>5, <2>1 DEF Save, TypeOK
<1>6. CASE SaveFails(c)  BY <1>4, <1>6 DEF SaveFails, TypeOK
<1>7. CASE FramePanics(c)
  <2>1. /\ chan' \in [Call -> Seq(Frame)] /\ \A d \in Call : Len(chan'[d]) <= ChanCap
        /\ Head(chan[c]) \in Frame
    BY <1>7, TakeTypes DEF FramePanics, Recovered
  <2>2. ctx' \in [Call -> {"live", "expired", "canceled"}] /\ link' \in [Call -> {"up", "cut"}]
    BY <1>7, ContextTypes DEF FramePanics, Recovered
  <2>3. log' \in [Call -> Seq(Frame)]  BY <1>7, <2>1, LogTypes DEF FramePanics, Recovered
  <2>4. status' = status \/ status' = [status EXCEPT ![c] = "completed"]
    BY <1>7 DEF FramePanics, Recovered
  <2>5. \/ captured' = captured
        \/ \E s \in Stream : captured' = [captured EXCEPT ![c][s] = @ + 1]
    BY <1>7, <2>1 DEF FramePanics, Recovered, Frame
  <2>6. captured' \in [Call -> [Stream -> Nat]]  BY <2>5, CapturedTypes DEF TypeOK
  <2>7. status' \in [Call -> {"running"} \cup Final]  BY <2>4, ControlTypes DEF Final
  <2>8. /\ http' \in [Call -> {"waiting", "accepted", "ok", "timeout", "failed", "gone"}]
        /\ drain' \in [Call -> {"idle", "draining", "completing", "erroring", "refusing",
                             "ended", "failed", "panicked", "dead"}]
    BY <1>7 DEF FramePanics, Recovered, TypeOK
  <2>9. UNCHANGED <<phase, wrote, sent, wire, pipes, background, rcv, held, gotDone,
                    stored, told, writers, sse, crashes>>
    BY <1>7 DEF FramePanics, Recovered
  <2> QED  BY <2>1, <2>2, <2>3, <2>6, <2>7, <2>8, <2>9 DEF TypeOK
<1>8. CASE ErroredPanics(c)
  <2>1. ctx' \in [Call -> {"live", "expired", "canceled"}] /\ link' \in [Call -> {"up", "cut"}]
    BY <1>8, ContextTypes DEF ErroredPanics, Recovered
  <2>2. log' \in [Call -> Seq(Frame)]  BY <1>8, LogTypes DEF ErroredPanics, Frame
  <2>3. /\ status' = [status EXCEPT ![c] = "errored"] /\ rcv' = [rcv EXCEPT ![c] = "closed"]
        /\ http' = [http EXCEPT ![c] = "failed"]
        /\ drain' = [drain EXCEPT ![c] = "panicked"]
        /\ UNCHANGED <<phase, wrote, sent, wire, pipes, background, held, chan, gotDone,
                       captured, stored, told, writers, sse, crashes>>
    BY <1>8 DEF ErroredPanics, Recovered
  <2> QED  BY <2>1, <2>2, <2>3 DEF TypeOK, Final
<1> QED  BY <1>1, <1>2, <1>3, <1>5, <1>6, <1>7, <1>8 DEF Drain, Panics

LEMMA StarterTypes ==
  ASSUME TypeOK, NEW c \in Call,
         Starter(c) \/ StarterWrites(c) \/ StarterRefused(c) \/ WindowEnds(c)
  PROVE  TypeOK'
<1> USE DEF TypeOK, stream, pipes, request, client, drained, record, stored, writers
<1>1. ASSUME NEW from, NEW to \in {"calling", "pausing", "writing", "closing", "done",
                                   "lost", "refused"},
             StarterGoto(c, from, to)
      PROVE  starter' \in [Call -> {"none", "asked", "calling", "pausing", "writing",
                                    "closing", "done", "lost", "refused"}]
  BY <1>1 DEF StarterGoto
<1>2. CASE \/ StarterFound(c) \/ StarterNotFound(c) \/ StarterRetries(c)
           \/ StarterStops(c) \/ StarterRefused(c)
  <2>1. UNCHANGED <<stream, pipes>> /\ RestOfStarter(c)
    BY <1>2 DEF StarterFound, StarterNotFound, StarterRetries, StarterStops, StarterRefused
  <2>2. starter' \in [Call -> {"none", "asked", "calling", "pausing", "writing",
                               "closing", "done", "lost", "refused"}]
    BY <1>1, <1>2 DEF StarterFound, StarterNotFound, StarterRetries, StarterStops,
       StarterRefused
  <2> QED  BY <2>1, <2>2 DEF RestOfStarter
<1>3. CASE StarterWrites(c)
  <2>1. input' \in [Call -> Seq(Writer)]
    <3>1. InitialOf[c] \in Writer  BY PipelineOK
    <3> QED  BY <1>3, <3>1 DEF StarterWrites, Feed
  <2> QED  BY <1>1, <1>3, <2>1 DEF StarterWrites, Feed, RestOfStarter
<1>4. CASE StarterCloses(c)
  BY <1>1, <1>4 DEF StarterCloses, CloseInput, RestOfStarter
<1>5. CASE WindowEnds(c)  BY <1>5 DEF WindowEnds
<1> QED  BY <1>2, <1>3, <1>4, <1>5 DEF Starter

\* What a client reads, of a record or of one rebuilt from the row.
LEMMA ChunkTypes ==
  ASSUME TypeOK, NEW c \in Call
  PROVE  Chunks(c) \in Seq([kind : Frame, n : Nat])
<1> DEFINE C == [kind : Frame, n : Nat]
<1>1. log[c] \in Seq(Frame) /\ row[c].output \in [Stream -> Nat]  BY DEF TypeOK
<1>2. CASE inMemory[c]
  <2>1. Len(log[c]) \in Nat /\ \A i \in 1..Len(log[c]) : [kind |-> log[c][i], n |-> 1] \in C
    BY <1>1, ElementOfSeq
  <2>2. [i \in 1..Len(log[c]) |-> [kind |-> log[c][i], n |-> 1]] \in Seq(C)
    <3> HIDE DEF C
    <3> QED  BY <2>1, IsASeq
  <2> QED  BY <1>2, <2>2 DEF Chunks
<1>3. CASE ~inMemory[c]
  <2>1. \A s \in Stream : [kind |-> s, n |-> row[c].output[s]] \in C
    BY <1>1 DEF Frame
  <2>2. [kind |-> "done", n |-> 0] \in C  BY DEF Frame
  <2> HIDE DEF C
  <2>3. <<>> \in Seq(C) /\ \A e \in C : <<e>> \in Seq(C)  OBVIOUS
  <2>4. \A s \in Stream : Blob(row[c], s) \in Seq(C)  BY <2>1, <2>3 DEF Blob
  <2>5. Blob(row[c], "out") \o Blob(row[c], "err") \in Seq(C)
    BY <2>4, ConcatProperties DEF Stream
  <2>6. (IF row[c].status \in Final THEN <<[kind |-> "done", n |-> 0]>> ELSE <<>>) \in Seq(C)
    BY <2>2, <2>3
  <2>7. LoadedChunks(row[c]) \in Seq(C)
    BY <2>5, <2>6, ConcatProperties DEF LoadedChunks
  <2> QED  BY <1>3, <2>7 DEF Chunks, C
<1> QED  BY <1>2, <1>3

LEMMA SseTypes ==
  ASSUME TypeOK, NEW c \in Call, SseEvent(c)
  PROVE  sse' \in [Call -> [next : Nat, output : [Stream -> Nat], done : BOOLEAN]]
<1> DEFINE reader == sse[c]
           chunk == Chunks(c)[reader.next + 1]
           new == [next   |-> reader.next + 1,
                   output |-> [s \in Stream |->
                      reader.output[s] + IF chunk.kind = s THEN chunk.n ELSE 0],
                   done   |-> chunk.kind = "done"]
<1>1. reader \in [next : Nat, output : [Stream -> Nat], done : BOOLEAN]  BY DEF TypeOK
<1>2. reader.next < Len(Chunks(c)) /\ sse' = [sse EXCEPT ![c] = new]  BY DEF SseEvent
<1>3. chunk \in [kind : Frame, n : Nat]
  <2>1. Chunks(c) \in Seq([kind : Frame, n : Nat])  BY ChunkTypes
  <2>2. reader.next + 1 \in 1..Len(Chunks(c))  BY <1>1, <1>2, <2>1
  <2> HIDE DEF reader
  <2> QED  BY <2>1, <2>2, ElementOfSeq
<1>4. new \in [next : Nat, output : [Stream -> Nat], done : BOOLEAN]
  <2> HIDE DEF reader, chunk
  <2> QED  BY <1>1, <1>3
<1> HIDE DEF new
<1> QED  BY <1>2, <1>4 DEF TypeOK

LEMMA ReaderTypes ==
  ASSUME TypeOK, NEW c \in Call, Reader(c)
  PROVE  TypeOK'
<1> USE DEF TypeOK, stream, pipes, request, client, drained, record, stored, writers
<1>1. CASE Poll(c)
  <2>1. told' \in [Call -> [status : {"running"} \cup Final, output : [Stream -> Nat]]]
    BY <1>1 DEF Poll, State, Loaded
  <2> QED  BY <1>1, <2>1 DEF Poll
<1>2. CASE SseEvent(c)
  <2>1. sse' \in [Call -> [next : Nat, output : [Stream -> Nat], done : BOOLEAN]]
    BY <1>2, SseTypes
  <2> QED  BY <1>2, <2>1 DEF SseEvent
<1>3. CASE Evict(c)  BY <1>3 DEF Evict
<1> QED  BY <1>1, <1>2, <1>3 DEF Reader

LEMMA CrashTypes == ASSUME TypeOK, Crash PROVE TypeOK'
<1>1. row' \in [Call -> [status : {"running"} \cup Final, output : [Stream -> Nat]]]
  BY DEF TypeOK, Crash, State, NoOutput, Final
<1>2. crashes' \in 0..MaxCrashes  BY PipelineOK DEF TypeOK, Crash
<1>3. /\ chan' \in [Call -> Seq(Frame)] /\ \A c \in Call : Len(chan'[c]) <= ChanCap
      /\ log' \in [Call -> Seq(Frame)] /\ held' \in [Call -> Frame]
      /\ captured' \in [Call -> [Stream -> Nat]]
  BY PipelineOK DEF Crash, NoOutput, Frame
<1>4. /\ link' \in [Call -> {"up", "cut"}] /\ ctx' \in [Call -> {"live", "expired", "canceled"}]
      /\ http' \in [Call -> {"waiting", "accepted", "ok", "timeout", "failed", "gone"}]
      /\ lost' \in [Call -> BOOLEAN]
  BY DEF TypeOK, Crash
<1> QED  BY <1>1, <1>2, <1>3, <1>4 DEF TypeOK, Crash, pipes

LEMMA TypeStep == ASSUME TypeOK, [Next]_vars PROVE TypeOK'
<1>1. CASE UNCHANGED vars
  BY <1>1 DEF TypeOK, vars, stream, pipes, adapter, request, client, drained, record,
     stored, writers
<1> QED
  BY <1>1, AgentStepTypes, CreateTypes, ReceiverTypes, DrainTypes, StarterTypes,
     ReaderTypes, CrashTypes DEF Next

-----------------------------------------------------------------------------
(***************************************************************************)
(* The way of the frames.                                                  *)
(***************************************************************************)
LEMMA AppendDone ==
  ASSUME NEW q \in Seq(Frame), NEW f \in Frame, ~Has(q, "done")
  PROVE  /\ DoneLast(Append(q, f))
         /\ Has(Append(q, f), "done") => f = "done"
<1>1. /\ Len(q) \in Nat /\ Len(Append(q, f)) = Len(q) + 1
      /\ Append(q, f)[Len(q) + 1] = f /\ \A i \in 1..Len(q) : Append(q, f)[i] = q[i]
  OBVIOUS
<1> QED  BY <1>1 DEF Has, DoneLast

LEMMA TailDone ==
  ASSUME NEW q \in Seq(Frame), q # <<>>, DoneLast(q)
  PROVE  /\ DoneLast(Tail(q))
         /\ Has(Tail(q), "done") => Has(q, "done")
         /\ Head(q) = "done" => Has(q, "done") /\ Tail(q) = <<>>
<1>1. /\ Len(q) \in Nat \ {0} /\ Len(Tail(q)) = Len(q) - 1 /\ Tail(q) \in Seq(Frame)
      /\ Head(q) = q[1] /\ \A i \in 1..Len(Tail(q)) : Tail(q)[i] = q[i + 1]
  OBVIOUS
<1>2. \A i \in 1..Len(Tail(q)) : i + 1 \in 1..Len(q) /\ Tail(q)[i] = q[i + 1]  BY <1>1
<1>3. DoneLast(Tail(q))
  <2> SUFFICES ASSUME NEW i \in 1..Len(Tail(q)), Tail(q)[i] = "done"
               PROVE  i = Len(Tail(q))
    BY DEF DoneLast
  <2>1. i + 1 \in 1..Len(q)  BY <1>2
  <2>2. q[i + 1] = "done"  BY <1>2
  <2>3. i + 1 = Len(q)  BY <2>1, <2>2 DEF DoneLast
  <2>4. Len(q) \in Nat /\ Len(Tail(q)) = Len(q) - 1  BY <1>1
  <2>5. i \in Nat  OBVIOUS
  <2> QED  BY <2>3, <2>4, <2>5
<1>4. Has(Tail(q), "done") => Has(q, "done")  BY <1>2 DEF Has
<1>5. ASSUME Head(q) = "done" PROVE Has(q, "done") /\ Tail(q) = <<>>
  <2>1. 1 \in 1..Len(q) /\ q[1] = "done"  BY <1>1, <1>5
  <2>2. Len(q) = 1  BY <2>1 DEF DoneLast
  <2>3. Len(Tail(q)) = 0  BY <1>1, <2>2
  <2>4. Tail(q) = <<>>  BY <1>1, <2>3, EmptySeq
  <2> QED  BY <2>1, <2>4 DEF Has
<1> QED  BY <1>3, <1>4, <1>5

LEMMA FlowTypes ==
  ASSUME TypeOK, NEW c \in Call
  PROVE  /\ wire[c] \in Seq(Frame) /\ chan[c] \in Seq(Frame) /\ held[c] \in Frame
         /\ sent[c] \in [Stream -> Nat] /\ wrote[c] \in [Stream -> Nat]
         /\ captured[c] \in [Stream -> Nat]
         /\ \A s \in Stream : /\ sent[c][s] \in Nat /\ wrote[c][s] \in Nat
                              /\ captured[c][s] \in Nat
                              /\ Count(chan[c], s) \in Nat /\ Count(wire[c], s) \in Nat
<1>1. /\ wire[c] \in Seq(Frame) /\ chan[c] \in Seq(Frame) /\ held[c] \in Frame
      /\ sent[c] \in [Stream -> Nat] /\ wrote[c] \in [Stream -> Nat]
      /\ captured[c] \in [Stream -> Nat]
  BY DEF TypeOK
<1> QED  BY <1>1, CountType

\* A step that leaves the frames and the status of an exec alone.
Same(c) ==
  /\ phase'[c] = phase[c] /\ wrote'[c] = wrote[c] /\ sent'[c] = sent[c]
  /\ wire'[c] = wire[c] /\ rcv'[c] = rcv[c] /\ held'[c] = held[c]
  /\ chan'[c] = chan[c] /\ status'[c] = status[c] /\ captured'[c] = captured[c]

LEMMA SameFlow ==
  ASSUME NEW c \in Call, Same(c)
  PROVE  /\ Flow(c) => Flow(c)'
         /\ DoneComesLast(c) => DoneComesLast(c)'
  BY DEF Same, Flow, InHand, DoneComesLast, AllSent

\* No Done frame is under way before the agent has sent it.
LEMMA NotYet ==
  ASSUME NEW c \in Call, DoneComesLast(c), ~AllSent(c)
  PROVE  /\ ~Has(wire[c], "done") /\ ~Has(chan[c], "done")
         /\ ~(rcv[c] = "holding" /\ held[c] = "done")
  BY DEF DoneComesLast

\* The steps of the agent.
LEMMA AgentFlow ==
  ASSUME TypeOK, NEW c \in Call, Flow(c), DoneComesLast(c), AgentStep(c)
  PROVE  /\ Flow(c)' /\ DoneComesLast(c)'
         /\ \A d \in Call \ {c} : Same(d)
<1>0. \A s \in Stream : /\ sent[c][s] \in Nat /\ wrote[c][s] \in Nat
                         /\ captured[c][s] \in Nat
                         /\ Count(chan[c], s) \in Nat /\ Count(wire[c], s) \in Nat
                         /\ InHand(c, s) \in {0, 1}
  BY FlowTypes DEF InHand
<1>1. UNCHANGED <<rcv, held, chan, status, captured>>
  BY DEF AgentStep, adapter, client, record
<1>2. CASE Cut(c) \/ CloseInput(c)
  BY <1>1, <1>2, SameFlow DEF Cut, CloseInput, Same
<1>3. CASE Begin(c) \/ Enroll(c) \/ Refuse(c) \/ GiveUp(c) \/ Return(c)
  <2>1. /\ UNCHANGED <<wrote, sent, wire>>
        /\ phase[c] \in {"done", "over"} => phase'[c] \in {"done", "over"}
        /\ \A d \in Call \ {c} : phase'[d] = phase[d]
    BY <1>3 DEF Begin, Enroll, Refuse, GiveUp, Return, TypeOK
  <2>2. Flow(c)'  BY <1>1, <2>1 DEF Flow, InHand
  <2>3. DoneComesLast(c)'  BY <1>1, <2>1 DEF DoneComesLast, AllSent
  <2> QED  BY <1>1, <2>1, <2>2, <2>3 DEF Same
<1>4. ASSUME NEW s \in Stream, Produce(c, s)
      PROVE  Flow(c)' /\ DoneComesLast(c)' /\ \A d \in Call \ {c} : Same(d)
  <2>1. /\ UNCHANGED <<phase, sent, wire>> /\ phase[c] \in {"called", "running"}
        /\ \A d \in Call \ {c} : wrote'[d] = wrote[d]
        /\ \A z \in Stream : wrote'[c][z] = wrote[c][z] + IF z = s THEN 1 ELSE 0
    <3>1. /\ UNCHANGED <<phase, sent, wire>> /\ phase[c] \in {"called", "running"}
          /\ wrote' = [wrote EXCEPT ![c][s] = @ + 1]
      BY <1>4 DEF Produce
    <3>2. wrote \in [Call -> [Stream -> Nat]]  BY DEF TypeOK
    <3> QED  BY <3>1, <3>2
  <2>2. Flow(c)'
    <3>1. \A z \in Stream : wrote'[c][z] >= wrote[c][z]  BY <1>0, <2>1
    <3>2. \A z \in Stream : sent[c][z] <= wrote'[c][z]  BY <1>0, <2>1 DEF Flow
    <3> QED  BY <1>1, <2>1, <3>2 DEF Flow, InHand
  <2>3. DoneComesLast(c)'  BY <1>1, <2>1 DEF DoneComesLast, AllSent
  <2> QED  BY <1>1, <2>1, <2>2, <2>3 DEF Same
<1>5. ASSUME NEW s \in Stream, Output(c, s)
      PROVE  Flow(c)' /\ DoneComesLast(c)' /\ \A d \in Call \ {c} : Same(d)
  <2>1. /\ UNCHANGED <<phase, wrote>> /\ phase[c] = "running" /\ sent[c][s] < wrote[c][s]
        /\ \A d \in Call \ {c} : sent'[d] = sent[d] /\ wire'[d] = wire[d]
        /\ \A z \in Stream : sent'[c][z] = sent[c][z] + IF z = s THEN 1 ELSE 0
        /\ wire'[c] = Append(wire[c], s) /\ s \in Frame /\ s # "done"
    <3>1. /\ sent' = [sent EXCEPT ![c][s] = @ + 1]
          /\ wire' = [wire EXCEPT ![c] = Append(@, s)]
          /\ UNCHANGED <<phase, wrote>> /\ phase[c] = "running"
          /\ sent[c][s] < wrote[c][s]
      BY <1>5 DEF Output
    <3>2. /\ sent \in [Call -> [Stream -> Nat]] /\ wire \in [Call -> Seq(Frame)]
          /\ s \in Frame /\ s # "done"
      BY DEF TypeOK, Frame, Stream
    <3> QED  BY <3>1, <3>2
  <2>2. \A z \in Stream : Count(wire'[c], z) = Count(wire[c], z) + IF z = s THEN 1 ELSE 0
    BY <2>1, CountAppend, FlowTypes
  <2>3. Flow(c)'
    <3> SUFFICES ASSUME NEW z \in Stream
                 PROVE  /\ captured[c][z] + Count(chan[c], z) <= sent'[c][z]
                        /\ sent'[c][z] <= wrote[c][z]
                        /\ rcv[c] # "closed" =>
                             sent'[c][z] = captured[c][z] + Count(chan[c], z)
                                             + InHand(c, z) + Count(wire'[c], z)
      BY <1>1, <2>1 DEF Flow, InHand
    <3>1. sent'[c][z] = sent[c][z] + IF z = s THEN 1 ELSE 0  BY <2>1
    <3>2. Count(wire'[c], z) = Count(wire[c], z) + IF z = s THEN 1 ELSE 0  BY <2>2
    <3>3. /\ sent[c][z] \in Nat /\ wrote[c][z] \in Nat /\ captured[c][z] \in Nat
          /\ Count(chan[c], z) \in Nat /\ Count(wire[c], z) \in Nat
          /\ InHand(c, z) \in {0, 1}
      BY <1>0
    <3>4. /\ captured[c][z] + Count(chan[c], z) <= sent[c][z]
          /\ sent[c][z] <= wrote[c][z]
          /\ rcv[c] # "closed" =>
               sent[c][z] = captured[c][z] + Count(chan[c], z)
                              + InHand(c, z) + Count(wire[c], z)
      BY DEF Flow
    <3>5. z = s => sent[c][z] < wrote[c][z]  BY <2>1
    <3> QED  BY <3>1, <3>2, <3>3, <3>4, <3>5
  <2>4. ~AllSent(c)  BY <2>1 DEF AllSent
  <2>5. DoneLast(wire'[c]) /\ ~Has(wire'[c], "done")  BY <2>1, <2>4, NotYet, AppendDone, FlowTypes
  <2>6. DoneComesLast(c)'  BY <1>1, <2>1, <2>4, <2>5 DEF DoneComesLast
  <2> QED  BY <1>1, <2>1, <2>3, <2>6 DEF Same
<1>6. CASE Finish(c)
  <2>1. /\ UNCHANGED <<wrote, sent>> /\ phase[c] = "running" /\ phase'[c] = "done"
        /\ sent[c] = wrote[c] /\ wire'[c] = Append(wire[c], "done")
        /\ \A d \in Call \ {c} : phase'[d] = phase[d] /\ wire'[d] = wire[d]
    <3>1. /\ UNCHANGED <<wrote, sent>> /\ phase[c] = "running" /\ sent[c] = wrote[c]
          /\ phase' = [phase EXCEPT ![c] = "done"]
          /\ wire' = [wire EXCEPT ![c] = Append(@, "done")]
      BY <1>6 DEF Finish
    <3>2. /\ phase \in [Call -> {"idle", "called", "running", "done", "over"}]
          /\ wire \in [Call -> Seq(Frame)]
      BY DEF TypeOK
    <3> QED  BY <3>1, <3>2
  <2>2. "done" \in Frame /\ \A z \in Stream : z # "done"  BY DEF Frame, Stream
  <2>3. \A z \in Stream : Count(wire'[c], z) = Count(wire[c], z)
    <3>1. wire[c] \in Seq(Frame)  BY FlowTypes
    <3>2. \A z \in Stream : Count(Append(wire[c], "done"), z)
                                = Count(wire[c], z) + 0
      BY <2>2, <3>1, CountAppend
    <3> QED  BY <1>0, <2>1, <3>2
  <2>4. Flow(c)'  BY <1>1, <2>1, <2>3 DEF Flow, InHand
  <2>5. ~AllSent(c) /\ AllSent(c)'  BY <2>1 DEF AllSent
  <2>6. DoneLast(wire'[c])  BY <2>1, <2>2, <2>5, NotYet, AppendDone, FlowTypes
  <2>7. DoneComesLast(c)'  BY <1>1, <2>1, <2>5, <2>6 DEF DoneComesLast
  <2> QED  BY <1>1, <2>1, <2>4, <2>7 DEF Same
<1> QED
  BY <1>2, <1>3, <1>4, <1>5, <1>6 DEF AgentStep, ServeCall

\* The steps of the receiver, from the wire to the channel.
LEMMA ReceiverFlow ==
  ASSUME TypeOK, NEW c \in Call, Flow(c), DoneComesLast(c), Receiver(c)
  PROVE  /\ Flow(c)' /\ DoneComesLast(c)'
         /\ \A d \in Call \ {c} : Same(d)
<1> USE DEF stream, record
<1>0. \A s \in Stream : /\ sent[c][s] \in Nat /\ wrote[c][s] \in Nat
                         /\ captured[c][s] \in Nat
                         /\ Count(chan[c], s) \in Nat /\ Count(wire[c], s) \in Nat
                         /\ InHand(c, s) \in {0, 1}
  BY FlowTypes DEF InHand
<1>1. CASE Recv(c)
  <2>1. /\ UNCHANGED <<phase, wrote, sent, chan, status, captured>>
        /\ rcv[c] = "receiving" /\ rcv'[c] = "holding" /\ wire[c] # <<>>
        /\ held'[c] = Head(wire[c]) /\ wire'[c] = Tail(wire[c])
        /\ \A d \in Call \ {c} : rcv'[d] = rcv[d] /\ held'[d] = held[d] /\ wire'[d] = wire[d]
    BY <1>1 DEF Recv, Deliver, TypeOK
  <2>2. \A s \in Stream : Count(wire[c], s)
                            = Count(wire'[c], s) + IF Head(wire[c]) = s THEN 1 ELSE 0
    BY <2>1, CountTail, FlowTypes
  <2>3. \A s \in Stream : Count(wire'[c], s) \in Nat
    <3>1. Tail(wire[c]) \in Seq(Frame)  BY <2>1, FlowTypes
    <3> QED  BY <2>1, <3>1, CountType
  <2>4. Flow(c)'
    <3>1. \A s \in Stream : InHand(c, s) = 0 /\ InHand(c, s)' = IF Head(wire[c]) = s THEN 1 ELSE 0
      BY <2>1 DEF InHand
    <3>2. \A s \in Stream : Count(wire[c], s) + InHand(c, s)
                               = Count(wire'[c], s) + InHand(c, s)'
      BY <1>0, <2>2, <2>3, <3>1
    <3> QED  BY <1>0, <2>1, <2>3, <3>1, <3>2 DEF Flow
  <2>5. /\ DoneLast(wire'[c])
        /\ Has(wire'[c], "done") => Has(wire[c], "done")
        /\ held'[c] = "done" => Has(wire[c], "done") /\ wire'[c] = <<>>
    BY <2>1, TailDone, FlowTypes DEF DoneComesLast
  <2>6. ~Has(chan[c], "done")  BY <2>1 DEF DoneComesLast
  <2>7. DoneComesLast(c)'  BY <2>1, <2>5, <2>6 DEF DoneComesLast, AllSent
  <2> QED  BY <2>1, <2>4, <2>7 DEF Same
<1>2. CASE Forward(c)
  <2>1. /\ UNCHANGED <<phase, wrote, sent, wire, held, status, captured>>
        /\ rcv[c] = "holding" /\ rcv'[c] = "receiving" /\ chan'[c] = Append(chan[c], held[c])
        /\ \A d \in Call \ {c} : rcv'[d] = rcv[d] /\ chan'[d] = chan[d]
    BY <1>2 DEF Forward, TypeOK
  <2>2. \A s \in Stream : Count(chan'[c], s) = Count(chan[c], s) + InHand(c, s)
    BY <2>1, CountAppend, FlowTypes DEF InHand
  <2>3. \A s \in Stream : InHand(c, s)' = 0 /\ InHand(c, s) \in {0, 1}
    BY <2>1 DEF InHand
  <2>4. Flow(c)'
    <3>1. \A s \in Stream : sent[c][s] = captured[c][s] + Count(chan'[c], s) + Count(wire[c], s)
      BY <1>0, <2>1, <2>2 DEF Flow
    <3>2. \A s \in Stream : Count(chan'[c], s) \in Nat  BY <1>0, <2>2
    <3> QED  BY <1>0, <2>1, <2>3, <3>1, <3>2 DEF Flow
  <2>5. /\ DoneLast(chan'[c])
        /\ Has(chan'[c], "done") => held[c] = "done"
    BY <2>1, AppendDone, FlowTypes DEF DoneComesLast
  <2>6. held[c] = "done" =>
          \A s \in Stream : captured[c][s] + Count(chan'[c], s) = wrote[c][s]
    <3> SUFFICES ASSUME held[c] = "done", NEW s \in Stream
                 PROVE  captured[c][s] + Count(chan'[c], s) = wrote[c][s]
      OBVIOUS
    <3>1. wire[c] = <<>> /\ sent[c] = wrote[c]  BY <2>1 DEF DoneComesLast, AllSent
    <3>2. Count(wire[c], s) = 0  BY <3>1, CountEmpty
    <3> QED  BY <1>0, <2>1, <2>2, <3>1, <3>2 DEF Flow
  <2>7. DoneComesLast(c)'  BY <2>1, <2>5, <2>6 DEF DoneComesLast, AllSent
  <2> QED  BY <2>1, <2>4, <2>7 DEF Same
<1>3. CASE RecvEnds(c)
  <2>1. /\ UNCHANGED <<phase, wrote, sent, wire, held, chan, status, captured>>
        /\ rcv'[c] = "closed" /\ \A d \in Call \ {c} : rcv'[d] = rcv[d]
    BY <1>3 DEF RecvEnds, TypeOK
  <2>2. Flow(c)'  BY <2>1 DEF Flow
  <2>3. DoneComesLast(c)'  BY <2>1 DEF DoneComesLast, AllSent
  <2> QED  BY <2>1, <2>2, <2>3 DEF Same
<1> QED  BY <1>1, <1>2, <1>3 DEF Receiver

\* No output comes after the completion.
LEMMA NoMoreOutput ==
  ASSUME TypeOK, NEW c \in Call, Flow(c), DoneComesLast(c), chan[c] # <<>>,
         status[c] = "completed"
  PROVE  Head(chan[c]) = "done"
<1> SUFFICES ASSUME Head(chan[c]) # "done" PROVE FALSE  OBVIOUS
<1> DEFINE s == Head(chan[c])
<1>1. s \in Stream /\ Tail(chan[c]) \in Seq(Frame)  BY FlowTypes DEF Frame
<1>2. captured[c][s] = wrote[c][s]  BY DEF DoneComesLast
<1>3. /\ captured[c][s] + Count(chan[c], s) <= sent[c][s]
      /\ sent[c][s] <= wrote[c][s]
  BY <1>1 DEF Flow
<1>4. Count(chan[c], s) = Count(Tail(chan[c]), s) + 1  BY CountTail, FlowTypes
<1>5. Count(Tail(chan[c]), s) \in Nat  BY <1>1, CountType
<1>6. /\ wrote[c][s] \in Nat /\ captured[c][s] \in Nat /\ sent[c][s] \in Nat
  BY <1>1, FlowTypes
<1> HIDE DEF s
<1> QED  BY <1>2, <1>3, <1>4, <1>5, <1>6

\* Taking a frame off the channel and recording it.
LEMMA TakeFlow ==
  ASSUME TypeOK, TypeOK', NEW c \in Call, Flow(c), DoneComesLast(c),
         chan[c] # <<>>, chan'[c] = Tail(chan[c]),
         UNCHANGED <<phase, wrote, sent, wire, rcv, held>>,
         \A s \in Stream :
           captured'[c][s] = captured[c][s] + IF Head(chan[c]) = s THEN 1 ELSE 0,
         status'[c] = "completed" => status[c] = "completed" \/ Head(chan[c]) = "done"
  PROVE  Flow(c)' /\ DoneComesLast(c)'
<1>1. \A s \in Stream : /\ sent[c][s] \in Nat /\ wrote[c][s] \in Nat
                        /\ captured[c][s] \in Nat /\ Count(chan[c], s) \in Nat
  BY FlowTypes
<1>2. Head(chan[c]) \in Frame /\ Tail(chan[c]) \in Seq(Frame)  BY FlowTypes
<1>3. \A s \in Stream : Count(chan'[c], s) \in Nat  BY <1>2, CountType
<1>4. \A s \in Stream : Count(chan[c], s)
                          = Count(chan'[c], s) + IF Head(chan[c]) = s THEN 1 ELSE 0
  BY CountTail, FlowTypes
<1>5. \A s \in Stream : captured'[c][s] + Count(chan'[c], s)
                          = captured[c][s] + Count(chan[c], s)
  BY <1>1, <1>3, <1>4
<1>6. Flow(c)'
  <2> SUFFICES ASSUME NEW s \in Stream
               PROVE  /\ captured'[c][s] + Count(chan'[c], s) <= sent[c][s]
                      /\ sent[c][s] <= wrote[c][s]
                      /\ rcv[c] # "closed" =>
                           sent[c][s] = captured'[c][s] + Count(chan'[c], s)
                                          + InHand(c, s) + Count(wire[c], s)
    BY DEF Flow, InHand
  <2> QED  BY <1>5 DEF Flow
<1>7. /\ DoneLast(chan'[c])
      /\ Has(chan'[c], "done") => Has(chan[c], "done")
      /\ Head(chan[c]) = "done" => Has(chan[c], "done") /\ chan'[c] = <<>>
  BY FlowTypes, TailDone DEF DoneComesLast
<1>8. ASSUME status'[c] = "completed"
      PROVE  phase[c] \in {"done", "over"} /\ captured'[c] = wrote[c]
  <2>1. captured'[c] \in [Stream -> Nat] /\ wrote[c] \in [Stream -> Nat]
    BY DEF TypeOK
  <2>2. CASE Head(chan[c]) = "done"
    <3>1. /\ AllSent(c) /\ chan'[c] = <<>>
          /\ \A s \in Stream : captured[c][s] + Count(chan[c], s) = wrote[c][s]
      BY <1>7, <2>2 DEF DoneComesLast
    <3>2. \A s \in Stream : Count(chan'[c], s) = 0  BY <3>1, CountEmpty
    <3>3. \A s \in Stream : captured'[c][s] = wrote[c][s]
      BY <1>1, <1>5, <2>1, <3>1, <3>2
    <3> QED  BY <2>1, <3>1, <3>3 DEF AllSent
  <2>3. CASE status[c] = "completed"
    <3>1. Head(chan[c]) = "done"  BY <2>3, NoMoreOutput
    <3> QED  BY <2>2, <3>1
  <2> QED  BY <1>8, <2>2, <2>3
<1>9. DoneComesLast(c)'
  BY <1>5, <1>7, <1>8 DEF DoneComesLast, AllSent
<1> QED  BY <1>6, <1>9

LEMMA CaptureOne ==
  ASSUME TypeOK, NEW c \in Call, NEW s \in Stream,
         captured' = [captured EXCEPT ![c][s] = @ + 1]
  PROVE  /\ \A z \in Stream :
              captured'[c][z] = captured[c][z] + IF s = z THEN 1 ELSE 0
         /\ \A d \in Call \ {c} : captured'[d] = captured[d]
<1>1. captured \in [Call -> [Stream -> Nat]]  BY DEF TypeOK
<1> QED  BY <1>1

LEMMA DrainFlow ==
  ASSUME TypeOK, TypeOK', NEW c \in Call, Flow(c), DoneComesLast(c),
         Drain(c) \/ Panics(c)
  PROVE  /\ Flow(c)' /\ DoneComesLast(c)'
         /\ \A d \in Call \ {c} : Same(d)
<1> USE DEF stream, record, stored
<1>1. ASSUME Take(c) PROVE /\ chan[c] # <<>> /\ chan'[c] = Tail(chan[c])
                           /\ \A d \in Call \ {c} : chan'[d] = chan[d]
  BY <1>1 DEF Take, TypeOK
<1>2. ASSUME NEW s \in Stream, DrainOutput(c, s)
      PROVE  Flow(c)' /\ DoneComesLast(c)' /\ \A d \in Call \ {c} : Same(d)
  <2>1. /\ UNCHANGED <<phase, wrote, sent, wire, rcv, held, status>> /\ Take(c)
        /\ Head(chan[c]) = s /\ captured' = [captured EXCEPT ![c][s] = @ + 1]
    BY <1>2 DEF DrainOutput
  <2>2. \A z \in Stream :
          captured'[c][z] = captured[c][z] + IF Head(chan[c]) = z THEN 1 ELSE 0
    BY <2>1, CaptureOne
  <2>3. \A d \in Call \ {c} : captured'[d] = captured[d]  BY <2>1, CaptureOne
  <2>4. Flow(c)' /\ DoneComesLast(c)'  BY <1>1, <2>1, <2>2, TakeFlow
  <2> QED  BY <1>1, <2>1, <2>3, <2>4 DEF Same
<1>3. CASE DrainDone(c)
  <2>1. /\ UNCHANGED <<phase, wrote, sent, wire, rcv, held, captured>> /\ Take(c)
        /\ Head(chan[c]) = "done" /\ \A d \in Call \ {c} : status'[d] = status[d]
    <3>1. status' = [status EXCEPT ![c] = "completed"] /\ status = [d \in Call |-> status[d]]
      BY <1>3 DEF DrainDone, TypeOK
    <3> QED  BY <1>3, <3>1 DEF DrainDone
  <2>2. \A z \in Stream :
          captured'[c][z] = captured[c][z] + IF Head(chan[c]) = z THEN 1 ELSE 0
    BY <2>1, FlowTypes DEF Stream
  <2>3. Flow(c)' /\ DoneComesLast(c)'  BY <1>1, <2>1, <2>2, TakeFlow
  <2> QED  BY <1>1, <2>1, <2>3 DEF Same
<1>4. CASE FramePanics(c)
  <2>1. /\ UNCHANGED <<phase, wrote, sent, wire, rcv, held>> /\ Take(c)
    BY <1>4 DEF FramePanics, Recovered
  <2>2. Head(chan[c]) \in Frame  BY <2>1, TakeTypes
  <2>3. CASE Head(chan[c]) = "done"
    <3>1. UNCHANGED captured /\ \A d \in Call \ {c} : status'[d] = status[d]
      <4>1. UNCHANGED captured /\ status' = [status EXCEPT ![c] = "completed"]
        BY <1>4, <2>3 DEF FramePanics, Recovered
      <4>2. status = [d \in Call |-> status[d]]  BY DEF TypeOK
      <4> QED  BY <4>1, <4>2
    <3>2. \A z \in Stream :
            captured'[c][z] = captured[c][z] + IF Head(chan[c]) = z THEN 1 ELSE 0
      BY <2>3, <3>1, FlowTypes DEF Stream
    <3>3. Flow(c)' /\ DoneComesLast(c)'  BY <1>1, <2>1, <2>3, <3>2, TakeFlow
    <3> QED  BY <1>1, <2>1, <3>1, <3>3 DEF Same
  <2>4. CASE Head(chan[c]) # "done"
    <3> DEFINE s == Head(chan[c])
    <3>1. UNCHANGED status /\ captured' = [captured EXCEPT ![c][s] = @ + 1]
      BY <1>4, <2>4 DEF FramePanics, Recovered
    <3>2. s \in Stream  BY <2>2, <2>4 DEF Frame
    <3>3. \A z \in Stream :
            captured'[c][z] = captured[c][z] + IF Head(chan[c]) = z THEN 1 ELSE 0
      BY <3>1, <3>2, CaptureOne
    <3>4. \A d \in Call \ {c} : captured'[d] = captured[d]  BY <3>1, <3>2, CaptureOne
    <3>5. Flow(c)' /\ DoneComesLast(c)'  BY <1>1, <2>1, <3>1, <3>3, TakeFlow
    <3> QED  BY <1>1, <2>1, <3>1, <3>4, <3>5 DEF Same
  <2> QED  BY <2>3, <2>4
<1>5. CASE DrainEnds(c)
  <2>1. /\ UNCHANGED <<phase, wrote, sent, wire, rcv, held, chan, captured>>
        /\ status'[c] = "completed" => status[c] = "completed"
        /\ \A d \in Call \ {c} : status'[d] = status[d]
    BY <1>5 DEF DrainEnds, client, TypeOK
  <2>2. Flow(c)'  BY <2>1 DEF Flow, InHand
  <2>3. DoneComesLast(c)'  BY <2>1 DEF DoneComesLast, AllSent
  <2> QED  BY <2>1, <2>2, <2>3 DEF Same
<1>6. CASE Save(c) \/ SaveFails(c)
  BY <1>6, SameFlow DEF Save, SaveFails, client, Same
<1>7. CASE ErroredPanics(c)
  <2>1. /\ UNCHANGED <<phase, wrote, sent, wire, held, chan, captured>>
        /\ rcv'[c] = "closed" /\ rcv[c] # "holding" /\ status'[c] = "errored"
        /\ \A d \in Call \ {c} : rcv'[d] = rcv[d] /\ status'[d] = status[d]
    BY <1>7 DEF ErroredPanics, TypeOK
  <2>2. Flow(c)'  BY <2>1 DEF Flow, InHand
  <2>3. DoneComesLast(c)'  BY <2>1 DEF DoneComesLast, AllSent
  <2> QED  BY <2>1, <2>2, <2>3 DEF Same
<1> QED  BY <1>2, <1>3, <1>4, <1>5, <1>6, <1>7 DEF Drain, Panics

LEMMA CreateFlow ==
  ASSUME TypeOK, NEW c \in Call, Flow(c), DoneComesLast(c), Create(c)
  PROVE  /\ Flow(c)' /\ DoneComesLast(c)'
         /\ \A d \in Call \ {c} : Same(d)
<1> USE DEF stream, record, client
<1>1. CASE StartStream(c)
  <2>1. /\ UNCHANGED <<phase, wrote, sent, wire, held, chan, status, captured>>
        /\ rcv[c] = "idle" /\ rcv'[c] = "receiving"
        /\ \A d \in Call \ {c} : rcv'[d] = rcv[d]
    BY <1>1 DEF StartStream, TypeOK
  <2>2. Flow(c)'  BY <2>1 DEF Flow, InHand
  <2>3. DoneComesLast(c)'  BY <2>1 DEF DoneComesLast, AllSent
  <2> QED  BY <2>1, <2>2, <2>3 DEF Same
<1>2. CASE StartFails(c)
  <2>1. /\ UNCHANGED <<phase, wrote, sent, wire, held, chan, captured>>
        /\ rcv'[c] = "closed" /\ status'[c] = "errored"
        /\ \A d \in Call \ {c} : rcv'[d] = rcv[d] /\ status'[d] = status[d]
    BY <1>2 DEF StartFails, TypeOK
  <2>2. Flow(c)'  BY <2>1 DEF Flow
  <2>3. DoneComesLast(c)'  BY <2>1 DEF DoneComesLast, AllSent
  <2> QED  BY <2>1, <2>2, <2>3 DEF Same
<1>3. ASSUME NEW code, Reply(c, code)
      PROVE  Flow(c)' /\ DoneComesLast(c)' /\ \A d \in Call \ {c} : Same(d)
  BY <1>3, SameFlow DEF Reply, Same
<1> QED  BY <1>1, <1>2, <1>3 DEF Create

LEMMA CrashFlow ==
  ASSUME TypeOK, NEW c \in Call, Flow(c), DoneComesLast(c), Crash
  PROVE  Flow(c)' /\ DoneComesLast(c)'
<1>1. /\ UNCHANGED <<phase, wrote, sent, wire>> /\ rcv'[c] = "closed"
      /\ chan'[c] = <<>> /\ status'[c] = "running" /\ captured'[c] = NoOutput
  BY DEF Crash
<1>2. \A s \in Stream : sent[c][s] \in Nat /\ Count(<<>>, s) = 0 /\ NoOutput[s] = 0
  BY FlowTypes, CountEmpty DEF NoOutput
<1>3. Flow(c)'  BY <1>1, <1>2 DEF Flow
<1>4. DoneComesLast(c)'  BY <1>1 DEF DoneComesLast, AllSent, Has, DoneLast
<1> QED  BY <1>3, <1>4

\* The other steps have nothing to do with the frames.
LEMMA QuietSteps ==
  ASSUME NEW c \in Call,
         \/ Expire(c) \/ CallerLeaves(c) \/ Starter(c) \/ StarterWrites(c)
         \/ StarterRefused(c) \/ WindowEnds(c) \/ User(c) \/ Reader(c)
  PROVE  \A d \in Call : Same(d)
  BY DEF Same, stream, record, client, drained, adapter, pipes, Expire, CallerLeaves,
     Starter, RestOfStarter, StarterFound, StarterNotFound, StarterRetries,
     StarterStops, StarterCloses, StarterWrites, StarterRefused, WindowEnds, User,
     UserEOF, UserWrites,
     Feed, CloseInput, Reader, Poll, SseEvent, Evict

LEMMA FlowStep ==
  ASSUME TypeOK, TypeOK', \A c \in Call : Flow(c) /\ DoneComesLast(c), [Next]_vars
  PROVE  \A c \in Call : Flow(c)' /\ DoneComesLast(c)'
<1> SUFFICES ASSUME NEW d \in Call PROVE Flow(d)' /\ DoneComesLast(d)'  OBVIOUS
<1>1. CASE UNCHANGED vars
  BY <1>1, SameFlow DEF vars, Same, stream, adapter, client, record
<1>2. CASE Crash  BY <1>2, CrashFlow
<1>3. ASSUME NEW c \in Call,
             \/ AgentStep(c) \/ Receiver(c) \/ Drain(c) \/ Panics(c) \/ Create(c)
      PROVE  Flow(d)' /\ DoneComesLast(d)'
  BY <1>3, AgentFlow, ReceiverFlow, DrainFlow, CreateFlow, SameFlow
<1>4. ASSUME NEW c \in Call,
             \/ Expire(c) \/ CallerLeaves(c) \/ Starter(c) \/ StarterWrites(c)
             \/ StarterRefused(c) \/ WindowEnds(c) \/ User(c) \/ Reader(c)
      PROVE  Flow(d)' /\ DoneComesLast(d)'
  BY <1>4, QuietSteps, SameFlow
<1> QED  BY <1>1, <1>2, <1>3, <1>4 DEF Next

\* The Done frame is under way, or has come.
DoneSeen(c) ==
  \/ Has(wire[c], "done") \/ (rcv[c] = "holding" /\ held[c] = "done")
  \/ Has(chan[c], "done") \/ status[c] = "completed"

LEMMA SameSeen ==
  ASSUME NEW c \in Call, Same(c), DoneSeen(c)'
  PROVE  DoneSeen(c)
  BY DEF Same, DoneSeen

\* No frame becomes a Done frame on its way: the agent has sent it.
LEMMA OnlyTheAgentIsDone ==
  ASSUME TypeOK, NEW c \in Call, DoneComesLast(c), ~DoneSeen(c), DoneSeen(c)',
         \/ Receiver(c) \/ Drain(c) \/ Panics(c) \/ Create(c) \/ Crash
  PROVE  FALSE
<1> USE DEF DoneSeen, stream, record, client, stored
<1>1. CASE Recv(c)
  <2>1. /\ wire[c] # <<>> /\ wire[c] \in Seq(Frame) /\ wire'[c] = Tail(wire[c])
        /\ held'[c] = Head(wire[c]) /\ UNCHANGED <<chan, status>>
    BY <1>1, FlowTypes DEF Recv, Deliver, TypeOK
  <2> QED  BY <2>1, TailDone DEF DoneComesLast
<1>2. CASE Forward(c)
  <2>1. /\ rcv[c] = "holding" /\ held[c] # "done" /\ rcv'[c] = "receiving"
        /\ chan'[c] = Append(chan[c], held[c]) /\ UNCHANGED <<wire, status>>
        /\ chan[c] \in Seq(Frame) /\ held[c] \in Frame
    BY <1>2, FlowTypes DEF Forward, TypeOK
  <2> QED  BY <2>1, AppendDone
<1>3. CASE RecvEnds(c)
  BY <1>3 DEF RecvEnds, TypeOK
<1>4. CASE Take(c) /\ UNCHANGED <<wire, rcv, held>>
           /\ (status'[c] = "completed" => status[c] = "completed"
                                             \/ Head(chan[c]) = "done")
  <2>1. chan[c] # <<>> /\ chan[c] \in Seq(Frame) /\ chan'[c] = Tail(chan[c])
    BY <1>4, FlowTypes DEF Take, TypeOK
  <2> QED  BY <1>4, <2>1, TailDone DEF DoneComesLast
<1>5. ASSUME NEW s \in Stream, DrainOutput(c, s)  PROVE FALSE
  BY <1>4, <1>5 DEF DrainOutput
<1>6. CASE DrainDone(c)  BY <1>4, <1>6 DEF DrainDone
<1>7. CASE FramePanics(c)  BY <1>4, <1>7 DEF FramePanics, Recovered
<1>8. CASE DrainEnds(c)  BY <1>8 DEF DrainEnds, TypeOK
<1>9. CASE Save(c) \/ SaveFails(c)  BY <1>9 DEF Save, SaveFails
<1>10. CASE StartStream(c) \/ StartFails(c)
  BY <1>10 DEF StartStream, StartFails, TypeOK
<1>11. ASSUME NEW code, Reply(c, code)  PROVE FALSE  BY <1>11 DEF Reply
<1>12. CASE Crash  BY <1>12 DEF Crash, Has
<1>13. CASE ErroredPanics(c)  BY <1>13 DEF ErroredPanics, TypeOK
<1> QED
  BY <1>1, <1>2, <1>3, <1>5, <1>6, <1>7, <1>8, <1>9, <1>10, <1>11, <1>12, <1>13
     DEF Receiver, Drain, Panics, Create

\* There is a Done frame only since the agent has finished the call.
LEMMA OneDone ==
  ASSUME TypeOK, TypeOK', \A c \in Call : Flow(c) /\ DoneComesLast(c), [Next]_vars,
         NEW d \in Call, ~DoneSeen(d), DoneSeen(d)'
  PROVE  Finish(d)
<1>1. CASE UNCHANGED vars
  BY <1>1, SameSeen DEF vars, Same, stream, adapter, client, record
<1>2. CASE Crash  BY <1>2, OnlyTheAgentIsDone
<1>3. ASSUME NEW c \in Call, c # d,
             \/ AgentStep(c) \/ Receiver(c) \/ Drain(c) \/ Panics(c) \/ Create(c)
      PROVE  FALSE
  BY <1>3, AgentFlow, ReceiverFlow, DrainFlow, CreateFlow, SameSeen
<1>4. CASE Receiver(d) \/ Drain(d) \/ Panics(d) \/ Create(d)
  BY <1>4, OnlyTheAgentIsDone
<1>5. CASE AgentStep(d)
  <2>1. UNCHANGED <<rcv, held, chan, status>>
    BY <1>5 DEF AgentStep, adapter, client, record
  <2>2. Has(wire'[d], "done") /\ ~Has(wire[d], "done")  BY <2>1 DEF DoneSeen
  <2>3. wire'[d] # wire[d]  BY <2>2
  <2>4. ASSUME NEW s \in Stream, Output(d, s)  PROVE FALSE
    <3>1. wire' = [wire EXCEPT ![d] = Append(@, s)]  BY <2>4 DEF Output
    <3>2. wire \in [Call -> Seq(Frame)] /\ s \in Frame /\ s # "done"
      BY DEF TypeOK, Frame, Stream
    <3>3. wire'[d] = Append(wire[d], s)  BY <3>1, <3>2
    <3> QED  BY <2>2, <3>2, <3>3, AppendDone
  <2> QED
    BY <1>5, <2>3, <2>4 DEF AgentStep, ServeCall, Begin, Cut, Enroll, Refuse, GiveUp,
       Return, CloseInput, Produce
<1>6. ASSUME NEW c \in Call,
             \/ Expire(c) \/ CallerLeaves(c) \/ Starter(c) \/ StarterWrites(c)
             \/ StarterRefused(c) \/ WindowEnds(c) \/ User(c) \/ Reader(c)
      PROVE  FALSE
  BY <1>6, QuietSteps, SameSeen
<1> QED  BY <1>1, <1>2, <1>3, <1>4, <1>5, <1>6 DEF Next

-----------------------------------------------------------------------------
(***************************************************************************)
(* The status, the row and the answers.                                    *)
(***************************************************************************)
Settled(c) == StatusLife(c) /\ Agreement(c)

\* A step that has nothing to do with them.
SameState(c) ==
  /\ drain'[c] = drain[c] /\ status'[c] = status[c] /\ gotDone'[c] = gotDone[c]
  /\ row'[c] = row[c] /\ inMemory'[c] = inMemory[c] /\ lost'[c] = lost[c]
  /\ told'[c] = told[c] /\ captured'[c] = captured[c]

LEMMA SameSettled ==
  ASSUME NEW c \in Call, SameState(c), Settled(c)
  PROVE  Settled(c)'
  BY DEF Settled, SameState, StatusLife, Agreement, Current, State

\* Until the record is final neither is its row nor, if it is not lost, an
\* answer, unless the adapter has been restarted.
LEMMA NotSettled ==
  ASSUME TypeOK, NEW c \in Call, Settled(c), status[c] = "running", drain[c] # "dead"
  PROVE  row[c].status \notin Final /\ (lost[c] \/ told[c].status \notin Final)
  BY DEF Settled, StatusLife, Agreement, Current, Final

\* The record becomes final or stays what it is.
LEMMA RecordSettles ==
  ASSUME TypeOK, NEW c \in Call, Settled(c),
         UNCHANGED <<row, inMemory, lost, told>>,
         drain[c] # "dead", drain'[c] # "dead",
         status[c] = "running" \/ (status'[c] = status[c] /\ captured'[c] = captured[c]),
         StatusLife(c)'
  PROVE  Settled(c)'
<1>1. CASE status[c] = "running"
  BY <1>1, NotSettled DEF Settled, Agreement
<1>2. CASE status'[c] = status[c] /\ captured'[c] = captured[c]
  BY <1>2 DEF Settled, Agreement, Current, State
<1> QED  BY <1>1, <1>2

LEMMA CreateSettled ==
  ASSUME TypeOK, NEW c \in Call, Settled(c), Create(c)
  PROVE  Settled(c)' /\ \A d \in Call \ {c} : SameState(d)
<1> USE DEF drained, record, stored
<1>1. CASE StartStream(c)
  <2>1. /\ UNCHANGED <<gotDone, status, captured, row, inMemory, lost, told>>
        /\ drain[c] = "idle" /\ drain'[c] = "draining"
        /\ \A d \in Call \ {c} : drain'[d] = drain[d]
    BY <1>1 DEF StartStream, TypeOK
  <2>2. StatusLife(c)'  BY <2>1 DEF Settled, StatusLife
  <2>3. Settled(c)'  BY <2>1, <2>2, RecordSettles
  <2> QED  BY <2>1, <2>3 DEF SameState
<1>2. CASE StartFails(c)
  <2>1. /\ UNCHANGED <<gotDone, captured, row, inMemory, lost, told>>
        /\ drain[c] = "idle" /\ drain'[c] = "refusing" /\ status'[c] = "errored"
        /\ \A d \in Call \ {c} : drain'[d] = drain[d] /\ status'[d] = status[d]
    BY <1>2 DEF StartFails, TypeOK
  <2>2. status[c] = "running"  BY <2>1 DEF Settled, StatusLife
  <2>3. StatusLife(c)'  BY <2>1 DEF Settled, StatusLife, Final
  <2>4. Settled(c)'  BY <2>1, <2>2, <2>3, RecordSettles
  <2> QED  BY <2>1, <2>4 DEF SameState
<1>3. ASSUME NEW code, Reply(c, code)
      PROVE  Settled(c)' /\ \A d \in Call \ {c} : SameState(d)
  <2>1. /\ UNCHANGED <<drain, gotDone, status, captured, row, inMemory, lost>>
        /\ drain[c] = "ended" /\ told'[c] = State(status[c], captured[c])
        /\ \A d \in Call \ {c} : told'[d] = told[d]
    BY <1>3 DEF Reply, TypeOK
  <2>2. status[c] \in Final  BY <2>1 DEF Settled, StatusLife
  <2>3. Settled(c)'  BY <2>1, <2>2 DEF Settled, StatusLife, Agreement, Current
  <2> QED  BY <2>1, <2>3 DEF SameState
<1> QED  BY <1>1, <1>2, <1>3 DEF Create

LEMMA DrainSettled ==
  ASSUME TypeOK, NEW c \in Call, Flow(c), DoneComesLast(c), Settled(c),
         Drain(c) \/ Panics(c)
  PROVE  Settled(c)' /\ \A d \in Call \ {c} : SameState(d)
<1> USE DEF record, stored
<1>1. ASSUME Take(c), Head(chan[c]) # "done"  PROVE status[c] = "running"
  <2>1. status[c] # "completed"  BY <1>1, NoMoreOutput DEF Take
  <2>2. status[c] # "errored"  BY <1>1 DEF Take, Settled, StatusLife
  <2> QED  BY <2>1, <2>2 DEF TypeOK, Final
<1>2. ASSUME NEW s \in Stream, DrainOutput(c, s)
      PROVE  Settled(c)' /\ \A d \in Call \ {c} : SameState(d)
  <2>1. /\ UNCHANGED <<drain, gotDone, status, row, inMemory, lost, told>>
        /\ Take(c) /\ drain[c] = "draining" /\ Head(chan[c]) # "done"
        /\ captured' = [captured EXCEPT ![c][s] = @ + 1]
    BY <1>2 DEF DrainOutput, drained, Take, Stream
  <2>2. StatusLife(c)'  BY <2>1 DEF Settled, StatusLife
  <2>3. Settled(c)'  BY <1>1, <2>1, <2>2, RecordSettles
  <2> QED  BY <2>1, <2>3, CaptureOne DEF SameState
<1>3. CASE DrainDone(c)
  <2>1. /\ UNCHANGED <<captured, row, inMemory, lost, told>>
        /\ drain[c] = "draining"
        /\ drain' = [drain EXCEPT ![c] = "completing"]
        /\ status' = [status EXCEPT ![c] = "completed"]
        /\ gotDone' = [gotDone EXCEPT ![c] = TRUE]
    BY <1>3 DEF DrainDone, Take
  <2>2. /\ drain'[c] = "completing" /\ status'[c] = "completed" /\ gotDone'[c]
        /\ \A d \in Call \ {c} : /\ drain'[d] = drain[d] /\ status'[d] = status[d]
                                 /\ gotDone'[d] = gotDone[d]
    BY <2>1 DEF TypeOK
  <2>3. status[c] \in {"running", "completed"}
    BY <2>1 DEF Settled, StatusLife, TypeOK, Final
  <2>4. StatusLife(c)'  BY <2>1, <2>2 DEF Settled, StatusLife, Final
  <2>5. Settled(c)'  BY <2>1, <2>2, <2>3, <2>4, RecordSettles
  <2> QED  BY <2>1, <2>2, <2>5 DEF SameState
<1>4. CASE DrainEnds(c)
  <2>1. /\ UNCHANGED <<gotDone, captured, row, inMemory, lost, told>>
        /\ drain[c] = "draining"
        /\ \/ gotDone[c] /\ drain'[c] = "ended" /\ UNCHANGED status
           \/ /\ ~gotDone[c] /\ drain'[c] = "erroring"
              /\ status' = [status EXCEPT ![c] = "errored"]
        /\ \A d \in Call \ {c} : drain'[d] = drain[d]
    BY <1>4 DEF DrainEnds, TypeOK
  <2>2. status[c] \in {"running", "completed"} /\ (status[c] = "completed" => gotDone[c])
    BY <2>1 DEF Settled, StatusLife, TypeOK, Final
  <2>3. \A d \in Call \ {c} : status'[d] = status[d]  BY <2>1 DEF TypeOK
  <2>4. StatusLife(c)'
    <3>1. CASE gotDone[c]
      BY <2>1, <3>1 DEF Settled, StatusLife, Final
    <3>2. CASE ~gotDone[c]
      <4>1. status'[c] = "errored" /\ drain'[c] = "erroring"  BY <2>1, <3>2 DEF TypeOK
      <4> QED  BY <2>1, <3>2, <4>1 DEF Settled, StatusLife, Final
    <3> QED  BY <3>1, <3>2
  <2>5. status[c] = "running" \/ status' = status  BY <2>1, <2>2
  <2>6. drain[c] # "dead" /\ drain'[c] # "dead"  BY <2>1
  <2>7. Settled(c)'  BY <2>1, <2>4, <2>5, <2>6, RecordSettles
  <2> QED  BY <2>1, <2>3, <2>7 DEF SameState
\* An UPDATE of the row, done or failed, and what follows it.
<1>5. ASSUME Save(c) \/ SaveFails(c)
      PROVE  /\ StatusLife(c)' /\ status[c] \in Final
             /\ \A d \in Call \ {c} : drain'[d] = drain[d]
             /\ UNCHANGED <<gotDone, status, captured, inMemory, told>>
  <2>1. UNCHANGED <<gotDone, status, captured, inMemory, told>>
    BY <1>5 DEF Save, SaveFails
  <2>2. \/ drain[c] = "completing" /\ drain'[c] = "draining"
        \/ drain[c] = "erroring" /\ drain'[c] = "ended"
        \/ drain[c] = "refusing" /\ drain'[c] = "failed"
    BY <1>5 DEF Save, SaveFails, Proceed, TypeOK
  <2>3. \A d \in Call \ {c} : drain'[d] = drain[d]
    BY <1>5 DEF Save, SaveFails, Proceed, TypeOK
  <2>4. status[c] \in Final /\ status[c] # "running"
    BY <2>2 DEF Settled, StatusLife, Final
  <2>5. StatusLife(c)'  BY <2>1, <2>2, <2>4 DEF Settled, StatusLife
  <2> QED  BY <2>1, <2>3, <2>4, <2>5
<1>6. CASE Save(c)
  <2>1. /\ UNCHANGED lost /\ row'[c] = State(status[c], captured[c])
        /\ \A d \in Call \ {c} : row'[d] = row[d]
    BY <1>6 DEF Save, TypeOK
  <2>2. Agreement(c)'  BY <1>5, <1>6, <2>1 DEF Settled, Agreement, Current
  <2> QED  BY <1>5, <1>6, <2>1, <2>2 DEF Settled, SameState
<1>7. CASE SaveFails(c)
  <2>1. /\ UNCHANGED row /\ lost'[c] /\ \A d \in Call \ {c} : lost'[d] = lost[d]
    BY <1>7 DEF SaveFails, TypeOK
  <2>2. Agreement(c)'  BY <2>1 DEF Agreement
  <2> QED  BY <1>5, <1>7, <2>1, <2>2 DEF Settled, SameState
<1>8. CASE FramePanics(c)
  <2>1. /\ UNCHANGED <<gotDone, row, inMemory, lost, told>> /\ Take(c)
        /\ drain[c] = "draining" /\ drain'[c] = "panicked"
        /\ \A d \in Call \ {c} : drain'[d] = drain[d]
    BY <1>8 DEF FramePanics, Recovered, Take, TypeOK
  <2>2. Head(chan[c]) \in Frame  BY <2>1, TakeTypes
  <2>3. CASE Head(chan[c]) = "done"
    <3>1. UNCHANGED captured /\ status' = [status EXCEPT ![c] = "completed"]
      BY <1>8, <2>3 DEF FramePanics, Recovered
    <3>2. /\ status'[c] = "completed" /\ \A d \in Call \ {c} : status'[d] = status[d]
          /\ status[c] \in {"running", "completed"}
      BY <2>1, <3>1 DEF TypeOK, Settled, StatusLife, Final
    <3>3. StatusLife(c)'  BY <2>1, <3>2 DEF Settled, StatusLife, Final
    <3>4. Settled(c)'  BY <2>1, <3>1, <3>2, <3>3, RecordSettles
    <3> QED  BY <2>1, <3>1, <3>2, <3>4 DEF SameState
  <2>4. CASE Head(chan[c]) # "done"
    <3>1. /\ UNCHANGED status /\ Head(chan[c]) \in Stream
          /\ captured' = [captured EXCEPT ![c][Head(chan[c])] = @ + 1]
      BY <1>8, <2>2, <2>4 DEF FramePanics, Recovered, Frame
    <3>2. status[c] = "running"  BY <1>1, <2>1, <2>4
    <3>3. StatusLife(c)'  BY <2>1, <3>1, <3>2 DEF Settled, StatusLife, Final
    <3>4. Settled(c)'  BY <2>1, <3>2, <3>3, RecordSettles
    <3> QED  BY <2>1, <3>1, <3>4, CaptureOne DEF SameState
  <2> QED  BY <2>3, <2>4
<1>9. CASE ErroredPanics(c)
  <2>1. /\ UNCHANGED <<gotDone, captured, row, inMemory, lost, told>>
        /\ drain[c] \in {"idle", "draining"} /\ drain'[c] = "panicked"
        /\ ~gotDone[c] \/ drain[c] = "idle"
        /\ status'[c] = "errored"
        /\ \A d \in Call \ {c} : drain'[d] = drain[d] /\ status'[d] = status[d]
    BY <1>9 DEF ErroredPanics, Recovered, TypeOK
  <2>2. status[c] = "running"  BY <2>1 DEF Settled, StatusLife, TypeOK, Final
  <2>3. StatusLife(c)'  BY <2>1, <2>2 DEF Settled, StatusLife, Final
  <2>4. Settled(c)'  BY <2>1, <2>2, <2>3, RecordSettles
  <2> QED  BY <2>1, <2>4 DEF SameState
<1> QED  BY <1>2, <1>3, <1>4, <1>6, <1>7, <1>8, <1>9 DEF Drain, Panics

\* What a poll tells is the current state, if it is final and not lost.
LEMMA ReaderSettled ==
  ASSUME TypeOK, NEW c \in Call, Settled(c), Reader(c)
  PROVE  Settled(c)' /\ \A d \in Call \ {c} : SameState(d)
<1> USE DEF drained, record, stored
<1>1. CASE Poll(c)
  <2> DEFINE now == IF inMemory[c] THEN State(status[c], captured[c]) ELSE row[c]
  <2>1. /\ UNCHANGED <<drain, gotDone, status, captured, row, inMemory, lost>>
        /\ told'[c] = IF now.status \in Final THEN now ELSE told[c]
        /\ \A d \in Call \ {c} : told'[d] = told[d]
    BY <1>1 DEF Poll, Loaded, TypeOK
  <2>2. StatusLife(c)'  BY <2>1 DEF Settled, StatusLife
  <2>3. ~lost[c] /\ now.status \in Final => now = Current(c)
    BY DEF Settled, Agreement, Current, State
  <2>4. Agreement(c)'
    BY <2>1, <2>3 DEF Settled, Agreement, Current
  <2> QED  BY <2>1, <2>2, <2>4 DEF Settled, SameState
<1>2. CASE SseEvent(c)
  BY <1>2, SameSettled DEF SseEvent, SameState
<1>3. CASE Evict(c)
  <2>1. /\ UNCHANGED <<drain, gotDone, status, captured, row, lost, told>>
        /\ ~inMemory'[c] /\ \A d \in Call \ {c} : inMemory'[d] = inMemory[d]
    BY <1>3 DEF Evict, TypeOK
  <2>2. Settled(c)'  BY <2>1 DEF Settled, StatusLife, Agreement, Current
  <2> QED  BY <2>1, <2>2 DEF SameState
<1> QED  BY <1>1, <1>2, <1>3 DEF Reader

\* A crash loses what has not reached the row, and says so.
LEMMA CrashSettled ==
  ASSUME TypeOK, NEW c \in Call, Settled(c), Crash
  PROVE  Settled(c)'
<1>1. /\ status'[c] = "running" /\ drain'[c] = "dead" /\ ~gotDone'[c] /\ ~inMemory'[c]
      /\ told' = told
      /\ lost'[c] <=> lost[c] \/ (status[c] \in Final /\ row[c].status = "running")
      /\ row'[c] = IF row[c].status = "running" THEN State("errored", NoOutput) ELSE row[c]
  BY DEF Crash, TypeOK
<1>2. StatusLife(c)'  BY <1>1 DEF StatusLife, Final
<1>3. Current(c)' = row'[c]  BY <1>1 DEF Current, Final
<1>4. ~lost'[c] /\ told[c].status \in Final => told[c] = row'[c]
  BY <1>1 DEF Settled, Agreement, Current, State, TypeOK, Final
<1> QED  BY <1>1, <1>2, <1>3, <1>4 DEF Settled, Agreement

LEMMA RestSettled ==
  ASSUME NEW c \in Call,
         \/ AgentStep(c) \/ Receiver(c) \/ Expire(c) \/ CallerLeaves(c) \/ Starter(c)
         \/ StarterWrites(c) \/ StarterRefused(c) \/ WindowEnds(c) \/ User(c)
  PROVE  \A d \in Call : SameState(d)
  BY DEF SameState, drained, record, stored, adapter, AgentStep, Receiver, Recv, Forward,
     RecvEnds, Expire, CallerLeaves, Starter, RestOfStarter, StarterFound,
     StarterNotFound, StarterRetries, StarterStops, StarterCloses, StarterWrites,
     StarterRefused, WindowEnds, User, UserEOF, UserWrites

LEMMA SettledStep ==
  ASSUME TypeOK, \A c \in Call : Flow(c) /\ DoneComesLast(c) /\ Settled(c), [Next]_vars
  PROVE  \A c \in Call : Settled(c)'
<1> SUFFICES ASSUME NEW d \in Call PROVE Settled(d)'  OBVIOUS
<1>1. CASE UNCHANGED vars
  BY <1>1, SameSettled DEF vars, SameState, adapter, drained, record, stored
<1>2. CASE Crash  BY <1>2, CrashSettled
<1>3. ASSUME NEW c \in Call, Create(c) \/ Drain(c) \/ Panics(c) \/ Reader(c)
      PROVE  Settled(d)'
  BY <1>3, CreateSettled, DrainSettled, ReaderSettled, SameSettled
<1>4. ASSUME NEW c \in Call,
             \/ AgentStep(c) \/ Receiver(c) \/ Expire(c) \/ CallerLeaves(c) \/ Starter(c)
             \/ StarterWrites(c) \/ StarterRefused(c) \/ WindowEnds(c) \/ User(c)
      PROVE  Settled(d)'
  BY <1>4, RestSettled, SameSettled
<1> QED  BY <1>1, <1>2, <1>3, <1>4 DEF Next

-----------------------------------------------------------------------------
(***************************************************************************)
(* The invariant and the theorems it gives.                                *)
(***************************************************************************)
LEMMA InitInv == ASSUME Init PROVE Inv
<1>1. TypeOK  BY InitTypes
<1>2. ASSUME NEW c \in Call PROVE Flow(c) /\ DoneComesLast(c)
  <2>1. /\ wire[c] = <<>> /\ chan[c] = <<>> /\ rcv[c] = "idle" /\ status[c] = "running"
        /\ \A s \in Stream : wrote[c][s] = 0 /\ sent[c][s] = 0 /\ captured[c][s] = 0
    BY DEF Init, AgentInit, NoOutput
  <2>2. Flow(c)  BY <2>1, CountEmpty DEF Flow, InHand
  <2>3. DoneComesLast(c)  BY <2>1 DEF DoneComesLast, DoneLast, Has
  <2> QED  BY <2>2, <2>3
<1>3. ASSUME NEW c \in Call PROVE StatusLife(c) /\ Agreement(c)
  BY DEF Init, StatusLife, Agreement, State, Final
<1> QED  BY <1>1, <1>2, <1>3 DEF Inv

LEMMA InvStep == ASSUME Inv, [Next]_vars PROVE Inv'
<1>1. TypeOK'  BY TypeStep DEF Inv
<1>2. \A c \in Call : Flow(c)' /\ DoneComesLast(c)'  BY <1>1, FlowStep DEF Inv
<1>3. \A c \in Call : Settled(c)'  BY SettledStep DEF Inv, Settled
<1> QED  BY <1>1, <1>2, <1>3 DEF Inv, Settled

LEMMA Invariance == Spec => []Inv
<1>1. Init => Inv  BY InitInv
<1>2. Inv /\ [Next]_vars => Inv'  BY InvStep
<1> QED  BY <1>1, <1>2, PTL DEF Spec

\* The types of the record, the channel, the row and the goroutines.
THEOREM TypeCorrect == Spec => []TypeOK
<1>1. Inv => TypeOK  BY DEF Inv
<1> QED  BY <1>1, Invariance, PTL

\* An exec is completed only with all the output of its process: nothing is
\* lost, and nothing comes after the Done frame, between the agent's pumps,
\* the transport, the receiver's channel and the drain.
THEOREM CompletedCorrect == Spec => []CompletedHasAll
<1>1. Inv => CompletedHasAll  BY DEF Inv, DoneComesLast, CompletedHasAll
<1> QED  BY <1>1, Invariance, PTL

\* Only an answer tells a caller something.
LEMMA OnlyAnswersTell ==
  ASSUME [Next]_vars, told' # told
  PROVE  \E c \in Call : Poll(c) \/ \E code \in {"ok", "timeout"} : Reply(c, code)
<1>1. ASSUME UNCHANGED vars \/ Crash PROVE told' = told
  BY <1>1 DEF vars, adapter, Crash
<1>2. ASSUME NEW c \in Call,
             \/ AgentStep(c) \/ Receiver(c) \/ Expire(c) \/ CallerLeaves(c) \/ Starter(c)
             \/ StarterWrites(c) \/ StarterRefused(c) \/ WindowEnds(c) \/ User(c)
      PROVE  told' = told
  BY <1>2 DEF adapter, AgentStep, Receiver, Recv, Forward, RecvEnds, Expire,
     CallerLeaves, Starter, RestOfStarter, StarterFound, StarterNotFound,
     StarterRetries, StarterStops, StarterCloses, StarterWrites, StarterRefused,
     WindowEnds, User, UserEOF, UserWrites
<1>3. ASSUME NEW c \in Call,
             \/ StartStream(c) \/ StartFails(c) \/ Drain(c) \/ Panics(c)
             \/ SseEvent(c) \/ Evict(c)
      PROVE  told' = told
  BY <1>3 DEF StartStream, StartFails, Drain, DrainOutput, DrainDone, DrainEnds,
     Save, SaveFails, Panics, FramePanics, ErroredPanics, SseEvent, Evict
<1> QED  BY <1>1, <1>2, <1>3 DEF Next, Create, Reader

\* An answer reads the state, and what it tells is final.
LEMMA AnswerReads ==
  ASSUME TypeOK, NEW c \in Call, StatusLife(c),
         Poll(c) \/ \E code \in {"ok", "timeout"} : Reply(c, code)
  PROVE  /\ UNCHANGED <<status, captured, row, lost>>
         /\ \A d \in Call : told'[d] = told[d] \/ told'[d].status \in Final
<1> USE DEF record, stored
<1>1. CASE Poll(c)
  <2> DEFINE now == IF inMemory[c] THEN State(status[c], captured[c]) ELSE row[c]
  <2>1. /\ UNCHANGED <<status, captured, row, lost>>
        /\ told'[c] = IF now.status \in Final THEN now ELSE told[c]
        /\ \A d \in Call \ {c} : told'[d] = told[d]
    BY <1>1 DEF Poll, Loaded, TypeOK
  <2> QED  BY <2>1
<1>2. ASSUME NEW code, Reply(c, code)
      PROVE  /\ UNCHANGED <<status, captured, row, lost>>
             /\ \A d \in Call : told'[d] = told[d] \/ told'[d].status \in Final
  <2>1. /\ UNCHANGED <<status, captured, row, lost>> /\ drain[c] = "ended"
        /\ told'[c] = State(status[c], captured[c])
        /\ \A d \in Call \ {c} : told'[d] = told[d]
    BY <1>2 DEF Reply, TypeOK
  <2>2. told'[c].status \in Final  BY <2>1 DEF StatusLife, State
  <2> QED  BY <2>1, <2>2
<1> QED  BY <1>1, <1>2

\* Whoever has been told the outcome of an exec is told the same ever after,
\* by the record, its row and the record rebuilt from it, unless the outcome
\* did not reach the row.
THEOREM AnswersCorrect == Spec => AnswersAgree
<1>1. ASSUME Inv, Inv', [Next]_vars, told' # told,
             NEW c \in Call, told[c].status \in Final, ~lost[c]
      PROVE  told'[c] = told[c]
  <2>1. PICK d \in Call : Poll(d) \/ \E code \in {"ok", "timeout"} : Reply(d, code)
    BY <1>1, OnlyAnswersTell
  <2>2. /\ UNCHANGED <<status, captured, row, lost>>
        /\ told'[c] = told[c] \/ told'[c].status \in Final
    BY <1>1, <2>1, AnswerReads DEF Inv
  <2>3. told[c] = Current(c)  BY <1>1 DEF Inv, Agreement
  <2>4. Current(c)' = Current(c)  BY <2>2 DEF Current
  <2>5. told'[c].status \in Final => told'[c] = Current(c)'
    BY <1>1, <2>2 DEF Inv, Agreement
  <2> QED  BY <2>2, <2>3, <2>4, <2>5
<1>2. Inv /\ Inv' /\ [Next]_vars =>
        [\A c \in Call : told[c].status \in Final => told'[c] = told[c] \/ lost[c]]_told
  BY <1>1
<1> QED  BY <1>2, Invariance, PTL DEF Spec, AnswersAgree
=============================================================================
