--------------------------- MODULE ExecRecordProofs ---------------------------
(***************************************************************************)
(* Proofs about ExecRecord.  The properties of the streams are not         *)
(* inductive: that a client receives chunks in order rests on what waits   *)
(* in its channel, which rests on the fan-out under way and on which       *)
(* channels are registered.  Inv is the strengthening that carries them.   *)
(***************************************************************************)
EXTENDS ExecRecord, SequenceTheorems, TLAPS

-----------------------------------------------------------------------------
(***************************************************************************)
(* The inductive invariant, in named parts.                                *)
(***************************************************************************)

\* The record runs until the producer's first call of finish.
RunningUntilFinish == producer = "draining" /\ ~gotDone => status = "running"

\* Only channels a client has opened are registered, written to or closed.
Opened == {c \in Chan : c[2] <= attempt[c[1]]}
OnlyOpened == subscribers \subseteq Opened /\ targets \subseteq Opened
                /\ closed \subseteq Opened

\* The channel of a stream is registered until its handler leaves, unless
\* Subscribe found the record finished and closed it.
StreamRegistered ==
  \A k \in Client : conn[k] = "streaming" =>
    /\ Current(k) \notin closed => Current(k) \in subscribers
    /\ Current(k) \in closed => status # "running"

\* What waits in a channel is in order, and older than the chunk that is
\* being sent to it, which is the newest of all.
ChannelOrdered ==
  /\ \A c \in Chan : \A i \in 1..Len(buf[c]) : buf[c][i].seq < nextSeq
  /\ \A c \in Chan : \A i, j \in 1..Len(buf[c]) :
       i < j => buf[c][i].seq < buf[c][j].seq
FanOutNewest ==
  \A c \in targets :
    /\ sending.seq = nextSeq - 1
    /\ \A i \in 1..Len(buf[c]) : buf[c][i].seq < sending.seq

\* What a client received precedes what waits in its stream's channel and
\* the chunk under way to it.
SeenBeforeBuffered ==
  \A k \in Client :
    /\ FromSeq(k) <= nextSeq
    /\ conn[k] = "streaming" =>
         /\ \A i \in 1..Len(buf[Current(k)]) : FromSeq(k) <= buf[Current(k)][i].seq
         /\ Current(k) \in targets => FromSeq(k) <= sending.seq

\* Every chunk a stream has still to deliver waits in its channel, is under
\* way to it, or was skipped.
Pending(k, s) ==
  \/ \E i \in 1..Len(buf[Current(k)]) : buf[Current(k)][i].seq = s
  \/ Current(k) \in targets /\ sending.seq = s
  \/ s \in dropped[k]
NothingLost ==
  \A k \in Client : conn[k] = "streaming" =>
    \A s \in FromSeq(k)..(nextSeq - 1) : Pending(k, s)

Inv == /\ TypeOK /\ SeqIsPosition /\ RunningUntilFinish /\ OnlyOpened
       /\ StreamRegistered /\ ChannelOrdered /\ FanOutNewest
       /\ SeenBeforeBuffered /\ OrderedDelivery /\ NothingLost /\ GapsAreDrops
-----------------------------------------------------------------------------
(***************************************************************************)
(* Type correctness.                                                       *)
(***************************************************************************)

\* Whatever limit the caller sends, the record's is positive and no larger
\* than the hard cap.
LEMMA ClampedLimit ==
  ASSUME NEW n \in Requested
  PROVE  ClampCap(RequestCap(n)) \in 1..HardCap
BY ConstantsOK DEF ClampCap, RequestCap

\* The chunks Subscribe puts in a channel: a prefix of the replay.
LEMMA ReplayType ==
  ASSUME TypeOK, NEW from \in Nat
  PROVE  /\ Replay(from) \in Seq(Chunk)
         /\ Len(Replay(from)) = IF from <= Len(chunks) THEN Len(chunks) - from ELSE 0
         /\ \A i \in 1..Len(Replay(from)) : Replay(from)[i] = chunks[from + i]
<1> USE DEF TypeOK, Replay
<1>1. /\ from + 1 \in Int /\ Len(chunks) \in Nat
      /\ \A i \in (from + 1)..Len(chunks) : chunks[i] \in Chunk
  OBVIOUS
<1>2. /\ Replay(from) \in Seq(Chunk)
      /\ Len(Replay(from)) = IF from + 1 <= Len(chunks)
                             THEN Len(chunks) - (from + 1) + 1 ELSE 0
      /\ \A i \in 1..(Len(chunks) - (from + 1) + 1) :
           Replay(from)[i] = chunks[from + 1 + i - 1]
  BY <1>1, SubSeqProperties
<1> HIDE DEF TypeOK, Replay
<1>3. CASE from + 1 <= Len(chunks)
  <2>1. Len(Replay(from)) = Len(chunks) - from
    BY <1>1, <1>2, <1>3
  <2>2. \A i \in 1..Len(Replay(from)) : from + 1 + i - 1 = from + i
    BY <1>1, <2>1
  <2>3. QED  BY <1>1, <1>2, <1>3, <2>1, <2>2
<1>4. CASE ~(from + 1 <= Len(chunks))
  <2>1. Len(Replay(from)) = 0
    BY <1>2, <1>4
  <2>2. QED  BY <1>1, <1>2, <1>4, <2>1
<1>5. QED  BY <1>3, <1>4

\* The resume point of a client is a sequence number.
LEMMA FromSeqType ==
  ASSUME TypeOK, NEW k \in Client
  PROVE  FromSeq(k) \in Nat
BY DEF TypeOK, FromSeq

\* A handler at work serves a channel its client opened.
LEMMA CurrentType ==
  ASSUME TypeOK, NEW k \in Client, conn[k] # "idle"
  PROVE  Current(k) \in Chan
<1>1. attempt[k] \in 1..MaxConn
  BY ConstantsOK DEF TypeOK
<1>2. QED  BY <1>1 DEF Current, Chan

LEMMA TypeInit == Init => TypeOK
<1> SUFFICES ASSUME Init PROVE TypeOK
  OBVIOUS
<1> USE DEF Init, TypeOK, Chunk, NoChunk, PollOrder
<1>1. maxOutputBytes \in 1..HardCap
  BY ClampedLimit
<1>2. chunks \in Seq(Chunk) /\ nextSeq \in Nat /\ outputBytes \in Nat
      /\ sending \in Chunk /\ offered \in Nat
  OBVIOUS
<1>3. buf \in [Chan -> Seq(Chunk)] /\ \A c \in Chan : Len(buf[c]) <= ChanCap
  BY ConstantsOK
<1>4. attempt \in [Client -> 0..MaxConn]
  BY ConstantsOK
<1>5. poll \in [Poller -> [step : 1..(Len(PollOrder) + 1),
                         status : {"running", "completed", "errored"},
                         truncated : BOOLEAN, upto : Nat]]
  OBVIOUS
<1>6. seen \in [Client -> Seq(Nat)]
  OBVIOUS
<1> HIDE DEF PollOrder, Chunk, NoChunk
<1>7. QED  BY <1>1, <1>2, <1>3, <1>4, <1>5, <1>6

\* A chunk that Publish or a send appends keeps a history a history, and a
\* chunk taken leaves one.
LEMMA ChunkSequences ==
  ASSUME NEW q \in Seq(Chunk)
  PROVE  /\ Len(q) \in Nat
         /\ \A x \in Chunk : Append(q, x) \in Seq(Chunk)
                               /\ Len(Append(q, x)) = Len(q) + 1
         /\ q # <<>> => /\ Tail(q) \in Seq(Chunk) /\ Len(Tail(q)) = Len(q) - 1
                        /\ Head(q) \in Chunk /\ Head(q) = q[1]
BY AppendProperties, HeadTailProperties, LenProperties

LEMMA PublishType ==
  ASSUME TypeOK, NEW kind \in {"output", "done"}, Publish(kind)
  PROVE  /\ chunks' \in Seq(Chunk) /\ nextSeq' \in Nat
         /\ sending' \in Chunk /\ targets' \subseteq Chan
<1>1. [seq |-> nextSeq, kind |-> kind] \in Chunk
  BY DEF TypeOK, Chunk
<1>2. chunks' \in Seq(Chunk)
  BY <1>1, ChunkSequences DEF TypeOK, Publish
<1>3. QED  BY <1>1, <1>2 DEF TypeOK, Publish

LEMMA FinishType ==
  ASSUME TypeOK, NEW final \in {"completed", "errored"}, Finish(final)
  PROVE  /\ status' \in {"running", "completed", "errored"}
         /\ chunks' \in Seq(Chunk) /\ nextSeq' \in Nat
         /\ sending' \in Chunk /\ targets' \subseteq Chan
<1>1. CASE status # "running"
  BY <1>1 DEF TypeOK, Finish, fanout
<1>2. CASE status = "running"
  <2>1. status' = final /\ Publish("done")
    BY <1>2 DEF Finish
  <2>2. QED  BY <2>1, PublishType
<1>3. QED  BY <1>1, <1>2

LEMMA TypeStep == TypeOK /\ [Next]_vars => TypeOK'
<1> SUFFICES ASSUME TypeOK, [Next]_vars PROVE TypeOK'
  OBVIOUS
<1> USE ConstantsOK DEF TypeOK, record, fanout, channels, clients
<1>1. ASSUME NEW n \in FrameSizes, AppendChunk(n) PROVE TypeOK'
  <2>1. /\ chunks' \in Seq(Chunk) /\ nextSeq' \in Nat
        /\ sending' \in Chunk /\ targets' \subseteq Chan
    BY <1>1, PublishType DEF AppendChunk
  <2>2. outputBytes' \in Nat /\ offered' \in Nat /\ truncated' \in BOOLEAN
    BY <1>1 DEF AppendChunk, Remaining, MinOf
  <2>3. QED  BY <1>1, <2>1, <2>2 DEF AppendChunk
<1>2. ASSUME NEW n \in FrameSizes, AppendPastCap(n) PROVE TypeOK'
  BY <1>2 DEF AppendPastCap
<1>3. ASSUME DoneFrame PROVE TypeOK'
  <2>1. Finish("completed")
    BY <1>3 DEF DoneFrame
  <2>2. QED  BY <1>3, <2>1, FinishType DEF DoneFrame
<1>4. ASSUME StreamClosed PROVE TypeOK'
  <2>1. CASE gotDone
    BY <1>4, <2>1 DEF StreamClosed
  <2>2. CASE ~gotDone
    <3>1. Finish("errored")
      BY <1>4, <2>2 DEF StreamClosed
    <3>2. QED  BY <1>4, <3>1, FinishType DEF StreamClosed
  <2>3. QED  BY <2>1, <2>2
<1>5. ASSUME NEW c \in Chan, SendChunk(c) PROVE TypeOK'
  <2>1. Append(buf[c], sending) \in Seq(Chunk)
          /\ Len(Append(buf[c], sending)) <= ChanCap
    BY <1>5, ChunkSequences DEF SendChunk
  <2>2. buf' \in [Chan -> Seq(Chunk)] /\ \A d \in Chan : Len(buf'[d]) <= ChanCap
    BY <1>5, <2>1 DEF SendChunk
  <2>3. QED  BY <1>5, <2>2 DEF SendChunk
<1>6. ASSUME NEW c \in Chan, SkipChunk(c) PROVE TypeOK'
  <2>1. dropped' \in [Client -> SUBSET Nat]
    BY <1>6 DEF SkipChunk, Chan, Chunk
  <2>2. QED  BY <1>6, <2>1 DEF SkipChunk
<1>7. ASSUME NEW c \in Chan, SendOnClosed(c) PROVE TypeOK'
  BY <1>7 DEF SendOnClosed
<1>8. ASSUME NEW k \in Client, Subscribe(k) PROVE TypeOK'
  <2> DEFINE c == <<k, attempt[k] + 1>>
             replay == Replay(FromSeq(k))
             fits == MinOf(Len(replay), ChanCap)
  <2>1. /\ c \in Chan /\ attempt' \in [Client -> 0..MaxConn]
        /\ \A j \in Client : conn'[j] # "idle" => attempt'[j] > 0
    BY <1>8 DEF Subscribe, Chan
  <2>2. /\ replay \in Seq(Chunk) /\ Len(replay) \in Nat
        /\ fits \in 0..Len(replay) /\ fits <= ChanCap
    BY FromSeqType, ReplayType, LenProperties DEF MinOf
  <2>3. SubSeq(replay, 1, fits) \in Seq(Chunk)
          /\ Len(SubSeq(replay, 1, fits)) = fits
    BY <2>2, SubSeqProperties, ElementOfSeq
  <2>4. buf' \in [Chan -> Seq(Chunk)] /\ \A d \in Chan : Len(buf'[d]) <= ChanCap
    <3>1. buf' = [buf EXCEPT ![c] = SubSeq(replay, 1, fits)]
      BY <1>8 DEF Subscribe
    <3> HIDE DEF c, replay, fits
    <3>2. QED  BY <2>1, <2>2, <2>3, <3>1
  <2>5. {replay[i].seq : i \in (fits + 1)..Len(replay)} \in SUBSET Nat
    <3>1. \A i \in (fits + 1)..Len(replay) : replay[i] \in Chunk
      BY <2>2, ElementOfSeq
    <3> HIDE DEF replay, fits
    <3>2. QED  BY <3>1 DEF Chunk
  <2>6. dropped' \in [Client -> SUBSET Nat]
    <3>1. dropped' = [dropped EXCEPT ![k] =
                        @ \cup {replay[i].seq : i \in (fits + 1)..Len(replay)}]
      BY <1>8 DEF Subscribe
    <3> HIDE DEF replay, fits
    <3>2. QED  BY <2>5, <3>1
  <2>7. subscribers' \subseteq Chan /\ closed' \subseteq Chan
    BY <1>8, <2>1 DEF Subscribe
  <2>8. QED  BY <1>8, <2>1, <2>4, <2>6, <2>7 DEF Subscribe
<1>9. ASSUME NEW k \in Client, Receive(k) \/ WriteFails(k) PROVE TypeOK'
  <2> DEFINE c == Current(k)
  <2>1. buf[c] # <<>> /\ buf' = [buf EXCEPT ![c] = Tail(@)]
    BY <1>9 DEF Receive, WriteFails
  <2>2. buf' \in [Chan -> Seq(Chunk)] /\ \A d \in Chan : Len(buf'[d]) <= ChanCap
    <3>1. CASE c \in Chan
      BY <2>1, <3>1, ChunkSequences
    <3>2. CASE c \notin Chan
      BY <2>1, <3>2
    <3>3. QED  BY <3>1, <3>2
  <2>3. seen' \in [Client -> Seq(Nat)]
    <3>1. CASE WriteFails(k)
      BY <3>1 DEF WriteFails
    <3>2. CASE Receive(k)
      <4>1. c \in Chan
        BY <3>2, CurrentType DEF Receive
      <4>2. Head(buf[c]).seq \in Nat
        BY <4>1, <2>1, ChunkSequences DEF Chunk
      <4>3. Append(seen[k], Head(buf[c]).seq) \in Seq(Nat)
        BY <4>2, AppendProperties
      <4>4. QED  BY <3>2, <4>3 DEF Receive
    <3>3. QED  BY <1>9, <3>1, <3>2
  <2>4. conn' \in [Client -> {"idle", "streaming", "leaving"}]
    BY <1>9 DEF Receive, WriteFails
  <2>5. QED  BY <1>9, <2>2, <2>3, <2>4 DEF Receive, WriteFails
<1>10. ASSUME NEW k \in Client, ChannelClosed(k) \/ Disconnect(k) PROVE TypeOK'
  BY <1>10 DEF ChannelClosed, Disconnect
<1>11. ASSUME NEW k \in Client, Cancel(k) PROVE TypeOK'
  BY <1>11 DEF Cancel
<1>12. ASSUME NEW p \in Poller, PollCall(p) PROVE TypeOK'
  <2>1. Len(PollOrder) = 2 /\ DOMAIN PollOrder = 1..2 /\ Len(chunks) \in Nat
    BY LenProperties DEF PollOrder
  <2> DEFINE Polls == [step : 1..3, status : {"running", "completed", "errored"},
                       truncated : BOOLEAN, upto : Nat]
  <2> DEFINE req == poll[p]
             after == IF PollOrder[req.step] = "snapshot"
                      THEN [req EXCEPT !.step = req.step + 1, !.status = status,
                                       !.truncated = truncated]
                      ELSE [req EXCEPT !.step = req.step + 1, !.upto = Len(chunks)]
  <2>2. poll' = [poll EXCEPT ![p] = after]
    BY <1>12 DEF PollCall
  <2>3. req \in Polls /\ req.step \in 1..2
    BY <1>12, <2>1 DEF PollCall
  <2>4. after \in Polls
    <3> HIDE DEF req
    <3>1. /\ req.step + 1 \in 1..3 /\ Len(chunks) \in Nat
          /\ truncated \in BOOLEAN
          /\ status \in {"running", "completed", "errored"}
      BY <2>1, <2>3
    <3>2. CASE PollOrder[req.step] = "snapshot"
      BY <2>3, <3>1, <3>2
    <3>3. CASE PollOrder[req.step] # "snapshot"
      BY <2>3, <3>1, <3>3
    <3>4. QED  BY <3>2, <3>3
  <2>5. poll' \in [Poller -> Polls]
    <3> HIDE DEF after
    <3>1. QED  BY <2>1, <2>2, <2>4
  <2>6. QED  BY <1>12, <2>1, <2>5 DEF PollCall
<1>13. ASSUME UNCHANGED vars PROVE TypeOK'
  BY <1>13 DEF vars
<1>14. QED
  BY <1>1, <1>2, <1>3, <1>4, <1>5, <1>6, <1>7, <1>8, <1>9, <1>10, <1>11, <1>12,
     <1>13 DEF Next, Produce, FanOut, Serve

\* The record, its channels and the goroutines stay well typed: in
\* particular a limit is always positive and at most the hard cap, and no
\* channel ever holds more chunks than its capacity.
THEOREM TypeCorrect == Spec => []TypeOK
<1>1. QED  BY TypeInit, TypeStep, PTL DEF Spec
-----------------------------------------------------------------------------
(***************************************************************************)
(* The steps of Next as the streams see them: a chunk is published, one    *)
(* receiver is served, one handler moves, or nothing of theirs changes.    *)
(***************************************************************************)
PublishStep ==
  /\ \E kind \in {"output", "done"} : Publish(kind)
  /\ status = "running" /\ targets = {}
  /\ UNCHANGED <<channels, clients, dropped>>
QuietStep ==
  UNCHANGED <<status, chunks, nextSeq, fanout, channels, clients, dropped>>
LeaveStep(k) ==
  /\ conn[k] = "streaming" /\ conn' = [conn EXCEPT ![k] = "leaving"]
  /\ UNCHANGED <<status, chunks, nextSeq, fanout, channels, attempt, seen, dropped>>
StreamStep ==
  \/ PublishStep \/ QuietStep
  \/ \E c \in Chan : SendChunk(c) \/ SkipChunk(c)
  \/ \E k \in Client : Subscribe(k) \/ Receive(k) \/ WriteFails(k)
                         \/ LeaveStep(k) \/ Cancel(k)

\* A finish that is not a repetition publishes the terminal chunk.
LEMMA StepCases == RunningUntilFinish /\ [Next]_vars => StreamStep
<1> SUFFICES ASSUME RunningUntilFinish, [Next]_vars PROVE StreamStep
  OBVIOUS
<1> USE DEF StreamStep, record, fanout, channels, clients
<1>1. ASSUME NEW n \in FrameSizes, AppendChunk(n) PROVE PublishStep
  BY <1>1 DEF AppendChunk, ReadyForFrame, PublishStep, RunningUntilFinish
<1>2. ASSUME NEW n \in FrameSizes, AppendPastCap(n) PROVE QuietStep
  BY <1>2 DEF AppendPastCap, QuietStep
<1>3. ASSUME DoneFrame PROVE PublishStep
  BY <1>3 DEF DoneFrame, ReadyForFrame, Finish, PublishStep, RunningUntilFinish
<1>4. ASSUME StreamClosed PROVE PublishStep \/ QuietStep
  <2>1. CASE gotDone
    BY <1>4, <2>1 DEF StreamClosed, QuietStep
  <2>2. CASE ~gotDone
    BY <1>4, <2>2
       DEF StreamClosed, ReadyForFrame, Finish, PublishStep, RunningUntilFinish
  <2>3. QED  BY <2>1, <2>2
<1>5. ASSUME NEW c \in Chan, SendOnClosed(c) PROVE QuietStep
  BY <1>5 DEF SendOnClosed, QuietStep
<1>6. ASSUME NEW k \in Client, ChannelClosed(k) \/ Disconnect(k) PROVE LeaveStep(k)
  BY <1>6 DEF ChannelClosed, Disconnect, LeaveStep
<1>7. ASSUME NEW p \in Poller, PollCall(p) PROVE QuietStep
  BY <1>7 DEF PollCall, QuietStep
<1>8. ASSUME UNCHANGED vars PROVE QuietStep
  BY <1>8 DEF vars, QuietStep
<1>9. QED
  BY <1>1, <1>2, <1>3, <1>4, <1>5, <1>6, <1>7, <1>8 DEF Next, Produce, FanOut, Serve

-----------------------------------------------------------------------------
(***************************************************************************)
(* Each part of Inv is preserved.                                          *)
(***************************************************************************)
LEMMA RunningStep == RunningUntilFinish /\ [Next]_vars => RunningUntilFinish'
<1> SUFFICES ASSUME RunningUntilFinish, [Next]_vars PROVE RunningUntilFinish'
  OBVIOUS
<1> USE DEF RunningUntilFinish, record, fanout, channels, clients
<1>1. CASE Produce
  BY <1>1 DEF Produce, AppendChunk, AppendPastCap, DoneFrame, StreamClosed, Finish
<1>2. CASE FanOut
  BY <1>2 DEF FanOut, SendChunk, SkipChunk, SendOnClosed
<1>3. ASSUME NEW k \in Client, Serve(k) PROVE RunningUntilFinish'
  BY <1>3 DEF Serve, Subscribe, Receive, WriteFails, ChannelClosed, Disconnect,
              Cancel
<1>4. ASSUME NEW p \in Poller, PollCall(p) PROVE RunningUntilFinish'
  BY <1>4 DEF PollCall
<1>5. CASE UNCHANGED vars
  BY <1>5 DEF vars
<1>6. QED  BY <1>1, <1>2, <1>3, <1>4, <1>5 DEF Next

\* What Publish does to the history, element by element.
LEMMA PublishEffect ==
  ASSUME TypeOK, SeqIsPosition, PublishStep
  PROVE  /\ nextSeq \in Nat /\ nextSeq' = nextSeq + 1
         /\ Len(chunks') = Len(chunks) + 1 /\ sending'.seq = nextSeq
         /\ \A i \in 1..Len(chunks) : chunks'[i] = chunks[i]
         /\ chunks'[Len(chunks) + 1] = sending'
         /\ targets' = subscribers
         /\ UNCHANGED <<buf, closed, subscribers, conn, attempt, seen, dropped>>
<1>1. PICK kind \in {"output", "done"} : Publish(kind)
  BY DEF PublishStep
<1>2. [seq |-> nextSeq, kind |-> kind] \in Chunk
  BY DEF TypeOK, Chunk
<1>3. QED
  BY <1>1, <1>2, AppendProperties
     DEF TypeOK, Publish, PublishStep, channels, clients

LEMMA PositionStep ==
  TypeOK /\ SeqIsPosition /\ StreamStep => SeqIsPosition'
<1> SUFFICES ASSUME TypeOK, SeqIsPosition, StreamStep PROVE SeqIsPosition'
  OBVIOUS
<1>1. CASE PublishStep
  <2>1. Len(chunks) \in Nat
    BY LenProperties DEF TypeOK
  <2>2. QED  BY <1>1, <2>1, PublishEffect DEF SeqIsPosition
<1>2. CASE UNCHANGED <<chunks, nextSeq>>
  BY <1>2 DEF SeqIsPosition
<1>3. QED
  BY <1>1, <1>2 DEF StreamStep, QuietStep, SendChunk, SkipChunk, Subscribe, Receive,
                    WriteFails, LeaveStep, Cancel, record

LEMMA OpenedStep ==
  TypeOK /\ OnlyOpened /\ StreamStep => OnlyOpened'
<1> SUFFICES ASSUME TypeOK, OnlyOpened, StreamStep PROVE OnlyOpened'
  OBVIOUS
<1> USE DEF OnlyOpened, record, fanout, channels, clients
<1>1. ASSUME UNCHANGED attempt, NEW S, S \subseteq Opened PROVE S \subseteq Opened'
  BY <1>1 DEF Opened
<1>2. CASE PublishStep
  BY <1>1, <1>2 DEF PublishStep, Publish
<1>3. CASE QuietStep
  BY <1>1, <1>3 DEF QuietStep
<1>4. ASSUME NEW c \in Chan, SendChunk(c) \/ SkipChunk(c) PROVE OnlyOpened'
  BY <1>1, <1>4 DEF SendChunk, SkipChunk
<1>5. ASSUME NEW k \in Client, Receive(k) \/ WriteFails(k) \/ LeaveStep(k)
      PROVE  OnlyOpened'
  BY <1>1, <1>5 DEF Receive, WriteFails, LeaveStep
<1>6. ASSUME NEW k \in Client, Cancel(k) PROVE OnlyOpened'
  <2>1. subscribers' \subseteq subscribers /\ closed' \subseteq closed \cup subscribers
    BY <1>6 DEF Cancel
  <2>2. QED  BY <1>1, <1>6, <2>1 DEF Cancel
<1>7. ASSUME NEW k \in Client, Subscribe(k) PROVE OnlyOpened'
  <2> DEFINE c == <<k, attempt[k] + 1>>
  <2>1. /\ attempt' = [attempt EXCEPT ![k] = @ + 1] /\ attempt[k] < MaxConn
        /\ UNCHANGED targets
        /\ subscribers' \subseteq subscribers \cup {c}
        /\ closed' \subseteq closed \cup {c}
    BY <1>7 DEF Subscribe
  <2>2. Opened \subseteq Opened'
    BY <2>1, ConstantsOK DEF Opened, Chan, TypeOK
  <2>3. c \in Opened'
    BY <2>1, ConstantsOK DEF Opened, Chan, TypeOK
  <2>4. QED  BY <2>1, <2>2, <2>3
<1>8. QED  BY <1>2, <1>3, <1>4, <1>5, <1>6, <1>7 DEF StreamStep

\* The channel Subscribe makes.
Fresh(k) == <<k, attempt[k] + 1>>

\* Two clients never share a channel, nor a new connection one with an old.
LEMMA FreshChannel ==
  ASSUME TypeOK, OnlyOpened, NEW k \in Client
  PROVE  /\ Fresh(k) \notin subscribers \cup targets \cup closed
         /\ \A j \in Client : Current(j) # Fresh(k)
BY DEF TypeOK, OnlyOpened, Opened, Current, Fresh

LEMMA RegisteredStep ==
  TypeOK /\ OnlyOpened /\ StreamRegistered /\ StreamStep => StreamRegistered'
<1> SUFFICES ASSUME TypeOK, OnlyOpened, StreamRegistered, StreamStep,
                    NEW j \in Client, conn'[j] = "streaming"
             PROVE  /\ Current(j)' \notin closed' => Current(j)' \in subscribers'
                    /\ Current(j)' \in closed' => status' # "running"
  BY DEF StreamRegistered
<1> USE DEF StreamRegistered, record, fanout, channels, clients
<1>1. CASE PublishStep
  <2>1. Current(j) \notin closed /\ Current(j) \in subscribers
    BY <1>1 DEF PublishStep
  <2>2. QED  BY <1>1, <2>1 DEF PublishStep, Current
<1>2. CASE QuietStep
  BY <1>2 DEF QuietStep, Current
<1>3. ASSUME NEW c \in Chan, SendChunk(c) \/ SkipChunk(c)
      PROVE  UNCHANGED <<status, closed, subscribers, conn, attempt>>
  BY <1>3 DEF SendChunk, SkipChunk
<1>4. ASSUME NEW k \in Client, Receive(k) \/ WriteFails(k) \/ LeaveStep(k)
      PROVE  UNCHANGED <<status, closed, subscribers, attempt>> /\ conn[j] = "streaming"
  BY <1>4 DEF Receive, WriteFails, LeaveStep, TypeOK
<1>5. CASE UNCHANGED <<status, closed, subscribers, attempt>> /\ conn[j] = "streaming"
  BY <1>5 DEF Current
<1>6. ASSUME NEW k \in Client, Cancel(k)
      PROVE  /\ Current(j)' \notin closed' => Current(j)' \in subscribers'
             /\ Current(j)' \in closed' => status' # "running"
  <2>1. j # k /\ conn[j] = "streaming" /\ UNCHANGED <<attempt, status>>
    BY <1>6 DEF Cancel, TypeOK
  <2>2. Current(j) # Current(k)
    BY <2>1 DEF Current
  <2>3. Current(j)' = Current(j)
    BY <2>1 DEF Current
  <2>4. (Current(j) \in closed' <=> Current(j) \in closed)
          /\ (Current(j) \in subscribers => Current(j) \in subscribers')
    BY <1>6, <2>2 DEF Cancel
  <2>5. QED  BY <2>1, <2>3, <2>4
<1>7. ASSUME NEW k \in Client, Subscribe(k)
      PROVE  /\ Current(j)' \notin closed' => Current(j)' \in subscribers'
             /\ Current(j)' \in closed' => status' # "running"
  <2> DEFINE c == Fresh(k)
  <2>1. /\ attempt' = [attempt EXCEPT ![k] = @ + 1] /\ UNCHANGED status
        /\ conn' = [conn EXCEPT ![k] = "streaming"]
        /\ IF status = "running"
           THEN subscribers' = subscribers \cup {c} /\ closed' = closed
           ELSE closed' = closed \cup {c} /\ subscribers' = subscribers
    BY <1>7 DEF Subscribe, Fresh
  <2>2. c \notin closed
    BY FreshChannel
  <2>3. CASE j = k
    <3>1. Current(j)' = c
      BY <2>1, <2>3 DEF Current, TypeOK, Fresh
    <3>2. QED  BY <2>1, <2>2, <3>1
  <2>4. CASE j # k
    <3>1. Current(j)' = Current(j) /\ Current(j) # c /\ conn[j] = "streaming"
      BY <2>1, <2>4, FreshChannel DEF Current, TypeOK
    <3>2. QED  BY <2>1, <3>1
  <2>5. QED  BY <2>3, <2>4
<1>8. QED  BY <1>1, <1>2, <1>3, <1>4, <1>5, <1>6, <1>7 DEF StreamStep
-----------------------------------------------------------------------------
(***************************************************************************)
(* What the other steps do to the channels, element by element.            *)
(***************************************************************************)
LEMMA SendEffect ==
  ASSUME TypeOK, NEW c \in Chan, SendChunk(c)
  PROVE  /\ c \in targets /\ targets' = targets \ {c}
         /\ Len(buf[c]) \in Nat /\ Len(buf'[c]) = Len(buf[c]) + 1
         /\ \A i \in 1..Len(buf[c]) : buf'[c][i] = buf[c][i]
         /\ buf'[c][Len(buf[c]) + 1] = sending
         /\ \A d \in Chan : d # c => buf'[d] = buf[d]
         /\ UNCHANGED <<status, chunks, nextSeq, sending, closed, subscribers, conn,
                        attempt, seen, dropped>>
<1>1. buf' = [buf EXCEPT ![c] = Append(@, sending)]
  BY DEF SendChunk
<1>2. buf[c] \in Seq(Chunk) /\ sending \in Chunk /\ buf \in [Chan -> Seq(Chunk)]
  BY DEF TypeOK
<1>3. QED
  BY <1>1, <1>2, AppendProperties, LenProperties DEF SendChunk, record, clients

LEMMA TakeEffect ==
  ASSUME TypeOK, NEW k \in Client, Receive(k) \/ WriteFails(k)
  PROVE  /\ conn[k] = "streaming" /\ Current(k) \in Chan
         /\ Len(buf[Current(k)]) \in Nat \ {0} /\ buf[Current(k)][1].seq \in Nat
         /\ Len(buf'[Current(k)]) = Len(buf[Current(k)]) - 1
         /\ \A i \in 1..(Len(buf[Current(k)]) - 1) :
              buf'[Current(k)][i] = buf[Current(k)][i + 1]
         /\ \A d \in Chan : d # Current(k) => buf'[d] = buf[d]
         /\ \A j \in Client : j # k => conn'[j] = conn[j]
         /\ UNCHANGED <<status, chunks, nextSeq, sending, targets, closed,
                        subscribers, attempt, dropped>>
<1> DEFINE c == Current(k)
<1>1. /\ conn[k] = "streaming" /\ buf[c] # <<>> /\ buf' = [buf EXCEPT ![c] = Tail(@)]
      /\ \A j \in Client : j # k => conn'[j] = conn[j]
  BY DEF Receive, WriteFails, TypeOK
<1>2. c \in Chan
  BY <1>1, CurrentType
<1>3. buf[c] \in Seq(Chunk) /\ buf \in [Chan -> Seq(Chunk)]
  BY <1>2 DEF TypeOK
<1>4. Len(buf[c]) \in Nat \ {0}
  BY <1>1, <1>3, EmptySeq
<1>5. buf[c][1].seq \in Nat
  <2>1. 1 \in 1..Len(buf[c])
    BY <1>4
  <2>2. buf[c][1] \in Chunk
    BY <1>3, <2>1, ElementOfSeq
  <2>3. QED  BY <2>2 DEF Chunk
<1>6. /\ Len(Tail(buf[c])) = Len(buf[c]) - 1
      /\ \A i \in 1..(Len(buf[c]) - 1) : Tail(buf[c])[i] = buf[c][i + 1]
  BY <1>1, <1>3, HeadTailProperties
<1>7. buf'[c] = Tail(buf[c]) /\ \A d \in Chan : d # c => buf'[d] = buf[d]
  <2> HIDE DEF c
  <2>1. QED  BY <1>1, <1>2, <1>3
<1>8. QED
  BY <1>1, <1>2, <1>4, <1>5, <1>6, <1>7 DEF Receive, WriteFails, record, fanout

LEMMA AppendElements ==
  ASSUME NEW S, NEW q \in Seq(S), NEW x \in S
  PROVE  /\ Append(q, x) # <<>> /\ Len(Append(q, x)) = Len(q) + 1
         /\ \A i \in 1..Len(q) : Append(q, x)[i] = q[i]
         /\ Append(q, x)[Len(q) + 1] = x
BY AppendProperties

LEMMA ReceiveEffect ==
  ASSUME TypeOK, NEW k \in Client, Receive(k)
  PROVE  LET h == buf[Current(k)][1].seq IN
         /\ Len(seen[k]) \in Nat /\ Len(seen'[k]) = Len(seen[k]) + 1
         /\ \A i \in 1..Len(seen[k]) : seen'[k][i] = seen[k][i]
         /\ seen'[k][Len(seen[k]) + 1] = h /\ FromSeq(k)' = h + 1
         /\ \A j \in Client :
              j # k => seen'[j] = seen[j] /\ FromSeq(j)' = FromSeq(j)
<1> DEFINE c == Current(k)
           h == buf[c][1].seq
<1>1. buf[c] # <<>> /\ c \in Chan
  BY TakeEffect DEF Receive
<1>2. Head(buf[c]) = buf[c][1] /\ h \in Nat
  <2>1. buf[c] \in Seq(Chunk)
    BY <1>1 DEF TypeOK
  <2>2. Head(buf[c]) = buf[c][1]
    BY <1>1, <2>1, ChunkSequences
  <2>3. QED  BY <2>2, TakeEffect
<1>3. seen' = [seen EXCEPT ![k] = Append(@, h)]
  BY <1>2 DEF Receive
<1>4. seen[k] \in Seq(Nat) /\ Len(seen[k]) \in Nat /\ seen \in [Client -> Seq(Nat)]
  BY LenProperties DEF TypeOK
<1> HIDE DEF h
<1>5. /\ Append(seen[k], h) # <<>> /\ Len(Append(seen[k], h)) = Len(seen[k]) + 1
      /\ \A i \in 1..Len(seen[k]) : Append(seen[k], h)[i] = seen[k][i]
      /\ Append(seen[k], h)[Len(seen[k]) + 1] = h
  BY <1>2, <1>4, AppendElements
<1>6. seen'[k] = Append(seen[k], h) /\ \A j \in Client : j # k => seen'[j] = seen[j]
  BY <1>3, <1>4
<1>7. FromSeq(k)' = h + 1
  BY <1>5, <1>6 DEF FromSeq
<1>8. \A j \in Client : j # k => FromSeq(j)' = FromSeq(j)
  BY <1>6 DEF FromSeq
<1>9. QED  BY <1>4, <1>5, <1>6, <1>7, <1>8 DEF h

\* Subscribe fills the new channel with the chunks from the resume point
\* on, and what does not fit is skipped.
LEMMA SubscribeEffect ==
  ASSUME TypeOK, SeqIsPosition, NEW k \in Client, Subscribe(k)
  PROVE  /\ Fresh(k) \in Chan /\ Current(k)' = Fresh(k)
         /\ \A j \in Client : j # k => Current(j)' = Current(j) /\ conn'[j] = conn[j]
                                         /\ dropped'[j] = dropped[j]
         /\ \A d \in Chan : d # Fresh(k) => buf'[d] = buf[d]
         /\ Len(buf'[Fresh(k)]) \in Nat
         /\ \A i \in 1..Len(buf'[Fresh(k)]) :
              /\ buf'[Fresh(k)][i].seq = FromSeq(k) + i - 1
              /\ buf'[Fresh(k)][i].seq < nextSeq
         /\ dropped[k] \subseteq dropped'[k]
         /\ \A s \in FromSeq(k)..(nextSeq - 1) :
              \/ s \in dropped'[k]
              \/ \E i \in 1..Len(buf'[Fresh(k)]) : buf'[Fresh(k)][i].seq = s
         /\ UNCHANGED <<status, chunks, nextSeq, sending, targets, seen>>
<1> DEFINE c == Fresh(k)
           from == FromSeq(k)
           replay == Replay(from)
           fits == MinOf(Len(replay), ChanCap)
<1>1. /\ conn[k] = "idle" /\ attempt[k] < MaxConn
      /\ attempt' = [attempt EXCEPT ![k] = @ + 1]
      /\ conn' = [conn EXCEPT ![k] = "streaming"]
      /\ buf' = [buf EXCEPT ![c] = SubSeq(replay, 1, fits)]
      /\ dropped' = [dropped EXCEPT ![k] =
                       @ \cup {replay[i].seq : i \in (fits + 1)..Len(replay)}]
      /\ UNCHANGED <<status, chunks, nextSeq, sending, targets, seen>>
  BY DEF Subscribe, Fresh, record, fanout
<1>2. c \in Chan /\ Current(k)' = c
  BY <1>1, ConstantsOK DEF TypeOK, Chan, Current, Fresh
<1>3. \A j \in Client : j # k => Current(j)' = Current(j) /\ conn'[j] = conn[j]
                                   /\ dropped'[j] = dropped[j]
  BY <1>1 DEF TypeOK, Current
<1>4. from \in Nat /\ nextSeq \in Nat /\ Len(chunks) = nextSeq
  BY FromSeqType DEF TypeOK, SeqIsPosition
<1>5. /\ replay \in Seq(Chunk)
      /\ Len(replay) = IF from <= nextSeq THEN nextSeq - from ELSE 0
      /\ \A i \in 1..Len(replay) : replay[i] = chunks[from + i]
  BY <1>4, ReplayType
<1>6. \A i \in 1..Len(replay) : replay[i].seq = from + i - 1
  <2>1. ASSUME NEW i \in 1..Len(replay) PROVE replay[i].seq = from + i - 1
    <3>1. from + i \in 1..nextSeq
      BY <1>4, <1>5
    <3>2. replay[i] = chunks[from + i] /\ chunks[from + i].seq = from + i - 1
      BY <1>4, <1>5, <3>1 DEF SeqIsPosition
    <3>3. QED  BY <3>2
  <2>2. QED  BY <2>1
<1>7. Len(replay) \in Nat /\ fits \in 0..Len(replay)
  BY <1>4, <1>5, ConstantsOK DEF MinOf
<1> HIDE DEF c, from, replay, fits
<1>8. /\ Len(SubSeq(replay, 1, fits)) = fits
      /\ \A i \in 1..fits : SubSeq(replay, 1, fits)[i] = replay[i]
  <2>1. \A i \in 1..fits : replay[i] \in Chunk
    BY <1>5, <1>7, ElementOfSeq
  <2>2. QED  BY <1>7, <2>1, SubSeqProperties
<1>9. /\ buf'[c] = SubSeq(replay, 1, fits)
      /\ \A d \in Chan : d # c => buf'[d] = buf[d]
      /\ dropped'[k] = dropped[k]
                         \cup {replay[i].seq : i \in (fits + 1)..Len(replay)}
  BY <1>1, <1>2 DEF TypeOK
<1>10. \A i \in 1..Len(buf'[c]) : buf'[c][i].seq = from + i - 1
                                    /\ buf'[c][i].seq < nextSeq
  BY <1>4, <1>5, <1>6, <1>7, <1>8, <1>9
<1>11. ASSUME NEW s \in from..(nextSeq - 1)
       PROVE  s \in dropped'[k] \/ \E i \in 1..Len(buf'[c]) : buf'[c][i].seq = s
  <2>1. s - from + 1 \in 1..Len(replay) /\ replay[s - from + 1].seq = s
    BY <1>4, <1>5, <1>6
  <2>2. CASE s - from + 1 <= fits
    BY <1>7, <1>8, <1>9, <2>1, <2>2
  <2>3. CASE ~(s - from + 1 <= fits)
    <3>1. s - from + 1 \in (fits + 1)..Len(replay)
      BY <1>4, <1>7, <2>1, <2>3
    <3>2. QED  BY <1>9, <2>1, <3>1
  <2>4. QED  BY <2>2, <2>3
<1>12. Len(buf'[c]) \in Nat /\ dropped[k] \subseteq dropped'[k]
  BY <1>7, <1>8, <1>9
<1>13. QED
  BY <1>1, <1>2, <1>3, <1>9, <1>10, <1>11, <1>12 DEF c, from
-----------------------------------------------------------------------------
(***************************************************************************)
(* The parts of Inv about what waits in the channels.                      *)
(***************************************************************************)
\* Facts about types the steps below share.
LEMMA BufferTypes ==
  ASSUME TypeOK
  PROVE  /\ nextSeq \in Nat /\ sending.seq \in Nat
         /\ targets \subseteq Chan /\ subscribers \subseteq Chan
         /\ \A c \in Chan : Len(buf[c]) \in Nat
         /\ \A c \in Chan : \A i \in 1..Len(buf[c]) : buf[c][i].seq \in Nat
         /\ \A k \in Client : FromSeq(k) \in Nat
         /\ \A k \in Client : conn[k] = "streaming" => Current(k) \in Chan
<1>1. /\ nextSeq \in Nat /\ sending.seq \in Nat
      /\ targets \subseteq Chan /\ subscribers \subseteq Chan
  BY DEF TypeOK, Chunk
<1>2. \A c \in Chan : buf[c] \in Seq(Chunk)
  BY DEF TypeOK
<1>3. \A c \in Chan : Len(buf[c]) \in Nat
  BY <1>2, LenProperties
<1>4. ASSUME NEW c \in Chan, NEW i \in 1..Len(buf[c]) PROVE buf[c][i].seq \in Nat
  <2>1. buf[c][i] \in Chunk
    BY <1>2, <1>4, ElementOfSeq
  <2>2. QED  BY <2>1 DEF Chunk
<1>5. QED  BY <1>1, <1>3, <1>4, FromSeqType, CurrentType

LEMMA ChannelStep ==
  TypeOK /\ SeqIsPosition /\ OnlyOpened /\ ChannelOrdered /\ FanOutNewest /\ StreamStep
    => ChannelOrdered' /\ FanOutNewest'
<1> SUFFICES ASSUME TypeOK, SeqIsPosition, OnlyOpened, ChannelOrdered, FanOutNewest,
                    StreamStep
             PROVE  ChannelOrdered' /\ FanOutNewest'
  OBVIOUS
<1>1. CASE PublishStep
  BY BufferTypes, <1>1, PublishEffect DEF ChannelOrdered, FanOutNewest
<1>2. CASE UNCHANGED <<buf, nextSeq, sending>> /\ targets' \subseteq targets
  BY <1>2 DEF ChannelOrdered, FanOutNewest
<1>3. ASSUME NEW c \in Chan, SendChunk(c) PROVE ChannelOrdered' /\ FanOutNewest'
  <2>1. /\ sending.seq = nextSeq - 1
        /\ \A i \in 1..Len(buf[c]) : buf[c][i].seq < sending.seq
    BY <1>3, SendEffect DEF FanOutNewest
  <2>2. \A i \in 1..Len(buf'[c]) : i \in 1..Len(buf[c]) \/ i = Len(buf[c]) + 1
    BY BufferTypes, <1>3, SendEffect
  <2>3. ASSUME NEW i \in 1..Len(buf'[c])
        PROVE  /\ buf'[c][i].seq < nextSeq
               /\ \/ i \in 1..Len(buf[c]) /\ buf'[c][i] = buf[c][i]
                  \/ i = Len(buf[c]) + 1 /\ buf'[c][i] = sending
    <3>1. i \in 1..Len(buf[c]) => buf'[c][i] = buf[c][i]
      BY <1>3, SendEffect
    <3>2. i = Len(buf[c]) + 1 => buf'[c][i] = sending
      BY <1>3, SendEffect
    <3>3. i \in 1..Len(buf[c]) => buf[c][i].seq < nextSeq
      BY DEF ChannelOrdered
    <3>4. sending.seq < nextSeq
      BY BufferTypes, <2>1
    <3>5. CASE i \in 1..Len(buf[c])
      BY <3>1, <3>3, <3>5
    <3>6. CASE i = Len(buf[c]) + 1
      BY <3>2, <3>4, <3>6
    <3>7. QED  BY <2>2, <3>5, <3>6
  <2>4. ASSUME NEW i \in 1..Len(buf'[c]), NEW j \in 1..Len(buf'[c]), i < j
        PROVE  buf'[c][i].seq < buf'[c][j].seq
    <3>1. Len(buf[c]) \in Nat
      BY BufferTypes
    <3>2. i \in 1..Len(buf[c]) /\ buf'[c][i] = buf[c][i]
      BY <2>3, <2>2, <2>4, <3>1
    <3>3. CASE j \in 1..Len(buf[c]) /\ buf'[c][j] = buf[c][j]
      BY <2>4, <3>2, <3>3 DEF ChannelOrdered
    <3>4. CASE j = Len(buf[c]) + 1 /\ buf'[c][j] = sending
      BY <2>1, <3>2, <3>4
    <3>5. QED  BY <2>3, <3>3, <3>4
  <2>5. ChannelOrdered'
    <3>1. /\ UNCHANGED nextSeq /\ \A d \in Chan : d # c => buf'[d] = buf[d]
      BY <1>3, SendEffect
    <3>2. QED  BY <2>3, <2>4, <3>1 DEF ChannelOrdered
  <2>6. FanOutNewest'
    BY BufferTypes, <1>3, SendEffect DEF FanOutNewest
  <2>7. QED  BY <2>5, <2>6
<1>4. ASSUME NEW k \in Client, Receive(k) \/ WriteFails(k)
      PROVE  ChannelOrdered' /\ FanOutNewest'
  <2> DEFINE c == Current(k)
  <2>1. /\ c \in Chan /\ Len(buf'[c]) = Len(buf[c]) - 1
        /\ \A i \in 1..Len(buf'[c]) : buf'[c][i] = buf[c][i + 1]
        /\ \A d \in Chan : d # c => buf'[d] = buf[d]
        /\ UNCHANGED <<nextSeq, sending, targets>>
    BY <1>4, TakeEffect
  <2>2. \A i \in 1..Len(buf'[c]) : i + 1 \in 1..Len(buf[c])
    BY BufferTypes, <2>1
  <2> HIDE DEF c
  <2>3. ChannelOrdered'
    <3>1. ASSUME NEW d \in Chan, NEW i \in 1..Len(buf'[d])
          PROVE  buf'[d][i].seq < nextSeq
      BY <2>1, <2>2, <3>1 DEF ChannelOrdered
    <3>2. ASSUME NEW d \in Chan, NEW i \in 1..Len(buf'[d]), NEW j \in 1..Len(buf'[d]),
                 i < j
          PROVE  buf'[d][i].seq < buf'[d][j].seq
      <4>1. CASE d # c
        BY <2>1, <3>2, <4>1 DEF ChannelOrdered
      <4>2. CASE d = c
        <5>1. i + 1 \in 1..Len(buf[c]) /\ j + 1 \in 1..Len(buf[c]) /\ i + 1 < j + 1
          BY <2>2, <3>2, <4>2, BufferTypes
        <5>2. buf'[c][i] = buf[c][i + 1] /\ buf'[c][j] = buf[c][j + 1]
          BY <2>1, <3>2, <4>2
        <5>3. QED  BY <2>1, <4>2, <5>1, <5>2 DEF ChannelOrdered
      <4>3. QED  BY <4>1, <4>2
    <3>3. QED  BY <2>1, <3>1, <3>2 DEF ChannelOrdered
  <2>4. FanOutNewest'
    <3>1. ASSUME NEW d \in targets, NEW i \in 1..Len(buf'[d])
          PROVE  buf'[d][i].seq < sending.seq
      <4>1. CASE d = c
        <5>1. i + 1 \in 1..Len(buf[c]) /\ buf'[c][i] = buf[c][i + 1]
          BY <2>1, <2>2, <3>1, <4>1
        <5>2. QED  BY <3>1, <4>1, <5>1 DEF FanOutNewest
      <4>2. CASE d # c
        <5>1. buf'[d] = buf[d]  BY BufferTypes, <2>1, <3>1, <4>2
        <5>2. QED  BY <3>1, <5>1 DEF FanOutNewest
      <4>3. QED  BY <4>1, <4>2
    <3>2. QED  BY <2>1, <3>1 DEF FanOutNewest
  <2>5. QED  BY <2>3, <2>4
<1>5. ASSUME NEW k \in Client, Subscribe(k) PROVE ChannelOrdered' /\ FanOutNewest'
  <2>1. FromSeq(k) \in Nat /\ Fresh(k) \notin targets
    BY FromSeqType, FreshChannel
  <2>2. /\ \A i \in 1..Len(buf'[Fresh(k)]) : buf'[Fresh(k)][i].seq < nextSeq
        /\ \A i, j \in 1..Len(buf'[Fresh(k)]) :
             i < j => buf'[Fresh(k)][i].seq < buf'[Fresh(k)][j].seq
    BY <1>5, <2>1, SubscribeEffect
  <2>3. /\ \A d \in Chan : d # Fresh(k) => buf'[d] = buf[d]
        /\ UNCHANGED <<nextSeq, sending, targets>> /\ Fresh(k) \in Chan
    BY <1>5, SubscribeEffect
  <2>4. ChannelOrdered'
    BY <2>2, <2>3 DEF ChannelOrdered
  <2>5. FanOutNewest'
    <3>1. \A d \in targets : buf'[d] = buf[d]
      BY BufferTypes, <2>1, <2>3
    <3>2. QED  BY <2>3, <3>1 DEF FanOutNewest
  <2>6. QED  BY <2>4, <2>5
<1>6. QED
  BY <1>1, <1>2, <1>3, <1>4, <1>5
     DEF StreamStep, QuietStep, SkipChunk, LeaveStep, Cancel, channels, fanout, record

\* A client resumes after everything it has received.
LEMMA ResumePoint ==
  ASSUME TypeOK, OrderedDelivery, NEW k \in Client
  PROVE  \A i \in 1..Len(seen[k]) : seen[k][i] < FromSeq(k)
<1>1. seen[k] \in Seq(Nat) /\ Len(seen[k]) \in Nat
  BY LenProperties DEF TypeOK
<1>2. CASE seen[k] = <<>>
  BY <1>1, <1>2
<1>3. CASE seen[k] # <<>>
  <2>1. Len(seen[k]) \in Nat \ {0} /\ FromSeq(k) = seen[k][Len(seen[k])] + 1
    BY <1>1, <1>3, EmptySeq DEF FromSeq
  <2>2. \A i \in 1..Len(seen[k]) : seen[k][i] \in Nat
    BY <1>1, ElementOfSeq
  <2>3. QED  BY <2>1, <2>2 DEF OrderedDelivery
<1>4. QED  BY <1>2, <1>3

LEMMA SeenStep ==
  TypeOK /\ SeqIsPosition /\ OnlyOpened /\ StreamRegistered /\ ChannelOrdered
    /\ FanOutNewest /\ SeenBeforeBuffered /\ OrderedDelivery /\ StreamStep
    => SeenBeforeBuffered' /\ OrderedDelivery'
<1> SUFFICES ASSUME TypeOK, SeqIsPosition, OnlyOpened, StreamRegistered,
                    ChannelOrdered, FanOutNewest, SeenBeforeBuffered,
                    OrderedDelivery, StreamStep
             PROVE  SeenBeforeBuffered' /\ OrderedDelivery'
  OBVIOUS
<1>s. ASSUME UNCHANGED seen
      PROVE  OrderedDelivery' /\ \A k \in Client : FromSeq(k)' = FromSeq(k)
  BY <1>s DEF OrderedDelivery, FromSeq
<1>1. CASE PublishStep
  <2>1. \A k \in Client : Current(k)' = Current(k)
    BY <1>1, PublishEffect DEF Current
  <2>2. QED
    BY BufferTypes, <1>s, <1>1, <2>1, PublishEffect DEF SeenBeforeBuffered
<1>2. ASSUME UNCHANGED <<buf, nextSeq, sending, attempt, seen>>,
             targets' \subseteq targets,
             \A k \in Client : conn'[k] = "streaming" => conn[k] = "streaming"
      PROVE  SeenBeforeBuffered' /\ OrderedDelivery'
  BY <1>s, <1>2 DEF SeenBeforeBuffered, Current
<1>3. ASSUME NEW c \in Chan, SendChunk(c)
      PROVE  SeenBeforeBuffered' /\ OrderedDelivery'
  <2>1. \A k \in Client : Current(k)' = Current(k)
    BY <1>3, SendEffect DEF Current
  <2>2. \A i \in 1..Len(buf'[c]) : i \in 1..Len(buf[c]) \/ i = Len(buf[c]) + 1
    BY BufferTypes, <1>3, SendEffect
  <2>3. QED
    BY BufferTypes, <1>s, <1>3, <2>1, <2>2, SendEffect DEF SeenBeforeBuffered
<1>4. ASSUME NEW k \in Client, WriteFails(k)
      PROVE  SeenBeforeBuffered' /\ OrderedDelivery'
  <2>1. conn'[k] # "streaming" /\ UNCHANGED seen
    BY <1>4 DEF WriteFails, TypeOK
  <2>2. \A j \in Client : Current(j)' = Current(j) /\ (j # k => Current(j) # Current(k))
    BY <1>4, TakeEffect DEF Current
  <2>3. QED
    BY BufferTypes, <1>s, <1>4, <2>1, <2>2, TakeEffect DEF SeenBeforeBuffered
<1>5. ASSUME NEW k \in Client, Receive(k)
      PROVE  SeenBeforeBuffered' /\ OrderedDelivery'
  <2> DEFINE c == Current(k)
             h == buf[c][1].seq
  <2>1. \A j \in Client : Current(j)' = Current(j) /\ (j # k => Current(j) # c)
    BY <1>5, TakeEffect DEF Current
  <2>2. /\ conn[k] = "streaming" /\ c \in Chan /\ Len(buf[c]) \in Nat \ {0}
        /\ h \in Nat /\ FromSeq(k)' = h + 1
        /\ FromSeq(k) <= h /\ h < nextSeq
        /\ \A i \in 2..Len(buf[c]) : h < buf[c][i].seq
        /\ c \in targets => h < sending.seq
    BY BufferTypes, <1>5, TakeEffect, ReceiveEffect
       DEF SeenBeforeBuffered, ChannelOrdered, FanOutNewest
  <2>3. SeenBeforeBuffered'
    <3>1. ASSUME NEW j \in Client, j # k
          PROVE  /\ FromSeq(j)' <= nextSeq'
                 /\ conn'[j] = "streaming" =>
                      /\ \A i \in 1..Len(buf'[Current(j)']) :
                           FromSeq(j)' <= buf'[Current(j)'][i].seq
                      /\ Current(j)' \in targets' => FromSeq(j)' <= sending'.seq
      <4>1. FromSeq(j)' = FromSeq(j) /\ Current(j)' = Current(j) /\ Current(j) # c
        BY <1>5, <2>1, <3>1, ReceiveEffect
      <4>2. conn'[j] = conn[j] /\ UNCHANGED <<nextSeq, targets, sending>>
        BY <1>5, <3>1, TakeEffect
      <4>3. FromSeq(j)' <= nextSeq'
        BY <4>1, <4>2 DEF SeenBeforeBuffered
      <4>4. ASSUME conn'[j] = "streaming"
            PROVE  /\ \A i \in 1..Len(buf'[Current(j)']) :
                        FromSeq(j)' <= buf'[Current(j)'][i].seq
                   /\ Current(j)' \in targets' => FromSeq(j)' <= sending'.seq
        <5>1. conn[j] = "streaming" /\ Current(j) \in Chan
          BY BufferTypes, <4>2, <4>4
        <5>2. buf'[Current(j)] = buf[Current(j)]
          BY <1>5, <4>1, <5>1, TakeEffect
        <5> HIDE DEF c, h
        <5>3. QED
          BY <4>1, <4>2, <5>1, <5>2 DEF SeenBeforeBuffered
      <4>5. QED
        BY <4>3, <4>4
    <3>2. /\ FromSeq(k)' <= nextSeq'
          /\ \A i \in 1..Len(buf'[c]) : FromSeq(k)' <= buf'[c][i].seq
          /\ c \in targets' => FromSeq(k)' <= sending'.seq
      <4>1. \A i \in 1..Len(buf'[c]) : i + 1 \in 2..Len(buf[c])
                                         /\ buf'[c][i] = buf[c][i + 1]
        BY <1>5, <2>2, TakeEffect
      <4>2. UNCHANGED <<nextSeq, targets, sending>>
        BY <1>5, TakeEffect
      <4>3. \A i \in 2..Len(buf[c]) : buf[c][i].seq \in Nat
        BY BufferTypes, <2>2
      <4>4. nextSeq \in Nat /\ sending.seq \in Nat
        BY BufferTypes
      <4> HIDE DEF c, h
      <4>5. ASSUME NEW i \in 1..Len(buf'[c]) PROVE FromSeq(k)' <= buf'[c][i].seq
        <5>1. h < buf[c][i + 1].seq /\ buf[c][i + 1].seq \in Nat
          BY <2>2, <4>1, <4>3
        <5>2. buf'[c][i].seq = buf[c][i + 1].seq
          BY <4>1
        <5>3. QED  BY <2>2, <5>1, <5>2
      <4>6. QED  BY <2>2, <4>2, <4>4, <4>5
    <3>3. QED  BY <2>1, <3>1, <3>2 DEF SeenBeforeBuffered
  <2>4. OrderedDelivery'
    <3>1. \A i \in 1..Len(seen[k]) : seen[k][i] \in Nat /\ seen[k][i] < h
      <4>1. seen[k] \in Seq(Nat) /\ FromSeq(k) \in Nat
        BY FromSeqType DEF TypeOK
      <4>2. \A i \in 1..Len(seen[k]) : seen[k][i] \in Nat
        BY <4>1, ElementOfSeq
      <4>3. \A i \in 1..Len(seen[k]) : seen[k][i] < FromSeq(k)
        BY ResumePoint
      <4> HIDE DEF h
      <4>4. QED  BY <2>2, <4>1, <4>2, <4>3
    <3>2. \A i \in 1..Len(seen'[k]) : i \in 1..Len(seen[k]) \/ i = Len(seen[k]) + 1
      BY <1>5, ReceiveEffect
    <3>3. /\ Len(seen[k]) \in Nat
          /\ \A i \in 1..Len(seen[k]) : seen'[k][i] = seen[k][i]
          /\ seen'[k][Len(seen[k]) + 1] = h
          /\ \A j \in Client : j # k => seen'[j] = seen[j]
      BY <1>5, ReceiveEffect
    <3> HIDE DEF h
    <3>4. ASSUME NEW i \in 1..Len(seen'[k]), NEW j \in 1..Len(seen'[k]), i < j
          PROVE  seen'[k][i] < seen'[k][j]
      <4>1. i \in 1..Len(seen[k])
        BY <3>2, <3>3, <3>4
      <4>2. CASE j \in 1..Len(seen[k])
        BY <3>3, <3>4, <4>1, <4>2 DEF OrderedDelivery
      <4>3. CASE j = Len(seen[k]) + 1
        BY <3>1, <3>3, <4>1, <4>3
      <4>4. QED  BY <3>2, <4>2, <4>3
    <3>5. QED  BY <3>3, <3>4 DEF OrderedDelivery
  <2>5. QED  BY <2>3, <2>4
<1>6. ASSUME NEW k \in Client, Subscribe(k)
      PROVE  SeenBeforeBuffered' /\ OrderedDelivery'
  <2>1. Fresh(k) \notin targets /\ \A j \in Client : Current(j) # Fresh(k)
    BY FreshChannel
  <2>2. ASSUME NEW j \in Client, j # k
        PROVE  /\ FromSeq(j)' <= nextSeq'
               /\ conn'[j] = "streaming" =>
                    /\ \A i \in 1..Len(buf'[Current(j)']) :
                         FromSeq(j)' <= buf'[Current(j)'][i].seq
                    /\ Current(j)' \in targets' => FromSeq(j)' <= sending'.seq
    BY BufferTypes, <1>s, <1>6, <2>1, <2>2, SubscribeEffect DEF SeenBeforeBuffered
  <2>3. /\ FromSeq(k)' <= nextSeq'
        /\ \A i \in 1..Len(buf'[Current(k)']) :
             FromSeq(k)' <= buf'[Current(k)'][i].seq
        /\ Current(k)' \notin targets'
    BY BufferTypes, <1>s, <1>6, <2>1, SubscribeEffect DEF SeenBeforeBuffered
  <2>4. QED  BY <1>s, <1>6, <2>2, <2>3, SubscribeEffect DEF SeenBeforeBuffered
<1>7. ASSUME NEW k \in Client, LeaveStep(k) \/ Cancel(k)
      PROVE  /\ UNCHANGED <<buf, nextSeq, sending, attempt, seen, targets>>
             /\ \A j \in Client : conn'[j] = "streaming" => conn[j] = "streaming"
  BY <1>7 DEF LeaveStep, Cancel, TypeOK, record, fanout, channels
<1>8. CASE QuietStep \/ \E c \in Chan : SkipChunk(c)
  BY <1>2, <1>8 DEF QuietStep, SkipChunk, record, fanout, channels, clients
<1>9. QED  BY <1>1, <1>2, <1>3, <1>4, <1>5, <1>6, <1>7, <1>8 DEF StreamStep
-----------------------------------------------------------------------------
(***************************************************************************)
(* Nothing a client is entitled to gets lost without being skipped.        *)
(***************************************************************************)

\* The first chunk waiting in a stream's channel is older than the others
\* and than the one under way.
LEMMA HeadIsOldest ==
  ASSUME TypeOK, ChannelOrdered, FanOutNewest, NEW k \in Client, Receive(k)
  PROVE  LET c == Current(k)
             h == buf[c][1].seq
         IN /\ h \in Nat /\ h < nextSeq
            /\ \A i \in 1..Len(buf[c]) : i # 1 => h < buf[c][i].seq
            /\ c \in targets => h < sending.seq
<1> DEFINE c == Current(k)
<1>1. c \in Chan /\ Len(buf[c]) \in Nat \ {0} /\ buf[c][1].seq \in Nat
  BY TakeEffect
<1>2. 1 \in 1..Len(buf[c]) /\ \A i \in 1..Len(buf[c]) : i # 1 => 1 < i
  BY <1>1
<1> HIDE DEF c
<1>3. QED  BY <1>1, <1>2 DEF c, ChannelOrdered, FanOutNewest

LEMMA GapsStep ==
  TypeOK /\ SeqIsPosition /\ ChannelOrdered /\ FanOutNewest /\ NothingLost
    /\ GapsAreDrops /\ StreamStep => GapsAreDrops'
<1> SUFFICES ASSUME TypeOK, SeqIsPosition, ChannelOrdered, FanOutNewest, NothingLost,
                    GapsAreDrops, StreamStep
             PROVE  GapsAreDrops'
  OBVIOUS
<1>1. ASSUME UNCHANGED seen, \A k \in Client : dropped[k] \subseteq dropped'[k]
      PROVE  GapsAreDrops'
  BY <1>1 DEF GapsAreDrops, FromSeq
<1>2. ASSUME NEW k \in Client, Receive(k) PROVE GapsAreDrops'
  <2> DEFINE c == Current(k)
             h == buf[c][1].seq
  <2>1. UNCHANGED dropped /\ conn[k] = "streaming"
    BY <1>2 DEF Receive
  <2>2. \A j \in Client : j # k => seen'[j] = seen[j] /\ FromSeq(j)' = FromSeq(j)
    BY <1>2, ReceiveEffect
  <2>3. /\ Len(seen[k]) \in Nat /\ Len(seen'[k]) = Len(seen[k]) + 1
        /\ \A i \in 1..Len(seen[k]) : seen'[k][i] = seen[k][i]
        /\ seen'[k][Len(seen[k]) + 1] = h /\ FromSeq(k)' = h + 1
    BY <1>2, ReceiveEffect
  <2>4. /\ h \in Nat /\ h < nextSeq
        /\ \A i \in 1..Len(buf[c]) : i # 1 => h < buf[c][i].seq
        /\ c \in targets => h < sending.seq
    BY <1>2, HeadIsOldest
  <2>5. nextSeq \in Nat /\ FromSeq(k) \in Nat /\ sending.seq \in Nat
    BY BufferTypes
  <2>6. ASSUME NEW s \in 0..(FromSeq(k)' - 1)
        PROVE  (\E i \in 1..Len(seen'[k]) : seen'[k][i] = s) \/ s \in dropped'[k]
    <3>1. s \in Nat /\ s <= h
      BY <2>3, <2>4
    <3>2. CASE s < FromSeq(k)
      <4>1. s \in 0..(FromSeq(k) - 1)
        BY <2>5, <3>1, <3>2
      <4>2. (\E i \in 1..Len(seen[k]) : seen[k][i] = s) \/ s \in dropped[k]
        BY <4>1 DEF GapsAreDrops
      <4> HIDE DEF h
      <4>3. QED  BY <2>1, <2>3, <4>2
    <3>3. CASE s = h
      <4>1. Len(seen[k]) + 1 \in 1..Len(seen'[k])
        BY <2>3
      <4>2. QED  BY <2>3, <3>3, <4>1
    <3>4. CASE FromSeq(k) <= s /\ s # h
      <4>1. s \in FromSeq(k)..(nextSeq - 1) /\ s < h
        BY <2>4, <2>5, <3>1, <3>4
      <4>2. Pending(k, s)
        BY <2>1, <4>1 DEF NothingLost
      <4>3. ASSUME NEW i \in 1..Len(buf[c]), buf[c][i].seq = s PROVE FALSE
        BY <2>4, <3>1, <4>1, <4>3
      <4>4. ~(c \in targets /\ sending.seq = s)
        BY <2>4, <2>5, <3>1, <4>1
      <4>5. s \in dropped[k]
        BY <4>2, <4>3, <4>4 DEF Pending
      <4>6. QED  BY <2>1, <4>5
    <3>5. QED  BY <2>5, <3>1, <3>2, <3>3, <3>4
  <2>7. QED  BY <2>1, <2>2, <2>6 DEF GapsAreDrops
<1>3. ASSUME NEW k \in Client, Subscribe(k) PROVE GapsAreDrops'
  BY <1>1, <1>3, SubscribeEffect
<1>4. ASSUME NEW c \in Chan, SkipChunk(c) PROVE GapsAreDrops'
  BY <1>1, <1>4 DEF SkipChunk, TypeOK, Chan, clients
<1>5. CASE UNCHANGED <<seen, dropped>>
  BY <1>1, <1>5
<1>6. QED
  BY <1>2, <1>3, <1>4, <1>5
     DEF StreamStep, PublishStep, QuietStep, SendChunk, WriteFails, LeaveStep, Cancel,
         clients

LEMMA LostStep ==
  TypeOK /\ SeqIsPosition /\ OnlyOpened /\ StreamRegistered
    /\ SeenBeforeBuffered /\ NothingLost /\ StreamStep => NothingLost'
<1> SUFFICES ASSUME TypeOK, SeqIsPosition, OnlyOpened, StreamRegistered,
                    SeenBeforeBuffered, NothingLost, StreamStep, NEW j \in Client, conn'[j] = "streaming",
                    NEW s \in FromSeq(j)'..(nextSeq' - 1)
             PROVE  Pending(j, s)'
  BY DEF NothingLost
<1>1. CASE PublishStep
  <2>1. /\ UNCHANGED <<buf, closed, subscribers, conn, attempt, seen, dropped>>
        /\ sending'.seq = nextSeq /\ nextSeq' = nextSeq + 1 /\ targets' = subscribers
        /\ nextSeq \in Nat /\ status = "running" /\ targets = {}
    BY <1>1, PublishEffect DEF PublishStep
  <2>2. Current(j)' = Current(j) /\ FromSeq(j)' = FromSeq(j) /\ FromSeq(j) \in Nat
    BY <2>1, BufferTypes DEF Current, FromSeq
  <2>3. Current(j) \in subscribers
    BY <2>1 DEF StreamRegistered
  <2>4. CASE s = nextSeq
    BY <2>1, <2>2, <2>3, <2>4 DEF Pending
  <2>5. CASE s # nextSeq
    <3>1. s \in FromSeq(j)..(nextSeq - 1)
      BY <2>1, <2>2, <2>5
    <3>2. Pending(j, s)
      BY <2>1, <3>1 DEF NothingLost
    <3>3. QED  BY <2>1, <2>2, <3>2 DEF Pending
  <2>6. QED  BY <2>4, <2>5
<1>2. ASSUME UNCHANGED <<nextSeq, seen>>, conn[j] = "streaming" PROVE Pending(j, s)
  BY <1>2 DEF NothingLost, FromSeq
<1>3. CASE UNCHANGED <<nextSeq, seen, attempt, buf, sending, targets, dropped>>
             /\ conn[j] = "streaming"
  BY <1>2, <1>3 DEF Pending, Current
<1>4. ASSUME NEW c \in Chan, SendChunk(c) PROVE Pending(j, s)'
  <2>1. Pending(j, s) /\ Current(j)' = Current(j)
    BY <1>2, <1>4, SendEffect DEF Current
  <2>2. CASE Current(j) = c
    <3>1. /\ Len(buf[c]) \in Nat /\ Len(buf'[c]) = Len(buf[c]) + 1
          /\ \A i \in 1..Len(buf[c]) : buf'[c][i] = buf[c][i]
          /\ buf'[c][Len(buf[c]) + 1] = sending /\ UNCHANGED dropped
      BY <1>4, SendEffect
    <3>2. \A i \in 1..Len(buf[c]) : i \in 1..Len(buf'[c])
      BY <3>1
    <3>3. Len(buf[c]) + 1 \in 1..Len(buf'[c])
      BY <3>1
    <3>4. QED  BY <2>1, <2>2, <3>1, <3>2, <3>3 DEF Pending
  <2>3. CASE Current(j) # c
    <3>1. Current(j) \in Chan
      BY <1>4, BufferTypes, SendEffect
    <3>2. buf'[Current(j)] = buf[Current(j)] /\ targets' = targets \ {c}
            /\ UNCHANGED <<sending, dropped>>
      BY <1>4, <2>3, <3>1, SendEffect
    <3>3. QED  BY <2>1, <2>3, <3>2 DEF Pending
  <2>4. QED  BY <2>2, <2>3
<1>5. ASSUME NEW c \in Chan, SkipChunk(c) PROVE Pending(j, s)'
  <2>1. /\ UNCHANGED <<nextSeq, seen, attempt, buf, sending, conn>>
        /\ targets' = targets \ {c}
        /\ dropped' = [dropped EXCEPT ![c[1]] = @ \cup {sending.seq}]
    BY <1>5 DEF SkipChunk, record, channels, clients
  <2>2. Pending(j, s) /\ Current(j)' = Current(j)
    BY <1>2, <2>1 DEF Current
  <2>3. dropped[j] \subseteq dropped'[j]
          /\ (Current(j) = c => sending.seq \in dropped'[j])
    BY <2>1 DEF TypeOK, Current
  <2>4. QED  BY <2>1, <2>2, <2>3 DEF Pending
<1>6. ASSUME NEW k \in Client, Receive(k) \/ WriteFails(k), j # k PROVE Pending(j, s)'
  <2>1. /\ conn[j] = "streaming" /\ Current(j) \in Chan /\ Current(j) # Current(k)
        /\ Current(j)' = Current(j)
    BY <1>6, BufferTypes, TakeEffect DEF Current
  <2>2. FromSeq(j)' = FromSeq(j)
    <3>1. seen'[j] = seen[j]
      BY <1>6 DEF Receive, WriteFails, TypeOK
    <3>2. QED  BY <3>1 DEF FromSeq
  <2>3. buf'[Current(j)] = buf[Current(j)]
          /\ UNCHANGED <<nextSeq, sending, targets, dropped>>
    BY <1>6, <2>1, TakeEffect
  <2>4. Pending(j, s)
    BY <2>1, <2>2, <2>3 DEF NothingLost
  <2>5. QED  BY <2>1, <2>3, <2>4 DEF Pending
<1>7. CASE Receive(j)
  <2> DEFINE c == Current(j)
             h == buf[c][1].seq
  <2>1. /\ conn[j] = "streaming" /\ Current(j)' = c /\ c \in Chan
        /\ Len(buf[c]) \in Nat \ {0} /\ Len(buf'[c]) = Len(buf[c]) - 1
        /\ \A i \in 1..(Len(buf[c]) - 1) : buf'[c][i] = buf[c][i + 1]
        /\ UNCHANGED <<nextSeq, sending, targets, dropped>> /\ h \in Nat
    BY <1>7, TakeEffect DEF Current
  <2>2. FromSeq(j)' = h + 1 /\ FromSeq(j) \in Nat /\ nextSeq \in Nat
    BY <1>7, ReceiveEffect, BufferTypes
  <2>3. FromSeq(j) <= h
    <3>1. 1 \in 1..Len(buf[c])
      BY <2>1
    <3>2. QED  BY <2>1, <3>1 DEF SeenBeforeBuffered
  <2>4. CASE s \in FromSeq(j)..(nextSeq - 1)
    <3>1. Pending(j, s) /\ s # h
      BY <2>1, <2>2, <2>4 DEF NothingLost
    <3>2. ASSUME NEW i \in 1..Len(buf[c]), buf[c][i].seq = s
          PROVE  \E l \in 1..Len(buf'[c]) : buf'[c][l].seq = s
      <4>1. i - 1 \in 1..Len(buf'[c]) /\ buf'[c][i - 1] = buf[c][i - 1 + 1]
              /\ i - 1 + 1 = i
        BY <2>1, <3>1, <3>2
      <4>2. QED  BY <3>2, <4>1
    <3>3. QED  BY <2>1, <3>1, <3>2 DEF Pending
  <2>5. CASE s \notin FromSeq(j)..(nextSeq - 1)
    BY <2>1, <2>2, <2>3, <2>5
  <2>6. QED  BY <2>4, <2>5
<1>8. ASSUME NEW k \in Client, Subscribe(k) PROVE Pending(j, s)'
  <2>1. UNCHANGED <<nextSeq, sending, targets, seen>> /\ FromSeq(j)' = FromSeq(j)
    BY <1>8, SubscribeEffect DEF FromSeq
  <2>2. CASE j = k
    <3>1. Current(j)' = Fresh(j) /\ s \in FromSeq(j)..(nextSeq - 1)
      BY <1>8, <2>1, <2>2, SubscribeEffect
    <3>2. s \in dropped'[j] \/ \E i \in 1..Len(buf'[Fresh(j)]) : buf'[Fresh(j)][i].seq = s
      BY <1>8, <2>2, <3>1, SubscribeEffect
    <3>3. QED  BY <3>1, <3>2 DEF Pending
  <2>3. CASE j # k
    <3>1. /\ Current(j)' = Current(j) /\ conn[j] = "streaming" /\ dropped'[j] = dropped[j]
          /\ Current(j) # Fresh(k)
      BY <1>8, <2>3, SubscribeEffect, FreshChannel
    <3>2. Current(j) \in Chan /\ Pending(j, s)
      BY <1>2, <2>1, <3>1, BufferTypes
    <3>3. buf'[Current(j)] = buf[Current(j)]
      BY <1>8, <3>1, <3>2, SubscribeEffect
    <3>4. QED  BY <2>1, <3>1, <3>2, <3>3 DEF Pending
  <2>4. QED  BY <2>2, <2>3
<1>9. ASSUME NEW k \in Client, LeaveStep(k) \/ Cancel(k) PROVE Pending(j, s)'
  <2>1. UNCHANGED <<nextSeq, seen, attempt, buf, sending, targets, dropped>>
          /\ conn[j] = "streaming"
    <3>1. CASE LeaveStep(k)
      BY <3>1 DEF LeaveStep, TypeOK, fanout, channels
    <3>2. CASE Cancel(k)
      BY <3>2 DEF Cancel, TypeOK, record, fanout
    <3>3. QED  BY <1>9, <3>1, <3>2
  <2>2. QED  BY <1>3, <2>1
<1>10. ASSUME NEW k \in Client, WriteFails(k) PROVE j # k
  BY <1>10 DEF WriteFails, TypeOK
<1>11. CASE QuietStep
  BY <1>3, <1>11 DEF QuietStep, fanout, channels, clients
<1>12. QED
  BY <1>1, <1>4, <1>5, <1>6, <1>7, <1>8, <1>9, <1>10, <1>11 DEF StreamStep
-----------------------------------------------------------------------------
(***************************************************************************)
(* Inv is inductive, and the stream properties follow from it.             *)
(***************************************************************************)
LEMMA InvInit == Init => Inv
<1> SUFFICES ASSUME Init PROVE Inv
  OBVIOUS
<1>1. TypeOK
  BY TypeInit
<1>2. /\ chunks = <<>> /\ nextSeq = 0 /\ targets = {} /\ subscribers = {} /\ closed = {}
      /\ status = "running"
      /\ \A c \in Chan : buf[c] = <<>>
      /\ \A k \in Client : conn[k] = "idle" /\ seen[k] = <<>>
  BY DEF Init
<1>3. SeqIsPosition /\ RunningUntilFinish /\ OnlyOpened /\ StreamRegistered
  BY <1>2 DEF SeqIsPosition, RunningUntilFinish, OnlyOpened, StreamRegistered
<1>4. ChannelOrdered /\ FanOutNewest
  BY <1>2 DEF ChannelOrdered, FanOutNewest
<1>5. SeenBeforeBuffered /\ OrderedDelivery /\ NothingLost /\ GapsAreDrops
  BY <1>2 DEF SeenBeforeBuffered, OrderedDelivery, NothingLost, GapsAreDrops, FromSeq
<1>6. QED  BY <1>1, <1>3, <1>4, <1>5 DEF Inv

LEMMA InvStep == Inv /\ [Next]_vars => Inv'
<1> SUFFICES ASSUME Inv, [Next]_vars PROVE Inv'
  OBVIOUS
<1>1. StreamStep
  BY StepCases DEF Inv
<1>2. TypeOK' /\ RunningUntilFinish'
  BY TypeStep, RunningStep DEF Inv
<1>3. SeqIsPosition' /\ OnlyOpened' /\ StreamRegistered'
  BY <1>1, PositionStep, OpenedStep, RegisteredStep DEF Inv
<1>4. ChannelOrdered' /\ FanOutNewest'
  BY <1>1, ChannelStep DEF Inv
<1>5. SeenBeforeBuffered' /\ OrderedDelivery'
  BY <1>1, SeenStep DEF Inv
<1>6. NothingLost' /\ GapsAreDrops'
  BY <1>1, LostStep, GapsStep DEF Inv
<1>7. QED  BY <1>2, <1>3, <1>4, <1>5, <1>6 DEF Inv

THEOREM InvCorrect == Spec => []Inv
<1>1. QED  BY InvInit, InvStep, PTL DEF Spec

\* However appends, fan-outs, replays, broken connections and cancels
\* interleave, a client that resumes with its last event id never receives
\* a chunk twice or out of order (Append, Subscribe, GetOutputStream).
THEOREM OrderedDeliveryHolds == Spec => []OrderedDelivery
<1>1. Inv => OrderedDelivery
  BY DEF Inv
<1>2. QED  BY InvCorrect, <1>1, PTL

\* The only chunks such a client can miss are those a full channel cost it:
\* the hand-over from replay to live chunks in Subscribe leaves no hole.
THEOREM GapsAreDropsHolds == Spec => []GapsAreDrops
<1>1. Inv => GapsAreDrops
  BY DEF Inv
<1>2. QED  BY InvCorrect, <1>1, PTL
-----------------------------------------------------------------------------
(***************************************************************************)
(* The end of a stream.                                                    *)
(***************************************************************************)

\* A finished record ends with its terminal chunk.
EndsWithDone ==
  status # "running" => nextSeq > 0 /\ chunks[nextSeq].kind = "done"

\* What is in a channel or under way to one is a chunk of the record.
Recorded(chunk) == \E j \in 1..nextSeq : chunk = chunks[j]
OnlyRecorded ==
  /\ \A c \in Chan : \A i \in 1..Len(buf[c]) : Recorded(buf[c][i])
  /\ targets # {} => Recorded(sending)

\* A stream of a finished record has its terminal chunk still to come, unless
\* its channel is closed.
EndAhead ==
  \A k \in Client : conn[k] = "streaming" /\ status # "running" =>
    Current(k) \in closed \/ FromSeq(k) < nextSeq

EndInv == EndsWithDone /\ OnlyRecorded /\ EndAhead

LEMMA EndsWithDoneStep == Inv /\ EndsWithDone /\ [Next]_vars => EndsWithDone'
<1> SUFFICES ASSUME Inv, EndsWithDone, [Next]_vars PROVE EndsWithDone'
  OBVIOUS
<1> USE DEF record, fanout, channels, clients
<1>0. TypeOK /\ SeqIsPosition /\ RunningUntilFinish
  BY DEF Inv
<1>1. CASE UNCHANGED <<status, chunks, nextSeq>> \/ status' = "running"
  BY <1>1 DEF EndsWithDone
<1>2. ASSUME Publish("done") PROVE EndsWithDone'
  <2> DEFINE x == [seq |-> nextSeq, kind |-> "done"]
  <2>1. x \in Chunk /\ x.kind = "done" /\ chunks \in Seq(Chunk) /\ nextSeq = Len(chunks)
          /\ nextSeq \in Nat
    BY <1>0 DEF TypeOK, Chunk, SeqIsPosition
  <2>2. chunks' = Append(chunks, x) /\ nextSeq' = nextSeq + 1
    BY <1>2 DEF Publish
  <2> HIDE DEF x
  <2>3. chunks'[nextSeq'] = x
    BY <2>1, <2>2, AppendElements
  <2>4. QED  BY <2>1, <2>2, <2>3 DEF EndsWithDone
<1>3. CASE DoneFrame \/ StreamClosed
  BY <1>1, <1>2, <1>3 DEF DoneFrame, StreamClosed, Finish
<1>4. ASSUME NEW n \in FrameSizes, AppendChunk(n) PROVE EndsWithDone'
  BY <1>0, <1>1, <1>4 DEF AppendChunk, ReadyForFrame, RunningUntilFinish
<1>5. CASE (\E n \in FrameSizes : AppendPastCap(n)) \/ FanOut \/ UNCHANGED vars
  BY <1>1, <1>5 DEF AppendPastCap, FanOut, SendChunk, SkipChunk, SendOnClosed, vars
<1>6. ASSUME NEW k \in Client, Serve(k) PROVE EndsWithDone'
  BY <1>1, <1>6 DEF Serve, Subscribe, Receive, WriteFails, ChannelClosed, Disconnect,
                    Cancel
<1>7. ASSUME NEW p \in Poller, PollCall(p) PROVE EndsWithDone'
  BY <1>1, <1>7 DEF PollCall
<1>8. QED  BY <1>3, <1>4, <1>5, <1>6, <1>7 DEF Next, Produce

\* The replay takes its chunks from the record.
LEMMA ReplayRecorded ==
  ASSUME TypeOK, SeqIsPosition, NEW k \in Client, Subscribe(k),
         NEW i \in 1..Len(buf'[Fresh(k)])
  PROVE  Recorded(buf'[Fresh(k)][i])
<1> DEFINE from == FromSeq(k)
           replay == Replay(from)
           fits == MinOf(Len(replay), ChanCap)
<1>1. buf' = [buf EXCEPT ![Fresh(k)] = SubSeq(replay, 1, fits)]
  BY DEF Subscribe, Fresh
<1>2. Fresh(k) \in Chan /\ buf \in [Chan -> Seq(Chunk)]
  BY SubscribeEffect DEF TypeOK
<1>3. from \in Nat /\ nextSeq \in Nat /\ Len(chunks) = nextSeq
  BY FromSeqType DEF TypeOK, SeqIsPosition
<1>4. /\ replay \in Seq(Chunk)
      /\ Len(replay) = IF from <= nextSeq THEN nextSeq - from ELSE 0
      /\ \A j \in 1..Len(replay) : replay[j] = chunks[from + j]
  BY <1>3, ReplayType
<1>5. Len(replay) \in Nat /\ fits \in 0..Len(replay)
  BY <1>3, <1>4, ConstantsOK DEF MinOf
<1> HIDE DEF from, replay, fits
<1>6. buf'[Fresh(k)] = SubSeq(replay, 1, fits)
  BY <1>1, <1>2
<1>7. /\ Len(SubSeq(replay, 1, fits)) = fits
      /\ \A j \in 1..fits : SubSeq(replay, 1, fits)[j] = replay[j]
  <2>1. \A j \in 1..fits : replay[j] \in Chunk
    BY <1>4, <1>5, ElementOfSeq
  <2>2. QED  BY <1>5, <2>1, SubSeqProperties
<1>8. i \in 1..fits /\ buf'[Fresh(k)][i] = chunks[from + i]
  BY <1>4, <1>5, <1>6, <1>7
<1>9. from + i \in 1..nextSeq
  BY <1>3, <1>4, <1>5, <1>8
<1>10. QED  BY <1>8, <1>9 DEF Recorded

LEMMA RecordedStep == Inv /\ OnlyRecorded /\ StreamStep => OnlyRecorded'
<1> SUFFICES ASSUME Inv, OnlyRecorded, StreamStep PROVE OnlyRecorded'
  OBVIOUS
<1>0. TypeOK /\ SeqIsPosition /\ nextSeq \in Nat /\ \A c \in Chan : Len(buf[c]) \in Nat
  BY BufferTypes DEF Inv
<1>1. CASE PublishStep
  <2>1. \A j \in 1..nextSeq : chunks'[j] = chunks[j] /\ j \in 1..nextSeq'
    BY <1>0, <1>1, PublishEffect DEF SeqIsPosition
  <2>2. ASSUME NEW x, Recorded(x) PROVE Recorded(x)'
    BY <2>1, <2>2 DEF Recorded
  <2>3. chunks'[nextSeq + 1] = sending' /\ nextSeq + 1 \in 1..nextSeq' /\ buf' = buf
    BY <1>0, <1>1, PublishEffect DEF SeqIsPosition
  <2>4. Recorded(sending)'
    BY <2>3 DEF Recorded
  <2>5. \A c \in Chan : \A i \in 1..Len(buf'[c]) :
          \E j \in 1..nextSeq' : buf'[c][i] = chunks'[j]
    BY <2>1, <2>3 DEF OnlyRecorded, Recorded
  <2>6. QED  BY <2>4, <2>5 DEF OnlyRecorded, Recorded
<1>2. ASSUME UNCHANGED <<chunks, nextSeq, sending, buf>>, targets' \subseteq targets
      PROVE  OnlyRecorded'
  BY <1>2 DEF OnlyRecorded, Recorded
<1>3. ASSUME NEW c \in Chan, SendChunk(c) PROVE OnlyRecorded'
  <2>1. UNCHANGED <<chunks, nextSeq, sending>> /\ targets' \subseteq targets
          /\ Recorded(sending)
    BY <1>0, <1>3, SendEffect DEF OnlyRecorded
  <2>2. ASSUME NEW d \in Chan, NEW i \in 1..Len(buf'[d]) PROVE Recorded(buf'[d][i])
    <3>1. CASE d # c
      BY <1>0, <1>3, <2>2, <3>1, SendEffect DEF OnlyRecorded
    <3>2. CASE d = c
      <4>1. i \in 1..Len(buf[c]) \/ i = Len(buf[c]) + 1
        BY <1>0, <1>3, <2>2, <3>2, SendEffect
      <4>2. QED  BY <1>0, <1>3, <2>1, <3>2, <4>1, SendEffect DEF OnlyRecorded
    <3>3. QED  BY <3>1, <3>2
  <2>3. QED  BY <2>1, <2>2 DEF OnlyRecorded, Recorded
<1>4. ASSUME NEW k \in Client, Receive(k) \/ WriteFails(k) PROVE OnlyRecorded'
  <2>1. UNCHANGED <<chunks, nextSeq, sending, targets>>
    BY <1>0, <1>4, TakeEffect
  <2>2. ASSUME NEW d \in Chan, NEW i \in 1..Len(buf'[d]) PROVE Recorded(buf'[d][i])
    <3>1. CASE d # Current(k)
      BY <1>0, <1>4, <2>2, <3>1, TakeEffect DEF OnlyRecorded
    <3>2. CASE d = Current(k)
      <4>1. i + 1 \in 1..Len(buf[d]) /\ buf'[d][i] = buf[d][i + 1]
        BY <1>0, <1>4, <2>2, <3>2, TakeEffect
      <4>2. QED  BY <4>1 DEF OnlyRecorded
    <3>3. QED  BY <3>1, <3>2
  <2>3. QED  BY <2>1, <2>2 DEF OnlyRecorded, Recorded
<1>5. ASSUME NEW k \in Client, Subscribe(k) PROVE OnlyRecorded'
  <2>1. UNCHANGED <<chunks, nextSeq, sending, targets>>
    BY <1>0, <1>5, SubscribeEffect
  <2>2. ASSUME NEW d \in Chan, NEW i \in 1..Len(buf'[d]) PROVE Recorded(buf'[d][i])
    <3>1. CASE d # Fresh(k)
      BY <1>0, <1>5, <2>2, <3>1, SubscribeEffect DEF OnlyRecorded
    <3>2. CASE d = Fresh(k)
      BY <1>0, <1>5, <2>2, <3>2, ReplayRecorded
    <3>3. QED  BY <3>1, <3>2
  <2>3. QED  BY <2>1, <2>2 DEF OnlyRecorded, Recorded
<1>6. QED
  BY <1>1, <1>2, <1>3, <1>4, <1>5
     DEF StreamStep, QuietStep, SkipChunk, LeaveStep, Cancel, channels, fanout, record

LEMMA EndAheadStep ==
  Inv /\ EndInv /\ StreamStep => EndAhead'
<1> SUFFICES ASSUME Inv, EndInv, StreamStep PROVE EndAhead'
  OBVIOUS
<1>0. TypeOK /\ SeqIsPosition /\ nextSeq \in Nat /\ EndAhead
        /\ \A k \in Client : FromSeq(k) \in Nat /\ FromSeq(k) <= nextSeq
  BY BufferTypes DEF Inv, EndInv, SeenBeforeBuffered
<1>1. CASE PublishStep
  <2>1. nextSeq' = nextSeq + 1 /\ \A k \in Client : FromSeq(k)' = FromSeq(k)
    BY <1>0, <1>1, PublishEffect DEF FromSeq
  <2>2. QED  BY <1>0, <2>1 DEF EndAhead
<1>2. ASSUME UNCHANGED <<status, nextSeq, seen, attempt>>, closed \subseteq closed',
             \A k \in Client : conn'[k] = "streaming" => conn[k] = "streaming"
      PROVE  EndAhead'
  BY <1>0, <1>2 DEF EndAhead, Current, FromSeq
<1>3. ASSUME NEW k \in Client, Receive(k) PROVE EndAhead'
  <2> DEFINE h == buf[Current(k)][1]
  <2>1. /\ UNCHANGED <<status, chunks, nextSeq, closed, attempt>>
        /\ \A j \in Client : j # k => conn'[j] = conn[j] /\ FromSeq(j)' = FromSeq(j)
        /\ FromSeq(k)' = h.seq + 1
    BY <1>0, <1>3, TakeEffect, ReceiveEffect
  <2>2. SUFFICES ASSUME conn'[k] = "streaming", status # "running"
                 PROVE  h.seq + 1 < nextSeq
    BY <1>0, <2>1 DEF EndAhead, Current
  <2>3. Current(k) \in Chan /\ 1 \in 1..Len(buf[Current(k)])
    BY <1>0, <1>3, TakeEffect
  <2>4. h = Head(buf[Current(k)])
    <3>1. buf[Current(k)] \in Seq(Chunk) /\ buf[Current(k)] # <<>>
      BY <1>0, <1>3, <2>3 DEF TypeOK, Receive
    <3>2. QED  BY <3>1, ChunkSequences
  <2>5. h.kind # "done"
    BY <1>0, <1>3, <2>2, <2>4 DEF Receive, TypeOK
  <2>6. PICK j \in 1..nextSeq : h = chunks[j]
    BY <2>3 DEF EndInv, OnlyRecorded, Recorded
  <2>7. j # nextSeq
    BY <2>2, <2>5, <2>6 DEF EndInv, EndsWithDone
  <2>8. h.seq = j - 1
    BY <1>0, <2>6 DEF SeqIsPosition
  <2>9. QED  BY <1>0, <2>6, <2>7, <2>8
<1>4. ASSUME NEW k \in Client, Subscribe(k) PROVE EndAhead'
  <2>1. /\ UNCHANGED <<status, nextSeq, seen>> /\ Current(k)' = Fresh(k)
        /\ \A j \in Client : j # k => Current(j)' = Current(j) /\ conn'[j] = conn[j]
    BY <1>0, <1>4, SubscribeEffect
  <2>2. status # "running" => closed' = closed \cup {Fresh(k)}
    BY <1>4 DEF Subscribe, Fresh
  <2>3. status = "running" => closed' = closed
    BY <1>4 DEF Subscribe
  <2>4. \A j \in Client : FromSeq(j)' = FromSeq(j)
    BY <2>1 DEF FromSeq
  <2>5. QED  BY <1>0, <2>1, <2>2, <2>3, <2>4 DEF EndAhead
<1>5. ASSUME NEW k \in Client, WriteFails(k) \/ LeaveStep(k) \/ Cancel(k) PROVE EndAhead'
  <2>1. \A j \in Client : conn'[j] = "streaming" => conn[j] = "streaming"
    BY <1>0, <1>5 DEF WriteFails, LeaveStep, Cancel, TypeOK
  <2>2. UNCHANGED <<status, nextSeq, seen, attempt>> /\ closed \subseteq closed'
    BY <1>5 DEF WriteFails, LeaveStep, Cancel, record, channels
  <2>3. QED  BY <1>2, <2>1, <2>2
<1>6. QED
  BY <1>1, <1>2, <1>3, <1>4, <1>5
     DEF StreamStep, QuietStep, SendChunk, SkipChunk, channels, clients, fanout, record

\* A stream whose exec is over and whose fan-out is done waits for nothing
\* but heartbeats only if the terminal chunk was skipped: what GetOutputStream
\* needs to end is in its channel, or its channel is closed.
THEOREM QuietStreamsEndHolds == Spec => []QuietStreamsEnd
<1>1. Init => EndInv
  BY DEF Init, EndInv, EndsWithDone, OnlyRecorded, EndAhead
<1>2. Inv /\ EndInv /\ [Next]_vars => EndInv'
  BY StepCases, EndsWithDoneStep, RecordedStep, EndAheadStep DEF Inv, EndInv
<1>3. Inv /\ EndInv => QuietStreamsEnd
  <2> SUFFICES ASSUME Inv, EndInv, NEW k \in Client, conn[k] = "streaming",
                      status # "running", targets = {}, buf[Current(k)] = <<>>,
                      Current(k) \notin closed
               PROVE  DoneSkipped(k)
    BY DEF QuietStreamsEnd
  <2>1. nextSeq \in Nat /\ FromSeq(k) \in Nat /\ FromSeq(k) < nextSeq
    BY BufferTypes DEF Inv, EndInv, EndAhead
  <2>2. Pending(k, nextSeq - 1)
    BY <2>1 DEF Inv, NothingLost
  <2>3. QED  BY <2>2 DEF Pending, DoneSkipped
<1>4. QED  BY <1>1, <1>2, <1>3, InvCorrect, PTL DEF Spec
-----------------------------------------------------------------------------
(***************************************************************************)
(* The output cap.                                                         *)
(***************************************************************************)
LEMMA CapStep ==
  TypeOK /\ OutputIsCapped /\ [Next]_vars => OutputIsCapped'
<1> SUFFICES ASSUME TypeOK, OutputIsCapped, [Next]_vars PROVE OutputIsCapped'
  OBVIOUS
<1> USE DEF record, fanout, channels, clients
<1>n. /\ offered \in Nat /\ outputBytes \in Nat /\ maxOutputBytes \in 1..HardCap
      /\ HardCap \in Nat /\ truncated \in BOOLEAN
  BY ConstantsOK DEF TypeOK
<1>1. ASSUME NEW n \in FrameSizes, AppendChunk(n) PROVE OutputIsCapped'
  <2>1. /\ n \in Nat \ {0} /\ maxOutputBytes - outputBytes > 0
        /\ offered' = offered + n /\ maxOutputBytes' = maxOutputBytes
        /\ outputBytes' = outputBytes + MinOf(n, maxOutputBytes - outputBytes)
        /\ truncated' = (truncated \/ n > maxOutputBytes - outputBytes)
    BY <1>1, ConstantsOK DEF AppendChunk, Remaining
  <2>2. outputBytes = offered /\ ~truncated
    BY <1>n, <2>1 DEF OutputIsCapped, MinOf
  <2>3. truncated' <=> n > maxOutputBytes - outputBytes
    BY <2>1, <2>2
  <2>4. QED  BY <1>n, <2>1, <2>2, <2>3 DEF OutputIsCapped, MinOf
<1>2. ASSUME NEW n \in FrameSizes, AppendPastCap(n) PROVE OutputIsCapped'
  <2>1. /\ n \in Nat \ {0} /\ maxOutputBytes - outputBytes <= 0
        /\ offered' = offered + n /\ UNCHANGED <<maxOutputBytes, outputBytes>>
        /\ truncated' = TRUE
    BY <1>2, ConstantsOK DEF AppendPastCap, Remaining
  <2>2. QED  BY <1>n, <2>1 DEF OutputIsCapped, MinOf
<1>3. CASE UNCHANGED <<maxOutputBytes, outputBytes, truncated, offered>>
  BY <1>3 DEF OutputIsCapped, MinOf
<1>4. CASE DoneFrame \/ StreamClosed \/ UNCHANGED vars
  BY <1>3, <1>4 DEF DoneFrame, StreamClosed, vars
<1>5. CASE FanOut
  BY <1>3, <1>5 DEF FanOut, SendChunk, SkipChunk, SendOnClosed
<1>6. ASSUME NEW k \in Client, Serve(k) PROVE OutputIsCapped'
  BY <1>3, <1>6 DEF Serve, Subscribe, Receive, WriteFails, ChannelClosed, Disconnect,
                    Cancel
<1>7. ASSUME NEW p \in Poller, PollCall(p) PROVE OutputIsCapped'
  BY <1>3, <1>7 DEF PollCall
<1>8. QED  BY <1>1, <1>2, <1>4, <1>5, <1>6, <1>7 DEF Next, Produce

\* Whatever limit a caller asks for, a record keeps exactly the first
\* maxOutputBytes bytes and flags the loss of any other (NewExecRecord,
\* Append).
THEOREM OutputIsCappedHolds == Spec => []OutputIsCapped
<1>1. Init => OutputIsCapped
  <2> SUFFICES ASSUME Init PROVE OutputIsCapped
    OBVIOUS
  <2>1. maxOutputBytes \in 1..HardCap /\ HardCap \in Nat
    BY ClampedLimit, ConstantsOK DEF Init
  <2>2. QED  BY <2>1 DEF Init, OutputIsCapped, MinOf
<1>2. QED  BY <1>1, CapStep, TypeCorrect, PTL DEF Spec
-----------------------------------------------------------------------------
(***************************************************************************)
(* The pollers.                                                            *)
(***************************************************************************)

\* A record that finished never changes again.
LEMMA FinishedIsFinal ==
  RunningUntilFinish /\ status # "running" /\ [Next]_vars
    => UNCHANGED <<status, chunks, truncated>>
<1> SUFFICES ASSUME RunningUntilFinish, status # "running", [Next]_vars
             PROVE  UNCHANGED <<status, chunks, truncated>>
  OBVIOUS
<1> USE DEF record, fanout
<1>1. CASE Produce
  BY <1>1 DEF Produce, AppendChunk, AppendPastCap, ReadyForFrame, DoneFrame,
              StreamClosed, Finish, RunningUntilFinish
<1>2. CASE FanOut
  BY <1>2 DEF FanOut, SendChunk, SkipChunk, SendOnClosed
<1>3. ASSUME NEW k \in Client, Serve(k) PROVE UNCHANGED <<status, chunks, truncated>>
  BY <1>3 DEF Serve, Subscribe, Receive, WriteFails, ChannelClosed, Disconnect,
              Cancel
<1>4. CASE (\E p \in Poller : PollCall(p)) \/ UNCHANGED vars
  BY <1>4 DEF PollCall, vars
<1>5. QED  BY <1>1, <1>2, <1>3, <1>4 DEF Next

\* A poller that saw a terminal status read a record that is final, so its
\* second read, whenever it comes, sees the whole output.
PollsFinal ==
  \A p \in Poller : poll[p].status # "running" =>
    /\ status # "running" /\ poll[p].truncated = truncated
    /\ poll[p].step > Len(PollOrder) => poll[p].upto = Len(chunks)

LEMMA PollStep ==
  TypeOK /\ RunningUntilFinish /\ PollsFinal /\ [Next]_vars => PollsFinal'
<1> SUFFICES ASSUME TypeOK, RunningUntilFinish, PollsFinal, [Next]_vars
             PROVE  PollsFinal'
  OBVIOUS
<1>1. CASE UNCHANGED poll
  BY <1>1, FinishedIsFinal DEF PollsFinal
<1>2. ASSUME NEW p \in Poller, PollCall(p) PROVE PollsFinal'
  <2> DEFINE req == poll[p]
  <2>1. /\ UNCHANGED <<status, chunks, truncated>> /\ req.step \in DOMAIN PollOrder
        /\ poll' = [poll EXCEPT ![p] =
             IF PollOrder[req.step] = "snapshot"
             THEN [req EXCEPT !.step = req.step + 1, !.status = status,
                              !.truncated = truncated]
             ELSE [req EXCEPT !.step = req.step + 1, !.upto = Len(chunks)]]
    BY <1>2 DEF PollCall, record
  <2>2. Len(PollOrder) = 2 /\ DOMAIN PollOrder = 1..2
          /\ PollOrder[1] = "snapshot" /\ PollOrder[2] = "output"
    BY DEF PollOrder
  <2>3. /\ \A q \in Poller : q # p => poll'[q] = poll[q]
        /\ poll'[p] = IF PollOrder[req.step] = "snapshot"
             THEN [req EXCEPT !.step = req.step + 1, !.status = status,
                              !.truncated = truncated]
             ELSE [req EXCEPT !.step = req.step + 1, !.upto = Len(chunks)]
    BY <2>1 DEF TypeOK
  <2>4. req \in [step : 1..3, status : {"running", "completed", "errored"},
                 truncated : BOOLEAN, upto : Nat]
    BY <2>2 DEF TypeOK
  <2> HIDE DEF req
  <2>5. CASE req.step = 1
    <3>1. poll'[p].step = 2 /\ poll'[p].status = status
            /\ poll'[p].truncated = truncated
      BY <2>2, <2>3, <2>4, <2>5
    <3>2. QED  BY <2>1, <2>2, <2>3, <3>1 DEF PollsFinal
  <2>6. CASE req.step = 2
    <3>1. poll'[p].status = req.status /\ poll'[p].truncated = req.truncated
            /\ poll'[p].upto = Len(chunks)
      BY <2>2, <2>3, <2>4, <2>6
    <3>2. QED  BY <2>1, <2>3, <3>1 DEF PollsFinal, req
  <2>7. QED  BY <2>1, <2>2, <2>5, <2>6
<1>3. CASE UNCHANGED vars
  BY <1>1, <1>3 DEF vars
<1>4. CASE Produce \/ FanOut
  BY <1>1, <1>4 DEF Produce, AppendChunk, AppendPastCap, DoneFrame, StreamClosed,
                    FanOut, SendChunk, SkipChunk, SendOnClosed
<1>5. ASSUME NEW k \in Client, Serve(k) PROVE PollsFinal'
  BY <1>1, <1>5 DEF Serve, Subscribe, Receive, WriteFails, ChannelClosed, Disconnect,
                    Cancel
<1>6. QED  BY <1>2, <1>3, <1>4, <1>5 DEF Next

\* An answer of GetOutput that says the exec is over carries its whole
\* output, although the handler reads the record twice.
THEOREM PollConsistentHolds == Spec => []PollConsistent
<1>1. Init => PollsFinal
  BY DEF Init, PollsFinal
<1>2. Inv => TypeOK /\ RunningUntilFinish
  BY DEF Inv
<1>3. TypeOK /\ PollsFinal => PollConsistent
  BY DEF PollsFinal, PollConsistent
<1>4. QED  BY <1>1, <1>2, <1>3, PollStep, InvCorrect, PTL DEF Spec
-----------------------------------------------------------------------------
(***************************************************************************)
(* The record implements the abstract log.                                 *)
(***************************************************************************)
log == [i \in 1..Len(chunks) |-> chunks[i].kind]

\* A running record has no terminal chunk.
RunningHasNoDone ==
  status = "running" => \A i \in 1..Len(chunks) : chunks[i].kind # "done"

LEMMA NoDoneStep ==
  TypeOK /\ SeqIsPosition /\ RunningUntilFinish /\ RunningHasNoDone /\ [Next]_vars
    => RunningHasNoDone'
<1> SUFFICES ASSUME TypeOK, SeqIsPosition, RunningUntilFinish, RunningHasNoDone,
                    [Next]_vars
             PROVE  RunningHasNoDone'
  OBVIOUS
<1> USE DEF record, fanout, channels, clients
<1>1. CASE UNCHANGED <<status, chunks>> \/ status' # "running"
  BY <1>1 DEF RunningHasNoDone
<1>2. ASSUME NEW n \in FrameSizes, AppendChunk(n) PROVE RunningHasNoDone'
  <2>1. chunks' = Append(chunks, [seq |-> nextSeq, kind |-> "output"])
          /\ UNCHANGED status
    BY <1>2 DEF AppendChunk, Publish
  <2>2. [seq |-> nextSeq, kind |-> "output"] \in Chunk /\ chunks \in Seq(Chunk)
          /\ Len(chunks) \in Nat
    BY LenProperties DEF TypeOK, Chunk
  <2> DEFINE x == [seq |-> nextSeq, kind |-> "output"]
  <2>3. x.kind # "done"
    OBVIOUS
  <2> HIDE DEF x
  <2>4. Len(chunks') = Len(chunks) + 1 /\ chunks'[Len(chunks) + 1] = x
          /\ \A i \in 1..Len(chunks) : chunks'[i] = chunks[i]
    BY <2>1, <2>2, AppendElements DEF x
  <2>5. \A i \in 1..Len(chunks') : i \in 1..Len(chunks) \/ i = Len(chunks) + 1
    BY <2>2, <2>4
  <2>6. QED  BY <2>1, <2>3, <2>4, <2>5 DEF RunningHasNoDone
<1>3. CASE DoneFrame \/ StreamClosed
  BY <1>1, <1>3 DEF DoneFrame, StreamClosed, Finish
<1>4. CASE UNCHANGED <<status, chunks>>
  BY <1>1, <1>4
<1>5. CASE (\E n \in FrameSizes : AppendPastCap(n)) \/ FanOut \/ UNCHANGED vars
  BY <1>4, <1>5 DEF AppendPastCap, FanOut, SendChunk, SkipChunk, SendOnClosed, vars
<1>6. ASSUME NEW k \in Client, Serve(k) PROVE RunningHasNoDone'
  BY <1>4, <1>6 DEF Serve, Subscribe, Receive, WriteFails, ChannelClosed, Disconnect,
                    Cancel
<1>7. ASSUME NEW p \in Poller, PollCall(p) PROVE RunningHasNoDone'
  BY <1>4, <1>7 DEF PollCall
<1>8. QED  BY <1>2, <1>3, <1>5, <1>6, <1>7 DEF Next, Produce

\* Publish writes the log, a received event reads it, the rest stutters.
LEMMA LogStep ==
  Inv /\ RunningHasNoDone /\ [Next]_vars => [Abstract!Next]_(Abstract!vars)
<1> SUFFICES ASSUME Inv, RunningHasNoDone, [Next]_vars
             PROVE  Abstract!Next \/ UNCHANGED <<log, seen>>
  BY DEF Abstract!vars, log
<1> USE DEF Inv
<1>1. StreamStep
  BY StepCases
<1>2. chunks \in Seq(Chunk) /\ Len(chunks) \in Nat
  BY LenProperties DEF TypeOK
<1>3. CASE PublishStep
  <2>1. PICK kind \in {"output", "done"} : Publish(kind)
    BY <1>3 DEF PublishStep
  <2> DEFINE x == [seq |-> nextSeq, kind |-> kind]
  <2>2. x \in Chunk /\ x.kind = kind /\ chunks' = Append(chunks, x)
    BY <2>1 DEF Publish, TypeOK, Chunk
  <2> HIDE DEF x
  <2>3. /\ Len(chunks') = Len(chunks) + 1 /\ chunks'[Len(chunks) + 1] = x
        /\ \A i \in 1..Len(chunks) : chunks'[i] = chunks[i]
    BY <1>2, <2>2, AppendElements
  <2>4. log' = Append(log, kind)
    <3>1. log \in Seq(Abstract!Kinds) /\ Len(log) = Len(chunks)
      <4>1. \A i \in 1..Len(chunks) : chunks[i].kind \in Abstract!Kinds
        <5>1. \A i \in 1..Len(chunks) : chunks[i] \in Chunk
          BY <1>2, ElementOfSeq
        <5>2. QED  BY <5>1 DEF Chunk, Abstract!Kinds
      <4>2. QED  BY <1>2, <4>1 DEF log
    <3>2. kind \in Abstract!Kinds
      BY DEF Abstract!Kinds
    <3>3. /\ Append(log, kind) \in [1..(Len(chunks) + 1) -> Abstract!Kinds]
          /\ \A i \in 1..Len(chunks) : Append(log, kind)[i] = log[i]
          /\ Append(log, kind)[Len(chunks) + 1] = kind
      <4>1. Append(log, kind) \in Seq(Abstract!Kinds)
              /\ Len(Append(log, kind)) = Len(chunks) + 1
        BY <3>1, <3>2, AppendProperties
      <4>2. Append(log, kind) \in [1..(Len(chunks) + 1) -> Abstract!Kinds]
        BY <4>1, LenProperties
      <4>3. QED  BY <3>1, <3>2, <4>2, AppendElements
    <3>4. \A i \in 1..(Len(chunks) + 1) :
            chunks'[i].kind = IF i = Len(chunks) + 1 THEN kind ELSE chunks[i].kind
      BY <1>2, <2>2, <2>3
    <3>5. log' = [i \in 1..(Len(chunks) + 1) |-> chunks'[i].kind]
      BY <2>3 DEF log
    <3>6. \A i \in 1..(Len(chunks) + 1) : chunks'[i].kind = Append(log, kind)[i]
      BY <1>2, <3>3, <3>4 DEF log
    <3>7. QED  BY <3>3, <3>5, <3>6
  <2>5. \A i \in 1..Len(log) : log[i] # "done"
    BY <1>2, <1>3 DEF PublishStep, RunningHasNoDone, log
  <2>6. UNCHANGED seen /\ kind \in Abstract!Kinds
    BY <1>3 DEF PublishStep, clients, Abstract!Kinds
  <2>7. QED  BY <2>4, <2>5, <2>6 DEF Abstract!Next, Abstract!Write, log
<1>4. ASSUME NEW k \in Client, Receive(k) PROVE Abstract!Next
  <2> DEFINE h == buf[Current(k)][1].seq
  <2>1. h \in Nat /\ h < nextSeq /\ nextSeq = Len(chunks)
    BY <1>4, HeadIsOldest DEF SeqIsPosition
  <2>2. Len(log) = Len(chunks) /\ log' = log
    BY <1>2, <1>4 DEF log, Receive, record
  <2>3. seen' = [seen EXCEPT ![k] = Append(@, h)]
    <3>1. buf[Current(k)] \in Seq(Chunk) /\ buf[Current(k)] # <<>>
      BY <1>4, TakeEffect DEF TypeOK, Receive
    <3>2. Head(buf[Current(k)]) = buf[Current(k)][1]
      BY <3>1, ChunkSequences
    <3>3. QED  BY <1>4, <3>2 DEF Receive
  <2>4. \A i \in 1..Len(seen[k]) : seen[k][i] < h
    <3>1. 1 \in 1..Len(buf[Current(k)]) /\ conn[k] = "streaming"
      BY <1>4, TakeEffect
    <3>2. FromSeq(k) <= h
      BY <3>1 DEF SeenBeforeBuffered
    <3>3. \A i \in 1..Len(seen[k]) : seen[k][i] \in Nat
      BY ElementOfSeq DEF TypeOK
    <3> HIDE DEF h
    <3>4. QED  BY <2>1, <3>2, <3>3, ResumePoint, FromSeqType
  <2>5. h \in 0..(Len(log) - 1)
    BY <1>2, <2>1, <2>2
  <2> HIDE DEF h
  <2>6. Abstract!Read(k)
    BY <2>2, <2>3, <2>4, <2>5 DEF Abstract!Read, log
  <2>7. QED  BY <2>6 DEF Abstract!Next
<1>5. CASE UNCHANGED <<chunks, seen>>
  BY <1>5 DEF log
<1>6. QED
  BY <1>1, <1>3, <1>4, <1>5
     DEF StreamStep, QuietStep, SendChunk, SkipChunk, Subscribe, WriteFails, LeaveStep,
         Cancel, record, clients

\* A record and its SSE streams implement the log OutputLog describes: its
\* history grows by single entries and ends with its only terminal one, and
\* over any number of connections a client reads it forwards.
THEOREM RefinesOutputLogHolds == Spec => RefinesOutputLog
<1>1. Init => Abstract!Init /\ RunningHasNoDone
  <2> SUFFICES ASSUME Init PROVE Abstract!Init /\ RunningHasNoDone
    OBVIOUS
  <2>1. chunks = <<>> /\ seen = [k \in Client |-> <<>>]
    BY DEF Init
  <2>2. [i \in 1..Len(chunks) |-> chunks[i].kind] = <<>>
    BY <2>1
  <2>3. QED  BY <2>1, <2>2 DEF Abstract!Init, RunningHasNoDone
<1>2. Inv => TypeOK /\ SeqIsPosition /\ RunningUntilFinish
  BY DEF Inv
<1>3. Spec => []RunningHasNoDone
  BY <1>1, <1>2, NoDoneStep, InvCorrect, PTL DEF Spec
<1>4. QED
  BY <1>1, <1>3, LogStep, InvCorrect, PTL DEF Spec, RefinesOutputLog, Abstract!Spec
=============================================================================
