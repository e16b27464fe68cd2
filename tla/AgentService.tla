----------------------------- MODULE AgentService -----------------------------
(***************************************************************************)
(* What the guest agent promises to its clients about each Exec call: the  *)
(* process's output arrives on the call's stream, a Done frame comes last  *)
(* and only after all the output, an unbroken stream ends only so or with  *)
(* a refusal, and what is written to the stdin of a registered call is     *)
(* accepted until the stdin is closed, which happens once and before Done. *)
(* GuestAgent implements it; ExecPipeline uses it in place of the agent.   *)
(***************************************************************************)
EXTENDS Naturals, Sequences

CONSTANTS
  Call,      \* Exec calls
  Writer,    \* StdinWrite requests
  Window     \* frames the transport takes ahead of the client

ASSUME WindowOK == Window \in Nat \ {0}

VARIABLES
  phase,     \* idle, called, running (registered), done, over (returned)
  wrote,     \* frames' worth of output the process has written, per stream
  sent,      \* frames of it that went into the stream
  wire,      \* frames the client has not received yet
  link,      \* "up", or "cut": cancelled by the client or broken
  stdin,     \* "open" or "closed"
  input      \* the writes the process's stdin has accepted, in order

agentVars == <<phase, wrote, sent, wire, link, stdin, input>>

Stream == {"out", "err"}
Frame == Stream \cup {"done"}

AgentInit ==
  /\ phase = [c \in Call |-> "idle"]
  /\ wrote = [c \in Call |-> [s \in Stream |-> 0]]
  /\ sent = [c \in Call |-> [s \in Stream |-> 0]]
  /\ wire = [c \in Call |-> <<>>]
  /\ link = [c \in Call |-> "up"]
  /\ stdin = [c \in Call |-> "open"]
  /\ input = [c \in Call |-> <<>>]

\* A call arrives; it is registered, or over at once with an error.
Begin(c) ==
  /\ phase[c] = "idle" /\ phase' = [phase EXCEPT ![c] = "called"]
  /\ UNCHANGED <<wrote, sent, wire, link, stdin, input>>

Enroll(c) ==
  /\ phase[c] = "called" /\ phase' = [phase EXCEPT ![c] = "running"]
  /\ UNCHANGED <<wrote, sent, wire, link, stdin, input>>

Refuse(c) ==
  /\ phase[c] = "called" /\ phase' = [phase EXCEPT ![c] = "over"]
  /\ stdin' = [stdin EXCEPT ![c] = "closed"]
  /\ UNCHANGED <<wrote, sent, wire, link, input>>

\* The process writes, before and after its call is registered.
Produce(c, s) ==
  /\ phase[c] \in {"called", "running"}
  /\ wrote' = [wrote EXCEPT ![c][s] = @ + 1]
  /\ UNCHANGED <<phase, sent, wire, link, stdin, input>>

Output(c, s) ==
  /\ phase[c] = "running" /\ link[c] = "up"
  /\ sent[c][s] < wrote[c][s] /\ Len(wire[c]) < Window
  /\ sent' = [sent EXCEPT ![c][s] = @ + 1]
  /\ wire' = [wire EXCEPT ![c] = Append(@, s)]
  /\ UNCHANGED <<phase, wrote, link, stdin, input>>

\* The process is gone: Done if the stream still stands, else nothing.
Finish(c) ==
  /\ phase[c] = "running" /\ stdin[c] = "closed" /\ link[c] = "up"
  /\ sent[c] = wrote[c] /\ Len(wire[c]) < Window
  /\ phase' = [phase EXCEPT ![c] = "done"]
  /\ wire' = [wire EXCEPT ![c] = Append(@, "done")]
  /\ UNCHANGED <<wrote, sent, link, stdin, input>>

GiveUp(c) ==
  /\ phase[c] = "running" /\ stdin[c] = "closed" /\ link[c] = "cut"
  /\ phase' = [phase EXCEPT ![c] = "done"]
  /\ UNCHANGED <<wrote, sent, wire, link, stdin, input>>

Return(c) ==
  /\ phase[c] = "done" /\ phase' = [phase EXCEPT ![c] = "over"]
  /\ UNCHANGED <<wrote, sent, wire, link, stdin, input>>

\* A write to the stdin of a registered call, and its end.
Feed(c, w) ==
  /\ phase[c] = "running" /\ stdin[c] = "open"
  /\ input' = [input EXCEPT ![c] = Append(@, w)]
  /\ UNCHANGED <<phase, wrote, sent, wire, link, stdin>>

CloseInput(c) ==
  /\ phase[c] = "running" /\ stdin[c] = "open"
  /\ stdin' = [stdin EXCEPT ![c] = "closed"]
  /\ UNCHANGED <<phase, wrote, sent, wire, link, input>>

\* The client receives a frame; the stream breaks or is cancelled.
Deliver(c) ==
  /\ wire[c] # <<>> /\ wire' = [wire EXCEPT ![c] = Tail(@)]
  /\ UNCHANGED <<phase, wrote, sent, link, stdin, input>>

Cut(c) ==
  /\ link[c] = "up" /\ link' = [link EXCEPT ![c] = "cut"]
  /\ UNCHANGED <<phase, wrote, sent, wire, stdin, input>>

ServeCall(c) ==
  \/ Enroll(c) \/ Refuse(c) \/ Finish(c) \/ GiveUp(c) \/ Return(c)
  \/ CloseInput(c) \/ \E s \in Stream : Produce(c, s) \/ Output(c, s)

AgentNext == \E c \in Call :
  \/ Begin(c) \/ ServeCall(c) \/ Deliver(c) \/ Cut(c)
  \/ \E w \in Writer : Feed(c, w)

AgentSpec == AgentInit /\ [][AgentNext]_agentVars
=============================================================================
