---------------------------- MODULE SandboxManager ----------------------------
(***************************************************************************)
(* The sandbox manager of the adapter (adapter/internal/sandbox/           *)
(* manager.go): Create, Get, Delete and the Reconcile of a restart, over   *)
(* three pieces of state that fail separately: the sandboxes table, the    *)
(* pods of the cluster and the in-memory map of agent clients.             *)
(*                                                                         *)
(* Every call to the cluster, the database or an agent is one action; it   *)
(* may fail, and a write may fail for the caller after it took effect.     *)
(*                                                                         *)
(* Abstractions.  A session id is drawn at random and the caller learns it *)
(* from the answer, so an id is created once, and read or deleted only     *)
(* afterwards.  A pod is absent, pending (no ready agent) or ready.        *)
(***************************************************************************)
EXTENDS Naturals, FiniteSets

CONSTANTS
  Sandbox,
  Getter,        \* requests that look a sandbox up, each made once
  MaxCrashes     \* bound: crashes of the adapter

ASSUME ConstantsOK == MaxCrashes \in Nat

VARIABLES
  adapter,       \* "serving", "down" or "reconciling"
  crashes,
  todo,          \* running rows Reconcile has still to look at
  row, cause,    \* status and end_cause columns
  pod,           \* the cluster
  agents,        \* sandboxes with a cached agent client
  create,        \* progress of POST sandbox
  ctx,           \* is that request's context still live?
  del,           \* progress of DELETE sandbox
  getter,        \* the lookups
  leaked,        \* history: pods some step gave up on
  skipped,       \* history: running rows left without a client, and
  unready        \* those Reconcile left because the pod was not ready

process == <<adapter, crashes, todo>>
table   == <<row, cause>>
history == <<leaked, skipped, unready>>
vars == <<process, table, pod, agents, create, ctx, del, getter, history>>

Creating == {"waiting", "pinging", "inserting", "caching", "cleanup"}
Deleting == {"closing", "deletingPod"}

Init ==
  /\ adapter = "serving" /\ crashes = 0 /\ todo = {}
  /\ row = [s \in Sandbox |-> "none"] /\ cause = [s \in Sandbox |-> "none"]
  /\ pod = [s \in Sandbox |-> "absent"] /\ agents = {}
  /\ create = [s \in Sandbox |-> "idle"] /\ ctx = [s \in Sandbox |-> TRUE]
  /\ del = [s \in Sandbox |-> "no"]
  /\ getter = [g \in Getter |-> [step |-> 1, found |-> {}, agent |-> FALSE]]
  /\ leaked = {} /\ skipped = {} /\ unready = {}

Serving == adapter = "serving"
Known(s) == create[s] = "created" /\ ctx[s]     \* the answer arrived
CreateAt(s, step) == Serving /\ create[s] = step
ThenCreate(s, step) == create' = [create EXCEPT ![s] = step]
ThenDelete(s, step) == del' = [del EXCEPT ![s] = step]
SetPod(s, phase) == pod' = [pod EXCEPT ![s] = phase]

\* DeleteSandboxPod; and a regression that does not call it.
KeepPod(s) == pod' = pod
DeleteSandboxPod(s) == SetPod(s, "absent")
-----------------------------------------------------------------------------
(***************************************************************************)
(* Create.                                                                 *)
(***************************************************************************)

\* CreateSandboxPod: done, refused, or done and reported as an error, after
\* which nobody deletes the pod.
CreatePod(s) ==
  /\ CreateAt(s, "idle")
  /\ \/ ThenCreate(s, "waiting") /\ SetPod(s, "pending") /\ UNCHANGED leaked
     \/ ThenCreate(s, "failed") /\ UNCHANGED <<pod, leaked>>
     \/ /\ ThenCreate(s, "failed") /\ SetPod(s, "pending")
        /\ leaked' = leaked \cup {s}
  /\ UNCHANGED <<process, table, agents, ctx, del, getter, skipped, unready>>

\* waitForPodReady and pingAgent poll; each ends with an error when the pod
\* is gone, the API fails, the context ends or the time is up.
PodIsReady(s) ==
  /\ CreateAt(s, "waiting") /\ ctx[s] /\ pod[s] = "ready"
  /\ ThenCreate(s, "pinging")
  /\ UNCHANGED <<process, table, pod, agents, ctx, del, getter, history>>

AgentAnswers(s) ==
  /\ CreateAt(s, "pinging") /\ ctx[s] /\ pod[s] = "ready"
  /\ ThenCreate(s, "inserting")
  /\ UNCHANGED <<process, table, pod, agents, ctx, del, getter, history>>

\* A regression: no deadline, only a context that ends stops the polling.
PollsForever(s) == ~ctx[s]
PollingEnds(s) == TRUE

PollFails(s) ==
  /\ Serving /\ create[s] \in {"waiting", "pinging"} /\ PollingEnds(s)
  /\ ThenCreate(s, "cleanup")
  /\ UNCHANGED <<process, table, pod, agents, ctx, del, getter, history>>

\* The INSERT, the last step that can fail.
InsertRow(s) ==
  /\ CreateAt(s, "inserting")
  /\ row' = [row EXCEPT ![s] = "running"]
  /\ \/ ctx[s] /\ ThenCreate(s, "caching") /\ UNCHANGED skipped
     \/ ThenCreate(s, "cleanup") /\ skipped' = skipped \cup {s}  \* ack lost
  /\ UNCHANGED <<process, cause, pod, agents, ctx, del, getter, leaked,
                 unready>>

InsertFails(s) ==
  /\ CreateAt(s, "inserting")
  /\ ThenCreate(s, "cleanup")
  /\ UNCHANGED <<process, table, pod, agents, ctx, del, getter, history>>

\* Every failure deletes the pod, with the request's own context and best
\* effort.
Cleanup(s) ==
  /\ CreateAt(s, "cleanup")
  /\ ThenCreate(s, "failed")
  /\ \/ ctx[s] /\ DeleteSandboxPod(s) /\ UNCHANGED leaked
     \/ /\ leaked' = IF pod[s] = "absent" THEN leaked ELSE leaked \cup {s}
        /\ UNCHANGED pod
  /\ UNCHANGED <<process, table, agents, ctx, del, getter, skipped, unready>>

NotCached(s) == agents                  \* a regression: the map is not filled
Cached(s) == agents \cup {s}

CacheAgent(s) ==
  /\ CreateAt(s, "caching")
  /\ agents' = Cached(s)
  /\ ThenCreate(s, "created")
  /\ UNCHANGED <<process, table, pod, ctx, del, getter, history>>

\* The caller goes away: net/http cancels the request's context.
CancelCreate(s) ==
  /\ Serving /\ create[s] \in Creating /\ ctx[s]
  /\ ctx' = [ctx EXCEPT ![s] = FALSE]
  /\ UNCHANGED <<process, table, pod, agents, create, del, getter, history>>

Create(s) == \/ CreatePod(s) \/ PodIsReady(s) \/ AgentAnswers(s) \/ PollFails(s)
             \/ InsertRow(s) \/ InsertFails(s) \/ Cleanup(s) \/ CacheAgent(s)
-----------------------------------------------------------------------------
(***************************************************************************)
(* Delete.  While one is at work a repeated one returns at once.           *)
(***************************************************************************)

\* The rows the UPDATE affects; a regression without "status != 'ended'".
EndsAgain(s) == row[s] # "none"
Ends(s) == row[s] = "running"

\* The end_cause it writes; a regression leaves the column NULL.
NoCause == "none"
KillCause == "user_kill"

EndRow(s) ==
  /\ Serving /\ Known(s) /\ del[s] \notin Deleting /\ Ends(s)
  /\ row' = [row EXCEPT ![s] = "ended"]
  /\ cause' = [cause EXCEPT ![s] = KillCause]
  /\ \/ ThenDelete(s, "closing") /\ UNCHANGED leaked
     \/ ThenDelete(s, "failed") /\ leaked' = leaked \cup {s}    \* ack lost
  /\ UNCHANGED <<process, pod, agents, create, ctx, getter, skipped, unready>>

\* Nothing to end: success, without touching the cluster.
RepeatDelete(s) ==
  /\ Serving /\ Known(s) /\ del[s] \notin Deleting /\ ~Ends(s)
  /\ ThenDelete(s, "answered")
  /\ UNCHANGED <<process, table, pod, agents, create, ctx, getter, history>>

KeepAgent(s) == agents             \* a regression: the client stays cached
WithoutAgent(s) == agents \ {s}

CloseAgent(s) ==
  /\ Serving /\ del[s] = "closing"
  /\ agents' = WithoutAgent(s)
  /\ ThenDelete(s, "deletingPod")
  /\ UNCHANGED <<process, table, pod, create, ctx, getter, history>>

\* NotFound counts as success; any other error fails the request.
DeletePod(s) ==
  /\ Serving /\ del[s] = "deletingPod"
  /\ \/ DeleteSandboxPod(s) /\ ThenDelete(s, "answered") /\ UNCHANGED leaked
     \/ /\ pod[s] # "absent" /\ leaked' = leaked \cup {s}
        /\ ThenDelete(s, "failed") /\ UNCHANGED pod
  /\ UNCHANGED <<process, table, agents, create, ctx, getter, skipped, unready>>

Delete(s) == EndRow(s) \/ RepeatDelete(s) \/ CloseAgent(s) \/ DeletePod(s)
-----------------------------------------------------------------------------
(***************************************************************************)
(* Get: the row, then the cached client.                                   *)
(***************************************************************************)
GetRow(g, s) ==
  /\ Serving /\ Known(s) /\ getter[g].step = 1
  /\ getter' = [getter EXCEPT ![g] =
       IF row[s] = "running"
       THEN [step |-> 2, found |-> {s}, agent |-> FALSE]
       ELSE [step |-> 3, found |-> {}, agent |-> FALSE]]      \* not found
  /\ UNCHANGED <<process, table, pod, agents, create, ctx, del, history>>

GetAgent(g) ==
  /\ Serving /\ getter[g].step = 2
  /\ getter' = [getter EXCEPT ![g] =
       [step |-> 3, found |-> getter[g].found,
        agent |-> getter[g].found \subseteq agents]]
  /\ UNCHANGED <<process, table, pod, agents, create, ctx, del, history>>

Lookup(g) == GetAgent(g) \/ \E s \in Sandbox : GetRow(g, s)
-----------------------------------------------------------------------------
(***************************************************************************)
(* The cluster: a pod starts, becomes unready, or is lost with its node.   *)
(***************************************************************************)
PodChanges(s, phase) ==
  /\ pod[s] # "absent" /\ pod[s] # phase
  /\ SetPod(s, phase)
  /\ UNCHANGED <<process, table, agents, create, ctx, del, getter, history>>

Cluster(s) == \E phase \in {"pending", "ready", "absent"} : PodChanges(s, phase)
-----------------------------------------------------------------------------
(***************************************************************************)
(* Crash, restart and Reconcile, which ends before the adapter serves.     *)
(***************************************************************************)
InterruptedPods ==
  {s \in Sandbox : /\ pod[s] # "absent" /\ row[s] # "running"
                   /\ create[s] \in Creating \/ del[s] \in Deleting}

Crash ==
  /\ adapter # "down" /\ crashes < MaxCrashes
  /\ adapter' = "down" /\ crashes' = crashes + 1 /\ todo' = {} /\ agents' = {}
  /\ leaked' = leaked \cup InterruptedPods /\ skipped' = {}
  /\ unready' = {}
  /\ create' = [s \in Sandbox |->
                  IF create[s] \in Creating THEN "lost" ELSE create[s]]
  /\ del' = [s \in Sandbox |-> IF del[s] \in Deleting THEN "failed" ELSE del[s]]
  /\ getter' = [g \in Getter |->
       [step |-> 3, found |-> {}, agent |-> getter[g].agent]]
  /\ UNCHANGED <<table, pod, ctx>>

Restart ==
  /\ adapter = "down" /\ adapter' = "reconciling"
  /\ todo' = {s \in Sandbox : row[s] = "running"}
  /\ UNCHANGED <<crashes, table, pod, agents, create, ctx, del, getter, history>>

\* The pod is not found: markEnded.
HostFailed(s) ==
  /\ s \in todo /\ pod[s] = "absent"
  /\ todo' = todo \ {s}
  /\ row' = [row EXCEPT ![s] = "ended"]
  /\ cause' = [cause EXCEPT ![s] = "host_failed"]
  /\ UNCHANGED <<adapter, crashes, pod, agents, create, ctx, del, getter, history>>

\* The pod runs and the agent answers.
Reattach(s) ==
  /\ s \in todo /\ pod[s] = "ready"
  /\ todo' = todo \ {s}
  /\ agents' = Cached(s)
  /\ UNCHANGED <<adapter, crashes, table, pod, create, ctx, del, getter, history>>

\* The pod is not ready: left alone for later.
NotReady(s) ==
  /\ s \in todo /\ pod[s] = "pending"
  /\ todo' = todo \ {s} /\ unready' = unready \cup {s}
  /\ UNCHANGED <<adapter, crashes, table, pod, agents, create, ctx, del, getter,
                 leaked, skipped>>

\* A call to the cluster, the table or the agent fails: logged, no more.
CheckFails(s) ==
  /\ s \in todo
  /\ todo' = todo \ {s} /\ skipped' = skipped \cup {s}
  /\ UNCHANGED <<adapter, crashes, table, pod, agents, create, ctx, del, getter,
                 leaked, unready>>

Serve ==
  /\ adapter = "reconciling" /\ todo = {}
  /\ adapter' = "serving"
  /\ UNCHANGED <<crashes, todo, table, pod, agents, create, ctx, del, getter,
                 history>>

Recheck(s) == HostFailed(s) \/ Reattach(s) \/ NotReady(s) \/ CheckFails(s)
Recover == Restart \/ Serve \/ \E s \in Sandbox : Recheck(s)

Next ==
  \/ \E s \in Sandbox : Create(s) \/ CancelCreate(s) \/ Delete(s) \/ Cluster(s)
  \/ \E g \in Getter : Lookup(g)
  \/ Crash \/ Recover

Spec == Init /\ [][Next]_vars

\* A handler's calls return or time out, main goes on, and a pod that can
\* start keeps being started by the cluster.  Callers are under no obligation.
Fairness ==
  /\ WF_vars(Recover)
  /\ \A s \in Sandbox :
       /\ WF_vars(create[s] # "idle" /\ Create(s))
       /\ WF_vars(del[s] \in Deleting /\ Delete(s))
       /\ WF_vars(PodChanges(s, "ready"))
FairSpec == Spec /\ Fairness
-----------------------------------------------------------------------------
(***************************************************************************)
(* Properties.                                                             *)
(***************************************************************************)

\* The variables have the types of the columns and maps they stand for, and
\* a row has an end_cause exactly when it is ended.
TypeOK ==
  /\ adapter \in {"serving", "down", "reconciling"}
  /\ crashes \in 0..MaxCrashes /\ todo \subseteq Sandbox
  /\ row \in [Sandbox -> {"none", "running", "ended"}]
  /\ cause \in [Sandbox -> {"none", "user_kill", "host_failed"}]
  /\ \A s \in Sandbox : row[s] = "ended" <=> cause[s] # "none"
  /\ pod \in [Sandbox -> {"absent", "pending", "ready"}]
  /\ agents \subseteq Sandbox
  /\ create \in [Sandbox -> {"idle", "created", "failed", "lost"} \cup Creating]
  /\ ctx \in [Sandbox -> BOOLEAN]
  /\ del \in [Sandbox -> {"no", "failed", "answered"} \cup Deleting]
  /\ getter \in [Getter -> [step : 1..3, found : SUBSET Sandbox, agent : BOOLEAN]]
  /\ leaked \subseteq Sandbox /\ skipped \subseteq Sandbox /\ unready \subseteq Sandbox

\* Every pod has a running row, a handler that is creating or deleting it,
\* or is one a step gave up on: the failed or unacknowledged cluster call
\* of Create or Delete, the unacknowledged UPDATE, a crash in between.
PodsAreAccounted ==
  \A s \in Sandbox : pod[s] # "absent" =>
    \/ row[s] = "running" \/ s \in leaked
    \/ create[s] \in Creating \/ del[s] \in Deleting

\* While the adapter serves, a running sandbox has a client in the map,
\* unless Create is about to put it there, Reconcile left it alone or the
\* INSERT was not acknowledged.
RunningIsReachable ==
  Serving => \A s \in Sandbox : row[s] = "running" =>
    s \in agents \/ create[s] = "caching" \/ s \in skipped \cup unready

\* And conversely no client stays cached for a sandbox that ended, but for
\* the Delete at work and one whose UPDATE was not acknowledged.
NoClientOfEnded ==
  \A s \in agents : row[s] = "running" \/ del[s] = "closing" \/ s \in leaked

\* Get: the row is read before the map, so a running sandbox is returned
\* with a nil client only if a Delete came in between or Reconcile left it.
NilAgentExplained ==
  \A g \in Getter : getter[g].step = 3 /\ ~getter[g].agent =>
    \A s \in getter[g].found : row[s] = "ended" \/ s \in skipped \cup unready

\* The cause of an end is never rewritten: "AND status != 'ended'" keeps a
\* DELETE from turning host_failed into user_kill, and the reverse.
EndCauseIsFinal ==
  [][\A s \in Sandbox : row[s] = "ended" => row'[s] = "ended" /\ cause'[s] = cause[s]]_vars

\* To the exec handlers, which know a sandbox once its creation is answered,
\* the manager is SandboxSessions: a client appears only at the start or by
\* Reconcile, and only for a running row; Delete ends the row, closes the
\* client, then deletes the pod; no step undoes another's.
Answered(s) == create[s] = "created"
Abstract == INSTANCE SandboxSessions WITH
  adapter  <- IF Serving THEN "serving" ELSE "down",
  sandbox  <- [s \in Sandbox |-> IF Answered(s) THEN row[s] ELSE "running"],
  agents   <- {s \in Sandbox : Serving /\ (Answered(s) => s \in agents)},
  deleting <- [s \in Sandbox |-> IF del[s] \in Deleting THEN del[s] ELSE "no"]
ImplementsSessions == Abstract!SessionsSpec

\* Create is answered, whatever the pod does: both polls have a deadline.
CreateAnswers ==
  \A s \in Sandbox : create[s] \in Creating ~> create[s] \notin Creating

(***************************************************************************)
(* What comments of the code say and the code does not do.                 *)
(***************************************************************************)

\* manager.go:174 "If anything fails before the INSERT, the pod (if
\* created) is deleted": also when it fails because the caller went away.
FailedCreateLeavesNoPod ==
  \A s \in Sandbox : create[s] = "failed" /\ ~ctx[s] => pod[s] = "absent"

\* sandboxes.go:103 "Idempotent: repeated deletes return 204.  Exec records are
\* cleared after the pod is gone", manager.go:295 "the goal is for the pod to
\* not exist": once a DELETE has answered 204 there is no pod, also after one
\* that ended the row and got no further.
DeletedPodIsGone ==
  \A s \in Sandbox : del[s] = "answered" => pod[s] = "absent"
=============================================================================
