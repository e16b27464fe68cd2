------------------------- MODULE SandboxManagerProofs -------------------------
(***************************************************************************)
(* Proofs about SandboxManager, for any sets of sandboxes and lookups and  *)
(* any number of crashes, also of crashes that interrupt a Reconcile.      *)
(*                                                                         *)
(* A step of one sandbox's Create, Delete, pod or Reconcile leaves the     *)
(* other sandboxes alone (StepFrame), so the invariant is a statement      *)
(* about one sandbox, LifeCycle(s), and one about a lookup, LookupOK(g).   *)
(***************************************************************************)
EXTENDS SandboxManager, TLAPS

LifeCycle(s) ==
  \* the order of Create, Delete and the row
  /\ create[s] \in {"idle", "waiting", "pinging", "inserting"} => row[s] = "none"
  /\ create[s] \in Creating \cup {"idle"} => del[s] = "no"
  /\ create[s] = "caching" => row[s] = "running"
  /\ create[s] = "created" => row[s] # "none"
  /\ del[s] \in Deleting => row[s] = "ended" /\ create[s] = "created"
  \* what a crash leaves, and what Reconcile works on
  /\ ~Serving => create[s] \notin Creating /\ del[s] \notin Deleting
  /\ adapter = "down" => s \notin agents
  /\ ~Serving /\ s \in agents => row[s] = "running"
  /\ s \in todo => /\ adapter = "reconciling"
                   /\ row[s] = "running" /\ s \notin agents
  \* the pod, the client and the row
  /\ pod[s] # "absent" => \/ row[s] = "running" \/ s \in leaked
                          \/ create[s] \in Creating \/ del[s] \in Deleting
  /\ adapter # "down" /\ row[s] = "running" =>
       s \in agents \cup skipped \cup unready \cup todo \/ create[s] = "caching"
  /\ s \in agents => row[s] = "running" \/ del[s] = "closing" \/ s \in leaked

LookupOK(g) ==
  /\ getter[g].step = 1 => getter[g].found = {}
  /\ getter[g].step = 2 => Serving
  /\ \A s \in getter[g].found : create[s] = "created"
  /\ getter[g].step = 2 => \E s \in Sandbox : getter[g].found = {s}
  /\ getter[g].step = 3 /\ ~getter[g].agent =>
       \A s \in getter[g].found : row[s] = "ended" \/ s \in skipped \cup unready

Inv ==
  /\ TypeOK
  /\ \A s \in Sandbox : LifeCycle(s)
  /\ \A g \in Getter : LookupOK(g)

\* The steps that belong to one sandbox.
StepOf(s) ==
  Create(s) \/ CancelCreate(s) \/ Delete(s) \/ Cluster(s) \/ Recheck(s)

\* The definitions of those steps.
LEMMA StepsAre ==
  ASSUME NEW s
  PROVE  StepOf(s) <=>
    \/ CreatePod(s) \/ PodIsReady(s) \/ AgentAnswers(s) \/ PollFails(s)
    \/ InsertRow(s) \/ InsertFails(s) \/ Cleanup(s) \/ CacheAgent(s)
    \/ CancelCreate(s)
    \/ EndRow(s) \/ RepeatDelete(s) \/ CloseAgent(s) \/ DeletePod(s)
    \/ (\E phase \in {"pending", "ready", "absent"} : PodChanges(s, phase))
    \/ HostFailed(s) \/ Reattach(s) \/ NotReady(s) \/ CheckFails(s)
PROOF
  BY DEF StepOf, Create, Delete, Cluster, Recheck
-----------------------------------------------------------------------------
(***************************************************************************)
(* Types.                                                                  *)
(***************************************************************************)

\* A step of a sandbox keeps the types of what it writes, and a row has an
\* end_cause exactly when it is ended.
LEMMA StepTypes ==
  ASSUME TypeOK, NEW s \in Sandbox, LifeCycle(s), StepOf(s)
  PROVE  TypeOK'
PROOF
<1> USE DEF TypeOK, process, table, history, ThenCreate, ThenDelete, SetPod,
        DeleteSandboxPod, Creating, Deleting
<1>1. CASE CreatePod(s)
  BY <1>1 DEF CreatePod
<1>2. CASE PodIsReady(s)
  BY <1>2 DEF PodIsReady
<1>3. CASE AgentAnswers(s)
  BY <1>3 DEF AgentAnswers
<1>4. CASE PollFails(s)
  BY <1>4 DEF PollFails
<1>5. CASE InsertRow(s)
  BY <1>5 DEF InsertRow, LifeCycle, CreateAt
<1>6. CASE InsertFails(s)
  BY <1>6 DEF InsertFails
<1>7. CASE Cleanup(s)
  BY <1>7 DEF Cleanup
<1>8. CASE CacheAgent(s)
  BY <1>8 DEF CacheAgent, Cached
<1>9. CASE CancelCreate(s)
  BY <1>9 DEF CancelCreate
<1>10. CASE EndRow(s)
  BY <1>10 DEF EndRow, KillCause
<1>11. CASE RepeatDelete(s)
  BY <1>11 DEF RepeatDelete
<1>12. CASE CloseAgent(s)
  BY <1>12 DEF CloseAgent, WithoutAgent
<1>13. CASE DeletePod(s)
  BY <1>13 DEF DeletePod
<1>14. ASSUME NEW phase \in {"pending", "ready", "absent"}, PodChanges(s, phase)
       PROVE  TypeOK'
  BY <1>14 DEF PodChanges
<1>15. CASE HostFailed(s)
  BY <1>15 DEF HostFailed
<1>16. CASE Reattach(s)
  BY <1>16 DEF Reattach, Cached
<1>17. CASE NotReady(s)
  BY <1>17 DEF NotReady
<1>18. CASE CheckFails(s)
  BY <1>18 DEF CheckFails
<1>19. QED
  BY StepsAre, <1>1, <1>2, <1>3, <1>4, <1>5, <1>6, <1>7, <1>8, <1>9, <1>10,
     <1>11, <1>12, <1>13, <1>14, <1>15, <1>16, <1>17, <1>18

\* What a lookup records in each of its steps.
LEMMA LookupSteps ==
  ASSUME NEW g \in Getter, Lookup(g)
  PROVE  \/ \E s \in Sandbox :
              /\ Known(s) /\ getter[g].step = 1 /\ row[s] = "running"
              /\ getter' = [getter EXCEPT ![g] =
                              [step |-> 2, found |-> {s}, agent |-> FALSE]]
         \/ /\ getter[g].step = 1
            /\ getter' = [getter EXCEPT ![g] =
                            [step |-> 3, found |-> {}, agent |-> FALSE]]
         \/ /\ getter[g].step = 2
            /\ getter' = [getter EXCEPT ![g] =
                            [step |-> 3, found |-> getter[g].found,
                             agent |-> getter[g].found \subseteq agents]]
PROOF
<1>1. CASE GetAgent(g)
  BY <1>1 DEF GetAgent
<1>2. ASSUME NEW s \in Sandbox, GetRow(g, s), row[s] = "running"
      PROVE  /\ Known(s) /\ getter[g].step = 1
             /\ getter' = [getter EXCEPT ![g] =
                             [step |-> 2, found |-> {s}, agent |-> FALSE]]
  BY <1>2 DEF GetRow
<1>3. ASSUME NEW s \in Sandbox, GetRow(g, s), row[s] # "running"
      PROVE  /\ getter[g].step = 1
             /\ getter' = [getter EXCEPT ![g] =
                             [step |-> 3, found |-> {}, agent |-> FALSE]]
  BY <1>3 DEF GetRow
<1>4. QED
  BY <1>1, <1>2, <1>3 DEF Lookup

\* A lookup changes nothing else.
LEMMA LookupFrame ==
  ASSUME NEW g \in Getter, Lookup(g)
  PROVE  /\ Serving
         /\ UNCHANGED <<process, table, pod, agents, create, ctx, del, history>>
PROOF
  BY DEF Lookup, GetRow, GetAgent

\* A lookup, a crash and a restart keep the types.
LEMMA OtherTypes ==
  ASSUME TypeOK, (\E g \in Getter : Lookup(g)) \/ Crash \/ Restart \/ Serve
  PROVE  TypeOK'
PROOF
<1>1. ASSUME NEW g \in Getter, Lookup(g)
      PROVE  TypeOK'
  <2> DEFINE Req == [step : 1..3, found : SUBSET Sandbox, agent : BOOLEAN]
  <2>1. getter \in [Getter -> Req] /\ getter[g].found \in SUBSET Sandbox
    BY DEF TypeOK
  <2>2. \E req \in Req : getter' = [getter EXCEPT ![g] = req]
    <3>1. \A s \in Sandbox : [step |-> 2, found |-> {s}, agent |-> FALSE] \in Req
      OBVIOUS
    <3>2. [step |-> 3, found |-> {}, agent |-> FALSE] \in Req
      OBVIOUS
    <3>3. [step |-> 3, found |-> getter[g].found,
           agent |-> getter[g].found \subseteq agents] \in Req
      BY <2>1
    <3> HIDE DEF Req
    <3>4. QED
      BY <1>1, <3>1, <3>2, <3>3, LookupSteps
  <2>3. getter' \in [Getter -> Req]
    BY <2>1, <2>2
  <2>4. QED
    BY <1>1, <2>3, LookupFrame DEF TypeOK, process, table, history
<1>2. CASE Crash
  <2>1. getter' \in [Getter -> [step : 1..3, found : SUBSET Sandbox, agent : BOOLEAN]]
    BY <1>2 DEF Crash, TypeOK
  <2>2. crashes' \in 0..MaxCrashes
    <3>1. crashes \in 0..MaxCrashes /\ crashes < MaxCrashes /\ crashes' = crashes + 1
      BY <1>2 DEF Crash, TypeOK
    <3>2. QED
      BY <3>1, ConstantsOK
  <2>3. leaked' \subseteq Sandbox
    BY <1>2 DEF Crash, TypeOK, InterruptedPods
  <2>4. create' \in [Sandbox -> {"idle", "created", "failed", "lost"} \cup Creating]
    BY <1>2 DEF Crash, TypeOK
  <2>5. del' \in [Sandbox -> {"no", "failed", "answered"} \cup Deleting]
    BY <1>2 DEF Crash, TypeOK
  <2>6. UNCHANGED <<row, cause, pod, ctx>>
    BY <1>2 DEF Crash, table
  <2>7. /\ adapter' = "down" /\ todo' = {} /\ agents' = {} /\ skipped' = {}
        /\ unready' = {}
    BY <1>2 DEF Crash
  <2>8. QED
    BY <2>1, <2>2, <2>3, <2>4, <2>5, <2>6, <2>7 DEF TypeOK
<1>3. CASE Restart
  BY <1>3 DEF Restart, TypeOK, table, history
<1>4. CASE Serve
  BY <1>4 DEF Serve, TypeOK, table, history
<1>5. QED
  BY <1>1, <1>2, <1>3, <1>4
-----------------------------------------------------------------------------
(***************************************************************************)
(* The life cycle of a sandbox.                                            *)
(***************************************************************************)

\* A step of a sandbox changes nothing of another one, nor any lookup.
LEMMA StepFrame ==
  ASSUME TypeOK, NEW s \in Sandbox, StepOf(s), NEW o \in Sandbox \ {s}
  PROVE  /\ UNCHANGED <<adapter, getter>>
         /\ row'[o] = row[o] /\ cause'[o] = cause[o] /\ pod'[o] = pod[o]
         /\ create'[o] = create[o] /\ del'[o] = del[o]
         /\ o \in agents' <=> o \in agents
         /\ o \in todo' <=> o \in todo
         /\ o \in leaked' <=> o \in leaked
         /\ o \in skipped' <=> o \in skipped
         /\ o \in unready' <=> o \in unready
PROOF
<1> USE DEF TypeOK, process, table, history, ThenCreate, ThenDelete, SetPod,
        DeleteSandboxPod
<1>1. CASE CreatePod(s)
  BY <1>1 DEF CreatePod
<1>2. CASE PodIsReady(s)
  BY <1>2 DEF PodIsReady
<1>3. CASE AgentAnswers(s)
  BY <1>3 DEF AgentAnswers
<1>4. CASE PollFails(s)
  BY <1>4 DEF PollFails
<1>5. CASE InsertRow(s)
  BY <1>5 DEF InsertRow
<1>6. CASE InsertFails(s)
  BY <1>6 DEF InsertFails
<1>7. CASE Cleanup(s)
  BY <1>7 DEF Cleanup
<1>8. CASE CacheAgent(s)
  BY <1>8 DEF CacheAgent, Cached
<1>9. CASE CancelCreate(s)
  BY <1>9 DEF CancelCreate
<1>10. CASE EndRow(s)
  BY <1>10 DEF EndRow, KillCause
<1>11. CASE RepeatDelete(s)
  BY <1>11 DEF RepeatDelete
<1>12. CASE CloseAgent(s)
  BY <1>12 DEF CloseAgent, WithoutAgent
<1>13. CASE DeletePod(s)
  BY <1>13 DEF DeletePod
<1>14. CASE \E phase \in {"pending", "ready", "absent"} : PodChanges(s, phase)
  BY <1>14 DEF PodChanges
<1>15. CASE HostFailed(s)
  BY <1>15 DEF HostFailed
<1>16. CASE Reattach(s)
  BY <1>16 DEF Reattach, Cached
<1>17. CASE NotReady(s)
  BY <1>17 DEF NotReady
<1>18. CASE CheckFails(s)
  BY <1>18 DEF CheckFails
<1>19. QED
  BY StepsAre, <1>1, <1>2, <1>3, <1>4, <1>5, <1>6, <1>7, <1>8, <1>9, <1>10,
     <1>11, <1>12, <1>13, <1>14, <1>15, <1>16, <1>17, <1>18

\* Its own: each step leads from one stage of the life cycle to the next.
LEMMA OwnLifeCycle ==
  ASSUME TypeOK, NEW s \in Sandbox, LifeCycle(s), StepOf(s)
  PROVE  LifeCycle(s)'
PROOF
<1> USE DEF LifeCycle, TypeOK, process, table, history, ThenCreate, ThenDelete,
        SetPod, DeleteSandboxPod, CreateAt, Serving, Known, Creating, Deleting
<1>1. CASE CreatePod(s)
  BY <1>1 DEF CreatePod
<1>2. CASE PodIsReady(s)
  BY <1>2 DEF PodIsReady
<1>3. CASE AgentAnswers(s)
  BY <1>3 DEF AgentAnswers
<1>4. CASE PollFails(s)
  BY <1>4 DEF PollFails, PollingEnds
<1>5. CASE InsertRow(s)
  BY <1>5 DEF InsertRow
<1>6. CASE InsertFails(s)
  BY <1>6 DEF InsertFails
<1>7. CASE Cleanup(s)
  BY <1>7 DEF Cleanup
<1>8. CASE CacheAgent(s)
  BY <1>8 DEF CacheAgent, Cached
<1>9. CASE CancelCreate(s)
  BY <1>9 DEF CancelCreate
<1>10. CASE EndRow(s)
  BY <1>10 DEF EndRow, Ends, KillCause
<1>11. CASE RepeatDelete(s)
  BY <1>11 DEF RepeatDelete, Ends
<1>12. CASE CloseAgent(s)
  BY <1>12 DEF CloseAgent, WithoutAgent
<1>13. CASE DeletePod(s)
  BY <1>13 DEF DeletePod
<1>14. CASE \E phase \in {"pending", "ready", "absent"} : PodChanges(s, phase)
  BY <1>14 DEF PodChanges
<1>15. CASE HostFailed(s)
  BY <1>15 DEF HostFailed
<1>16. CASE Reattach(s)
  BY <1>16 DEF Reattach, Cached
<1>17. CASE NotReady(s)
  BY <1>17 DEF NotReady
<1>18. CASE CheckFails(s)
  BY <1>18 DEF CheckFails
<1>19. QED
  BY StepsAre, <1>1, <1>2, <1>3, <1>4, <1>5, <1>6, <1>7, <1>8, <1>9, <1>10,
     <1>11, <1>12, <1>13, <1>14, <1>15, <1>16, <1>17, <1>18

\* Every step is a sandbox's, a lookup's, or of the process.
LEMMA NextSteps ==
  ASSUME Next
  PROVE  \/ \E s \in Sandbox : StepOf(s)
         \/ \E g \in Getter : Lookup(g)
         \/ Crash \/ Restart \/ Serve
PROOF
  BY DEF Next, StepOf, Recover

\* Every step keeps the types.
LEMMA TypeStep ==
  ASSUME TypeOK, \A s \in Sandbox : LifeCycle(s), [Next]_vars
  PROVE  TypeOK'
PROOF
<1>1. CASE Next
  BY <1>1, NextSteps, StepTypes, OtherTypes
<1>2. CASE UNCHANGED vars
  BY <1>2 DEF vars, TypeOK, process, table, history
<1>3. QED
  BY <1>1, <1>2

\* Every step keeps every sandbox in its life cycle.
LEMMA LifeCycleStep ==
  ASSUME TypeOK, \A s \in Sandbox : LifeCycle(s), [Next]_vars
  PROVE  \A s \in Sandbox : LifeCycle(s)'
PROOF
<1> SUFFICES ASSUME NEW s \in Sandbox PROVE LifeCycle(s)'
  OBVIOUS
<1>0. LifeCycle(s)
  OBVIOUS
<1>1. ASSUME NEW o \in Sandbox, StepOf(o)
      PROVE  LifeCycle(s)'
  <2>1. CASE o = s
    BY <1>0, <1>1, <2>1, OwnLifeCycle
  <2>2. CASE o # s
    BY <1>0, <1>1, <2>2, StepFrame DEF LifeCycle, Serving
  <2>3. QED
    BY <2>1, <2>2
<1>2. CASE UNCHANGED <<process, table, pod, agents, create, del, history>>
  BY <1>0, <1>2 DEF LifeCycle, Serving, process, table, history
<1>3. ASSUME NEW g \in Getter, Lookup(g)
      PROVE  LifeCycle(s)'
  BY <1>2, <1>3, LookupFrame
<1>4. CASE Crash
  <2>1. /\ adapter' = "down" /\ s \notin todo' /\ s \notin agents'
        /\ leaked' = leaked \cup InterruptedPods
        /\ row'[s] = row[s] /\ pod'[s] = pod[s]
    BY <1>4 DEF Crash, table
  <2>2. create'[s] = IF create[s] \in Creating THEN "lost" ELSE create[s]
    BY <1>4 DEF Crash
  <2>3. del'[s] = IF del[s] \in Deleting THEN "failed" ELSE del[s]
    BY <1>4 DEF Crash
  <2>4. create'[s] \notin Creating /\ del'[s] \notin Deleting
    BY <2>2, <2>3 DEF Creating, Deleting
  <2>5. pod[s] # "absent" => row[s] = "running" \/ s \in leaked'
    BY <1>0, <2>1 DEF LifeCycle, InterruptedPods
  <2>6. QED
    BY <1>0, <2>1, <2>2, <2>3, <2>4, <2>5 DEF LifeCycle, Serving, Creating, Deleting
<1>5. CASE Restart
  BY <1>0, <1>5 DEF LifeCycle, Restart, Serving, table, history
<1>6. CASE Serve
  BY <1>0, <1>6 DEF LifeCycle, Serve, Serving, table, history
<1>7. QED
  BY <1>1, <1>2, <1>3, <1>4, <1>5, <1>6, NextSteps DEF vars
-----------------------------------------------------------------------------
(***************************************************************************)
(* The lookups.                                                            *)
(***************************************************************************)

\* What a step does to the facts a lookup rests on: a created sandbox stays
\* created, an ended one stays ended, and only a crash forgets why a
\* running one has no client.
LEMMA LookupRests ==
  ASSUME TypeOK, NEW s \in Sandbox, LifeCycle(s), StepOf(s)
  PROVE  /\ create[s] = "created" => create'[s] = "created"
         /\ row[s] = "ended" => row'[s] = "ended" /\ cause'[s] = cause[s]
         /\ s \in skipped \cup unready => s \in skipped' \cup unready'
PROOF
<1>1. create[s] = "created" => create'[s] = "created"
  BY StepsAre DEF CreatePod, PodIsReady, AgentAnswers, PollFails, InsertRow,
     InsertFails, Cleanup, CacheAgent, CancelCreate, EndRow, RepeatDelete,
     CloseAgent, DeletePod, PodChanges, HostFailed, Reattach, NotReady,
     CheckFails, CreateAt
<1>2. row[s] = "ended" => row'[s] = "ended" /\ cause'[s] = cause[s]
  BY StepsAre DEF CreatePod, PodIsReady, AgentAnswers, PollFails, InsertRow,
     InsertFails, Cleanup, CacheAgent, CancelCreate, EndRow, RepeatDelete,
     CloseAgent, DeletePod, PodChanges, HostFailed, Reattach, NotReady,
     CheckFails, CreateAt, Ends, LifeCycle, table
<1>3. s \in skipped \cup unready => s \in skipped' \cup unready'
  BY StepsAre DEF CreatePod, PodIsReady, AgentAnswers, PollFails, InsertRow,
     InsertFails, Cleanup, CacheAgent, CancelCreate, EndRow, RepeatDelete,
     CloseAgent, DeletePod, PodChanges, HostFailed, Reattach, NotReady,
     CheckFails, history
<1>4. QED
  BY <1>1, <1>2, <1>3

\* A lookup that misses its client met a Delete, or a sandbox that some
\* step left without one.
LEMMA OwnLookup ==
  ASSUME TypeOK, \A s \in Sandbox : LifeCycle(s),
         NEW g \in Getter, LookupOK(g), Lookup(g)
  PROVE  LookupOK(g)'
PROOF
<1>0. /\ Serving
      /\ UNCHANGED <<adapter, row, create, skipped, unready>>
  BY LookupFrame DEF process, table, history
<1>1. ASSUME NEW s \in Sandbox, Known(s), row[s] = "running",
             getter' = [getter EXCEPT ![g] =
                          [step |-> 2, found |-> {s}, agent |-> FALSE]]
      PROVE  LookupOK(g)'
  <2>1. getter'[g].step = 2 /\ getter'[g].found = {s}
    BY <1>1 DEF TypeOK
  <2>2. QED
    BY <1>0, <1>1, <2>1 DEF LookupOK, Known, Serving
<1>2. CASE getter' = [getter EXCEPT ![g] =
                        [step |-> 3, found |-> {}, agent |-> FALSE]]
  <2>1. getter'[g].step = 3 /\ getter'[g].found = {}
    BY <1>2 DEF TypeOK
  <2>2. QED
    BY <2>1 DEF LookupOK
<1>3. ASSUME getter[g].step = 2,
             getter' = [getter EXCEPT ![g] =
                          [step |-> 3, found |-> getter[g].found,
                           agent |-> getter[g].found \subseteq agents]]
      PROVE  LookupOK(g)'
  <2>1. /\ getter'[g].step = 3 /\ getter'[g].found = getter[g].found
        /\ getter'[g].agent = (getter[g].found \subseteq agents)
    BY <1>3 DEF TypeOK
  <2>2. PICK s \in Sandbox : getter[g].found = {s}
    BY <1>3 DEF LookupOK
  <2>3. create[s] = "created"
    BY <2>2 DEF LookupOK
  <2>4. s \in agents \/ row[s] = "ended" \/ s \in skipped \cup unready
    BY <1>0, <2>3 DEF LifeCycle, Serving, TypeOK
  <2>5. getter'[g].found = {s} /\ (getter'[g].agent <=> s \in agents)
    BY <2>1, <2>2
  <2>6. /\ create'[s] = "created"
        /\ s \in agents \/ row'[s] = "ended" \/ s \in skipped' \cup unready'
    BY <1>0, <2>3, <2>4
  <2>7. QED
    BY <2>1, <2>5, <2>6 DEF LookupOK
<1>4. QED
  BY <1>1, <1>2, <1>3, LookupSteps

\* Every step keeps the facts about every lookup.
LEMMA LookupStep ==
  ASSUME Inv, [Next]_vars
  PROVE  \A g \in Getter : LookupOK(g)'
PROOF
<1> SUFFICES ASSUME NEW g \in Getter PROVE LookupOK(g)'
  OBVIOUS
<1>0. TypeOK /\ LookupOK(g) /\ getter[g].found \subseteq Sandbox
  BY DEF Inv, TypeOK
<1>1. ASSUME NEW s \in Sandbox, StepOf(s)
      PROVE  LookupOK(g)'
  <2>1. UNCHANGED <<adapter, getter>>
    BY <1>1 DEF StepOf, Create, Delete, Cluster, Recheck, CreatePod, PodIsReady,
       AgentAnswers, PollFails, InsertRow, InsertFails, Cleanup, CacheAgent,
       CancelCreate, EndRow, RepeatDelete, CloseAgent, DeletePod, PodChanges,
       HostFailed, Reattach, NotReady, CheckFails, process
  <2>2. ASSUME NEW o \in Sandbox
        PROVE  /\ create[o] = "created" => create'[o] = "created"
               /\ row[o] = "ended" => row'[o] = "ended"
               /\ o \in skipped \cup unready => o \in skipped' \cup unready'
    <3>1. CASE o = s
      BY <1>0, <1>1, <3>1, LookupRests DEF Inv
    <3>2. CASE o # s
      BY <1>0, <1>1, <3>2, StepFrame
    <3>3. QED
      BY <3>1, <3>2
  <2>3. QED
    BY <1>0, <2>1, <2>2 DEF LookupOK, Serving
<1>2. CASE UNCHANGED <<process, table, create, getter, history>>
  BY <1>0, <1>2 DEF LookupOK, Serving, process, table, history
<1>3. ASSUME NEW o \in Getter, Lookup(o)
      PROVE  LookupOK(g)'
  <2>1. CASE o = g
    BY <1>0, <1>3, <2>1, OwnLookup DEF Inv
  <2>2. CASE o # g
    <3>1. getter'[g] = getter[g]
      BY <1>0, <1>3, <2>2, LookupSteps DEF TypeOK
    <3>2. QED
      BY <1>0, <1>3, <3>1, LookupFrame DEF LookupOK, Serving, process, table,
         history
  <2>3. QED
    BY <2>1, <2>2
<1>4. CASE Crash
  <2>1. getter'[g] = [step |-> 3, found |-> {}, agent |-> getter[g].agent]
    BY <1>4 DEF Crash
  <2>2. QED
    BY <2>1 DEF LookupOK
<1>5. CASE Restart \/ Serve
  BY <1>0, <1>5 DEF LookupOK, Restart, Serve, Serving, table, history
<1>6. QED
  BY <1>1, <1>2, <1>3, <1>4, <1>5, NextSteps DEF Inv, vars
-----------------------------------------------------------------------------
(***************************************************************************)
(* The manager implements SandboxSessions.                                 *)
(***************************************************************************)

\* What the exec handlers see of one sandbox.
RowOf(s) == IF Answered(s) THEN row[s] ELSE "running"
HasClient(s) == Serving /\ (Answered(s) => s \in agents)
DeleteOf(s) == IF del[s] \in Deleting THEN del[s] ELSE "no"

Adapter == IF Serving THEN "serving" ELSE "down"
Rows    == [s \in Sandbox |-> RowOf(s)]
Clients == {s \in Sandbox : HasClient(s)}
Deletes == [s \in Sandbox |-> DeleteOf(s)]

\* A step of a sandbox changes what they see of no other.
LEMMA SeenFrame ==
  ASSUME TypeOK, NEW s \in Sandbox, StepOf(s)
  PROVE  /\ Adapter' = Adapter
         /\ Rows' = [Rows EXCEPT ![s] = RowOf(s)']
         /\ Clients' = IF HasClient(s)' THEN Clients \cup {s} ELSE Clients \ {s}
         /\ Deletes' = [Deletes EXCEPT ![s] = DeleteOf(s)']
PROOF
<1>1. adapter' = adapter
  BY DEF StepOf, Create, Delete, Cluster, Recheck, CreatePod, PodIsReady,
     AgentAnswers, PollFails, InsertRow, InsertFails, Cleanup, CacheAgent,
     CancelCreate, EndRow, RepeatDelete, CloseAgent, DeletePod, PodChanges,
     HostFailed, Reattach, NotReady, CheckFails, process
<1>2. ASSUME NEW o \in Sandbox \ {s}
      PROVE  /\ RowOf(o)' = RowOf(o) /\ DeleteOf(o)' = DeleteOf(o)
             /\ HasClient(o)' <=> HasClient(o)
  <2>1. /\ row'[o] = row[o] /\ create'[o] = create[o] /\ del'[o] = del[o]
        /\ o \in agents' <=> o \in agents
    BY StepFrame
  <2>2. QED
    BY <1>1, <2>1 DEF RowOf, DeleteOf, HasClient, Answered, Serving
<1>3. Adapter' = Adapter
  BY <1>1 DEF Adapter, Serving
<1>4. QED
  BY <1>2, <1>3 DEF Rows, Clients, Deletes

\* The steps they do not see: those of Create, which they learn of when it
\* is answered, of the cluster, of a Reconcile before the adapter serves.
LEMMA UnseenSteps ==
  ASSUME TypeOK, NEW s \in Sandbox, LifeCycle(s), StepOf(s),
         ~EndRow(s), ~CloseAgent(s), ~DeletePod(s), ~HostFailed(s)
  PROVE  /\ RowOf(s)' = RowOf(s) /\ DeleteOf(s)' = DeleteOf(s)
         /\ HasClient(s)' <=> HasClient(s)
PROOF
<1> USE DEF TypeOK, LifeCycle, RowOf, HasClient, DeleteOf, Answered, Serving,
        process, table, history, ThenCreate, ThenDelete, CreateAt, Creating,
        Deleting
<1>1. CASE CreatePod(s)
  BY <1>1 DEF CreatePod
<1>2. CASE PodIsReady(s)
  BY <1>2 DEF PodIsReady
<1>3. CASE AgentAnswers(s)
  BY <1>3 DEF AgentAnswers
<1>4. CASE PollFails(s)
  BY <1>4 DEF PollFails
<1>5. CASE InsertRow(s)
  BY <1>5 DEF InsertRow
<1>6. CASE InsertFails(s)
  BY <1>6 DEF InsertFails
<1>7. CASE Cleanup(s)
  BY <1>7 DEF Cleanup
<1>8. CASE CacheAgent(s)
  BY <1>8 DEF CacheAgent, Cached
<1>9. CASE CancelCreate(s)
  BY <1>9 DEF CancelCreate
<1>10. CASE RepeatDelete(s)
  BY <1>10 DEF RepeatDelete
<1>11. CASE \E phase \in {"pending", "ready", "absent"} : PodChanges(s, phase)
  BY <1>11 DEF PodChanges
<1>12. CASE Reattach(s)
  BY <1>12 DEF Reattach, Cached
<1>13. CASE NotReady(s)
  BY <1>13 DEF NotReady
<1>14. CASE CheckFails(s)
  BY <1>14 DEF CheckFails
<1>15. QED
  BY StepsAre, <1>1, <1>2, <1>3, <1>4, <1>5, <1>6, <1>7, <1>8, <1>9, <1>10,
     <1>11, <1>12, <1>13, <1>14

\* The steps they see are those of SandboxSessions; the loss of a host is
\* seen if the sandbox is one they know.
LEMMA SeenSteps ==
  ASSUME TypeOK, NEW s \in Sandbox, LifeCycle(s), StepOf(s)
  PROVE  \/ UNCHANGED <<Adapter, Rows, Clients, Deletes>>
         \/ /\ Serving /\ Rows[s] = "running"
            /\ Rows' = [Rows EXCEPT ![s] = "ended"]
            /\ Deletes' = [Deletes EXCEPT ![s] = "closing"] \/ UNCHANGED Deletes
            /\ UNCHANGED <<Adapter, Clients>>
         \/ /\ Serving /\ Deletes[s] = "closing"
            /\ Clients' = Clients \ {s}
            /\ Deletes' = [Deletes EXCEPT ![s] = "deletingPod"]
            /\ UNCHANGED <<Adapter, Rows>>
         \/ /\ Serving /\ Deletes[s] = "deletingPod"
            /\ Deletes' = [Deletes EXCEPT ![s] = "no"]
            /\ UNCHANGED <<Adapter, Rows, Clients>>
         \/ /\ ~Serving /\ Rows[s] = "running"
            /\ Rows' = [Rows EXCEPT ![s] = "ended"]
            /\ UNCHANGED <<Adapter, Clients, Deletes>>
PROOF
<1>1. /\ Rows[s] = RowOf(s) /\ Deletes[s] = DeleteOf(s)
      /\ RowOf(s)' = RowOf(s) => Rows' = Rows
      /\ DeleteOf(s)' = DeleteOf(s) => Deletes' = Deletes
      /\ (HasClient(s)' <=> HasClient(s)) => Clients' = Clients
  <2>1. /\ Rows[s] = RowOf(s) /\ Rows = [Rows EXCEPT ![s] = RowOf(s)]
        /\ Deletes[s] = DeleteOf(s)
        /\ Deletes = [Deletes EXCEPT ![s] = DeleteOf(s)]
        /\ Clients = IF HasClient(s) THEN Clients \cup {s} ELSE Clients \ {s}
    BY DEF Rows, Deletes, Clients
  <2>2. QED
    BY <2>1, SeenFrame
<1>2. CASE EndRow(s)
  <2>1. /\ Serving /\ RowOf(s) = "running" /\ RowOf(s)' = "ended"
        /\ HasClient(s)' <=> HasClient(s)
    BY <1>2 DEF EndRow, Ends, Known, RowOf, HasClient, Answered, Serving,
       TypeOK, process
  <2>2. DeleteOf(s)' = "closing" \/ DeleteOf(s)' = DeleteOf(s)
    BY <1>2 DEF EndRow, DeleteOf, ThenDelete, Deleting, TypeOK
  <2>3. QED
    BY <1>1, <2>1, <2>2, SeenFrame
<1>3. CASE CloseAgent(s)
  <2>1. /\ Serving /\ DeleteOf(s) = "closing" /\ DeleteOf(s)' = "deletingPod"
        /\ RowOf(s)' = RowOf(s)
    BY <1>3 DEF CloseAgent, DeleteOf, RowOf, ThenDelete, Deleting, Answered,
       TypeOK, table
  <2>2. ~HasClient(s)'
    <3>1. create'[s] = "created"
      BY <1>3 DEF CloseAgent, LifeCycle, Deleting
    <3>2. QED
      BY <1>3, <3>1 DEF CloseAgent, WithoutAgent, HasClient, Answered
  <2>3. QED
    BY <1>1, <2>1, <2>2, SeenFrame
<1>4. CASE DeletePod(s)
  <2>1. /\ Serving /\ DeleteOf(s) = "deletingPod" /\ DeleteOf(s)' = "no"
        /\ RowOf(s)' = RowOf(s)
        /\ HasClient(s)' <=> HasClient(s)
    BY <1>4 DEF DeletePod, DeleteOf, RowOf, HasClient, ThenDelete, Deleting,
       Answered, Serving, TypeOK, table, process
  <2>2. QED
    BY <1>1, <2>1, SeenFrame
<1>5. CASE HostFailed(s)
  <2>1. /\ ~Serving /\ row[s] = "running" /\ row'[s] = "ended"
        /\ DeleteOf(s)' = DeleteOf(s)
        /\ HasClient(s)' <=> HasClient(s)
        /\ Answered(s)' <=> Answered(s)
    BY <1>5 DEF HostFailed, LifeCycle, TypeOK, Serving, DeleteOf, HasClient,
       Answered
  <2>2. CASE Answered(s)
    BY <1>1, <2>1, <2>2, SeenFrame DEF RowOf
  <2>3. CASE ~Answered(s)
    BY <1>1, <2>1, <2>3, SeenFrame DEF RowOf
  <2>4. QED
    BY <2>2, <2>3
<1>6. CASE ~EndRow(s) /\ ~CloseAgent(s) /\ ~DeletePod(s) /\ ~HostFailed(s)
  BY <1>1, <1>6, UnseenSteps, SeenFrame
<1>7. QED
  BY <1>2, <1>3, <1>4, <1>5, <1>6

\* Every step of the manager is one of SandboxSessions, or none.
LEMMA SessionsStep ==
  ASSUME Inv, [Next]_vars
  PROVE  [Abstract!SessionsNext]_(Abstract!sessionVars)
PROOF
<1>0. TypeOK /\ \A s \in Sandbox : LifeCycle(s)
  BY DEF Inv
<1>1. ASSUME UNCHANGED <<Adapter, Rows, Clients, Deletes>>
      PROVE  [Abstract!SessionsNext]_(Abstract!sessionVars)
  BY <1>1 DEF Adapter, Rows, Clients, Deletes, RowOf, HasClient, DeleteOf,
     Abstract!sessionVars, Abstract!sessions
<1>2. ASSUME NEW s \in Sandbox, StepOf(s)
      PROVE  [Abstract!SessionsNext]_(Abstract!sessionVars)
  <2>1. \/ UNCHANGED <<Adapter, Rows, Clients, Deletes>>
        \/ Abstract!EndRow(s) \/ Abstract!CloseClient(s)
        \/ Abstract!DeletePod(s) \/ Abstract!HostFails(s)
    BY <1>0, <1>2, SeenSteps DEF Adapter, Rows, Clients, Deletes, RowOf,
       HasClient, DeleteOf, Abstract!EndRow, Abstract!CloseClient,
       Abstract!DeletePod, Abstract!HostFails, Abstract!Serving
  <2>2. QED
    BY <1>1, <2>1 DEF Abstract!SessionsNext
<1>3. ASSUME UNCHANGED <<adapter, row, agents, create, del>>
      PROVE  UNCHANGED <<Adapter, Rows, Clients, Deletes>>
  BY <1>3 DEF Adapter, Rows, Clients, Deletes, RowOf, HasClient, DeleteOf,
     Answered, Serving
<1>4. CASE \E g \in Getter : Lookup(g)
  BY <1>1, <1>3, <1>4, LookupFrame DEF process, table
<1>5. CASE Crash
  <2>1. /\ ~Serving' /\ row' = row
        /\ \A s \in Sandbox : /\ Answered(s)' <=> Answered(s)
                              /\ del'[s] \notin Deleting
    BY <1>5 DEF Crash, Serving, Answered, table, Creating, Deleting
  <2>2. /\ Adapter' = "down" /\ Rows' = Rows /\ Clients' = {}
        /\ Deletes' = [s \in Sandbox |-> "no"]
    BY <2>1 DEF Adapter, Rows, RowOf, Clients, HasClient, Deletes, DeleteOf
  <2>3. CASE Serving
    <3>1. Abstract!Die
      BY <2>2, <2>3 DEF Abstract!Die, Abstract!Serving, Adapter, Rows, RowOf,
         Clients, HasClient, Deletes, DeleteOf
    <3>2. QED
      BY <3>1 DEF Abstract!SessionsNext
  <2>4. CASE ~Serving
    <3>1. \A s \in Sandbox : del[s] \notin Deleting
      BY <1>0, <2>4 DEF LifeCycle
    <3>2. /\ Adapter = "down" /\ Clients = {}
          /\ Deletes = [s \in Sandbox |-> "no"]
      BY <2>4, <3>1 DEF Adapter, Clients, HasClient, Deletes, DeleteOf
    <3>3. QED
      BY <1>1, <2>2, <3>2
  <2>5. QED
    BY <2>3, <2>4
<1>6. CASE Restart
  <2>1. ~Serving /\ ~Serving' /\ UNCHANGED <<row, create, del>>
    BY <1>6 DEF Restart, Serving, table
  <2>2. UNCHANGED <<Adapter, Rows, Clients, Deletes>>
    BY <2>1 DEF Adapter, Rows, Clients, Deletes, RowOf, HasClient, DeleteOf,
       Answered
  <2>3. QED
    BY <1>1, <2>2
<1>7. CASE Serve
  <2>1. ~Serving /\ Serving' /\ UNCHANGED <<row, agents, create, del>>
    BY <1>7 DEF Serve, Serving, table
  <2>2. UNCHANGED <<Rows, Deletes>>
    BY <2>1 DEF Rows, Deletes, RowOf, DeleteOf, Answered
  <2>3. Clients' \subseteq {s \in Sandbox : Rows[s] = "running"}
    BY <1>0, <2>1 DEF Clients, HasClient, Answered, Rows, RowOf, LifeCycle
  <2>4. Abstract!ServeAgain
    BY <2>1, <2>2, <2>3 DEF Abstract!ServeAgain, Abstract!Serving, Rows, RowOf,
       Clients, HasClient, Deletes, DeleteOf
  <2>5. QED
    BY <2>4 DEF Abstract!SessionsNext
<1>8. CASE UNCHANGED vars
  BY <1>1, <1>3, <1>8 DEF vars, process, table
<1>9. QED
  BY <1>2, <1>4, <1>5, <1>6, <1>7, <1>8, NextSteps
-----------------------------------------------------------------------------
(***************************************************************************)
(* The theorems.                                                           *)
(***************************************************************************)

\* The invariant holds when the manager starts on an empty table.
LEMMA InitInv == Init => Inv
PROOF
<1> SUFFICES ASSUME Init PROVE Inv
  OBVIOUS
<1>1. TypeOK
  <2>1. crashes \in 0..MaxCrashes
    BY ConstantsOK DEF Init
  <2>2. getter \in [Getter -> [step : 1..3, found : SUBSET Sandbox, agent : BOOLEAN]]
    BY DEF Init
  <2>3. QED
    BY <2>1, <2>2 DEF Init, TypeOK
<1>2. \A s \in Sandbox : LifeCycle(s)
  BY DEF Init, LifeCycle, Serving, Creating, Deleting
<1>3. \A g \in Getter : LookupOK(g)
  BY DEF Init, LookupOK
<1>4. QED
  BY <1>1, <1>2, <1>3 DEF Inv

\* The manager's inductive invariant holds in every state.
THEOREM InvCorrect == Spec => []Inv
PROOF
<1>1. Inv /\ [Next]_vars => Inv'
  BY TypeStep, LifeCycleStep, LookupStep DEF Inv
<1>2. QED
  BY InitInv, <1>1, PTL DEF Spec

\* The columns, maps and pods keep their types, and exactly the ended rows
\* have an end_cause.
THEOREM TypeCorrect == Spec => []TypeOK
PROOF
<1>1. Inv => TypeOK
  BY DEF Inv
<1>2. QED
  BY <1>1, InvCorrect, PTL

\* A pod without an owner is one that a step named in `leaked' gave up on.
THEOREM PodsAreAccountedHolds == Spec => []PodsAreAccounted
PROOF
<1>1. Inv => PodsAreAccounted
  BY DEF Inv, LifeCycle, PodsAreAccounted
<1>2. QED
  BY <1>1, InvCorrect, PTL

\* While the adapter serves, a running sandbox has a client or was left
\* without one by a failure the model names.
THEOREM RunningIsReachableHolds == Spec => []RunningIsReachable
PROOF
<1>1. Inv => RunningIsReachable
  BY DEF Inv, LifeCycle, RunningIsReachable, Serving
<1>2. QED
  BY <1>1, InvCorrect, PTL

\* No client stays cached for a sandbox that ended.
THEOREM NoClientOfEndedHolds == Spec => []NoClientOfEnded
PROOF
<1>1. Inv => NoClientOfEnded
  BY DEF Inv, LifeCycle, NoClientOfEnded, TypeOK
<1>2. QED
  BY <1>1, InvCorrect, PTL

\* Get answers a running sandbox with a nil client only where the model
\* names the cause.
THEOREM NilAgentExplainedHolds == Spec => []NilAgentExplained
PROOF
<1>1. Inv => NilAgentExplained
  BY DEF Inv, LookupOK, NilAgentExplained
<1>2. QED
  BY <1>1, InvCorrect, PTL

\* Neither Delete nor Reconcile rewrites the other's end_cause.
THEOREM EndCauseIsFinalHolds == Spec => EndCauseIsFinal
PROOF
<1>1. ASSUME Inv, [Next]_vars
      PROVE  [\A s \in Sandbox : row[s] = "ended" =>
                row'[s] = "ended" /\ cause'[s] = cause[s]]_vars
  <2>1. SUFFICES ASSUME NEW s \in Sandbox, row[s] = "ended"
                 PROVE  row'[s] = "ended" /\ cause'[s] = cause[s]
    OBVIOUS
  <2>2. ASSUME NEW o \in Sandbox, StepOf(o)
        PROVE  row'[s] = "ended" /\ cause'[s] = cause[s]
    <3>1. CASE o = s
      BY <1>1, <2>1, <2>2, <3>1, LookupRests DEF Inv
    <3>2. CASE o # s
      BY <1>1, <2>1, <2>2, <3>2, StepFrame DEF Inv
    <3>3. QED
      BY <3>1, <3>2
  <2>3. ASSUME UNCHANGED table
        PROVE  row'[s] = "ended" /\ cause'[s] = cause[s]
    BY <2>1, <2>3 DEF table
  <2>4. CASE Crash \/ Restart \/ Serve \/ UNCHANGED vars
    BY <2>3, <2>4 DEF Crash, Restart, Serve, vars
  <2>5. ASSUME NEW g \in Getter, Lookup(g)
        PROVE  row'[s] = "ended" /\ cause'[s] = cause[s]
    BY <2>3, <2>5, LookupFrame
  <2>6. QED
    BY <1>1, <2>2, <2>4, <2>5, NextSteps
<1>2. QED
  BY <1>1, InvCorrect, PTL DEF Spec, EndCauseIsFinal

\* To the exec handlers the manager is SandboxSessions, the sessions of
\* ExecRegistry: what Create, Delete, Reconcile and their failures do to a
\* sandbox whose creation was answered is one of its steps, or unseen.
THEOREM SessionsImplemented == Spec => ImplementsSessions
PROOF
<1>1. Init => Abstract!SessionsInit
  BY DEF Init, Abstract!SessionsInit, Serving, Answered, Deleting
<1>2. Inv /\ [Next]_vars => [Abstract!SessionsNext]_(Abstract!sessionVars)
  BY SessionsStep
<1>3. QED
  BY <1>1, <1>2, InvCorrect, PTL
     DEF Spec, ImplementsSessions, Abstract!SessionsSpec
=============================================================================
