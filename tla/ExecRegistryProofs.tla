-------------------------- MODULE ExecRegistryProofs --------------------------
(***************************************************************************)
(* Proofs about ExecRegistry, for any sets of execs, sandboxes and readers *)
(* and any number of crashes.                                              *)
(*                                                                         *)
(* The invariants of the two layers all follow from one statement about a  *)
(* single exec, LifeCycle(e): at each point of its POST handler, what the  *)
(* record, the row and the maps can be.  A step of another handler leaves  *)
(* that exec alone (CreateFrame), and so LifeCycle is shown preserved one  *)
(* handler at a time.                                                      *)
(***************************************************************************)
EXTENDS ExecRegistry, TLAPS

LifeCycle(e) ==
  /\ pc[e] \in {"idle", "found", "validated", "refused"} => e \notin records
  /\ pc[e] \in {"idle", "found", "validated"} => live[e] = "none"
  /\ pc[e] \in {"idle", "found", "validated", "inserting"} => row[e] = "none"
  /\ pc[e] \in {"inserting", "registered", "draining"} => live[e] = "running"
  /\ pc[e] \in {"registered", "draining", "persisting"} => row[e] = "running"
  /\ pc[e] = "persisting" => live[e] \in {"completed", "errored"}
  /\ pc[e] \in {"saved", "lost"} /\ Serving => row[e] # "running"
  /\ adapter = "down" => pc[e] \in {"idle", "lost"} /\ e \notin records
  /\ e \in records /\ row[e] \in Terminal => live[e] = row[e]

\* Between its lookups and after them, what a reader will answer is not
\* older than what a reader of that moment was answered.
FreshSoFar(r) ==
  \A e \in reader[r].want :
    /\ reader[r].step > 1 /\ e \in reader[r].hit =>
         Rank(live[e]) >= Rank(reader[r].start[e])
    /\ reader[r].step = 2 /\ e \notin reader[r].hit =>
         Rank(row[e]) >= Rank(reader[r].start[e])
    /\ reader[r].step = 3 /\ e \notin reader[r].hit =>
         Rank(reader[r].rows[e]) >= Rank(reader[r].start[e])

\* A DELETE that deletes the pod, clears the records or has cleared them has
\* closed the client.  No step gives it back but a restart, which has ended
\* every DELETE.
DeleteLife ==
  /\ adapter = "down" =>
       \A s \in Sandbox : deleting[s] = "no" /\ cleanup[s] = "no"
  /\ \A s \in Sandbox :
       deleting[s] = "deletingPod" \/ cleanup[s] \in {"clearing", "answered"} =>
         s \notin agents

Inv ==
  /\ TypeOK
  /\ IndexAgrees
  /\ \A e \in Exec : LifeCycle(e)
  /\ \A r \in Reader : FreshSoFar(r)
  /\ DeleteLife /\ LateRecordsNeverRan
-----------------------------------------------------------------------------
(***************************************************************************)
(* Types.                                                                  *)
(***************************************************************************)

\* A step of a POST handler keeps the types of what it writes.
LEMMA CreateTypes ==
  ASSUME TypeOK, NEW e \in Exec, Create(e)
  PROVE  TypeOK'
PROOF
<1> USE ConstantsOK DEF TypeOK, memory, sessions, process, At, Goto, Serving,
        Steps, Status, Terminal
<1>1. CASE GetSandboxRow(e)
  BY <1>1 DEF GetSandboxRow
<1>2. CASE GetAgent(e)
  BY <1>2 DEF GetAgent
<1>3. CASE RegisterInMemory(e)
  BY <1>3 DEF RegisterInMemory
<1>4. CASE InsertRow(e)
  BY <1>4 DEF InsertRow, InsertedStatus
<1>5. CASE InsertFails(e)
  BY <1>5 DEF InsertFails
<1>6. CASE Rollback(e)
  BY <1>6 DEF Rollback, removeInMemory
<1>7. CASE StartExec(e)
  BY <1>7 DEF StartExec
<1>8. CASE StartFails(e)
  BY <1>8 DEF StartFails
<1>9. CASE StartOnNil(e)
  BY <1>9 DEF StartOnNil
<1>10. CASE FinishRecord(e)
  BY <1>10 DEF FinishRecord
<1>11. CASE DrainPanics(e)
  BY <1>11 DEF DrainPanics
<1>12. CASE PersistFinal(e)
  BY <1>12 DEF PersistFinal, FinalStatus
<1>13. CASE PersistFails(e)
  BY <1>13 DEF PersistFails
<1>14. QED
  BY <1>1, <1>2, <1>3, <1>4, <1>5, <1>6, <1>7, <1>8, <1>9, <1>10, <1>11,
     <1>12, <1>13 DEF Create

\* A step of DELETE keeps them too; it writes no exec's status.
LEMMA DeleteTypes ==
  ASSUME TypeOK, NEW s \in Sandbox, Delete(s)
  PROVE  TypeOK'
PROOF
<1> USE DEF TypeOK, memory, sessions, process, Serving
<1>1. CASE EndSandbox(s)
  BY <1>1 DEF EndSandbox, EndRow
<1>2. CASE CloseAgent(s)
  BY <1>2 DEF CloseAgent, CloseClient
<1>3. CASE EndManagerDelete(s)
  BY <1>3 DEF EndManagerDelete, DeletePod
<1>4. CASE ClearRecords(s)
  BY <1>4 DEF ClearRecords, DeleteBySandbox
<1>5. CASE RepeatDelete(s)
  BY <1>5 DEF RepeatDelete, DeleteBySandbox
<1>6. QED
  BY <1>1, <1>2, <1>3, <1>4, <1>5 DEF Delete

\* A lookup of Get or List is one of its two steps.
LEMMA LookupSteps ==
  ASSUME TypeOK, NEW r \in Reader, NEW want, NEW found, Lookup(r, want, found)
  PROVE  \/ /\ reader[r].step = 1
            /\ reader' = [reader EXCEPT ![r] =
                 [step |-> 2, want |-> want, hit |-> found,
                  rows |-> reader[r].rows, start |-> [e \in Exec |-> View(e)]]]
         \/ /\ reader[r].step = 2
            /\ reader' = [reader EXCEPT ![r] =
                 [step |-> 3, want |-> want, hit |-> reader[r].hit,
                  rows |-> row, start |-> reader[r].start]]
PROOF
<1> reader[r].step \in 1..3
  BY DEF TypeOK, Request
<1>1. CASE reader[r].step = 1
  BY <1>1 DEF Lookup, LookupOrder
<1>2. CASE reader[r].step = 2
  BY <1>2 DEF Lookup, LookupOrder
<1>3. QED
  BY <1>1, <1>2 DEF Lookup

\* What a lookup changes is its reader, and what it looks for is a set of
\* execs; in its second step it is what it looked for in the first.
LEMMA ReadSteps ==
  ASSUME TypeOK, IndexAgrees, NEW r \in Reader, Get(r) \/ List(r)
  PROVE  /\ \E want \in SUBSET Exec :
              /\ reader[r].step > 1 => reader[r].want = want
              /\ Lookup(r, want, want \cap records)
         /\ UNCHANGED <<memory, sessions, cleanup, process, live, row, pc, client>>
PROOF
<1>1. CASE Get(r)
  <2>1. PICK e \in Exec : /\ reader[r].step > 1 => reader[r].want = {e}
                          /\ Lookup(r, {e}, {e} \cap records)
    BY <1>1 DEF Get
  <2>2. {e} \in SUBSET Exec
    OBVIOUS
  <2>3. QED
    BY <2>1, <2>2 DEF Lookup
<1>2. CASE List(r)
  <2>1. PICK s \in Sandbox :
          LET all == {e \in Exec : SandboxOf[e] = s} IN
          /\ reader[r].step > 1 => reader[r].want = all
          /\ Lookup(r, all, bySession[s] \cap records)
    BY <1>2 DEF List
  <2> DEFINE all == {e \in Exec : SandboxOf[e] = s}
  <2>2. bySession[s] \cap records = all \cap records
    BY DEF IndexAgrees, TypeOK
  <2>3. all \in SUBSET Exec
    OBVIOUS
  <2>4. QED
    BY <2>1, <2>2, <2>3 DEF Lookup
<1>3. QED
  BY <1>1, <1>2

\* A reader's step keeps the types of its request.
LEMMA ReadTypes ==
  ASSUME TypeOK, IndexAgrees, NEW r \in Reader, Get(r) \/ List(r)
  PROVE  TypeOK'
PROOF
<1>1. PICK want \in SUBSET Exec : Lookup(r, want, want \cap records)
  BY ReadSteps
<1>2. /\ reader[r].hit \in SUBSET Exec
      /\ reader[r].rows \in [Exec -> Status]
      /\ reader[r].start \in [Exec -> Status]
  BY DEF TypeOK, Request
<1> DEFINE now   == [e \in Exec |-> View(e)]
           found == want \cap records
           first == [step |-> 2, want |-> want, hit |-> found,
                     rows |-> reader[r].rows, start |-> now]
           then  == [step |-> 3, want |-> want, hit |-> reader[r].hit,
                     rows |-> row, start |-> reader[r].start]
<1>3. now \in [Exec -> Status] /\ found \in SUBSET Exec
  BY DEF TypeOK, View
<1>4. first \in Request /\ then \in Request
  <2> HIDE DEF now, found
  <2> QED
    BY <1>2, <1>3 DEF Request, TypeOK
<1>5. reader' \in [Reader -> Request]
  <2>1. \/ reader' = [reader EXCEPT ![r] = first]
        \/ reader' = [reader EXCEPT ![r] = then]
    BY <1>1, LookupSteps
  <2> HIDE DEF first, then
  <2>2. QED
    BY <1>4, <2>1 DEF TypeOK
<1>6. UNCHANGED <<memory, sessions, cleanup, process, live, row, pc, client>>
  BY <1>1 DEF Lookup
<1>7. QED
  BY <1>5, <1>6 DEF TypeOK, memory, sessions, process

\* So do the crash, the loss of a sandbox's host and the restart.
LEMMA CrashTypes ==
  ASSUME TypeOK, Crash \/ Restart \/ \E s \in Sandbox : HostFailed(s)
  PROVE  TypeOK'
PROOF
<1>1. CASE Crash
  <2> DEFINE Dropped(r) == [reader[r] EXCEPT !.step = 3, !.want = {}]
  <2>1. reader' \in [Reader -> Request]
    <3>1. ASSUME NEW r \in Reader PROVE Dropped(r) \in Request
      <4>1. reader[r] \in Request
        BY DEF TypeOK
      <4>2. [reader[r] EXCEPT !.step = 3] \in Request
        BY <4>1 DEF Request
      <4>3. Dropped(r) = [[reader[r] EXCEPT !.step = 3] EXCEPT !.want = {}]
        BY <4>1 DEF Request
      <4>4. QED
        BY <4>2, <4>3 DEF Request
    <3>2. reader' = [r \in Reader |-> Dropped(r)]
      BY <1>1 DEF Crash
    <3> HIDE DEF Dropped
    <3>3. QED
      BY <3>1, <3>2
  <2>2. crashes' \in 0..MaxCrashes
    <3>1. crashes \in 0..MaxCrashes /\ crashes < MaxCrashes /\ crashes' = crashes + 1
      BY <1>1 DEF Crash, TypeOK
    <3>2. QED
      BY <3>1, ConstantsOK
  <2>3. pc' \in [Exec -> Steps]
    BY <1>1 DEF Crash, TypeOK, Steps
  <2>4. QED
    BY <1>1, <2>1, <2>2, <2>3 DEF Crash, Die, TypeOK, Status, Terminal
<1>2. CASE Restart
  <2>1. row' \in [Exec -> Status]
    BY <1>2 DEF Restart, Reconcile, TypeOK, Status, Terminal
  <2>2. QED
    BY <1>2, <2>1 DEF Restart, ServeAgain, TypeOK, memory
<1>3. ASSUME NEW s \in Sandbox, HostFailed(s)
      PROVE  TypeOK'
  BY <1>3 DEF HostFailed, HostFails, TypeOK, memory
<1>4. QED
  BY <1>1, <1>2, <1>3

\* Every step keeps the types.
LEMMA TypeStep ==
  ASSUME TypeOK, IndexAgrees, [Next]_vars
  PROVE  TypeOK'
PROOF
<1>1. CASE UNCHANGED vars
  BY <1>1 DEF TypeOK, vars, memory, sessions, process
<1>2. CASE Next
  BY <1>2, CreateTypes, DeleteTypes, ReadTypes, CrashTypes DEF Next
<1>3. QED
  BY <1>1, <1>2
-----------------------------------------------------------------------------
(***************************************************************************)
(* The two maps.                                                           *)
(***************************************************************************)

\* What a POST handler does to the maps: nothing, or both entries at once.
LEMMA CreateMemory ==
  ASSUME NEW e \in Exec, Create(e)
  PROVE  \/ UNCHANGED memory
         \/ /\ records' = records \cup {e}
            /\ bySession' = [bySession EXCEPT ![SandboxOf[e]] = @ \cup {e}]
         \/ removeInMemory(e)
PROOF
<1>1. CASE RegisterInMemory(e)
  BY <1>1 DEF RegisterInMemory
<1>2. CASE Rollback(e)
  BY <1>2 DEF Rollback
<1>3. CASE ~RegisterInMemory(e) /\ ~Rollback(e)
  BY <1>3 DEF Create, GetSandboxRow, GetAgent, InsertRow, InsertFails,
     StartExec, StartFails, StartOnNil, FinishRecord, DrainPanics,
     PersistFinal, PersistFails
<1>4. QED
  BY <1>1, <1>2, <1>3

\* What a step of DELETE does to the maps.
LEMMA DeleteMemory ==
  ASSUME NEW s \in Sandbox, Delete(s)
  PROVE  UNCHANGED memory \/ DeleteBySandbox(s)
PROOF
  BY DEF Delete, EndSandbox, CloseAgent, EndManagerDelete, ClearRecords,
     RepeatDelete

\* The maps stay one another's inverse.
LEMMA IndexStep ==
  ASSUME TypeOK, IndexAgrees, [Next]_vars
  PROVE  IndexAgrees'
PROOF
<1> USE ConstantsOK DEF TypeOK, IndexAgrees
<1>0. CASE UNCHANGED memory
  BY <1>0 DEF memory
<1>1. ASSUME NEW e \in Exec, Create(e)
      PROVE  IndexAgrees'
  <2>1. CASE /\ records' = records \cup {e}
             /\ bySession' = [bySession EXCEPT ![SandboxOf[e]] = @ \cup {e}]
    BY <2>1
  <2>2. CASE removeInMemory(e)
    BY <2>2 DEF removeInMemory
  <2>3. QED
    BY <1>0, <1>1, <2>1, <2>2, CreateMemory
<1>2. ASSUME NEW s \in Sandbox, Delete(s)
      PROVE  IndexAgrees'
  <2>1. CASE DeleteBySandbox(s)
    BY <2>1 DEF DeleteBySandbox
  <2>2. QED
    BY <1>0, <1>2, <2>1, DeleteMemory
<1>3. ASSUME NEW r \in Reader, Get(r) \/ List(r)
      PROVE  IndexAgrees'
  BY <1>0, <1>3, ReadSteps
<1>4. CASE Crash
  BY <1>4 DEF Crash
<1>5. CASE Restart \/ \E s \in Sandbox : HostFailed(s)
  BY <1>0, <1>5 DEF Restart, HostFailed
<1>6. CASE UNCHANGED vars
  BY <1>0, <1>6 DEF vars
<1>7. QED
  BY <1>1, <1>2, <1>3, <1>4, <1>5, <1>6 DEF Next
-----------------------------------------------------------------------------
(***************************************************************************)
(* The life cycle of an exec.                                              *)
(***************************************************************************)

\* A POST handler changes nothing of the other execs, and neither the
\* process nor a reader.
LEMMA CreateFrame ==
  ASSUME TypeOK, NEW e \in Exec, Create(e)
  PROVE  /\ UNCHANGED <<adapter, reader>>
         /\ \A o \in Exec \ {e} :
              /\ pc'[o] = pc[o] /\ live'[o] = live[o] /\ row'[o] = row[o]
              /\ o \in records' <=> o \in records
PROOF
<1>1. UNCHANGED <<adapter, reader>>
  BY DEF Create, GetSandboxRow, GetAgent, RegisterInMemory, InsertRow,
     InsertFails, Rollback, StartExec, StartFails, StartOnNil, FinishRecord,
     DrainPanics, PersistFinal, PersistFails, process
<1>2. ASSUME NEW o \in Exec \ {e}
      PROVE  o \in records' <=> o \in records
  BY CreateMemory DEF memory, removeInMemory
<1>3. \E step \in Steps : pc' = [pc EXCEPT ![e] = step]
  BY DEF Create, GetSandboxRow, GetAgent, RegisterInMemory, InsertRow,
     InsertFails, Rollback, StartExec, StartFails, StartOnNil, FinishRecord,
     DrainPanics, PersistFinal, PersistFails, Goto, Steps
<1>4. \/ UNCHANGED live
      \/ \E st \in Status : live' = [live EXCEPT ![e] = st]
  BY DEF Create, GetSandboxRow, GetAgent, RegisterInMemory, InsertRow,
     InsertFails, Rollback, StartExec, StartFails, StartOnNil, FinishRecord,
     DrainPanics, PersistFinal, PersistFails, Status, Terminal
<1>5. \/ UNCHANGED row
      \/ \E st : row' = [row EXCEPT ![e] = st]
  BY DEF Create, GetSandboxRow, GetAgent, RegisterInMemory, InsertRow,
     InsertFails, Rollback, StartExec, StartFails, StartOnNil, FinishRecord,
     DrainPanics, PersistFinal, PersistFails
<1>6. QED
  BY <1>1, <1>2, <1>3, <1>4, <1>5 DEF TypeOK

\* A handler's own exec: each of its steps leads from one stage of the life
\* cycle to the next.
LEMMA OwnLifeCycle ==
  ASSUME TypeOK, NEW e \in Exec, LifeCycle(e), Create(e)
  PROVE  LifeCycle(e)'
PROOF
<1> USE DEF LifeCycle, TypeOK, memory, process, At, Goto, Serving, Steps,
        Status, Terminal
<1>1. CASE GetSandboxRow(e)
  BY <1>1 DEF GetSandboxRow
<1>2. CASE GetAgent(e)
  BY <1>2 DEF GetAgent
<1>3. CASE RegisterInMemory(e)
  BY <1>3 DEF RegisterInMemory
<1>4. CASE InsertRow(e)
  BY <1>4 DEF InsertRow, InsertedStatus
<1>5. CASE InsertFails(e)
  BY <1>5 DEF InsertFails
<1>6. CASE Rollback(e)
  BY <1>6 DEF Rollback, removeInMemory
<1>7. CASE StartExec(e)
  BY <1>7 DEF StartExec
<1>8. CASE StartFails(e)
  BY <1>8 DEF StartFails
<1>9. CASE StartOnNil(e)
  BY <1>9 DEF StartOnNil
<1>10. CASE FinishRecord(e)
  BY <1>10 DEF FinishRecord
<1>11. CASE DrainPanics(e)
  BY <1>11 DEF DrainPanics
<1>12. CASE PersistFinal(e)
  BY <1>12 DEF PersistFinal, FinalStatus
<1>13. CASE PersistFails(e)
  BY <1>13 DEF PersistFails
<1>14. QED
  BY <1>1, <1>2, <1>3, <1>4, <1>5, <1>6, <1>7, <1>8, <1>9, <1>10, <1>11,
     <1>12, <1>13 DEF Create

\* DELETE at most takes an exec out of the maps.
LEMMA DeleteFrame ==
  ASSUME TypeOK, NEW s \in Sandbox, Delete(s)
  PROVE  /\ UNCHANGED <<adapter, reader, pc, live, row>>
         /\ records' \subseteq records
PROOF
<1>1. UNCHANGED <<adapter, reader, pc, live, row>>
  BY DEF Delete, EndSandbox, EndRow, CloseAgent, CloseClient, EndManagerDelete,
     DeletePod, ClearRecords, RepeatDelete, process
<1>2. records' \subseteq records
  BY DeleteMemory DEF memory, DeleteBySandbox
<1>3. QED
  BY <1>1, <1>2

\* Every step keeps every exec in its life cycle.
LEMMA LifeCycleStep ==
  ASSUME TypeOK, IndexAgrees, \A e \in Exec : LifeCycle(e), [Next]_vars
  PROVE  \A e \in Exec : LifeCycle(e)'
PROOF
<1> SUFFICES ASSUME NEW e \in Exec PROVE LifeCycle(e)'
  OBVIOUS
<1>0. LifeCycle(e)
  OBVIOUS
<1>1. CASE UNCHANGED <<adapter, records, live, row, pc>>
  BY <1>0, <1>1 DEF LifeCycle, Serving
<1>2. ASSUME NEW o \in Exec, Create(o)
      PROVE  LifeCycle(e)'
  <2>1. CASE o = e
    BY <1>0, <1>2, <2>1, OwnLifeCycle
  <2>2. CASE o # e
    BY <1>0, <1>2, <2>2, CreateFrame DEF LifeCycle, Serving
  <2>3. QED
    BY <2>1, <2>2
<1>3. ASSUME NEW s \in Sandbox, Delete(s)
      PROVE  LifeCycle(e)'
  BY <1>0, <1>3, DeleteFrame DEF LifeCycle, Serving
<1>4. ASSUME NEW r \in Reader, Get(r) \/ List(r)
      PROVE  LifeCycle(e)'
  BY <1>1, <1>4, ReadSteps DEF memory, process
<1>5. CASE Crash
  BY <1>0, <1>5 DEF LifeCycle, Crash, Die, Serving, TypeOK
<1>6. CASE Restart
  BY <1>0, <1>6 DEF LifeCycle, Restart, ServeAgain, Reconcile, Serving, TypeOK,
     memory, Terminal
<1>7. ASSUME NEW s \in Sandbox, HostFailed(s)
      PROVE  LifeCycle(e)'
  BY <1>1, <1>7 DEF HostFailed, HostFails, memory
<1>8. QED
  BY <1>1, <1>2, <1>3, <1>4, <1>5, <1>6, <1>7 DEF Next, vars, memory, process
-----------------------------------------------------------------------------
(***************************************************************************)
(* DELETE and the records registered after it.                             *)
(***************************************************************************)

\* Only CloseClient takes a client away, only a restart gives one.
LEMMA DeleteLifeStep ==
  ASSUME TypeOK, IndexAgrees, DeleteLife, [Next]_vars
  PROVE  DeleteLife'
PROOF
<1> USE DEF DeleteLife, TypeOK
<1>1. CASE UNCHANGED <<adapter, deleting, agents, cleanup>>
  BY <1>1
<1>2. ASSUME NEW e \in Exec, Create(e)
      PROVE  UNCHANGED <<adapter, deleting, agents, cleanup>>
  BY <1>2 DEF Create, GetSandboxRow, GetAgent, RegisterInMemory, InsertRow,
     InsertFails, Rollback, StartExec, StartFails, StartOnNil, FinishRecord,
     DrainPanics, PersistFinal, PersistFails, process, sessions
<1>3. ASSUME NEW s \in Sandbox, Delete(s)
      PROVE  DeleteLife'
  <2>1. CASE EndSandbox(s)
    BY <2>1 DEF EndSandbox, EndRow, Serving
  <2>2. CASE CloseAgent(s)
    BY <2>2 DEF CloseAgent, CloseClient, Serving
  <2>3. CASE EndManagerDelete(s)
    BY <2>3 DEF EndManagerDelete, DeletePod, Serving
  <2>4. CASE ClearRecords(s) \/ RepeatDelete(s)
    BY <2>4 DEF ClearRecords, RepeatDelete, sessions, process, Serving
  <2>5. QED
    BY <1>3, <2>1, <2>2, <2>3, <2>4 DEF Delete
<1>4. ASSUME NEW r \in Reader, Get(r) \/ List(r)
      PROVE  UNCHANGED <<adapter, deleting, agents, cleanup>>
  BY <1>4, ReadSteps DEF sessions, process
<1>5. CASE Crash
  BY <1>5 DEF Crash, Die
<1>6. CASE Restart
  BY <1>6 DEF Restart, ServeAgain, Serving
<1>7. ASSUME NEW s \in Sandbox, HostFailed(s)
      PROVE  DeleteLife'
  BY <1>1, <1>7 DEF HostFailed, HostFails
<1>8. QED
  BY <1>1, <1>2, <1>3, <1>4, <1>5, <1>6, <1>7 DEF Next, vars, process, sessions

\* The records of a sandbox whose DELETE was answered stay as they are, or go.
LEMMA LateStep ==
  ASSUME TypeOK, IndexAgrees, \A e \in Exec : LifeCycle(e), DeleteLife,
         LateRecordsNeverRan, [Next]_vars
  PROVE  LateRecordsNeverRan'
PROOF
<1> TypeOK'
  BY TypeStep
<1> SUFFICES ASSUME NEW e \in Exec, e \in records',
                    cleanup'[SandboxOf[e]] = "answered"
             PROVE  pc'[e] # "draining" /\ live'[e] # "completed"
  BY DEF LateRecordsNeverRan, TypeOK
<1> DEFINE t == SandboxOf[e]
<1>0. t \in Sandbox /\ LifeCycle(e)
  BY ConstantsOK
<1>1. CASE /\ e \in records /\ cleanup[t] = "answered"
           /\ pc'[e] = pc[e] /\ live'[e] = live[e]
  BY <1>1 DEF LateRecordsNeverRan
<1>2. ASSUME NEW o \in Exec, Create(o)
      PROVE  pc'[e] # "draining" /\ live'[e] # "completed"
  <2>1. UNCHANGED <<cleanup, agents>>
    BY <1>2 DEF Create, GetSandboxRow, GetAgent, RegisterInMemory, InsertRow,
       InsertFails, Rollback, StartExec, StartFails, StartOnNil, FinishRecord,
       DrainPanics, PersistFinal, PersistFails, sessions
  <2>2. CASE o # e
    BY <1>1, <1>2, <2>1, <2>2, CreateFrame
  <2>3. t \notin agents
    BY <1>0, <2>1 DEF DeleteLife
  <2>4. CASE o = e /\ e \in records
    <3>1. pc[e] # "draining" /\ live[e] # "completed"
      BY <2>1, <2>4 DEF LateRecordsNeverRan
    <3>2. QED
      BY <1>0, <1>2, <2>3, <2>4, <3>1 DEF Create, GetSandboxRow, GetAgent,
         RegisterInMemory, InsertRow, InsertFails, Rollback, StartExec,
         StartFails, StartOnNil, FinishRecord, DrainPanics, PersistFinal,
         PersistFails, At, Goto, TypeOK
  <2>5. CASE o = e /\ e \notin records
    <3>1. RegisterInMemory(e)
      BY <1>2, <2>5, CreateMemory DEF memory, removeInMemory, Create,
         GetSandboxRow, GetAgent, InsertRow, InsertFails, Rollback, StartExec,
         StartFails, StartOnNil, FinishRecord, DrainPanics, PersistFinal,
         PersistFails
    <3>2. QED
      BY <3>1 DEF RegisterInMemory, Goto, TypeOK
  <2>6. QED
    BY <2>2, <2>4, <2>5
<1>3. ASSUME NEW s \in Sandbox, Delete(s)
      PROVE  pc'[e] # "draining" /\ live'[e] # "completed"
  <2>1. UNCHANGED <<pc, live>> /\ e \in records
    BY <1>3, DeleteFrame
  <2>2. CASE cleanup[t] = "answered"
    BY <1>1, <2>1, <2>2
  <2>3. CASE cleanup[t] # "answered"
    <3>1. s = t /\ ClearRecords(t)
      BY <1>0, <1>3, <2>3 DEF Delete, EndSandbox, CloseAgent, EndManagerDelete,
         ClearRecords, RepeatDelete, TypeOK
    <3>2. e \notin records'
      BY <1>0, <2>1, <3>1 DEF ClearRecords, DeleteBySandbox, IndexAgrees
    <3>3. QED
      BY <3>2
  <2>4. QED
    BY <2>2, <2>3
<1>4. ASSUME NEW r \in Reader, Get(r) \/ List(r)
      PROVE  pc'[e] # "draining" /\ live'[e] # "completed"
  BY <1>1, <1>4, ReadSteps DEF memory, sessions
<1>5. CASE Crash
  BY <1>5 DEF Crash
<1>6. CASE Restart \/ \E s \in Sandbox : HostFailed(s)
  BY <1>1, <1>6 DEF Restart, HostFailed, memory
<1>7. CASE UNCHANGED vars
  BY <1>1, <1>7 DEF vars, memory, sessions
<1>8. QED
  BY <1>2, <1>3, <1>4, <1>5, <1>6, <1>7 DEF Next
-----------------------------------------------------------------------------
(***************************************************************************)
(* Fresh reads.                                                            *)
(***************************************************************************)

\* The order of the statuses.
LEMMA RankValues ==
  /\ Rank("none") = 0
  /\ Rank("running") = 1
  /\ \A st \in Terminal : Rank(st) = 2
  /\ \A st \in Status : Rank(st) \in 0..2
PROOF
  BY DEF Rank, Status, Terminal

\* Both copies of an exec's status only go forward, but for the crash that
\* loses the memory.
LEMMA StatusesAdvance ==
  ASSUME TypeOK, \A e \in Exec : LifeCycle(e), [Next]_vars, ~Crash,
         NEW e \in Exec
  PROVE  Rank(live'[e]) >= Rank(live[e]) /\ Rank(row'[e]) >= Rank(row[e])
PROOF
<1>1. CASE live'[e] = live[e] /\ row'[e] = row[e]
  BY <1>1, RankValues DEF TypeOK
<1>2. ASSUME Create(e)
      PROVE  Rank(live'[e]) >= Rank(live[e]) /\ Rank(row'[e]) >= Rank(row[e])
  <2>1. LifeCycle(e)
    OBVIOUS
  <2>2. \/ live'[e] = live[e]
        \/ live[e] = "none"
        \/ live[e] = "running" /\ live'[e] # "none"
    <3>1. CASE RegisterInMemory(e)
      BY <2>1, <3>1 DEF LifeCycle, RegisterInMemory, At
    <3>2. CASE StartFails(e) \/ FinishRecord(e) \/ DrainPanics(e)
      <4>1. live[e] = "running"
        BY <2>1, <3>2 DEF LifeCycle, StartFails, FinishRecord, DrainPanics, At
      <4>2. \E st \in Status \ {"none"} : live' = [live EXCEPT ![e] = st]
        BY <3>2 DEF StartFails, FinishRecord, DrainPanics, Status, Terminal
      <4>3. QED
        BY <4>1, <4>2 DEF TypeOK
    <3>3. CASE UNCHANGED live
      BY <3>3
    <3>4. QED
      BY <1>2, <3>1, <3>2, <3>3 DEF Create, GetSandboxRow, GetAgent, InsertRow,
         InsertFails, Rollback, StartExec, StartOnNil, PersistFinal, PersistFails
  <2>3. \/ row'[e] = row[e]
        \/ row[e] = "none"
        \/ row[e] = "running" /\ row'[e] # "none"
    <3>1. CASE InsertRow(e)
      BY <2>1, <3>1 DEF LifeCycle, InsertRow, At
    <3>2. CASE PersistFinal(e)
      BY <2>1, <3>2 DEF LifeCycle, PersistFinal, FinalStatus, At, TypeOK
    <3>3. CASE UNCHANGED row
      BY <3>3
    <3>4. QED
      BY <1>2, <3>1, <3>2, <3>3 DEF Create, GetSandboxRow, GetAgent,
         RegisterInMemory, InsertFails, Rollback, StartExec, StartFails,
         StartOnNil, FinishRecord, DrainPanics, PersistFails
  <2>4. /\ live[e] \in Status /\ live'[e] \in Status
        /\ row[e] \in Status /\ row'[e] \in Status
    BY <1>2, CreateTypes DEF TypeOK
  <2>5. QED
    BY <2>2, <2>3, <2>4, RankValues DEF Status
<1>3. ASSUME NEW o \in Exec, Create(o)
      PROVE  Rank(live'[e]) >= Rank(live[e]) /\ Rank(row'[e]) >= Rank(row[e])
  BY <1>1, <1>2, <1>3, CreateFrame
<1>4. ASSUME NEW s \in Sandbox, Delete(s)
      PROVE  live'[e] = live[e] /\ row'[e] = row[e]
  BY <1>4, DeleteFrame
<1>5. ASSUME NEW r \in Reader, Get(r) \/ List(r)
      PROVE  live'[e] = live[e] /\ row'[e] = row[e]
  BY <1>5 DEF Get, List, Lookup
<1>6. CASE Restart
  <2>1. live' = live
    BY <1>6 DEF Restart
  <2>2. row'[e] = IF row[e] = "running" THEN "restarted" ELSE row[e]
    BY <1>6 DEF Restart, Reconcile
  <2>3. QED
    BY <2>1, <2>2, RankValues DEF TypeOK, Status, Terminal
<1>7. CASE UNCHANGED vars \/ \E s \in Sandbox : HostFailed(s)
  BY <1>1, <1>7 DEF vars, HostFailed
<1>8. QED
  BY <1>1, <1>3, <1>4, <1>5, <1>6, <1>7 DEF Next

\* A lookup establishes what the next one, or the answer, relies on.
LEMMA OwnFreshness ==
  ASSUME TypeOK, NEW r \in Reader, FreshSoFar(r),
         NEW want \in SUBSET Exec, reader[r].step > 1 => reader[r].want = want,
         Lookup(r, want, want \cap records)
  PROVE  FreshSoFar(r)'
PROOF
<1>1. \A st \in Status : Rank(st) >= Rank(st)
  BY RankValues
<1>2. live' = live /\ row' = row
  BY DEF Lookup
<1>3. CASE reader[r].step = 1
  <2> DEFINE first == [step |-> 2, want |-> want, hit |-> want \cap records,
                       rows |-> reader[r].rows, start |-> [e \in Exec |-> View(e)]]
  <2>1. reader'[r] = first
    <3>1. reader' = [reader EXCEPT ![r] = first]
      BY <1>3, LookupSteps
    <3> HIDE DEF first
    <3>2. QED
      BY <3>1 DEF TypeOK
  <2>2. ASSUME NEW e \in want
        PROVE  /\ e \in records => Rank(live[e]) >= Rank(View(e))
               /\ e \notin records => Rank(row[e]) >= Rank(View(e))
    BY <1>1 DEF View, TypeOK
  <2>3. /\ reader'[r].step = 2 /\ reader'[r].want = want
        /\ reader'[r].hit = want \cap records
    BY <2>1
  <2>4. \A e \in want : reader'[r].start[e] = View(e)
    BY <2>1
  <2>5. QED
    BY <1>2, <2>2, <2>3, <2>4 DEF FreshSoFar
<1>4. CASE reader[r].step = 2
  <2>1. reader'[r] = [step |-> 3, want |-> want, hit |-> reader[r].hit,
                      rows |-> row, start |-> reader[r].start]
    BY <1>4, LookupSteps DEF TypeOK
  <2>2. reader[r].want = want
    BY <1>4
  <2>3. QED
    BY <1>2, <1>4, <2>1, <2>2 DEF FreshSoFar
<1>5. QED
  BY <1>3, <1>4, LookupSteps

\* While statuses advance, what a reader has read stays fresh.
LEMMA StaysFresh ==
  ASSUME TypeOK, TypeOK', NEW r \in Reader, FreshSoFar(r),
         reader'[r] = reader[r],
         \A e \in Exec : /\ Rank(live'[e]) >= Rank(live[e])
                         /\ Rank(row'[e]) >= Rank(row[e])
  PROVE  FreshSoFar(r)'
PROOF
<1>1. SUFFICES ASSUME NEW e \in reader[r].want
               PROVE  /\ reader[r].step > 1 /\ e \in reader[r].hit =>
                           Rank(live'[e]) >= Rank(reader[r].start[e])
                      /\ reader[r].step = 2 /\ e \notin reader[r].hit =>
                           Rank(row'[e]) >= Rank(reader[r].start[e])
  BY DEF FreshSoFar
<1>2. e \in Exec /\ reader[r].start[e] \in Status
  BY DEF TypeOK, Request
<1>3. /\ live[e] \in Status /\ live'[e] \in Status
      /\ row[e] \in Status /\ row'[e] \in Status
  BY <1>2 DEF TypeOK
<1>4. QED
  BY <1>2, <1>3, RankValues DEF FreshSoFar

\* Every step keeps what the readers have read fresh.
LEMMA FreshStep ==
  ASSUME Inv, [Next]_vars
  PROVE  \A r \in Reader : FreshSoFar(r)'
PROOF
<1> SUFFICES ASSUME NEW r \in Reader PROVE FreshSoFar(r)'
  OBVIOUS
<1>0. TypeOK /\ TypeOK' /\ IndexAgrees /\ FreshSoFar(r)
  BY TypeStep DEF Inv
<1>1. CASE Crash
  <2>1. reader'[r].want = {}
    <3>1. reader'[r] = [reader[r] EXCEPT !.step = 3, !.want = {}]
      BY <1>1 DEF Crash
    <3>2. reader[r] \in Request
      BY <1>0 DEF TypeOK
    <3>3. QED
      BY <3>1, <3>2 DEF Request
  <2>2. QED
    BY <2>1 DEF FreshSoFar
<1>2. CASE ~Crash /\ reader'[r] = reader[r]
  BY <1>0, <1>2, StatusesAdvance, StaysFresh DEF Inv
<1>3. CASE Get(r) \/ List(r)
  BY <1>0, <1>3, ReadSteps, OwnFreshness
<1>4. ASSUME NEW o \in Reader \ {r}, Get(o) \/ List(o)
      PROVE  reader'[r] = reader[r]
  <2>1. PICK want, found : Lookup(o, want, found)
    BY <1>4 DEF Get, List
  <2>2. \E req : reader' = [reader EXCEPT ![o] = req]
    BY <2>1 DEF Lookup
  <2>3. QED
    BY <1>0, <2>2 DEF TypeOK
<1>5. ASSUME NEW e \in Exec, Create(e)
      PROVE  reader'[r] = reader[r]
  BY <1>0, <1>5, CreateFrame
<1>6. ASSUME NEW s \in Sandbox, Delete(s)
      PROVE  reader'[r] = reader[r]
  BY <1>0, <1>6, DeleteFrame
<1>7. CASE Restart \/ (\E s \in Sandbox : HostFailed(s)) \/ UNCHANGED vars
  BY <1>0, <1>2, <1>1, <1>7 DEF Restart, HostFailed, vars
<1>8. QED
  BY <1>1, <1>2, <1>3, <1>4, <1>5, <1>6, <1>7 DEF Next
-----------------------------------------------------------------------------
(***************************************************************************)
(* The theorems.                                                           *)
(***************************************************************************)

\* The invariant holds when the adapter first serves.
LEMMA InitInv == Init => Inv
PROOF
<1> SUFFICES ASSUME Init PROVE Inv
  OBVIOUS
<1>1. TypeOK
  <2>1. reader \in [Reader -> Request]
    BY DEF Init, Request, NoAnswer, Status
  <2>2. crashes \in 0..MaxCrashes
    BY ConstantsOK DEF Init
  <2>3. /\ live \in [Exec -> Status \ {"restarted"}] /\ row \in [Exec -> Status]
        /\ pc \in [Exec -> Steps] /\ client \in [Exec -> BOOLEAN]
    BY DEF Init, Status, Steps
  <2>4. QED
    BY <2>1, <2>2, <2>3 DEF Init, SessionsInit, TypeOK
<1>2. IndexAgrees
  BY DEF Init, IndexAgrees
<1>3. \A e \in Exec : LifeCycle(e)
  BY DEF Init, SessionsInit, LifeCycle, Serving
<1>4. \A r \in Reader : FreshSoFar(r)
  BY DEF Init, FreshSoFar
<1>5. DeleteLife /\ LateRecordsNeverRan
  BY DEF Init, SessionsInit, DeleteLife, LateRecordsNeverRan
<1>6. QED
  BY <1>1, <1>2, <1>3, <1>4, <1>5 DEF Inv

\* The registry's inductive invariant holds in every state.
THEOREM InvCorrect == Spec => []Inv
PROOF
<1>1. Inv /\ [Next]_vars => Inv'
  BY TypeStep, IndexStep, LifeCycleStep, FreshStep, DeleteLifeStep, LateStep
     DEF Inv
<1>2. QED
  BY InitInv, <1>1, PTL DEF Spec

\* The maps, columns and requests keep their types.
THEOREM TypeCorrect == Spec => []TypeOK
PROOF
<1>1. Inv => TypeOK
  BY DEF Inv
<1>2. QED
  BY <1>1, InvCorrect, PTL

\* For any number of sandboxes the two maps are one another's inverse.
THEOREM IndexAgreesHolds == Spec => []IndexAgrees
PROOF
<1>1. Inv => IndexAgrees
  BY DEF Inv
<1>2. QED
  BY <1>1, InvCorrect, PTL

\* An exec whose creation was refused has no record in memory.
THEOREM RefusedLeavesNoRecordHolds == Spec => []RefusedLeavesNoRecord
PROOF
<1>1. Inv => RefusedLeavesNoRecord
  BY DEF Inv, LifeCycle, RefusedLeavesNoRecord
<1>2. QED
  BY <1>1, InvCorrect, PTL

\* Memory and table never hold different outcomes of an exec.
THEOREM MemoryAgreesWithRowHolds == Spec => []MemoryAgreesWithRow
PROOF
<1>1. Inv => MemoryAgreesWithRow
  BY DEF Inv, LifeCycle, MemoryAgreesWithRow
<1>2. QED
  BY <1>1, InvCorrect, PTL

\* A row that runs while the adapter serves has one of the causes named.
THEOREM RunningRowsAreExplainedHolds == Spec => []RunningRowsAreExplained
PROOF
<1>1. Inv => RunningRowsAreExplained
  BY DEF Inv, LifeCycle, RunningRowsAreExplained, TypeOK, Steps
<1>2. QED
  BY <1>1, InvCorrect, PTL

\* No answer of Get or List is older than its request.
THEOREM FreshReadsHolds == Spec => []FreshReads
PROOF
<1>1. ASSUME Inv PROVE FreshReads
  <2>1. SUFFICES ASSUME NEW r \in Reader, reader[r].step > 2,
                        NEW e \in reader[r].want
                 PROVE  Rank(Answer(r, e)) >= Rank(reader[r].start[e])
    BY DEF FreshReads
  <2>2. reader[r].step = 3
    BY <1>1, <2>1 DEF Inv, TypeOK, Request
  <2>3. FreshSoFar(r)
    BY <1>1 DEF Inv
  <2>4. QED
    BY <2>2, <2>3 DEF FreshSoFar, Answer
<1>2. QED
  BY <1>1, InvCorrect, PTL

\* A final row is never rewritten, by a late UPDATE or by a Reconcile.
THEOREM FinalRowIsFinalHolds == Spec => FinalRowIsFinal
PROOF
<1>1. ASSUME Inv, [Next]_vars
      PROVE  [\A e \in Exec : row[e] \in Terminal => row'[e] = row[e]]_vars
  <2>1. SUFFICES ASSUME NEW e \in Exec, row[e] \in Terminal
                 PROVE  row'[e] = row[e]
    OBVIOUS
  <2>2. TypeOK /\ LifeCycle(e)
    BY <1>1 DEF Inv
  <2>3. ASSUME Create(e) PROVE row'[e] = row[e]
    <3>1. CASE InsertRow(e)
      BY <2>1, <2>2, <3>1 DEF InsertRow, At, LifeCycle, Terminal
    <3>2. CASE PersistFinal(e)
      BY <2>1, <2>2, <3>2 DEF PersistFinal, At, LifeCycle, Terminal
    <3>3. CASE UNCHANGED row
      BY <3>3
    <3>4. QED
      BY <2>3, <3>1, <3>2, <3>3 DEF Create, GetSandboxRow, GetAgent,
         RegisterInMemory, InsertFails, Rollback, StartExec, StartFails,
         StartOnNil, FinishRecord, DrainPanics, PersistFails
  <2>4. ASSUME NEW o \in Exec \ {e}, Create(o) PROVE row'[e] = row[e]
    BY <2>2, <2>4, CreateFrame
  <2>5. ASSUME NEW s \in Sandbox, Delete(s) PROVE row'[e] = row[e]
    BY <2>2, <2>5, DeleteFrame
  <2>6. ASSUME NEW r \in Reader, Get(r) \/ List(r) PROVE row'[e] = row[e]
    BY <2>6 DEF Get, List, Lookup
  <2>7. CASE Restart
    BY <2>1, <2>7 DEF Restart, Reconcile, Terminal
  <2>8. CASE Crash \/ (\E s \in Sandbox : HostFailed(s)) \/ UNCHANGED vars
    BY <2>8 DEF Crash, HostFailed, vars
  <2>9. QED
    BY <1>1, <2>3, <2>4, <2>5, <2>6, <2>7, <2>8 DEF Next
<1>2. QED
  BY <1>1, InvCorrect, PTL DEF Spec, FinalRowIsFinal

\* A record that outlives the DELETE of its sandbox never had a process.
THEOREM LateRecordsNeverRanHolds == Spec => []LateRecordsNeverRan
PROOF
<1>1. Inv => LateRecordsNeverRan
  BY DEF Inv
<1>2. QED
  BY <1>1, InvCorrect, PTL
=============================================================================
