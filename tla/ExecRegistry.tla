----------------------------- MODULE ExecRegistry -----------------------------
(***************************************************************************)
(* The exec registry of the adapter (adapter/internal/exec/registry.go):   *)
(* two maps in memory over the execs table, and the handlers that use it:  *)
(* POST exec (ExecHandler.Create and drainIntoRecord), GET exec and its    *)
(* list, DELETE sandbox, and the adapter's crash and restart.              *)
(*                                                                         *)
(* A section under r.mu is one action and so is a database statement, for  *)
(* everything between them interleaves.  A statement may fail, or fail for *)
(* the caller after it committed.                                          *)
(*                                                                         *)
(* Abstractions.  A record is its status: ExecRecord models its output.    *)
(* An exec id is the handler that drew it, since newExecID draws at        *)
(* random: the collision test of Register never fires.  The sandboxes, of  *)
(* which Manager.Get reads the row and the cached client, are those of     *)
(* SandboxSessions, which SandboxManager implements.                       *)
(***************************************************************************)
EXTENDS SandboxSessions, Naturals, FiniteSets

CONSTANTS
  Exec,          \* exec ids, one POST handler each
  SandboxOf,     \* the sandbox each exec is posted to
  Reader,        \* GET requests, each made once
  MaxCrashes     \* bound: crashes of the adapter

ASSUME ConstantsOK ==
  /\ SandboxOf \in [Exec -> Sandbox]
  /\ MaxCrashes \in Nat

VARIABLES
  crashes,
  cleanup,       \* progress of DELETE after Manager.Delete ("answered": 204;
                 \* "repeated": 204 to a DELETE that found the row ended)
  records,       \* keys of the map exec_id -> record
  bySession,     \* the map sandbox_id -> set of exec_ids
  live,          \* status of each record object, "none" if there is none
  row,           \* status column of the execs table, "none" without a row
  pc,            \* progress of each POST exec
  client,        \* did the handler get an agent client?
  reader         \* the GET requests

memory   == <<records, bySession>>
process  == <<adapter, crashes>>
vars == <<memory, sessions, cleanup, process, live, row, pc, client, reader>>

\* "restarted" is an errored row with completion_err = 'adapter_restarted'.
Terminal == {"completed", "errored", "restarted"}
Status == {"none", "running"} \cup Terminal
Steps == {"idle", "found", "validated", "inserting", "rollback", "registered",
          "draining", "persisting",
          \* ends: saved, answered with an error, final UPDATE failed,
          \* handler panicked, adapter crashed
          "saved", "refused", "unsaved", "panicked", "lost"}

\* What Get and List answer for an exec: memory first, then the table.
View(e) == IF e \in records THEN live[e] ELSE row[e]

Request == [step : 1..3, want : SUBSET Exec, hit : SUBSET Exec,
            rows : [Exec -> Status], start : [Exec -> Status]]
NoAnswer == [e \in Exec |-> "none"]

Init ==
  /\ SessionsInit /\ crashes = 0
  /\ cleanup = [s \in Sandbox |-> "no"]
  /\ records = {} /\ bySession = [s \in Sandbox |-> {}]
  /\ live = [e \in Exec |-> "none"] /\ row = [e \in Exec |-> "none"]
  /\ pc = [e \in Exec |-> "idle"] /\ client = [e \in Exec |-> FALSE]
  /\ reader = [r \in Reader |-> [step |-> 1, want |-> {}, hit |-> {},
                                 rows |-> NoAnswer, start |-> NoAnswer]]

At(e, step) == Serving /\ pc[e] = step
Goto(e, step) == pc' = [pc EXCEPT ![e] = step]
-----------------------------------------------------------------------------
(***************************************************************************)
(* POST exec.                                                              *)
(***************************************************************************)

\* Manager.Get reads the row: an ended sandbox, or a failed query, refuses.
GetSandboxRow(e) ==
  /\ At(e, "idle")
  /\ \/ sandbox[SandboxOf[e]] = "running" /\ Goto(e, "found")
     \/ Goto(e, "refused")
  /\ UNCHANGED <<memory, sessions, cleanup, process, live, row, client, reader>>

\* Then it reads the cached client, which may be nil; the handler does not
\* look at it before it has validated the request and registered the exec.
GetAgent(e) ==
  /\ At(e, "found")
  /\ client' = [client EXCEPT ![e] = SandboxOf[e] \in agents]
  /\ Goto(e, "validated") \/ Goto(e, "refused")
  /\ UNCHANGED <<memory, sessions, cleanup, process, live, row, reader>>

\* Register, first part: a fresh running record enters both maps.
RegisterInMemory(e) ==
  /\ At(e, "validated")
  /\ records' = records \cup {e}
  /\ bySession' = [bySession EXCEPT ![SandboxOf[e]] = @ \cup {e}]
  /\ live' = [live EXCEPT ![e] = "running"]
  /\ Goto(e, "inserting")
  /\ UNCHANGED <<sessions, cleanup, process, row, client, reader>>

\* The status the INSERT writes; a regression writes one parseStatus does
\* not know.
UnknownStatus == "starting"
InsertedStatus == "running"

\* Register, second part: the INSERT.
InsertRow(e) ==
  /\ At(e, "inserting")
  /\ row' = [row EXCEPT ![e] = InsertedStatus]
  /\ Goto(e, "registered") \/ Goto(e, "rollback")    \* committed; ack lost
  /\ UNCHANGED <<memory, sessions, cleanup, process, live, client, reader>>

InsertFails(e) ==
  /\ At(e, "inserting")
  /\ Goto(e, "rollback")
  /\ UNCHANGED <<memory, sessions, cleanup, process, live, row, client, reader>>

\* Two regressions of removeInMemory, each forgetting one of the maps.
ForgetRecordOnly(e) == records' = records \ {e} /\ UNCHANGED bySession
ForgetIndexOnly(e) ==
  /\ bySession' = [bySession EXCEPT ![SandboxOf[e]] = @ \ {e}]
  /\ UNCHANGED records

removeInMemory(e) ==
  /\ records' = records \ {e}
  /\ bySession' = [bySession EXCEPT ![SandboxOf[e]] = @ \ {e}]

Rollback(e) ==
  /\ At(e, "rollback")
  /\ removeInMemory(e)
  /\ Goto(e, "refused")
  /\ UNCHANGED <<sessions, cleanup, process, live, row, client, reader>>

\* A regression: the client works on after it has been closed.
StartOnClosed(e) ==
  /\ At(e, "registered") /\ client[e]
  /\ Goto(e, "draining")
  /\ UNCHANGED <<memory, sessions, cleanup, process, live, row, client, reader>>
\* Agent.Exec opens the stream, if DELETE has not closed the client.
StartExec(e) ==
  /\ At(e, "registered") /\ client[e] /\ SandboxOf[e] \in agents
  /\ Goto(e, "draining")
  /\ UNCHANGED <<memory, sessions, cleanup, process, live, row, client, reader>>

\* It could not: Registry.Errored ends the record, whose fan-out may panic, then
\* persists it.
StartFails(e) ==
  /\ At(e, "registered") /\ client[e]
  /\ live' = [live EXCEPT ![e] = "errored"]
  /\ Goto(e, "persisting") \/ Goto(e, "panicked")
  /\ UNCHANGED <<memory, sessions, cleanup, process, row, client, reader>>

\* The client is nil: the handler panics and the middleware recovers.
StartOnNil(e) ==
  /\ At(e, "registered") /\ ~client[e]
  /\ Goto(e, "panicked")
  /\ UNCHANGED <<memory, sessions, cleanup, process, live, row, client, reader>>

\* drainIntoRecord reaches the Done frame, or the end of a stream without
\* one: Registry.Complete or Registry.Errored, first on the record.
FinishRecord(e) ==
  /\ At(e, "draining")
  /\ \E final \in {"completed", "errored"} : live' = [live EXCEPT ![e] = final]
  /\ Goto(e, "persisting")
  /\ UNCHANGED <<memory, sessions, cleanup, process, row, client, reader>>

\* A fan-out panics in a foreground handler (ExecRecord, SendOnClosed):
\* that of an output chunk, or that of the terminal one.
DrainPanics(e) ==
  /\ At(e, "draining")
  /\ \E now \in {"running", "completed", "errored"} :
       live' = [live EXCEPT ![e] = now]
  /\ Goto(e, "panicked")
  /\ UNCHANGED <<memory, sessions, cleanup, process, row, client, reader>>

\* The status persistFinal writes; a regression that always writes success.
AlwaysCompleted(e) == "completed"
FinalStatus(e) == live[e]

PersistFinal(e) ==
  /\ At(e, "persisting")
  /\ row' = [row EXCEPT ![e] = IF @ = "none" THEN "none" ELSE FinalStatus(e)]
  /\ Goto(e, "saved")
  /\ UNCHANGED <<memory, sessions, cleanup, process, live, client, reader>>

\* Best effort: a failed UPDATE is logged and never retried.
PersistFails(e) ==
  /\ At(e, "persisting")
  /\ Goto(e, "unsaved")
  /\ UNCHANGED <<memory, sessions, cleanup, process, live, row, client, reader>>

Create(e) ==
  \/ GetSandboxRow(e) \/ GetAgent(e) \/ RegisterInMemory(e)
  \/ InsertRow(e) \/ InsertFails(e) \/ Rollback(e)
  \/ StartExec(e) \/ StartFails(e) \/ StartOnNil(e)
  \/ FinishRecord(e) \/ DrainPanics(e) \/ PersistFinal(e) \/ PersistFails(e)
-----------------------------------------------------------------------------
(***************************************************************************)
(* DELETE sandbox: Manager.Delete, then DeleteBySandbox.                   *)
(***************************************************************************)
DeleteBySandbox(s) ==
  /\ records' = records \ bySession[s]
  /\ bySession' = [bySession EXCEPT ![s] = {}]

EndSandbox(s) ==
  /\ EndRow(s)
  /\ UNCHANGED <<memory, cleanup, crashes, live, row, pc, client, reader>>

CloseAgent(s) ==
  /\ CloseClient(s)
  /\ UNCHANGED <<memory, cleanup, crashes, live, row, pc, client, reader>>

\* DELETE goes on if the pod could be deleted.
EndManagerDelete(s) ==
  /\ DeletePod(s)
  /\ cleanup' = [cleanup EXCEPT ![s] = "clearing"] \/ UNCHANGED cleanup
  /\ UNCHANGED <<memory, crashes, live, row, pc, client, reader>>

ClearRecords(s) ==
  /\ Serving /\ cleanup[s] = "clearing"
  /\ DeleteBySandbox(s)
  /\ cleanup' = [cleanup EXCEPT ![s] = "answered"]
  /\ UNCHANGED <<sessions, process, live, row, pc, client, reader>>

\* A repeated DELETE: its UPDATE affects no row, so it only clears records.
RepeatDelete(s) ==
  /\ Serving /\ sandbox[s] = "ended"
  /\ DeleteBySandbox(s)
  /\ cleanup' = [cleanup EXCEPT ![s] = IF @ = "no" THEN "repeated" ELSE @]
  /\ UNCHANGED <<sessions, process, live, row, pc, client, reader>>

Delete(s) == \/ EndSandbox(s) \/ CloseAgent(s) \/ EndManagerDelete(s)
             \/ ClearRecords(s) \/ RepeatDelete(s)
-----------------------------------------------------------------------------
(***************************************************************************)
(* Get and List: the map under r.mu, then a query.  The record objects     *)
(* found are kept and their status is read when the answer is written.     *)
(***************************************************************************)
RowsFirst == <<"rows", "memory">>       \* a regression: the lookups swapped
LookupOrder == <<"memory", "rows">>

Lookup(r, want, found) ==
  LET req  == reader[r]
      what == LookupOrder[req.step]
  IN
  /\ Serving /\ req.step <= 2
  /\ reader' = [reader EXCEPT ![r] =
       [step  |-> req.step + 1, want |-> want,
        hit   |-> IF what = "memory" THEN found ELSE req.hit,
        rows  |-> IF what = "rows" THEN row ELSE req.rows,
        start |-> IF req.step = 1 THEN [e \in Exec |-> View(e)]
                                  ELSE req.start]]
  /\ UNCHANGED <<memory, sessions, cleanup, process, live, row, pc, client>>

Get(r) == \E e \in Exec :
  /\ reader[r].step > 1 => reader[r].want = {e}
  /\ Lookup(r, {e}, {e} \cap records)

List(r) == \E s \in Sandbox :
  LET all == {e \in Exec : SandboxOf[e] = s} IN
  /\ reader[r].step > 1 => reader[r].want = all
  /\ Lookup(r, all, bySession[s] \cap records)

Answer(r, e) ==
  IF e \in reader[r].hit THEN live[e] ELSE reader[r].rows[e]
-----------------------------------------------------------------------------
(***************************************************************************)
(* Crash and restart.  The memory, the handlers and the agents' streams    *)
(* are lost.  Before serving again the manager ends the running sandboxes  *)
(* whose pod is gone and redials those whose agent answers, then the       *)
(* registry errors the rows still running.                                 *)
(***************************************************************************)
Crash ==
  /\ Die /\ crashes < MaxCrashes /\ crashes' = crashes + 1
  /\ records' = {} /\ bySession' = [s \in Sandbox |-> {}]
  /\ live' = [e \in Exec |-> "none"]
  /\ cleanup' = [s \in Sandbox |-> "no"]
  /\ pc' = [e \in Exec |-> IF pc[e] = "idle" THEN "idle" ELSE "lost"]
  /\ reader' = [r \in Reader |-> [reader[r] EXCEPT !.step = 3, !.want = {}]]
  /\ UNCHANGED <<row, client>>

HostFailed(s) ==
  /\ HostFails(s)
  /\ UNCHANGED <<memory, cleanup, crashes, live, row, pc, client, reader>>

\* Regressions of Reconcile: no WHERE clause; nothing is done.
ReconcileAll == [e \in Exec |-> IF row[e] = "none" THEN "none" ELSE "restarted"]
ReconcileNone == row
Reconcile == [e \in Exec |-> IF row[e] = "running" THEN "restarted" ELSE row[e]]

Restart ==
  /\ ServeAgain /\ row' = Reconcile
  /\ UNCHANGED <<memory, cleanup, crashes, live, pc, client, reader>>

Next ==
  \/ \E e \in Exec : Create(e)
  \/ \E s \in Sandbox : Delete(s) \/ HostFailed(s)
  \/ \E r \in Reader : Get(r) \/ List(r)
  \/ Crash \/ Restart

Spec == Init /\ [][Next]_vars
-----------------------------------------------------------------------------
(***************************************************************************)
(* Properties.                                                             *)
(***************************************************************************)

\* The variables have the types of the maps and columns they stand for.
TypeOK ==
  /\ adapter \in {"serving", "down"} /\ crashes \in 0..MaxCrashes
  /\ sandbox \in [Sandbox -> {"running", "ended"}] /\ agents \subseteq Sandbox
  /\ deleting \in [Sandbox -> {"no", "closing", "deletingPod"}]
  /\ cleanup \in [Sandbox -> {"no", "clearing", "answered", "repeated"}]
  /\ records \subseteq Exec /\ bySession \in [Sandbox -> SUBSET Exec]
  /\ live \in [Exec -> Status \ {"restarted"}] /\ row \in [Exec -> Status]
  /\ pc \in [Exec -> Steps] /\ client \in [Exec -> BOOLEAN]
  /\ reader \in [Reader -> Request]

\* The two maps stay one another's inverse through Register, its rollback
\* and DeleteBySandbox, in any order: List and DeleteBySandbox go by
\* bySession, Get goes by records.
IndexAgrees ==
  \A s \in Sandbox : bySession[s] = {e \in records : SandboxOf[e] = s}

\* Register: "If the in-memory ID collides or the DB INSERT fails, the
\* in-memory entry is rolled back", also when the sandbox is deleted
\* meanwhile: no record stays behind an exec whose creation was refused.
RefusedLeavesNoRecord == \A e \in Exec : pc[e] = "refused" => e \notin records

\* Whatever layer answers, a final status in the table is the one the
\* record in memory has: Complete and Errored never leave the two with
\* different outcomes, although memory is written first.
MemoryAgreesWithRow ==
  \A e \in Exec : e \in records /\ row[e] \in Terminal => live[e] = row[e]

\* While the adapter serves, a row still running belongs to a handler at
\* work, or was left by a failed INSERT acknowledgement, a failed UPDATE
\* or a panic.  In particular Reconcile has settled every row of a crash,
\* and a handler that persisted has settled its own.
RunningRowsAreExplained ==
  Serving => \A e \in Exec : row[e] = "running" =>
    pc[e] \in {"registered", "draining", "persisting",
               "rollback", "refused", "unsaved", "panicked"}

\* "Get and List union the two views": an answer is never older than the
\* request, though a record may be dropped or persisted between lookups.
Rank(st) == CASE st = "none" -> 0 [] st = "running" -> 1 [] OTHER -> 2
FreshReads ==
  \A r \in Reader : reader[r].step > 2 => \A e \in reader[r].want :
    Rank(Answer(r, e)) >= Rank(reader[r].start[e])

\* A row that reached a final status is never rewritten, by a late
\* persistFinal or by a Reconcile ("WHERE status = 'running'").
FinalRowIsFinal ==
  [][\A e \in Exec : row[e] \in Terminal => row'[e] = row[e]]_vars

\* A POST that was admitted before the DELETE of its sandbox and registers
\* after it leaves a record behind, which never had a process: the client it
\* holds is closed.  The records of the execs that ran are gone.
LateRecordsNeverRan ==
  \A e \in records : cleanup[SandboxOf[e]] = "answered" =>
    pc[e] # "draining" /\ live[e] # "completed"
=============================================================================
