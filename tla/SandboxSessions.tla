--------------------------- MODULE SandboxSessions ---------------------------
(***************************************************************************)
(* What the exec handlers rely on of the sandbox manager: for each sandbox *)
(* whose creation has been answered its row, whether an agent client is    *)
(* cached for it, and how far a Manager.Delete at work has come.           *)
(* SandboxManager implements it; ExecRegistry adds the execs to it.        *)
(***************************************************************************)
CONSTANT Sandbox

VARIABLES
  adapter,       \* is the process serving or down, Reconcile included?
  sandbox,       \* status column of the sandboxes table
  agents,        \* sandboxes with a cached agent client
  deleting       \* progress of Manager.Delete on each sandbox

sessions == <<sandbox, agents, deleting>>
sessionVars == <<adapter, sessions>>

SessionsInit ==
  /\ adapter = "serving"
  /\ sandbox = [s \in Sandbox |-> "running"] /\ agents = Sandbox
  /\ deleting = [s \in Sandbox |-> "no"]

Serving == adapter = "serving"
-----------------------------------------------------------------------------
\* The UPDATE ends the row; if its acknowledgement is lost, Delete fails here.
EndRow(s) ==
  /\ Serving /\ sandbox[s] = "running"
  /\ sandbox' = [sandbox EXCEPT ![s] = "ended"]
  /\ deleting' = [deleting EXCEPT ![s] = "closing"] \/ UNCHANGED deleting
  /\ UNCHANGED <<adapter, agents>>

\* The client leaves the cache and is closed.
CloseClient(s) ==
  /\ Serving /\ deleting[s] = "closing"
  /\ agents' = agents \ {s}
  /\ deleting' = [deleting EXCEPT ![s] = "deletingPod"]
  /\ UNCHANGED <<adapter, sandbox>>

\* The pod is deleted, or the call fails: Manager.Delete returns.
DeletePod(s) ==
  /\ Serving /\ deleting[s] = "deletingPod"
  /\ deleting' = [deleting EXCEPT ![s] = "no"]
  /\ UNCHANGED <<adapter, sandbox, agents>>

-----------------------------------------------------------------------------
\* The adapter dies.  Before it serves again Reconcile, which may itself be
\* interrupted, ends the sandboxes whose pod is gone and dials some agents of
\* those still running.
Die ==
  /\ Serving /\ adapter' = "down"
  /\ agents' = {} /\ deleting' = [s \in Sandbox |-> "no"]
  /\ UNCHANGED sandbox

HostFails(s) ==
  /\ ~Serving /\ sandbox[s] = "running"
  /\ sandbox' = [sandbox EXCEPT ![s] = "ended"]
  /\ UNCHANGED <<adapter, agents, deleting>>

ServeAgain ==
  /\ ~Serving /\ adapter' = "serving"
  /\ agents' \in SUBSET {s \in Sandbox : sandbox[s] = "running"}
  /\ UNCHANGED <<sandbox, deleting>>

SessionsNext ==
  \/ \E s \in Sandbox : EndRow(s) \/ CloseClient(s) \/ DeletePod(s) \/ HostFails(s)
  \/ Die \/ ServeAgain

SessionsSpec == SessionsInit /\ [][SessionsNext]_sessionVars
=============================================================================
