----------------------------- MODULE MCGuestAgent -----------------------------
\* Small instances of GuestAgent for TLC.
EXTENDS GuestAgent, TLC

CONSTANTS a, b

\* Two calls that ask for the same exec_id; the process of the first fills
\* both its pipes.
MCSameId == [c \in {a, b} |-> CHOOSE id \in ExecId : TRUE]
MCWrites == (a :> [s \in Stream |-> 1]) @@ (b :> [s \in Stream |-> 0])
=============================================================================
