----------------------------- MODULE MCExecSystem -----------------------------
\* Small instances of ExecSystem for TLC.
EXTENDS ExecSystem

CONSTANTS e, x, initial, user

\* One exec, whose process writes to stderr.
MCIds == [c \in {e} |-> x]
MCInitials == [c \in {e} |-> initial]
MCWrites == [c \in {e} |-> [s \in Stream |-> IF s = "err" THEN 1 ELSE 0]]
=============================================================================
