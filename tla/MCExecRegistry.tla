---------------------------- MODULE MCExecRegistry ----------------------------
\* Small instances of ExecRegistry for TLC.
EXTENDS ExecRegistry, TLC

CONSTANTS e1, e2, s1, s2

\* Two execs racing in one sandbox.
MCSameSandbox == e1 :> s1 @@ e2 :> s1
=============================================================================
