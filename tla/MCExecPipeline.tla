---------------------------- MODULE MCExecPipeline ----------------------------
\* Small instances of ExecPipeline for TLC.
EXTENDS ExecPipeline

\* One exec, whose initial stdin is the only request.
MCInitial == [c \in Call |-> CHOOSE w \in Writer : TRUE]
=============================================================================
