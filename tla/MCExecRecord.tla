----------------------------- MODULE MCExecRecord -----------------------------
\* Small instances of ExecRecord for TLC.
EXTENDS ExecRecord, TLC

\* Absent, negative, ordinary and oversized max_output_bytes values.
MCRequested == {-1, 0, 1, 5}
MCOneLimit == {3}
=============================================================================
