---------------------------- MODULE MCEngineEval ----------------------------
(* Small instances of EngineEval for TLC. *)
EXTENDS EngineEval, TLC

CONSTANT host

\* The requests and a batch share one process.
OneProcess == [c \in Callers |-> host]

=============================================================================
