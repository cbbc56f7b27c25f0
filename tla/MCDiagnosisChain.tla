-------------------------- MODULE MCDiagnosisChain --------------------------
(* A small instance of DiagnosisChain for TLC. *)
EXTENDS DiagnosisChain, TLC

\* A failure, cancel or crash, a manual diagnosis, a version bump and a stall
\* report.
Disturbed == [puzzle_generation |-> 1, diagnosis |-> 1,
              fault |-> 1, report |-> 1, bump |-> 1]

=============================================================================
