--------------------------- MODULE MCValidationRun ---------------------------
(* Two orchestrator processes, one without an evidence directory, and two  *)
(* commands, one of which carries a credential.                            *)
EXTENDS ValidationRun, TLC

CONSTANTS p1, p2, test, login

MCProcesses    == {p1, p2}
MCWithEvidence == {p1}
MCCommands     == {test, login}
MCSecrets      == {login}
=============================================================================
