------------------------- MODULE MCContentGeneration -------------------------
(* One generation; ContentGeneration.cfg says how often an artifact and a   *)
(* node are retried.                                                        *)
EXTENDS ContentGeneration

MCPayloads == SUBSET {"lesson", "quiz", "pbl"}
=============================================================================
