-------------------------- MODULE MCOpenRouterClient --------------------------
(* Bounds for TLC.  The defaults are 300s in total, 120s per attempt and     *)
(* 0.25s of backoff: the total fits two full attempts and part of a third.   *)
EXTENDS OpenRouterClient

MCFirstAttempts == {1, 3}
===============================================================================
