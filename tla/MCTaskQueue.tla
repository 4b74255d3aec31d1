---------------------------- MODULE MCTaskQueue ----------------------------
(* TaskQueue for TLC. *)
EXTENDS TaskQueue, TLC

CONSTANTS j1, j2

\* What a job's body says of attempt: nothing, as every producer of the
\* repository sends it; or 0, as the example of docs/HTTP_API.md does.
AttemptMixed == [j \in Jobs |-> IF j = j1 THEN NoAttempt ELSE 0]

=============================================================================
