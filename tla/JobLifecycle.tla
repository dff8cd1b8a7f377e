---------------------------- MODULE JobLifecycle ----------------------------
(***************************************************************************)
(* The compression lifecycle the agent and the interface share             *)
(* (packages/shared/src/lifecycle.ts) and the one function that consults   *)
(* it (apps/agent/src/queue/transitions.ts).                               *)
(***************************************************************************)

Status == {"analyzing", "ready", "queued", "processing", "completed",
           "failed", "cancelled", "interrupted"}

(* COMPRESSION_LIFECYCLE.transitions.                                      *)
Edges(s) ==
  CASE s = "analyzing"   -> {"ready", "failed"}
    [] s = "ready"       -> {"queued"}
    [] s = "queued"      -> {"processing", "cancelled", "ready"}
    [] s = "processing"  -> {"completed", "failed", "cancelled",
                             "interrupted", "analyzing"}
    [] s \in {"completed", "failed", "cancelled"} -> {"ready"}
    [] s = "interrupted" -> {"ready", "completed", "failed"}
    [] OTHER             -> {}

(* COMPRESSION_LIFECYCLE.settled: a run is over, whatever its outcome.     *)
Settled == {"completed", "failed", "cancelled", "interrupted"}

(* What a person may stop, and therefore may not remove from the list.     *)
Stoppable == {s \in Status : "cancelled" \in Edges(s)}

(* decideTransition in strict mode; staying put is not a change.           *)
Allowed(from, to) == from = to \/ to \in Edges(from)

(* The statuses st after asking to move j to s: a refusal changes nothing. *)
MovedAnyway(st, j, s) == [st EXCEPT ![j] = s]                \* mutant
Moved(st, j, s) == IF Allowed(st[j], s) THEN [st EXCEPT ![j] = s] ELSE st
=============================================================================
