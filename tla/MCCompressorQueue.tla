------------------------- MODULE MCCompressorQueue -------------------------
(* Instances of CompressorQueue for TLC.                                   *)
EXTENDS CompressorQueue, TLC

CONSTANTS j1, j2, r1, r2

MCJobs == {j1, j2}
MCRuns == {r1, r2}
MCSlots == 1..2

(* Cards differ only by name; a run is taken by CHOOSE, so runs do not.    *)
Symmetry == Permutations(MCJobs)

(* What may happen in each instance.                                       *)
LifecycleOps == {"cancelrepeat", "stopall", "rerun", "repeat"}
StopOps == {"cancel", "stopall", "rerun", "repeat", "audio", "sleep", "tools", "kill", "remove"}
HandoffOps == {"cancel", "stopall", "rerun", "pause", "prioritize", "unask", "kill", "update"}
ProgressOps == {"cancel", "prioritize"}
RepeatCancelOps == {"cancelrepeat", "rerun", "repeat"}
PauseOps == {"pause", "prioritize"}
PauseKeptOps == {"cancel", "pause", "rerun"}

(* A list restored from disk: every card is ready, nothing runs.           *)
Restored ==
  /\ status = [j \in Jobs |-> "ready"] /\ listed = Jobs
  /\ out = [j \in Jobs |-> 1] /\ prev = [j \in Jobs |-> NoSlot]
  /\ paused = [j \in Jobs |-> FALSE] /\ prio = [j \in Jobs |-> "idle"]
  /\ file = [j \in Jobs |-> [s \in Slots |-> "none"]]
  /\ writing = [r \in Runs |-> NoSlot]
  /\ act = Idle /\ holds = {} /\ pauseHold = [j \in Jobs |-> None]
  /\ watchdog = FALSE /\ pumpDue = FALSE /\ terminating = {}
  /\ handoff = "none"
  /\ pc = [r \in Runs |-> "free"] /\ rjob = [r \in Runs |-> None]
  /\ child = [r \in Runs |-> "none"]
  /\ batch = "none" /\ inBatch = {} /\ starting = {}
  /\ cancelling = [j \in Jobs |-> <<"no", NoSlot>>]
  /\ tools = TRUE /\ update = "none"

ProgressSpec == Restored /\ [][Next]_vars /\ Fairness
=============================================================================
