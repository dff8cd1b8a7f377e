----------------------------- MODULE PowerLimit -----------------------------
(***************************************************************************)
(* The power limit and the file that keeps it: setLimit() of               *)
(* apps/agent/src/power/governor.ts and apps/agent/src/power/store.ts.     *)
(*                                                                         *)
(* A request to set the limit saves it first (a temporary file, written    *)
(* and renamed) and applies it when the save has succeeded.  Every await   *)
(* of the save is a point where another request may run: nothing keeps two *)
(* requests apart, and all use the same temporary name.                    *)
(***************************************************************************)
EXTENDS Naturals

CONSTANTS Windows,     \* the requests that may be in flight at once
          Limits,      \* the limits they ask for
          Full         \* no limit, and what holds when nothing was saved

ASSUME LimitAssumption ==
  /\ Full \in Limits
  /\ Limits \subseteq Nat
  /\ {0, 1} \cap Limits = {}

VARIABLES
  limit,     \* the limit in force
  disk, tmp, \* the file and the temporary one
  call,      \* how far each request is
  want,      \* the limit it asked for: Full when it is not in flight
  at,        \* where its open file is now: its name may have changed
  crowded,   \* history: requests in flight that met another one
  clean      \* history: nothing met another since a request that did not

limitVars == <<limit, disk, tmp, call, want, at, crowded, clean>>
history   == <<crowded, clean>>

NoFile == 0
Torn   == 1       \* opened for writing, so truncated, and not yet written

LimitTypeOK ==
  /\ limit \in Limits
  /\ disk \in Limits \cup {NoFile, Torn}
  /\ tmp \in Limits \cup {NoFile, Torn}
  /\ call \in [Windows -> {"idle", "write", "rename", "unlink",
                              "apply"}]
  /\ want \in [Windows -> Limits]
  /\ at \in [Windows -> {"tmp", "disk", "lost"}]
  /\ crowded \subseteq Windows /\ clean \in BOOLEAN

LimitInit ==
  /\ limit = Full /\ disk = NoFile /\ tmp = NoFile
  /\ call = [w \in Windows |-> "idle"]
  /\ want = [w \in Windows |-> Full]
  /\ at = [w \in Windows |-> "lost"]
  /\ crowded = {} /\ clean = TRUE

InFlight == {w \in Windows : call[w] # "idle"}

(* Two requests have met when one begins before the other has ended.       *)
Meets(w) ==
  /\ crowded' = IF InFlight = {} THEN {} ELSE InFlight \cup {w}
  /\ clean' = (clean /\ InFlight = {})

(* writeFile() opens the temporary file, which truncates it.               *)
SaveBeginApplied(w, l) ==                                    \* mutant
  /\ call[w] = "idle"
  /\ call' = [call EXCEPT ![w] = "write"]
  /\ want' = [want EXCEPT ![w] = l]
  /\ at' = [at EXCEPT ![w] = "tmp"]
  /\ tmp' = Torn /\ limit' = l
  /\ Meets(w) /\ UNCHANGED disk
SaveBegin(w, l) ==
  /\ call[w] = "idle"
  /\ call' = [call EXCEPT ![w] = "write"]
  /\ want' = [want EXCEPT ![w] = l]
  /\ at' = [at EXCEPT ![w] = "tmp"]
  /\ tmp' = Torn
  /\ Meets(w) /\ UNCHANGED <<limit, disk>>

(* The content goes to the open file, whatever it is called by now.        *)
SaveWrite(w) ==
  /\ call[w] = "write"
  /\ call' = [call EXCEPT ![w] = "rename"]
  /\ tmp' = IF at[w] = "tmp" THEN want[w] ELSE tmp
  /\ disk' = IF at[w] = "disk" THEN want[w] ELSE disk
  /\ UNCHANGED <<limit, want, at, history>>

(* The write or the rename fails.                                          *)
SaveFail(w) ==
  /\ call[w] \in {"write", "rename"}
  /\ call' = [call EXCEPT ![w] = "unlink"]
  /\ UNCHANGED <<limit, disk, tmp, want, at, history>>

(* The temporary file of that name is removed, the request refused.        *)
SaveRefused(w) ==
  /\ call[w] = "unlink"
  /\ call' = [call EXCEPT ![w] = "idle"]
  /\ tmp' = NoFile
  /\ at' = [v \in Windows |-> IF v = w \/ at[v] = "tmp" THEN "lost" ELSE at[v]]
  /\ want' = [want EXCEPT ![w] = Full]
  /\ UNCHANGED <<limit, disk, history>>

(* rename(), of whatever file has the temporary name.                      *)
SaveRename(w) ==
  /\ call[w] = "rename" /\ tmp # NoFile
  /\ call' = [call EXCEPT ![w] = "apply"]
  /\ at' = [v \in Windows |-> IF v # w /\ at[v] = "tmp" THEN "disk" ELSE "lost"]
  /\ disk' = tmp /\ tmp' = NoFile
  /\ UNCHANGED <<limit, want, history>>

SaveStep(w) ==
  \/ \E l \in Limits : SaveBegin(w, l)
  \/ SaveWrite(w)
  \/ SaveFail(w)
  \/ SaveRefused(w)
  \/ SaveRename(w)

(* The rest of setLimit(): the limit it asked for is in force.             *)
Saved(w) ==
  /\ call[w] = "apply"
  /\ limit' = want[w]
  /\ call' = [call EXCEPT ![w] = "idle"]
  /\ want' = [want EXCEPT ![w] = Full]
  /\ clean' = (clean \/ w \notin crowded)
  /\ UNCHANGED <<disk, tmp, at, crowded>>

(* loadPowerState() at the next start: an absent or unreadable file is no  *)
(* limit.                                                                  *)
Loaded == IF disk \in Limits THEN disk ELSE Full

LimitNext == \E w \in Windows : SaveStep(w) \/ Saved(w)
LimitSpec == LimitInit /\ [][LimitNext]_limitVars

(* The lever never shows a limit that would not survive a restart, at      *)
(* whatever point of a save the agent dies: the file is whole, and holds   *)
(* the limit in force or the one the request is about to put in force.     *)
(* This is of requests that meet no other, and again after any that did.   *)
LimitSurvives ==
  clean => /\ disk # Torn
           /\ \/ limit = Loaded
              \/ \E w \in Windows : call[w] = "apply" /\ want[w] = Loaded

(* The same of all requests, as the comment on setLimit() has it.          *)
LimitOnDisk == InFlight = {} => limit = Loaded
=============================================================================
