------------------------------- MODULE StateFile -------------------------------
(***************************************************************************)
(* How the agent keeps a list on disk: a copy is written beside the file   *)
(* and renamed over it.                                                    *)
(*                                                                         *)
(* The compressor's and the transcription lists (index.ts,                 *)
(* queue/store.ts) chain their saves, take the list when a save's turn     *)
(* comes, and write each copy under a name of its own.  The stitcher's     *)
(* (stitcher/store.ts) starts a save of the list as it is on every change  *)
(* and gives every copy the same name.                                     *)
(***************************************************************************)
EXTENDS Naturals, Sequences, FiniteSets

CONSTANTS MaxChanges,   \* bound: how often the list changes
          MaxDeaths,   \* bound: how often the process dies
          Lengths,      \* how long the list may be, in blocks
          Chained,      \* is a save begun only after the one before it?
          OwnCopy       \* has each save a name of its own for the copy?

ASSUME StateFileAssumption ==
  /\ MaxChanges \in Nat /\ MaxDeaths \in Nat
  /\ Lengths \subseteq Nat \ {0} /\ Lengths # {}
  /\ Chained \in BOOLEAN /\ OwnCopy \in BOOLEAN

VARIABLES
  version,     \* the list in memory: how many changes it has seen
  length,      \* of each version of the list
  saves,       \* saves[n]: how far the n-th save is, and what it writes
  node,        \* the files that exist, by number: their blocks
  copyName,    \* which file a name of a copy leads to; 0 for none
  onDisk,      \* which file the name of the list leads to; 0 for none
  deaths

fileVars == <<version, length, saves, node, copyName, onDisk, deaths>>

Lost     == MaxChanges + 1
Versions == 0..MaxChanges
Saves    == 1..MaxChanges
Steps    == {"none", "due", "opening", "writing", "renaming", "done"}

(* What a write of version v leaves of the blocks b: it writes from the    *)
(* beginning and takes nothing away.                                       *)
Written(b, v) ==
  [i \in 1..(IF length[v] > Len(b) THEN length[v] ELSE Len(b)) |->
     IF i <= length[v] THEN v ELSE b[i]]

Whole(b, v) == b = [i \in 1..length[v] |-> v]

FileTypeOK ==
  /\ version \in Versions
  /\ length \in [Versions -> Lengths]
  /\ saves \in [Saves -> [step : Steps, version : Versions,
                         node : 0..MaxChanges]]
  /\ node \in [Saves -> Seq(Versions)]
  /\ copyName \in [Saves -> 0..MaxChanges]
  /\ onDisk \in 0..MaxChanges
  /\ deaths \in 0..MaxDeaths

FileInit ==
  /\ version = 0 /\ length \in [Versions -> Lengths]
  /\ saves = [n \in Saves |-> [step |-> "none", version |-> 0, node |-> 0]]
  /\ node = [n \in Saves |-> <<>>] /\ copyName = [n \in Saves |-> 0]
  /\ onDisk = 0 /\ deaths = 0

Name(n) == IF OwnCopy THEN n ELSE 1
Under(n) == saves[n].step \in {"opening", "writing", "renaming"}

(* A change of the list calls for one more save.                           *)
Change ==
  /\ version < MaxChanges /\ version' = version + 1
  /\ saves' = [saves EXCEPT ![version'] =
                 [step |-> "due", version |-> version', node |-> 0]]
  /\ UNCHANGED <<length, node, copyName, onDisk, deaths>>

(* The save begins: in a chain after those before it, and with the list as *)
(* it is then.                                                             *)
SaveBeginsUnchained(n) ==                                        \* mutant
  /\ saves[n].step = "due"
  /\ saves' = [saves EXCEPT ![n].step = "opening"]
  /\ UNCHANGED <<version, length, node, copyName, onDisk, deaths>>
SaveBegins(n) ==
  /\ saves[n].step = "due"
  /\ Chained => \A m \in 1..(n - 1) : saves[m].step \in {"none", "done"}
  /\ saves' = [saves EXCEPT ![n].step = "opening",
                            ![n].version = IF Chained THEN version ELSE @]
  /\ UNCHANGED <<version, length, node, copyName, onDisk, deaths>>

(* writeFile(): the copy is made, or emptied when its name is in use.      *)
Opens(n) ==
  /\ saves[n].step = "opening"
  /\ LET f == IF copyName[Name(n)] = 0 THEN n ELSE copyName[Name(n)]
     IN  /\ node' = [node EXCEPT ![f] = <<>>]
         /\ copyName' = [copyName EXCEPT ![Name(n)] = f]
         /\ saves' = [saves EXCEPT ![n].step = "writing", ![n].node = f]
  /\ UNCHANGED <<version, length, onDisk, deaths>>

Writes(n) ==
  /\ saves[n].step = "writing"
  /\ node' = [node EXCEPT ![saves[n].node] = Written(@, saves[n].version)]
  /\ saves' = [saves EXCEPT ![n].step = "renaming"]
  /\ UNCHANGED <<version, length, copyName, onDisk, deaths>>

(* rename(): nothing to rename is a failed save, which is forgotten.       *)
RenamesEarly(n) ==                                           \* mutant
  /\ saves[n].step \in {"writing", "renaming"} /\ copyName[Name(n)] # 0
  /\ onDisk' = copyName[Name(n)]
  /\ copyName' = [copyName EXCEPT ![Name(n)] = 0]
  /\ saves' = [saves EXCEPT ![n].step = "done"]
  /\ UNCHANGED <<version, length, node, deaths>>
Renames(n) ==
  /\ saves[n].step = "renaming"
  /\ onDisk' = IF copyName[Name(n)] = 0 THEN onDisk ELSE copyName[Name(n)]
  /\ copyName' = [copyName EXCEPT ![Name(n)] = 0]
  /\ saves' = [saves EXCEPT ![n].step = "done"]
  /\ UNCHANGED <<version, length, node, deaths>>

(* The disk refuses: the save is over, and its copy is removed.            *)
SaveRefused(n) ==
  /\ Under(n) /\ saves' = [saves EXCEPT ![n].step = "done"]
  /\ copyName' = IF OwnCopy THEN [copyName EXCEPT ![n] = 0] ELSE copyName
  /\ UNCHANGED <<version, length, node, onDisk, deaths>>

(* What a start would read: a file that does not parse is an empty list.   *)
Read == IF onDisk = 0 THEN 0
        ELSE IF \E v \in Versions : Whole(node[onDisk], v)
             THEN CHOOSE v \in Versions : Whole(node[onDisk], v)
             ELSE Lost

(* The process dies and starts again: the saves under way stop where they  *)
(* are, the copies stay.                                                   *)
Dies ==
  /\ deaths < MaxDeaths /\ deaths' = deaths + 1
  /\ saves' = [n \in Saves |-> IF saves[n].step = "none" THEN saves[n]
                               ELSE [saves[n] EXCEPT !.step = "done"]]
  /\ UNCHANGED <<version, length, node, copyName, onDisk>>

SaveGoesOn ==
  \E n \in Saves : SaveBegins(n) \/ Opens(n) \/ Writes(n) \/ Renames(n)

FileNext == Change \/ SaveGoesOn \/ (\E n \in Saves : SaveRefused(n)) \/ Dies

FileSpec == FileInit /\ [][FileNext]_fileVars

-----------------------------------------------------------------------------
(* A crash in the middle of a save leaves no half of a list behind: at     *)
(* every moment a start would read a list that was really there.           *)
FileIsAList == Read # Lost

(* A save never lands after one of a newer list.                           *)
FileKeepsUp == [][onDisk' # onDisk => Read' >= Read]_fileVars
=============================================================================
