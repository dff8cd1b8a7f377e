------------------------------ MODULE StitchQueue ------------------------------
(***************************************************************************)
(* The stitcher's queue: apps/agent/src/stitcher/queue.ts.                 *)
(*                                                                         *)
(* A press of the button chains one more turn after the turns already      *)
(* promised; each turn looks again whether its row still waits.  A turn    *)
(* makes a temporary directory, looks at the source, runs the pipeline,    *)
(* moves the result into place and measures it, and between any two of     *)
(* these a person may stop it, and press again for other rows.             *)
(***************************************************************************)
EXTENDS Naturals, Sequences, SequencesExt

CONSTANTS Rows,            \* rows a person adds
          Files,           \* the videos they are of
          Source,          \* the video of each row: two rows may share one
          NoRow,           \* no row has its turn
          MaxPresses,      \* bound: how often the button is pressed
          MaxRestarts      \* bound: how often the agent starts again

ASSUME StitchAssumption ==
  /\ Source \in [Rows -> Files] /\ NoRow \notin Rows
  /\ MaxPresses \in Nat /\ MaxRestarts \in Nat

VARIABLES
  rowStatus,   \* of each row
  detected,    \* job.detected: what a run of each row found in its video
  pump,        \* the turns promised, in the order of the presses
  turn,        \* the turn that is being taken
  live,        \* this.running
  stuck,       \* history: rows whose temporary directory could not be made
  file,        \* each video: 0 as added, or the press that changed it last
  damaged,     \* videos a copy was begun over and not finished
  gone,        \* videos no longer under the name they were added with
  ran,         \* history: the press of the last turn of each row
  presses, closing, restarts

stitchVars == <<rowStatus, detected, pump, turn, live, stuck, file, damaged,
                gone, ran, presses, closing, restarts>>
videos     == <<file, damaged, gone>>
counted    == <<presses, closing, restarts>>

(* "interrupted" is "failed" with the error code STITCH_INTERRUPTED.        *)
RowSettled == {"done", "failed", "cancelled", "interrupted"}
RowStatus == {"none", "ready", "queued", "running", "gone"} \cup RowSettled
Unknown   == MaxPresses + 1         \* nobody has looked for screens yet
Presses   == 0..MaxPresses
Places    == {"beside", "replacing", "renamed"}
Turns     == [row : Rows, press : Presses, to : Places, found : 0..Unknown]
TakenTurn == [pc : {"idle", "making", "looking", "working", "installing",
                    "copying", "measuring", "clearing"},
              row : Rows \cup {NoRow}, press : Presses, to : Places,
              found : 0..Unknown, aborted : BOOLEAN]

(* STITCH_LIFECYCLE                                                        *)
RowEdges(s) ==
  CASE s = "ready"   -> {"queued"}
    [] s = "queued"  -> {"running", "cancelled"}
    [] s = "running" -> {"done", "failed", "cancelled"}
    [] s \in RowSettled -> {"ready"}
    [] OTHER         -> {}

(* transition(): a refused move leaves the row as it was.                  *)
RowMoved(st, r, s) == IF s \in RowEdges(st[r]) THEN [st EXCEPT ![r] = s] ELSE st

NoTurn == [pc |-> "idle", row |-> NoRow, press |-> 0, to |-> "beside",
           found |-> Unknown, aborted |-> FALSE]

StitchTypeOK ==
  /\ rowStatus \in [Rows -> RowStatus]
  /\ detected \in [Rows -> 0..Unknown]
  /\ pump \in Seq(Turns)
  /\ turn \in TakenTurn
  /\ live \subseteq Rows /\ stuck \subseteq Rows
  /\ file \in [Files -> Presses]
  /\ damaged \subseteq Files /\ gone \subseteq Files
  /\ ran \in [Rows -> Presses]
  /\ presses \in Presses /\ closing \in BOOLEAN /\ restarts \in 0..MaxRestarts

StitchInit ==
  /\ rowStatus = [r \in Rows |-> "none"]
  /\ detected = [r \in Rows |-> Unknown]
  /\ pump = <<>> /\ turn = NoTurn /\ live = {} /\ stuck = {}
  /\ file = [f \in Files |-> 0] /\ damaged = {} /\ gone = {}
  /\ ran = [r \in Rows |-> 0]
  /\ presses = 0 /\ closing = FALSE /\ restarts = 0

-----------------------------------------------------------------------------
(* add(): the same video is one waiting row rather than two.               *)
AddRow(r) ==
  /\ rowStatus[r] = "none" /\ Source[r] \notin gone
  /\ ~\E q \in Rows : rowStatus[q] = "ready" /\ Source[q] = Source[r]
  /\ rowStatus' = [rowStatus EXCEPT ![r] = "ready"]
  /\ UNCHANGED <<detected, pump, turn, live, stuck, videos, ran, counted>>

InLine(r) == \E i \in DOMAIN pump : pump[i].row = r

(* start(): a finished row is ready again first; the press decides where   *)
(* the result goes and hands over what the last run found.  It does not    *)
(* ask whether the queue is shutting down.                                 *)
Press(r, to) ==
  /\ presses < MaxPresses
  /\ rowStatus[r] \in RowSettled \cup {"ready"}
  /\ presses' = presses + 1
  /\ rowStatus' = [rowStatus EXCEPT ![r] = "queued"]
  /\ ran' = [ran EXCEPT ![r] = 0]
  /\ pump' = Append(pump, [row |-> r, press |-> presses', to |-> to,
                           found |-> detected[r]])
  /\ UNCHANGED <<detected, turn, live, stuck, videos, closing, restarts>>

(* cancel() for each of a set of rows: the live one is aborted, a queued   *)
(* one is marked stopped and its turn stays in the chain.                  *)
StopsAll(S) ==
  /\ turn' = [turn EXCEPT !.aborted = @ \/ turn.row \in S \cap live]
  /\ rowStatus' = [r \in Rows |->
       IF r \in S \ live /\ rowStatus[r] = "queued" THEN "cancelled"
       ELSE rowStatus[r]]
  /\ UNCHANGED <<detected, pump, live, stuck, videos, ran, presses, restarts>>

InHand == {r \in Rows : rowStatus[r] \in {"queued", "running"}}

StopRow(r) == r \in InHand /\ StopsAll({r}) /\ UNCHANGED closing
StopAll    == InHand # {} /\ StopsAll(InHand) /\ UNCHANGED closing
Closes     == ~closing /\ closing' = TRUE /\ StopsAll(InHand)

(* remove() and clearSettled()                                             *)
Forgotten(S) ==
  /\ S # {}
  /\ rowStatus' = [r \in Rows |-> IF r \in S THEN "gone" ELSE rowStatus[r]]
  /\ UNCHANGED <<detected, pump, turn, live, stuck, videos, ran, counted>>

ForgetRow(r) == rowStatus[r] \in RowSettled \cup {"ready"} /\ Forgotten({r})
ClearSettled == Forgotten({r \in Rows : rowStatus[r] \in RowSettled})

-----------------------------------------------------------------------------
(* run(): the turn at the head of the chain.                               *)
TakeTurn ==
  /\ turn.pc = "idle" /\ pump # <<>>
  /\ LET t == Head(pump) IN
     IF rowStatus[t.row] # "queued" \/ closing
     THEN UNCHANGED <<live, rowStatus, ran, turn>>
     ELSE /\ live' = live \cup {t.row}
          /\ rowStatus' = RowMoved(rowStatus, t.row, "running")
          /\ ran' = [ran EXCEPT ![t.row] = t.press]
          /\ turn' = [pc |-> "making", row |-> t.row, press |-> t.press,
                      to |-> t.to, found |-> t.found, aborted |-> FALSE]
  /\ pump' = Tail(pump)
  /\ UNCHANGED <<detected, stuck, videos, counted>>

(* The end of a turn: the row says how it went, the row is no longer live, *)
(* and the directory is cleared before the next turn is taken.             *)
EndsKept(s) ==                                               \* mutant
  /\ rowStatus' = RowMoved(rowStatus, turn.row, s)
  /\ UNCHANGED live
  /\ turn' = [turn EXCEPT !.pc = "clearing"]
Ends(s) ==
  /\ rowStatus' = RowMoved(rowStatus, turn.row, s)
  /\ live' = live \ {turn.row}
  /\ turn' = [turn EXCEPT !.pc = "clearing"]

Proceeds(pc) == turn' = [turn EXCEPT !.pc = pc] /\ UNCHANGED <<rowStatus,
                                                               live>>
Elsewhere == UNCHANGED <<detected, pump, stuck, ran, counted>>

(* mkdtemp() has answered; produce() asks first whether it was stopped.    *)
DirectoryMade ==
  /\ turn.pc = "making"
  /\ IF turn.aborted THEN Ends("cancelled") ELSE Proceeds("looking")
  /\ Elsewhere /\ UNCHANGED videos

(* mkdtemp() has thrown, before the try: the row goes on saying it runs,   *)
(* stays in this.running, and the chain swallows the error and goes on.    *)
DirectoryFails ==
  /\ turn.pc = "making"
  /\ stuck' = stuck \cup {turn.row} /\ turn' = NoTurn
  /\ UNCHANGED <<rowStatus, detected, pump, live, videos, ran, counted>>

(* A refusal is stopped or failed by the signal; an error thrown is failed *)
(* whatever the signal says.                                               *)
Broken ==
  \E s \in {"cancelled", "failed"} :
    /\ s = "cancelled" => turn.aborted
    /\ Ends(s)

(* inspect(): probe, detect unless the press brought findings, plan.       *)
LookedRefusing ==
  turn.pc = "looking" /\ Broken /\ Elsewhere /\ UNCHANGED videos
Looked ==
  /\ turn.pc = "looking" /\ ~turn.aborted
  /\ LET src   == file[Source[turn.row]]
         found == IF turn.found = Unknown THEN src ELSE turn.found
     IN  /\ Source[turn.row] \notin gone
         /\ detected' = [detected EXCEPT ![turn.row] = found]
         /\ turn' = [turn EXCEPT !.pc = "working", !.found = found]
  /\ UNCHANGED <<rowStatus, pump, live, stuck, videos, ran, counted>>

(* The pipeline: every tool of it is stopped by the signal.                *)
WorkFails ==
  turn.pc = "working" /\ Broken /\ Elsewhere /\ UNCHANGED videos
WorkDone ==
  /\ turn.pc = "working" /\ ~turn.aborted /\ Proceeds("installing")
  /\ Elsewhere /\ UNCHANGED videos

(* install(), which no longer asks about the signal: moveInto() renames    *)
(* the finished file into place, or copies it there when the temporary     *)
(* directory is on another volume.                                         *)
InstallFails ==
  /\ turn.pc \in {"installing", "copying"}
  /\ Ends(IF turn.aborted THEN "cancelled" ELSE "failed")
  /\ Elsewhere /\ UNCHANGED videos

(* copyFile() has opened its target: over the video it is to replace, it   *)
(* is the video that is half written until the copy ends.                  *)
CopyBegins ==
  /\ turn.pc = "installing" /\ Proceeds("copying")
  /\ IF turn.to = "replacing"
     THEN /\ file' = [file EXCEPT ![Source[turn.row]] = turn.press]
          /\ damaged' = damaged \cup {Source[turn.row]}
     ELSE UNCHANGED <<file, damaged>>
  /\ Elsewhere /\ UNCHANGED gone

(* The file is in place.  Beside a suffix the video itself is unlinked,    *)
(* and when that fails it stays.                                           *)
Installed ==
  /\ turn.pc \in {"installing", "copying"} /\ Proceeds("measuring")
  /\ LET v   == Source[turn.row]
         put == [file EXCEPT ![v] = turn.press]
     IN  \/ turn.to = "replacing" /\ file' = put
            /\ damaged' = damaged \ {v} /\ UNCHANGED gone
         \/ turn.to = "renamed" /\ file' = put
            /\ gone' = gone \cup {v} /\ UNCHANGED damaged
         \/ turn.to # "replacing" /\ UNCHANGED videos
  /\ Elsewhere

(* measureResult(), and done: also for a run stopped during the install.   *)
MeasuredStopping ==                                          \* mutant
  /\ turn.pc = "measuring"
  /\ Ends(IF turn.aborted THEN "cancelled" ELSE "done")
  /\ Elsewhere /\ UNCHANGED videos
Measured ==
  /\ turn.pc = "measuring" /\ Ends("done")
  /\ Elsewhere /\ UNCHANGED videos

Cleared ==
  /\ turn.pc = "clearing" /\ turn' = NoTurn
  /\ UNCHANGED <<rowStatus, live>> /\ Elsewhere /\ UNCHANGED videos

(* The agent starts again with the list as it was: what was in hand is     *)
(* reported as interrupted.                                                *)
StitchRestartResuming ==                                     \* mutant
  /\ restarts < MaxRestarts /\ restarts' = restarts + 1
  /\ pump' = <<>> /\ turn' = NoTurn /\ live' = {} /\ stuck' = {}
  /\ closing' = FALSE
  /\ UNCHANGED <<rowStatus, detected, videos, ran, presses>>
StitchRestart ==
  /\ restarts < MaxRestarts /\ restarts' = restarts + 1
  /\ rowStatus' = [r \in Rows |-> IF r \in InHand THEN "interrupted"
                                  ELSE rowStatus[r]]
  /\ pump' = <<>> /\ turn' = NoTurn /\ live' = {} /\ stuck' = {}
  /\ closing' = FALSE
  /\ UNCHANGED <<detected, videos, ran, presses>>

-----------------------------------------------------------------------------
(* The chain is a chain of promises: a turn is taken before the next       *)
(* request is heard.                                                       *)
Heard == turn.pc # "idle" \/ pump = <<>>

RowsAsked ==
  \/ \E r \in Rows : AddRow(r) \/ StopRow(r) \/ ForgetRow(r)
                     \/ \E to \in Places : Press(r, to)
  \/ StopAll \/ Closes \/ ClearSettled

TurnGoesOn ==
  \/ TakeTurn \/ DirectoryMade \/ DirectoryFails
  \/ LookedRefusing \/ Looked \/ WorkFails \/ WorkDone
  \/ InstallFails \/ CopyBegins \/ Installed \/ Measured \/ Cleared

StitchNext == (Heard /\ RowsAsked) \/ TurnGoesOn \/ StitchRestart

StitchSpec == StitchInit /\ [][StitchNext]_stitchVars

-----------------------------------------------------------------------------
UnderWay == turn.pc \notin {"idle", "clearing"}

(* One heavy child at a time: the rows that say they run are the rows a    *)
(* stop would abort, and apart from the row whose turn it is they are the  *)
(* ones whose temporary directory could not be made, with no child at all. *)
RunningIsTheTurn ==
  /\ \A r \in Rows : rowStatus[r] = "running" <=> r \in live
  /\ live = stuck \cup (IF UnderWay THEN {turn.row} ELSE {})
  /\ UnderWay => turn.row \notin stuck

(* A row that waits has a turn promised, while the queue is open: nobody   *)
(* is left waiting for a turn that was skipped while the row was stopped.  *)
QueuedHasTurn ==
  closing \/ \A r \in Rows : rowStatus[r] = "queued" => InLine(r)

(* A run that was stopped or failed put nothing else in the video's place, *)
(* whole, in this life of the agent or an earlier one; what it may leave   *)
(* is a video torn by a copy over it (VideoSurvives).                      *)
StoppedLeftSource ==
  \A r \in Rows :
    rowStatus[r] \in {"failed", "cancelled"} /\ ran[r] # 0
    /\ file[Source[r]] = ran[r]
      => Source[r] \in damaged

(* A run that was stopped or failed left the video as it found it, as the  *)
(* specification of the stitcher promises: spec.md's edge cases, SC-008.   *)
VideoSurvives ==
  \A r \in Rows :
    rowStatus[r] \in {"failed", "cancelled"} /\ ran[r] # 0
      => file[Source[r]] # ran[r]

(* A row that says it runs is being worked on: a run that could not make   *)
(* its directory is reported, as the specification promises of a full disk.*)
RunningHasTurn ==
  \A r \in Rows : rowStatus[r] = "running" => UnderWay /\ turn.row = r

(* A turn runs what was asked for last: no later press of its row waits    *)
(* that asked for the result to go somewhere else.                         *)
RunIsOfLastPress ==
  UnderWay => \A i \in DOMAIN pump : pump[i].row = turn.row => pump[i].to = turn.to

(* The screens a run cuts away are those of the video it reads, when that  *)
(* is a whole one.                                                         *)
PlanIsOfTheVideo ==
  turn.pc = "working" /\ Source[turn.row] \notin damaged =>
    turn.found = file[Source[turn.row]]
=============================================================================
