--------------------------- MODULE StitchQueueProofs ---------------------------
(***************************************************************************)
(* Theorems about StitchQueue, for any rows, videos and bounds.            *)
(*                                                                         *)
(* One heavy child at a time, and a turn for every row that waits, follow  *)
(* from two facts the code never states: between two turns nothing is live *)
(* but the rows whose directory could not be made, and a turn has a row.   *)
(* What a stopped run leaves of the video needs the order of the presses:  *)
(* the turns promised are of later presses than all that was ever taken,   *)
(* and no two rows have had the turn of one press.                         *)
(***************************************************************************)
EXTENDS StitchQueue, SequenceTheorems, TLAPS

USE DEF Unknown, Presses, Places, TakenTurn, UnderWay, Elsewhere,
        videos, counted

(* A turn that is being taken is the turn of a row.                        *)
TurnHasRow == turn.pc # "idle" => turn.row \in Rows

IInv == StitchTypeOK /\ TurnHasRow /\ RunningIsTheTurn /\ QueuedHasTurn

-----------------------------------------------------------------------------
(* What transition() allows: it answers with a status, and moves only the  *)
(* row it is asked about.                                                  *)
LEMMA RowMovedType ==
  ASSUME NEW st \in [Rows -> RowStatus], NEW r, NEW s \in RowStatus
  PROVE  /\ RowMoved(st, r, s) \in [Rows -> RowStatus]
         /\ \A q \in Rows : q # r => RowMoved(st, r, s)[q] = st[q]
         /\ r \in Rows =>
              RowMoved(st, r, s)[r] = IF s \in RowEdges(st[r]) THEN s ELSE st[r]
BY DEF RowMoved

(* The turns behind the first are the turns of the tail.                   *)
LEMMA TailTurns ==
  ASSUME NEW p \in Seq(Turns), p # <<>>
  PROVE  /\ Tail(p) \in Seq(Turns) /\ Head(p) \in Turns
         /\ Head(p) = p[1] /\ 1 \in DOMAIN p
         /\ \A i \in DOMAIN Tail(p) :
              i + 1 \in DOMAIN p /\ Tail(p)[i] = p[i + 1]
         /\ \A i \in DOMAIN p : i # 1 =>
              i - 1 \in DOMAIN Tail(p) /\ Tail(p)[i - 1] = p[i]
<1>1. Tail(p) \in Seq(Turns) /\ Head(p) \in Turns /\ Head(p) = p[1]
      /\ Len(p) \in Nat /\ Len(p) > 0 /\ DOMAIN p = 1..Len(p)
      /\ Len(Tail(p)) = Len(p) - 1
      /\ \A i \in 1..Len(Tail(p)) : Tail(p)[i] = p[i + 1]
  BY HeadTailProperties, EmptySeq, LenProperties
<1>2. DOMAIN Tail(p) = 1..Len(Tail(p))
  BY <1>1, LenProperties
<1>3. QED
  BY <1>1, <1>2
-----------------------------------------------------------------------------
(* Between two turns, and while a directory is cleared, only the rows      *)
(* without a directory say they run.                                       *)
LEMMA OnlyStuckLive ==
  ASSUME RunningIsTheTurn, turn.pc \in {"idle", "clearing"}
  PROVE  live = stuck /\ \A r \in Rows : rowStatus[r] = "running" <=> r \in stuck
BY DEF RunningIsTheTurn

(* The start.                                                              *)
LEMMA InitHolds == StitchInit => IInv
<1>1. SUFFICES ASSUME StitchInit PROVE IInv
  OBVIOUS
<1>2. StitchTypeOK
  <2>1. pump \in Seq(Turns)
    <3>1. pump = <<>> /\ <<>> \in Seq(Turns)
      BY <1>1, EmptySeq DEF StitchInit
    <3>2. QED
      BY <3>1
  <2>2. /\ rowStatus \in [Rows -> RowStatus]
        /\ detected \in [Rows -> 0..Unknown] /\ ran \in [Rows -> Presses]
        /\ file \in [Files -> Presses]
    BY <1>1, StitchAssumption DEF StitchInit, RowStatus
  <2>3. turn \in TakenTurn
    BY <1>1, StitchAssumption DEF StitchInit, NoTurn
  <2>4. live \subseteq Rows /\ stuck \subseteq Rows /\ closing \in BOOLEAN
        /\ damaged \subseteq Files /\ gone \subseteq Files
    BY <1>1, Zenon DEF StitchInit
  <2>5. presses \in Presses /\ restarts \in 0..MaxRestarts
    <3>1. presses = 0 /\ restarts = 0
      BY <1>1 DEF StitchInit
    <3>2. QED
      BY <3>1, StitchAssumption
  <2>6. QED
    BY <2>1, <2>2, <2>3, <2>4, <2>5 DEF StitchTypeOK
<1>3. QED
  BY <1>1, <1>2
  DEF StitchInit, IInv, TurnHasRow, RunningIsTheTurn, QueuedHasTurn, NoTurn

(* What a press appends is a turn.                                         *)
LEMMA PressIsATurn ==
  ASSUME StitchTypeOK, NEW r \in Rows, NEW to \in Places, Press(r, to)
  PROVE  /\ presses' \in Presses
         /\ [row |-> r, press |-> presses', to |-> to,
             found |-> detected[r]] \in Turns
<1>1. presses \in Nat /\ presses < MaxPresses /\ presses' = presses + 1
  BY StitchAssumption DEF Press, StitchTypeOK
<1>2. presses' \in Presses
  BY <1>1, StitchAssumption
<1>3. detected[r] \in 0..Unknown
  BY DEF StitchTypeOK
<1>4. QED
  BY <1>2, <1>3 DEF Turns

(* A press gives the row the last turn in the chain.                       *)
LEMMA PressKeeps ==
  ASSUME IInv, NEW r \in Rows, NEW to \in Places, Press(r, to)
  PROVE  IInv'
<1> DEFINE t == [row |-> r, press |-> presses', to |-> to,
                 found |-> detected[r]]
<1> USE DEF IInv
<1>1. /\ StitchTypeOK /\ presses' = presses + 1 /\ presses' \in Presses
      /\ rowStatus' = [rowStatus EXCEPT ![r] = "queued"]
      /\ ran' = [ran EXCEPT ![r] = 0] /\ pump' = Append(pump, t)
      /\ UNCHANGED <<detected, turn, live, stuck, file, damaged, gone,
                     closing, restarts>>
      /\ rowStatus[r] \notin {"queued", "running"}
  BY PressIsATurn DEF Press, RowSettled
<1>2. t \in Turns
  BY <1>1, PressIsATurn
<1>3. /\ pump' \in Seq(Turns) /\ Len(pump') = Len(pump) + 1
      /\ pump'[Len(pump) + 1] = t
      /\ \A i \in 1..Len(pump) : pump'[i] = pump[i]
      /\ DOMAIN pump = 1..Len(pump) /\ DOMAIN pump' = 1..Len(pump')
      /\ Len(pump) \in Nat
  BY <1>1, <1>2, AppendProperties, LenProperties DEF StitchTypeOK
<1>4. StitchTypeOK'
  <2>1. rowStatus' \in [Rows -> RowStatus] /\ ran' \in [Rows -> Presses]
    BY <1>1, StitchAssumption DEF StitchTypeOK, RowStatus, RowSettled
  <2>2. QED
    BY <1>1, <1>3, <2>1 DEF StitchTypeOK
<1>5. TurnHasRow'
  BY <1>1 DEF TurnHasRow
<1>6. RunningIsTheTurn'
  BY <1>1 DEF RunningIsTheTurn, StitchTypeOK
<1>7. QueuedHasTurn'
  <2>1. SUFFICES ASSUME NEW q \in Rows, rowStatus'[q] = "queued", ~closing
                 PROVE  \E i \in DOMAIN pump' : pump'[i].row = q
    BY <1>1 DEF QueuedHasTurn, InLine
  <2>2. CASE q = r
    BY <1>3, <2>2
  <2>3. CASE q # r
    <3>1. \E i \in DOMAIN pump : pump[i].row = q
      BY <1>1, <2>1, <2>3 DEF StitchTypeOK, QueuedHasTurn, InLine
    <3>2. QED
      BY <1>3, <3>1
  <2>4. QED
    BY <2>2, <2>3
<1>8. QED
  BY <1>4, <1>5, <1>6, <1>7

(* A stop marks what waits and aborts what is live.                        *)
LEMMA StopKeeps ==
  ASSUME IInv, NEW S \in SUBSET Rows, StopsAll(S),
         closing' \in BOOLEAN, closing => closing'
  PROVE  IInv'
<1> USE DEF IInv
<1>1. /\ StitchTypeOK
      /\ turn' = [turn EXCEPT !.aborted = @ \/ turn.row \in S \cap live]
      /\ rowStatus' = [r \in Rows |->
            IF r \in S \ live /\ rowStatus[r] = "queued" THEN "cancelled"
            ELSE rowStatus[r]]
      /\ UNCHANGED <<detected, pump, live, stuck, file, damaged, gone, ran,
                     presses, restarts>>
  BY DEF StopsAll
<1>2. turn'.pc = turn.pc /\ turn'.row = turn.row
  BY <1>1 DEF StitchTypeOK
<1>3. StitchTypeOK'
  <2>1. rowStatus' \in [Rows -> RowStatus]
    BY <1>1 DEF StitchTypeOK, RowStatus, RowSettled
  <2>2. QED
    BY <1>1, <2>1 DEF StitchTypeOK
<1>4. TurnHasRow' /\ RunningIsTheTurn'
  BY <1>1, <1>2 DEF TurnHasRow, RunningIsTheTurn, StitchTypeOK
<1>5. QueuedHasTurn'
  BY <1>1 DEF QueuedHasTurn, InLine, StitchTypeOK
<1>6. QED
  BY <1>3, <1>4, <1>5

(* A row is added, or some that are settled are forgotten.                 *)
LEMMA ListKeeps ==
  ASSUME IInv,
         \/ \E r \in Rows : AddRow(r) \/ ForgetRow(r)
         \/ ClearSettled
  PROVE  IInv'
<1> USE DEF IInv
<1>1. /\ StitchTypeOK
      /\ UNCHANGED <<detected, pump, turn, live, stuck, file, damaged, gone,
                     ran, presses, closing, restarts>>
      /\ rowStatus' \in [Rows -> RowStatus]
      /\ \A r \in Rows :
           rowStatus'[r] = rowStatus[r] \/
           (rowStatus[r] \notin {"queued", "running"} /\
            rowStatus'[r] \in {"ready", "gone"})
  <2>1. rowStatus \in [Rows -> RowStatus] /\ StitchTypeOK
    BY DEF StitchTypeOK
  <2>2. CASE \E r \in Rows : AddRow(r)
    BY <2>1, <2>2 DEF AddRow, RowStatus, RowSettled
  <2>3. CASE \E r \in Rows : ForgetRow(r)
    BY <2>1, <2>3 DEF ForgetRow, Forgotten, RowStatus, RowSettled
  <2>4. CASE ClearSettled
    BY <2>1, <2>4 DEF ClearSettled, Forgotten, RowStatus, RowSettled
  <2>5. QED
    BY <2>2, <2>3, <2>4
<1>2. StitchTypeOK'
  BY <1>1 DEF StitchTypeOK
<1>3. TurnHasRow' /\ RunningIsTheTurn'
  BY <1>1 DEF TurnHasRow, RunningIsTheTurn, StitchTypeOK
<1>4. QueuedHasTurn'
  BY <1>1 DEF QueuedHasTurn, InLine
<1>5. QED
  BY <1>2, <1>3, <1>4

-----------------------------------------------------------------------------
(* The turn at the head of the chain is taken, or passed over because its  *)
(* row no longer waits.                                                    *)
LEMMA TakeKeeps ==
  ASSUME IInv, TakeTurn
  PROVE  IInv'
<1> DEFINE t == Head(pump)
<1>1. /\ StitchTypeOK /\ TurnHasRow /\ RunningIsTheTurn /\ QueuedHasTurn
  BY DEF IInv
<1>2. /\ turn.pc = "idle" /\ pump # <<>> /\ pump' = Tail(pump)
      /\ UNCHANGED <<detected, stuck, file, damaged, gone, presses, closing,
                     restarts>>
  BY DEF TakeTurn
<1>3. /\ pump' \in Seq(Turns) /\ t \in Turns /\ t = pump[1]
      /\ \A i \in DOMAIN pump : i # 1 =>
           i - 1 \in DOMAIN pump' /\ pump'[i - 1] = pump[i]
  BY <1>1, <1>2, TailTurns DEF StitchTypeOK
<1>4. t.row \in Rows /\ t.press \in Presses /\ t.to \in Places
      /\ t.found \in 0..Unknown
  BY <1>3 DEF Turns
<1>5. closing \/ \A q \in Rows : rowStatus[q] = "queued" /\ q # t.row =>
                     \E i \in DOMAIN pump' : pump'[i].row = q
  BY <1>1, <1>3 DEF QueuedHasTurn, InLine
<1>6. CASE rowStatus[t.row] # "queued" \/ closing
  <2>1. UNCHANGED <<live, rowStatus, ran, turn>>
    BY <1>6 DEF TakeTurn
  <2>2. rowStatus[t.row] # "queued" \/ closing
    BY <1>6
  <2>3. StitchTypeOK'
    BY <1>1, <1>2, <1>3, <2>1 DEF StitchTypeOK
  <2>4. TurnHasRow' /\ RunningIsTheTurn'
    BY <1>1, <1>2, <2>1 DEF TurnHasRow, RunningIsTheTurn
  <2>5. QueuedHasTurn'
    BY <1>2, <1>5, <2>1, <2>2 DEF QueuedHasTurn, InLine
  <2>6. QED
    BY <2>3, <2>4, <2>5 DEF IInv
<1>7. CASE rowStatus[t.row] = "queued" /\ ~closing
  <2>1. /\ live' = live \cup {t.row}
        /\ rowStatus' = RowMoved(rowStatus, t.row, "running")
        /\ ran' = [ran EXCEPT ![t.row] = t.press]
        /\ turn' = [pc |-> "making", row |-> t.row, press |-> t.press,
                    to |-> t.to, found |-> t.found, aborted |-> FALSE]
    BY <1>7 DEF TakeTurn
  <2>2. rowStatus \in [Rows -> RowStatus] /\ live \subseteq Rows
        /\ ran \in [Rows -> Presses]
    BY <1>1 DEF StitchTypeOK
  <2>3. rowStatus' = [rowStatus EXCEPT ![t.row] = "running"]
    BY <1>7, <2>1 DEF RowMoved, RowEdges, RowSettled
  <2>4. rowStatus' \in [Rows -> RowStatus]
    BY <1>4, <2>2, <2>3 DEF RowStatus
  <2>5. turn' \in TakenTurn
    BY <1>4, <2>1
  <2>6. ran' \in [Rows -> Presses] /\ live' \subseteq Rows
    BY <1>4, <2>1, <2>2
  <2>7. StitchTypeOK'
    BY <1>1, <1>2, <1>3, <2>4, <2>5, <2>6 DEF StitchTypeOK
  <2>8. /\ live = stuck /\ t.row \notin stuck
        /\ \A q \in Rows : rowStatus[q] = "running" <=> q \in stuck
    BY <1>1, <1>2, <1>4, <1>7, OnlyStuckLive
  <2>9. turn'.row = t.row /\ turn'.pc = "making"
    BY <2>1
  <2>10. TurnHasRow' /\ RunningIsTheTurn'
    BY <1>2, <1>4, <2>1, <2>2, <2>3, <2>8, <2>9 DEF TurnHasRow, RunningIsTheTurn
  <2>11. QueuedHasTurn'
    BY <1>2, <1>4, <1>5, <1>7, <2>2, <2>3
    DEF QueuedHasTurn, InLine
  <2>12. QED
    BY <2>7, <2>10, <2>11 DEF IInv
<1>8. QED
  BY <1>6, <1>7

(* A turn goes on to its next tool.                                        *)
LEMMA GoesOnKeeps ==
  ASSUME IInv, turn.pc \notin {"idle", "clearing"},
         NEW pc \in {"looking", "working", "installing", "copying",
                    "measuring"},
         NEW found \in 0..Unknown,
         turn' = [turn EXCEPT !.pc = pc, !.found = found],
         detected' \in [Rows -> 0..Unknown],
         file' \in [Files -> Presses], damaged' \subseteq Files,
         gone' \subseteq Files,
         UNCHANGED <<rowStatus, live, stuck, pump, ran, presses, closing,
                     restarts>>
  PROVE  IInv'
<1>1. /\ StitchTypeOK /\ TurnHasRow /\ RunningIsTheTurn /\ QueuedHasTurn
  BY DEF IInv
<1>2. turn' \in TakenTurn
      /\ turn'.pc = pc /\ turn'.row = turn.row
  BY <1>1 DEF StitchTypeOK
<1>3. StitchTypeOK'
  BY <1>1, <1>2 DEF StitchTypeOK
<1>4. TurnHasRow' /\ RunningIsTheTurn'
  BY <1>1, <1>2 DEF TurnHasRow, RunningIsTheTurn
<1>5. QueuedHasTurn'
  BY <1>1 DEF QueuedHasTurn, InLine
<1>6. QED
  BY <1>3, <1>4, <1>5 DEF IInv

(* A turn ends: its row is no longer live, and no longer says it runs.     *)
LEMMA EndsKeeps ==
  ASSUME IInv, turn.pc \notin {"idle", "clearing"},
         NEW s \in {"done", "failed", "cancelled"}, Ends(s),
         UNCHANGED <<detected, pump, stuck, file, damaged, gone, ran, presses,
                     closing, restarts>>
  PROVE  IInv'
<1>1. /\ StitchTypeOK /\ TurnHasRow /\ RunningIsTheTurn /\ QueuedHasTurn
  BY DEF IInv
<1>2. /\ turn.row \in Rows
      /\ rowStatus \in [Rows -> RowStatus] /\ live \subseteq Rows
      /\ rowStatus' = RowMoved(rowStatus, turn.row, s)
      /\ live' = live \ {turn.row}
      /\ turn' = [turn EXCEPT !.pc = "clearing"]
  BY <1>1 DEF TurnHasRow, StitchTypeOK, Ends
<1>3. s \in RowStatus
  BY DEF RowStatus, RowSettled
<1>4. /\ rowStatus' \in [Rows -> RowStatus]
      /\ \A q \in Rows : q # turn.row => rowStatus'[q] = rowStatus[q]
      /\ rowStatus'[turn.row] \in {s, rowStatus[turn.row]}
      /\ rowStatus[turn.row] = "running" => rowStatus'[turn.row] = s
  BY <1>2, <1>3, RowMovedType DEF RowEdges, RowSettled
<1>5. turn' \in TakenTurn
      /\ turn'.pc = "clearing" /\ turn'.row = turn.row
  BY <1>1, <1>2 DEF StitchTypeOK
<1>6. StitchTypeOK'
  BY <1>1, <1>2, <1>4, <1>5 DEF StitchTypeOK
<1>7. TurnHasRow' /\ RunningIsTheTurn'
  BY <1>1, <1>2, <1>4, <1>5 DEF TurnHasRow, RunningIsTheTurn
<1>8. QueuedHasTurn'
  BY <1>1, <1>2, <1>4 DEF QueuedHasTurn, InLine
<1>9. QED
  BY <1>6, <1>7, <1>8 DEF IInv

(* Every step of a turn after it was taken.                                *)
LEMMA TurnKeeps ==
  ASSUME IInv,
         \/ DirectoryMade \/ LookedRefusing \/ Looked \/ WorkFails \/ WorkDone
         \/ InstallFails \/ CopyBegins \/ Installed \/ Measured
  PROVE  IInv'
<1>1. /\ detected \in [Rows -> 0..Unknown] /\ file \in [Files -> Presses]
      /\ damaged \subseteq Files /\ gone \subseteq Files
      /\ turn \in TakenTurn
      /\ turn.pc # "idle" => turn.row \in Rows
  BY DEF IInv, StitchTypeOK, TurnHasRow
<1>2. turn.found \in 0..Unknown /\ turn = [turn EXCEPT !.found = turn.found]
  BY <1>1
<1>3. ASSUME NEW to \in {"done", "failed", "cancelled"}, Ends(to),
             turn.pc \notin {"idle", "clearing"}, Elsewhere, UNCHANGED videos
      PROVE  IInv'
  BY <1>3, EndsKeeps
<1>4. ASSUME NEW pc \in {"looking", "working", "installing", "copying",
                    "measuring"},
             Proceeds(pc), turn.pc \notin {"idle", "clearing"},
             file' \in [Files -> Presses], damaged' \subseteq Files,
             gone' \subseteq Files, Elsewhere
      PROVE  IInv'
  <2>1. turn' = [turn EXCEPT !.pc = pc, !.found = turn.found]
    BY <1>1, <1>4 DEF Proceeds
  <2>2. detected' \in [Rows -> 0..Unknown] /\ UNCHANGED <<rowStatus, live>>
    BY <1>1, <1>4 DEF Proceeds
  <2>3. QED
    BY <1>2, <1>4, <2>1, <2>2, GoesOnKeeps
<1>5. CASE DirectoryMade
  <2>1. CASE turn.aborted
    BY <1>3, <1>5, <2>1 DEF DirectoryMade
  <2>2. CASE ~turn.aborted
    BY <1>1, <1>4, <1>5, <2>2 DEF DirectoryMade
  <2>3. QED
    BY <2>1, <2>2
<1>6. CASE LookedRefusing
  BY <1>3, <1>6 DEF LookedRefusing, Broken
<1>7. CASE Looked
  <2> DEFINE found == IF turn.found = Unknown THEN file[Source[turn.row]]
                      ELSE turn.found
  <2>1. /\ turn.pc = "looking"
        /\ detected' = [detected EXCEPT ![turn.row] = found]
        /\ turn' = [turn EXCEPT !.pc = "working", !.found = found]
        /\ UNCHANGED <<rowStatus, pump, live, stuck, file, damaged, gone, ran,
                       presses, closing, restarts>>
    BY <1>7 DEF Looked
  <2>2. file[Source[turn.row]] \in Presses
    BY <1>1, <2>1, StitchAssumption
  <2>3. found \in 0..Unknown
    BY <1>2, <2>2, StitchAssumption
  <2>4. detected' \in [Rows -> 0..Unknown] /\ file' \in [Files -> Presses]
        /\ damaged' \subseteq Files /\ gone' \subseteq Files
    BY <1>1, <2>1, <2>3
  <2>5. QED
    BY <2>1, <2>3, <2>4, GoesOnKeeps
<1>8. CASE WorkFails
  BY <1>3, <1>8 DEF WorkFails, Broken
<1>9. CASE WorkDone
  BY <1>1, <1>4, <1>9 DEF WorkDone
<1>10. CASE InstallFails
  BY <1>3, <1>10 DEF InstallFails
<1>11. CASE CopyBegins \/ Installed
  <2>1. turn.pc \in {"installing", "copying"} /\ Elsewhere
        /\ (Proceeds("copying") \/ Proceeds("measuring"))
    BY <1>11 DEF CopyBegins, Installed
  <2>2. turn.row \in Rows /\ turn.press \in Presses /\ Source[turn.row] \in Files
    BY <1>1, <2>1, StitchAssumption
  <2>3. [file EXCEPT ![Source[turn.row]] = turn.press] \in [Files -> Presses]
    BY <1>1, <2>2
  <2>4. file' \in [Files -> Presses] /\ damaged' \subseteq Files
        /\ gone' \subseteq Files
    BY <1>1, <1>11, <2>2, <2>3 DEF CopyBegins, Installed
  <2>5. QED
    BY <1>4, <2>1, <2>4
<1>12. CASE Measured
  BY <1>3, <1>12 DEF Measured
<1>13. QED
  BY <1>5, <1>6, <1>7, <1>8, <1>9, <1>10, <1>11, <1>12

(* The directory of a turn is cleared: nobody has the turn.                *)
LEMMA ClearedKeeps ==
  ASSUME IInv, Cleared
  PROVE  IInv'
<1>1. /\ StitchTypeOK /\ TurnHasRow /\ RunningIsTheTurn /\ QueuedHasTurn
  BY DEF IInv
<1>2. /\ turn.pc = "clearing" /\ turn' = NoTurn
      /\ UNCHANGED <<rowStatus, detected, pump, live, stuck, file, damaged,
                     gone, ran, presses, closing, restarts>>
  BY DEF Cleared
<1>3. turn' \in TakenTurn
      /\ turn'.pc = "idle"
  BY <1>2, StitchAssumption DEF NoTurn
<1>4. live = stuck /\ \A r \in Rows : rowStatus[r] = "running" <=> r \in stuck
  BY <1>1, <1>2, OnlyStuckLive
<1>5. StitchTypeOK'
  BY <1>1, <1>2, <1>3 DEF StitchTypeOK
<1>6. TurnHasRow' /\ RunningIsTheTurn'
  BY <1>2, <1>3, <1>4 DEF TurnHasRow, RunningIsTheTurn
<1>7. QueuedHasTurn'
  BY <1>1, <1>2 DEF QueuedHasTurn, InLine
<1>8. QED
  BY <1>5, <1>6, <1>7 DEF IInv

(* The directory of a turn could not be made: the row is left saying that  *)
(* it runs, and nobody has the turn.                                       *)
LEMMA DirectoryFailsKeeps ==
  ASSUME IInv, DirectoryFails
  PROVE  IInv'
<1>1. StitchTypeOK /\ TurnHasRow /\ RunningIsTheTurn /\ QueuedHasTurn
  BY DEF IInv
<1>2. /\ turn.pc = "making" /\ turn' = NoTurn
      /\ stuck' = stuck \cup {turn.row}
      /\ UNCHANGED <<rowStatus, detected, pump, live, file, damaged, gone, ran,
                     presses, closing, restarts>>
  BY DEF DirectoryFails
<1>3. turn' \in TakenTurn /\ turn'.pc = "idle"
  BY <1>2, StitchAssumption DEF NoTurn
<1>4. turn.row \in Rows
  BY <1>1, <1>2 DEF TurnHasRow
<1>5. stuck' \subseteq Rows
  BY <1>1, <1>2, <1>4 DEF StitchTypeOK
<1>6. StitchTypeOK'
  BY <1>1, <1>2, <1>3, <1>5 DEF StitchTypeOK
<1>7. TurnHasRow' /\ RunningIsTheTurn'
  BY <1>1, <1>2, <1>3 DEF TurnHasRow, RunningIsTheTurn
<1>8. QueuedHasTurn'
  BY <1>1, <1>2 DEF QueuedHasTurn, InLine
<1>9. QED
  BY <1>6, <1>7, <1>8 DEF IInv

(* The agent starts again: nothing runs and nothing waits.                 *)
LEMMA RestartKeeps ==
  ASSUME IInv, StitchRestart
  PROVE  IInv'
<1>1. StitchTypeOK
  BY DEF IInv
<1>2. /\ restarts < MaxRestarts /\ restarts' = restarts + 1
      /\ rowStatus' = [r \in Rows |-> IF r \in InHand THEN "interrupted"
                                      ELSE rowStatus[r]]
      /\ pump' = <<>> /\ turn' = NoTurn /\ live' = {} /\ stuck' = {}
      /\ closing' = FALSE
      /\ UNCHANGED <<detected, file, damaged, gone, ran, presses>>
  BY DEF StitchRestart
<1>3. /\ rowStatus' \in [Rows -> RowStatus]
      /\ \A r \in Rows : rowStatus'[r] \notin {"queued", "running"}
  BY <1>1, <1>2 DEF StitchTypeOK, InHand, RowStatus, RowSettled
<1>4. turn' \in TakenTurn
      /\ turn'.pc = "idle"
  BY <1>2, StitchAssumption DEF NoTurn
<1>5. restarts' \in 0..MaxRestarts
  BY <1>1, <1>2, StitchAssumption DEF StitchTypeOK
<1>6. pump' \in Seq(Turns)
  <2>1. <<>> \in Seq(Turns)
    BY EmptySeq
  <2>2. QED
    BY <1>2, <2>1
<1>7. live' \subseteq Rows /\ stuck' \subseteq Rows /\ closing' \in BOOLEAN
  BY <1>2, Zenon
<1>8. StitchTypeOK'
  BY <1>1, <1>2, <1>3, <1>4, <1>5, <1>6, <1>7 DEF StitchTypeOK
<1>9. TurnHasRow' /\ RunningIsTheTurn'
  BY <1>2, <1>3, <1>4 DEF TurnHasRow, RunningIsTheTurn
<1>10. QueuedHasTurn'
  BY <1>3 DEF QueuedHasTurn
<1>11. QED
  BY <1>8, <1>9, <1>10 DEF IInv

LEMMA NextKeeps ==
  ASSUME IInv, [StitchNext]_stitchVars
  PROVE  IInv'
<1>1. CASE \E r \in Rows : AddRow(r) \/ ForgetRow(r)
  BY <1>1, ListKeeps
<1>2. CASE ClearSettled
  BY <1>2, ListKeeps
<1>3. CASE \E r \in Rows : \E to \in Places : Press(r, to)
  BY <1>3, PressKeeps
<1>4. closing \in BOOLEAN /\ InHand \in SUBSET Rows
  BY DEF IInv, StitchTypeOK, InHand
<1>5. CASE \E r \in Rows : StopRow(r)
  <2>1. PICK r \in Rows : StopRow(r)
    BY <1>5
  <2>2. {r} \in SUBSET Rows /\ StopsAll({r}) /\ closing' = closing
    BY <2>1 DEF StopRow
  <2>3. QED
    BY <1>4, <2>2, StopKeeps
<1>6. CASE StopAll
  <2>1. StopsAll(InHand) /\ closing' = closing
    BY <1>6 DEF StopAll
  <2>2. QED
    BY <1>4, <2>1, StopKeeps
<1>7. CASE Closes
  <2>1. StopsAll(InHand) /\ closing'
    BY <1>7 DEF Closes
  <2>2. QED
    BY <1>4, <2>1, StopKeeps
<1>8. CASE TakeTurn
  BY <1>8, TakeKeeps
<1>9. CASE Cleared \/ DirectoryFails
  BY <1>9, ClearedKeeps, DirectoryFailsKeeps
<1>10. CASE StitchRestart
  BY <1>10, RestartKeeps
<1>11. CASE UNCHANGED stitchVars
  BY <1>11 DEF stitchVars, IInv, StitchTypeOK, TurnHasRow, RunningIsTheTurn,
               QueuedHasTurn, InLine
<1>12. QED
  BY <1>1, <1>2, <1>3, <1>5, <1>6, <1>7, <1>8, <1>9, <1>10, <1>11, TurnKeeps
  DEF StitchNext, RowsAsked, TurnGoesOn

LEMMA Invariant == StitchSpec => []IInv
<1>1. IInv /\ [StitchNext]_stitchVars => IInv'
  BY NextKeeps
<1>2. QED
  BY <1>1, InitHolds, PTL DEF StitchSpec

(* Every reachable state of the stitch queue has the shape declared for    *)
(* it.                                                                     *)
THEOREM StitchTyped == StitchSpec => []StitchTypeOK
<1>1. IInv => StitchTypeOK
  BY DEF IInv
<1>2. QED
  BY <1>1, Invariant, PTL

(* One heavy child at a time, whatever is pressed, stopped or forgotten:   *)
(* the rows that say they run are the ones a stop would abort, and but for *)
(* those left without a directory it is the row whose turn it is (queue.ts,*)
(* start() chains the turns and run() brackets one).                       *)
THEOREM OneTurnAtATime == StitchSpec => []RunningIsTheTurn
<1>1. IInv => RunningIsTheTurn
  BY DEF IInv
<1>2. QED
  BY <1>1, Invariant, PTL

(* Until the queue shuts down a row that waits has a turn promised, also   *)
(* when it was stopped and pressed again while an earlier turn of it is    *)
(* still in the chain (queue.ts, start(), cancel() and run()).             *)
THEOREM WaitingHasTurn == StitchSpec => []QueuedHasTurn
<1>1. IInv => QueuedHasTurn
  BY DEF IInv
<1>2. QED
  BY <1>1, Invariant, PTL

-----------------------------------------------------------------------------
(* The row whose turn it is can be stopped until the turn ends.            *)
TurnIsLive == turn.pc \notin {"idle", "clearing"} => turn.row \in live

(* The turns promised are of later presses than everything taken so far.   *)
PressesRise ==
  /\ \A i \in DOMAIN pump :
       /\ pump[i].press \in 1..presses
       /\ \A j \in DOMAIN pump : i < j => pump[i].press < pump[j].press
       /\ turn.press < pump[i].press
       /\ \A r \in Rows : ran[r] < pump[i].press
       /\ \A f \in Files : file[f] < pump[i].press
  /\ turn.press <= presses
  /\ \A r \in Rows : ran[r] <= presses
  /\ \A f \in Files : file[f] <= presses

(* A turn is of the press its row was last taken with, and no two rows     *)
(* were taken with one press.                                              *)
TurnIsOfItsPress ==
  turn.pc \notin {"idle", "clearing"} =>
    turn.press # 0 /\ ran[turn.row] = turn.press
OnePressOneRow == \A r, q \in Rows : ran[r] = ran[q] /\ ran[r] # 0 => r = q

(* A video changed by the last run of a row is one that run is done with,  *)
(* or is about to be, or was interrupted over, or it is torn.              *)
Over == {"done", "gone", "interrupted"}
ChangedByDone ==
  \A r \in Rows : ran[r] # 0 /\ file[Source[r]] = ran[r] =>
    \/ rowStatus[r] \in Over
    \/ Source[r] \in damaged
    \/ turn.row = r /\ turn.pc = "measuring"

PInv == TurnIsLive /\ PressesRise /\ TurnIsOfItsPress /\ OnePressOneRow
        /\ ChangedByDone

(* The shape of the state, as far as the order of the presses needs it.    *)
LEMMA Numbers ==
  ASSUME StitchTypeOK
  PROVE  /\ presses \in Nat /\ turn.press \in Nat /\ MaxPresses \in Nat
         /\ \A r \in Rows : ran[r] \in Nat /\ Source[r] \in Files
         /\ \A f \in Files : file[f] \in Nat
         /\ pump \in Seq(Turns) /\ DOMAIN pump = 1..Len(pump)
         /\ Len(pump) \in Nat
         /\ \A i \in DOMAIN pump : pump[i].press \in Nat /\ pump[i].row \in Rows
<1>1. /\ presses \in Presses /\ ran \in [Rows -> Presses]
      /\ file \in [Files -> Presses] /\ pump \in Seq(Turns)
      /\ turn.press \in Presses
  BY DEF StitchTypeOK
<1>2. DOMAIN pump = 1..Len(pump) /\ Len(pump) \in Nat
      /\ \A i \in DOMAIN pump : pump[i] \in Turns
  BY <1>1, LenProperties, ElementOfSeq
<1>3. \A i \in DOMAIN pump : pump[i].press \in Presses /\ pump[i].row \in Rows
  BY <1>2 DEF Turns
<1>4. QED
  BY <1>1, <1>2, <1>3, StitchAssumption

LEMMA PressesBegin == StitchInit => PInv
<1>1. SUFFICES ASSUME StitchInit PROVE PInv
  OBVIOUS
<1>2. /\ turn.pc = "idle" /\ turn.press = 0 /\ presses = 0
      /\ ran = [r \in Rows |-> 0] /\ file = [f \in Files |-> 0]
  BY <1>1 DEF StitchInit, NoTurn
<1>3. DOMAIN pump = {}
  <2>1. pump = <<>>
    BY <1>1 DEF StitchInit
  <2>2. QED
    BY <2>1
<1>4. PressesRise
  BY <1>2, <1>3 DEF PressesRise
<1>5. TurnIsLive /\ TurnIsOfItsPress /\ OnePressOneRow /\ ChangedByDone
  BY <1>2 DEF TurnIsLive, TurnIsOfItsPress, OnePressOneRow, ChangedByDone
<1>6. QED
  BY <1>4, <1>5 DEF PInv

(* Steps that take no turn and change no video: rows are added, stopped or *)
(* forgotten.                                                              *)
LEMMA RequestsKeepPresses ==
  ASSUME PInv, NEW aborted, turn' = [turn EXCEPT !.aborted = aborted],
         UNCHANGED <<pump, live, file, damaged, ran, presses>>,
         StitchTypeOK,
         \A r \in Rows : rowStatus[r] \in Over => rowStatus'[r] \in Over
  PROVE  PInv'
<1>1. turn'.pc = turn.pc /\ turn'.row = turn.row /\ turn'.press = turn.press
  BY DEF StitchTypeOK
<1>2. PressesRise'
  BY <1>1 DEF PInv, PressesRise
<1>3. TurnIsLive' /\ TurnIsOfItsPress' /\ OnePressOneRow'
  BY <1>1 DEF PInv, TurnIsLive, TurnIsOfItsPress, OnePressOneRow
<1>4. ChangedByDone'
  BY <1>1 DEF PInv, ChangedByDone
<1>5. QED
  BY <1>2, <1>3, <1>4 DEF PInv

(* A press is later than all before it.                                    *)
LEMMA PressKeepsPresses ==
  ASSUME IInv, PInv, NEW r \in Rows, NEW to \in Places, Press(r, to)
  PROVE  PInv'
<1> DEFINE t == [row |-> r, press |-> presses', to |-> to,
                 found |-> detected[r]]
<1>1. /\ StitchTypeOK /\ RunningIsTheTurn /\ TurnHasRow
      /\ TurnIsLive /\ PressesRise /\ TurnIsOfItsPress /\ OnePressOneRow
      /\ ChangedByDone
  BY DEF IInv, PInv
<1>2. /\ presses' = presses + 1
      /\ rowStatus' = [rowStatus EXCEPT ![r] = "queued"]
      /\ ran' = [ran EXCEPT ![r] = 0] /\ pump' = Append(pump, t)
      /\ UNCHANGED <<detected, turn, live, file, damaged, gone>>
      /\ rowStatus[r] # "running"
  BY DEF Press, RowSettled
<1>3. /\ presses \in Nat /\ turn.press \in Nat
      /\ \A q \in Rows : ran[q] \in Nat /\ Source[q] \in Files
      /\ \A f \in Files : file[f] \in Nat
      /\ DOMAIN pump = 1..Len(pump) /\ Len(pump) \in Nat
      /\ \A i \in DOMAIN pump : pump[i].press \in Nat
      /\ ran \in [Rows -> Presses] /\ rowStatus \in [Rows -> RowStatus]
  BY <1>1, Numbers DEF StitchTypeOK
<1>4. /\ DOMAIN pump' = 1..(Len(pump) + 1) /\ pump'[Len(pump) + 1] = t
      /\ \A i \in 1..Len(pump) : pump'[i] = pump[i]
  BY <1>1, <1>2, AppendProperties, PressIsATurn DEF StitchTypeOK
<1>5. t.press = presses + 1
  BY <1>2
<1>6. /\ ran'[r] = 0 /\ \A q \in Rows : q # r => ran'[q] = ran[q]
      /\ \A q \in Rows : q # r => rowStatus'[q] = rowStatus[q]
  BY <1>2, <1>3
<1>7. PressesRise'
  <2>1. \A i \in DOMAIN pump' : i \in DOMAIN pump \/ i = Len(pump) + 1
    BY <1>3, <1>4
  <2>2. \A i \in DOMAIN pump : pump'[i].press = pump[i].press
    BY <1>3, <1>4
  <2>3. pump'[Len(pump) + 1].press = presses + 1
    BY <1>4, <1>5
  <2>4. \A q \in Rows : ran'[q] <= ran[q]
    BY <1>3, <1>6
  <2>5. \A i \in DOMAIN pump' : \A q \in Rows : ran'[q] < pump'[i].press
    BY <1>1, <1>3, <1>6, <2>1, <2>2, <2>3 DEF PressesRise
  <2>6. \A i, j \in DOMAIN pump' : i < j => pump'[i].press < pump'[j].press
    BY <1>1, <1>3, <2>1, <2>2, <2>3 DEF PressesRise
  <2>7. \A i \in DOMAIN pump' :
          /\ pump'[i].press \in 1..presses' /\ turn'.press < pump'[i].press
          /\ \A f \in Files : file'[f] < pump'[i].press
    BY <1>1, <1>2, <1>3, <2>1, <2>2, <2>3 DEF PressesRise
  <2>8. /\ turn'.press <= presses' /\ \A q \in Rows : ran'[q] <= presses'
        /\ \A f \in Files : file'[f] <= presses'
    BY <1>1, <1>2, <1>3, <1>6 DEF PressesRise
  <2>9. QED
    BY <2>5, <2>6, <2>7, <2>8 DEF PressesRise
<1>8. TurnIsLive' /\ TurnIsOfItsPress'
  <2>1. turn.pc \notin {"idle", "clearing"} => turn.row # r
    BY <1>1, <1>2 DEF TurnIsLive, RunningIsTheTurn, StitchTypeOK
  <2>2. QED
    BY <1>1, <1>2, <1>6, <2>1 DEF TurnIsLive, TurnIsOfItsPress, TurnHasRow
<1>9. OnePressOneRow' /\ ChangedByDone'
  BY <1>1, <1>2, <1>6 DEF OnePressOneRow, ChangedByDone
<1>10. QED
  BY <1>7, <1>8, <1>9 DEF PInv

(* The turn at the head is of a later press than all that was taken.       *)
LEMMA TakeKeepsPresses ==
  ASSUME IInv, PInv, TakeTurn
  PROVE  PInv'
<1> DEFINE t == Head(pump)
<1>1. /\ StitchTypeOK /\ RunningIsTheTurn
      /\ TurnIsLive /\ PressesRise /\ TurnIsOfItsPress /\ OnePressOneRow
      /\ ChangedByDone
  BY DEF IInv, PInv
<1>2. /\ turn.pc = "idle" /\ pump # <<>> /\ pump' = Tail(pump)
      /\ UNCHANGED <<detected, stuck, file, damaged, gone, presses, closing,
                     restarts>>
  BY DEF TakeTurn
<1>3. /\ presses \in Nat /\ turn.press \in Nat
      /\ \A q \in Rows : ran[q] \in Nat /\ Source[q] \in Files
      /\ \A f \in Files : file[f] \in Nat
      /\ DOMAIN pump = 1..Len(pump) /\ Len(pump) \in Nat
      /\ \A i \in DOMAIN pump : pump[i].press \in Nat
      /\ ran \in [Rows -> Presses] /\ rowStatus \in [Rows -> RowStatus]
  BY <1>1, Numbers DEF StitchTypeOK
<1>4. /\ t = pump[1] /\ 1 \in DOMAIN pump
      /\ \A i \in DOMAIN pump' :
           i + 1 \in DOMAIN pump /\ pump'[i] = pump[i + 1] /\ i \in Nat /\ i # 0
      /\ t.row \in Rows
  <2>1. t \in Turns /\ t = pump[1] /\ 1 \in DOMAIN pump
    BY <1>1, <1>2, TailTurns DEF StitchTypeOK
  <2>2. \A i \in DOMAIN pump' : i + 1 \in DOMAIN pump /\ pump'[i] = pump[i + 1]
    BY <1>1, <1>2, TailTurns DEF StitchTypeOK
  <2>3. pump' \in Seq(Turns)
    BY <1>1, <1>2, TailTurns DEF StitchTypeOK
  <2>4. DOMAIN pump' = 1..Len(pump') /\ Len(pump') \in Nat
    BY <2>3, LenProperties
  <2>5. QED
    BY <2>1, <2>2, <2>4 DEF Turns
<1>5. \A i \in DOMAIN pump' :
        /\ pump'[i].press \in 1..presses
        /\ \A j \in DOMAIN pump' : i < j => pump'[i].press < pump'[j].press
        /\ turn.press < pump'[i].press /\ t.press < pump'[i].press
        /\ \A r \in Rows : ran[r] < pump'[i].press
        /\ \A f \in Files : file[f] < pump'[i].press
  <2>1. \A i \in DOMAIN pump' :
          /\ pump'[i].press \in 1..presses /\ turn.press < pump'[i].press
          /\ \A r \in Rows : ran[r] < pump'[i].press
          /\ \A f \in Files : file[f] < pump'[i].press
    BY <1>1, <1>4 DEF PressesRise
  <2>2. \A i, j \in DOMAIN pump : i < j => pump[i].press < pump[j].press
    BY <1>1 DEF PressesRise
  <2>3. \A i \in DOMAIN pump' : t.press < pump'[i].press
    <3>1. TAKE i \in DOMAIN pump'
    <3>2. i \in Nat /\ i # 0 /\ i + 1 \in DOMAIN pump /\ 1 \in DOMAIN pump
          /\ 1 < i + 1
      BY <1>4
    <3>3. pump[1].press < pump[i + 1].press
      BY <2>2, <3>2
    <3>4. QED
      BY <1>4, <3>3
  <2>4. ASSUME NEW i \in DOMAIN pump', NEW j \in DOMAIN pump', i < j
        PROVE  pump'[i].press < pump'[j].press
    <3>1. i \in Nat /\ j \in Nat /\ i + 1 < j + 1
          /\ i + 1 \in DOMAIN pump /\ j + 1 \in DOMAIN pump
      BY <1>4, <2>4
    <3>2. pump[i + 1].press < pump[j + 1].press
      BY <2>2, <3>1
    <3>3. QED
      BY <1>4, <3>2
  <2>5. QED
    BY <2>1, <2>3, <2>4
<1>6. /\ t.press \in 1..presses
      /\ \A r \in Rows : ran[r] < t.press
      /\ \A f \in Files : file[f] < t.press
  BY <1>1, <1>4 DEF PressesRise
<1>7. CASE rowStatus[t.row] # "queued" \/ closing
  <2>1. UNCHANGED <<live, rowStatus, ran, turn>>
    BY <1>7 DEF TakeTurn
  <2>2. PressesRise'
    BY <1>1, <1>2, <1>5, <2>1 DEF PressesRise
  <2>3. TurnIsLive' /\ TurnIsOfItsPress' /\ OnePressOneRow' /\ ChangedByDone'
    BY <1>1, <1>2, <2>1
    DEF TurnIsLive, TurnIsOfItsPress, OnePressOneRow, ChangedByDone
  <2>4. QED
    BY <2>2, <2>3 DEF PInv
<1>8. CASE rowStatus[t.row] = "queued" /\ ~closing
  <2>1. /\ live' = live \cup {t.row}
        /\ rowStatus' = RowMoved(rowStatus, t.row, "running")
        /\ ran' = [ran EXCEPT ![t.row] = t.press]
        /\ turn' = [pc |-> "making", row |-> t.row, press |-> t.press,
                    to |-> t.to, found |-> t.found, aborted |-> FALSE]
    BY <1>8 DEF TakeTurn
  <2>2. turn'.pc = "making" /\ turn'.row = t.row /\ turn'.press = t.press
    BY <2>1
  <2>3. /\ ran'[t.row] = t.press
        /\ \A q \in Rows : q # t.row => ran'[q] = ran[q]
        /\ \A q \in Rows : q # t.row => rowStatus'[q] = rowStatus[q]
    BY <1>3, <1>4, <2>1 DEF RowMoved
  <2>4. PressesRise'
    <3>1. \A i \in DOMAIN pump' : \A q \in Rows : ran'[q] < pump'[i].press
      BY <1>5, <2>3
    <3>2. /\ turn'.press <= presses' /\ \A q \in Rows : ran'[q] <= presses'
          /\ \A f \in Files : file'[f] <= presses'
      BY <1>1, <1>2, <1>3, <1>6, <2>2, <2>3 DEF PressesRise
    <3>3. QED
      BY <1>2, <1>5, <2>2, <3>1, <3>2 DEF PressesRise
  <2>5. TurnIsLive' /\ TurnIsOfItsPress'
    BY <1>3, <1>6, <2>1, <2>2, <2>3 DEF TurnIsLive, TurnIsOfItsPress
  <2>6. \A q \in Rows : ran[q] # t.press
    BY <1>3, <1>6
  <2>7. OnePressOneRow'
    BY <1>1, <2>3, <2>6 DEF OnePressOneRow
  <2>8. ChangedByDone'
    <3>1. \A f \in Files : file[f] # t.press
      BY <1>3, <1>6
    <3>2. QED
      BY <1>1, <1>2, <1>3, <2>3, <3>1 DEF ChangedByDone
  <2>9. QED
    BY <2>4, <2>5, <2>7, <2>8 DEF PInv
<1>9. QED
  BY <1>7, <1>8

(* A turn goes on; only the install changes a video, and then the turn     *)
(* measures what it made.                                                  *)
LEMMA GoesOnKeepsPresses ==
  ASSUME IInv, PInv, turn.pc \notin {"idle", "clearing"},
         NEW pc \in {"looking", "working", "installing", "copying",
                    "measuring"},
         NEW found,
         turn' = [turn EXCEPT !.pc = pc, !.found = found],
         UNCHANGED <<rowStatus, live, pump, ran, presses>>,
         turn.pc # "measuring",
         \/ UNCHANGED <<file, damaged>>
         \/ /\ file' = [file EXCEPT ![Source[turn.row]] = turn.press]
            /\ \A f \in Files \ {Source[turn.row]} : f \in damaged => f \in damaged'
            /\ pc = "measuring" \/ Source[turn.row] \in damaged'
  PROVE  PInv'
<1>1. /\ StitchTypeOK /\ TurnHasRow
      /\ TurnIsLive /\ PressesRise /\ TurnIsOfItsPress /\ OnePressOneRow
      /\ ChangedByDone
  BY DEF IInv, PInv
<1>2. /\ turn'.pc = pc /\ turn'.row = turn.row /\ turn'.press = turn.press
      /\ file \in [Files -> Presses] /\ turn.row \in Rows
  BY <1>1 DEF StitchTypeOK, TurnHasRow
<1>3. /\ \A r \in Rows : Source[r] \in Files
      /\ \A f \in Files : file'[f] \in {file[f], turn.press}
      /\ \A f \in Files : f # Source[turn.row] => file'[f] = file[f]
  BY <1>1, <1>2, Numbers
<1>4. PressesRise'
  BY <1>1, <1>2, <1>3 DEF PressesRise
<1>5. TurnIsLive' /\ TurnIsOfItsPress' /\ OnePressOneRow'
  BY <1>1, <1>2 DEF TurnIsLive, TurnIsOfItsPress, OnePressOneRow
<1>6. ChangedByDone'
  <2>1. ASSUME NEW r \in Rows, ran[r] # 0, file'[Source[r]] = ran[r]
        PROVE  \/ rowStatus[r] \in Over
               \/ Source[r] \in damaged'
               \/ turn.row = r /\ pc = "measuring"
    <3>1. CASE UNCHANGED <<file, damaged>>
      BY <1>1, <2>1, <3>1 DEF ChangedByDone
    <3>2. CASE /\ file' = [file EXCEPT ![Source[turn.row]] = turn.press]
               /\ \A f \in Files \ {Source[turn.row]} :
                    f \in damaged => f \in damaged'
               /\ pc = "measuring" \/ Source[turn.row] \in damaged'
      <4>1. CASE Source[r] = Source[turn.row]
        <5>1. file'[Source[r]] = turn.press
          BY <1>2, <1>3, <3>2, <4>1
        <5>2. ran[r] = ran[turn.row]
          BY <1>1, <2>1, <5>1 DEF TurnIsOfItsPress
        <5>3. r = turn.row
          BY <1>1, <1>2, <2>1, <5>2 DEF OnePressOneRow
        <5>4. QED
          BY <3>2, <4>1, <5>3
      <4>2. CASE Source[r] # Source[turn.row]
        <5>1. file[Source[r]] = ran[r] /\ turn.row # r
          BY <1>3, <2>1, <4>2
        <5>2. rowStatus[r] \in Over \/ Source[r] \in damaged
          BY <1>1, <2>1, <5>1 DEF ChangedByDone
        <5>3. QED
          BY <1>3, <3>2, <4>2, <5>2
      <4>3. QED
        BY <4>1, <4>2
    <3>3. QED
      BY <3>1, <3>2
  <2>2. QED
    BY <1>2, <2>1 DEF ChangedByDone
<1>7. QED
  BY <1>4, <1>5, <1>6 DEF PInv

(* A turn ends: with "done" once it measured, and otherwise with a video   *)
(* that is not of its press.                                               *)
LEMMA EndsKeepsPresses ==
  ASSUME IInv, PInv, turn.pc \notin {"idle", "clearing"},
         NEW s \in {"done", "failed", "cancelled"}, Ends(s),
         turn.pc = "measuring" => s = "done",
         UNCHANGED <<pump, file, damaged, ran, presses>>
  PROVE  PInv'
<1>1. /\ StitchTypeOK /\ TurnHasRow /\ RunningIsTheTurn
      /\ TurnIsLive /\ PressesRise /\ TurnIsOfItsPress /\ OnePressOneRow
      /\ ChangedByDone
  BY DEF IInv, PInv
<1>2. /\ rowStatus' = RowMoved(rowStatus, turn.row, s)
      /\ turn' = [turn EXCEPT !.pc = "clearing"]
      /\ rowStatus \in [Rows -> RowStatus]
      /\ turn.row \in Rows /\ rowStatus[turn.row] = "running"
  BY <1>1 DEF Ends, StitchTypeOK, TurnHasRow, TurnIsLive, RunningIsTheTurn
<1>3. turn'.pc = "clearing" /\ turn'.press = turn.press
  BY <1>1, <1>2 DEF StitchTypeOK
<1>4. rowStatus'[turn.row] = s
      /\ \A q \in Rows : q # turn.row => rowStatus'[q] = rowStatus[q]
  BY <1>2 DEF RowMoved, RowEdges, RowSettled
<1>5. PressesRise'
  BY <1>1, <1>3 DEF PressesRise
<1>6. TurnIsLive' /\ TurnIsOfItsPress' /\ OnePressOneRow'
  BY <1>1, <1>3 DEF TurnIsLive, TurnIsOfItsPress, OnePressOneRow
<1>7. ChangedByDone'
  BY <1>1, <1>2, <1>4 DEF ChangedByDone, Over
<1>8. QED
  BY <1>5, <1>6, <1>7 DEF PInv

(* The directory is cleared or could not be made, or the agent starts      *)
(* again: no turn is taken.                                                *)
LEMMA IdleKeepsPresses ==
  ASSUME IInv, PInv, Cleared \/ DirectoryFails \/ StitchRestart
  PROVE  PInv'
<1>1. /\ StitchTypeOK
      /\ TurnIsLive /\ PressesRise /\ TurnIsOfItsPress /\ OnePressOneRow
      /\ ChangedByDone
  BY DEF IInv, PInv
<1>2. /\ turn' = NoTurn /\ UNCHANGED <<file, damaged, ran, presses>>
      /\ pump' = pump \/ pump' = <<>>
  BY DEF Cleared, DirectoryFails, StitchRestart
<1>3. turn'.pc = "idle" /\ turn'.press = 0
  BY <1>2 DEF NoTurn
<1>4. /\ presses \in Nat /\ \A i \in DOMAIN pump : pump[i].press \in Nat
      /\ restarts \in Nat
  BY <1>1, Numbers, StitchAssumption DEF StitchTypeOK
<1>5. \A i \in DOMAIN pump' : i \in DOMAIN pump /\ pump' = pump
  BY <1>2
<1>6. PressesRise'
  <2>1. \A i \in DOMAIN pump' :
          /\ pump'[i].press \in 1..presses
          /\ \A j \in DOMAIN pump' : i < j => pump'[i].press < pump'[j].press
          /\ turn'.press < pump'[i].press
          /\ \A r \in Rows : ran[r] < pump'[i].press
          /\ \A f \in Files : file[f] < pump'[i].press
    BY <1>1, <1>3, <1>4, <1>5 DEF PressesRise
  <2>2. QED
    BY <1>1, <1>2, <1>3, <1>4, <2>1 DEF PressesRise
<1>7. TurnIsLive' /\ TurnIsOfItsPress' /\ OnePressOneRow'
  BY <1>1, <1>2, <1>3 DEF TurnIsLive, TurnIsOfItsPress, OnePressOneRow
<1>8. ChangedByDone'
  <2>1. CASE Cleared \/ DirectoryFails
    <3>1. turn.pc # "measuring" /\ UNCHANGED rowStatus
      BY <2>1 DEF Cleared, DirectoryFails
    <3>2. QED
      BY <1>1, <1>2, <3>1 DEF ChangedByDone
  <2>2. CASE StitchRestart
    <3>1. rowStatus' = [r \in Rows |-> IF r \in InHand THEN "interrupted"
                                      ELSE rowStatus[r]]
      BY <2>2 DEF StitchRestart
    <3>2. turn.pc = "measuring" => turn.row \in Rows /\ turn.row \in InHand
      BY <1>1 DEF IInv, TurnHasRow, RunningIsTheTurn, TurnIsLive, InHand
    <3>3. ASSUME NEW r \in Rows, ran[r] # 0, file[Source[r]] = ran[r]
          PROVE  rowStatus'[r] \in Over \/ Source[r] \in damaged
      BY <1>1, <3>1, <3>2, <3>3 DEF ChangedByDone, Over
    <3>4. QED
      BY <1>2, <3>3 DEF ChangedByDone
  <2>3. QED
    BY <2>1, <2>2
<1>9. QED
  BY <1>6, <1>7, <1>8 DEF PInv

LEMMA NextKeepsPresses ==
  ASSUME IInv, PInv, [StitchNext]_stitchVars
  PROVE  PInv'
<1>1. StitchTypeOK /\ RunningIsTheTurn /\ TurnIsLive
      /\ turn = [turn EXCEPT !.aborted = turn.aborted]
      /\ turn = [turn EXCEPT !.found = turn.found]
  BY DEF IInv, PInv, StitchTypeOK
<1>2. ASSUME UNCHANGED <<turn, pump, live, file, damaged, ran, presses>>,
             \A r \in Rows : rowStatus[r] \in Over => rowStatus'[r] \in Over
      PROVE  PInv'
  BY <1>1, <1>2, RequestsKeepPresses
<1>3. ASSUME NEW S, StopsAll(S)
      PROVE  PInv'
  BY <1>1, <1>3, RequestsKeepPresses DEF StopsAll, StitchTypeOK, Over
<1>4. CASE \/ \E r \in Rows : AddRow(r) \/ ForgetRow(r)
           \/ ClearSettled
  <2>1. /\ UNCHANGED <<turn, pump, live, file, damaged, ran, presses>>
        /\ \A r \in Rows : rowStatus[r] \in Over => rowStatus'[r] \in Over
    BY <1>1, <1>4
    DEF AddRow, ForgetRow, ClearSettled, Forgotten, StitchTypeOK, Over
  <2>2. QED
    BY <1>2, <2>1
<1>5. CASE \E r \in Rows : \E to \in Places : Press(r, to)
  BY <1>5, PressKeepsPresses
<1>6. CASE StopAll \/ Closes \/ \E r \in Rows : StopRow(r)
  BY <1>3, <1>6 DEF StopAll, Closes, StopRow
<1>7. CASE TakeTurn
  BY <1>7, TakeKeepsPresses
<1>8. ASSUME NEW to \in {"failed", "cancelled"}, Ends(to),
             turn.pc \notin {"idle", "clearing", "measuring"},
             Elsewhere, UNCHANGED videos
      PROVE  PInv'
  BY <1>8, EndsKeepsPresses
<1>9. ASSUME NEW pc \in {"looking", "working", "installing", "copying",
                         "measuring"},
             Proceeds(pc), turn.pc \notin {"idle", "clearing", "measuring"},
             Elsewhere,
             \/ UNCHANGED <<file, damaged>>
             \/ /\ file' = [file EXCEPT ![Source[turn.row]] = turn.press]
                /\ \A f \in Files \ {Source[turn.row]} :
                     f \in damaged => f \in damaged'
                /\ pc = "measuring" \/ Source[turn.row] \in damaged'
      PROVE  PInv'
  <2>1. turn' = [turn EXCEPT !.pc = pc, !.found = turn.found]
    BY <1>1, <1>9 DEF Proceeds, StitchTypeOK
  <2>2. UNCHANGED <<rowStatus, live>>
    BY <1>9 DEF Proceeds
  <2>3. QED
    BY <1>9, <2>1, <2>2, GoesOnKeepsPresses
<1>10. CASE DirectoryMade \/ LookedRefusing \/ WorkFails \/ WorkDone
            \/ InstallFails
  <2>1. CASE DirectoryMade
    <3>1. CASE turn.aborted
      BY <1>8, <2>1, <3>1 DEF DirectoryMade
    <3>2. CASE ~turn.aborted
      BY <1>9, <2>1, <3>2 DEF DirectoryMade
    <3>3. QED
      BY <3>1, <3>2
  <2>2. CASE LookedRefusing \/ WorkFails
    BY <1>8, <2>2 DEF LookedRefusing, WorkFails, Broken
  <2>3. CASE WorkDone
    BY <1>9, <2>3 DEF WorkDone
  <2>4. CASE InstallFails
    BY <1>8, <2>4 DEF InstallFails
  <2>5. QED
    BY <1>10, <2>1, <2>2, <2>3, <2>4
<1>11. CASE Looked
  <2> DEFINE found == IF turn.found = Unknown THEN file[Source[turn.row]]
                      ELSE turn.found
  <2>1. /\ turn.pc = "looking"
        /\ turn' = [turn EXCEPT !.pc = "working", !.found = found]
        /\ UNCHANGED <<rowStatus, pump, live, file, damaged, ran, presses>>
    BY <1>11 DEF Looked
  <2>2. QED
    BY <2>1, GoesOnKeepsPresses
<1>12. CASE CopyBegins \/ Installed
  <2>1. turn.pc \in {"installing", "copying"} /\ Elsewhere
    BY <1>12 DEF CopyBegins, Installed
  <2>2. CASE CopyBegins
    BY <1>9, <2>1, <2>2 DEF CopyBegins
  <2>3. CASE Installed
    BY <1>9, <2>1, <2>3 DEF Installed
  <2>4. QED
    BY <1>12, <2>2, <2>3
<1>13. CASE Measured
  <2>1. /\ turn.pc = "measuring" /\ Ends("done")
        /\ UNCHANGED <<pump, file, damaged, ran, presses>>
    BY <1>13 DEF Measured
  <2>2. QED
    BY <2>1, EndsKeepsPresses
<1>14. CASE Cleared \/ DirectoryFails \/ StitchRestart
  BY <1>14, IdleKeepsPresses
<1>15. CASE UNCHANGED stitchVars
  BY <1>2, <1>15 DEF stitchVars
<1>16. QED
  BY <1>4, <1>5, <1>6, <1>7, <1>10, <1>11, <1>12, <1>13, <1>14, <1>15
  DEF StitchNext, RowsAsked, TurnGoesOn

(* A run that was stopped or failed put nothing whole in the place of its  *)
(* video, in this life of the agent or an earlier one: between the end of  *)
(* the install, which does not ask whether it was stopped, and the end of  *)
(* the turn nothing can say anything but done (queue.ts, run()).           *)
THEOREM StopLeavesSource == StitchSpec => []StoppedLeftSource
<1>1. IInv /\ PInv => StoppedLeftSource
  <2>1. SUFFICES ASSUME IInv, PInv, NEW r \in Rows,
                        rowStatus[r] \in {"failed", "cancelled"},
                        ran[r] # 0, file[Source[r]] = ran[r],
                        Source[r] \notin damaged
                 PROVE  FALSE
    BY DEF StoppedLeftSource
  <2>2. turn.row = r /\ turn.pc = "measuring"
    BY <2>1 DEF PInv, ChangedByDone, Over
  <2>3. rowStatus[r] = "running"
    BY <2>1, <2>2 DEF PInv, IInv, TurnIsLive, RunningIsTheTurn
  <2>4. QED
    BY <2>1, <2>3
<1>2. IInv /\ PInv /\ [StitchNext]_stitchVars => PInv'
  BY NextKeepsPresses
<1>3. QED
  BY <1>1, <1>2, Invariant, PressesBegin, PTL DEF StitchSpec
=============================================================================
