------------------------ MODULE CompressorRunsProofs ------------------------
(***************************************************************************)
(* What a run of CompressorQueue does to its card, to the disk and to the  *)
(* slot, for every value of the constants that leaves a named behaviour    *)
(* out.  Each theorem says which:                                          *)
(*   - NoRepeatStop: nobody stops a repeat, whose cancel awaits in the     *)
(*     middle (queue.ts, cancelJob);                                       *)
(*   - ~RerunBusy: no card is started again while the run that was stopped *)
(*     still unwinds;                                                      *)
(*   - NoAudio: no encode fails for its audio and is tried again;          *)
(*   - NoEstimates, NoRestart: nobody asks for an estimate during an       *)
(*     encode, no card is started a second time (PauseIsTrue).             *)
(* With those behaviours the code does violate some of these properties.   *)
(***************************************************************************)
EXTENDS CompressorQueueProofs

NoRepeatStop == "cancelrepeat" \notin Ops
NoAudio == "audio" \notin Ops

(* Without the cancel of a repeat, no cancel is between its awaits.        *)
NoStopUnderWay == \A j \in Jobs : cancelling[j][1] = "no"

-----------------------------------------------------------------------------
(* The steps, sorted by what they touch.                                   *)

(* Cards stay at their status, on the list and at their names; the disk    *)
(* and the runs stay too.                                                  *)
Calm == UNCHANGED <<status, listed, out, prev, disk, runs, starting, cancelling>>

CalmStep ==
  \/ \E j \in Jobs : \/ \E on \in BOOLEAN : SetPaused(j, on)
                     \/ Prioritize(j) \/ CancelPrioritized(j) \/ Measure(j)
  \/ PumpSkip \/ PumpDrained \/ HandoffEnd \/ Read \/ WatchdogTick
  \/ ToolsLost \/ ToolsBack \/ RequestUpdateDrain

(* Cards are written, the runs are not.                                    *)
CardsOnly ==
  \/ \E j \in Jobs : \/ Add(j) \/ \E ok \in BOOLEAN : Probe(j, ok)
                     \/ ProbeUnavailable(j) \/ Remove(j) \/ Cancel(j)
  \/ (\E J \in SUBSET Jobs : StartBegin(J)) \/ StartCommit \/ StartThrow
  \/ CancelAll \/ HandleWake

(* What a run finds when it resumes, and what it does then.                *)
Resumes(r) ==
  \/ pc[r] \in {"prepare", "probe"}
  \/ pc[r] \in {"encode", "encode2"} /\ child[r] \in {"zero", "fail", "audio", "nospawn"}

Resumed(r) ==
  \/ Resumes(r) /\ StopSeen(r)
  \/ Resumes(r) /\ Fail(r)
  \/ pc[r] = "prepare" /\ ~Cancelled(r) /\ Spawn(r, "encode")
  \/ pc[r] = "fallback" /\ Spawn(r, "encode2")
  \/ pc[r] = "encode" /\ child[r] = "audio" /\ Retry(r)
  \/ /\ pc[r] \in {"encode", "encode2"} /\ child[r] = "zero" /\ ~Cancelled(r)
     /\ Moves(r, "probe")
  \/ /\ pc[r] \in {"encode", "encode2"} /\ child[r] = "nospawn"
     /\ RuntimeFailure(r, "encoding")
  \/ pc[r] = "prepare" /\ RuntimeFailure(r, "encoding")
  \/ pc[r] = "probe" /\ RuntimeFailure(r, "output-validation")
  \/ /\ pc[r] = "probe" /\ out[rjob[r]] # NoSlot /\ file[rjob[r]][out[rjob[r]]] = "good"
     /\ Complete(r)
  \/ Abandon(r)

LEMMA SortedSteps ==
  ASSUME Next, NoRepeatStop, NoStopUnderWay
  PROVE  \/ CalmStep
         \/ CardsOnly
         \/ \E j \in Jobs, r \in Runs : PumpClaim(j, r)
         \/ \E r \in Runs : \/ Resumed(r) \/ End(r) \/ Vanish(r)
                            \/ \E result \in Results : Exit(r, result)
<1>1. ASSUME NEW r \in Runs,
             \/ \E ok \in BOOLEAN : Prepared(r, ok)
             \/ Fallback(r) \/ Abandon(r)
      PROVE  Resumed(r)
  BY <1>1 DEF Prepared, Fallback, Resumed, Resumes
<1>2. ASSUME NEW r \in Runs, Encoded(r) PROVE Resumed(r)
  BY <1>2 DEF Encoded, Resumed, Resumes
<1>3. ASSUME NEW r \in Runs, NEW result \in {"ok", "bad", "tool"}, Validated(r, result)
      PROVE  Resumed(r)
  BY <1>3 DEF Validated, Resumed, Resumes
<1>4. ASSUME NEW j \in Jobs PROVE ~CancelBegin(j) /\ ~CancelEnd(j)
  BY DEF CancelBegin, CancelEnd, NoRepeatStop, NoStopUnderWay
<1> QED BY <1>1, <1>2, <1>3, <1>4, Steps DEF CalmStep, CardsOnly, Outside

LEMMA CalmSteps == CalmStep => Calm
BY DEF CalmStep, Calm, SetPaused, Prioritize, CancelPrioritized, Measure, PumpSkip,
       PumpDrained, HandoffEnd, Read, WatchdogTick, ToolsLost, ToolsBack,
       RequestUpdateDrain, cards, lists

LEMMA CancellingKept ==
  ASSUME Next, NoRepeatStop, NoStopUnderWay
  PROVE  cancelling' = cancelling
<1>1. CASE CalmStep
  BY <1>1, CalmSteps DEF Calm
<1>2. CASE CardsOnly
  BY <1>2 DEF CardsOnly, Add, Probe, ProbeUnavailable, Remove, Cancel, StartBegin,
              StartCommit, StartThrow, CancelAll, HandleWake, lists
<1>3. ASSUME NEW j \in Jobs, NEW r \in Runs, PumpClaim(j, r) PROVE cancelling' = cancelling
  BY <1>3 DEF PumpClaim, lists
<1>4. ASSUME NEW r \in Runs,
             \/ Resumed(r) \/ End(r) \/ Vanish(r)
             \/ \E result \in Results : Exit(r, result)
      PROVE  cancelling' = cancelling
  BY <1>4 DEF Resumed, StopSeen, Fail, Spawn, Retry, Moves, RuntimeFailure, Complete,
              Abandon, End, Vanish, Exit, lists
<1> QED BY <1>1, <1>2, <1>3, <1>4, SortedSteps

-----------------------------------------------------------------------------
(* Whose encode has the slot, through the methods on slot records.         *)

SameEncode(a, b) == /\ Encodes(a) <=> Encodes(b)
                    /\ Encodes(a) => b.job = a.job /\ b.run = a.run

LEMMA SameEncodeTrans ==
  ASSUME NEW a, NEW b, NEW c, SameEncode(a, b), SameEncode(b, c)
  PROVE  SameEncode(a, c)
BY DEF SameEncode

LEMMA ReleasePauseHoldAct ==
  ASSUME NEW S \in SlotType, NEW j
  PROVE  ReleasePauseHold(S, j).act = S.act
BY DEF ReleasePauseHold, SlotType

LEMMA TakePauseHoldAct ==
  ASSUME NEW S \in SlotType, NEW j, NEW r \in Runs \cup {None}
  PROVE  TakePauseHold(S, j, r).act = S.act
<1> DEFINE H == Hold(S, r, "paused")
<1>1. H \in SlotType /\ H.act = S.act
  BY HoldKeeps DEF Keeps, Reasons, Hold, SlotType
<1>2. TakePauseHold(S, j, r) = IF r = None THEN S ELSE [H EXCEPT !.pauseHold[j] = r]
  BY DEF TakePauseHold
<1> HIDE DEF H
<1> QED BY <1>1, <1>2 DEF SlotType

LEMMA ReleaseEstimateHoldAct ==
  ASSUME NEW S \in SlotType
  PROVE  LET b == ReleaseEstimateHold(S).act
         IN  SameEncode(S.act, b) /\ b.child = S.act.child /\ b.kind # "held"
<1> DEFINE A == [S.act EXCEPT !.kind = "encoding"]
           T == SetActivity(S, A)
<1>1. A \in Activity /\ A.kind = "encoding" /\ A.job = S.act.job /\ A.run = S.act.run
      /\ A.child = S.act.child
  BY DEF SlotType, Activity
<1>2. T \in SlotType /\ T.act = A
  <2> HIDE DEF A
  <2> QED BY <1>1, SetActivityKeeps DEF Keeps
<1>3. ReleaseEstimateHold(S) = IF S.act.kind # "held" THEN S
                               ELSE [T EXCEPT !.holds = @ \ {<<S.act.child, "estimate">>}]
  BY DEF ReleaseEstimateHold
<1> HIDE DEF T, A
<1> QED BY <1>1, <1>2, <1>3 DEF SlotType, SameEncode, Encodes

LEMMA StopActiveEncodeAct ==
  ASSUME NEW S \in SlotType
  PROVE  ~Encodes(StopActiveEncode(S).act)
<1> DEFINE G == Signal(ReleaseEstimateHold(S), S.act.child)
           T == SetActivity(G, Idle)
<1>1. G \in SlotType
  BY ReleaseEstimateHoldKeeps, SignalKeeps DEF Keeps
<1>2. T \in SlotType /\ T.act = Idle
  <2> HIDE DEF G
  <2> QED BY <1>1, IdleTyped, SetActivityKeeps DEF Keeps
<1>3. StopActiveEncode(S) = IF ~Encodes(S.act) THEN S ELSE [T EXCEPT !.pumpDue = TRUE]
  BY DEF StopActiveEncode
<1> HIDE DEF T
<1> QED BY <1>2, <1>3 DEF SlotType, Encodes, Idle

LEMMA ClearStrandedAct ==
  ASSUME NEW S \in SlotType
  PROVE  \/ ~Stranded(S) /\ ClearStranded(S) = S
         \/ Stranded(S) /\ ClearStranded(S).act = Idle
BY IdleTyped, SetActivityKeeps DEF ClearStranded

LEMMA ReleasedAct ==
  ASSUME NEW S \in SlotType, NEW r
  PROVE  \/ ~(Encodes(S.act) /\ S.act.run = r) /\ Released(S, r) = S
         \/ Encodes(S.act) /\ S.act.run = r /\ ~Encodes(Released(S, r).act)
<1>1. ~Encodes(Idle) /\ ~Encodes(Estimating)
  BY DEF Encodes, Idle, Estimating
<1> QED BY <1>1, IdleTyped, SetActivityKeeps DEF Released

LEMMA HandoffAct ==
  ASSUME NEW S \in SlotType, NEW pr
  PROVE  LET b == Handoff(S, pr).act
         IN  SameEncode(S.act, b) /\ (Encodes(b) => b.child = S.act.child)
<1> DEFINE A == [S.act EXCEPT !.kind = "held"]
           H == Hold(S, S.act.child, "estimate")
           held == SetActivity(H, A)
<1>1. A \in Activity /\ A.kind = "held" /\ A.job = S.act.job /\ A.run = S.act.run
      /\ A.child = S.act.child
  BY DEF SlotType, Activity
<1>2. H \in SlotType
  BY HoldKeeps DEF Reasons, Keeps
<1>3. held \in SlotType /\ held.act = A
  <2> HIDE DEF A, H
  <2> QED BY <1>1, <1>2, SetActivityKeeps DEF Keeps
<1> DEFINE F == [held EXCEPT !.handoff = "encoding"]
           R == ReleaseEstimateHold(held)
           E == [S EXCEPT !.act = Estimating, !.handoff = "idle"]
           P == [S EXCEPT !.pumpDue = TRUE]
<1>4. SameEncode(A, F.act) /\ F.act.child = A.child
  <2> HIDE DEF held, A
  <2> QED BY <1>1, <1>3 DEF SlotType, SameEncode
<1>5. SameEncode(A, R.act) /\ R.act.child = A.child
  <2> HIDE DEF held, A
  <2> QED BY <1>3, ReleaseEstimateHoldAct
<1>6. ~Encodes(E.act) /\ P.act = S.act
  BY DEF SlotType, Encodes, Estimating, Idle
<1>7. \/ Handoff(S, pr) = S \/ Handoff(S, pr) = P
      \/ S.act.kind = "idle" /\ Handoff(S, pr) = E
      \/ S.act.kind = "encoding" /\ (Handoff(S, pr) = F \/ Handoff(S, pr) = R)
  BY DEF Handoff
<1>8. S.act.kind = "encoding" => SameEncode(S.act, A)
  BY <1>1 DEF SameEncode, Encodes
<1>9. SameEncode(S.act, S.act) /\ (S.act.kind = "idle" => ~Encodes(S.act))
  BY DEF SameEncode, Encodes
<1> HIDE DEF E, F, R, P, A
<1> QED BY <1>1, <1>4, <1>5, <1>6, <1>7, <1>8, <1>9 DEF SameEncode

LEMMA AttachAct ==
  ASSUME NEW S \in SlotType, NEW r \in Runs
  PROVE  LET b == Attach(S, r).act
         IN  /\ SameEncode(S.act, b) /\ b.kind = S.act.kind
             /\ b.child = IF S.act.kind = "encoding" THEN r
                          ELSE IF S.act.child = r THEN None ELSE S.act.child
<1> DEFINE F == [S EXCEPT !.alive = @ \cup {r},
                          !.act.child = IF @ = r THEN None ELSE @]
           A == [S.act EXCEPT !.child = r]
<1>1. /\ F \in SlotType /\ F.act.kind = S.act.kind /\ F.act.job = S.act.job
      /\ F.act.run = S.act.run
      /\ F.act.child = IF S.act.child = r THEN None ELSE S.act.child
  BY DEF SlotType, Activity
<1>2. /\ A \in Activity /\ A.kind = S.act.kind /\ A.job = S.act.job
      /\ A.run = S.act.run /\ A.child = r
  BY DEF SlotType, Activity
<1>3. SetActivity(F, A).act = A
  <2> HIDE DEF F, A
  <2> QED BY <1>1, <1>2, SetActivityKeeps
<1>4. Attach(S, r) = IF S.act.kind = "encoding" THEN SetActivity(F, A) ELSE F
  BY DEF Attach
<1> HIDE DEF F, A
<1> QED BY <1>1, <1>2, <1>3, <1>4 DEF SameEncode, Encodes

-----------------------------------------------------------------------------
(* A card that compresses has the slot.                                    *)

Unwinding == {"abandon", "ending"}

(* The encode in the slot is one of a run that is not over.                *)
ActHasRun == Encodes(act) => /\ act.run \in Runs /\ pc[act.run] # "free"
                             /\ rjob[act.run] = act.job

(* ProcessingOwnsSlot, of every card, with what makes it last: the card is *)
(* on the list, and the run has not begun to unwind.                       *)
Owned == \A j \in Jobs : status[j] = "processing" =>
           j \in listed /\ Encodes(act) /\ act.job = j /\ pc[act.run] \notin Unwinding

OwnInv == BatchInv /\ NoStopUnderWay /\ ActHasRun /\ Owned

Compressing == \E j \in Jobs : status[j] = "processing"

LEMMA OwnTyped ==
  ASSUME OwnInv
  PROVE  TypeOK /\ RunsHaveCards /\ Slot \in SlotType /\ Slot.act = act
BY SlotTyped DEF OwnInv, BatchInv, TypeInv, Slot

(* An encode of a card that compresses is not stranded.                    *)
LEMMA OwnedNotStranded ==
  ASSUME OwnInv, Compressing
  PROVE  ~Stranded(Slot) /\ Encodes(act) /\ status[act.job] = "processing"
BY DEF OwnInv, Owned, Compressing, Stranded, Slot, Settled

(* What a step may leave of the slot: the same encode, or none.            *)
Lesser(a, b) == Encodes(b) => Encodes(a) /\ b.job = a.job /\ b.run = a.run

(* Nothing starts to compress, and a card that goes on compressing keeps   *)
(* the slot.                                                               *)
LEMMA OwnKept ==
  ASSUME OwnInv, TypeOK', Lesser(act, act'),
         Encodes(act') => pc'[act.run] # "free" /\ rjob'[act.run] = rjob[act.run],
         \A j \in Jobs : status'[j] = "processing" => 
            /\ status[j] = "processing" /\ j \in listed'
            /\ Encodes(act') /\ pc'[act.run] \notin Unwinding
  PROVE  (ActHasRun /\ Owned)'
<1>1. ActHasRun'
  BY DEF OwnInv, ActHasRun, Lesser
<1>2. Owned'
  BY DEF OwnInv, Owned, Lesser
<1> QED BY <1>1, <1>2

LEMMA SameLesser == \A a, b : SameEncode(a, b) \/ ~Encodes(b) => Lesser(a, b)
BY DEF SameEncode, Lesser

(* Methods that only look, or that take an encode from nobody.             *)
LEMMA CalmAct ==
  ASSUME TypeOK, CalmStep
  PROVE  /\ SameEncode(act, act') \/ (Stranded(Slot) /\ ~Encodes(act'))
         /\ Encodes(act') => act'.child = act.child
<1>1. Slot \in SlotType /\ Slot.act = act
  BY SlotTyped DEF Slot
<1>2. SameEncode(act, act)
  BY DEF SameEncode
<1>3. ~Encodes(Idle)
  BY DEF Encodes, Idle
<1>4. ClearStranded(Slot) \in SlotType
  BY <1>1, ClearStrandedKeeps DEF Keeps
<1>5. ASSUME act' = ClearStranded(Slot).act
      PROVE  /\ SameEncode(act, act') \/ (Stranded(Slot) /\ ~Encodes(act'))
             /\ Encodes(act') => act'.child = act.child
  BY <1>1, <1>2, <1>3, <1>5, ClearStrandedAct
<1>6. ASSUME NEW j \in Jobs, NEW on \in BOOLEAN, SetPaused(j, on) PROVE act' = act
  <2>1. act.child \in Runs \cup {None}
    BY DEF TypeOK, Activity
  <2> QED BY <1>1, <1>6, <2>1, ReleasePauseHoldAct, TakePauseHoldAct DEF SetPaused, Becomes
<1>7. ASSUME NEW j \in Jobs, Prioritize(j)
      PROVE  /\ SameEncode(act, act') \/ (Stranded(Slot) /\ ~Encodes(act'))
             /\ Encodes(act') => act'.child = act.child
  <2> DEFINE C == ClearStranded(Slot)
             asked == [prio EXCEPT ![j] = "asked"]
  <2>1. act' = Handoff(C, asked).act
    BY <1>7 DEF Prioritize, Becomes
  <2>2. SameEncode(C.act, act') /\ (Encodes(act') => act'.child = C.act.child)
    <3> HIDE DEF C, asked
    <3> QED BY <1>4, <2>1, HandoffAct DEF C
  <2>3. C.act = act \/ (Stranded(Slot) /\ C.act = Idle)
    BY <1>1, ClearStrandedAct
  <2> HIDE DEF C
  <2> QED BY <1>2, <1>3, <2>2, <2>3 DEF SameEncode
<1>8. CASE HandoffEnd
  <2> DEFINE R == ReleaseEstimateHold(Slot)
             T == IF R.act.kind = "estimating" THEN [R EXCEPT !.act = Idle] ELSE R
             U == [T EXCEPT !.handoff = "none",
                            !.pumpDue = @ \/ (handoff = "idle" /\ T.act.kind = "idle")]
  <2>1. act' = U.act
    BY <1>8 DEF HandoffEnd, Becomes
  <2>2. R \in SlotType /\ SameEncode(act, R.act) /\ R.act.child = act.child
    BY <1>1, ReleaseEstimateHoldKeeps, ReleaseEstimateHoldAct DEF Keeps
  <2>3. T \in SlotType /\ SameEncode(R.act, T.act) /\ (Encodes(T.act) => T.act.child = R.act.child)
    <3> HIDE DEF R
    <3> QED BY <2>2, IdleTyped DEF SlotType, SameEncode, Encodes, Idle
  <2>4. U.act = T.act
    <3> HIDE DEF T
    <3> QED BY <2>3 DEF SlotType
  <2> HIDE DEF R, T, U
  <2> QED BY <2>1, <2>2, <2>3, <2>4 DEF SameEncode
<1>9. CASE WatchdogTick \/ Read \/ RequestUpdateDrain
  <2> DEFINE C == ClearStranded(Slot)
             W == [C EXCEPT !.watchdog = ~Over(C),
                            !.pumpDue = @ \/ (C.act.kind = "idle" /\ ~Over(C))]
  <2>1. act' = C.act \/ act' = W.act
    BY <1>9 DEF WatchdogTick, Read, RequestUpdateDrain, Becomes
  <2>2. W.act = C.act
    <3> HIDE DEF C
    <3> QED BY <1>4 DEF SlotType, C
  <2> QED BY <1>5, <2>1, <2>2
<1>10. CASE \/ PumpSkip \/ PumpDrained \/ ToolsLost \/ ToolsBack
            \/ \E j \in Jobs : CancelPrioritized(j) \/ Measure(j)
  <2>1. act' = act
    BY <1>10 DEF PumpSkip, PumpDrained, ToolsLost, ToolsBack, CancelPrioritized, Measure,
                 Becomes, Slot, slot
  <2> QED BY <1>2, <2>1
<1> QED BY <1>2, <1>6, <1>7, <1>8, <1>9, <1>10 DEF CalmStep

(* A write through transition() starts an encode only when it says so, and *)
(* a settled status ends it.                                               *)
LEMMA MovedOff ==
  ASSUME NEW st \in [Jobs -> Status \cup {"absent"}], NEW k, NEW s, s # "processing",
         NEW j \in Jobs, Moved(st, k, s)[j] = "processing"
  PROVE  st[j] = "processing" /\ (s \in Settled => j # k)
BY DEF Moved, Allowed, Edges, Settled

LEMMA MovedElse ==
  ASSUME NEW st \in [Jobs -> Status \cup {"absent"}], NEW k, NEW s, NEW j \in Jobs,
         j # k \/ s \notin Edges(st[j])
  PROVE  Moved(st, k, s)[j] = st[j]
BY DEF Moved, Allowed

LEMMA GivenOff ==
  ASSUME NEW j \in Jobs, Given(status)[j] = "processing"
  PROVE  status[j] = "processing"
BY DEF Given

LEMMA OwnCalm == ASSUME OwnInv, TypeOK', Calm, CalmStep PROVE (ActHasRun /\ Owned)'
<1>1. SameEncode(act, act') \/ (Stranded(Slot) /\ ~Encodes(act'))
  BY CalmAct, OwnTyped
<1>2. Lesser(act, act')
  BY <1>1, SameLesser
<1>3. ASSUME NEW j \in Jobs, status[j] = "processing"
      PROVE  j \in listed /\ Encodes(act') /\ pc[act.run] \notin Unwinding
  <2>1. ~Stranded(Slot) /\ Encodes(act)
    BY <1>3, OwnedNotStranded DEF Compressing
  <2> QED BY <1>1, <1>3, <2>1 DEF SameEncode, OwnInv, Owned
<1>4. UNCHANGED <<status, listed, pc, rjob>>
  BY DEF Calm, runs
<1>5. Encodes(act') => pc'[act.run] # "free" /\ rjob'[act.run] = rjob[act.run]
  BY <1>2, <1>4 DEF OwnInv, ActHasRun, Lesser
<1>6. \A j \in Jobs : status'[j] = "processing" =>
        /\ status[j] = "processing" /\ j \in listed'
        /\ Encodes(act') /\ pc'[act.run] \notin Unwinding
  BY <1>3, <1>4
<1> QED BY <1>2, <1>5, <1>6, OwnKept

(* A step on the cards leaves the slot alone or empties it, and a card     *)
(* goes on compressing exactly when its encode keeps the slot.             *)
OwnStays ==
  /\ act' = act \/ ~Encodes(act')
  /\ \A j \in Jobs : status'[j] = "processing" =>
       status[j] = "processing" /\ j \in listed' /\ Encodes(act')
  /\ \A j \in Jobs : status[j] = "processing" /\ Encodes(act') => status'[j] = "processing"

LEMMA CardsStay == ASSUME OwnInv, CardsOnly PROVE OwnStays
<1>1. /\ status \in [Jobs -> Status \cup {"absent"}]
      /\ \A j \in Jobs : status[j] = "processing" =>
           j \in listed /\ Encodes(act) /\ act.job = j
      /\ {"cancelled", "failed", "interrupted"} \subseteq Settled
  BY OwnTyped DEF TypeOK, OwnInv, Owned, Settled
<1>2. TypeOK /\ Slot \in SlotType /\ Slot.act = act /\ ~Encodes(Idle)
  BY OwnTyped DEF Encodes, Idle
<1>3. ASSUME act' = act,
             \A k \in Jobs : /\ status'[k] = "processing" <=> status[k] = "processing"
                             /\ status'[k] = "processing" => k \in listed'
      PROVE  OwnStays
  BY <1>1, <1>3 DEF OwnStays
<1>4. ASSUME ~Encodes(act'), \A k \in Jobs : status'[k] # "processing" PROVE OwnStays
  BY <1>4 DEF OwnStays
<1>5. ASSUME NEW j \in Jobs, Add(j) PROVE OwnStays
  <2>1. act' = act
    BY <1>5 DEF Add, slot
  <2> QED BY <1>1, <1>3, <1>5, <2>1 DEF Add
<1>6. ASSUME NEW j \in Jobs, NEW ok \in BOOLEAN, Probe(j, ok) PROVE OwnStays
  <2>1. act' = act
    BY <1>6 DEF Probe, slot
  <2>2. \A k \in Jobs : status'[k] = "processing" <=> status[k] = "processing"
    BY <1>1, <1>6, MovedOff, MovedElse DEF Probe
  <2> QED BY <1>1, <1>3, <1>6, <2>1, <2>2 DEF Probe
<1>7. ASSUME NEW j \in Jobs, ProbeUnavailable(j) PROVE OwnStays
  <2>1. act' = act
    BY <1>7 DEF ProbeUnavailable, AbandonBatch, Becomes, Slot
  <2>2. \A k \in Jobs : status'[k] = "processing" <=> status[k] = "processing"
    BY <1>7 DEF ProbeUnavailable, AbandonBatch, Given
  <2> QED BY <1>1, <1>3, <1>7, <2>1, <2>2 DEF ProbeUnavailable
<1>8. ASSUME NEW j \in Jobs, Remove(j) PROVE OwnStays
  <2>1. act' = act /\ status[j] # "processing"
    BY <1>8 DEF Remove, slot, Stoppable, Edges, Status
  <2> QED BY <1>1, <1>3, <1>8, <2>1 DEF Remove
<1>9. ASSUME NEW j \in Jobs, Cancel(j) PROVE OwnStays
  <2>1. status' = Moved(status, j, "cancelled") /\ listed' = listed
    BY <1>9 DEF Cancel, CancelEffect
  <2>2. \A k \in Jobs : /\ status'[k] = "processing" => status[k] = "processing" /\ k # j
                        /\ status[k] = "processing" /\ k # j => status'[k] = "processing"
    BY <1>1, <2>1, MovedOff, MovedElse
  <2>3. act' = IF status[j] = "processing" THEN StopActiveEncode(Slot).act ELSE act
    BY <1>2, <1>9 DEF Cancel, CancelEffect, Becomes
  <2>4. CASE status[j] = "processing"
    <3>1. ~Encodes(act')
      BY <1>2, <2>3, <2>4, StopActiveEncodeAct
    <3>2. ASSUME NEW k \in Jobs PROVE status'[k] # "processing"
      BY <1>1, <2>2, <2>4
    <3> QED BY <1>4, <3>1, <3>2
  <2>5. CASE status[j] # "processing"
    BY <1>1, <1>3, <2>1, <2>2, <2>3, <2>5
  <2> QED BY <2>4, <2>5
<1>10. ASSUME NEW J \in SUBSET Jobs, StartBegin(J) PROVE OwnStays
  <2>1. act' = ClearStranded(Slot).act /\ ~Encodes(act')
    BY <1>10 DEF StartBegin, Running, Becomes, Encodes
  <2>2. ~Compressing
    BY <1>2, <2>1, OwnedNotStranded DEF ClearStranded
  <2>3. \A k \in Jobs : status'[k] # "processing"
    BY <1>10, <2>2 DEF StartBegin, Compressing
  <2> QED BY <1>4, <2>1, <2>3
<1>11. CASE StartCommit
  <2>1. act' = act
    BY <1>11 DEF StartCommit, Becomes, Slot
  <2>2. \A k \in Jobs : status'[k] = "processing" <=> status[k] = "processing"
    BY <1>1, <1>11, MovedOff DEF StartCommit, Moved, Allowed, Edges
  <2> QED BY <1>1, <1>3, <1>11, <2>1, <2>2 DEF StartCommit
<1>12. CASE StartThrow
  <2>1. act' = act /\ status' = status /\ listed' = listed
    BY <1>12 DEF StartThrow, slot, cards
  <2> QED BY <1>1, <1>3, <2>1
<1>13. CASE CancelAll
  <2> DEFINE stop == {j \in listed : status[j] \in {"queued", "processing"} /\ prev[j] = NoSlot}
             some == \E j \in stop : status[j] = "processing"
             S == IF some THEN StopActiveEncode(Slot) ELSE Slot
             T == ClearStranded(S)
             drained == /\ batch = "open" /\ T.act.kind = "idle"
                        /\ \A j \in (listed \cap inBatch) \ stop : status[j] # "queued"
  <2>1. /\ \A k \in Jobs : status'[k] = "processing" <=> status[k] = "processing" /\ k \notin stop
        /\ listed' = listed
    BY <1>1, <1>13 DEF CancelAll
  <2>2. Becomes([T EXCEPT !.watchdog = @ /\ ~drained])
    BY <1>13 DEF CancelAll
  <2>3. S \in SlotType /\ (~Encodes(S.act) \/ (S.act = act /\ ~some))
    <3>1. Keeps(Slot, StopActiveEncode(Slot)) /\ ~Encodes(StopActiveEncode(Slot).act)
      BY <1>2, StopActiveEncodeKeeps, StopActiveEncodeAct
    <3> QED BY <1>2, <3>1 DEF Keeps
  <2>4. T \in SlotType /\ (~Encodes(T.act) \/ (T.act = act /\ ~some))
    <3> HIDE DEF S
    <3> QED BY <1>2, <2>3, ClearStrandedKeeps, ClearStrandedAct DEF Keeps
  <2>5. act' = T.act
    <3> HIDE DEF T
    <3> QED BY <2>2, <2>4 DEF Becomes, SlotType
  <2>6. Compressing => T.act = act \/ some
    <3>1. Compressing => ~Stranded(Slot)
      BY OwnedNotStranded
    <3> QED BY <1>2, <3>1 DEF ClearStranded
  <2>7. some => \A k \in Jobs : status'[k] # "processing"
    <3> SUFFICES ASSUME NEW j \in stop, status[j] = "processing",
                        NEW k \in Jobs, status'[k] = "processing"
                 PROVE  FALSE
      OBVIOUS
    <3>1. status[k] = "processing" /\ k \notin stop
      BY <2>1
    <3>2. j \in Jobs /\ j = act.job
      BY <1>1, OwnTyped DEF TypeOK
    <3> QED BY <1>1, <3>1, <3>2
  <2>8. ~some => \A k \in Jobs : /\ status'[k] = "processing" <=> status[k] = "processing"
                                 /\ status'[k] = "processing" => k \in listed'
    BY <1>1, <2>1
  <2>9. CASE some
    <3> HIDE DEF T, some
    <3> QED BY <1>4, <2>4, <2>5, <2>7, <2>9
  <2>10. CASE ~some /\ Compressing
    <3> HIDE DEF T, some
    <3> QED BY <1>3, <2>5, <2>6, <2>8, <2>10
  <2>11. CASE ~some /\ ~Compressing
    <3>1. \A k \in Jobs : status[k] # "processing"
      BY <2>11 DEF Compressing
    <3> HIDE DEF T, some
    <3> QED BY <1>3, <1>4, <2>4, <2>5, <2>8, <2>11, <3>1
  <2> QED BY <2>9, <2>10, <2>11
<1>14. CASE HandleWake
  <2> DEFINE T == SetActivity(ReleaseEstimateHold(Slot), Idle)
  <2>1. Becomes([T EXCEPT !.pumpDue = TRUE])
    BY <1>14 DEF HandleWake
  <2>2. T \in SlotType /\ T.act = Idle
    <3>1. ReleaseEstimateHold(Slot) \in SlotType
      BY <1>2, ReleaseEstimateHoldKeeps DEF Keeps
    <3> QED BY <3>1, IdleTyped, SetActivityKeeps DEF Keeps
  <2>3. act' = Idle
    <3> HIDE DEF T
    <3> QED BY <2>1, <2>2 DEF Becomes, SlotType
  <2>4. \A k \in Jobs : status'[k] # "processing"
    BY <1>1, <1>14, MovedOff DEF HandleWake
  <2> QED BY <1>2, <1>4, <2>3, <2>4
<1> QED BY <1>5, <1>6, <1>7, <1>8, <1>9, <1>10, <1>11, <1>12, <1>13, <1>14 DEF CardsOnly

LEMMA RunsStay == CardsOnly => UNCHANGED <<pc, rjob, child>>
BY DEF CardsOnly, Add, Probe, ProbeUnavailable, Remove, Cancel, CancelEffect, StartBegin,
       StartCommit, StartThrow, CancelAll, HandleWake, runs

LEMMA OwnCards == ASSUME OwnInv, TypeOK', CardsOnly PROVE (ActHasRun /\ Owned)'
<1>1. UNCHANGED <<pc, rjob>> /\ OwnStays
  BY RunsStay, CardsStay
<1>2. Lesser(act, act') /\ (Encodes(act') => act' = act)
  BY <1>1 DEF OwnStays, Lesser
<1>3. Encodes(act') => pc'[act.run] # "free" /\ rjob'[act.run] = rjob[act.run]
  BY <1>1, <1>2 DEF OwnInv, ActHasRun
<1>4. ASSUME NEW j \in Jobs, status'[j] = "processing"
      PROVE  /\ status[j] = "processing" /\ j \in listed'
             /\ Encodes(act') /\ pc'[act.run] \notin Unwinding
  BY <1>1, <1>4 DEF OwnStays, OwnInv, Owned
<1> QED BY <1>2, <1>3, <1>4, OwnKept

LEMMA ClaimAct ==
  ASSUME TypeOK, NEW j \in Jobs, NEW r \in Runs, PumpClaim(j, r)
  PROVE  /\ act' = [kind |-> "encoding", job |-> j, run |-> r, child |-> None]
         /\ pc' = [pc EXCEPT ![r] = "prepare"] /\ rjob' = [rjob EXCEPT ![r] = j]
         /\ status[j] = "queued" /\ status' = [status EXCEPT ![j] = "processing"]
         /\ j \in listed /\ pc[r] = "free" /\ ~Encodes(act)
<1> DEFINE A == [kind |-> "encoding", job |-> j, run |-> r, child |-> None]
           T == SetActivity(Slot, A)
<1>1. A \in Activity
  BY DEF Activity
<1>2. T \in SlotType /\ T.act = A
  <2> HIDE DEF A
  <2> QED BY <1>1, SlotTyped, SetActivityKeeps DEF Keeps
<1>3. act' = A
  <2>1. Becomes([T EXCEPT !.pumpDue = FALSE])
    BY DEF PumpClaim
  <2> HIDE DEF T, A
  <2> QED BY <2>1, <1>2 DEF Becomes, SlotType
<1> QED BY <1>3 DEF PumpClaim, CanPump, Encodes, Moved, Allowed, Edges

LEMMA OwnClaim ==
  ASSUME OwnInv, TypeOK', NEW j \in Jobs, NEW r \in Runs, PumpClaim(j, r)
  PROVE  (ActHasRun /\ Owned)'
<1>1. /\ status \in [Jobs -> Status \cup {"absent"}]
      /\ pc \in [Runs -> Places] /\ rjob \in [Runs -> Jobs \cup {None}]
      /\ listed' = listed
  BY OwnTyped DEF TypeOK, PumpClaim
<1>2. /\ Encodes(act') /\ act'.job = j /\ act'.run = r
      /\ pc'[r] = "prepare" /\ rjob'[r] = j
      /\ status' = [status EXCEPT ![j] = "processing"] /\ j \in listed /\ ~Encodes(act)
  BY <1>1, OwnTyped, ClaimAct DEF Encodes
<1>3. \A k \in Jobs : status'[k] = "processing" => k = j
  BY <1>1, <1>2 DEF OwnInv, Owned
<1> QED BY <1>1, <1>2, <1>3 DEF ActHasRun, Owned, Unwinding

(* A run that goes on or ends leaves the slot with its encode.             *)
LEMMA ResumedAct ==
  ASSUME TypeOK, RunsHaveCards, NEW r \in Runs, Resumed(r)
  PROVE  /\ SameEncode(act, act') /\ UNCHANGED <<rjob, listed>>
         /\ pc[r] # "free" /\ rjob[r] \in Jobs
<1>1. Slot \in SlotType /\ Slot.act = act /\ SameEncode(act, act)
  BY SlotTyped DEF Slot, SameEncode
<1>2. ASSUME NEW place, Spawn(r, place) PROVE SameEncode(act, act')
  <2> DEFINE C == Attach(Slot, r)
  <2>1. C \in SlotType /\ SameEncode(act, C.act)
    BY <1>1, AttachKeeps, AttachAct DEF Keeps
  <2>2. SameEncode(C.act, Handoff(C, prio).act)
    <3> HIDE DEF C
    <3> QED BY <2>1, HandoffAct
  <2>3. act' = Handoff(C, prio).act
    BY <1>2 DEF Spawn, Becomes
  <2> HIDE DEF C
  <2> QED BY <2>1, <2>2, <2>3, SameEncodeTrans
<1>3. ASSUME ~(\E place : Spawn(r, place)) PROVE SameEncode(act, act')
  <2>1. act' = act
    BY <1>3 DEF Resumed, StopSeen, Fail, Retry, Moves, RuntimeFailure, Complete, Abandon,
                AbandonBatch, Becomes, Slot, slot
  <2> QED BY <1>1, <2>1
<1>4. UNCHANGED <<rjob, listed>>
  BY DEF Resumed, StopSeen, Fail, Spawn, Retry, Moves, RuntimeFailure, Complete, Abandon, cards
<1>5. pc[r] # "free" /\ rjob[r] \in Jobs
  BY DEF Resumed, Resumes, Abandon, RunsHaveCards
<1> QED BY <1>2, <1>3, <1>4, <1>5

(* A run that begins to unwind leaves no card of its own compressing, and  *)
(* no run starts one.                                                      *)
LEMMA ResumedCards ==
  ASSUME TypeOK, RunsHaveCards, NEW r \in Runs, Resumed(r)
  PROVE  /\ \A j \in Jobs : status'[j] = "processing" => status[j] = "processing"
         /\ \A j \in Jobs : status[j] = "processing" /\ j # rjob[r] => status'[j] = status[j]
         /\ \A j \in Jobs : status'[j] # status[j] =>
              (status[j] = "queued" /\ status'[j] = "ready") \/ status'[j] \in Settled
         /\ \E place \in Places \ {"free"} :
              /\ pc' = [pc EXCEPT ![r] = place]
              /\ place \in Unwinding => Cancelled(r) \/ pc[r] = "abandon"
                                           \/ status'[rjob[r]] # "processing"
              /\ place \notin Unwinding => status' = status /\ pc[r] \notin Unwinding
<1>1. /\ status \in [Jobs -> Status \cup {"absent"}] /\ pc \in [Runs -> Places]
      /\ {"failed", "interrupted", "completed"} \subseteq Settled
      /\ rjob[r] \in Jobs
  BY ResumedAct DEF TypeOK, Settled
<1>2. CASE \/ StopSeen(r)
           \/ pc[r] = "prepare" /\ Spawn(r, "encode")
           \/ pc[r] = "fallback" /\ Spawn(r, "encode2")
           \/ pc[r] = "encode" /\ Retry(r)
           \/ pc[r] \in {"encode", "encode2"} /\ Moves(r, "probe")
  BY <1>2 DEF StopSeen, Spawn, Retry, Moves, At, Places, Unwinding, cards
<1>3. CASE \E s \in Settled, place \in Unwinding :
             status' = Moved(status, rjob[r], s) /\ At(r, place)
  <2>1. PICK s \in Settled, place \in Unwinding :
          status' = Moved(status, rjob[r], s) /\ pc' = [pc EXCEPT ![r] = place]
    BY <1>3 DEF At
  <2>2. s # "processing" /\ place \in Places \ {"free"}
    BY DEF Settled, Unwinding, Places
  <2>3. \A j \in Jobs : status'[j] # status[j] => status'[j] = s /\ j = rjob[r]
    BY <1>1, <2>1 DEF Moved
  <2>4. \A j \in Jobs : status'[j] = "processing" => status[j] = "processing" /\ j # rjob[r]
    BY <1>1, <2>1, <2>2, MovedOff
  <2> QED BY <1>1, <2>1, <2>2, <2>3, <2>4
<1>4. CASE Abandon(r)
  <2>1. /\ pc[r] = "abandon" /\ pc' = [pc EXCEPT ![r] = "ending"]
        /\ \A j \in Jobs : status'[j] # status[j] => status[j] = "queued" /\ status'[j] = "ready"
    BY <1>4 DEF Abandon, AbandonBatch, Given, At
  <2> QED BY <1>1, <2>1 DEF Places, Unwinding
<1>5. Fail(r) \/ Complete(r) \/ RuntimeFailure(r, "encoding")
        \/ RuntimeFailure(r, "output-validation")
      => \E s \in Settled, place \in Unwinding :
           status' = Moved(status, rjob[r], s) /\ At(r, place)
  BY <1>1 DEF Fail, Complete, RuntimeFailure, Unwinding
<1> QED BY <1>2, <1>3, <1>4, <1>5 DEF Resumed

LEMMA OwnResumed ==
  ASSUME OwnInv, TypeOK', NEW r \in Runs, Resumed(r)
  PROVE  (ActHasRun /\ Owned)'
<1>1. /\ TypeOK /\ RunsHaveCards /\ pc \in [Runs -> Places]
      /\ SameEncode(act, act') /\ UNCHANGED <<rjob, listed>>
  BY OwnTyped, ResumedAct DEF TypeOK
<1>2. ASSUME NEW j \in Jobs, status'[j] = "processing"
      PROVE  /\ status[j] = "processing" /\ j \in listed'
             /\ Encodes(act') /\ pc'[act.run] \notin Unwinding
  <2>1. /\ status[j] = "processing" /\ j \in listed /\ Encodes(act) /\ act.job = j
        /\ pc[act.run] \notin Unwinding /\ act.run \in Runs /\ rjob[act.run] = j
    BY <1>1, <1>2, ResumedCards DEF OwnInv, Owned, ActHasRun
  <2>2. pc'[act.run] \notin Unwinding
    BY <1>1, <1>2, <2>1, ResumedCards DEF Cancelled, Unwinding
  <2> QED BY <1>1, <2>1, <2>2 DEF SameEncode
<1>3. ASSUME Encodes(act') PROVE pc'[act.run] # "free" /\ rjob'[act.run] = rjob[act.run]
  BY <1>1, <1>3, ResumedCards DEF OwnInv, ActHasRun, SameEncode
<1> QED BY <1>1, <1>2, <1>3, OwnKept, SameLesser

(* A run that ends takes the slot with it only if it is its own, and an    *)
(* encode of a card that compresses stays where it is.                     *)
LEMMA EndAct ==
  ASSUME TypeOK, NEW r \in Runs, End(r)
  PROVE  /\ Encodes(act') => SameEncode(act, act') /\ act.run # r /\ act'.child = act.child
         /\ Encodes(act) /\ act.run # r /\ ~Stranded(Slot) => Encodes(act')
<1> DEFINE R == Released(Slot, r)
           C == ClearStranded(R)
           D == [C EXCEPT !.pumpDue = TRUE]
<1>1. Slot \in SlotType /\ Slot.act = act
  BY SlotTyped DEF Slot
<1>2. R \in SlotType
  BY <1>1, ReleasedKeeps DEF Keeps
<1>3. C \in SlotType
  <2> HIDE DEF R
  <2> QED BY <1>2, ClearStrandedKeeps DEF Keeps
<1>4. D \in SlotType /\ D.act = C.act
  <2> HIDE DEF C
  <2> QED BY <1>3 DEF SlotType
<1>5. SameEncode(D.act, act') /\ (Encodes(act') => act'.child = D.act.child)
  <2>1. act' = Handoff(D, prio).act
    BY DEF End, Becomes
  <2> HIDE DEF D
  <2> QED BY <1>4, <2>1, HandoffAct
<1>6. /\ ~Encodes(C.act) \/ (C = Slot /\ act.run # r)
      /\ Encodes(act) /\ act.run # r /\ ~Stranded(Slot) => C = Slot
  <2>1. ~Encodes(Idle)
    BY DEF Encodes, Idle
  <2>2. \/ R = Slot /\ ~(Encodes(act) /\ act.run = r)
        \/ Encodes(act) /\ act.run = r /\ ~Encodes(R.act)
    BY <1>1, ReleasedAct
  <2>3. (C = R /\ ~Stranded(R)) \/ (Stranded(R) /\ C.act = Idle)
    <3> HIDE DEF R
    <3> QED BY <1>2, ClearStrandedAct
  <2>4. ~Encodes(R.act) => ~Stranded(R)
    BY DEF Stranded
  <2> HIDE DEF R, C
  <2> QED BY <1>1, <2>1, <2>2, <2>3, <2>4
<1> HIDE DEF C, D
<1> QED BY <1>1, <1>4, <1>5, <1>6 DEF SameEncode

LEMMA OwnEnd == ASSUME OwnInv, TypeOK', NEW r \in Runs, End(r) PROVE (ActHasRun /\ Owned)'
<1>1. /\ TypeOK /\ pc \in [Runs -> Places] /\ rjob \in [Runs -> Jobs \cup {None}]
      /\ UNCHANGED <<status, listed>> /\ pc[r] = "ending"
      /\ pc' = [pc EXCEPT ![r] = "free"] /\ rjob' = [rjob EXCEPT ![r] = None]
  BY OwnTyped DEF TypeOK, End, At, cards
<1>2. Encodes(act') => SameEncode(act, act') /\ act.run # r
  BY <1>1, EndAct
<1>3. Lesser(act, act')
  BY <1>2 DEF SameEncode, Lesser
<1>4. Encodes(act') => pc'[act.run] # "free" /\ rjob'[act.run] = rjob[act.run]
  BY <1>1, <1>2 DEF SameEncode, OwnInv, ActHasRun
<1>5. ASSUME NEW j \in Jobs, status'[j] = "processing"
      PROVE  /\ status[j] = "processing" /\ j \in listed'
             /\ Encodes(act') /\ pc'[act.run] \notin Unwinding
  <2>1. /\ status[j] = "processing" /\ j \in listed /\ Encodes(act)
        /\ pc[act.run] \notin Unwinding /\ act.run \in Runs /\ ~Stranded(Slot)
    BY <1>1, <1>5, OwnedNotStranded DEF OwnInv, Owned, ActHasRun, Compressing
  <2>2. act.run # r /\ Encodes(act')
    BY <1>1, <2>1, EndAct DEF Unwinding
  <2> QED BY <1>1, <2>1, <2>2
<1> QED BY <1>3, <1>4, <1>5, OwnKept

LEMMA OwnProcess ==
  ASSUME OwnInv, TypeOK', NEW r \in Runs, Vanish(r) \/ \E result \in Results : Exit(r, result)
  PROVE  (ActHasRun /\ Owned)'
<1>1. act' = act /\ UNCHANGED <<status, listed, pc, rjob>>
  BY DEF Vanish, Exit, Becomes, Slot, cards
<1> QED BY <1>1 DEF OwnInv, ActHasRun, Owned

LEMMA OwnStep == NoRepeatStop /\ OwnInv /\ Next => OwnInv'
<1> SUFFICES ASSUME NoRepeatStop, OwnInv, Next PROVE OwnInv'
  OBVIOUS
<1>1. BatchInv' /\ TypeOK'
  BY BatchStep DEF OwnInv, BatchInv, TypeInv
<1>2. NoStopUnderWay'
  BY CancellingKept DEF OwnInv, NoStopUnderWay
<1>3. (ActHasRun /\ Owned)'
  BY <1>1, SortedSteps, CalmSteps, OwnCalm, OwnCards, OwnClaim, OwnResumed, OwnEnd, OwnProcess
  DEF OwnInv
<1> QED BY <1>1, <1>2, <1>3 DEF OwnInv

LEMMA OwnBegins == Init => OwnInv
<1> SUFFICES ASSUME Init PROVE OwnInv
  OBVIOUS
<1>1. NoStopUnderWay /\ ActHasRun /\ Owned
  BY DEF Init, NoStopUnderWay, ActHasRun, Owned, Encodes, Idle
<1> QED BY <1>1, BatchBegins DEF OwnInv

LEMMA OwnStutter == OwnInv /\ UNCHANGED vars => OwnInv'
<1> SUFFICES ASSUME OwnInv, UNCHANGED vars PROVE OwnInv'
  OBVIOUS
<1>1. BatchInv'
  BY BatchStutter DEF OwnInv
<1>2. (NoStopUnderWay /\ ActHasRun /\ Owned)'
  BY DEF OwnInv, NoStopUnderWay, ActHasRun, Owned, vars, cards, slot, runs, lists
<1> QED BY <1>1, <1>2 DEF OwnInv

(* A card shown as compressing has the slot, whatever is stopped, retried, *)
(* removed, lost or asked for, as long as nobody stops a repeat: that      *)
(* cancel acts on a status it read before its await (queue.ts, cancelJob). *)
THEOREM OwnerIsProcessing == NoRepeatStop => (Spec => []ProcessingOwnsSlot)
<1> SUFFICES ASSUME NoRepeatStop PROVE Spec => []ProcessingOwnsSlot
  OBVIOUS
<1>1. Init => OwnInv
  BY OwnBegins
<1>2. OwnInv /\ [Next]_vars => OwnInv'
  BY OwnStep, OwnStutter
<1>3. OwnInv => ProcessingOwnsSlot
  <2> SUFFICES ASSUME OwnInv PROVE ProcessingOwnsSlot
    OBVIOUS
  <2>1. listed \subseteq Jobs
    BY OwnTyped DEF TypeOK
  <2> QED BY <2>1 DEF OwnInv, Owned, ProcessingOwnsSlot
<1> QED BY <1>1, <1>2, <1>3, PTL DEF Spec

-----------------------------------------------------------------------------
(* A run and its card.                                                     *)

(* What is left out for the rest of this module.                           *)
Plain == NoRepeatStop /\ ~RerunBusy

Waiting == {"absent", "analyzing", "ready", "queued"}

(* A card has one run at a time, and none while it waits.                  *)
OneRun == \A q, r \in Runs : rjob[q] = rjob[r] /\ rjob[q] # None => q = r
Resting == \A j \in Jobs : status[j] \in Waiting \/ j \in starting => ~Busy(j)

(* The encode in the slot compresses its card until it unwinds.            *)
Driving ==
  Encodes(act) /\ pc[act.run] \notin Unwinding => status[act.job] = "processing"

RunInv == OwnInv /\ OneRun /\ Resting /\ Driving

RunInvKept == (OneRun /\ Resting /\ Driving)'

LEMMA RunFacts ==
  ASSUME RunInv
  PROVE  /\ TypeOK /\ RunsHaveCards /\ None \notin Jobs
         /\ status \in [Jobs -> Status \cup {"absent"}]
         /\ pc \in [Runs -> Places] /\ rjob \in [Runs -> Jobs \cup {None}]
         /\ (Encodes(act) => act.run \in Runs /\ act.job \in Jobs /\ rjob[act.run] = act.job
                             /\ pc[act.run] # "free")
<1>1. TypeOK /\ RunsHaveCards
  BY OwnTyped DEF RunInv
<1>2. Encodes(act) => act.run \in Runs /\ act.job \in Jobs /\ rjob[act.run] = act.job
                      /\ pc[act.run] # "free"
  BY <1>1 DEF RunInv, OwnInv, ActHasRun, RunsHaveCards
<1> QED BY <1>1, <1>2, QueueAssumption DEF TypeOK

LEMMA RunCalm == ASSUME RunInv, CalmStep PROVE RunInvKept
<1>1. UNCHANGED <<status, rjob, pc, starting>>
  BY CalmSteps DEF Calm, runs
<1>2. Lesser(act, act')
  BY RunFacts, CalmAct, SameLesser
<1>3. OneRun'
  BY <1>1 DEF RunInv, OneRun
<1>4. Resting'
  BY <1>1 DEF RunInv, Resting, Busy
<1>5. Driving'
  BY <1>1, <1>2 DEF RunInv, Driving, Lesser
<1> QED BY <1>3, <1>4, <1>5 DEF RunInvKept

(* A card that comes to wait had no run, or waited before.                 *)
LEMMA CardsRest ==
  ASSUME Plain, RunInv, CardsOnly, NEW j \in Jobs, status'[j] \in Waiting \/ j \in starting'
  PROVE  ~Busy(j)
<1>1. /\ status \in [Jobs -> Status \cup {"absent"}]
      /\ (status[j] \in Waiting \/ j \in starting => ~Busy(j))
      /\ "analyzing" \in Waiting /\ "ready" \in Waiting /\ "queued" \in Waiting
      /\ "cancelled" \notin Waiting /\ "interrupted" \notin Waiting
  BY RunFacts DEF RunInv, Resting, Waiting
<1>2. \A k, s : s \notin Waiting /\ Moved(status, k, s)[j] \in Waiting => status[j] \in Waiting
  BY <1>1 DEF Moved
<1>3. ASSUME NEW k \in Jobs, Add(k) PROVE ~Busy(j)
  BY <1>1, <1>3 DEF Add
<1>4. ASSUME NEW k \in Jobs, NEW ok \in BOOLEAN, Probe(k, ok) PROVE ~Busy(j)
  BY <1>1, <1>4 DEF Probe, Moved, lists
<1>5. ASSUME NEW k \in Jobs, ProbeUnavailable(k) PROVE ~Busy(j)
  BY <1>1, <1>5 DEF ProbeUnavailable, AbandonBatch, Given
<1>6. ASSUME NEW k \in Jobs, Remove(k) PROVE ~Busy(j)
  BY <1>1, <1>6 DEF Remove, lists
<1>7. ASSUME NEW k \in Jobs, Cancel(k) PROVE ~Busy(j)
  <2>1. status' = Moved(status, k, "cancelled") /\ starting' = starting
    BY <1>7 DEF Cancel, CancelEffect
  <2> QED BY <1>1, <1>2, <2>1
<1>8. ASSUME NEW J \in SUBSET Jobs, StartBegin(J) PROVE ~Busy(j)
  BY <1>1, <1>8 DEF StartBegin, Plain
<1>9. CASE StartCommit
  BY <1>1, <1>9 DEF StartCommit
<1>10. CASE StartThrow
  BY <1>1, <1>10 DEF StartThrow, cards
<1>11. CASE CancelAll
  BY <1>1, <1>11 DEF CancelAll
<1>12. CASE HandleWake
  BY <1>1, <1>2, <1>12 DEF HandleWake, lists
<1> QED BY <1>3, <1>4, <1>5, <1>6, <1>7, <1>8, <1>9, <1>10, <1>11, <1>12 DEF CardsOnly

LEMMA RunCards == ASSUME Plain, RunInv, CardsOnly PROVE RunInvKept
<1>1. UNCHANGED <<pc, rjob>> /\ OwnStays
  BY RunsStay, CardsStay DEF RunInv
<1>2. OneRun'
  BY <1>1 DEF RunInv, OneRun
<1>3. Resting'
  BY <1>1, CardsRest DEF Resting, Busy
<1>4. Driving'
  BY <1>1, RunFacts DEF RunInv, Driving, OwnStays
<1> QED BY <1>2, <1>3, <1>4 DEF RunInvKept

LEMMA RunClaim ==
  ASSUME RunInv, NEW j \in Jobs, NEW r \in Runs, PumpClaim(j, r)
  PROVE  RunInvKept
<1>1. /\ Encodes(act') /\ act'.job = j /\ act'.run = r
      /\ rjob' = [rjob EXCEPT ![r] = j] /\ starting' = starting
      /\ status[j] = "queued" /\ status' = [status EXCEPT ![j] = "processing"]
      /\ j \in listed
  <2>1. starting' = starting
    BY DEF PumpClaim, lists
  <2>2. TypeOK
    BY RunFacts
  <2> QED BY <2>1, <2>2, ClaimAct DEF Encodes
<1>2. starting = {} /\ ~Busy(j)
  BY <1>1 DEF RunInv, OwnInv, BatchInv, StartAlone, NoneQueued, Resting, Waiting
<1>3. OneRun'
  BY <1>1, <1>2, RunFacts DEF RunInv, OneRun, Busy
<1>4. Resting'
  BY <1>1, <1>2, RunFacts DEF RunInv, Resting, Busy, Waiting
<1>5. Driving'
  BY <1>1, RunFacts DEF Driving
<1> QED BY <1>3, <1>4, <1>5 DEF RunInvKept

LEMMA RunResumed == ASSUME RunInv, NEW r \in Runs, Resumed(r) PROVE RunInvKept
<1>1. /\ SameEncode(act, act') /\ UNCHANGED rjob /\ rjob[r] \in Jobs
      /\ starting' = starting
  BY RunFacts, ResumedAct
  DEF Resumed, StopSeen, Fail, Spawn, Retry, Moves, RuntimeFailure, Complete, Abandon, lists
<1>2. OneRun'
  BY <1>1 DEF RunInv, OneRun
<1>3. Resting'
  <2>1. \A j \in Jobs : status'[j] \in Waiting => status[j] \in Waiting
    BY RunFacts, ResumedCards DEF Waiting, Settled
  <2> QED BY <1>1, <2>1 DEF RunInv, Resting, Busy
<1>4. Driving'
  <2> SUFFICES ASSUME Encodes(act'), pc'[act'.run] \notin Unwinding
               PROVE  status'[act'.job] = "processing"
    BY DEF Driving
  <2>1. /\ Encodes(act) /\ act'.run = act.run /\ act'.job = act.job
        /\ act.run \in Runs /\ act.job \in Jobs /\ rjob[act.run] = act.job
    BY <1>1, RunFacts DEF SameEncode
  <2>2. PICK place \in Places \ {"free"} :
          /\ pc' = [pc EXCEPT ![r] = place]
          /\ place \notin Unwinding => status' = status /\ pc[r] \notin Unwinding
    BY RunFacts, ResumedCards
  <2>3. CASE act.run = r
    BY <2>1, <2>2, <2>3, RunFacts DEF RunInv, Driving
  <2>4. CASE act.run # r
    <3>1. act.job # rjob[r]
      BY <1>1, <2>1, <2>4, RunFacts DEF RunInv, OneRun
    <3>2. status[act.job] = "processing"
      BY <2>1, <2>2, <2>4, RunFacts DEF RunInv, Driving
    <3> QED BY <2>1, <3>1, <3>2, RunFacts, ResumedCards
  <2> QED BY <2>3, <2>4
<1> QED BY <1>2, <1>3, <1>4 DEF RunInvKept

LEMMA RunEnd == ASSUME RunInv, NEW r \in Runs, End(r) PROVE RunInvKept
<1>1. /\ UNCHANGED <<status, starting>>
      /\ pc' = [pc EXCEPT ![r] = "free"] /\ rjob' = [rjob EXCEPT ![r] = None]
  BY DEF End, At, cards, lists
<1>2. Encodes(act') => SameEncode(act, act') /\ act.run # r
  BY RunFacts, EndAct
<1>3. OneRun'
  BY <1>1, RunFacts DEF RunInv, OneRun
<1>4. Resting'
  BY <1>1, RunFacts DEF RunInv, Resting, Busy
<1>5. Driving'
  BY <1>1, <1>2, RunFacts DEF RunInv, Driving, SameEncode
<1> QED BY <1>3, <1>4, <1>5 DEF RunInvKept

LEMMA ProcessCalm ==
  ASSUME NEW r \in Runs, Vanish(r) \/ \E result \in Results : Exit(r, result)
  PROVE  act' = act /\ UNCHANGED <<status, listed, out, prev, pc, rjob, starting>>
BY DEF Vanish, Exit, Becomes, Slot, cards, lists

LEMMA RunStepKept == Plain /\ RunInv /\ Next => RunInv'
<1> SUFFICES ASSUME Plain, RunInv, Next PROVE RunInv'
  OBVIOUS
<1>1. OwnInv'
  BY OwnStep DEF Plain, RunInv
<1>2. ASSUME NEW r \in Runs, Vanish(r) \/ \E result \in Results : Exit(r, result)
      PROVE  RunInvKept
  <2>1. act' = act /\ UNCHANGED <<status, pc, rjob, starting>>
    BY <1>2, ProcessCalm
  <2> QED BY <2>1 DEF RunInv, RunInvKept, OneRun, Resting, Driving, Busy
<1>3. RunInvKept
  BY <1>2, SortedSteps, RunCalm, RunCards, RunClaim, RunResumed, RunEnd
  DEF Plain, RunInv, OwnInv
<1> QED BY <1>1, <1>3 DEF RunInv, RunInvKept

LEMMA RunBegins == Init => RunInv
<1> SUFFICES ASSUME Init PROVE RunInv
  OBVIOUS
<1>1. OneRun /\ Resting /\ Driving
  BY QueueAssumption DEF Init, OneRun, Resting, Driving, Busy, Encodes, Idle
<1> QED BY <1>1, OwnBegins DEF RunInv

LEMMA RunStutter == RunInv /\ UNCHANGED vars => RunInv'
<1> SUFFICES ASSUME RunInv, UNCHANGED vars PROVE RunInv'
  OBVIOUS
<1>1. OwnInv'
  BY OwnStutter DEF RunInv
<1>2. (OneRun /\ Resting /\ Driving)'
  BY DEF RunInv, OneRun, Resting, Driving, Busy, vars, cards, slot, runs, lists
<1> QED BY <1>1, <1>2 DEF RunInv

LEMMA RunInvariant == Plain => (Spec => []RunInv)
<1> SUFFICES ASSUME Plain PROVE Spec => []RunInv
  OBVIOUS
<1>1. Init => RunInv
  BY RunBegins
<1>2. RunInv /\ [Next]_vars => RunInv'
  BY RunStutter, RunStepKept
<1> QED BY <1>1, <1>2, PTL DEF Spec

-----------------------------------------------------------------------------
(* What is on disk.                                                        *)

Alive == {"live", "refused", "vanished"}

(* An encoder lives only while its run waits for it.                       *)
Living == \A r \in Runs : child[r] \in Alive => pc[r] \in {"encode", "encode2"}

(* A run writes the output of its card.                                    *)
Writes == \A r \in Runs : writing[r] # NoSlot => pc[r] # "free" /\ writing[r] = out[rjob[r]]

(* A half-written file has a run that will finish it or remove it.         *)
Partials ==
  \A j \in Jobs, s \in Slots : file[j][s] = "partial" =>
    \E r \in Runs : /\ rjob[r] = j /\ pc[r] \in {"encode", "encode2"}
                    /\ child[r] # "zero" /\ writing[r] = s

(* The runs of a completed card only have to end.                          *)
Done == \A j \in Jobs : status[j] = "completed" =>
          /\ out[j] # NoSlot /\ file[j][out[j]] = "good"
          /\ \A r \in Runs : rjob[r] = j => pc[r] = "ending"

Unsettled == {"analyzing", "ready", "queued", "processing"}

(* PreviousKept, of every card and from the moment it is added.            *)
Previous ==
  \A j \in Jobs : prev[j] # NoSlot /\ status[j] \in Unsettled =>
    file[j][prev[j]] = "good" /\ out[j] # prev[j]

StartingReady == \A j \in starting : status[j] = "ready"

DiskInv == RunInv /\ Living /\ Writes /\ Partials /\ Done /\ Previous /\ StartingReady

DiskKept == (Living /\ Writes /\ Partials /\ Done /\ Previous /\ StartingReady)'

LEMMA DiskFacts ==
  ASSUME DiskInv
  PROVE  /\ TypeOK /\ RunsHaveCards /\ None \notin Jobs /\ NoSlot \notin Slots
         /\ status \in [Jobs -> Status \cup {"absent"}]
         /\ pc \in [Runs -> Places] /\ rjob \in [Runs -> Jobs \cup {None}]
         /\ child \in [Runs -> Processes] /\ writing \in [Runs -> Slots \cup {NoSlot}]
         /\ out \in [Jobs -> Slots \cup {NoSlot}] /\ prev \in [Jobs -> Slots \cup {NoSlot}]
         /\ file \in [Jobs -> [Slots -> {"none", "partial", "good"}]]
         /\ starting \subseteq Jobs
BY RunFacts, QueueAssumption DEF DiskInv, TypeOK, NoSlot

LEMMA DiskCalm == ASSUME DiskInv, CalmStep PROVE DiskKept
<1>1. UNCHANGED <<status, listed, out, prev, file, writing, pc, rjob, child, starting>>
  BY CalmSteps DEF Calm, disk, runs
<1> QED BY <1>1 DEF DiskInv, DiskKept, Living, Writes, Partials, Done, Previous, StartingReady

LEMMA NextOutputNew ==
  ASSUME NEW j \in Jobs, NEW reserved, FreeSlots(j, reserved) # {}
  PROVE  LET s == NextOutput(j, reserved)
         IN  s \in Slots /\ s \notin reserved /\ file[j][s] = "none"
BY NextOutputFree DEF FreeSlots

(* A name is chosen for a card without a run, a card is completed by no    *)
(* step of this kind, and a repeat aims beside the file it repeats.        *)
CardDisk(j) ==
  /\ out'[j] = out[j] \/ ~Busy(j)
  /\ status'[j] = "completed" => status[j] = "completed" /\ out'[j] = out[j]
  /\ prev'[j] # NoSlot /\ status'[j] \in Unsettled =>
       file[j][prev'[j]] = "good" /\ out'[j] # prev'[j]
  /\ j \in starting' => status'[j] = "ready"

LEMMA CardsDisk ==
  ASSUME Plain, DiskInv, CardsOnly, NEW j \in Jobs
  PROVE  CardDisk(j)
<1>1. /\ TypeOK /\ status \in [Jobs -> Status \cup {"absent"}]
      /\ out \in [Jobs -> Slots \cup {NoSlot}] /\ prev \in [Jobs -> Slots \cup {NoSlot}]
      /\ (prev[j] # NoSlot /\ status[j] \in Unsettled =>
            file[j][prev[j]] = "good" /\ out[j] # prev[j])
      /\ (status[j] = "completed" => out[j] # NoSlot /\ file[j][out[j]] = "good")
      /\ \A k \in starting : status[k] = "ready"
      /\ (status[j] \in Waiting \/ j \in starting => ~Busy(j))
  BY DiskFacts DEF DiskInv, Done, Previous, StartingReady, RunInv, Resting
<1>2. \A k, s : LET t == Moved(status, k, s)[j]
                IN  /\ t = status[j] \/ (t = s /\ t \in Edges(status[j]) /\ j = k)
                    /\ status[j] = "ready" /\ s # "queued" => t = "ready"
  BY <1>1 DEF Moved, Allowed, Edges
<1>3. ASSUME NEW k \in Jobs, Add(k) PROVE CardDisk(j)
  BY <1>1, <1>3 DEF Add, CardDisk
<1>4. ASSUME out' = out, prev' = prev, starting' = starting,
             status'[j] = "completed" => status[j] = "completed",
             status'[j] \in Unsettled => status[j] \in Unsettled,
             status[j] = "ready" => status'[j] = "ready"
      PROVE  CardDisk(j)
  BY <1>1, <1>4 DEF CardDisk
<1>5. ASSUME NEW k \in Jobs, NEW ok \in BOOLEAN, Probe(k, ok) PROVE CardDisk(j)
  BY <1>1, <1>2, <1>4, <1>5 DEF Probe, Unsettled, lists
<1>6. ASSUME NEW k \in Jobs, ProbeUnavailable(k) PROVE CardDisk(j)
  BY <1>1, <1>4, <1>6 DEF ProbeUnavailable, AbandonBatch, Given, Unsettled
<1>7. ASSUME NEW k \in Jobs, Remove(k) PROVE CardDisk(j)
  BY <1>4, <1>7 DEF Remove, lists
<1>8. ASSUME NEW k \in Jobs, Cancel(k) PROVE CardDisk(j)
  <2>1. /\ status' = Moved(status, k, "cancelled") /\ UNCHANGED <<out, starting>>
        /\ prev' = [prev EXCEPT ![k] = NoSlot] /\ prev[k] = NoSlot
    BY <1>8 DEF Cancel, CancelEffect
  <2>2. prev' = prev
    BY <1>1, <2>1
  <2> QED BY <1>2, <1>4, <2>1, <2>2 DEF Unsettled
<1>9. ASSUME NEW J \in SUBSET Jobs, StartBegin(J) PROVE CardDisk(j)
  <2> DEFINE kept == IF status[j] = "completed" THEN out[j] ELSE NoSlot
             again == j \in J /\ status[j] \in Settled
  <2>1. /\ status'[j] = IF again THEN "ready" ELSE status[j]
        /\ prev'[j] = IF again THEN kept ELSE prev[j]
        /\ out'[j] = IF again THEN NextOutput(j, {kept}) ELSE out[j]
        /\ j \in starting' => j \in J
        /\ j \in J => FreeSlots(j, {kept}) # {} /\ status[j] \in Settled \cup {"ready"}
        /\ again => ~Busy(j)
    BY <1>9 DEF StartBegin, Plain
  <2>2. CASE again
    <3>1. NextOutput(j, {kept}) # kept
      BY <2>1, <2>2, NextOutputNew
    <3> QED BY <1>1, <2>1, <2>2, <3>1 DEF CardDisk
  <2>3. CASE ~again
    BY <1>1, <2>1, <2>3 DEF CardDisk
  <2> QED BY <2>2, <2>3
<1>10. CASE StartCommit
  <2>1. /\ starting' = {} /\ prev' = prev
        /\ status'[j] = IF j \in starting THEN Moved(status, j, "queued")[j] ELSE status[j]
        /\ out'[j] = IF j \in starting THEN NextOutput(j, {}) ELSE out[j]
        /\ j \in starting => FreeSlots(j, {}) # {}
    BY <1>10 DEF StartCommit
  <2>2. CASE j \in starting
    <3>1. status[j] = "ready" /\ status'[j] # "completed"
      BY <1>1, <1>2, <2>1, <2>2
    <3>2. file[j][out'[j]] = "none"
      BY <2>1, <2>2, NextOutputNew
    <3> QED BY <1>1, <2>1, <2>2, <3>1, <3>2 DEF CardDisk, Unsettled
  <2>3. CASE j \notin starting
    BY <1>1, <2>1, <2>3 DEF CardDisk
  <2> QED BY <2>2, <2>3
<1>11. CASE StartThrow
  BY <1>1, <1>11 DEF StartThrow, CardDisk, cards
<1>12. CASE CancelAll
  BY <1>4, <1>12 DEF CancelAll, Unsettled
<1>13. CASE HandleWake
  BY <1>2, <1>4, <1>13 DEF HandleWake, Unsettled, lists
<1> QED BY <1>3, <1>5, <1>6, <1>7, <1>8, <1>9, <1>10, <1>11, <1>12, <1>13 DEF CardsOnly

LEMMA DiskCards == ASSUME Plain, DiskInv, TypeOK', CardsOnly PROVE DiskKept
<1>1. UNCHANGED <<pc, rjob, child, file, writing>>
  <2>1. UNCHANGED disk
    BY DEF CardsOnly, Add, Probe, ProbeUnavailable, Remove, Cancel, CancelEffect, StartBegin,
           StartCommit, StartThrow, CancelAll, HandleWake
  <2> QED BY <2>1, RunsStay DEF disk
<1>2. Living' /\ Partials'
  BY <1>1 DEF DiskInv, Living, Partials
<1>3. Writes'
  BY <1>1, CardsDisk, DiskFacts DEF DiskInv, Writes, CardDisk, Busy, RunsHaveCards
<1>4. Done' /\ Previous'
  BY <1>1, CardsDisk DEF DiskInv, Done, Previous, CardDisk
<1>5. StartingReady'
  BY CardsDisk DEF StartingReady, CardDisk, TypeOK
<1> QED BY <1>2, <1>3, <1>4, <1>5 DEF DiskKept

LEMMA DiskClaim ==
  ASSUME DiskInv, NEW j \in Jobs, NEW r \in Runs, PumpClaim(j, r)
  PROVE  DiskKept
<1>1. /\ UNCHANGED <<out, prev, file, writing, child, starting>>
      /\ pc[r] = "free" /\ status[j] = "queued"
      /\ pc' = [pc EXCEPT ![r] = "prepare"] /\ rjob' = [rjob EXCEPT ![r] = j]
      /\ status' = [status EXCEPT ![j] = "processing"]
  BY DiskFacts, ClaimAct DEF PumpClaim, disk, lists
<1>2. Living' /\ Writes' /\ Partials'
  BY <1>1, DiskFacts DEF DiskInv, Living, Writes, Partials
<1>3. Done' /\ Previous' /\ StartingReady'
  BY <1>1, DiskFacts DEF DiskInv, Done, Previous, StartingReady, Unsettled
<1> QED BY <1>2, <1>3 DEF DiskKept

(* A run whose encoder is gone goes on, and removes its output or leaves   *)
(* the disk alone; then it does not wait for a half-written file.          *)
LEMMA DiskLeaves ==
  ASSUME DiskInv, NEW r \in Runs, NEW place \in Places \ {"free"},
         pc[r] \notin {"free", "ending"}, child[r] \notin Alive, rjob[r] \in Jobs,
         pc' = [pc EXCEPT ![r] = place], UNCHANGED <<out, prev, rjob, child, starting>>,
         \/ Unlinked(r)
         \/ UNCHANGED disk /\ (pc[r] \notin {"encode", "encode2"} \/ child[r] = "zero"),
         \A k \in Jobs : \/ status'[k] = status[k]
                         \/ status[k] = "queued" /\ status'[k] = "ready"
                         \/ k = rjob[r] /\ status'[k] \in Settled,
         status'[rjob[r]] = "completed" =>
           /\ place = "ending" /\ UNCHANGED disk
           /\ out[rjob[r]] # NoSlot /\ file[rjob[r]][out[rjob[r]]] = "good"
  PROVE  DiskKept
<1> DEFINE j == rjob[r]
<1>1. /\ \A k \in Jobs, s \in Slots :
           \/ file'[k][s] = file[k][s] /\ ~(k = j /\ s = out[j] /\ Unlinked(r))
           \/ k = j /\ s = out[j] /\ file'[k][s] = "none" /\ Unlinked(r)
      /\ \A q \in Runs : \/ writing'[q] = writing[q]
                         \/ q = r /\ writing'[q] = NoSlot
  BY DiskFacts DEF Unlinked, disk, DiskInv, RunInv, OneRun
<1>2. Living'
  BY DiskFacts DEF DiskInv, Living
<1>3. Writes'
  BY <1>1, DiskFacts DEF DiskInv, Writes
<1>4. Partials'
  <2> SUFFICES ASSUME NEW k \in Jobs, NEW s \in Slots, file'[k][s] = "partial"
               PROVE  \E q \in Runs : /\ rjob'[q] = k /\ pc'[q] \in {"encode", "encode2"}
                                      /\ child'[q] # "zero" /\ writing'[q] = s
    BY DEF Partials
  <2>1. PICK q \in Runs : /\ rjob[q] = k /\ pc[q] \in {"encode", "encode2"}
                          /\ child[q] # "zero" /\ writing[q] = s
    BY <1>1 DEF DiskInv, Partials
  <2>2. q # r
    BY <1>1, <2>1, DiskFacts DEF DiskInv, Writes
  <2> QED BY <1>1, <2>1, <2>2, DiskFacts
<1>5. Done'
  <2> SUFFICES ASSUME NEW k \in Jobs, status'[k] = "completed"
               PROVE  /\ out'[k] # NoSlot /\ file'[k][out'[k]] = "good"
                      /\ \A q \in Runs : rjob'[q] = k => pc'[q] = "ending"
    BY DEF Done
  <2>1. CASE k = j
    <3>1. \A q \in Runs : rjob[q] = k => q = r
      BY <2>1, DiskFacts DEF DiskInv, RunInv, OneRun
    <3> QED BY <2>1, <3>1, DiskFacts DEF disk
  <2>2. CASE k # j
    <3>1. status[k] = "completed"
      BY <2>2
    <3> QED BY <1>1, <2>2, <3>1, DiskFacts DEF DiskInv, Done
  <2> QED BY <2>1, <2>2
<1>6. Previous'
  <2>1. \A k \in Jobs : status'[k] \in Unsettled => status[k] \in Unsettled
    BY DEF Unsettled, Settled
  <2> QED BY <1>1, <2>1, DiskFacts DEF DiskInv, Previous
<1>7. StartingReady'
  <2>1. j \notin starting
    BY DiskFacts DEF DiskInv, RunInv, Resting, Busy
  <2> QED BY <2>1, DiskFacts DEF DiskInv, StartingReady
<1> QED BY <1>2, <1>3, <1>4, <1>5, <1>6, <1>7 DEF DiskKept

(* A new encoder creates its file or writes none.                          *)
LEMMA DiskSpawn ==
  ASSUME DiskInv, NEW r \in Runs, NEW place \in {"encode", "encode2"},
         pc[r] \in {"prepare", "fallback"}, Spawn(r, place)
  PROVE  DiskKept
<1> DEFINE j == rjob[r]
           new == out[j] # NoSlot /\ file[j][out[j]] = "none"
<1>1. /\ UNCHANGED <<status, out, prev, rjob, starting>> /\ j \in Jobs
      /\ pc' = [pc EXCEPT ![r] = place]
      /\ child' = [child EXCEPT ![r] = IF new THEN "live" ELSE "refused"]
      /\ writing' = [writing EXCEPT ![r] = IF new THEN out[j] ELSE NoSlot]
  BY DiskFacts DEF Spawn, At, cards, lists, RunsHaveCards
<1>2. \A k \in Jobs, s \in Slots :
        file'[k][s] = IF k = j /\ new /\ s = out[j] THEN "partial" ELSE file[k][s]
  BY <1>1, DiskFacts DEF Spawn
<1> HIDE DEF new
<1>3. Living' /\ Writes'
  BY <1>1, DiskFacts DEF DiskInv, Living, Writes, Alive, new
<1>4. Partials'
  <2> SUFFICES ASSUME NEW k \in Jobs, NEW s \in Slots, file'[k][s] = "partial"
               PROVE  \E q \in Runs : /\ rjob'[q] = k /\ pc'[q] \in {"encode", "encode2"}
                                      /\ child'[q] # "zero" /\ writing'[q] = s
    BY DEF Partials
  <2>1. CASE k = j /\ new /\ s = out[j]
    BY <1>1, <2>1, DiskFacts
  <2>2. CASE ~(k = j /\ new /\ s = out[j])
    <3>1. PICK q \in Runs : /\ rjob[q] = k /\ pc[q] \in {"encode", "encode2"}
                            /\ child[q] # "zero" /\ writing[q] = s
      BY <1>2, <2>2 DEF DiskInv, Partials
    <3> QED BY <1>1, <3>1, DiskFacts
  <2> QED BY <2>1, <2>2
<1>5. Done'
  BY <1>1, <1>2, DiskFacts DEF DiskInv, Done
<1>6. Previous'
  <2> SUFFICES ASSUME NEW k \in Jobs, prev[k] # NoSlot, status[k] \in Unsettled
               PROVE  file'[k][prev[k]] = "good" /\ out[k] # prev[k]
    BY <1>1 DEF Previous
  <2>1. file[k][prev[k]] = "good" /\ out[k] # prev[k] /\ prev[k] \in Slots
    BY DiskFacts DEF DiskInv, Previous
  <2> QED BY <1>2, <2>1
<1>7. StartingReady'
  BY <1>1 DEF DiskInv, StartingReady
<1> QED BY <1>3, <1>4, <1>5, <1>6, <1>7 DEF DiskKept

LEMMA ResumesDead == ASSUME DiskInv, NEW r \in Runs, Resumes(r) PROVE child[r] \notin Alive
BY DEF DiskInv, Living, Resumes, Alive

LEMMA DiskResumed == ASSUME DiskInv, NEW r \in Runs, Resumed(r) PROVE DiskKept
<1>1. /\ pc[r] \notin {"free", "ending"} /\ rjob[r] \in Jobs
      /\ status \in [Jobs -> Status \cup {"absent"}]
      /\ {"failed", "interrupted", "completed"} \subseteq Settled
      /\ {"probe", "fallback", "ending", "abandon"} \subseteq Places \ {"free"}
  BY DiskFacts, ResumedAct DEF Resumed, Resumes, Abandon, Settled, Places
<1>0. ASSUME NEW s \in Settled, status' = Moved(status, rjob[r], s)
      PROVE  /\ \A k \in Jobs : \/ status'[k] = status[k]
                                \/ status[k] = "queued" /\ status'[k] = "ready"
                                \/ k = rjob[r] /\ status'[k] \in Settled
             /\ status'[rjob[r]] \in {s, status[rjob[r]]}
  BY <1>0, <1>1 DEF Moved
<1>2. status[rjob[r]] # "completed"
  BY <1>1 DEF DiskInv, Done
<1>3. CASE Resumes(r) /\ StopSeen(r)
  <2>1. child[r] \notin Alive
    BY <1>3, ResumesDead
  <2>2. /\ Unlinked(r) /\ status' = status /\ UNCHANGED <<out, prev, rjob, child, starting>>
        /\ pc' = [pc EXCEPT ![r] = "ending"]
    BY <1>3 DEF StopSeen, At, cards, lists
  <2> QED BY <1>1, <1>2, <2>1, <2>2, DiskLeaves
<1>4. CASE Resumes(r) /\ Fail(r)
  <2>1. child[r] \notin Alive
    BY <1>4, ResumesDead
  <2>2. /\ Unlinked(r) /\ UNCHANGED <<out, prev, rjob, child, starting>>
        /\ status' = Moved(status, rjob[r], "failed") /\ pc' = [pc EXCEPT ![r] = "ending"]
    BY <1>4 DEF Fail, At, lists
  <2> QED BY <1>0, <1>1, <1>2, <2>1, <2>2, DiskLeaves
<1>5. CASE \/ pc[r] = "prepare" /\ Spawn(r, "encode")
           \/ pc[r] = "fallback" /\ Spawn(r, "encode2")
  BY <1>5, DiskSpawn
<1>6. CASE pc[r] = "encode" /\ child[r] = "audio" /\ Retry(r)
  <2>1. /\ Unlinked(r) /\ status' = status /\ UNCHANGED <<out, prev, rjob, child, starting>>
        /\ pc' = [pc EXCEPT ![r] = "fallback"] /\ child[r] \notin Alive
    BY <1>6 DEF Retry, At, cards, lists, Alive
  <2> QED BY <1>1, <1>2, <2>1, DiskLeaves
<1>7. CASE pc[r] \in {"encode", "encode2"} /\ child[r] = "zero" /\ Moves(r, "probe")
  <2>1. /\ UNCHANGED disk /\ status' = status /\ UNCHANGED <<out, prev, rjob, child, starting>>
        /\ pc' = [pc EXCEPT ![r] = "probe"] /\ child[r] \notin Alive
    BY <1>7 DEF Moves, At, cards, lists, Alive
  <2> QED BY <1>1, <1>2, <1>7, <2>1, DiskLeaves
<1>8. CASE /\ \/ pc[r] \in {"encode", "encode2"} /\ child[r] = "nospawn"
              \/ pc[r] = "prepare"
           /\ RuntimeFailure(r, "encoding")
  <2>1. child[r] \notin Alive
    BY <1>8, ResumesDead DEF Resumes
  <2>2. /\ Unlinked(r) /\ UNCHANGED <<out, prev, rjob, child, starting>>
        /\ status' = Moved(status, rjob[r], "interrupted")
        /\ pc' = [pc EXCEPT ![r] = "abandon"]
    BY <1>8 DEF RuntimeFailure, At, lists
  <2> QED BY <1>0, <1>1, <1>2, <2>1, <2>2, DiskLeaves
<1>9. CASE pc[r] = "probe" /\ RuntimeFailure(r, "output-validation")
  <2>1. child[r] \notin Alive
    BY <1>9, ResumesDead DEF Resumes
  <2>2. /\ UNCHANGED disk /\ UNCHANGED <<out, prev, rjob, child, starting>>
        /\ status' = Moved(status, rjob[r], "interrupted")
        /\ pc' = [pc EXCEPT ![r] = "abandon"]
    BY <1>9 DEF RuntimeFailure, At, lists
  <2> QED BY <1>0, <1>1, <1>2, <1>9, <2>1, <2>2, DiskLeaves
<1>10. CASE /\ pc[r] = "probe" /\ out[rjob[r]] # NoSlot
            /\ file[rjob[r]][out[rjob[r]]] = "good" /\ Complete(r)
  <2>1. child[r] \notin Alive
    BY <1>10, ResumesDead DEF Resumes
  <2>2. /\ UNCHANGED disk /\ UNCHANGED <<out, prev, rjob, child, starting>>
        /\ status' = Moved(status, rjob[r], "completed")
        /\ pc' = [pc EXCEPT ![r] = "ending"]
    BY <1>10 DEF Complete, At, lists
  <2> QED BY <1>0, <1>1, <1>2, <1>10, <2>1, <2>2, DiskLeaves
<1>11. CASE Abandon(r)
  <2>1. /\ UNCHANGED disk /\ UNCHANGED <<out, prev, rjob, child, starting>>
        /\ pc[r] = "abandon" /\ pc' = [pc EXCEPT ![r] = "ending"]
        /\ \A k \in Jobs : \/ status'[k] = status[k]
                           \/ status[k] = "queued" /\ status'[k] = "ready"
    BY <1>11 DEF Abandon, AbandonBatch, Given, At, disk
  <2>2. child[r] \notin Alive
    BY <2>1 DEF DiskInv, Living
  <2> QED BY <1>1, <1>2, <2>1, <2>2, DiskLeaves
<1> QED BY <1>3, <1>4, <1>5, <1>6, <1>7, <1>8, <1>9, <1>10, <1>11 DEF Resumed

LEMMA DiskEnd == ASSUME DiskInv, NEW r \in Runs, End(r) PROVE DiskKept
<1>1. /\ UNCHANGED <<status, out, prev, file, starting>> /\ pc[r] = "ending"
      /\ pc' = [pc EXCEPT ![r] = "free"] /\ rjob' = [rjob EXCEPT ![r] = None]
      /\ child' = [child EXCEPT ![r] = "none"]
      /\ writing' = [writing EXCEPT ![r] = NoSlot]
  BY DEF End, At, cards, lists
<1>2. Living' /\ Writes'
  BY <1>1, DiskFacts DEF DiskInv, Living, Writes, Alive
<1>3. Partials'
  BY <1>1, DiskFacts DEF DiskInv, Partials
<1>4. Done' /\ Previous' /\ StartingReady'
  BY <1>1, DiskFacts DEF DiskInv, Done, Previous, StartingReady
<1> QED BY <1>2, <1>3, <1>4 DEF DiskKept

(* An encoder that exits has finished its file, left it half-written, or   *)
(* never written it; its run has yet to look.                              *)
LEMMA DiskExit ==
  ASSUME DiskInv, NEW r \in Runs, NEW result \in Results, Exit(r, result)
  PROVE  DiskKept
<1>1. /\ UNCHANGED <<status, out, prev, pc, rjob, starting, writing>>
      /\ child[r] \in Alive /\ pc[r] \in {"encode", "encode2"}
      /\ child' = [child EXCEPT ![r] = result]
  BY DEF Exit, cards, lists, Alive, DiskInv, Living
<1>2. \A k \in Jobs, s \in Slots :
        \/ file'[k][s] = file[k][s] /\ ~(k = rjob[r] /\ s = writing[r] /\ result = "zero")
        \/ k = rjob[r] /\ s = writing[r] /\ file'[k][s] \in {"good", "none"}
  BY DiskFacts DEF Exit
<1>3. rjob[r] \in Jobs
  BY <1>1, DiskFacts DEF RunsHaveCards
<1>4. Living' /\ Writes'
  BY <1>1, DiskFacts DEF DiskInv, Living, Writes
<1>5. Partials'
  <2> SUFFICES ASSUME NEW k \in Jobs, NEW s \in Slots, file'[k][s] = "partial"
               PROVE  \E q \in Runs : /\ rjob'[q] = k /\ pc'[q] \in {"encode", "encode2"}
                                      /\ child'[q] # "zero" /\ writing'[q] = s
    BY DEF Partials
  <2>1. PICK q \in Runs : /\ rjob[q] = k /\ pc[q] \in {"encode", "encode2"}
                          /\ child[q] # "zero" /\ writing[q] = s
    BY <1>2 DEF DiskInv, Partials
  <2>2. q = r => result # "zero"
    BY <1>2, <2>1
  <2> QED BY <1>1, <2>1, <2>2, DiskFacts
<1>6. Done'
  <2> SUFFICES ASSUME NEW k \in Jobs, status[k] = "completed"
               PROVE  /\ out[k] # NoSlot /\ file'[k][out[k]] = "good"
                      /\ \A q \in Runs : rjob[q] = k => pc[q] = "ending"
    BY <1>1 DEF Done
  <2>1. k # rjob[r]
    BY <1>1 DEF DiskInv, Done
  <2> QED BY <1>2, <2>1, DiskFacts DEF DiskInv, Done
<1>7. Previous'
  <2> SUFFICES ASSUME NEW k \in Jobs, prev[k] # NoSlot, status[k] \in Unsettled
               PROVE  file'[k][prev[k]] = "good" /\ out[k] # prev[k]
    BY <1>1 DEF Previous
  <2>1. file[k][prev[k]] = "good" /\ out[k] # prev[k] /\ prev[k] \in Slots
    BY DiskFacts DEF DiskInv, Previous
  <2>2. k = rjob[r] => writing[r] # prev[k]
    BY <2>1, DiskFacts DEF DiskInv, Writes
  <2> QED BY <1>2, <2>1, <2>2
<1>8. StartingReady'
  BY <1>1 DEF DiskInv, StartingReady
<1> QED BY <1>4, <1>5, <1>6, <1>7, <1>8 DEF DiskKept

LEMMA DiskVanish == ASSUME DiskInv, NEW r \in Runs, Vanish(r) PROVE DiskKept
<1>1. /\ UNCHANGED <<status, out, prev, pc, rjob, starting, file, writing>>
      /\ child[r] = "live" /\ child' = [child EXCEPT ![r] = "vanished"]
  BY DEF Vanish, cards, disk, lists
<1>2. Living' /\ Writes' /\ Partials'
  BY <1>1, DiskFacts DEF DiskInv, Living, Writes, Partials, Alive
<1>3. Done' /\ Previous' /\ StartingReady'
  BY <1>1 DEF DiskInv, Done, Previous, StartingReady
<1> QED BY <1>2, <1>3 DEF DiskKept

LEMMA DiskStep == Plain /\ DiskInv /\ Next => DiskInv'
<1> SUFFICES ASSUME Plain, DiskInv, Next PROVE DiskInv'
  OBVIOUS
<1>1. RunInv' /\ TypeOK'
  BY RunStepKept DEF DiskInv, RunInv, OwnInv, BatchInv, TypeInv
<1>2. DiskKept
  BY <1>1, SortedSteps, DiskCalm, DiskCards, DiskClaim, DiskResumed, DiskEnd, DiskExit,
     DiskVanish
  DEF Plain, DiskInv, RunInv, OwnInv
<1> QED BY <1>1, <1>2 DEF DiskInv, DiskKept

LEMMA DiskBegins == Init => DiskInv
<1> SUFFICES ASSUME Init PROVE DiskInv
  OBVIOUS
<1>1. Living /\ Writes /\ Partials /\ Done /\ Previous /\ StartingReady
  BY DEF Init, Living, Writes, Partials, Done, Previous, StartingReady, Alive, Unsettled
<1> QED BY <1>1, RunBegins DEF DiskInv

LEMMA DiskStutter == DiskInv /\ UNCHANGED vars => DiskInv'
<1> SUFFICES ASSUME DiskInv, UNCHANGED vars PROVE DiskInv'
  OBVIOUS
<1>1. RunInv'
  BY RunStutter DEF DiskInv
<1>2. (Living /\ Writes /\ Partials /\ Done /\ Previous /\ StartingReady)'
  BY DEF DiskInv, Living, Writes, Partials, Done, Previous, StartingReady, vars, cards, disk,
         runs, lists
<1> QED BY <1>1, <1>2 DEF DiskInv

LEMMA DiskInvariant == Plain => (Spec => []DiskInv)
<1> SUFFICES ASSUME Plain PROVE Spec => []DiskInv
  OBVIOUS
<1>1. DiskInv /\ [Next]_vars => DiskInv'
  BY DiskStutter, DiskStep
<1> QED BY <1>1, DiskBegins, PTL DEF Spec

(* When the run of a card is over there is no half-written file beside its *)
(* source, whichever of the stops, failures and outages ended it           *)
(* (queue.ts, pump and pauseForRuntimeFailure).  The last unlink removes   *)
(* the right name only because a card has one run and no output is chosen  *)
(* for a card that has one.                                                *)
THEOREM PartialsRemoved == Plain => (Spec => []NoPartialLeft)
<1> SUFFICES ASSUME Plain PROVE Spec => []NoPartialLeft
  OBVIOUS
<1>1. DiskInv => NoPartialLeft
  BY DEF DiskInv, Partials, NoPartialLeft, Busy
<1> QED BY <1>1, DiskInvariant, PTL

(* A card shown as completed has its result on disk, and nobody who could  *)
(* still remove it (queue.ts, completeJob).  A run that was stopped in the *)
(* middle of a repeat could: hence NoRepeatStop.                           *)
THEOREM ResultStays == Plain => (Spec => []CompletedHasResult)
<1> SUFFICES ASSUME Plain PROVE Spec => []CompletedHasResult
  OBVIOUS
<1>1. DiskInv => CompletedHasResult
  <2> SUFFICES ASSUME DiskInv PROVE CompletedHasResult
    OBVIOUS
  <2>1. listed \subseteq Jobs
    BY DiskFacts DEF TypeOK
  <2> QED BY <2>1 DEF DiskInv, Done, CompletedHasResult
<1> QED BY <1>1, DiskInvariant, PTL

(* The finished file a repeat will replace stays where it is, and the      *)
(* repeat aims beside it, although start() chooses the output a second     *)
(* time without reserving that name (queue.ts, resetForRerun and start).   *)
THEOREM RepeatSparesResult == Plain => (Spec => []PreviousKept)
<1> SUFFICES ASSUME Plain PROVE Spec => []PreviousKept
  OBVIOUS
<1>1. DiskInv => PreviousKept
  <2> SUFFICES ASSUME DiskInv PROVE PreviousKept
    OBVIOUS
  <2>1. listed \subseteq Jobs
    BY DiskFacts DEF TypeOK
  <2> QED BY <2>1 DEF DiskInv, Previous, PreviousKept, Unsettled
<1> QED BY <1>1, DiskInvariant, PTL

-----------------------------------------------------------------------------
(* The encoder in the slot: who holds it, and who can stop it.             *)

(* A hold is on the encoder of the encode in the slot, which lives, and it *)
(* is the hold of the handoff or the pause of the card.                    *)
Holding(S) ==
  \A h \in S.holds :
    /\ h[1] \in S.alive /\ Encodes(S.act) /\ S.act.child = h[1]
    /\ \/ h[2] = "estimate" /\ S.act.kind = "held" /\ S.handoff = "encoding"
       \/ h[2] = "paused" /\ S.pauseHold[S.act.job] = h[1]

(* An encoder that lives has the slot or was told to end.                  *)
Reaching(S) ==
  \A r \in S.alive : (Encodes(S.act) /\ S.act.child = r) \/ r \in S.terminating

Sound(S) == /\ S \in SlotType /\ Holding(S) /\ Reaching(S)
            /\ Encodes(S.act) => S.act.job \in Jobs
            /\ S.act.kind = "held" => S.act.child # None

(* The encode in the slot has no living encoder.                           *)
Childless(S) == Encodes(S.act) => S.act.child \notin S.alive

LEMMA SoundFields ==
  ASSUME NEW S, Sound(S), NEW T \in SlotType, T.act = S.act, T.holds = S.holds,
         T.pauseHold = S.pauseHold, T.terminating = S.terminating,
         T.handoff = S.handoff, T.alive = S.alive
  PROVE  Sound(T)
BY DEF Sound, Holding, Reaching

(* Without a living encoder nothing is held.                               *)
LEMMA ChildlessFree == ASSUME NEW S, Sound(S), Childless(S) PROVE S.holds = {}
BY DEF Sound, Holding, Childless

LEMMA HoldFields ==
  ASSUME NEW S \in SlotType, NEW r, NEW why \in Reasons
  PROVE  LET T == Hold(S, r, why)
         IN  /\ T \in SlotType /\ T.act = S.act /\ T.pauseHold = S.pauseHold
             /\ T.terminating = S.terminating /\ T.handoff = S.handoff /\ T.alive = S.alive
             /\ T.holds = S.holds \cup (IF r \in S.alive THEN {<<r, why>>} ELSE {})
BY DEF Hold, SlotType

LEMMA TakePauseHoldFields ==
  ASSUME NEW S \in SlotType, NEW j \in Jobs, NEW r \in Runs
  PROVE  LET T == TakePauseHold(S, j, r)
         IN  /\ T \in SlotType /\ T.act = S.act /\ T.pauseHold[j] = r
             /\ T.terminating = S.terminating /\ T.handoff = S.handoff /\ T.alive = S.alive
             /\ T.holds = S.holds \cup (IF r \in S.alive THEN {<<r, "paused">>} ELSE {})
<1> DEFINE H == Hold(S, r, "paused")
<1>1. /\ H \in SlotType /\ H.act = S.act /\ H.pauseHold = S.pauseHold
      /\ H.terminating = S.terminating /\ H.handoff = S.handoff /\ H.alive = S.alive
      /\ H.holds = S.holds \cup (IF r \in S.alive THEN {<<r, "paused">>} ELSE {})
  BY HoldFields DEF Reasons
<1>2. TakePauseHold(S, j, r) = [H EXCEPT !.pauseHold[j] = r]
  BY QueueAssumption DEF TakePauseHold
<1> HIDE DEF H
<1> QED BY <1>1, <1>2 DEF SlotType

LEMMA ReleasePauseHoldFields ==
  ASSUME NEW S \in SlotType, NEW j \in Jobs
  PROVE  LET T == ReleasePauseHold(S, j)
         IN  /\ T \in SlotType /\ T.act = S.act /\ T.pauseHold[j] = None
             /\ T.terminating = S.terminating /\ T.handoff = S.handoff /\ T.alive = S.alive
             /\ T.holds = S.holds \ {<<S.pauseHold[j], "paused">>}
BY DEF ReleasePauseHold, SlotType

(* setActivity(): it ends the pause of another encode, and moves the pause *)
(* of the same one to the next child.                                      *)
LEMMA SetActivityFields ==
  ASSUME NEW S \in SlotType, NEW next \in Activity,
         S.act.kind = "encoding" => S.act.job \in Jobs
  PROVE  LET T == SetActivity(S, next)
             j == S.act.job
             paused_ == S.act.kind = "encoding" /\ S.pauseHold[j] # None
             same == next.kind = "encoding" /\ next.job = j
         IN  /\ T \in SlotType /\ T.act = next
             /\ T.terminating = S.terminating /\ T.handoff = S.handoff /\ T.alive = S.alive
             /\ ~paused_ => T.holds = S.holds /\ T.pauseHold = S.pauseHold
             /\ paused_ /\ ~same => T.holds = S.holds \ {<<S.pauseHold[j], "paused">>}
             /\ paused_ /\ same /\ next.child # S.act.child /\ next.child \in Runs =>
                  /\ T.pauseHold[j] = next.child
                  /\ T.holds = (S.holds \ {<<S.pauseHold[j], "paused">>})
                       \cup (IF next.child \in S.alive THEN {<<next.child, "paused">>} ELSE {})
<1> DEFINE j == S.act.job
           R == ReleasePauseHold(S, j)
           K == TakePauseHold(R, j, next.child)
           P == PauseFollows(S, next)
           T == SetActivity(S, next)
<1>1. S.act.kind = "encoding" =>
        /\ R \in SlotType /\ R.act = S.act
        /\ R.terminating = S.terminating /\ R.handoff = S.handoff /\ R.alive = S.alive
        /\ R.holds = S.holds \ {<<S.pauseHold[j], "paused">>}
  BY ReleasePauseHoldFields
<1>2. S.act.kind = "encoding" /\ next.child \in Runs =>
        /\ K \in SlotType /\ K.act = S.act /\ K.pauseHold[j] = next.child
        /\ K.terminating = S.terminating /\ K.handoff = S.handoff /\ K.alive = S.alive
        /\ K.holds = (S.holds \ {<<S.pauseHold[j], "paused">>})
             \cup (IF next.child \in S.alive THEN {<<next.child, "paused">>} ELSE {})
  <2> HIDE DEF R
  <2> QED BY <1>1, TakePauseHoldFields
<1>3. next.child \in Runs \cup {None}
  BY DEF Activity
<1>4. next.child = None => K = R
  BY DEF TakePauseHold
<1>5. P = IF S.act.kind # "encoding" \/ S.pauseHold[j] = None THEN S
          ELSE IF ~(next.kind = "encoding" /\ next.job = j) THEN R
          ELSE IF next.child = S.act.child THEN S ELSE K
  BY DEF PauseFollows
<1>6. T = [P EXCEPT !.act = next, !.watchdog = @ \/ next.kind # "idle"]
  BY DEF SetActivity
<1>7. P \in SlotType
  BY PauseFollowsKeeps DEF Keeps
<1> HIDE DEF P, K, R
<1>8. /\ T.act = next /\ T.terminating = P.terminating /\ T.handoff = P.handoff
      /\ T.alive = P.alive /\ T.holds = P.holds /\ T.pauseHold = P.pauseHold
      /\ T \in SlotType
  BY <1>6, <1>7 DEF SlotType
<1>9. P.terminating = S.terminating /\ P.handoff = S.handoff /\ P.alive = S.alive
  BY <1>1, <1>2, <1>3, <1>4, <1>5
<1> HIDE DEF T, j
<1> QED BY <1>1, <1>2, <1>5, <1>8, <1>9 DEF T, j

(* An encode leaves the slot when nothing is held and every encoder that   *)
(* lives has been told to end; so does one without a living encoder.       *)
LEMMA FreedSound ==
  ASSUME NEW S \in SlotType, S.holds = {}, S.alive \subseteq S.terminating,
         S.act.kind = "encoding" => S.act.job \in Jobs, NEW next \in {Idle, Estimating}
  PROVE  LET T == SetActivity(S, next)
         IN  Sound(T) /\ T.act = next /\ T.alive = S.alive /\ T.handoff = S.handoff
<1> DEFINE T == SetActivity(S, next)
<1>1. next \in Activity /\ ~Encodes(next) /\ next.kind # "encoding" /\ next.kind # "held"
  BY IdleTyped DEF Encodes, Idle, Estimating
<1>2. /\ T \in SlotType /\ T.act = next /\ T.terminating = S.terminating
      /\ T.alive = S.alive /\ T.handoff = S.handoff /\ T.holds = {}
  <2> HIDE DEF T
  <2> QED BY <1>1, SetActivityFields DEF T
<1> HIDE DEF T
<1>3. Sound(T)
  BY <1>1, <1>2 DEF Sound, Holding, Reaching
<1> QED BY <1>2, <1>3 DEF T

LEMMA LeavesSound ==
  ASSUME NEW S, Sound(S), Childless(S), NEW next \in {Idle, Estimating}
  PROVE  LET T == SetActivity(S, next)
         IN  Sound(T) /\ T.act = next /\ T.alive = S.alive /\ T.handoff = S.handoff
<1>1. S.holds = {} /\ S.alive \subseteq S.terminating /\ S \in SlotType
      /\ (S.act.kind = "encoding" => S.act.job \in Jobs)
  BY ChildlessFree DEF Sound, Reaching, Childless, Encodes
<1> QED BY <1>1, FreedSound

LEMMA ClearStrandedSound ==
  ASSUME NEW S, Sound(S), Stranded(S) => Childless(S)
  PROVE  LET T == ClearStranded(S)
         IN  Sound(T) /\ T.alive = S.alive /\ T.handoff = S.handoff
             /\ (T = S \/ T.act = Idle)
BY LeavesSound DEF ClearStranded

LEMMA ReleasedSound ==
  ASSUME NEW S, Sound(S), NEW r, Encodes(S.act) /\ S.act.run = r => Childless(S)
  PROVE  Sound(Released(S, r)) /\ Released(S, r).alive = S.alive
BY LeavesSound DEF Released

(* The governor gives the encoder back after the estimates.                *)
LEMMA ReleaseEstimateHoldFields ==
  ASSUME NEW S \in SlotType, S.act.kind = "held"
  PROVE  LET T == ReleaseEstimateHold(S)
         IN  /\ T \in SlotType /\ SameEncode(S.act, T.act) /\ T.act.child = S.act.child
             /\ T.act.kind = "encoding"
             /\ T.terminating = S.terminating /\ T.handoff = S.handoff /\ T.alive = S.alive
             /\ T.pauseHold = S.pauseHold
             /\ T.holds = S.holds \ {<<S.act.child, "estimate">>}
<1> DEFINE A == [S.act EXCEPT !.kind = "encoding"]
           U == SetActivity(S, A)
           T == ReleaseEstimateHold(S)
<1>1. A \in Activity /\ A.kind = "encoding"
  BY DEF SlotType, Activity
<1>2. /\ U \in SlotType /\ U.terminating = S.terminating /\ U.handoff = S.handoff
      /\ U.alive = S.alive /\ U.holds = S.holds /\ U.pauseHold = S.pauseHold /\ U.act = A
  <2> HIDE DEF A
  <2> QED BY <1>1, SetActivityFields
<1>3. T = [U EXCEPT !.holds = @ \ {<<S.act.child, "estimate">>}]
  BY DEF ReleaseEstimateHold
<1>4. /\ T.terminating = S.terminating /\ T.handoff = S.handoff /\ T.alive = S.alive
      /\ T.pauseHold = S.pauseHold /\ T.act = A
      /\ T.holds = S.holds \ {<<S.act.child, "estimate">>}
  <2> HIDE DEF U, A
  <2> QED BY <1>2, <1>3 DEF SlotType
<1> HIDE DEF A
<1> QED BY <1>1, <1>4, ReleaseEstimateHoldKeeps, ReleaseEstimateHoldAct DEF Keeps

LEMMA ReleaseEstimateHoldSound ==
  ASSUME NEW S, Sound(S)
  PROVE  LET T == ReleaseEstimateHold(S)
         IN  /\ Sound(T) /\ T.alive = S.alive /\ T.handoff = S.handoff
             /\ SameEncode(S.act, T.act) /\ T.act.child = S.act.child
             /\ T.act.kind # "held" /\ \A h \in T.holds : h[2] # "estimate"
<1> DEFINE T == ReleaseEstimateHold(S)
<1>1. S \in SlotType
  BY DEF Sound
<1>2. CASE S.act.kind # "held"
  BY <1>1, <1>2 DEF ReleaseEstimateHold, Sound, Holding, SameEncode
<1>3. CASE S.act.kind = "held"
  <2>1. /\ T \in SlotType /\ SameEncode(S.act, T.act) /\ T.act.child = S.act.child
        /\ T.act.kind = "encoding"
        /\ T.terminating = S.terminating /\ T.handoff = S.handoff /\ T.alive = S.alive
        /\ T.pauseHold = S.pauseHold
        /\ T.holds = S.holds \ {<<S.act.child, "estimate">>}
    BY <1>1, <1>3, ReleaseEstimateHoldFields
  <2> HIDE DEF T
  <2>2. \A h \in S.holds : h = <<h[1], h[2]>>
    BY <1>1 DEF SlotType
  <2>3. \A h \in T.holds : h[2] # "estimate"
    BY <2>1, <2>2 DEF Sound, Holding
  <2>4. Holding(T) /\ Reaching(T)
    BY <1>3, <2>1, <2>3 DEF Sound, Holding, Reaching, SameEncode, Encodes
  <2>5. Sound(T)
    BY <2>1, <2>4 DEF Sound, SameEncode
  <2> QED BY <2>1, <2>3, <2>5 DEF T
<1> QED BY <1>2, <1>3

(* A stop releases the encode, tells its encoder to end, and frees the     *)
(* slot.                                                                   *)
LEMMA StopActiveEncodeSound ==
  ASSUME NEW S, Sound(S)
  PROVE  Sound(StopActiveEncode(S)) /\ StopActiveEncode(S).alive = S.alive
<1> DEFINE R == ReleaseEstimateHold(S)
           G == Signal(R, S.act.child)
           T == SetActivity(G, Idle)
           U == [T EXCEPT !.pumpDue = TRUE]
<1>1. CASE ~Encodes(S.act)
  BY <1>1 DEF StopActiveEncode
<1>2. CASE Encodes(S.act)
  <2>1. /\ Sound(R) /\ R \in SlotType /\ R.alive = S.alive /\ SameEncode(S.act, R.act)
        /\ R.act.child = S.act.child
    BY ReleaseEstimateHoldSound DEF Sound
  <2>2. /\ Encodes(R.act) /\ R.act.job \in Jobs /\ R.alive \subseteq Runs
        /\ R.holds \subseteq Runs \X Reasons /\ R.terminating \subseteq Runs /\ None \notin Runs
    BY <1>2, <2>1, QueueAssumption DEF Sound, SameEncode, SlotType
  <2>3. G \in SlotType
    <3> HIDE DEF R
    <3> QED BY <2>1, SignalKeeps DEF Keeps
  <2>4. G.act = R.act /\ G.alive = R.alive /\ G.holds = {} /\ G.alive \subseteq G.terminating
    <3> HIDE DEF R
    <3>1. CASE S.act.child = None
      <4>1. G = R
        BY <3>1 DEF Signal
      <4>2. R.holds = {} /\ R.alive \subseteq R.terminating
        BY <2>1, <2>2, <3>1 DEF Sound, Holding, Reaching
      <4> QED BY <4>1, <4>2
    <3>2. CASE S.act.child # None
      <4>1. /\ G.act = R.act /\ G.alive = R.alive
            /\ G.holds = {h \in R.holds : h[1] # S.act.child}
            /\ G.terminating = R.terminating \cup ({S.act.child} \cap R.alive)
        BY <2>1, <3>2 DEF Signal, SlotType
      <4>2. G.holds = {}
        BY <2>1, <4>1 DEF Sound, Holding
      <4>3. G.alive \subseteq G.terminating
        BY <2>1, <4>1 DEF Sound, Reaching
      <4> QED BY <4>1, <4>2, <4>3
    <3> QED BY <3>1, <3>2
  <2>5. Sound(T) /\ T.alive = S.alive
    <3> HIDE DEF G, R
    <3> QED BY <2>1, <2>2, <2>3, <2>4, FreedSound
  <2>6. Sound(U) /\ U.alive = S.alive
    <3> HIDE DEF T
    <3>1. U \in SlotType /\ U.act = T.act /\ U.holds = T.holds /\ U.pauseHold = T.pauseHold
          /\ U.terminating = T.terminating /\ U.handoff = T.handoff /\ U.alive = T.alive
      BY <2>5 DEF Sound, SlotType
    <3> HIDE DEF U
    <3> QED BY <2>5, <3>1, SoundFields
  <2>7. StopActiveEncode(S) = U
    BY <1>2 DEF StopActiveEncode
  <2> HIDE DEF U
  <2> QED BY <2>6, <2>7
<1> QED BY <1>1, <1>2

(* The handoff claims a free slot, or has a living encoder held.           *)
LEMMA HandoffSound ==
  ASSUME NEW S, Sound(S), NEW pr
  PROVE  Sound(Handoff(S, pr)) /\ Handoff(S, pr).alive = S.alive
<1> DEFINE c == S.act.child
           A == [S.act EXCEPT !.kind = "held"]
           H == Hold(S, c, "estimate")
           held == SetActivity(H, A)
           F == [held EXCEPT !.handoff = "encoding"]
           R == ReleaseEstimateHold(held)
           E == [S EXCEPT !.act = Estimating, !.handoff = "idle"]
           P == [S EXCEPT !.pumpDue = TRUE]
<1>1. S \in SlotType
  BY DEF Sound
<1>2. \/ Handoff(S, pr) = S \/ Handoff(S, pr) = P
      \/ S.act.kind = "idle" /\ Handoff(S, pr) = E
      \/ S.act.kind = "encoding" /\ c \in S.alive
           /\ (Handoff(S, pr) = F \/ Handoff(S, pr) = R)
  BY DEF Handoff
<1>3. Sound(P) /\ P.alive = S.alive
  <2>1. P \in SlotType /\ P.act = S.act /\ P.holds = S.holds /\ P.pauseHold = S.pauseHold
        /\ P.terminating = S.terminating /\ P.handoff = S.handoff /\ P.alive = S.alive
    BY <1>1 DEF SlotType
  <2> HIDE DEF P
  <2> QED BY <2>1, SoundFields
<1>4. ASSUME S.act.kind = "idle" PROVE Sound(E) /\ E.alive = S.alive
  <2>1. ~Encodes(S.act) /\ ~Encodes(Estimating) /\ Estimating.kind # "held"
    BY <1>4 DEF Encodes, Estimating, Idle
  <2>2. /\ E \in SlotType /\ E.act = Estimating /\ E.holds = S.holds
        /\ E.terminating = S.terminating /\ E.alive = S.alive
    BY <1>1, IdleTyped DEF SlotType
  <2> HIDE DEF E
  <2> QED BY <2>1, <2>2 DEF Sound, Holding, Reaching
<1>5. ASSUME S.act.kind = "encoding", c \in S.alive
      PROVE  Sound(F) /\ F.alive = S.alive /\ Sound(R) /\ R.alive = S.alive
  <2>1. /\ A \in Activity /\ A.kind = "held" /\ A.job = S.act.job /\ A.child = c
        /\ S.act.job \in Jobs /\ c # None
    BY <1>1, <1>5, QueueAssumption DEF SlotType, Activity, Sound, Encodes
  <2>2. /\ H \in SlotType /\ H.act = S.act /\ H.pauseHold = S.pauseHold
        /\ H.terminating = S.terminating /\ H.alive = S.alive
        /\ H.holds = S.holds \cup {<<c, "estimate">>}
    BY <1>1, <1>5, HoldFields DEF Reasons
  <2>3. /\ held \in SlotType /\ held.act = A /\ held.terminating = S.terminating
        /\ held.alive = S.alive
        /\ \/ S.pauseHold[S.act.job] = None /\ held.holds = S.holds \cup {<<c, "estimate">>}
           \/ held.holds = (S.holds \cup {<<c, "estimate">>})
                             \ {<<S.pauseHold[S.act.job], "paused">>}
    <3> HIDE DEF A, H
    <3> QED BY <1>5, <2>1, <2>2, SetActivityFields
  <2>4. held.holds \subseteq {<<c, "estimate">>}
    <3>1. \A h \in S.holds : /\ h = <<h[1], h[2]>> /\ h[1] \in Runs /\ h[2] = "paused"
                             /\ S.pauseHold[S.act.job] = h[1]
      BY <1>1, <1>5 DEF SlotType, Sound, Holding
    <3> HIDE DEF held
    <3> QED BY <2>3, <3>1, QueueAssumption
  <2> HIDE DEF held, A
  <2>5. /\ F \in SlotType /\ F.act = A /\ F.holds = held.holds /\ F.handoff = "encoding"
        /\ F.terminating = S.terminating /\ F.alive = S.alive
    BY <2>3 DEF SlotType
  <2>6. Sound(F)
    <3> HIDE DEF F
    <3> QED BY <1>5, <2>1, <2>4, <2>5 DEF Sound, Holding, Reaching, Encodes
  <2>7. /\ R \in SlotType /\ SameEncode(A, R.act) /\ R.act.child = c /\ R.act.kind = "encoding"
        /\ R.terminating = S.terminating /\ R.alive = S.alive
        /\ R.holds = held.holds \ {<<c, "estimate">>}
    BY <2>1, <2>3, ReleaseEstimateHoldFields
  <2>8. Sound(R)
    <3>1. R.holds = {} /\ Encodes(R.act) /\ R.act.job \in Jobs
      BY <2>1, <2>4, <2>7 DEF SameEncode, Encodes
    <3> HIDE DEF R
    <3> QED BY <1>5, <2>1, <2>7, <3>1 DEF Sound, Holding, Reaching, Encodes
  <2> QED BY <2>5, <2>6, <2>7, <2>8
<1> HIDE DEF F, R, E, P
<1> QED BY <1>2, <1>3, <1>4, <1>5

(* A person pauses the encode in the slot, or lets it go on.               *)
LEMMA PauseSound ==
  ASSUME NEW S, Sound(S), S.act.kind = "encoding", S.act.child # None
  PROVE  LET R == ReleasePauseHold(S, S.act.job)
             T == TakePauseHold(S, S.act.job, S.act.child)
         IN  Sound(R) /\ R.alive = S.alive /\ Sound(T) /\ T.alive = S.alive
<1> DEFINE j == S.act.job
           c == S.act.child
           R == ReleasePauseHold(S, j)
           T == TakePauseHold(S, j, c)
<1>1. S \in SlotType /\ j \in Jobs /\ c \in Runs
  BY DEF Sound, SlotType, Activity, Encodes
<1>2. \A h \in S.holds : /\ h = <<h[1], h[2]>> /\ h[1] = c /\ c \in S.alive
                         /\ h[2] = "paused" /\ S.pauseHold[j] = c
  BY <1>1 DEF SlotType, Sound, Holding
<1>3. Sound(R) /\ R.alive = S.alive
  <2>1. /\ R \in SlotType /\ R.act = S.act /\ R.terminating = S.terminating
        /\ R.alive = S.alive /\ R.holds = S.holds \ {<<S.pauseHold[j], "paused">>}
    BY <1>1, ReleasePauseHoldFields
  <2> HIDE DEF R
  <2>2. R.holds = {}
    BY <1>2, <2>1
  <2> QED BY <2>1, <2>2 DEF Sound, Holding, Reaching
<1>4. Sound(T) /\ T.alive = S.alive
  <2>1. /\ T \in SlotType /\ T.act = S.act /\ T.pauseHold[j] = c
        /\ T.terminating = S.terminating /\ T.alive = S.alive
        /\ T.holds = S.holds \cup (IF c \in S.alive THEN {<<c, "paused">>} ELSE {})
    BY <1>1, TakePauseHoldFields
  <2> HIDE DEF T
  <2>2. \A h \in T.holds : h[1] = c /\ c \in S.alive /\ h[2] = "paused"
    BY <1>2, <2>1
  <2> QED BY <2>1, <2>2 DEF Sound, Holding, Reaching, Encodes
<1> QED BY <1>3, <1>4

-----------------------------------------------------------------------------
(* The slot along the steps.                                               *)

(* Nothing is tried a second time.                                         *)
NoSecond == \A r \in Runs : pc[r] \notin {"fallback", "encode2"} /\ child[r] # "audio"

(* The encoder in the slot is that of the run in the slot.                 *)
ChildOfRun ==
  Encodes(act) => /\ act.child \in {None, act.run}
                  /\ pc[act.run] = "prepare" => act.child = None
                  /\ pc[act.run] = "encode" => act.child = act.run

Preparing == \A r \in Runs : pc[r] = "prepare" => status[rjob[r]] \in {"processing", "cancelled"}

SlotInv == DiskInv /\ NoSecond /\ ChildOfRun /\ Preparing /\ Sound(Slot)

LEMMA SlotFacts ==
  ASSUME SlotInv
  PROVE  /\ Slot \in SlotType /\ Slot.act = act /\ Slot.holds = holds
         /\ Slot.pauseHold = pauseHold /\ Slot.terminating = terminating
         /\ Slot.handoff = handoff
         /\ Slot.alive = {r \in Runs : child[r] \in {"live", "refused"}}
         /\ TypeOK /\ RunInv /\ None \notin Runs
BY DiskFacts, SlotTyped, QueueAssumption DEF SlotInv, DiskInv, Slot

LEMMA BecomesSound ==
  ASSUME NEW S, Sound(S), Becomes(S),
         S.alive = {r \in Runs : child'[r] \in {"live", "refused"}}
  PROVE  Sound(Slot)'
<1>1. /\ Slot'.act = S.act /\ Slot'.holds = S.holds /\ Slot'.pauseHold = S.pauseHold
      /\ Slot'.terminating = S.terminating /\ Slot'.handoff = S.handoff
      /\ Slot'.alive = S.alive
  BY DEF Becomes, Slot
<1>2. (Slot \in SlotType)'
  BY DEF Becomes, Slot, Sound, SlotType
<1> QED BY <1>1, <1>2 DEF Sound, Holding, Reaching

(* The watchdog and the pump that is due are nobody's encoder.             *)
LEMMA SameSlotSound ==
  ASSUME SlotInv, TypeOK', UNCHANGED <<act, holds, pauseHold, terminating, handoff>>,
         \A r \in Runs : child'[r] \in {"live", "refused"} <=> child[r] \in {"live", "refused"}
  PROVE  Sound(Slot)'
<1>1. /\ Slot'.act = Slot.act /\ Slot'.holds = Slot.holds /\ Slot'.pauseHold = Slot.pauseHold
      /\ Slot'.terminating = Slot.terminating /\ Slot'.handoff = Slot.handoff
      /\ Slot'.alive = Slot.alive
  BY DEF Slot
<1>2. (Slot \in SlotType)'
  BY DEF Slot, SlotType, TypeOK
<1> QED BY <1>1, <1>2 DEF SlotInv, Sound, Holding, Reaching

(* An encode is stranded only once its run unwinds, its encoder gone.      *)
LEMMA StrandedChildless == ASSUME SlotInv PROVE Stranded(Slot) => Childless(Slot)
<1> SUFFICES ASSUME Stranded(Slot) PROVE act.child \notin Slot.alive
  BY SlotFacts DEF Childless
<1>1. Encodes(act) /\ act.run \in Runs /\ act.job \in Jobs
  BY RunFacts, SlotFacts DEF Stranded
<1>2. pc[act.run] \in Unwinding
  <2>1. act.job \notin listed \/ status[act.job] \in Settled
    BY SlotFacts DEF Stranded
  <2>2. status[act.job] # "processing"
    BY <1>1, <2>1, SlotFacts DEF RunInv, OwnInv, Owned, Settled
  <2> QED BY <1>1, <2>2, SlotFacts DEF RunInv, Driving
<1>3. child[act.run] \notin {"live", "refused"}
  BY <1>1, <1>2 DEF SlotInv, DiskInv, Living, Alive, Unwinding
<1> QED BY <1>1, <1>3, SlotFacts DEF SlotInv, ChildOfRun

LEMMA ClearedSound ==
  ASSUME SlotInv
  PROVE  LET C == ClearStranded(Slot)
         IN  /\ Sound(C) /\ C \in SlotType /\ C.alive = Slot.alive /\ C.handoff = Slot.handoff
             /\ C = Slot \/ C.act = Idle
<1>1. Sound(ClearStranded(Slot)) /\ ClearStranded(Slot).alive = Slot.alive
      /\ ClearStranded(Slot).handoff = Slot.handoff
      /\ (ClearStranded(Slot) = Slot \/ ClearStranded(Slot).act = Idle)
  BY StrandedChildless, ClearStrandedSound DEF SlotInv
<1> QED BY <1>1 DEF Sound

LEMMA CalmSound == ASSUME SlotInv, TypeOK', CalmStep PROVE Sound(Slot)'
<1>1. child' = child /\ Slot.alive = {r \in Runs : child'[r] \in {"live", "refused"}}
  BY CalmSteps, SlotFacts DEF Calm, runs
<1>2. CASE \/ PumpSkip \/ PumpDrained \/ ToolsLost \/ ToolsBack
           \/ \E j \in Jobs : CancelPrioritized(j) \/ Measure(j)
  <2>1. UNCHANGED <<act, holds, pauseHold, terminating, handoff>>
    BY <1>2 DEF PumpSkip, PumpDrained, ToolsLost, ToolsBack, CancelPrioritized, Measure,
                Becomes, Slot, slot
  <2> QED BY <1>1, <2>1, SameSlotSound
<1>3. ASSUME NEW j \in Jobs, NEW on \in BOOLEAN, SetPaused(j, on) PROVE Sound(Slot)'
  <2> DEFINE R == ReleasePauseHold(Slot, act.job)
             T == TakePauseHold(Slot, act.job, act.child)
  <2>1. Sound(R) /\ R.alive = Slot.alive /\ Sound(T) /\ T.alive = Slot.alive
    BY <1>3, SlotFacts, PauseSound DEF SlotInv, SetPaused
  <2>2. Becomes(R) \/ Becomes(T) \/ Becomes(Slot)
    BY <1>3 DEF SetPaused
  <2> HIDE DEF R, T
  <2> QED BY <1>1, <2>1, <2>2, BecomesSound DEF SlotInv
<1>4. ASSUME NEW j \in Jobs, Prioritize(j) PROVE Sound(Slot)'
  <2> DEFINE C == ClearStranded(Slot)
             H == Handoff(C, [prio EXCEPT ![j] = "asked"])
  <2>1. Sound(C) /\ C.alive = Slot.alive
    BY ClearedSound
  <2>2. Sound(H) /\ H.alive = C.alive
    <3> HIDE DEF C
    <3> QED BY <2>1, HandoffSound
  <2>3. Becomes(H)
    BY <1>4 DEF Prioritize
  <2> HIDE DEF H
  <2> QED BY <1>1, <2>1, <2>2, <2>3, BecomesSound
<1>5. CASE HandoffEnd
  <2> DEFINE R == ReleaseEstimateHold(Slot)
             T == IF R.act.kind = "estimating" THEN [R EXCEPT !.act = Idle] ELSE R
             U == [T EXCEPT !.handoff = "none",
                            !.pumpDue = @ \/ (handoff = "idle" /\ T.act.kind = "idle")]
  <2>1. /\ Sound(R) /\ R \in SlotType /\ R.alive = Slot.alive /\ R.act.kind # "held"
        /\ \A h \in R.holds : h[2] # "estimate"
    BY ReleaseEstimateHoldSound DEF SlotInv, Sound
  <2>2. Sound(T) /\ T \in SlotType /\ T.alive = R.alive /\ T.holds = R.holds
    <3> HIDE DEF R
    <3>1. CASE R.act.kind = "estimating"
      <4>1. /\ T \in SlotType /\ T.act = Idle /\ T.holds = R.holds /\ T.alive = R.alive
            /\ T.terminating = R.terminating
        BY <2>1, <3>1, IdleTyped DEF SlotType
      <4>2. ~Encodes(R.act) /\ ~Encodes(Idle) /\ Idle.kind # "held"
        BY <3>1 DEF Encodes, Idle
      <4> HIDE DEF T
      <4> QED BY <2>1, <4>1, <4>2 DEF Sound, Holding, Reaching
    <3> QED BY <2>1, <3>1
  <2>3. /\ U \in SlotType /\ U.act = T.act /\ U.holds = T.holds /\ U.pauseHold = T.pauseHold
        /\ U.terminating = T.terminating /\ U.alive = T.alive
    <3> HIDE DEF T
    <3> QED BY <2>2 DEF SlotType
  <2>4. Becomes(U)
    BY <1>5 DEF HandoffEnd
  <2> HIDE DEF R, T, U
  <2>5. Sound(U)
    BY <2>1, <2>2, <2>3 DEF Sound, Holding, Reaching
  <2> QED BY <1>1, <2>1, <2>2, <2>3, <2>4, <2>5, BecomesSound
<1>6. CASE WatchdogTick \/ Read \/ RequestUpdateDrain
  <2> DEFINE C == ClearStranded(Slot)
             W == [C EXCEPT !.watchdog = ~Over(C),
                            !.pumpDue = @ \/ (C.act.kind = "idle" /\ ~Over(C))]
  <2>1. Sound(C) /\ C \in SlotType /\ C.alive = Slot.alive
    BY ClearedSound
  <2>2. Becomes(C) \/ Becomes(W)
    BY <1>6 DEF WatchdogTick, Read, RequestUpdateDrain
  <2>3. Sound(W) /\ W.alive = Slot.alive
    <3> HIDE DEF C
    <3>0. Over(C) \in BOOLEAN
      BY DEF Over
    <3>1. /\ W \in SlotType /\ W.act = C.act /\ W.holds = C.holds /\ W.pauseHold = C.pauseHold
          /\ W.terminating = C.terminating /\ W.handoff = C.handoff /\ W.alive = C.alive
      BY <2>1, <3>0 DEF SlotType
    <3> HIDE DEF W
    <3> QED BY <2>1, <3>1, SoundFields
  <2> HIDE DEF C, W
  <2> QED BY <1>1, <2>1, <2>2, <2>3, BecomesSound
<1> QED BY <1>2, <1>3, <1>4, <1>5, <1>6 DEF CalmStep

LEMMA CardsSound == ASSUME SlotInv, TypeOK', CardsOnly PROVE Sound(Slot)'
<1>1. child' = child /\ Slot.alive = {r \in Runs : child'[r] \in {"live", "refused"}}
  BY RunsStay, SlotFacts
<1>2. CASE \/ \E j \in Jobs : \/ Add(j) \/ \E ok \in BOOLEAN : Probe(j, ok)
                              \/ ProbeUnavailable(j) \/ Remove(j)
           \/ StartCommit \/ StartThrow
  <2>1. UNCHANGED <<act, holds, pauseHold, terminating, handoff>>
    BY <1>2 DEF Add, Probe, ProbeUnavailable, AbandonBatch, Remove, StartCommit, StartThrow,
                Becomes, Slot, slot
  <2> QED BY <1>1, <2>1, SameSlotSound
<1>3. ASSUME NEW J \in SUBSET Jobs, StartBegin(J) PROVE Sound(Slot)'
  <2> DEFINE C == ClearStranded(Slot)
  <2>1. Sound(C) /\ C.alive = Slot.alive /\ Becomes(C)
    BY <1>3, ClearedSound DEF StartBegin
  <2> HIDE DEF C
  <2> QED BY <1>1, <2>1, BecomesSound
<1> DEFINE P == StopActiveEncode(Slot)
<1>4. Sound(P) /\ P.alive = Slot.alive /\ P \in SlotType /\ Sound(Slot)
  BY StopActiveEncodeSound DEF SlotInv, Sound
<1>5. ASSUME NEW j \in Jobs, Cancel(j) PROVE Sound(Slot)'
  <2>1. Becomes(P) \/ Becomes(Slot)
    BY <1>5 DEF Cancel, CancelEffect
  <2> HIDE DEF P
  <2> QED BY <1>1, <1>4, <2>1, BecomesSound
<1>6. CASE CancelAll
  <2> DEFINE stop == {j \in listed : status[j] \in {"queued", "processing"} /\ prev[j] = NoSlot}
             S == IF \E j \in stop : status[j] = "processing" THEN P ELSE Slot
             T == ClearStranded(S)
             drained == /\ batch = "open" /\ T.act.kind = "idle"
                        /\ \A j \in (listed \cap inBatch) \ stop : status[j] # "queued"
             U == [T EXCEPT !.watchdog = @ /\ ~drained]
  <2>1. Becomes(U)
    BY <1>6 DEF CancelAll
  <2>2. Sound(S) /\ S.alive = Slot.alive
    <3> HIDE DEF P
    <3> QED BY <1>4
  <2>3. Stranded(S) => Childless(S)
    <3>1. Stranded(P) => Childless(P)
      BY StopActiveEncodeAct, SlotFacts DEF Stranded
    <3> HIDE DEF P
    <3> QED BY <3>1, StrandedChildless
  <2>4. Sound(T) /\ T.alive = S.alive /\ T \in SlotType
    <3> HIDE DEF S
    <3>1. Sound(T) /\ T.alive = S.alive
      BY <2>2, <2>3, ClearStrandedSound
    <3> QED BY <3>1 DEF Sound
  <2>5. Sound(U) /\ U.alive = T.alive
    <3> HIDE DEF T
    <3>1. /\ U \in SlotType /\ U.act = T.act /\ U.holds = T.holds /\ U.pauseHold = T.pauseHold
          /\ U.terminating = T.terminating /\ U.handoff = T.handoff /\ U.alive = T.alive
      BY <2>4 DEF SlotType
    <3> HIDE DEF U
    <3> QED BY <2>4, <3>1, SoundFields
  <2> HIDE DEF S, T, U
  <2> QED BY <1>1, <2>1, <2>2, <2>4, <2>5, BecomesSound
<1>7. CASE HandleWake
  <2> DEFINE R == ReleaseEstimateHold(Slot)
             T == SetActivity(R, Idle)
             U == [T EXCEPT !.pumpDue = TRUE]
  <2>1. Sound(R) /\ R.alive = Slot.alive /\ R.act.child = act.child
    BY <1>4, SlotFacts, ReleaseEstimateHoldSound
  <2>2. Childless(R)
    BY <1>7, <2>1, SlotFacts DEF HandleWake, Childless
  <2>3. Sound(T) /\ T.alive = R.alive /\ T \in SlotType
    <3> HIDE DEF R
    <3>1. Sound(T) /\ T.alive = R.alive
      BY <2>1, <2>2, LeavesSound
    <3> QED BY <3>1 DEF Sound
  <2>4. Sound(U) /\ U.alive = T.alive
    <3> HIDE DEF T
    <3>1. /\ U \in SlotType /\ U.act = T.act /\ U.holds = T.holds /\ U.pauseHold = T.pauseHold
          /\ U.terminating = T.terminating /\ U.handoff = T.handoff /\ U.alive = T.alive
      BY <2>3 DEF SlotType
    <3> HIDE DEF U
    <3> QED BY <2>3, <3>1, SoundFields
  <2>5. Becomes(U)
    BY <1>7 DEF HandleWake
  <2> HIDE DEF R, T, U
  <2> QED BY <1>1, <2>1, <2>3, <2>4, <2>5, BecomesSound
<1> QED BY <1>2, <1>3, <1>5, <1>6, <1>7 DEF CardsOnly

LEMMA ClaimSound ==
  ASSUME SlotInv, NEW j \in Jobs, NEW r \in Runs, PumpClaim(j, r)
  PROVE  Sound(Slot)'
<1> DEFINE A == [kind |-> "encoding", job |-> j, run |-> r, child |-> None]
           T == SetActivity(Slot, A)
           U == [T EXCEPT !.pumpDue = FALSE]
<1>1. A \in Activity /\ A.kind = "encoding" /\ A.job = j
  BY DEF Activity
<1>2. act.kind = "idle" /\ ~Encodes(act)
  BY DEF PumpClaim, CanPump, Encodes
<1>3. holds = {} /\ Slot.alive \subseteq terminating
  BY <1>2, SlotFacts DEF SlotInv, Sound, Holding, Reaching
<1>4. /\ T \in SlotType /\ T.act = A /\ T.holds = {} /\ T.terminating = terminating
      /\ T.alive = Slot.alive
  <2> HIDE DEF A
  <2> QED BY <1>1, <1>2, <1>3, SlotFacts, SetActivityFields
<1> HIDE DEF A, T
<1>5. /\ U \in SlotType /\ U.act = A /\ U.holds = {} /\ U.terminating = terminating
      /\ U.alive = Slot.alive
  BY <1>4 DEF SlotType
<1>6. Becomes(U) /\ child' = child
  BY DEF PumpClaim, A, T
<1> HIDE DEF U
<1>7. Sound(U)
  BY <1>1, <1>3, <1>5 DEF Sound, Holding, Reaching
<1> QED BY <1>5, <1>6, <1>7, SlotFacts, BecomesSound

(* An encoder is attached to the encode of its own run: the run was not    *)
(* stopped, so its card compresses and has the slot.                       *)
LEMMA SpawnsOwn ==
  ASSUME SlotInv, NEW r \in Runs, pc[r] = "prepare", ~Cancelled(r)
  PROVE  act.kind = "encoding" /\ act.run = r /\ act.child = None /\ act.job \in Jobs
<1>1. rjob[r] \in Jobs /\ status[rjob[r]] = "processing"
  BY RunFacts, SlotFacts DEF SlotInv, Preparing, Cancelled, RunsHaveCards
<1>2. Encodes(act) /\ act.job = rjob[r] /\ act.run \in Runs /\ rjob[act.run] = act.job
  BY <1>1, RunFacts, SlotFacts DEF RunInv, OwnInv, Owned
<1>3. act.run = r
  BY <1>1, <1>2, RunFacts, SlotFacts DEF RunInv, OneRun
<1>4. act.child = None
  BY <1>2, <1>3 DEF SlotInv, ChildOfRun
<1>5. act.kind # "held"
  BY <1>4, SlotFacts DEF SlotInv, Sound
<1> QED BY <1>1, <1>2, <1>3, <1>4, <1>5 DEF Encodes

LEMMA SpawnAttaches ==
  ASSUME SlotInv, NEW r \in Runs, pc[r] = "prepare", ~Cancelled(r)
  PROVE  LET T == Attach(Slot, r)
         IN  /\ Sound(T) /\ T \in SlotType /\ T.alive = Slot.alive \cup {r}
             /\ T.act.kind = "encoding" /\ T.act.child = r /\ T.act.run = r
<1> DEFINE F == [Slot EXCEPT !.alive = @ \cup {r},
                             !.act.child = IF @ = r THEN None ELSE @]
           A == [act EXCEPT !.child = r]
           T == SetActivity(F, A)
<1>1. act.kind = "encoding" /\ act.run = r /\ act.child = None /\ act.job \in Jobs
  BY SpawnsOwn
<1>2. /\ A \in Activity /\ A.kind = "encoding" /\ A.job = act.job /\ A.child = r
      /\ A.run = r /\ act \in Activity
  BY <1>1, SlotFacts DEF SlotType, Activity
<1>3. holds = {} /\ Slot.alive \subseteq terminating
  BY <1>1, SlotFacts DEF SlotInv, Sound, Holding, Reaching
<1>4. /\ F \in SlotType /\ F.act.kind = "encoding" /\ F.act.job = act.job
      /\ F.act.child = None /\ F.holds = {} /\ F.pauseHold = pauseHold
      /\ F.terminating = terminating /\ F.handoff = handoff /\ F.alive = Slot.alive \cup {r}
  BY <1>1, <1>2, <1>3, SlotFacts DEF SlotType, Activity
<1>5. /\ T \in SlotType /\ T.act = A /\ T.terminating = terminating
      /\ T.alive = Slot.alive \cup {r}
      /\ \A h \in T.holds : h[1] = r /\ h[2] = "paused" /\ T.pauseHold[act.job] = r
  <2> DEFINE k == F.act.job
             paused_ == F.act.kind = "encoding" /\ F.pauseHold[k] # None
             same == A.kind = "encoding" /\ A.job = k
  <2>1. /\ T \in SlotType /\ T.act = A
        /\ T.terminating = F.terminating /\ T.alive = F.alive
        /\ ~paused_ => T.holds = F.holds
        /\ paused_ /\ same /\ A.child # F.act.child /\ A.child \in Runs =>
             /\ T.pauseHold[k] = A.child
             /\ T.holds = (F.holds \ {<<F.pauseHold[k], "paused">>})
                  \cup (IF A.child \in F.alive THEN {<<A.child, "paused">>} ELSE {})
    <3> HIDE DEF F, A
    <3> QED BY <1>1, <1>2, <1>4, SetActivityFields
  <2> HIDE DEF F, A, T
  <2>2. same /\ A.child # F.act.child
    BY <1>2, <1>4, QueueAssumption
  <2> QED BY <1>2, <1>4, <2>1, <2>2
<1> HIDE DEF T, A
<1>6. Sound(T)
  BY <1>1, <1>2, <1>3, <1>5 DEF Sound, Holding, Reaching, Encodes
<1>7. T = Attach(Slot, r)
  BY <1>1, SlotFacts DEF Attach, T, A
<1> QED BY <1>2, <1>5, <1>6, <1>7

LEMMA SpawnSound ==
  ASSUME SlotInv, NEW r \in Runs, pc[r] = "prepare", ~Cancelled(r), Spawn(r, "encode")
  PROVE  Sound(Slot)' /\ (Encodes(act') => act'.child = r /\ act'.run = r)
<1> DEFINE T == Attach(Slot, r)
           H == Handoff(T, prio)
<1>1. /\ Sound(T) /\ T \in SlotType /\ T.alive = Slot.alive \cup {r}
      /\ T.act.kind = "encoding" /\ T.act.child = r /\ T.act.run = r
  BY SpawnAttaches
<1>2. Becomes(H) /\ Slot.alive \cup {r} = {q \in Runs : child'[q] \in {"live", "refused"}}
  <2>1. child' = [child EXCEPT ![r] = "live"] \/ child' = [child EXCEPT ![r] = "refused"]
    BY DEF Spawn
  <2>2. child \in [Runs -> Processes]
    BY DiskFacts DEF SlotInv
  <2> QED BY <2>1, <2>2, SlotFacts DEF Spawn
<1> HIDE DEF T
<1>3. Sound(H) /\ H.alive = T.alive
  BY <1>1, HandoffSound
<1>4. SameEncode(T.act, H.act) /\ (Encodes(H.act) => H.act.child = r)
  BY <1>1, HandoffAct
<1> HIDE DEF H
<1> QED BY <1>1, <1>2, <1>3, <1>4, BecomesSound DEF SameEncode, Encodes, Becomes

LEMMA EndSound == ASSUME SlotInv, NEW r \in Runs, End(r) PROVE Sound(Slot)'
<1> DEFINE R == Released(Slot, r)
           C == ClearStranded(R)
           D == [C EXCEPT !.pumpDue = TRUE]
           H == Handoff(D, prio)
<1>1. child[r] \notin {"live", "refused"} /\ child' = [child EXCEPT ![r] = "none"]
      /\ child \in [Runs -> Processes]
  BY DiskFacts DEF End, SlotInv, DiskInv, Living, Alive
<1>2. Slot.alive = {q \in Runs : child'[q] \in {"live", "refused"}}
  BY <1>1, SlotFacts
<1>3. Encodes(act) /\ act.run = r => Childless(Slot)
  BY <1>1, SlotFacts DEF SlotInv, ChildOfRun, Childless
<1>4. Sound(R) /\ R.alive = Slot.alive
  BY <1>3, SlotFacts, ReleasedSound DEF SlotInv
<1>5. Stranded(R) => Childless(R)
  <2>1. R = Slot \/ ~Encodes(R.act)
    BY ReleasedAct, SlotFacts
  <2> HIDE DEF R
  <2> QED BY <2>1, StrandedChildless DEF Stranded
<1>6. Sound(C) /\ C.alive = Slot.alive /\ C \in SlotType
  <2> HIDE DEF R
  <2>1. Sound(C) /\ C.alive = Slot.alive
    BY <1>4, <1>5, ClearStrandedSound
  <2> QED BY <2>1 DEF Sound
<1>7. Sound(D) /\ D.alive = Slot.alive
  <2> HIDE DEF C
  <2>1. /\ D \in SlotType /\ D.act = C.act /\ D.holds = C.holds /\ D.pauseHold = C.pauseHold
        /\ D.terminating = C.terminating /\ D.handoff = C.handoff /\ D.alive = C.alive
    BY <1>6 DEF SlotType
  <2> HIDE DEF D
  <2> QED BY <1>6, <2>1, SoundFields
<1>8. Becomes(H)
  BY DEF End
<1>9. Sound(H) /\ H.alive = Slot.alive
  <2> HIDE DEF D
  <2> QED BY <1>7, HandoffSound
<1> HIDE DEF H
<1> QED BY <1>2, <1>8, <1>9, BecomesSound

(* An encoder that is gone is nobody's any more.                           *)
LEMMA ProcessSound ==
  ASSUME SlotInv, NEW r \in Runs, Vanish(r) \/ \E result \in Results : Exit(r, result)
  PROVE  Sound(Slot)'
<1> DEFINE E == [Slot EXCEPT !.holds = {h \in @ : h[1] # r}, !.terminating = @ \ {r},
                             !.alive = @ \ {r}]
           V == [Slot EXCEPT !.holds = {h \in @ : h[1] # r}, !.alive = @ \ {r}]
<1>1. Becomes(E) \/ Becomes(V)
  BY SlotFacts DEF Vanish, Exit, Becomes, SlotType
<1>2. Slot.alive \ {r} = {q \in Runs : child'[q] \in {"live", "refused"}}
  <2>1. child \in [Runs -> Processes] /\ \E result \in Processes \ {"live", "refused"} :
                                         child' = [child EXCEPT ![r] = result]
    BY DiskFacts DEF SlotInv, Vanish, Exit, Results, Processes
  <2> QED BY <2>1, SlotFacts
<1>3. /\ E \in SlotType /\ E.act = act /\ E.pauseHold = pauseHold /\ E.handoff = handoff
      /\ E.holds = {h \in holds : h[1] # r} /\ E.terminating = terminating \ {r}
      /\ E.alive = Slot.alive \ {r}
  BY SlotFacts DEF SlotType
<1>4. /\ V \in SlotType /\ V.act = act /\ V.pauseHold = pauseHold /\ V.handoff = handoff
      /\ V.holds = {h \in holds : h[1] # r} /\ V.terminating = terminating
      /\ V.alive = Slot.alive \ {r}
  BY SlotFacts DEF SlotType
<1> HIDE DEF E, V
<1>5. Sound(E) /\ Sound(V)
  BY <1>3, <1>4, SlotFacts DEF SlotInv, Sound, Holding, Reaching
<1> QED BY <1>1, <1>2, <1>3, <1>4, <1>5, BecomesSound

SlotRest == (NoSecond /\ ChildOfRun /\ Preparing)'

LEMMA RestCalm == ASSUME SlotInv, CalmStep PROVE SlotRest
<1>1. UNCHANGED <<status, pc, rjob, child>>
  BY CalmSteps DEF Calm, runs
<1>2. Encodes(act') => Encodes(act) /\ act'.run = act.run /\ act'.child = act.child
  BY SlotFacts, CalmAct DEF SameEncode
<1> QED BY <1>1, <1>2 DEF SlotInv, SlotRest, NoSecond, ChildOfRun, Preparing

(* A card whose run still prepares compresses or was cancelled, whatever   *)
(* else is done to it.                                                     *)
LEMMA PreparingCards ==
  ASSUME Plain, SlotInv, CardsOnly, NEW r \in Runs, pc[r] = "prepare"
  PROVE  status'[rjob[r]] \in {"processing", "cancelled"}
<1> DEFINE j == rjob[r]
<1>1. /\ j \in Jobs /\ status[j] \in {"processing", "cancelled"} /\ Busy(j) /\ j \notin starting
      /\ status \in [Jobs -> Status \cup {"absent"}]
  BY RunFacts, SlotFacts DEF SlotInv, Preparing, RunInv, Resting, RunsHaveCards, Busy
<1> SUFFICES ASSUME status'[j] # status[j] PROVE status'[j] \in {"processing", "cancelled"}
  BY <1>1
<1> HIDE DEF j
<1>2. ASSUME NEW k \in Jobs,
             \/ Add(k) \/ \E ok \in BOOLEAN : Probe(k, ok) \/ ProbeUnavailable(k) \/ Remove(k)
      PROVE  FALSE
  BY <1>1, <1>2, MovedElse DEF Add, Probe, ProbeUnavailable, AbandonBatch, Given, Remove
<1>3. ASSUME NEW k \in Jobs, Cancel(k) PROVE status'[j] = "cancelled"
  BY <1>1, <1>3 DEF Cancel, CancelEffect, Moved
<1>4. ASSUME NEW J \in SUBSET Jobs, StartBegin(J) PROVE FALSE
  BY <1>1, <1>4 DEF StartBegin, Plain
<1>5. CASE StartCommit \/ StartThrow \/ CancelAll
  BY <1>1, <1>5 DEF StartCommit, StartThrow, CancelAll, cards
<1>6. CASE HandleWake
  <2>1. Encodes(act) /\ act.child # None /\ status' = Moved(status, act.job, "interrupted")
    BY <1>6 DEF HandleWake
  <2>2. j = act.job
    BY <1>1, <2>1, MovedElse
  <2>3. act.run = r
    BY <1>1, <2>1, <2>2, RunFacts, SlotFacts DEF RunInv, OneRun, j
  <2> QED BY <2>1, <2>3 DEF SlotInv, ChildOfRun
<1> QED BY <1>2, <1>3, <1>4, <1>5, <1>6 DEF CardsOnly

LEMMA RestCards == ASSUME Plain, SlotInv, CardsOnly PROVE SlotRest
<1>1. UNCHANGED <<pc, rjob, child>> /\ (Encodes(act') => act' = act)
  BY RunsStay, CardsStay, SlotFacts DEF RunInv, OwnStays
<1> QED BY <1>1, PreparingCards DEF SlotInv, SlotRest, NoSecond, ChildOfRun, Preparing

LEMMA RestClaim ==
  ASSUME SlotInv, NEW j \in Jobs, NEW r \in Runs, PumpClaim(j, r)
  PROVE  SlotRest
<1>1. /\ act' = [kind |-> "encoding", job |-> j, run |-> r, child |-> None]
      /\ pc' = [pc EXCEPT ![r] = "prepare"] /\ rjob' = [rjob EXCEPT ![r] = j]
      /\ status' = [status EXCEPT ![j] = "processing"] /\ child' = child
  BY SlotFacts, ClaimAct DEF PumpClaim
<1>2. /\ pc \in [Runs -> Places] /\ rjob \in [Runs -> Jobs \cup {None}]
      /\ status \in [Jobs -> Status \cup {"absent"}] /\ RunsHaveCards
  BY RunFacts, SlotFacts
<1>3. NoSecond'
  BY <1>1, <1>2 DEF SlotInv, NoSecond
<1>4. ChildOfRun'
  BY <1>1, <1>2 DEF ChildOfRun
<1>5. Preparing'
  BY <1>1, <1>2 DEF SlotInv, Preparing, RunsHaveCards
<1> QED BY <1>3, <1>4, <1>5 DEF SlotRest

(* Where a run goes when it resumes.                                       *)
LEMMA ResumedPlace ==
  ASSUME SlotInv, NEW r \in Runs, Resumed(r)
  PROVE  \/ pc[r] = "prepare" /\ ~Cancelled(r) /\ Spawn(r, "encode")
         \/ /\ \E place \in Unwinding \cup {"probe"} : pc' = [pc EXCEPT ![r] = place]
            /\ UNCHANGED <<act, holds, pauseHold, terminating, handoff, child>>
<1>1. pc[r] # "fallback" /\ child[r] # "audio"
  BY DEF SlotInv, NoSecond
<1> QED BY <1>1
  DEF Resumed, StopSeen, Fail, Retry, Moves, RuntimeFailure, Complete, Abandon, AbandonBatch,
      Becomes, Slot, slot, At, Unwinding

(* No other card is touched, but one that waits.                           *)
LEMMA ResumedOthers ==
  ASSUME SlotInv, NEW r \in Runs, Resumed(r), NEW j \in Jobs, j # rjob[r],
         status[j] # "queued"
  PROVE  status'[j] = status[j]
<1>1. status \in [Jobs -> Status \cup {"absent"}]
  BY RunFacts, SlotFacts
<1> QED BY <1>1, MovedElse
  DEF Resumed, StopSeen, Fail, Spawn, Retry, Moves, RuntimeFailure, Complete, Abandon,
      AbandonBatch, Given, cards

LEMMA RestResumed == ASSUME SlotInv, NEW r \in Runs, Resumed(r) PROVE SlotRest
<1>1. /\ pc \in [Runs -> Places] /\ rjob \in [Runs -> Jobs \cup {None}]
      /\ child \in [Runs -> Processes] /\ RunsHaveCards /\ RunInv /\ TypeOK
  BY DiskFacts, SlotFacts DEF SlotInv
<1>2. SameEncode(act, act') /\ rjob' = rjob /\ (Encodes(act) => act.run \in Runs)
  BY <1>1, ResumedAct, RunFacts
<1>3. \E place \in Unwinding \cup {"probe", "encode"} : pc' = [pc EXCEPT ![r] = place]
  BY ResumedPlace DEF Spawn, At
<1>4. NoSecond'
  <2>1. \A q \in Runs : child'[q] # "audio"
    BY <1>1, ResumedPlace DEF Spawn, SlotInv, NoSecond
  <2> QED BY <1>1, <1>3, <2>1 DEF SlotInv, NoSecond, Unwinding
<1>5. ChildOfRun'
  <2>1. CASE pc[r] = "prepare" /\ ~Cancelled(r) /\ Spawn(r, "encode")
    <3>1. pc' = [pc EXCEPT ![r] = "encode"]
      BY <2>1 DEF Spawn, At
    <3> QED BY <1>1, <2>1, <3>1, SpawnSound DEF ChildOfRun
  <2>2. CASE /\ \E place \in Unwinding \cup {"probe"} : pc' = [pc EXCEPT ![r] = place]
             /\ act' = act
    BY <1>1, <1>2, <2>2 DEF SlotInv, ChildOfRun, Unwinding
  <2> QED BY <2>1, <2>2, ResumedPlace
<1>6. Preparing'
  <2> SUFFICES ASSUME NEW q \in Runs, pc'[q] = "prepare"
               PROVE  status'[rjob[q]] \in {"processing", "cancelled"}
    BY <1>2 DEF Preparing
  <2>1. q # r /\ pc[q] = "prepare"
    BY <1>1, <1>3 DEF Unwinding
  <2>2. /\ rjob[q] \in Jobs /\ rjob[q] # rjob[r]
        /\ status[rjob[q]] \in {"processing", "cancelled"}
    BY <1>1, <2>1, RunFacts DEF SlotInv, Preparing, RunInv, OneRun, RunsHaveCards
  <2>3. status'[rjob[q]] = status[rjob[q]]
    BY <2>2, ResumedOthers
  <2> QED BY <2>2, <2>3
<1> QED BY <1>4, <1>5, <1>6 DEF SlotRest

LEMMA RestEnd == ASSUME SlotInv, NEW r \in Runs, End(r) PROVE SlotRest
<1>1. /\ pc \in [Runs -> Places] /\ rjob \in [Runs -> Jobs \cup {None}]
      /\ child \in [Runs -> Processes] /\ TypeOK
      /\ (Encodes(act) => act.run \in Runs)
  BY DiskFacts, RunFacts, SlotFacts DEF SlotInv
<1>2. /\ pc' = [pc EXCEPT ![r] = "free"] /\ rjob' = [rjob EXCEPT ![r] = None]
      /\ child' = [child EXCEPT ![r] = "none"] /\ status' = status
  BY DEF End, At, cards
<1>3. Encodes(act') => /\ Encodes(act) /\ act'.run = act.run /\ act'.child = act.child
                       /\ act.run # r
  BY <1>1, EndAct DEF SameEncode
<1> QED BY <1>1, <1>2, <1>3 DEF SlotInv, SlotRest, NoSecond, ChildOfRun, Preparing

LEMMA RestProcess ==
  ASSUME NoAudio, SlotInv, NEW r \in Runs, Vanish(r) \/ \E result \in Results : Exit(r, result)
  PROVE  SlotRest
<1>1. act' = act /\ UNCHANGED <<status, pc, rjob>>
  BY ProcessCalm
<1>2. \A q \in Runs : child'[q] # "audio"
  <2>1. child \in [Runs -> Processes] /\ \E result \in Processes \ {"audio"} :
                                         child' = [child EXCEPT ![r] = result]
    BY DiskFacts DEF SlotInv, NoAudio, Vanish, Exit, Results, Processes
  <2> QED BY <2>1 DEF SlotInv, NoSecond
<1> QED BY <1>1, <1>2 DEF SlotInv, SlotRest, NoSecond, ChildOfRun, Preparing

LEMMA SlotStep == Plain /\ NoAudio /\ SlotInv /\ Next => SlotInv'
<1> SUFFICES ASSUME Plain, NoAudio, SlotInv, Next PROVE SlotInv'
  OBVIOUS
<1>1. DiskInv' /\ TypeOK'
  BY DiskStep DEF SlotInv, DiskInv, RunInv, OwnInv, BatchInv, TypeInv
<1>2. ASSUME NEW r \in Runs, Resumed(r) PROVE Sound(Slot)'
  BY <1>1, <1>2, ResumedPlace, SpawnSound, SameSlotSound
<1>3. Sound(Slot)' /\ SlotRest
  BY <1>1, <1>2, SortedSteps, CalmSound, CardsSound, ClaimSound, EndSound, ProcessSound,
     RestCalm, RestCards, RestClaim, RestResumed, RestEnd, RestProcess
  DEF Plain, SlotInv, DiskInv, RunInv, OwnInv
<1> QED BY <1>1, <1>3 DEF SlotInv, SlotRest

LEMMA SlotInvariant == Plain /\ NoAudio => (Spec => []SlotInv)
<1> SUFFICES ASSUME Plain, NoAudio PROVE Spec => []SlotInv
  OBVIOUS
<1>1. Init => SlotInv
  <2> SUFFICES ASSUME Init PROVE SlotInv
    OBVIOUS
  <2>1. NoSecond /\ ChildOfRun /\ Preparing
    BY DEF Init, NoSecond, ChildOfRun, Preparing, Encodes, Idle
  <2>2. Sound(Slot)
    <3>1. Slot \in SlotType
      BY InitType, SlotTyped
    <3>2. Slot.act = Idle /\ Slot.holds = {} /\ Slot.alive = {}
      BY DEF Init, Slot
    <3> QED BY <3>1, <3>2 DEF Sound, Holding, Reaching, Encodes, Idle
  <2> QED BY <2>1, <2>2, DiskBegins DEF SlotInv
<1>2. SlotInv /\ UNCHANGED vars => SlotInv'
  <2> SUFFICES ASSUME SlotInv, UNCHANGED vars PROVE SlotInv'
    OBVIOUS
  <2>1. DiskInv' /\ TypeOK'
    BY DiskStutter DEF SlotInv, DiskInv, RunInv, OwnInv, BatchInv, TypeInv
  <2>2. UNCHANGED <<act, holds, pauseHold, terminating, handoff, pc, rjob, child, status>>
    BY DEF vars, slot, runs, cards
  <2>3. Sound(Slot)'
    BY <2>1, <2>2, SameSlotSound
  <2> QED BY <2>1, <2>2, <2>3 DEF SlotInv, NoSecond, ChildOfRun, Preparing
<1>3. SlotInv /\ [Next]_vars => SlotInv'
  BY <1>2, SlotStep
<1> QED BY <1>1, <1>3, PTL DEF Spec

(* No encoder is held down with nobody left to release it (queue.ts,       *)
(* holdForEstimates and setPaused): a hold is on the encoder in the slot,  *)
(* and the handoff that will end it, or the pause of its card, is there.   *)
THEOREM HoldsAreReleased == Plain /\ NoAudio => (Spec => []HoldsHaveOwner)
<1> SUFFICES ASSUME Plain, NoAudio PROVE Spec => []HoldsHaveOwner
  OBVIOUS
<1>1. SlotInv => HoldsHaveOwner
  <2> SUFFICES ASSUME SlotInv, NEW h \in holds
               PROVE  \/ /\ h[2] = "estimate" /\ act.kind = "held" /\ act.child = h[1]
                         /\ handoff = "encoding"
                      \/ /\ h[2] = "paused" /\ Encodes(act) /\ act.child = h[1]
                         /\ pauseHold[act.job] = h[1]
    BY DEF HoldsHaveOwner
  <2> QED BY SlotFacts DEF SlotInv, Sound, Holding
<1> QED BY <1>1, SlotInvariant, PTL

(* Every encoder that runs can be reached by a stop (queue.ts,             *)
(* stopActiveEncode and attachChild): it is the one in the slot, or it has *)
(* been told to end.                                                       *)
THEOREM EncodersReached == Plain /\ NoAudio => (Spec => []EncoderReachable)
<1> SUFFICES ASSUME Plain, NoAudio PROVE Spec => []EncoderReachable
  OBVIOUS
<1>1. SlotInv => EncoderReachable
  BY SlotFacts DEF SlotInv, Sound, Reaching, EncoderReachable
<1> QED BY <1>1, SlotInvariant, PTL

(* An encode whose encoder still runs loses the slot only to its own stop: *)
(* the run of another card that ends meanwhile, the watchdog and a read of *)
(* the state leave it where it is (queue.ts, the finally of pump and       *)
(* clearStranded).                                                         *)
THEOREM SlotIsKept == Plain /\ NoAudio => (Spec => SlotKeptWhileEncoding)
<1> SUFFICES ASSUME Plain, NoAudio PROVE Spec => SlotKeptWhileEncoding
  OBVIOUS
<1>1. SlotInv /\ SlotInv' /\ [Next]_vars =>
        [\A r \in Runs : Encodes(act) /\ act.child = r /\ child[r] = "live" /\ act' = Idle
           => r \in terminating']_vars
  <2> SUFFICES ASSUME SlotInv, SlotInv', Next, NEW r \in Runs, Encodes(act), act.child = r,
                      child[r] = "live", act' = Idle
               PROVE  r \in terminating'
    BY DEF vars
  <2>1. ~Encodes(act') /\ act' # act
    BY DEF Encodes, Idle
  <2>2. child'[r] = "live"
    <3>1. ASSUME NEW q \in Runs, Resumed(q) PROVE Encodes(act')
      BY <3>1, ResumedAct, RunFacts, SlotFacts DEF SameEncode
    <3>2. ASSUME NEW q \in Runs, End(q) PROVE child'[r] = child[r]
      <4>1. q # r
        BY <3>2 DEF End, SlotInv, DiskInv, Living, Alive
      <4> QED BY <3>2, <4>1, DiskFacts DEF SlotInv, End
    <3>3. ASSUME NEW q \in Runs, Vanish(q) \/ \E result \in Results : Exit(q, result) PROVE FALSE
      BY <2>1, <3>3, ProcessCalm
    <3>4. ASSUME NEW j \in Jobs, NEW q \in Runs, PumpClaim(j, q) PROVE child' = child
      BY <3>4 DEF PumpClaim
    <3>5. CalmStep \/ CardsOnly => child' = child
      BY CalmSteps, RunsStay DEF Calm, runs
    <3> QED BY <2>1, <3>1, <3>2, <3>3, <3>4, <3>5, SortedSteps
            DEF Plain, SlotInv, DiskInv, RunInv, OwnInv
  <2>3. EncoderReachable'
    <3>1. Sound(Slot)'
      BY DEF SlotInv
    <3> QED BY <3>1 DEF Sound, Reaching, EncoderReachable, Slot
  <2> QED BY <2>1, <2>2, <2>3 DEF EncoderReachable
<1>2. Spec => []SlotInv
  BY SlotInvariant
<1> QED BY <1>1, <1>2, PTL DEF Spec, SlotKeptWhileEncoding

-----------------------------------------------------------------------------
(* The pause of a card: which encoder it holds, and what the card says.    *)

(* Only the encode in the slot, while no estimate holds it, is paused.     *)
PausePlaced(S) ==
  \A j \in Jobs : S.pauseHold[j] # None => S.act.kind = "encoding" /\ S.act.job = j

Unpaused(S) == \A j \in Jobs : S.pauseHold[j] = None

(* The same encode, with the same holds.                                   *)
SamePause(S, T) == T.act = S.act /\ T.holds = S.holds /\ T.pauseHold = S.pauseHold

(* An encode that leaves the slot, or that an estimate holds, is paused no *)
(* more; nothing becomes paused by taking the slot.                        *)
LEMMA SetActivityUnpaused ==
  ASSUME NEW S \in SlotType, PausePlaced(S), NEW next \in Activity,
         S.act.kind = "encoding" => S.act.job \in Jobs,
         next.kind # "encoding" \/ next.job # S.act.job \/ Unpaused(S)
  PROVE  Unpaused(SetActivity(S, next))
<1> DEFINE j == S.act.job
           R == ReleasePauseHold(S, j)
           P == PauseFollows(S, next)
<1>1. SetActivity(S, next).pauseHold = P.pauseHold
  <2>1. Keeps(S, P)
    BY PauseFollowsKeeps
  <2>2. SetActivity(S, next) = [P EXCEPT !.act = next, !.watchdog = @ \/ next.kind # "idle"]
    BY DEF SetActivity
  <2> HIDE DEF P
  <2> QED BY <2>1, <2>2 DEF SlotType, Keeps
<1>2. CASE S.act.kind # "encoding" \/ S.pauseHold[j] = None
  <2>1. Unpaused(S) /\ P = S
    BY <1>2 DEF PausePlaced, Unpaused, PauseFollows
  <2> QED BY <1>1, <2>1 DEF Unpaused
<1>3. CASE S.act.kind = "encoding" /\ S.pauseHold[j] # None
  <2>1. P = R
    BY <1>3 DEF PauseFollows, Unpaused
  <2>2. R.pauseHold = [S.pauseHold EXCEPT ![j] = None]
    BY DEF ReleasePauseHold, SlotType
  <2>3. S.pauseHold \in [Jobs -> Runs \cup {None}]
    BY DEF SlotType
  <2> QED BY <1>1, <1>3, <2>1, <2>2, <2>3 DEF Unpaused, PausePlaced
<1> QED BY <1>2, <1>3

LEMMA ReleaseEstimateHoldPause ==
  ASSUME NEW S, Sound(S), PausePlaced(S)
  PROVE  LET T == ReleaseEstimateHold(S)
         IN  T = S \/ (S.act.kind = "held" /\ Unpaused(S) /\ Unpaused(T))
<1>1. CASE S.act.kind # "held"
  BY <1>1 DEF ReleaseEstimateHold
<1>2. CASE S.act.kind = "held"
  BY <1>2, ReleaseEstimateHoldFields DEF Sound, PausePlaced, Unpaused
<1> QED BY <1>1, <1>2

LEMMA LeavesUnpaused ==
  ASSUME NEW S \in SlotType, PausePlaced(S), NEW next \in {Idle, Estimating},
         S.act.kind = "encoding" => S.act.job \in Jobs
  PROVE  Unpaused(SetActivity(S, next))
<1>1. next \in Activity /\ next.kind # "encoding"
  BY IdleTyped DEF Idle, Estimating
<1> QED BY <1>1, SetActivityUnpaused

LEMMA SoundPlace ==
  ASSUME NEW S, Sound(S)
  PROVE  S \in SlotType /\ (S.act.kind = "encoding" => S.act.job \in Jobs)
BY DEF Sound, Encodes

LEMMA ClearStrandedPause ==
  ASSUME NEW S, Sound(S), PausePlaced(S)
  PROVE  LET T == ClearStranded(S)
         IN  T = S \/ (Stranded(S) /\ T.act = Idle /\ Unpaused(T))
<1>1. S \in SlotType
  BY SoundPlace
<1> QED BY <1>1, SoundPlace, LeavesUnpaused, ClearStrandedAct DEF ClearStranded

LEMMA ReleasedPause ==
  ASSUME NEW S, Sound(S), PausePlaced(S), NEW r
  PROVE  LET T == Released(S, r)
         IN  T = S \/ (Encodes(S.act) /\ S.act.run = r /\ Unpaused(T))
BY SoundPlace, LeavesUnpaused DEF Released

LEMMA StopActiveEncodePause ==
  ASSUME NEW S, Sound(S), PausePlaced(S)
  PROVE  LET T == StopActiveEncode(S)
         IN  T = S \/ (~Encodes(T.act) /\ Unpaused(T))
<1> DEFINE R == ReleaseEstimateHold(S)
           G == Signal(R, S.act.child)
           A == SetActivity(G, Idle)
           T == [A EXCEPT !.pumpDue = TRUE]
<1>1. CASE ~Encodes(S.act)
  BY <1>1 DEF StopActiveEncode
<1>2. CASE Encodes(S.act)
  <2>1. Sound(R) /\ PausePlaced(R)
    <3>1. Sound(R)
      BY ReleaseEstimateHoldSound
    <3>2. R = S \/ Unpaused(R)
      BY ReleaseEstimateHoldPause
    <3> HIDE DEF R
    <3> QED BY <3>1, <3>2 DEF PausePlaced, Unpaused
  <2>2. /\ G \in SlotType /\ PausePlaced(G)
        /\ G.act.kind = "encoding" => G.act.job \in Jobs
    <3> HIDE DEF R
    <3>1. R \in SlotType /\ (R.act.kind = "encoding" => R.act.job \in Jobs)
      BY <2>1, SoundPlace
    <3>2. G \in SlotType
      BY <3>1, SignalKeeps DEF Keeps
    <3>3. G.act = R.act /\ G.pauseHold = R.pauseHold
      BY <3>1 DEF Signal, SlotType
    <3> QED BY <2>1, <3>1, <3>2, <3>3 DEF PausePlaced
  <2>3. Unpaused(A) /\ A \in SlotType
    <3> HIDE DEF G
    <3> QED BY <2>2, LeavesUnpaused, SetActivityKeeps, IdleTyped DEF Keeps
  <2>4. StopActiveEncode(S) = T
    BY <1>2 DEF StopActiveEncode
  <2>5. Unpaused(T)
    <3> HIDE DEF A
    <3> QED BY <2>3 DEF Unpaused, SlotType
  <2>6. ~Encodes(StopActiveEncode(S).act)
    BY SoundPlace, StopActiveEncodeAct
  <2> HIDE DEF T
  <2> QED BY <2>4, <2>5, <2>6
<1> QED BY <1>1, <1>2

LEMMA HandoffPause ==
  ASSUME NEW S, Sound(S), PausePlaced(S), NEW pr
  PROVE  LET T == Handoff(S, pr)
         IN  SamePause(S, T) \/ (Unpaused(T) /\ \E j \in listed : pr[j] = "asked")
<1> DEFINE c == S.act.child
           A == [S.act EXCEPT !.kind = "held"]
           H == Hold(S, c, "estimate")
           held == SetActivity(H, A)
           F == [held EXCEPT !.handoff = "encoding"]
           R == ReleaseEstimateHold(held)
           E == [S EXCEPT !.act = Estimating, !.handoff = "idle"]
           P == [S EXCEPT !.pumpDue = TRUE]
<1>1. S \in SlotType /\ (S.act.kind = "encoding" => S.act.job \in Jobs)
  BY SoundPlace
<1>2. \/ Handoff(S, pr) = S
      \/ /\ \E j \in listed : pr[j] = "asked"
         /\ \/ Handoff(S, pr) = P
            \/ S.act.kind = "idle" /\ Handoff(S, pr) = E
            \/ /\ S.act.kind = "encoding"
               /\ Handoff(S, pr) = F \/ Handoff(S, pr) = R
  BY DEF Handoff
<1>3. SamePause(S, P) /\ SamePause(S, S)
  BY <1>1 DEF SamePause, SlotType
<1>4. S.act.kind = "idle" => Unpaused(E)
  BY <1>1 DEF PausePlaced, Unpaused, SlotType
<1>5. ASSUME S.act.kind = "encoding" PROVE Unpaused(F) /\ Unpaused(R)
  <2>1. A \in Activity /\ A.kind = "held"
    BY <1>1 DEF SlotType, Activity
  <2>2. /\ H \in SlotType /\ H.act = S.act /\ H.pauseHold = S.pauseHold /\ PausePlaced(H)
    BY <1>1, HoldFields DEF Reasons, PausePlaced
  <2>3. held \in SlotType /\ held.act = A /\ Unpaused(held)
    <3> HIDE DEF H, A
    <3> QED BY <1>1, <2>1, <2>2, SetActivityUnpaused, SetActivityKeeps DEF Keeps
  <2>4. Unpaused(F)
    <3> HIDE DEF held
    <3> QED BY <2>3 DEF Unpaused, SlotType
  <2>5. R.pauseHold = held.pauseHold
    <3> HIDE DEF held, A
    <3> QED BY <2>1, <2>3, ReleaseEstimateHoldFields
  <2> HIDE DEF R, held, F
  <2> QED BY <2>3, <2>4, <2>5 DEF Unpaused
<1> HIDE DEF F, R, E, P
<1> QED BY <1>2, <1>3, <1>4, <1>5

-----------------------------------------------------------------------------
(* The pause along the steps.                                              *)

(* A hold of a pause is on the encoder of the encode in the slot, whose    *)
(* card says that it is paused; while that encoder lives it is held.       *)
HoldShown ==
  \A j \in Jobs : pauseHold[j] # None =>
    /\ act.kind = "encoding" /\ act.job = j /\ act.child = pauseHold[j] /\ paused[j]
    /\ child[pauseHold[j]] \in {"live", "refused"} =>
         <<pauseHold[j], "paused">> \in holds

PauseInv == SlotInv /\ HoldShown

PauseSame == UNCHANGED <<act, holds, pauseHold>>
PauseOff == \A j \in Jobs : pauseHold'[j] = None

LEMMA PauseFacts ==
  ASSUME PauseInv
  PROVE  /\ Sound(Slot) /\ Slot \in SlotType /\ PausePlaced(Slot) /\ SlotInv
         /\ Slot.act = act /\ Slot.holds = holds /\ Slot.pauseHold = pauseHold
         /\ (act.kind = "encoding" => act.job \in Jobs)
<1>1. SlotInv /\ Sound(Slot)
  BY DEF PauseInv, SlotInv
<1> QED BY <1>1, SlotFacts, SoundPlace DEF PauseInv, HoldShown, PausePlaced

LEMMA BecomesPause ==
  ASSUME NEW S, Becomes(S)
  PROVE  /\ S.act = act /\ S.holds = holds /\ S.pauseHold = pauseHold => PauseSame
         /\ Unpaused(S) => PauseOff
BY DEF Becomes, PauseSame, PauseOff, Unpaused

LEMMA ClearedPause ==
  ASSUME PauseInv
  PROVE  LET C == ClearStranded(Slot)
         IN  /\ Sound(C) /\ C \in SlotType /\ PausePlaced(C)
             /\ C = Slot \/ (Stranded(Slot) /\ C.act = Idle /\ Unpaused(C))
<1> DEFINE C == ClearStranded(Slot)
<1>1. Sound(C) /\ C \in SlotType
  BY PauseFacts, ClearedSound
<1>2. C = Slot \/ (Stranded(Slot) /\ C.act = Idle /\ Unpaused(C))
  BY PauseFacts, ClearStrandedPause
<1>3. PausePlaced(C)
  <2> HIDE DEF C
  <2> QED BY <1>2, PauseFacts DEF PausePlaced, Unpaused
<1> QED BY <1>1, <1>2, <1>3

LEMMA CalmPause ==
  ASSUME PauseInv, CalmStep, \A j \in Jobs, on \in BOOLEAN : ~SetPaused(j, on)
  PROVE  \/ PauseSame
         \/ /\ PauseOff
            /\ Stranded(Slot) \/ act.kind # "encoding" \/ \E j \in Jobs : Prioritize(j)
<1>1. CASE \/ PumpSkip \/ PumpDrained \/ ToolsLost \/ ToolsBack
           \/ \E j \in Jobs : CancelPrioritized(j) \/ Measure(j)
  BY <1>1 DEF PumpSkip, PumpDrained, ToolsLost, ToolsBack, CancelPrioritized, Measure,
              Becomes, Slot, slot, PauseSame
<1>2. ASSUME NEW j \in Jobs, Prioritize(j) PROVE PauseSame \/ PauseOff
  <2> DEFINE C == ClearStranded(Slot)
             H == Handoff(C, [prio EXCEPT ![j] = "asked"])
  <2>1. Becomes(H)
    BY <1>2 DEF Prioritize
  <2>2. SamePause(C, H) \/ Unpaused(H)
    <3> HIDE DEF C
    <3> QED BY ClearedPause, HandoffPause DEF C
  <2>3. C = Slot \/ Unpaused(C)
    BY ClearedPause
  <2> HIDE DEF H, C
  <2> QED BY <2>1, <2>2, <2>3, PauseFacts, BecomesPause DEF SamePause, Unpaused
<1>3. CASE HandoffEnd
  <2> DEFINE R == ReleaseEstimateHold(Slot)
             T == IF R.act.kind = "estimating" THEN [R EXCEPT !.act = Idle] ELSE R
             U == [T EXCEPT !.handoff = "none",
                            !.pumpDue = @ \/ (handoff = "idle" /\ T.act.kind = "idle")]
  <2>1. R \in SlotType /\ (R = Slot \/ (act.kind = "held" /\ Unpaused(R)))
    BY PauseFacts, ReleaseEstimateHoldKeeps, ReleaseEstimateHoldPause DEF Keeps
  <2>2. /\ T \in SlotType /\ T.holds = R.holds /\ T.pauseHold = R.pauseHold
        /\ R.act.kind # "estimating" => T.act = R.act
    <3> HIDE DEF R
    <3> QED BY <2>1, IdleTyped DEF SlotType
  <2>3. U.act = T.act /\ U.holds = T.holds /\ U.pauseHold = T.pauseHold
    <3> HIDE DEF T
    <3> QED BY <2>2 DEF SlotType
  <2>4. Becomes(U)
    BY <1>3 DEF HandoffEnd
  <2>5. act.kind = "estimating" => Unpaused(Slot)
    BY PauseFacts DEF PausePlaced, Unpaused
  <2> HIDE DEF R, T, U
  <2> QED BY <2>1, <2>2, <2>3, <2>4, <2>5, PauseFacts, BecomesPause DEF Unpaused
<1>4. CASE WatchdogTick \/ Read \/ RequestUpdateDrain
  <2> DEFINE C == ClearStranded(Slot)
             W == [C EXCEPT !.watchdog = ~Over(C),
                            !.pumpDue = @ \/ (C.act.kind = "idle" /\ ~Over(C))]
  <2>1. C \in SlotType /\ (C = Slot \/ (Stranded(Slot) /\ Unpaused(C)))
    BY ClearedPause
  <2>2. Becomes(C) \/ Becomes(W)
    BY <1>4 DEF WatchdogTick, Read, RequestUpdateDrain
  <2>3. W.act = C.act /\ W.holds = C.holds /\ W.pauseHold = C.pauseHold
    <3> HIDE DEF C
    <3> QED BY <2>1 DEF SlotType
  <2> HIDE DEF C, W
  <2> QED BY <2>1, <2>2, <2>3, PauseFacts, BecomesPause DEF Unpaused
<1> QED BY <1>1, <1>2, <1>3, <1>4 DEF CalmStep

LEMMA CardsPause ==
  ASSUME PauseInv, CardsOnly
  PROVE  PauseSame \/ (PauseOff /\ ~Encodes(act'))
<1> ~Encodes(Idle)
  BY DEF Encodes, Idle
<1>1. CASE \/ \E j \in Jobs : \/ Add(j) \/ \E ok \in BOOLEAN : Probe(j, ok)
                              \/ ProbeUnavailable(j) \/ Remove(j)
           \/ StartCommit \/ StartThrow
  BY <1>1 DEF Add, Probe, ProbeUnavailable, AbandonBatch, Remove, StartCommit, StartThrow,
              Becomes, Slot, slot, PauseSame
<1>2. ASSUME NEW J \in SUBSET Jobs, StartBegin(J)
      PROVE  PauseSame \/ (PauseOff /\ ~Encodes(act'))
  <2> DEFINE C == ClearStranded(Slot)
  <2>1. Becomes(C) /\ (C = Slot \/ (C.act = Idle /\ Unpaused(C)))
    BY <1>2, ClearedPause DEF StartBegin
  <2> HIDE DEF C
  <2> QED BY <2>1, PauseFacts, BecomesPause DEF Becomes
<1> DEFINE P == StopActiveEncode(Slot)
<1>3. Sound(P) /\ P \in SlotType /\ (P = Slot \/ (~Encodes(P.act) /\ Unpaused(P)))
  BY PauseFacts, StopActiveEncodeSound, StopActiveEncodePause DEF Sound
<1>4. ASSUME NEW j \in Jobs, Cancel(j)
      PROVE  PauseSame \/ (PauseOff /\ ~Encodes(act'))
  <2>1. Becomes(P) \/ Becomes(Slot)
    BY <1>4 DEF Cancel, CancelEffect
  <2> HIDE DEF P
  <2> QED BY <1>3, <2>1, PauseFacts, BecomesPause DEF Becomes
<1>5. CASE CancelAll
  <2> DEFINE stop == {j \in listed : status[j] \in {"queued", "processing"} /\ prev[j] = NoSlot}
             S == IF \E j \in stop : status[j] = "processing" THEN P ELSE Slot
             T == ClearStranded(S)
             drained == /\ batch = "open" /\ T.act.kind = "idle"
                        /\ \A j \in (listed \cap inBatch) \ stop : status[j] # "queued"
             U == [T EXCEPT !.watchdog = @ /\ ~drained]
  <2>1. Becomes(U)
    BY <1>5 DEF CancelAll
  <2>2. Sound(S) /\ PausePlaced(S) /\ (S = Slot \/ (~Encodes(S.act) /\ Unpaused(S)))
    <3> HIDE DEF P
    <3> QED BY <1>3, PauseFacts DEF PausePlaced, Unpaused
  <2>3. T \in SlotType /\ (T = S \/ (~Encodes(T.act) /\ Unpaused(T)))
    <3> HIDE DEF S
    <3>1. T = S \/ (T.act = Idle /\ Unpaused(T))
      BY <2>2, ClearStrandedPause
    <3>2. T \in SlotType
      BY <2>2, SoundPlace, ClearStrandedKeeps DEF Keeps
    <3> QED BY <3>1, <3>2
  <2>4. U.act = T.act /\ U.holds = T.holds /\ U.pauseHold = T.pauseHold
    <3> HIDE DEF T
    <3> QED BY <2>3 DEF SlotType
  <2> HIDE DEF S, T, U
  <2> QED BY <2>1, <2>2, <2>3, <2>4, PauseFacts, BecomesPause DEF Becomes, Unpaused
<1>6. CASE HandleWake
  <2> DEFINE R == ReleaseEstimateHold(Slot)
             T == SetActivity(R, Idle)
             U == [T EXCEPT !.pumpDue = TRUE]
  <2>1. /\ R \in SlotType /\ PausePlaced(R) /\ (R.act.kind = "encoding" => R.act.job \in Jobs)
    <3>1. Sound(R) /\ (R = Slot \/ Unpaused(R))
      BY PauseFacts, ReleaseEstimateHoldSound, ReleaseEstimateHoldPause
    <3> HIDE DEF R
    <3> QED BY <3>1, SoundPlace, PauseFacts DEF PausePlaced, Unpaused
  <2>2. Unpaused(T) /\ T \in SlotType /\ T.act = Idle
    <3> HIDE DEF R
    <3> QED BY <2>1, LeavesUnpaused, SetActivityKeeps, IdleTyped DEF Keeps
  <2>3. Unpaused(U) /\ U.act = Idle
    <3> HIDE DEF T
    <3> QED BY <2>2 DEF SlotType, Unpaused
  <2>4. Becomes(U)
    BY <1>6 DEF HandleWake
  <2> HIDE DEF R, T, U
  <2> QED BY <2>3, <2>4, BecomesPause DEF Becomes
<1> QED BY <1>1, <1>2, <1>4, <1>5, <1>6 DEF CardsOnly

LEMMA ClaimPause ==
  ASSUME PauseInv, NEW j \in Jobs, NEW r \in Runs, PumpClaim(j, r)
  PROVE  PauseOff
<1> DEFINE A == [kind |-> "encoding", job |-> j, run |-> r, child |-> None]
           T == SetActivity(Slot, A)
           U == [T EXCEPT !.pumpDue = FALSE]
<1>1. A \in Activity
  BY DEF Activity
<1>2. Unpaused(Slot)
  BY PauseFacts DEF PumpClaim, CanPump, PausePlaced, Unpaused
<1>3. Unpaused(T) /\ T \in SlotType
  <2> HIDE DEF A
  <2> QED BY <1>1, <1>2, PauseFacts, SetActivityUnpaused, SetActivityKeeps DEF Keeps
<1>4. Unpaused(U)
  <2> HIDE DEF T
  <2> QED BY <1>3 DEF SlotType, Unpaused
<1>5. Becomes(U)
  BY DEF PumpClaim
<1> QED BY <1>4, <1>5, BecomesPause

(* An encoder starts unpaused: before it there was nothing to hold.        *)
LEMMA SpawnPause ==
  ASSUME PauseInv, NEW r \in Runs, pc[r] = "prepare", ~Cancelled(r), Spawn(r, "encode")
  PROVE  PauseOff /\ act.child = None
<1> DEFINE F == [Slot EXCEPT !.alive = @ \cup {r},
                             !.act.child = IF @ = r THEN None ELSE @]
           A == [act EXCEPT !.child = r]
           T == SetActivity(F, A)
           H == Handoff(T, prio)
<1>1. act.kind = "encoding" /\ act.run = r /\ act.child = None /\ act.job \in Jobs
  BY PauseFacts, SpawnsOwn
<1>2. Unpaused(Slot)
  BY <1>1, PauseFacts DEF PauseInv, HoldShown, Unpaused
<1>3. /\ A \in Activity /\ F \in SlotType /\ F.pauseHold = pauseHold
      /\ F.act.kind = "encoding" /\ F.act.job = act.job
  BY <1>1, PauseFacts DEF SlotType, Activity
<1>4. Unpaused(F) /\ PausePlaced(F)
  <2> HIDE DEF F
  <2> QED BY <1>2, <1>3, PauseFacts DEF Unpaused, PausePlaced
<1>5. Unpaused(T)
  <2> HIDE DEF F, A
  <2> QED BY <1>1, <1>3, <1>4, SetActivityUnpaused
<1>6. T = Attach(Slot, r)
  BY <1>1, PauseFacts DEF Attach
<1>7. Sound(T)
  <2>1. Sound(Attach(Slot, r))
    BY PauseFacts, SpawnAttaches
  <2> QED BY <1>6, <2>1
<1> HIDE DEF T, F, A
<1>8. Unpaused(H)
  BY <1>5, <1>7, HandoffPause DEF SamePause, Unpaused, PausePlaced
<1>9. Becomes(H)
  BY <1>6 DEF Spawn
<1> HIDE DEF H
<1> QED BY <1>1, <1>8, <1>9, BecomesPause

LEMMA ResumedPause ==
  ASSUME PauseInv, NEW r \in Runs, Resumed(r)
  PROVE  (PauseSame /\ child' = child) \/ (PauseOff /\ act.child = None)
BY PauseFacts, ResumedPlace, SpawnPause DEF PauseSame

LEMMA EndPause ==
  ASSUME PauseInv, NEW r \in Runs, End(r)
  PROVE  \/ PauseSame
         \/ /\ PauseOff
            /\ \/ Encodes(act) /\ act.run = r
               \/ Stranded(Slot)
               \/ \E j \in listed : prio[j] = "asked"
<1> DEFINE R == Released(Slot, r)
           C == ClearStranded(R)
           D == [C EXCEPT !.pumpDue = TRUE]
           H == Handoff(D, prio)
<1>1. R = Slot \/ (Encodes(act) /\ act.run = r /\ Unpaused(R))
  BY PauseFacts, ReleasedPause
<1>2. Sound(R) /\ PausePlaced(R)
  <2>1. child[r] \notin {"live", "refused"} /\ (Encodes(act) /\ act.run = r => Childless(Slot))
    BY PauseFacts, SlotFacts
    DEF End, SlotInv, DiskInv, Living, Alive, ChildOfRun, Childless
  <2>2. Sound(R)
    BY <2>1, PauseFacts, ReleasedSound
  <2> HIDE DEF R
  <2> QED BY <1>1, <2>2, PauseFacts DEF PausePlaced, Unpaused
<1>3. C = R \/ (Stranded(R) /\ C.act = Idle /\ Unpaused(C))
  <2> HIDE DEF R
  <2> QED BY <1>2, ClearStrandedPause
<1>4. Sound(C) /\ PausePlaced(C) /\ C \in SlotType
  <2>1. Stranded(R) => Childless(R)
    <3>1. R = Slot \/ ~Encodes(R.act)
      BY PauseFacts, ReleasedAct
    <3> HIDE DEF R
    <3> QED BY <3>1, PauseFacts, StrandedChildless DEF Stranded
  <2> HIDE DEF R
  <2>2. Sound(C)
    BY <1>2, <2>1, ClearStrandedSound
  <2>3. PausePlaced(C)
    <3> HIDE DEF C
    <3> QED BY <1>2, <1>3 DEF PausePlaced, Unpaused
  <2> QED BY <2>2, <2>3, SoundPlace
<1>5. /\ Sound(D) /\ PausePlaced(D)
      /\ D.act = C.act /\ D.holds = C.holds /\ D.pauseHold = C.pauseHold
  <2> HIDE DEF C
  <2>1. /\ D \in SlotType /\ D.act = C.act /\ D.holds = C.holds /\ D.pauseHold = C.pauseHold
        /\ D.terminating = C.terminating /\ D.handoff = C.handoff /\ D.alive = C.alive
    BY <1>4 DEF SlotType
  <2> HIDE DEF D
  <2> QED BY <1>4, <2>1, SoundFields DEF PausePlaced
<1>6. SamePause(D, H) \/ (Unpaused(H) /\ \E j \in listed : prio[j] = "asked")
  <2> HIDE DEF D
  <2> QED BY <1>5, HandoffPause
<1>7. Becomes(H)
  BY DEF End
<1> HIDE DEF R, C, D, H
<1>8. R = Slot => (Stranded(R) <=> Stranded(Slot))
  OBVIOUS
<1>9. SamePause(Slot, H) => PauseSame
  BY <1>7, PauseFacts, BecomesPause DEF SamePause
<1>10. Unpaused(H) => PauseOff
  BY <1>7, BecomesPause
<1> QED BY <1>1, <1>3, <1>5, <1>6, <1>8, <1>9, <1>10 DEF SamePause, Unpaused

(* A person's pause or resume.                                             *)
LEMMA SetPausedFields ==
  ASSUME PauseInv, NEW j \in Jobs, NEW on \in BOOLEAN, SetPaused(j, on)
  PROVE  /\ act' = act /\ act.kind = "encoding" /\ act.job = j /\ act.child \in Runs
         /\ paused' = [paused EXCEPT ![j] = on]
         /\ UNCHANGED <<child, status, prio>>
         /\ ~on => PauseOff
         /\ on => /\ pauseHold' = [pauseHold EXCEPT ![j] = act.child]
                  /\ holds \subseteq holds'
                  /\ child[act.child] \in {"live", "refused"} => <<act.child, "paused">> \in holds'
<1> DEFINE c == act.child
           R == ReleasePauseHold(Slot, j)
           H == Hold(Slot, c, "paused")
           T == [H EXCEPT !.pauseHold[j] = c]
<1>1. /\ act.kind = "encoding" /\ act.job = j /\ c \in Runs
      /\ paused' = [paused EXCEPT ![j] = on] /\ UNCHANGED <<child, status, prio>>
  BY PauseFacts DEF SetPaused, SlotType, Activity, runs
<1>2. CASE ~on
  <2>1. R.act = act /\ Unpaused(R)
    BY <1>1, PauseFacts DEF ReleasePauseHold, SlotType, Unpaused, PausePlaced
  <2>2. Becomes(R)
    BY <1>2 DEF SetPaused
  <2> HIDE DEF R
  <2> QED BY <1>1, <1>2, <2>1, <2>2, BecomesPause DEF Becomes
<1>3. CASE on /\ pauseHold[j] = None
  <2>1. TakePauseHold(Slot, j, c) = T
    BY <1>1, QueueAssumption DEF TakePauseHold
  <2>2. Becomes(T)
    BY <1>3, <2>1 DEF SetPaused
  <2>3. /\ H \in SlotType /\ H.act = act /\ H.pauseHold = pauseHold
        /\ H.holds = holds \cup (IF c \in Slot.alive THEN {<<c, "paused">>} ELSE {})
    BY <1>1, PauseFacts, HoldFields DEF Reasons
  <2>4. /\ T.act = act /\ T.holds = H.holds
        /\ T.pauseHold = [pauseHold EXCEPT ![j] = c]
    <3> HIDE DEF H, c
    <3> QED BY <2>3 DEF SlotType
  <2>5. child[c] \in {"live", "refused"} => c \in Slot.alive
    BY <1>1, PauseFacts, SlotFacts
  <2> HIDE DEF T, H
  <2> QED BY <1>1, <1>3, <2>2, <2>3, <2>4, <2>5 DEF Becomes
<1>4. CASE on /\ pauseHold[j] # None
  <2>1. /\ pauseHold[j] = c /\ (child[c] \in {"live", "refused"} => <<c, "paused">> \in holds)
    BY <1>4 DEF PauseInv, HoldShown
  <2>2. UNCHANGED <<act, holds, pauseHold>>
    BY <1>4 DEF SetPaused, Becomes, Slot
  <2>3. pauseHold \in [Jobs -> Runs \cup {None}]
    BY PauseFacts DEF SlotType
  <2> QED BY <1>1, <1>4, <2>1, <2>2, <2>3
<1> QED BY <1>1, <1>2, <1>3, <1>4

LEMMA ShownKept ==
  ASSUME PauseInv, PauseSame,
         \A q \in Runs : child'[q] \in {"live", "refused"} => child[q] \in {"live", "refused"},
         \A j \in Jobs : act.kind = "encoding" /\ act.job = j => paused'[j] = paused[j]
  PROVE  HoldShown'
<1>1. \A j \in Jobs : pauseHold[j] \in Runs \cup {None}
  BY PauseFacts DEF SlotType
<1> QED BY <1>1 DEF PauseInv, HoldShown, PauseSame

LEMMA ShownOff == PauseOff => HoldShown'
BY DEF PauseOff, HoldShown

(* A card that is added again is not one that encodes.                     *)
LEMMA PausedStays ==
  ASSUME PauseInv, CardsOnly, NEW j \in Jobs, paused'[j] # paused[j]
  PROVE  Add(j) /\ ~Busy(j) /\ paused'[j] = FALSE
<1>1. paused \in [Jobs -> BOOLEAN]
  BY PauseFacts, SlotFacts DEF TypeOK
<1>2. ASSUME NEW k \in Jobs, Add(k) PROVE k = j /\ paused'[j] = FALSE
  BY <1>1, <1>2 DEF Add
<1>3. (\E k \in Jobs : Add(k)) \/ paused' = paused
  BY DEF CardsOnly, Probe, ProbeUnavailable, Remove, Cancel, CancelEffect, StartBegin,
         StartCommit, StartThrow, CancelAll, HandleWake, cards
<1> QED BY <1>2, <1>3 DEF Add

LEMMA ShownStep == Plain /\ NoAudio /\ PauseInv /\ Next => HoldShown'
<1> SUFFICES ASSUME Plain, NoAudio, PauseInv, Next PROVE HoldShown'
  OBVIOUS
<1>1. SlotInv /\ TypeOK /\ RunInv
  BY PauseFacts, SlotFacts
<1>2. ASSUME NEW j \in Jobs, NEW on \in BOOLEAN, SetPaused(j, on) PROVE HoldShown'
  <2>1. CASE ~on
    BY <1>2, <2>1, SetPausedFields, ShownOff
  <2>2. CASE on
    <3>1. pauseHold \in [Jobs -> Runs \cup {None}] /\ paused \in [Jobs -> BOOLEAN]
      BY <1>1, PauseFacts DEF SlotType, TypeOK
    <3>2. \A k \in Jobs : k # j => pauseHold[k] = None
      BY <1>2, SetPausedFields DEF PauseInv, HoldShown
    <3>3. /\ act' = act /\ act.kind = "encoding" /\ act.job = j /\ act.child \in Runs
          /\ paused' = [paused EXCEPT ![j] = TRUE] /\ child' = child
          /\ pauseHold' = [pauseHold EXCEPT ![j] = act.child]
          /\ child[act.child] \in {"live", "refused"} => <<act.child, "paused">> \in holds'
      BY <1>2, <2>2, SetPausedFields
    <3>4. \A k \in Jobs : pauseHold'[k] # None => k = j
      BY <3>1, <3>2, <3>3
    <3>5. pauseHold'[j] = act.child /\ paused'[j]
      BY <3>1, <3>3
    <3> QED BY <3>3, <3>4, <3>5 DEF HoldShown
  <2> QED BY <2>1, <2>2
<1>3. ASSUME CalmStep, \A j \in Jobs, on \in BOOLEAN : ~SetPaused(j, on) PROVE HoldShown'
  <2>1. UNCHANGED <<child, paused>>
    BY <1>3 DEF CalmStep, Prioritize, CancelPrioritized, Measure, PumpSkip, PumpDrained,
                HandoffEnd, Read, WatchdogTick, ToolsLost, ToolsBack, RequestUpdateDrain,
                cards, runs
  <2> QED BY <1>3, <2>1, CalmPause, ShownKept, ShownOff
<1>4. CASE CardsOnly
  <2>1. child' = child
    BY <1>4, RunsStay
  <2>2. ASSUME NEW j \in Jobs, act.kind = "encoding", act.job = j PROVE paused'[j] = paused[j]
    <3>1. Busy(j)
      BY <1>1, <2>2, RunFacts DEF Busy, Encodes
    <3> QED BY <1>4, <3>1, PausedStays
  <2> QED BY <1>4, <2>1, <2>2, CardsPause, ShownKept, ShownOff
<1>5. ASSUME NEW j \in Jobs, NEW r \in Runs, PumpClaim(j, r) PROVE HoldShown'
  BY <1>5, ClaimPause, ShownOff
<1>6. ASSUME NEW r \in Runs, Resumed(r) PROVE HoldShown'
  <2>1. paused' = paused
    BY <1>6 DEF Resumed, StopSeen, Fail, Spawn, Retry, Moves, RuntimeFailure, Complete,
                Abandon, cards
  <2> QED BY <1>6, <2>1, ResumedPause, ShownKept, ShownOff
<1>7. ASSUME NEW r \in Runs, End(r) PROVE HoldShown'
  <2>1. paused' = paused /\ child' = [child EXCEPT ![r] = "none"]
    BY <1>7 DEF End, cards
  <2>2. child \in [Runs -> Processes]
    BY <1>1, DiskFacts DEF SlotInv
  <2> QED BY <1>7, <2>1, <2>2, EndPause, ShownKept, ShownOff
<1>8. ASSUME NEW r \in Runs, Vanish(r) \/ \E result \in Results : Exit(r, result)
      PROVE  HoldShown'
  <2>1. /\ act' = act /\ pauseHold' = pauseHold /\ paused' = paused
        /\ holds' = {h \in holds : h[1] # r}
    BY <1>8 DEF Vanish, Exit, Becomes, Slot, cards
  <2>2. /\ child \in [Runs -> Processes]
        /\ \E result \in Processes \ {"live", "refused"} : child' = [child EXCEPT ![r] = result]
    BY <1>1, <1>8, DiskFacts DEF SlotInv, Vanish, Exit, Results, Processes
  <2>3. \A j \in Jobs : pauseHold[j] \in Runs \cup {None}
    BY PauseFacts DEF SlotType
  <2> QED BY <2>1, <2>2, <2>3 DEF PauseInv, HoldShown
<1>9. Plain => NoRepeatStop /\ (OwnInv => NoStopUnderWay)
  BY DEF Plain, OwnInv
<1>10. OwnInv
  BY <1>1 DEF RunInv
<1> QED BY <1>2, <1>3, <1>4, <1>5, <1>6, <1>7, <1>8, <1>9, <1>10, SortedSteps

LEMMA ShownStutter == HoldShown /\ UNCHANGED vars => HoldShown'
BY DEF HoldShown, vars, slot, cards, runs

LEMMA PauseInvariant == Plain /\ NoAudio => (Spec => []PauseInv)
<1> SUFFICES ASSUME Plain, NoAudio PROVE Spec => []PauseInv
  OBVIOUS
<1>1. Init => HoldShown
  BY DEF Init, HoldShown
<1>2. SlotInv /\ HoldShown /\ [Next]_vars => HoldShown'
  BY ShownStep, ShownStutter DEF PauseInv
<1>3. Spec => []SlotInv
  BY SlotInvariant
<1>4. PauseInv <=> SlotInv /\ HoldShown
  BY DEF PauseInv
<1> QED BY <1>1, <1>2, <1>3, <1>4, PTL DEF Spec

(* An encoder that a person's pause holds down is that of the encode in    *)
(* the slot, and its card says it is paused (queue.ts, setPaused and       *)
(* setActivity): whatever a stop, a restart of the card, an estimate or    *)
(* the end of the run did to the slot, the pause ended with its encode,    *)
(* and the button that would end it was never lost.                        *)
THEOREM HoldIsShown == Plain /\ NoAudio => (Spec => []HeldIsShown)
<1> SUFFICES ASSUME Plain, NoAudio PROVE Spec => []HeldIsShown
  OBVIOUS
<1>1. PauseInv => HeldIsShown
  <2> SUFFICES ASSUME PauseInv, NEW r \in Runs, <<r, "paused">> \in holds
               PROVE  act.kind = "encoding" /\ act.child = r /\ paused[act.job]
    BY DEF HeldIsShown
  <2>1. Encodes(act) /\ act.child = r /\ pauseHold[act.job] = r /\ act.job \in Jobs
    BY PauseFacts DEF Sound, Holding
  <2>2. r # None
    BY QueueAssumption
  <2> QED BY <2>1, <2>2 DEF PauseInv, HoldShown
<1> QED BY <1>1, PauseInvariant, PTL

-----------------------------------------------------------------------------
(* A pause that lasts.  Two behaviours of the code end or keep one behind  *)
(* its card's back: the estimate handoff, which lets go of the pause of    *)
(* the encode it holds, and a card that is started again, which goes on    *)
(* saying paused.  Without them a card says paused exactly while its       *)
(* encoder is held.                                                        *)

NoEstimates == "prioritize" \notin Ops
NoRestart == "rerun" \notin Ops

Unasked == \A j \in Jobs : prio[j] # "asked"
WaitsUnpaused == \A j \in Jobs : status[j] \in Waiting => ~paused[j]
PauseLasts == \A j \in Jobs : status[j] = "processing" /\ paused[j] => pauseHold[j] # None

LastInv == PauseInv /\ Unasked /\ WaitsUnpaused /\ PauseLasts

LEMMA LastFacts ==
  ASSUME LastInv
  PROVE  /\ PauseInv /\ SlotInv /\ RunInv /\ OwnInv /\ TypeOK /\ NoStopUnderWay
         /\ status \in [Jobs -> Status \cup {"absent"}] /\ paused \in [Jobs -> BOOLEAN]
         /\ pauseHold \in [Jobs -> Runs \cup {None}]
         /\ \A j \in Jobs : prio[j] # "asked"
         /\ listed \subseteq Jobs
BY PauseFacts, SlotFacts DEF LastInv, Unasked, RunInv, OwnInv, TypeOK

LEMMA UnaskedStep == NoEstimates /\ Unasked /\ TypeOK /\ Next => Unasked'
<1> SUFFICES ASSUME NoEstimates, Unasked, TypeOK, Next PROVE Unasked'
  OBVIOUS
<1>1. prio \in [Jobs -> {"idle", "asked", "measured"}]
  BY DEF TypeOK
<1>2. ASSUME NEW j \in Jobs,
             \/ Add(j) \/ ProbeUnavailable(j) \/ Cancel(j) \/ CancelEnd(j)
             \/ CancelPrioritized(j) \/ Measure(j)
      PROVE  Unasked'
  BY <1>1, <1>2 DEF Add, ProbeUnavailable, AbandonBatch, Cancel, CancelEnd, CancelEffect,
                    CancelPrioritized, Measure, Unasked
<1>3. ASSUME NEW J \in SUBSET Jobs, StartBegin(J) PROVE Unasked'
  BY <1>1, <1>3 DEF StartBegin, Unasked
<1>4. ASSUME NEW j \in Jobs, NEW r \in Runs, PumpClaim(j, r) PROVE Unasked'
  BY <1>1, <1>4 DEF PumpClaim, Unasked
<1>5. ASSUME NEW r \in Runs, Abandon(r) PROVE Unasked'
  BY <1>1, <1>5 DEF Abandon, AbandonBatch, Unasked
<1>6. CASE CancelAll
  BY <1>1, <1>6 DEF CancelAll, Unasked
<1>7. ASSUME NEW j \in Jobs, Prioritize(j) PROVE FALSE
  BY <1>7 DEF Prioritize, NoEstimates
<1>8. CASE prio' = prio
  BY <1>8 DEF Unasked
<1>9. \/ prio' = prio
      \/ \E j \in Jobs : \/ Add(j) \/ ProbeUnavailable(j) \/ Cancel(j) \/ CancelEnd(j)
                         \/ CancelPrioritized(j) \/ Measure(j) \/ Prioritize(j)
      \/ \E J \in SUBSET Jobs : StartBegin(J)
      \/ \E j \in Jobs, r \in Runs : PumpClaim(j, r)
      \/ \E r \in Runs : Abandon(r)
      \/ CancelAll
  <2>1. ASSUME NEW r \in Runs,
               \/ \E ok \in BOOLEAN : Prepared(r, ok)
               \/ Encoded(r) \/ Fallback(r) \/ End(r) \/ Vanish(r)
               \/ \E result \in {"ok", "bad", "tool"} : Validated(r, result)
               \/ \E result \in Results : Exit(r, result)
        PROVE  prio' = prio
    BY <2>1 DEF Prepared, Encoded, Fallback, Validated, StopSeen, Fail, Spawn, Retry, Moves,
                RuntimeFailure, Complete, End, Vanish, Exit, cards
  <2>2. ASSUME NEW j \in Jobs,
               \/ \E ok \in BOOLEAN : Probe(j, ok)
               \/ Remove(j) \/ CancelBegin(j) \/ \E on \in BOOLEAN : SetPaused(j, on)
        PROVE  prio' = prio
    BY <2>2 DEF Probe, Remove, CancelBegin, SetPaused, cards
  <2>3. \/ StartCommit \/ StartThrow \/ PumpSkip \/ PumpDrained \/ HandoffEnd \/ Read
        \/ WatchdogTick \/ ToolsLost \/ ToolsBack \/ RequestUpdateDrain \/ HandleWake
        => prio' = prio
    BY DEF StartCommit, StartThrow, PumpSkip, PumpDrained, HandoffEnd, Read, WatchdogTick,
           ToolsLost, ToolsBack, RequestUpdateDrain, HandleWake, cards
  <2> QED BY <2>1, <2>2, <2>3, Steps DEF Outside
<1> QED BY <1>2, <1>3, <1>4, <1>5, <1>6, <1>7, <1>8, <1>9

(* A card comes to wait only from waiting, or as a new one.                *)
LEMMA CardsWait ==
  ASSUME NoRestart, LastInv, CardsOnly, NEW j \in Jobs, status'[j] \in Waiting
  PROVE  status[j] \in Waiting \/ Add(j)
<1>1. /\ status \in [Jobs -> Status \cup {"absent"}]
      /\ "analyzing" \in Waiting /\ "ready" \in Waiting /\ "queued" \in Waiting
      /\ "cancelled" \notin Waiting /\ "interrupted" \notin Waiting
  BY LastFacts DEF Waiting
<1>2. \A k, s : s \notin Waiting /\ Moved(status, k, s)[j] \in Waiting => status[j] \in Waiting
  BY <1>1 DEF Moved
<1>3. ASSUME NEW k \in Jobs, Add(k) PROVE status[j] \in Waiting \/ k = j
  BY <1>1, <1>3 DEF Add
<1>4. ASSUME NEW k \in Jobs,
             \/ \E ok \in BOOLEAN : Probe(k, ok)
             \/ ProbeUnavailable(k) \/ Remove(k)
      PROVE  status[j] \in Waiting
  BY <1>1, <1>4 DEF Probe, Moved, ProbeUnavailable, AbandonBatch, Given, Remove
<1>5. ASSUME NEW k \in Jobs, Cancel(k) PROVE status[j] \in Waiting
  <2>1. status' = Moved(status, k, "cancelled")
    BY <1>5 DEF Cancel, CancelEffect
  <2> QED BY <1>1, <1>2, <2>1
<1>6. ASSUME NEW J \in SUBSET Jobs, StartBegin(J) PROVE status[j] \in Waiting
  BY <1>6 DEF StartBegin, NoRestart
<1>7. CASE StartCommit
  <2>1. \A k \in starting : status[k] = "ready"
    BY LastFacts DEF SlotInv, DiskInv, StartingReady
  <2> QED BY <1>1, <1>7, <2>1 DEF StartCommit
<1>8. CASE StartThrow \/ CancelAll
  BY <1>1, <1>8 DEF StartThrow, CancelAll, cards
<1>9. CASE HandleWake
  BY <1>1, <1>2, <1>9 DEF HandleWake
<1> QED BY <1>3, <1>4, <1>5, <1>6, <1>7, <1>8, <1>9 DEF CardsOnly

(* What a run or its encoder leaves of the cards.                          *)
LEMMA RunPaused ==
  ASSUME LastInv, NEW r \in Runs,
         \/ Resumed(r) \/ End(r) \/ Vanish(r)
         \/ \E result \in Results : Exit(r, result)
  PROVE  /\ paused' = paused
         /\ \A j \in Jobs : status'[j] \in Waiting => status[j] \in Waiting
         /\ \A j \in Jobs : status'[j] = "processing" => status[j] = "processing"
<1>1. CASE Resumed(r)
  <2>1. paused' = paused
    BY <1>1 DEF Resumed, StopSeen, Fail, Spawn, Retry, Moves, RuntimeFailure, Complete,
                Abandon, cards
  <2> QED BY <1>1, <2>1, LastFacts, RunFacts, ResumedCards DEF Waiting, Settled
<1>2. CASE End(r) \/ Vanish(r) \/ \E result \in Results : Exit(r, result)
  BY <1>2 DEF End, Vanish, Exit, cards
<1> QED BY <1>1, <1>2

LEMMA CalmPaused ==
  ASSUME CalmStep, \A j \in Jobs, on \in BOOLEAN : ~SetPaused(j, on)
  PROVE  UNCHANGED <<status, paused, child>>
BY DEF CalmStep, Prioritize, CancelPrioritized, Measure, PumpSkip, PumpDrained, HandoffEnd,
       Read, WatchdogTick, ToolsLost, ToolsBack, RequestUpdateDrain, cards, runs

LEMMA SortedAgain ==
  ASSUME Plain, LastInv, Next
  PROVE  \/ CalmStep
         \/ CardsOnly
         \/ \E j \in Jobs, r \in Runs : PumpClaim(j, r)
         \/ \E r \in Runs : \/ Resumed(r) \/ End(r) \/ Vanish(r)
                            \/ \E result \in Results : Exit(r, result)
BY LastFacts, SortedSteps DEF Plain

LEMMA WaitsStep == Plain /\ NoRestart /\ LastInv /\ Next => WaitsUnpaused'
<1> SUFFICES ASSUME Plain, NoRestart, LastInv, Next, NEW j \in Jobs, status'[j] \in Waiting
             PROVE  ~paused'[j]
  BY DEF WaitsUnpaused
<1>0. status[j] \in Waiting => ~paused[j]
  BY DEF LastInv, WaitsUnpaused
<1>1. ASSUME NEW k \in Jobs, NEW on \in BOOLEAN, SetPaused(k, on) PROVE ~paused'[j]
  <2>1. status' = status /\ paused' = [paused EXCEPT ![k] = on] /\ status[k] = "processing"
    BY <1>1 DEF SetPaused
  <2>2. k # j
    BY <2>1 DEF Waiting
  <2> QED BY <1>0, <2>1, <2>2, LastFacts
<1>2. ASSUME CalmStep, \A k \in Jobs, on \in BOOLEAN : ~SetPaused(k, on) PROVE ~paused'[j]
  BY <1>0, <1>2, CalmPaused
<1>3. CASE CardsOnly
  <2>1. Add(j) => ~paused'[j]
    BY LastFacts DEF Add
  <2> QED BY <1>0, <1>3, <2>1, LastFacts, CardsWait, PausedStays
<1>4. ASSUME NEW k \in Jobs, NEW r \in Runs, PumpClaim(k, r) PROVE ~paused'[j]
  <2>1. status' = [status EXCEPT ![k] = "processing"] /\ paused' = paused
    BY <1>4, LastFacts, ClaimAct DEF PumpClaim
  <2> QED BY <1>0, <2>1, LastFacts DEF Waiting
<1>5. ASSUME NEW r \in Runs,
             \/ Resumed(r) \/ End(r) \/ Vanish(r)
             \/ \E result \in Results : Exit(r, result)
      PROVE  ~paused'[j]
  BY <1>0, <1>5, RunPaused
<1> QED BY <1>1, <1>2, <1>3, <1>4, <1>5, SortedAgain

(* The encode of a card that goes on compressing keeps its hold.           *)
LEMMA LastsStep == Plain /\ NoEstimates /\ LastInv /\ Next => PauseLasts'
<1> SUFFICES ASSUME Plain, NoEstimates, LastInv, Next, NEW j \in Jobs,
                    status'[j] = "processing", paused'[j]
             PROVE  pauseHold'[j] # None
  BY DEF PauseLasts
<1> None \notin Runs
  BY QueueAssumption
<1>1. ASSUME status[j] = "processing", paused[j]
      PROVE  /\ pauseHold[j] # None /\ act.kind = "encoding" /\ act.job = j
             /\ act.child # None /\ pc[act.run] \notin Unwinding
             /\ ~Stranded(Slot)
             /\ PauseSame => pauseHold'[j] # None
             /\ ~PauseOff \/ pauseHold'[j] = None
  <2>1. pauseHold[j] # None
    BY <1>1 DEF LastInv, PauseLasts
  <2>2. act.kind = "encoding" /\ act.job = j /\ act.child = pauseHold[j]
    BY <2>1, LastFacts DEF PauseInv, HoldShown
  <2>3. pc[act.run] \notin Unwinding /\ ~Stranded(Slot)
    BY <1>1, LastFacts, OwnedNotStranded DEF OwnInv, Owned, Compressing
  <2> QED BY <2>1, <2>2, <2>3 DEF PauseSame, PauseOff
<1>2. ASSUME NEW k \in Jobs, NEW on \in BOOLEAN, SetPaused(k, on) PROVE pauseHold'[j] # None
  <2>1. status[j] = "processing"
    BY <1>2 DEF SetPaused
  <2>2. k = j
    <3>1. act.job = k /\ act.job = j
      BY <1>2, <2>1, LastFacts DEF SetPaused, OwnInv, Owned
    <3> QED BY <3>1
  <2>3. paused' = [paused EXCEPT ![j] = on]
    BY <1>2, <2>2 DEF SetPaused
  <2>4. on
    BY <2>3, LastFacts
  <2> QED BY <1>2, <2>2, <2>4, LastFacts, SetPausedFields
<1>3. ASSUME CalmStep, \A k \in Jobs, on \in BOOLEAN : ~SetPaused(k, on)
      PROVE  pauseHold'[j] # None
  <2>1. status[j] = "processing" /\ paused[j]
    BY <1>3, CalmPaused
  <2>2. ~\E k \in Jobs : Prioritize(k)
    BY DEF Prioritize, NoEstimates
  <2> QED BY <1>1, <1>3, <2>1, <2>2, LastFacts, CalmPause
<1>4. CASE CardsOnly
  <2>1. status[j] = "processing" /\ Encodes(act')
    BY <1>4, LastFacts, CardsStay DEF OwnStays
  <2>2. paused[j]
    BY <1>4, LastFacts, PausedStays
  <2> QED BY <1>1, <1>4, <2>1, <2>2, LastFacts, CardsPause
<1>5. ASSUME NEW k \in Jobs, NEW r \in Runs, PumpClaim(k, r) PROVE FALSE
  <2>1. /\ status' = [status EXCEPT ![k] = "processing"] /\ paused' = paused
        /\ status[k] = "queued" /\ ~Encodes(act)
    BY <1>5, LastFacts, ClaimAct DEF PumpClaim
  <2>2. ~paused[k]
    BY <2>1 DEF LastInv, WaitsUnpaused, Waiting
  <2>3. status[j] = "processing"
    BY <2>1, <2>2, LastFacts
  <2> QED BY <2>1, <2>3, LastFacts DEF OwnInv, Owned
<1>6. ASSUME NEW r \in Runs,
             \/ Resumed(r) \/ End(r) \/ Vanish(r)
             \/ \E result \in Results : Exit(r, result)
      PROVE  pauseHold'[j] # None
  <2>1. status[j] = "processing" /\ paused[j]
    BY <1>6, RunPaused
  <2>2. CASE Resumed(r)
    BY <1>1, <2>1, <2>2, LastFacts, ResumedPause
  <2>3. CASE End(r)
    <3>1. act.run # r
      BY <1>1, <2>1, <2>3 DEF End, Unwinding
    <3>2. ~\E k \in listed : prio[k] = "asked"
      BY LastFacts
    <3> QED BY <1>1, <2>1, <2>3, <3>1, <3>2, LastFacts, EndPause
  <2>4. CASE Vanish(r) \/ \E result \in Results : Exit(r, result)
    <3>1. pauseHold' = pauseHold
      BY <2>4 DEF Vanish, Exit, Becomes, Slot
    <3> QED BY <1>1, <2>1, <3>1
  <2> QED BY <1>6, <2>2, <2>3, <2>4
<1> QED BY <1>2, <1>3, <1>4, <1>5, <1>6, SortedAgain

LEMMA LastInvariant ==
  Plain /\ NoAudio /\ NoEstimates /\ NoRestart => (Spec => []LastInv)
<1> SUFFICES ASSUME Plain, NoAudio, NoEstimates, NoRestart PROVE Spec => []LastInv
  OBVIOUS
<1>1. Init => Unasked /\ WaitsUnpaused /\ PauseLasts
  BY DEF Init, Unasked, WaitsUnpaused, PauseLasts
<1>2. LastInv /\ [Next]_vars => (Unasked /\ WaitsUnpaused /\ PauseLasts)'
  <2>1. LastInv /\ Next => (Unasked /\ WaitsUnpaused /\ PauseLasts)'
    BY LastFacts, UnaskedStep, WaitsStep, LastsStep DEF LastInv
  <2>2. LastInv /\ UNCHANGED vars => (Unasked /\ WaitsUnpaused /\ PauseLasts)'
    BY DEF LastInv, Unasked, WaitsUnpaused, PauseLasts, vars, cards, slot
  <2> QED BY <2>1, <2>2
<1>3. Spec => []PauseInv
  BY PauseInvariant
<1>4. LastInv <=> PauseInv /\ Unasked /\ WaitsUnpaused /\ PauseLasts
  BY DEF LastInv
<1> QED BY <1>1, <1>2, <1>3, <1>4, PTL DEF Spec

(* The pause a card shows is the pause of its encoder (queue.ts, setPaused *)
(* and pump): while no estimate is asked for during an encode, and no card *)
(* is started a second time, whatever is paused, stopped, put to sleep,    *)
(* killed, removed or added meanwhile.  Both exceptions are real: the      *)
(* handoff lets a pause go, and a run that starts again keeps the old one. *)
THEOREM PauseIsTrue ==
  Plain /\ NoAudio /\ NoEstimates /\ NoRestart => (Spec => []PausedMeansSuspended)
<1> SUFFICES ASSUME Plain, NoAudio, NoEstimates, NoRestart
             PROVE  Spec => []PausedMeansSuspended
  OBVIOUS
<1>1. LastInv => PausedMeansSuspended
  <2> SUFFICES ASSUME LastInv, NEW r \in Runs, child[r] = "live", act.kind = "encoding",
                      act.child = r, status[act.job] = "processing"
               PROVE  paused[act.job] <=> <<r, "paused">> \in holds
    BY DEF PausedMeansSuspended
  <2>1. act.job \in Jobs /\ (<<r, "paused">> \in holds => pauseHold[act.job] = r) /\ r # None
    BY LastFacts, PauseFacts, QueueAssumption DEF Sound, Holding
  <2>2. <<r, "paused">> \in holds => paused[act.job]
    BY <2>1, LastFacts DEF PauseInv, HoldShown
  <2>3. paused[act.job] => <<r, "paused">> \in holds
    BY <2>1, LastFacts DEF LastInv, PauseLasts, PauseInv, HoldShown
  <2> QED BY <2>2, <2>3
<1> QED BY <1>1, LastInvariant, PTL
=============================================================================
