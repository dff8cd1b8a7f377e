----------------------- MODULE CompressorQueueProofs -----------------------
(***************************************************************************)
(* Theorems about CompressorQueue, for every value of its constants: its   *)
(* variables keep their types (TypeCorrect, with the lemmas about the      *)
(* operators on slot records that the proofs about the actions cite), and  *)
(* what happens to the cards of the list.                                  *)
(*                                                                         *)
(* No accepted card is forgotten: a queued card belongs to the open batch  *)
(* (BatchHolds), and the drain watchdog is armed as long as there is one   *)
(* (WatchHolds).  Neither is inductive alone.  The watchdog retires when   *)
(* no card of the open batch is queued, which says something about every   *)
(* queued card only because of QueuedInOpenBatch; and start() replaces the *)
(* batch in its second half, which forgets nothing only because nothing    *)
(* can become queued between its halves (StartAlone).                      *)
(*                                                                         *)
(* No card is admitted while an update drains the queue (DrainHolds): a    *)
(* drain is promised only while something is under way, and then start()   *)
(* is not between its halves.                                              *)
(*                                                                         *)
(* The queue implements the list its interface is promised                 *)
(* (CardsImplemented).  Every write of a status goes through the table,    *)
(* with three exceptions in the code that have to be argued: start() puts  *)
(* settled cards back to ready before their edges are consulted, a stop of *)
(* everything writes cancelled, and the stop of a queued repeat makes two  *)
(* moves at once.                                                          *)
(***************************************************************************)
EXTENDS CompressorQueue, FilterProofs

-----------------------------------------------------------------------------
(* Choosing an output name.                                                *)

(* nextOutputPath() answers one of the free names.                         *)
LEMMA NextOutputFree ==
  ASSUME NEW j, NEW reserved, FreeSlots(j, reserved) # {}
  PROVE  NextOutput(j, reserved) \in FreeSlots(j, reserved)
<1>1. FreeSlots(j, reserved) \subseteq Nat
  BY QueueAssumption DEF FreeSlots
<1>2. \E s \in FreeSlots(j, reserved) : \A t \in FreeSlots(j, reserved) : s <= t
  BY <1>1, LeastNatural
<1> QED BY <1>2 DEF NextOutput

LEMMA NextOutputType ==
  ASSUME NEW j, NEW reserved, FreeSlots(j, reserved) # {}
  PROVE  NextOutput(j, reserved) \in Slots
BY NextOutputFree DEF FreeSlots

-----------------------------------------------------------------------------
(* Slot records: what each method leaves well typed, and that none of them *)
(* disarms the watchdog.                                                   *)

SlotType == [act : Activity, holds : SUBSET (Runs \X Reasons),
             pauseHold : [Jobs -> Runs \cup {None}],
             watchdog : BOOLEAN, pumpDue : BOOLEAN, terminating : SUBSET Runs,
             handoff : {"none", "encoding", "idle"}, alive : SUBSET Runs]

Keeps(S, T) == T \in SlotType /\ (S.watchdog => T.watchdog)

LEMMA SlotTyped == TypeOK => Slot \in SlotType /\ Slot.watchdog = watchdog
BY DEF TypeOK, Slot, SlotType

LEMMA KeepsTrans ==
  ASSUME NEW S, NEW T, NEW U, Keeps(S, T), Keeps(T, U)
  PROVE  Keeps(S, U)
BY DEF Keeps

LEMMA IdleTyped == Idle \in Activity /\ Estimating \in Activity
<1>1. Idle \in Activity
  BY DEF Idle, Activity
<1>2. Estimating = [kind |-> "estimating", job |-> None, run |-> None, child |-> None]
  BY DEF Estimating, Idle
<1> QED BY <1>1, <1>2 DEF Activity

LEMMA HoldKeeps ==
  ASSUME NEW S \in SlotType, NEW r, NEW why \in Reasons
  PROVE  Keeps(S, Hold(S, r, why))
BY DEF Hold, SlotType, Keeps

LEMMA TakePauseHoldKeeps ==
  ASSUME NEW S \in SlotType, NEW j, NEW r \in Runs \cup {None}
  PROVE  Keeps(S, TakePauseHold(S, j, r))
<1>1. CASE r = None
  BY <1>1 DEF TakePauseHold, Keeps
<1>2. CASE r # None
  <2> DEFINE H == Hold(S, r, "paused")
  <2>1. Keeps(S, H)
    BY HoldKeeps DEF Reasons
  <2>2. TakePauseHold(S, j, r) = [H EXCEPT !.pauseHold[j] = r]
    BY <1>2 DEF TakePauseHold
  <2> HIDE DEF H
  <2> QED BY <2>1, <2>2, <1>2 DEF SlotType, Keeps
<1> QED BY <1>1, <1>2

LEMMA ReleasePauseHoldKeeps ==
  ASSUME NEW S \in SlotType, NEW j
  PROVE  Keeps(S, ReleasePauseHold(S, j))
BY DEF ReleasePauseHold, SlotType, Keeps

LEMMA PauseFollowsKeeps ==
  ASSUME NEW S \in SlotType, NEW next \in Activity
  PROVE  Keeps(S, PauseFollows(S, next))
<1> DEFINE P == ReleasePauseHold(S, S.act.job)
<1>1. Keeps(S, P)
  BY ReleasePauseHoldKeeps
<1>2. next.child \in Runs \cup {None}
  BY DEF Activity
<1>3. Keeps(P, TakePauseHold(P, S.act.job, next.child))
  <2>1. P \in SlotType
    BY <1>1 DEF Keeps
  <2> HIDE DEF P
  <2> QED BY <2>1, <1>2, TakePauseHoldKeeps
<1>4. Keeps(S, TakePauseHold(P, S.act.job, next.child))
  BY <1>1, <1>3, KeepsTrans
<1>5. Keeps(S, S)
  BY DEF Keeps
<1> QED BY <1>1, <1>4, <1>5 DEF PauseFollows

(* setActivity(): any activity arms the watchdog, and none disarms it.     *)
LEMMA SetActivityKeeps ==
  ASSUME NEW S \in SlotType, NEW next \in Activity
  PROVE  Keeps(S, SetActivity(S, next)) /\ SetActivity(S, next).act = next
<1> DEFINE P == PauseFollows(S, next)
<1>1. Keeps(S, P)
  BY PauseFollowsKeeps
<1>2. SetActivity(S, next) = [P EXCEPT !.act = next, !.watchdog = @ \/ next.kind # "idle"]
  BY DEF SetActivity
<1> HIDE DEF P
<1> QED BY <1>1, <1>2 DEF SlotType, Keeps

LEMMA ReleaseEstimateHoldKeeps ==
  ASSUME NEW S \in SlotType
  PROVE  Keeps(S, ReleaseEstimateHold(S))
<1>1. CASE S.act.kind # "held"
  BY <1>1 DEF ReleaseEstimateHold, Keeps
<1>2. CASE S.act.kind = "held"
  <2> DEFINE A == [S.act EXCEPT !.kind = "encoding"]
             T == SetActivity(S, A)
  <2>1. A \in Activity
    BY DEF SlotType, Activity
  <2>2. Keeps(S, T)
    <3> HIDE DEF A
    <3> QED BY <2>1, SetActivityKeeps
  <2>3. ReleaseEstimateHold(S) = [T EXCEPT !.holds = @ \ {<<S.act.child, "estimate">>}]
    BY <1>2 DEF ReleaseEstimateHold
  <2> HIDE DEF T
  <2> QED BY <2>2, <2>3 DEF SlotType, Keeps
<1> QED BY <1>1, <1>2

LEMMA SignalKeeps ==
  ASSUME NEW S \in SlotType, NEW r
  PROVE  Keeps(S, Signal(S, r))
BY DEF Signal, SlotType, Keeps

LEMMA StopActiveEncodeKeeps ==
  ASSUME NEW S \in SlotType
  PROVE  Keeps(S, StopActiveEncode(S))
<1>1. CASE ~Encodes(S.act)
  BY <1>1 DEF StopActiveEncode, Keeps
<1>2. CASE Encodes(S.act)
  <2> DEFINE R == ReleaseEstimateHold(S)
             G == Signal(R, S.act.child)
             T == SetActivity(G, Idle)
  <2>1. Keeps(S, R)
    BY ReleaseEstimateHoldKeeps
  <2>2. Keeps(R, G)
    <3> HIDE DEF R
    <3> QED BY <2>1, SignalKeeps DEF Keeps
  <2>3. Keeps(G, T)
    <3> HIDE DEF G
    <3> QED BY <2>2, SetActivityKeeps, IdleTyped DEF Keeps
  <2>4. Keeps(S, T)
    BY <2>1, <2>2, <2>3, KeepsTrans
  <2>5. StopActiveEncode(S) = [T EXCEPT !.pumpDue = TRUE]
    BY <1>2 DEF StopActiveEncode
  <2> HIDE DEF T
  <2> QED BY <2>4, <2>5 DEF SlotType, Keeps
<1> QED BY <1>1, <1>2

LEMMA ClearStrandedKeeps ==
  ASSUME NEW S \in SlotType
  PROVE  Keeps(S, ClearStranded(S))
BY SetActivityKeeps, IdleTyped DEF ClearStranded, Keeps

LEMMA ReleasedKeeps ==
  ASSUME NEW S \in SlotType, NEW r
  PROVE  Keeps(S, Released(S, r))
BY SetActivityKeeps, IdleTyped DEF Released, Keeps

(* The handoff claims the slot or holds the encoder, whoever asks.         *)
LEMMA HandoffKeeps ==
  ASSUME NEW S \in SlotType, NEW pr
  PROVE  Keeps(S, Handoff(S, pr))
<1> DEFINE A == [S.act EXCEPT !.kind = "held"]
           H == Hold(S, S.act.child, "estimate")
           held == SetActivity(H, A)
<1>1. A \in Activity
  BY DEF SlotType, Activity
<1>2. Keeps(S, H)
  BY HoldKeeps DEF Reasons
<1>3. Keeps(S, held)
  <2>1. H \in SlotType
    BY <1>2 DEF Keeps
  <2>2. Keeps(H, held)
    <3> HIDE DEF H, A
    <3> QED BY <2>1, <1>1, SetActivityKeeps
  <2> QED BY <1>2, <2>2, KeepsTrans
<1>4. Keeps(S, ReleaseEstimateHold(held))
  <2> HIDE DEF held
  <2>1. Keeps(held, ReleaseEstimateHold(held))
    BY <1>3, ReleaseEstimateHoldKeeps DEF Keeps
  <2> QED BY <2>1, <1>3, KeepsTrans
<1>5. Keeps(S, [held EXCEPT !.handoff = "encoding"])
  <2> HIDE DEF held
  <2> QED BY <1>3 DEF SlotType, Keeps
<1>6. /\ Keeps(S, S)
      /\ Keeps(S, [S EXCEPT !.pumpDue = TRUE])
      /\ Keeps(S, [S EXCEPT !.act = Estimating, !.handoff = "idle"])
  BY IdleTyped DEF SlotType, Keeps
<1> HIDE DEF held
<1>7. Handoff(S, pr) \in {S, [S EXCEPT !.pumpDue = TRUE],
                          [S EXCEPT !.act = Estimating, !.handoff = "idle"],
                          [held EXCEPT !.handoff = "encoding"],
                          ReleaseEstimateHold(held)}
  BY DEF Handoff, held
<1> QED BY <1>4, <1>5, <1>6, <1>7

LEMMA AttachKeeps ==
  ASSUME NEW S \in SlotType, NEW r \in Runs
  PROVE  Keeps(S, Attach(S, r))
<1> DEFINE F == [S EXCEPT !.alive = @ \cup {r},
                          !.act.child = IF @ = r THEN None ELSE @]
           A == [S.act EXCEPT !.child = r]
<1>1. Keeps(S, F)
  BY DEF SlotType, Keeps, Activity
<1>2. A \in Activity
  BY DEF SlotType, Activity
<1>3. Keeps(F, SetActivity(F, A))
  <2> HIDE DEF F, A
  <2> QED BY <1>1, <1>2, SetActivityKeeps DEF Keeps
<1>4. Keeps(S, SetActivity(F, A))
  BY <1>1, <1>3, KeepsTrans
<1>5. Attach(S, r) \in {F, SetActivity(F, A)}
  BY DEF Attach
<1> QED BY <1>1, <1>4, <1>5

-----------------------------------------------------------------------------
(* Type correctness.                                                       *)

CardsType == /\ status \in [Jobs -> Status \cup {"absent"}]
             /\ listed \subseteq Jobs
             /\ out \in [Jobs -> Slots \cup {NoSlot}]
             /\ prev \in [Jobs -> Slots \cup {NoSlot}]
             /\ paused \in [Jobs -> BOOLEAN]
             /\ prio \in [Jobs -> {"idle", "asked", "measured"}]
DiskType == /\ file \in [Jobs -> [Slots -> {"none", "partial", "good"}]]
            /\ writing \in [Runs -> Slots \cup {NoSlot}]
SlotVarsType == /\ act \in Activity
                /\ holds \subseteq Runs \X Reasons
                /\ pauseHold \in [Jobs -> Runs \cup {None}]
                /\ watchdog \in BOOLEAN
                /\ pumpDue \in BOOLEAN
                /\ terminating \subseteq Runs
                /\ handoff \in {"none", "encoding", "idle"}
RunsType == /\ pc \in [Runs -> Places]
            /\ rjob \in [Runs -> Jobs \cup {None}]
            /\ child \in [Runs -> Processes]
ListsType == /\ batch \in {"none", "open", "closed"}
             /\ inBatch \subseteq Jobs
             /\ starting \subseteq Jobs
             /\ cancelling \in [Jobs -> Cancels]
EnvType == /\ tools \in BOOLEAN
           /\ update \in {"none", "draining", "pending"}

(* Only a free run has no card; Spawn needs one to have a name to write.   *)
RunsHaveCards == \A r \in Runs : pc[r] # "free" => rjob[r] \in Jobs

LEMMA TypeParts ==
  TypeOK <=> CardsType /\ DiskType /\ SlotVarsType /\ RunsType /\ ListsType /\ EnvType
BY DEF TypeOK, CardsType, DiskType, SlotVarsType, RunsType, ListsType, EnvType

LEMMA TypePartsNext ==
  TypeOK' <=> CardsType' /\ DiskType' /\ SlotVarsType' /\ RunsType' /\ ListsType' /\ EnvType'
BY DEF TypeOK, CardsType, DiskType, SlotVarsType, RunsType, ListsType, EnvType

LEMMA Frames ==
  /\ CardsType /\ UNCHANGED cards => CardsType'
  /\ DiskType /\ UNCHANGED disk => DiskType'
  /\ SlotVarsType /\ UNCHANGED slot => SlotVarsType'
  /\ RunsType /\ UNCHANGED runs => RunsType'
  /\ ListsType /\ UNCHANGED lists => ListsType'
  /\ EnvType /\ UNCHANGED env => EnvType'
BY DEF CardsType, DiskType, SlotVarsType, RunsType, ListsType, EnvType,
       cards, disk, slot, runs, lists, env

LEMMA BecomesType ==
  ASSUME NEW S, S \in SlotType, Becomes(S)
  PROVE  SlotVarsType'
BY DEF Becomes, SlotType, SlotVarsType

LEMMA InitType == Init => TypeOK
<1> SUFFICES ASSUME Init PROVE TypeOK
  OBVIOUS
<1>1. CardsType
  BY DEF Init, CardsType, NoSlot
<1>2. DiskType
  BY DEF Init, DiskType, NoSlot
<1>3. SlotVarsType
  BY IdleTyped DEF Init, SlotVarsType
<1>4. RunsType
  BY DEF Init, RunsType, Places, Processes
<1>5. ListsType
  BY DEF Init, ListsType, Cancels
<1>6. EnvType
  BY DEF Init, EnvType
<1> QED BY <1>1, <1>2, <1>3, <1>4, <1>5, <1>6, TypeParts

(* What the table lets through keeps every card at a status.               *)
LEMMA MovedType ==
  ASSUME NEW st \in [Jobs -> Status \cup {"absent"}], NEW j, NEW s \in Status
  PROVE  Moved(st, j, s) \in [Jobs -> Status \cup {"absent"}]
BY DEF Moved

LEMMA UnlinkedType ==
  ASSUME DiskType, NEW r \in Runs, Unlinked(r)
  PROVE  DiskType'
BY DEF DiskType, Unlinked, NoSlot

LEMMA AtType ==
  ASSUME RunsType, NEW r \in Runs, NEW place \in Places, At(r, place),
         UNCHANGED <<rjob, child>>
  PROVE  RunsType'
BY DEF RunsType, At

LEMMA CardsFrame ==
  ASSUME CardsType, status' \in [Jobs -> Status \cup {"absent"}],
         UNCHANGED <<listed, out, prev, paused, prio>>
  PROVE  CardsType'
BY DEF CardsType

(* Cards: entering, being probed, started and handed back.                 *)
LEMMA AddType == ASSUME TypeOK, NEW j \in Jobs, Add(j) PROVE TypeOK'
<1>1. NextOutput(j, {}) \in Slots
  BY NextOutputType DEF Add
<1>2. CardsType'
  BY <1>1, TypeParts DEF Add, CardsType, Status
<1>3. ListsType'
  BY TypeParts DEF Add, ListsType
<1> QED BY <1>2, <1>3, TypeParts, TypePartsNext, Frames DEF Add

LEMMA ProbeType == ASSUME TypeOK, NEW j \in Jobs, NEW ok, Probe(j, ok) PROVE TypeOK'
<1>1. status' \in [Jobs -> Status \cup {"absent"}]
  BY MovedType, TypeParts DEF Probe, CardsType, Status
<1>2. CardsType'
  BY <1>1, TypeParts, CardsFrame DEF Probe
<1> QED BY <1>2, TypeParts, TypePartsNext, Frames DEF Probe

LEMMA AbandonBatchType ==
  ASSUME TypeOK, AbandonBatch(status), UNCHANGED <<listed, out, prev, paused, starting, cancelling>>
  PROVE  CardsType' /\ SlotVarsType' /\ ListsType'
<1>1. CardsType'
  BY TypeParts DEF AbandonBatch, Given, CardsType, Status
<1>2. ListsType'
  BY TypeParts DEF AbandonBatch, ListsType
<1>3. [Slot EXCEPT !.watchdog = @ /\ batch = "none"] \in SlotType
  BY SlotTyped DEF SlotType
<1>4. SlotVarsType'
  BY <1>3, BecomesType DEF AbandonBatch
<1> QED BY <1>1, <1>2, <1>4

LEMMA ProbeUnavailableType ==
  ASSUME TypeOK, NEW j \in Jobs, ProbeUnavailable(j) PROVE TypeOK'
<1>1. CardsType' /\ SlotVarsType' /\ ListsType'
  BY AbandonBatchType DEF ProbeUnavailable
<1>2. EnvType'
  BY TypeParts DEF ProbeUnavailable, EnvType
<1> QED BY <1>1, <1>2, TypeParts, TypePartsNext, Frames DEF ProbeUnavailable

LEMMA RemoveType == ASSUME TypeOK, NEW j \in Jobs, Remove(j) PROVE TypeOK'
<1>1. CardsType'
  BY TypeParts DEF Remove, CardsType
<1> QED BY <1>1, TypeParts, TypePartsNext, Frames DEF Remove

LEMMA StartBeginType == ASSUME TypeOK, NEW J \in SUBSET Jobs, StartBegin(J) PROVE TypeOK'
<1> DEFINE again == {j \in J : status[j] \in Settled}
           kept(j) == IF status[j] = "completed" THEN out[j] ELSE NoSlot
<1>1. /\ status' = [j \in Jobs |-> IF j \in again THEN "ready" ELSE status[j]]
      /\ prev' = [j \in Jobs |-> IF j \in again THEN kept(j) ELSE prev[j]]
      /\ out' = [j \in Jobs |-> IF j \in again THEN NextOutput(j, {kept(j)}) ELSE out[j]]
      /\ prio' = [j \in Jobs |-> IF j \in again THEN "idle" ELSE prio[j]]
      /\ inBatch' = inBatch \ again
      /\ \A j \in J : FreeSlots(j, {kept(j)}) # {}
  BY DEF StartBegin
<1>2. \A j \in again : NextOutput(j, {kept(j)}) \in Slots
  BY <1>1, NextOutputType
<1>3. status' \in [Jobs -> Status \cup {"absent"}]
  BY <1>1, TypeParts DEF CardsType, Status
<1>4. out' \in [Jobs -> Slots \cup {NoSlot}]
  <2> HIDE DEF kept
  <2> QED BY <1>1, <1>2, TypeParts DEF CardsType
<1>5. prev' \in [Jobs -> Slots \cup {NoSlot}]
  BY <1>1, TypeParts DEF CardsType
<1>6. prio' \in [Jobs -> {"idle", "asked", "measured"}]
  BY <1>1, TypeParts DEF CardsType
<1>7. CardsType'
  BY <1>3, <1>4, <1>5, <1>6, TypeParts DEF CardsType, StartBegin
<1>8. ListsType'
  BY TypeParts DEF StartBegin, ListsType
<1>9. SlotVarsType'
  BY SlotTyped, ClearStrandedKeeps, BecomesType DEF StartBegin, Keeps
<1> QED BY <1>7, <1>8, <1>9, TypeParts, TypePartsNext, Frames DEF StartBegin

LEMMA StartCommitType == ASSUME TypeOK, StartCommit PROVE TypeOK'
<1>1. \A j \in starting : NextOutput(j, {}) \in Slots
  BY NextOutputType DEF StartCommit
<1>2. \A j \in Jobs : Moved(status, j, "queued")[j] \in Status \cup {"absent"}
  BY MovedType, TypeParts DEF CardsType, Status
<1>3. CardsType'
  BY <1>1, <1>2, TypeParts DEF StartCommit, CardsType
<1>4. ListsType'
  BY TypeParts DEF StartCommit, ListsType
<1>5. [Slot EXCEPT !.watchdog = TRUE, !.pumpDue = TRUE] \in SlotType
  BY SlotTyped DEF SlotType
<1>6. SlotVarsType'
  BY <1>5, BecomesType DEF StartCommit
<1> QED BY <1>3, <1>4, <1>6, TypeParts, TypePartsNext, Frames DEF StartCommit

LEMMA StartThrowType == ASSUME TypeOK, StartThrow PROVE TypeOK'
<1>1. ListsType'
  BY TypeParts DEF StartThrow, ListsType
<1> QED BY <1>1, TypeParts, TypePartsNext, Frames DEF StartThrow

(* pump().                                                                 *)
LEMMA PumpSkipType == ASSUME TypeOK, PumpSkip PROVE TypeOK'
<1>1. SlotVarsType'
  BY TypeParts DEF PumpSkip, SlotVarsType
<1> QED BY <1>1, TypeParts, TypePartsNext, Frames DEF PumpSkip

LEMMA PumpDrainedType == ASSUME TypeOK, PumpDrained PROVE TypeOK'
<1>1. [Slot EXCEPT !.pumpDue = FALSE, !.watchdog = FALSE] \in SlotType
  BY SlotTyped DEF SlotType
<1>2. SlotVarsType'
  BY <1>1, BecomesType DEF PumpDrained
<1>3. ListsType'
  BY TypeParts DEF PumpDrained, ListsType
<1>4. EnvType'
  BY TypeParts DEF PumpDrained, EnvType
<1> QED BY <1>2, <1>3, <1>4, TypeParts, TypePartsNext, Frames DEF PumpDrained

LEMMA PumpClaimType ==
  ASSUME TypeOK, NEW j \in Jobs, NEW r \in Runs, PumpClaim(j, r) PROVE TypeOK'
<1> DEFINE A == [kind |-> "encoding", job |-> j, run |-> r, child |-> None]
           T == SetActivity(Slot, A)
<1>1. A \in Activity
  BY DEF Activity
<1>2. T \in SlotType
  <2> HIDE DEF A
  <2> QED BY <1>1, SlotTyped, SetActivityKeeps DEF Keeps
<1>3. [T EXCEPT !.pumpDue = FALSE] \in SlotType
  <2> HIDE DEF T
  <2> QED BY <1>2 DEF SlotType
<1>4. SlotVarsType'
  <2>1. Becomes([T EXCEPT !.pumpDue = FALSE])
    BY DEF PumpClaim
  <2> HIDE DEF T
  <2> QED BY <2>1, <1>3, BecomesType
<1>5. status' \in [Jobs -> Status \cup {"absent"}]
  BY MovedType, TypeParts DEF PumpClaim, CardsType, Status
<1>6. CardsType'
  BY <1>5, TypeParts DEF PumpClaim, CardsType
<1>7. RunsType'
  BY TypeParts DEF PumpClaim, RunsType, Places
<1> QED BY <1>4, <1>6, <1>7, TypeParts, TypePartsNext, Frames DEF PumpClaim

(* A run.                                                                  *)
LEMMA StopSeenType == ASSUME TypeOK, NEW r \in Runs, StopSeen(r) PROVE TypeOK'
<1>1. RunsType'
  BY AtType, TypeParts DEF StopSeen, Places
<1>2. DiskType'
  BY UnlinkedType, TypeParts DEF StopSeen
<1> QED BY <1>1, <1>2, TypeParts, TypePartsNext, Frames DEF StopSeen

LEMMA FailType == ASSUME TypeOK, NEW r \in Runs, Fail(r) PROVE TypeOK'
<1>1. RunsType'
  BY AtType, TypeParts DEF Fail, Places
<1>2. DiskType'
  BY UnlinkedType, TypeParts DEF Fail
<1>3. status' \in [Jobs -> Status \cup {"absent"}]
  BY MovedType, TypeParts DEF Fail, CardsType, Status
<1>4. CardsType'
  BY <1>3, TypeParts, CardsFrame DEF Fail
<1> QED BY <1>1, <1>2, <1>4, TypeParts, TypePartsNext, Frames DEF Fail

LEMMA SpawnType ==
  ASSUME TypeOK, NEW r \in Runs, NEW place \in Places, rjob[r] \in Jobs, Spawn(r, place)
  PROVE  TypeOK'
<1>1. RunsType'
  BY TypeParts DEF Spawn, At, RunsType, Processes
<1>2. DiskType'
  BY TypeParts DEF Spawn, DiskType, CardsType
<1>3. Attach(Slot, r) \in SlotType
  BY AttachKeeps, SlotTyped DEF Keeps
<1>4. Handoff(Attach(Slot, r), prio) \in SlotType
  BY <1>3, HandoffKeeps DEF Keeps
<1>5. SlotVarsType'
  BY <1>4, BecomesType DEF Spawn
<1> QED BY <1>1, <1>2, <1>5, TypeParts, TypePartsNext, Frames DEF Spawn

LEMMA FallbackType ==
  ASSUME TypeOK, RunsHaveCards, NEW r \in Runs, Fallback(r) PROVE TypeOK'
BY SpawnType DEF Fallback, RunsHaveCards, Places

(* How an encoder ends.                                                    *)
Results == {"zero", "fail", "audio", "nospawn"}

LEMMA ExitType ==
  ASSUME TypeOK, NEW r \in Runs, NEW result \in Results, Exit(r, result) PROVE TypeOK'
<1>1. RunsType'
  BY TypeParts DEF Exit, RunsType, Results, Processes
<1>2. DiskType'
  BY TypeParts DEF Exit, DiskType
<1>3. [Slot EXCEPT !.holds = {h \in @ : h[1] # r}, !.terminating = @ \ {r}] \in SlotType
  BY SlotTyped DEF SlotType
<1>4. SlotVarsType'
  BY <1>3, BecomesType DEF Exit
<1> QED BY <1>1, <1>2, <1>4, TypeParts, TypePartsNext, Frames DEF Exit

LEMMA RuntimeFailureType ==
  ASSUME TypeOK, NEW r \in Runs, NEW phase, RuntimeFailure(r, phase) PROVE TypeOK'
<1>1. RunsType'
  BY AtType, TypeParts DEF RuntimeFailure, Places
<1>2. DiskType'
  BY UnlinkedType, TypeParts, Frames DEF RuntimeFailure
<1>3. status' \in [Jobs -> Status \cup {"absent"}]
  BY MovedType, TypeParts DEF RuntimeFailure, CardsType, Status
<1>4. CardsType'
  BY <1>3, TypeParts, CardsFrame DEF RuntimeFailure
<1>5. EnvType'
  BY TypeParts DEF RuntimeFailure, EnvType
<1> QED BY <1>1, <1>2, <1>4, <1>5, TypeParts, TypePartsNext, Frames DEF RuntimeFailure

LEMMA PreparedType ==
  ASSUME TypeOK, RunsHaveCards, NEW r \in Runs, NEW ok, Prepared(r, ok) PROVE TypeOK'
<1>1. \/ StopSeen(r) \/ Spawn(r, "encode") \/ Fail(r)
      \/ RuntimeFailure(r, "encoding")
  BY DEF Prepared
<1>2. rjob[r] \in Jobs
  BY DEF RunsHaveCards, Prepared
<1> QED BY <1>1, <1>2, StopSeenType, SpawnType, FailType, RuntimeFailureType
    DEF Places

LEMMA AbandonType == ASSUME TypeOK, NEW r \in Runs, Abandon(r) PROVE TypeOK'
<1>1. CardsType' /\ SlotVarsType' /\ ListsType'
  BY AbandonBatchType DEF Abandon
<1>2. RunsType'
  BY AtType, TypeParts DEF Abandon, Places
<1> QED BY <1>1, <1>2, TypeParts, TypePartsNext, Frames DEF Abandon

LEMMA MovesType ==
  ASSUME TypeOK, NEW r \in Runs, NEW place \in Places, Moves(r, place) PROVE TypeOK'
<1>1. RunsType'
  BY AtType, TypeParts DEF Moves
<1> QED BY <1>1, TypeParts, TypePartsNext, Frames DEF Moves

LEMMA RetryType == ASSUME TypeOK, NEW r \in Runs, Retry(r) PROVE TypeOK'
<1>1. RunsType'
  BY AtType, TypeParts DEF Retry, Places
<1>2. DiskType'
  BY UnlinkedType, TypeParts DEF Retry
<1> QED BY <1>1, <1>2, TypeParts, TypePartsNext, Frames DEF Retry

LEMMA CompleteType == ASSUME TypeOK, NEW r \in Runs, Complete(r) PROVE TypeOK'
<1>1. RunsType'
  BY AtType, TypeParts DEF Complete, Places
<1>2. status' \in [Jobs -> Status \cup {"absent"}]
  BY MovedType, TypeParts DEF Complete, CardsType, Status
<1>3. CardsType'
  BY <1>2, TypeParts, CardsFrame DEF Complete
<1> QED BY <1>1, <1>3, TypeParts, TypePartsNext, Frames DEF Complete

LEMMA EncodedType == ASSUME TypeOK, NEW r \in Runs, Encoded(r) PROVE TypeOK'
<1>1. StopSeen(r) \/ RuntimeFailure(r, "encoding") \/ Retry(r) \/ Moves(r, "probe") \/ Fail(r)
  BY DEF Encoded
<1> QED BY <1>1, StopSeenType, RuntimeFailureType, RetryType, MovesType, FailType DEF Places

LEMMA ValidatedType ==
  ASSUME TypeOK, NEW r \in Runs, NEW result, Validated(r, result) PROVE TypeOK'
<1>1. Complete(r) \/ StopSeen(r) \/ RuntimeFailure(r, "output-validation") \/ Fail(r)
  BY DEF Validated
<1> QED BY <1>1, CompleteType, StopSeenType, RuntimeFailureType, FailType

LEMMA EndType == ASSUME TypeOK, NEW r \in Runs, End(r) PROVE TypeOK'
<1> DEFINE C == ClearStranded(Released(Slot, r))
           D == [C EXCEPT !.pumpDue = TRUE]
<1>1. C \in SlotType
  BY SlotTyped, ReleasedKeeps, ClearStrandedKeeps DEF Keeps
<1>2. D \in SlotType
  <2> HIDE DEF C
  <2> QED BY <1>1 DEF SlotType
<1>3. Handoff(D, prio) \in SlotType
  <2> HIDE DEF D
  <2> QED BY <1>2, HandoffKeeps DEF Keeps
<1>4. SlotVarsType'
  <2>1. Becomes(Handoff(D, prio))
    BY DEF End
  <2> HIDE DEF D
  <2> QED BY <2>1, <1>3, BecomesType
<1>5. RunsType'
  BY TypeParts DEF End, At, RunsType, Places, Processes
<1>6. DiskType'
  BY TypeParts DEF End, DiskType, NoSlot
<1> QED BY <1>4, <1>5, <1>6, TypeParts, TypePartsNext, Frames DEF End

(* Requests.                                                               *)
LEMMA CancelEffectType ==
  ASSUME TypeOK, NEW j \in Jobs, NEW was, NEW from \in Slots \cup {NoSlot},
         CancelEffect(j, was, from)
  PROVE  CardsType' /\ SlotVarsType'
<1> DEFINE intact == from # NoSlot /\ file[j][from] = "good"
           st == IF status[j] = "queued" /\ intact THEN Moved(status, j, "processing") ELSE status
<1>1. st \in [Jobs -> Status \cup {"absent"}]
  BY MovedType, TypeParts DEF CardsType, Status
<1>2. Moved(st, j, IF intact THEN "completed" ELSE "cancelled")
        \in [Jobs -> Status \cup {"absent"}]
  <2> HIDE DEF st
  <2> QED BY <1>1, MovedType DEF Status
<1>3. status' \in [Jobs -> Status \cup {"absent"}]
  BY <1>2 DEF CancelEffect
<1>4. CardsType'
  BY <1>3, TypeParts DEF CancelEffect, CardsType
<1>5. SlotVarsType'
  BY SlotTyped, StopActiveEncodeKeeps, BecomesType DEF CancelEffect, Keeps
<1> QED BY <1>4, <1>5

LEMMA CancelType == ASSUME TypeOK, NEW j \in Jobs, Cancel(j) PROVE TypeOK'
<1>1. CardsType' /\ SlotVarsType'
  BY CancelEffectType DEF Cancel
<1>2. ListsType'
  BY TypeParts DEF Cancel, CancelEffect, ListsType
<1> QED BY <1>1, <1>2, TypeParts, TypePartsNext, Frames DEF Cancel, CancelEffect

LEMMA CancelBeginType == ASSUME TypeOK, NEW j \in Jobs, CancelBegin(j) PROVE TypeOK'
<1>1. <<status[j], prev[j]>> \in Cancels
  BY TypeParts DEF CancelBegin, CardsType, Cancels
<1>2. ListsType'
  BY <1>1, TypeParts DEF CancelBegin, ListsType
<1> QED BY <1>2, TypeParts, TypePartsNext, Frames DEF CancelBegin

LEMMA CancelEndType == ASSUME TypeOK, NEW j \in Jobs, CancelEnd(j) PROVE TypeOK'
<1>1. cancelling[j] \in Cancels
  BY TypeParts DEF ListsType
<1>2. cancelling[j][2] \in Slots \cup {NoSlot}
  BY <1>1 DEF Cancels
<1>3. CardsType' /\ SlotVarsType'
  BY <1>2, CancelEffectType DEF CancelEnd
<1>4. <<"no", NoSlot>> \in Cancels
  BY DEF Cancels
<1>5. ListsType'
  BY <1>4, TypeParts DEF CancelEnd, CancelEffect, ListsType
<1> QED BY <1>3, <1>5, TypeParts, TypePartsNext, Frames DEF CancelEnd, CancelEffect

LEMMA CancelAllType == ASSUME TypeOK, CancelAll PROVE TypeOK'
<1> DEFINE stop == {j \in listed : status[j] \in {"queued", "processing"} /\ prev[j] = NoSlot}
           S == IF \E j \in stop : status[j] = "processing" THEN StopActiveEncode(Slot) ELSE Slot
           T == ClearStranded(S)
           drained == /\ batch = "open" /\ T.act.kind = "idle"
                      /\ \A j \in (listed \cap inBatch) \ stop : status[j] # "queued"
<1>1. T \in SlotType
  BY SlotTyped, StopActiveEncodeKeeps, ClearStrandedKeeps DEF Keeps
<1>2. Becomes([T EXCEPT !.watchdog = @ /\ ~drained])
  BY DEF CancelAll
<1>3. SlotVarsType'
  <2> HIDE DEF T
  <2>1. [T EXCEPT !.watchdog = @ /\ ~drained] \in SlotType
    BY <1>1 DEF SlotType
  <2> QED BY <2>1, <1>2, BecomesType
<1>4. CardsType'
  BY TypeParts DEF CancelAll, CardsType, Status
<1>5. ListsType'
  BY TypeParts DEF CancelAll, ListsType
<1> QED BY <1>3, <1>4, <1>5, TypeParts, TypePartsNext, Frames DEF CancelAll

LEMMA SetPausedType ==
  ASSUME TypeOK, NEW j \in Jobs, NEW on \in BOOLEAN, SetPaused(j, on) PROVE TypeOK'
<1>1. act.child \in Runs \cup {None}
  BY TypeParts DEF SlotVarsType, Activity
<1>2. SlotVarsType'
  BY <1>1, SlotTyped, ReleasePauseHoldKeeps, TakePauseHoldKeeps, BecomesType DEF SetPaused, Keeps
<1>3. CardsType'
  BY TypeParts DEF SetPaused, CardsType
<1> QED BY <1>2, <1>3, TypeParts, TypePartsNext, Frames DEF SetPaused

LEMMA PrioritizeType == ASSUME TypeOK, NEW j \in Jobs, Prioritize(j) PROVE TypeOK'
<1>1. SlotVarsType'
  BY SlotTyped, ClearStrandedKeeps, HandoffKeeps, BecomesType DEF Prioritize, Keeps
<1>2. CardsType'
  BY TypeParts DEF Prioritize, CardsType
<1> QED BY <1>1, <1>2, TypeParts, TypePartsNext, Frames DEF Prioritize

LEMMA PrioType ==
  ASSUME TypeOK, NEW j \in Jobs, CancelPrioritized(j) \/ Measure(j) PROVE TypeOK'
<1>1. CardsType'
  BY TypeParts DEF CancelPrioritized, Measure, CardsType
<1> QED BY <1>1, TypeParts, TypePartsNext, Frames DEF CancelPrioritized, Measure

LEMMA HandoffEndType == ASSUME TypeOK, HandoffEnd PROVE TypeOK'
<1> DEFINE S == ReleaseEstimateHold(Slot)
           T == IF S.act.kind = "estimating" THEN [S EXCEPT !.act = Idle] ELSE S
           U == [T EXCEPT !.handoff = "none",
                          !.pumpDue = @ \/ (handoff = "idle" /\ T.act.kind = "idle")]
<1>1. S \in SlotType
  BY SlotTyped, ReleaseEstimateHoldKeeps DEF Keeps
<1>2. T \in SlotType
  <2> HIDE DEF S
  <2> QED BY <1>1, IdleTyped DEF SlotType
<1>3. U \in SlotType
  <2> HIDE DEF T
  <2> QED BY <1>2 DEF SlotType
<1>4. SlotVarsType'
  <2>1. Becomes(U)
    BY DEF HandoffEnd
  <2> HIDE DEF U
  <2> QED BY <2>1, <1>3, BecomesType
<1> QED BY <1>4, TypeParts, TypePartsNext, Frames DEF HandoffEnd

(* Everything else.                                                        *)
LEMMA ReadType == ASSUME TypeOK, Read PROVE TypeOK'
<1>1. SlotVarsType'
  BY SlotTyped, ClearStrandedKeeps, BecomesType DEF Read, Keeps
<1> QED BY <1>1, TypeParts, TypePartsNext, Frames DEF Read

LEMMA WatchdogTickType == ASSUME TypeOK, WatchdogTick PROVE TypeOK'
<1> DEFINE S == ClearStranded(Slot)
           U == [S EXCEPT !.watchdog = ~Over(S), !.pumpDue = @ \/ (S.act.kind = "idle" /\ ~Over(S))]
<1>1. S \in SlotType
  BY SlotTyped, ClearStrandedKeeps DEF Keeps
<1>2. U \in SlotType
  <2>1. Over(S) \in BOOLEAN
    BY DEF Over
  <2> HIDE DEF S
  <2> QED BY <1>1, <2>1 DEF SlotType
<1>3. SlotVarsType'
  <2>1. Becomes(U)
    BY DEF WatchdogTick
  <2> HIDE DEF U
  <2> QED BY <2>1, <1>2, BecomesType
<1>4. ListsType'
  BY TypeParts DEF WatchdogTick, ListsType
<1> QED BY <1>3, <1>4, TypeParts, TypePartsNext, Frames DEF WatchdogTick

LEMMA OutsideType == ASSUME TypeOK, Outside PROVE TypeOK'
<1>1. CASE ToolsLost
  <2>1. EnvType'
    BY <1>1, TypeParts DEF ToolsLost, EnvType
  <2> QED BY <1>1, <2>1, TypeParts, TypePartsNext, Frames DEF ToolsLost
<1>2. CASE ToolsBack
  <2>1. EnvType'
    BY <1>2, TypeParts DEF ToolsBack, EnvType
  <2>2. [Slot EXCEPT !.pumpDue = @ \/ act.kind = "idle"] \in SlotType
    BY SlotTyped DEF SlotType
  <2>3. SlotVarsType'
    BY <1>2, <2>2, BecomesType DEF ToolsBack
  <2> QED BY <1>2, <2>1, <2>3, TypeParts, TypePartsNext, Frames DEF ToolsBack
<1>3. CASE RequestUpdateDrain
  <2>1. EnvType'
    BY <1>3, TypeParts DEF RequestUpdateDrain, EnvType
  <2>2. SlotVarsType'
    BY <1>3, SlotTyped, ClearStrandedKeeps, BecomesType DEF RequestUpdateDrain, Keeps
  <2> QED BY <1>3, <2>1, <2>2, TypeParts, TypePartsNext, Frames DEF RequestUpdateDrain
<1>4. CASE HandleWake
  <2> DEFINE T == SetActivity(ReleaseEstimateHold(Slot), Idle)
  <2>1. T \in SlotType
    BY SlotTyped, ReleaseEstimateHoldKeeps, SetActivityKeeps, IdleTyped DEF Keeps
  <2>2. SlotVarsType'
    <3>1. Becomes([T EXCEPT !.pumpDue = TRUE])
      BY <1>4 DEF HandleWake
    <3> HIDE DEF T
    <3>2. [T EXCEPT !.pumpDue = TRUE] \in SlotType
      BY <2>1 DEF SlotType
    <3> QED BY <3>1, <3>2, BecomesType
  <2>3. status' \in [Jobs -> Status \cup {"absent"}]
    BY <1>4, MovedType, TypeParts DEF HandleWake, CardsType, Status
  <2>4. CardsType'
    BY <1>4, <2>3, TypeParts, CardsFrame DEF HandleWake
  <2> QED BY <1>4, <2>2, <2>4, TypeParts, TypePartsNext, Frames DEF HandleWake
<1>5. ASSUME NEW r \in Runs, Vanish(r) PROVE TypeOK'
  <2>1. RunsType'
    BY <1>5, TypeParts DEF Vanish, RunsType, Processes
  <2>2. [Slot EXCEPT !.holds = {h \in @ : h[1] # r}] \in SlotType
    BY SlotTyped DEF SlotType
  <2>3. SlotVarsType'
    BY <1>5, <2>2, BecomesType DEF Vanish
  <2> QED BY <1>5, <2>1, <2>3, TypeParts, TypePartsNext, Frames DEF Vanish
<1> QED BY <1>1, <1>2, <1>3, <1>4, <1>5 DEF Outside

(* A step is one of the actions; proofs about steps split on this list.    *)
LEMMA Steps ==
  ASSUME Next
  PROVE  \/ \E j \in Jobs : \/ Add(j)
                            \/ \E ok \in BOOLEAN : Probe(j, ok)
                            \/ ProbeUnavailable(j)
                            \/ Remove(j)
         \/ \E j \in Jobs : \/ Cancel(j)
                            \/ CancelBegin(j)
                            \/ CancelEnd(j)
                            \/ \E on \in BOOLEAN : SetPaused(j, on)
                            \/ Prioritize(j)
                            \/ CancelPrioritized(j) \/ Measure(j)
         \/ (\E J \in SUBSET Jobs : StartBegin(J)) \/ StartCommit \/ StartThrow
         \/ PumpSkip \/ PumpDrained \/ (\E j \in Jobs, r \in Runs : PumpClaim(j, r))
         \/ \E r \in Runs : \/ \E ok \in BOOLEAN : Prepared(r, ok)
                            \/ Encoded(r)
                            \/ Fallback(r)
                            \/ \E result \in {"ok", "bad", "tool"} : Validated(r, result)
                            \/ Abandon(r)
                            \/ End(r)
                            \/ \E result \in Results : Exit(r, result)
         \/ CancelAll \/ HandoffEnd \/ Read \/ WatchdogTick \/ Outside
BY DEF Next, CardStep, Request, Starts, PumpStep, RunStep, Exits, Results

TypeInv == TypeOK /\ RunsHaveCards

LEMMA TypeStep == TypeInv /\ Next => TypeOK'
<1> SUFFICES ASSUME TypeOK, RunsHaveCards, Next PROVE TypeOK'
  BY DEF TypeInv
<1>1. ASSUME NEW j \in Jobs,
             Add(j) \/ (\E ok \in BOOLEAN : Probe(j, ok)) \/ ProbeUnavailable(j) \/ Remove(j)
      PROVE  TypeOK'
  BY <1>1, AddType, ProbeType, ProbeUnavailableType, RemoveType
<1>2. ASSUME NEW j \in Jobs,
             \/ Cancel(j) \/ CancelBegin(j) \/ CancelEnd(j)
             \/ \E on \in BOOLEAN : SetPaused(j, on)
             \/ Prioritize(j) \/ CancelPrioritized(j) \/ Measure(j)
      PROVE  TypeOK'
  BY <1>2, CancelType, CancelBeginType, CancelEndType, SetPausedType, PrioritizeType, PrioType
<1>3. CASE (\E J \in SUBSET Jobs : StartBegin(J)) \/ StartCommit \/ StartThrow
  BY <1>3, StartBeginType, StartCommitType, StartThrowType
<1>4. CASE PumpSkip \/ PumpDrained \/ (\E j \in Jobs, r \in Runs : PumpClaim(j, r))
  BY <1>4, PumpSkipType, PumpDrainedType, PumpClaimType
<1>5. ASSUME NEW r \in Runs,
             \/ \E ok \in BOOLEAN : Prepared(r, ok)
             \/ Encoded(r) \/ Fallback(r) \/ Abandon(r) \/ End(r)
             \/ \E result \in {"ok", "bad", "tool"} : Validated(r, result)
             \/ \E result \in Results : Exit(r, result)
      PROVE  TypeOK'
  BY <1>5, PreparedType, EncodedType, FallbackType, AbandonType, EndType, ValidatedType, ExitType
<1>6. CASE CancelAll \/ HandoffEnd \/ Read \/ WatchdogTick \/ Outside
  BY <1>6, CancelAllType, HandoffEndType, ReadType, WatchdogTickType, OutsideType
<1> QED BY <1>1, <1>2, <1>3, <1>4, <1>5, <1>6, Steps

(* Every run that left pump() drives a card until it is free again.        *)
LEMMA RunsHaveCardsStep == TypeInv /\ Next => RunsHaveCards'
<1> SUFFICES ASSUME TypeOK, RunsHaveCards, Next PROVE RunsHaveCards'
  BY DEF TypeInv
<1>1. ASSUME NEW r \in Runs, pc[r] # "free", NEW place \in Places, At(r, place), UNCHANGED rjob
      PROVE  RunsHaveCards'
  BY <1>1, TypeParts DEF RunsHaveCards, At, RunsType
<1>2. CASE UNCHANGED <<pc, rjob>>
  BY <1>2 DEF RunsHaveCards
<1>3. ASSUME NEW j \in Jobs, NEW r \in Runs, PumpClaim(j, r) PROVE RunsHaveCards'
  BY <1>3, TypeParts DEF PumpClaim, RunsHaveCards, RunsType
<1>4. ASSUME NEW r \in Runs, End(r) PROVE RunsHaveCards'
  BY <1>4, TypeParts DEF End, At, RunsHaveCards, RunsType
<1>5. ASSUME NEW r \in Runs,
             \/ \E ok \in BOOLEAN : Prepared(r, ok)
             \/ Encoded(r) \/ Fallback(r) \/ Abandon(r)
             \/ \E result \in {"ok", "bad", "tool"} : Validated(r, result)
      PROVE  RunsHaveCards'
  <2>1. pc[r] # "free"
    BY <1>5 DEF Prepared, Encoded, Fallback, Abandon, Validated
  <2>2. \/ StopSeen(r) \/ Fail(r) \/ Spawn(r, "encode") \/ Spawn(r, "encode2") \/ Retry(r)
        \/ Moves(r, "probe") \/ Complete(r) \/ Abandon(r)
        \/ RuntimeFailure(r, "encoding") \/ RuntimeFailure(r, "output-validation")
    BY <1>5 DEF Prepared, Encoded, Fallback, Validated
  <2>3. \E place \in Places : At(r, place) /\ UNCHANGED rjob
    BY <2>2 DEF StopSeen, Fail, Spawn, Retry, Moves, Complete, Abandon, RuntimeFailure, Places
  <2> QED BY <2>1, <2>3, <1>1
<1>6. ASSUME NEW r \in Runs, NEW result, Exit(r, result) PROVE UNCHANGED <<pc, rjob>>
  BY <1>6 DEF Exit
<1>7. ASSUME NEW j \in Jobs,
             \/ Add(j) \/ (\E ok \in BOOLEAN : Probe(j, ok)) \/ ProbeUnavailable(j) \/ Remove(j)
             \/ Cancel(j) \/ CancelBegin(j) \/ CancelEnd(j)
             \/ \E on \in BOOLEAN : SetPaused(j, on)
             \/ Prioritize(j) \/ CancelPrioritized(j) \/ Measure(j)
      PROVE  UNCHANGED <<pc, rjob>>
  BY <1>7 DEF Add, Probe, ProbeUnavailable, Remove, Cancel, CancelBegin, CancelEnd, CancelEffect,
              SetPaused, Prioritize, CancelPrioritized, Measure, runs
<1>8. CASE \/ (\E J \in SUBSET Jobs : StartBegin(J)) \/ StartCommit \/ StartThrow
           \/ PumpSkip \/ PumpDrained
           \/ CancelAll \/ HandoffEnd \/ Read \/ WatchdogTick \/ Outside
  <2>1. UNCHANGED <<pc, rjob>>
    BY <1>8 DEF StartBegin, StartCommit, StartThrow, PumpSkip, PumpDrained, CancelAll, HandoffEnd,
                Read, WatchdogTick, Outside, ToolsLost, ToolsBack, RequestUpdateDrain,
                HandleWake, Vanish, runs
  <2> QED BY <2>1, <1>2
<1> QED BY <1>2, <1>3, <1>4, <1>5, <1>6, <1>7, <1>8, Steps

LEMMA TypeStutter == TypeInv /\ UNCHANGED vars => TypeInv'
<1> SUFFICES ASSUME TypeOK, RunsHaveCards, UNCHANGED vars PROVE TypeInv'
  BY DEF TypeInv
<1>1. TypeOK'
  BY TypeParts, TypePartsNext, Frames DEF vars
<1>2. RunsHaveCards'
  BY DEF RunsHaveCards, vars, runs
<1> QED BY <1>1, <1>2 DEF TypeInv

LEMMA TypeInvariant == Spec => []TypeInv
<1>1. Init => TypeInv
  BY InitType DEF TypeInv, Init, RunsHaveCards
<1>2. TypeInv /\ [Next]_vars => TypeInv'
  BY TypeStep, RunsHaveCardsStep, TypeStutter DEF TypeInv
<1> QED BY <1>1, <1>2, PTL DEF Spec

(* Every variable of the queue keeps its type, whatever happens.           *)
THEOREM TypeCorrect == Spec => []TypeOK
<1>1. TypeInv => TypeOK
  BY DEF TypeInv
<1> QED BY <1>1, TypeInvariant, PTL

-----------------------------------------------------------------------------
(* The cards of the list.                                                  *)

NoneQueued == \A j \in listed : status[j] # "queued"

StartAlone == starting # {} => NoneQueued

BatchInv == TypeInv /\ QueuedInOpenBatch /\ StartAlone /\ QueueWatched

(* What the step proofs establish; the type of the next state is given.    *)
BatchKept == (QueuedInOpenBatch /\ StartAlone /\ QueueWatched)'

-----------------------------------------------------------------------------
(* Three ways of keeping the invariant.                                    *)

(* Nothing is queued afterwards.                                           *)
LEMMA EmptyKept == ASSUME NoneQueued' PROVE BatchKept
BY DEF NoneQueued, BatchKept, QueuedInOpenBatch, StartAlone, QueueWatched

(* Nothing becomes queued, the batch is the same and nobody disarms the    *)
(* watchdog.                                                               *)
NothingNew == \A j \in Jobs : j \in listed' /\ status'[j] = "queued"
                                => j \in listed /\ status[j] = "queued"

LEMMA QuietKept ==
  ASSUME BatchInv, TypeOK', NothingNew,
         batch' = batch, inBatch' = inBatch, starting' = starting \/ starting' = {},
         watchdog => watchdog'
  PROVE  BatchKept
<1>1. listed' \subseteq Jobs
  BY DEF TypeOK
<1>2. QueuedInOpenBatch'
  BY <1>1 DEF BatchInv, QueuedInOpenBatch, NothingNew
<1>3. StartAlone'
  BY <1>1 DEF BatchInv, StartAlone, NoneQueued, NothingNew
<1>4. QueueWatched'
  BY <1>1 DEF BatchInv, QueueWatched, NothingNew
<1> QED BY <1>2, <1>3, <1>4 DEF BatchKept

LEMMA SameCards == ASSUME TypeOK, UNCHANGED <<status, listed>> PROVE NothingNew
BY DEF NothingNew

(* A card that moves to another status than queued queues nothing.         *)
LEMMA MovedQuiet ==
  ASSUME NEW st, NEW j, NEW s, s # "queued", NEW k, Moved(st, j, s)[k] = "queued",
         st \in [Jobs -> Status \cup {"absent"}], k \in Jobs
  PROVE  st[k] = "queued"
BY DEF Moved

LEMMA MovedNothingNew ==
  ASSUME TypeOK, NEW j, NEW s, s # "queued", status' = Moved(status, j, s), listed' = listed
  PROVE  NothingNew
BY MovedQuiet DEF NothingNew, TypeOK

(* A slot that keeps the watchdog.                                         *)
LEMMA KeptWatchdog ==
  ASSUME TypeOK, NEW S, Keeps(Slot, S), Becomes(S)
  PROVE  watchdog => watchdog'
BY SlotTyped DEF Keeps, Becomes

LEMMA SlotKept == ASSUME TypeOK PROVE Keeps(Slot, Slot)
BY SlotTyped DEF Keeps

(* Without a queued card of the batch there is no queued card at all.      *)
LEMMA NoneInBatch == ASSUME BatchInv, ~QueuedInBatch PROVE NoneQueued
BY DEF BatchInv, QueuedInOpenBatch, QueuedInBatch, NoneQueued

LEMMA NoneWithoutBatch == ASSUME BatchInv, batch # "open" PROVE NoneQueued
BY DEF BatchInv, QueuedInOpenBatch, NoneQueued

-----------------------------------------------------------------------------
(* Cards and start().                                                      *)

LEMMA AddKept == ASSUME BatchInv, TypeOK', NEW j \in Jobs, Add(j) PROVE BatchKept
<1>1. \A k \in listed' : status'[k] = "queued" => k # j /\ k \in listed /\ status[k] = "queued"
  BY DEF Add, BatchInv, TypeInv, TypeOK
<1>2. QueuedInOpenBatch'
  BY <1>1 DEF BatchInv, QueuedInOpenBatch, Add
<1>3. StartAlone'
  BY <1>1 DEF BatchInv, StartAlone, NoneQueued, Add
<1>4. QueueWatched'
  BY <1>1 DEF BatchInv, QueueWatched, Add, slot
<1> QED BY <1>2, <1>3, <1>4 DEF BatchKept

LEMMA ProbeKept ==
  ASSUME BatchInv, TypeOK', NEW j \in Jobs, NEW ok, Probe(j, ok) PROVE BatchKept
<1>1. NothingNew
  BY MovedNothingNew DEF Probe, BatchInv, TypeInv
<1> QED BY <1>1, QuietKept DEF Probe, lists, slot

LEMMA RemoveKept == ASSUME BatchInv, TypeOK', NEW j \in Jobs, Remove(j) PROVE BatchKept
<1>1. NothingNew
  BY DEF Remove, NothingNew
<1> QED BY <1>1, QuietKept DEF Remove, lists, slot

(* An outage hands every queued card back.                                 *)
LEMMA AbandonBatchKept ==
  ASSUME BatchInv, AbandonBatch(status), listed' = listed
  PROVE  BatchKept
<1>1. CASE batch = "none"
  <2>1. NoneQueued
    BY <1>1, NoneWithoutBatch
  <2>2. NoneQueued'
    BY <1>1, <2>1 DEF NoneQueued, AbandonBatch, Given, BatchInv, TypeInv, TypeOK
  <2> QED BY <2>2, EmptyKept
<1>2. CASE batch # "none"
  <2>1. \A j \in listed : status[j] = "queued" => j \in listed \cap inBatch
    BY DEF BatchInv, QueuedInOpenBatch
  <2>2. NoneQueued'
    BY <1>2, <2>1 DEF NoneQueued, AbandonBatch, Given, BatchInv, TypeInv, TypeOK
  <2> QED BY <2>2, EmptyKept
<1> QED BY <1>1, <1>2

LEMMA StartBeginKept ==
  ASSUME BatchInv, NEW J \in SUBSET Jobs, StartBegin(J) PROVE BatchKept
<1>1. ~QueuedInBatch
  BY DEF StartBegin, Running
<1>2. NoneQueued
  BY <1>1, NoneInBatch
<1>3. NoneQueued'
  BY <1>2 DEF StartBegin, NoneQueued, BatchInv, TypeInv, TypeOK
<1> QED BY <1>3, EmptyKept

LEMMA StartCommitKept == ASSUME BatchInv, TypeOK', StartCommit PROVE BatchKept
<1>1. NoneQueued
  BY DEF StartCommit, BatchInv, StartAlone
<1>2. \A j \in listed' : status'[j] = "queued" => j \in starting
  BY <1>1 DEF StartCommit, NoneQueued, BatchInv, TypeInv, TypeOK
<1>3. QueuedInOpenBatch'
  BY <1>2 DEF StartCommit, QueuedInOpenBatch
<1>4. StartAlone'
  BY DEF StartCommit, StartAlone
<1>5. QueueWatched'
  <2>1. watchdog' = TRUE
    BY SlotTyped DEF StartCommit, Becomes, SlotType, BatchInv, TypeInv
  <2> QED BY <2>1 DEF QueueWatched
<1> QED BY <1>3, <1>4, <1>5 DEF BatchKept

LEMMA StartThrowKept == ASSUME BatchInv, TypeOK', StartThrow PROVE BatchKept
<1>1. NothingNew
  BY SameCards DEF StartThrow, cards, BatchInv, TypeInv
<1> QED BY <1>1, QuietKept DEF StartThrow, slot

-----------------------------------------------------------------------------
(* pump() and the watchdog.                                                *)

LEMMA PumpSkipKept == ASSUME BatchInv, TypeOK', PumpSkip PROVE BatchKept
<1>1. NothingNew
  BY SameCards DEF PumpSkip, cards, BatchInv, TypeInv
<1> QED BY <1>1, QuietKept DEF PumpSkip, lists

LEMMA PumpDrainedKept == ASSUME BatchInv, PumpDrained PROVE BatchKept
<1>1. NoneQueued
  BY NoneInBatch DEF PumpDrained
<1>2. NoneQueued'
  BY <1>1 DEF PumpDrained, cards, NoneQueued
<1> QED BY <1>2, EmptyKept

LEMMA PumpClaimKept ==
  ASSUME BatchInv, TypeOK', NEW j \in Jobs, NEW r \in Runs, PumpClaim(j, r) PROVE BatchKept
<1> DEFINE A == [kind |-> "encoding", job |-> j, run |-> r, child |-> None]
           T == SetActivity(Slot, A)
<1>1. NothingNew
  BY MovedNothingNew DEF PumpClaim, BatchInv, TypeInv
<1>2. A \in Activity
  BY DEF Activity
<1>3. Keeps(Slot, T)
  <2> HIDE DEF A
  <2> QED BY <1>2, SlotTyped, SetActivityKeeps DEF BatchInv, TypeInv
<1>4. Keeps(Slot, [T EXCEPT !.pumpDue = FALSE])
  <2> HIDE DEF T
  <2> QED BY <1>3 DEF Keeps, SlotType
<1>5. watchdog => watchdog'
  <2>1. Becomes([T EXCEPT !.pumpDue = FALSE])
    BY DEF PumpClaim
  <2> HIDE DEF T
  <2> QED BY <2>1, <1>4, KeptWatchdog DEF BatchInv, TypeInv
<1> QED BY <1>1, <1>5, QuietKept DEF PumpClaim, lists

LEMMA WatchdogTickKept == ASSUME BatchInv, TypeOK', WatchdogTick PROVE BatchKept
<1> DEFINE S == ClearStranded(Slot)
           U == [S EXCEPT !.watchdog = ~Over(S), !.pumpDue = @ \/ (S.act.kind = "idle" /\ ~Over(S))]
<1>1. NothingNew
  BY SameCards DEF WatchdogTick, cards, BatchInv, TypeInv
<1>2. CASE Over(S)
  <2>1. NoneQueued
    BY <1>2, NoneInBatch, NoneWithoutBatch DEF Over
  <2>2. NoneQueued'
    BY <2>1 DEF WatchdogTick, cards, NoneQueued
  <2> QED BY <2>2, EmptyKept
<1>3. CASE ~Over(S)
  <2>1. S \in SlotType
    BY SlotTyped, ClearStrandedKeeps DEF Keeps, BatchInv, TypeInv
  <2>2. U.watchdog
    <3> HIDE DEF S
    <3> QED BY <2>1, <1>3 DEF SlotType
  <2>3. watchdog'
    <3>1. Becomes(U)
      BY DEF WatchdogTick
    <3> HIDE DEF U
    <3> QED BY <3>1, <2>2 DEF Becomes
  <2>4. batch' = batch
    BY <1>3 DEF WatchdogTick
  <2> QED BY <1>1, <2>3, <2>4, QuietKept DEF WatchdogTick
<1> QED BY <1>2, <1>3

-----------------------------------------------------------------------------
(* A run queues nothing.                                                   *)

LEMMA StopSeenKept ==
  ASSUME BatchInv, TypeOK', NEW r \in Runs, StopSeen(r) PROVE BatchKept
<1>1. NothingNew
  BY SameCards DEF StopSeen, cards, BatchInv, TypeInv
<1> QED BY <1>1, QuietKept DEF StopSeen, lists, slot

LEMMA FailKept == ASSUME BatchInv, TypeOK', NEW r \in Runs, Fail(r) PROVE BatchKept
<1>1. NothingNew
  BY MovedNothingNew DEF Fail, BatchInv, TypeInv
<1> QED BY <1>1, QuietKept DEF Fail, lists, slot

LEMMA SpawnKept ==
  ASSUME BatchInv, TypeOK', NEW r \in Runs, NEW place, Spawn(r, place) PROVE BatchKept
<1>1. NothingNew
  BY SameCards DEF Spawn, cards, BatchInv, TypeInv
<1>2. Keeps(Slot, Attach(Slot, r))
  BY AttachKeeps, SlotTyped DEF BatchInv, TypeInv
<1>3. Keeps(Attach(Slot, r), Handoff(Attach(Slot, r), prio))
  BY <1>2, HandoffKeeps DEF Keeps
<1>4. Keeps(Slot, Handoff(Attach(Slot, r), prio))
  BY <1>2, <1>3, KeepsTrans
<1>5. watchdog => watchdog'
  BY <1>4, KeptWatchdog DEF Spawn, BatchInv, TypeInv
<1> QED BY <1>1, <1>5, QuietKept DEF Spawn, lists

LEMMA RuntimeFailureKept ==
  ASSUME BatchInv, TypeOK', NEW r \in Runs, NEW phase, RuntimeFailure(r, phase) PROVE BatchKept
<1>1. NothingNew
  BY MovedNothingNew DEF RuntimeFailure, BatchInv, TypeInv
<1> QED BY <1>1, QuietKept DEF RuntimeFailure, lists, slot

LEMMA CompleteKept == ASSUME BatchInv, TypeOK', NEW r \in Runs, Complete(r) PROVE BatchKept
<1>1. NothingNew
  BY MovedNothingNew DEF Complete, BatchInv, TypeInv
<1> QED BY <1>1, QuietKept DEF Complete, lists, slot

LEMMA MovesKept ==
  ASSUME BatchInv, TypeOK', NEW r \in Runs, Retry(r) \/ Moves(r, "probe") PROVE BatchKept
<1>1. NothingNew
  BY SameCards DEF Retry, Moves, cards, BatchInv, TypeInv
<1> QED BY <1>1, QuietKept DEF Retry, Moves, lists, slot

LEMMA ExitKept ==
  ASSUME BatchInv, TypeOK', NEW r \in Runs, NEW result, Exit(r, result) PROVE BatchKept
<1>1. NothingNew
  BY SameCards DEF Exit, cards, BatchInv, TypeInv
<1>2. Keeps(Slot, [Slot EXCEPT !.holds = {h \in @ : h[1] # r}, !.terminating = @ \ {r}])
  BY SlotTyped DEF Keeps, SlotType, BatchInv, TypeInv
<1>3. watchdog => watchdog'
  BY <1>2, KeptWatchdog DEF Exit, BatchInv, TypeInv
<1> QED BY <1>1, <1>3, QuietKept DEF Exit, lists

LEMMA EndKept == ASSUME BatchInv, TypeOK', NEW r \in Runs, End(r) PROVE BatchKept
<1> DEFINE R == Released(Slot, r)
           C == ClearStranded(R)
           D == [C EXCEPT !.pumpDue = TRUE]
           H == Handoff(D, prio)
<1>1. NothingNew
  BY SameCards DEF End, cards, BatchInv, TypeInv
<1>2. Keeps(Slot, R)
  BY SlotTyped, ReleasedKeeps DEF BatchInv, TypeInv
<1>3. Keeps(R, C)
  <2> HIDE DEF R
  <2> QED BY <1>2, ClearStrandedKeeps DEF Keeps
<1>4. Keeps(C, D)
  <2> HIDE DEF C
  <2> QED BY <1>3 DEF Keeps, SlotType
<1>5. Keeps(D, H)
  <2> HIDE DEF D
  <2> QED BY <1>4, HandoffKeeps DEF Keeps
<1>6. Keeps(Slot, H)
  BY <1>2, <1>3, <1>4, <1>5, KeepsTrans
<1>7. watchdog => watchdog'
  <2>1. Becomes(H)
    BY DEF End
  <2> HIDE DEF H
  <2> QED BY <2>1, <1>6, KeptWatchdog DEF BatchInv, TypeInv
<1> QED BY <1>1, <1>7, QuietKept DEF End, lists

LEMMA RunKept ==
  ASSUME BatchInv, TypeOK', NEW r \in Runs,
         \/ \E ok \in BOOLEAN : Prepared(r, ok)
         \/ Encoded(r)
         \/ Fallback(r)
         \/ \E result \in {"ok", "bad", "tool"} : Validated(r, result)
         \/ Abandon(r)
         \/ End(r)
         \/ \E result \in Results : Exit(r, result)
  PROVE  BatchKept
<1>1. CASE \E ok \in BOOLEAN : Prepared(r, ok)
  <2>1. StopSeen(r) \/ Spawn(r, "encode") \/ Fail(r) \/ RuntimeFailure(r, "encoding")
    BY <1>1 DEF Prepared
  <2> QED BY <2>1, StopSeenKept, SpawnKept, FailKept, RuntimeFailureKept
<1>2. CASE Encoded(r)
  <2>1. \/ StopSeen(r) \/ RuntimeFailure(r, "encoding")
        \/ Retry(r) \/ Moves(r, "probe") \/ Fail(r)
    BY <1>2 DEF Encoded
  <2> QED BY <2>1, StopSeenKept, RuntimeFailureKept, MovesKept, FailKept
<1>3. CASE Fallback(r)
  BY <1>3, SpawnKept DEF Fallback
<1>4. CASE \E result \in {"ok", "bad", "tool"} : Validated(r, result)
  <2>1. Complete(r) \/ StopSeen(r) \/ RuntimeFailure(r, "output-validation") \/ Fail(r)
    BY <1>4 DEF Validated
  <2> QED BY <2>1, CompleteKept, StopSeenKept, RuntimeFailureKept, FailKept
<1>5. CASE Abandon(r)
  BY <1>5, AbandonBatchKept DEF Abandon
<1>6. CASE End(r)
  BY <1>6, EndKept
<1>7. CASE \E result \in Results : Exit(r, result)
  BY <1>7, ExitKept
<1> QED BY <1>1, <1>2, <1>3, <1>4, <1>5, <1>6, <1>7

-----------------------------------------------------------------------------
(* Requests.                                                               *)

(* A stop queues nothing, and freeing the slot does not disarm anything.   *)
LEMMA CancelEffectKept ==
  ASSUME BatchInv, TypeOK', NEW j \in Jobs, NEW was, NEW from, CancelEffect(j, was, from)
  PROVE  BatchKept
<1> DEFINE intact == from # NoSlot /\ file[j][from] = "good"
           st == IF status[j] = "queued" /\ intact THEN Moved(status, j, "processing") ELSE status
<1>1. status \in [Jobs -> Status \cup {"absent"}]
  BY DEF BatchInv, TypeInv, TypeOK
<1>2. st \in [Jobs -> Status \cup {"absent"}]
  BY <1>1, MovedType DEF Status
<1>3. \A k \in Jobs : st[k] = "queued" => status[k] = "queued"
  BY <1>1, MovedQuiet
<1>4. status' = Moved(st, j, IF intact THEN "completed" ELSE "cancelled")
  BY DEF CancelEffect
<1>5. \A k \in Jobs : status'[k] = "queued" => st[k] = "queued"
  <2> HIDE DEF st, intact
  <2> QED BY <1>2, <1>4, MovedQuiet
<1>6. NothingNew
  BY <1>3, <1>5 DEF NothingNew, CancelEffect
<1>7. watchdog => watchdog'
  BY SlotTyped, SlotKept, StopActiveEncodeKeeps, KeptWatchdog DEF CancelEffect, BatchInv, TypeInv
<1> QED BY <1>6, <1>7, QuietKept DEF CancelEffect

(* A stop of the list closes the batch only when nothing of it waits.      *)
LEMMA CancelAllKept == ASSUME BatchInv, TypeOK', CancelAll PROVE BatchKept
<1> DEFINE stop == {j \in listed : status[j] \in {"queued", "processing"} /\ prev[j] = NoSlot}
           S == IF \E j \in stop : status[j] = "processing" THEN StopActiveEncode(Slot) ELSE Slot
           T == ClearStranded(S)
           drained == /\ batch = "open" /\ T.act.kind = "idle"
                      /\ \A j \in (listed \cap inBatch) \ stop : status[j] # "queued"
<1>1. \A j \in Jobs : status'[j] = "queued" => status[j] = "queued" /\ j \notin stop
  BY DEF CancelAll
<1>2. listed' = listed /\ listed \subseteq Jobs
  BY DEF CancelAll, BatchInv, TypeInv, TypeOK
<1>3. NothingNew
  BY <1>1, <1>2 DEF NothingNew
<1>4. CASE drained
  <2>1. \A j \in listed : status[j] = "queued" => j \in inBatch
    BY DEF BatchInv, QueuedInOpenBatch
  <2>2. NoneQueued'
    <3> HIDE DEF stop
    <3> QED BY <2>1, <1>1, <1>2, <1>4 DEF NoneQueued
  <2> QED BY <2>2, EmptyKept
<1>5. CASE ~drained
  <2>1. Keeps(Slot, T)
    BY SlotTyped, SlotKept, StopActiveEncodeKeeps, ClearStrandedKeeps DEF Keeps, BatchInv, TypeInv
  <2>2. Becomes([T EXCEPT !.watchdog = @ /\ ~drained]) /\ batch' = batch
    BY <1>5 DEF CancelAll
  <2>3. watchdog => watchdog'
    <3> HIDE DEF T, drained
    <3> QED BY <2>1, <2>2, <1>5 DEF Becomes, Keeps, SlotType, Slot
  <2>4. inBatch' = inBatch /\ starting' = starting
    BY DEF CancelAll
  <2> QED BY <1>3, <2>2, <2>3, <2>4, QuietKept
<1> QED BY <1>4, <1>5

LEMMA RequestKept ==
  ASSUME BatchInv, TypeOK', NEW j \in Jobs,
         \/ Cancel(j) \/ CancelBegin(j) \/ CancelEnd(j)
         \/ \E on \in BOOLEAN : SetPaused(j, on)
         \/ Prioritize(j) \/ CancelPrioritized(j) \/ Measure(j)
  PROVE  BatchKept
<1> USE DEF BatchInv, TypeInv
<1>1. CASE Cancel(j)
  BY <1>1, CancelEffectKept DEF Cancel
<1>2. CASE CancelBegin(j)
  <2>1. NothingNew
    BY <1>2, SameCards DEF CancelBegin, cards
  <2> QED BY <1>2, <2>1, QuietKept DEF CancelBegin, slot
<1>3. CASE CancelEnd(j)
  BY <1>3, CancelEffectKept DEF CancelEnd
<1>4. ASSUME NEW on \in BOOLEAN, SetPaused(j, on) PROVE BatchKept
  <2>1. NothingNew
    BY <1>4, SameCards DEF SetPaused
  <2>2. act.child \in Runs \cup {None}
    BY DEF TypeOK, Activity
  <2>3. watchdog => watchdog'
    BY <1>4, <2>2, SlotTyped, SlotKept, ReleasePauseHoldKeeps, TakePauseHoldKeeps, KeptWatchdog
    DEF SetPaused
  <2> QED BY <1>4, <2>1, <2>3, QuietKept DEF SetPaused, lists
<1>5. CASE Prioritize(j)
  <2> DEFINE C == ClearStranded(Slot)
             asked == [prio EXCEPT ![j] = "asked"]
  <2>1. NothingNew
    BY <1>5, SameCards DEF Prioritize
  <2>2. Keeps(Slot, C)
    BY SlotTyped, ClearStrandedKeeps
  <2>3. Keeps(C, Handoff(C, asked))
    <3> HIDE DEF C
    <3> QED BY <2>2, HandoffKeeps DEF Keeps
  <2>4. Keeps(Slot, Handoff(C, asked))
    BY <2>2, <2>3, KeepsTrans
  <2>5. Becomes(Handoff(C, asked))
    BY <1>5 DEF Prioritize
  <2>6. watchdog => watchdog'
    <3> HIDE DEF C, asked
    <3> QED BY <2>4, <2>5, KeptWatchdog
  <2> QED BY <1>5, <2>1, <2>6, QuietKept DEF Prioritize, lists
<1>6. CASE CancelPrioritized(j) \/ Measure(j)
  <2>1. NothingNew
    BY <1>6, SameCards DEF CancelPrioritized, Measure
  <2> QED BY <1>6, <2>1, QuietKept DEF CancelPrioritized, Measure, slot, lists
<1> QED BY <1>1, <1>2, <1>3, <1>4, <1>5, <1>6

LEMMA HandoffEndKept == ASSUME BatchInv, TypeOK', HandoffEnd PROVE BatchKept
<1> DEFINE S == ReleaseEstimateHold(Slot)
           T == IF S.act.kind = "estimating" THEN [S EXCEPT !.act = Idle] ELSE S
           U == [T EXCEPT !.handoff = "none",
                          !.pumpDue = @ \/ (handoff = "idle" /\ T.act.kind = "idle")]
<1>1. NothingNew
  BY SameCards DEF HandoffEnd, cards, BatchInv, TypeInv
<1>2. Keeps(Slot, S)
  BY SlotTyped, ReleaseEstimateHoldKeeps DEF BatchInv, TypeInv
<1>3. Keeps(S, T)
  <2> HIDE DEF S
  <2> QED BY <1>2, IdleTyped DEF Keeps, SlotType
<1>4. Keeps(T, U)
  <2> HIDE DEF T
  <2> QED BY <1>3 DEF Keeps, SlotType
<1>5. Keeps(Slot, U)
  BY <1>2, <1>3, <1>4, KeepsTrans
<1>6. watchdog => watchdog'
  <2>1. Becomes(U)
    BY DEF HandoffEnd
  <2> HIDE DEF U
  <2> QED BY <2>1, <1>5, KeptWatchdog DEF BatchInv, TypeInv
<1> QED BY <1>1, <1>6, QuietKept DEF HandoffEnd, lists

LEMMA ReadKept == ASSUME BatchInv, TypeOK', Read PROVE BatchKept
<1>1. NothingNew
  BY SameCards DEF Read, cards, BatchInv, TypeInv
<1>2. watchdog => watchdog'
  BY SlotTyped, ClearStrandedKeeps, KeptWatchdog DEF Read, BatchInv, TypeInv
<1> QED BY <1>1, <1>2, QuietKept DEF Read, lists

LEMMA OutsideKept == ASSUME BatchInv, TypeOK', Outside PROVE BatchKept
<1> USE DEF BatchInv, TypeInv
<1>1. CASE ToolsLost
  <2>1. NothingNew
    BY <1>1, SameCards DEF ToolsLost, cards
  <2> QED BY <1>1, <2>1, QuietKept DEF ToolsLost, slot, lists
<1>2. CASE ToolsBack
  <2>1. NothingNew
    BY <1>2, SameCards DEF ToolsBack, cards
  <2>2. Keeps(Slot, [Slot EXCEPT !.pumpDue = @ \/ act.kind = "idle"])
    BY SlotTyped DEF Keeps, SlotType
  <2>3. watchdog => watchdog'
    BY <1>2, <2>2, KeptWatchdog DEF ToolsBack
  <2> QED BY <1>2, <2>1, <2>3, QuietKept DEF ToolsBack, lists
<1>3. CASE RequestUpdateDrain
  <2>1. NothingNew
    BY <1>3, SameCards DEF RequestUpdateDrain, cards
  <2>2. watchdog => watchdog'
    BY <1>3, SlotTyped, ClearStrandedKeeps, KeptWatchdog DEF RequestUpdateDrain
  <2> QED BY <1>3, <2>1, <2>2, QuietKept DEF RequestUpdateDrain, lists
<1>4. CASE HandleWake
  <2> DEFINE R == ReleaseEstimateHold(Slot)
             T == SetActivity(R, Idle)
             U == [T EXCEPT !.pumpDue = TRUE]
  <2>1. NothingNew
    BY <1>4, MovedNothingNew DEF HandleWake
  <2>2. Keeps(Slot, R)
    BY SlotTyped, ReleaseEstimateHoldKeeps
  <2>3. Keeps(R, T)
    <3> HIDE DEF R
    <3> QED BY <2>2, SetActivityKeeps, IdleTyped DEF Keeps
  <2>4. Keeps(T, U)
    <3> HIDE DEF T
    <3> QED BY <2>3 DEF Keeps, SlotType
  <2>5. Keeps(Slot, U)
    BY <2>2, <2>3, <2>4, KeepsTrans
  <2>6. watchdog => watchdog'
    <3>1. Becomes(U)
      BY <1>4 DEF HandleWake
    <3> HIDE DEF U
    <3> QED BY <3>1, <2>5, KeptWatchdog
  <2> QED BY <1>4, <2>1, <2>6, QuietKept DEF HandleWake, lists
<1>5. ASSUME NEW r \in Runs, Vanish(r) PROVE BatchKept
  <2>1. NothingNew
    BY <1>5, SameCards DEF Vanish, cards
  <2>2. Keeps(Slot, [Slot EXCEPT !.holds = {h \in @ : h[1] # r}])
    BY SlotTyped DEF Keeps, SlotType
  <2>3. watchdog => watchdog'
    BY <1>5, <2>2, KeptWatchdog DEF Vanish
  <2> QED BY <1>5, <2>1, <2>3, QuietKept DEF Vanish, lists
<1> QED BY <1>1, <1>2, <1>3, <1>4, <1>5 DEF Outside

-----------------------------------------------------------------------------
LEMMA BatchStep == BatchInv /\ Next => BatchInv'
<1> SUFFICES ASSUME BatchInv, Next PROVE BatchInv'
  OBVIOUS
<1>1. TypeInv'
  BY TypeStep, RunsHaveCardsStep DEF BatchInv, TypeInv
<1>2. TypeOK'
  BY <1>1 DEF TypeInv
<1>3. SUFFICES BatchKept
  BY <1>1 DEF BatchInv, BatchKept
<1>4. ASSUME NEW j \in Jobs,
             Add(j) \/ (\E ok \in BOOLEAN : Probe(j, ok)) \/ ProbeUnavailable(j) \/ Remove(j)
      PROVE  BatchKept
  BY <1>2, <1>4, AddKept, ProbeKept, AbandonBatchKept, RemoveKept DEF ProbeUnavailable
<1>5. CASE (\E J \in SUBSET Jobs : StartBegin(J)) \/ StartCommit \/ StartThrow
  BY <1>2, <1>5, StartBeginKept, StartCommitKept, StartThrowKept
<1>6. CASE PumpSkip \/ PumpDrained \/ (\E j \in Jobs, r \in Runs : PumpClaim(j, r))
  BY <1>2, <1>6, PumpSkipKept, PumpDrainedKept, PumpClaimKept
<1>7. CASE CancelAll \/ HandoffEnd \/ Read \/ WatchdogTick \/ Outside
  BY <1>2, <1>7, CancelAllKept, HandoffEndKept, ReadKept, WatchdogTickKept, OutsideKept
<1> QED BY <1>2, <1>4, <1>5, <1>6, <1>7, RunKept, RequestKept, Steps

LEMMA BatchStutter == BatchInv /\ UNCHANGED vars => BatchInv'
<1> SUFFICES ASSUME BatchInv, UNCHANGED vars PROVE BatchInv'
  OBVIOUS
<1>1. TypeInv'
  BY TypeStutter DEF BatchInv
<1> QED BY <1>1 DEF BatchInv, QueuedInOpenBatch, StartAlone, NoneQueued, QueueWatched,
                    vars, cards, slot, lists

LEMMA BatchBegins == Init => BatchInv
BY InitType DEF Init, BatchInv, TypeInv, RunsHaveCards, QueuedInOpenBatch, StartAlone, QueueWatched

LEMMA BatchInvariant == Spec => []BatchInv
<1>1. Init => BatchInv
  BY BatchBegins
<1>2. BatchInv /\ [Next]_vars => BatchInv'
  BY BatchStep, BatchStutter
<1> QED BY <1>1, <1>2, PTL DEF Spec

(* Whatever fails, is stopped or goes missing, a card that was accepted    *)
(* waits in the open batch or has been handed back.                        *)
THEOREM BatchHolds == Spec => []QueuedInOpenBatch
<1>1. BatchInv => QueuedInOpenBatch
  BY DEF BatchInv
<1> QED BY <1>1, BatchInvariant, PTL

(* The drain watchdog is armed as long as a card is queued.                *)
THEOREM WatchHolds == Spec => []QueueWatched
<1>1. BatchInv => QueueWatched
  BY DEF BatchInv
<1> QED BY <1>1, BatchInvariant, PTL

-----------------------------------------------------------------------------
(* The drain for an update.                                                *)

(* Between the halves of start() nothing is under way and no update has    *)
(* been promised an end of the drain.                                      *)
StartIdle == starting # {} => act.kind = "idle" /\ update # "draining"

DrainInv == BatchInv /\ StartIdle

(* With an idle slot and nothing queued, no method takes the slot.         *)
LEMMA IdleMethods ==
  ASSUME NoneQueued, NEW S, S.act.kind = "idle", NEW r, NEW pr
  PROVE  /\ ClearStranded(S) = S /\ StopActiveEncode(S) = S
         /\ ReleaseEstimateHold(S) = S /\ Released(S, r) = S
         /\ Handoff(S, pr) = S /\ ~Running(S)
BY DEF NoneQueued, ClearStranded, Stranded, StopActiveEncode, Released,
       ReleaseEstimateHold, Handoff, Running, QueuedInBatch, Encodes

LEMMA IdleAttach ==
  ASSUME TypeOK, act.kind = "idle", NEW r \in Runs
  PROVE  Attach(Slot, r).act.kind = "idle"
BY SlotTyped DEF Attach, Slot, TypeOK, Activity

(* While start() is between its halves the slot stays idle.                *)
LEMMA StartStaysIdle ==
  ASSUME BatchInv, StartIdle, starting # {}, Next
  PROVE  act'.kind = "idle"
<1>1. /\ NoneQueued /\ act.kind = "idle" /\ Slot.act = act
      /\ ~Encodes(act)
  BY DEF BatchInv, StartAlone, StartIdle, Slot, Encodes
<1>2. \A pr, r : /\ ClearStranded(Slot) = Slot
                 /\ StopActiveEncode(Slot) = Slot
                 /\ ReleaseEstimateHold(Slot) = Slot
                 /\ Released(Slot, r) = Slot /\ Handoff(Slot, pr) = Slot
  BY <1>1, IdleMethods
<1>3. ASSUME NEW j \in Jobs,
             Add(j) \/ (\E ok \in BOOLEAN : Probe(j, ok)) \/ ProbeUnavailable(j) \/ Remove(j)
      PROVE  act' = act
  BY <1>3 DEF Add, Probe, ProbeUnavailable, Remove, AbandonBatch, Becomes, Slot, slot
<1>4. ASSUME NEW j \in Jobs,
             \/ Cancel(j) \/ CancelBegin(j) \/ CancelEnd(j)
             \/ \E on \in BOOLEAN : SetPaused(j, on)
             \/ Prioritize(j) \/ CancelPrioritized(j) \/ Measure(j)
      PROVE  act' = act
  <2>1. CASE Cancel(j) \/ CancelEnd(j)
    BY <1>2, <2>1 DEF Cancel, CancelEnd, CancelEffect, Becomes, Slot
  <2>2. ASSUME NEW on \in BOOLEAN PROVE ~SetPaused(j, on)
    BY <1>1 DEF SetPaused
  <2>3. CASE Prioritize(j)
    BY <1>2, <2>3 DEF Prioritize, Becomes, Slot
  <2>4. CASE CancelBegin(j) \/ CancelPrioritized(j) \/ Measure(j)
    BY <2>4 DEF CancelBegin, CancelPrioritized, Measure, slot
  <2> QED BY <1>4, <2>1, <2>2, <2>3, <2>4
<1>5. CASE (\E J \in SUBSET Jobs : StartBegin(J)) \/ StartCommit \/ StartThrow
  BY <1>1, <1>5 DEF StartBegin, StartCommit, StartThrow, Becomes, Slot, slot
<1>6. CASE PumpSkip \/ PumpDrained
  BY <1>1, <1>6 DEF PumpSkip, PumpDrained, Becomes, Slot
<1>7. ASSUME NEW j \in Jobs, NEW r \in Runs PROVE ~PumpClaim(j, r)
  BY <1>1 DEF NoneQueued, PumpClaim
<1>8. ASSUME NEW r \in Runs, NEW place, Spawn(r, place) PROVE act'.kind = "idle"
  <2>1. Attach(Slot, r).act.kind = "idle"
    BY <1>1, IdleAttach DEF BatchInv, TypeInv
  <2>2. Handoff(Attach(Slot, r), prio) = Attach(Slot, r)
    BY <1>1, <2>1, IdleMethods
  <2> QED BY <1>8, <2>1, <2>2 DEF Spawn, Becomes
<1>9. ASSUME NEW r \in Runs, End(r) PROVE act' = act
  <2>1. ClearStranded(Released(Slot, r)) = Slot
    BY <1>2
  <2> DEFINE D == [Slot EXCEPT !.pumpDue = TRUE]
  <2>2. D.act = act
    BY DEF Slot
  <2>3. Handoff(D, prio) = D
    <3> HIDE DEF D
    <3> QED BY <1>1, <2>2, IdleMethods
  <2> QED BY <1>9, <2>1, <2>2, <2>3 DEF End, Becomes
<1>10. ASSUME NEW r \in Runs,
              \/ \E ok \in BOOLEAN : Prepared(r, ok)
              \/ Encoded(r) \/ Fallback(r)
              \/ \E result \in {"ok", "bad", "tool"} : Validated(r, result)
              \/ Abandon(r) \/ \E result \in Results : Exit(r, result)
       PROVE  act'.kind = "idle"
  <2>1. \/ StopSeen(r) \/ Fail(r) \/ Spawn(r, "encode") \/ Spawn(r, "encode2")
        \/ Retry(r) \/ Moves(r, "probe") \/ Complete(r) \/ Abandon(r)
        \/ RuntimeFailure(r, "encoding") \/ RuntimeFailure(r, "output-validation")
        \/ \E result \in Results : Exit(r, result)
    BY <1>10 DEF Prepared, Encoded, Fallback, Validated
  <2>2. CASE \/ StopSeen(r) \/ Fail(r) \/ Retry(r) \/ Moves(r, "probe") \/ Complete(r)
             \/ RuntimeFailure(r, "encoding") \/ RuntimeFailure(r, "output-validation")
    BY <1>1, <2>2 DEF StopSeen, Fail, Retry, Moves, Complete, RuntimeFailure, slot
  <2>3. CASE Abandon(r) \/ \E result \in Results : Exit(r, result)
    BY <1>1, <2>3 DEF Abandon, AbandonBatch, Exit, Becomes, Slot
  <2> QED BY <2>1, <2>2, <2>3, <1>8
<1>11. CASE CancelAll
  <2> DEFINE stop == {j \in listed : status[j] \in {"queued", "processing"} /\ prev[j] = NoSlot}
             drained == /\ batch = "open" /\ Slot.act.kind = "idle"
                        /\ \A j \in (listed \cap inBatch) \ stop : status[j] # "queued"
  <2>1. Becomes([Slot EXCEPT !.watchdog = @ /\ ~drained])
    BY <1>2, <1>11 DEF CancelAll
  <2> QED BY <1>1, <2>1 DEF Becomes, Slot
<1>12. CASE HandoffEnd
  BY <1>1, <1>2, <1>12 DEF HandoffEnd, Becomes, Slot
<1>13. CASE Read \/ WatchdogTick
  BY <1>1, <1>2, <1>13 DEF Read, WatchdogTick, Becomes, Slot
<1>14. CASE Outside
  BY <1>1, <1>2, <1>14
  DEF Outside, ToolsLost, ToolsBack, RequestUpdateDrain, HandleWake, Vanish,
      Becomes, Slot, slot
<1> QED BY <1>1, <1>3, <1>4, <1>5, <1>6, <1>7, <1>9, <1>10, <1>11, <1>12, <1>13,
           <1>14, Steps

(* What starts the first half, and what promises the end of the drain.     *)
LEMMA StartingSet ==
  ASSUME Next, starting' # {}
  PROVE  starting' = starting \/ \E J \in SUBSET Jobs : StartBegin(J)
<1>1. ASSUME NEW j \in Jobs,
             Add(j) \/ (\E ok \in BOOLEAN : Probe(j, ok)) \/ ProbeUnavailable(j) \/ Remove(j)
      PROVE  starting' = starting
  BY <1>1 DEF Add, Probe, ProbeUnavailable, Remove, lists
<1>2. ASSUME NEW j \in Jobs,
             \/ Cancel(j) \/ CancelBegin(j) \/ CancelEnd(j)
             \/ \E on \in BOOLEAN : SetPaused(j, on)
             \/ Prioritize(j) \/ CancelPrioritized(j) \/ Measure(j)
      PROVE  starting' = starting
  BY <1>2 DEF Cancel, CancelBegin, CancelEnd, CancelEffect, SetPaused, Prioritize,
              CancelPrioritized, Measure, lists
<1>3. CASE StartCommit \/ StartThrow
  BY <1>3 DEF StartCommit, StartThrow
<1>4. CASE PumpSkip \/ PumpDrained \/ \E j \in Jobs, r \in Runs : PumpClaim(j, r)
  BY <1>4 DEF PumpSkip, PumpDrained, PumpClaim, lists
<1>5. ASSUME NEW r \in Runs,
             \/ \E ok \in BOOLEAN : Prepared(r, ok)
             \/ Encoded(r) \/ Fallback(r)
             \/ \E result \in {"ok", "bad", "tool"} : Validated(r, result)
             \/ Abandon(r) \/ End(r)
             \/ \E result \in Results : Exit(r, result)
      PROVE  starting' = starting
  BY <1>5 DEF Prepared, Encoded, Fallback, Validated, StopSeen, Fail, Spawn,
              RuntimeFailure, Retry, Moves, Complete, Abandon, End, Exit, lists
<1>6. CASE CancelAll \/ HandoffEnd \/ Read \/ WatchdogTick \/ Outside
  BY <1>6 DEF CancelAll, HandoffEnd, Read, WatchdogTick, Outside, ToolsLost, ToolsBack,
              RequestUpdateDrain, HandleWake, Vanish, lists
<1> QED BY <1>1, <1>2, <1>3, <1>4, <1>5, <1>6, Steps

LEMMA UpdateSet ==
  ASSUME Next, update' # update
  PROVE  RequestUpdateDrain \/ update' = "pending"
<1>1. ASSUME NEW j \in Jobs,
             Add(j) \/ (\E ok \in BOOLEAN : Probe(j, ok)) \/ ProbeUnavailable(j) \/ Remove(j)
      PROVE  FALSE
  BY <1>1 DEF Add, Probe, ProbeUnavailable, Remove, env
<1>2. ASSUME NEW j \in Jobs,
             \/ Cancel(j) \/ CancelBegin(j) \/ CancelEnd(j)
             \/ \E on \in BOOLEAN : SetPaused(j, on)
             \/ Prioritize(j) \/ CancelPrioritized(j) \/ Measure(j)
      PROVE  FALSE
  BY <1>2 DEF Cancel, CancelBegin, CancelEnd, CancelEffect, SetPaused, Prioritize,
              CancelPrioritized, Measure, env
<1>3. ASSUME (\E J \in SUBSET Jobs : StartBegin(J)) \/ StartCommit \/ StartThrow
      PROVE  FALSE
  BY <1>3 DEF StartBegin, StartCommit, StartThrow, env
<1>4. CASE PumpSkip \/ PumpDrained \/ \E j \in Jobs, r \in Runs : PumpClaim(j, r)
  BY <1>4 DEF PumpSkip, PumpDrained, PumpClaim, env
<1>5. ASSUME NEW r \in Runs,
             \/ \E ok \in BOOLEAN : Prepared(r, ok)
             \/ Encoded(r) \/ Fallback(r)
             \/ \E result \in {"ok", "bad", "tool"} : Validated(r, result)
             \/ Abandon(r) \/ End(r)
             \/ \E result \in Results : Exit(r, result)
      PROVE  FALSE
  BY <1>5 DEF Prepared, Encoded, Fallback, Validated, StopSeen, Fail, Spawn,
              RuntimeFailure, Retry, Moves, Complete, Abandon, End, Exit, env
<1>6. CASE CancelAll \/ HandoffEnd \/ Read \/ WatchdogTick \/ Outside
  BY <1>6 DEF CancelAll, HandoffEnd, Read, WatchdogTick, Outside, ToolsLost, ToolsBack,
              HandleWake, Vanish, env
<1> QED BY <1>1, <1>2, <1>3, <1>4, <1>5, <1>6, Steps

LEMMA DrainStep == DrainInv /\ Next => StartIdle'
<1> SUFFICES ASSUME BatchInv, StartIdle, Next, starting' # {} PROVE StartIdle'
  BY DEF DrainInv, StartIdle
<1>1. ASSUME NEW J \in SUBSET Jobs, StartBegin(J) PROVE StartIdle'
  <2>1. ClearStranded(Slot).act.kind = "idle"
    BY <1>1 DEF StartBegin, Running
  <2> QED BY <1>1, <2>1 DEF StartBegin, Becomes, Accepting, StartIdle, env
<1>2. CASE starting' = starting
  <2>1. act'.kind = "idle"
    BY <1>2, StartStaysIdle
  <2>2. NoneQueued /\ act.kind = "idle" /\ update # "draining"
    BY <1>2 DEF BatchInv, StartAlone, StartIdle
  <2>3. CASE RequestUpdateDrain
    <3>1. ~Running(ClearStranded(Slot))
      BY <2>2, IdleMethods DEF Slot
    <3> QED BY <2>1, <2>3, <3>1 DEF RequestUpdateDrain, StartIdle
  <2>4. CASE ~RequestUpdateDrain
    BY <2>1, <2>2, <2>4, UpdateSet DEF StartIdle
  <2> QED BY <2>3, <2>4
<1> QED BY <1>1, <1>2, StartingSet

(* Only the second half of start() makes a card queued.                    *)
LEMMA QueuedByStart ==
  ASSUME TypeOK, Next, NEW j \in Jobs, status'[j] = "queued", status[j] # "queued"
  PROVE  StartCommit
<1>1. ASSUME NEW k, NEW s, s # "queued", status' = Moved(status, k, s) PROVE FALSE
  BY <1>1, MovedQuiet DEF TypeOK
<1>2. ~(status' = status)
  OBVIOUS
<1>3. ASSUME AbandonBatch(status) PROVE FALSE
  BY <1>3 DEF AbandonBatch, Given
<1>4. ASSUME NEW k \in Jobs, NEW was, NEW from, CancelEffect(k, was, from) PROVE FALSE
  <2> DEFINE intact == from # NoSlot /\ file[k][from] = "good"
             st == IF status[k] = "queued" /\ intact THEN Moved(status, k, "processing")
                   ELSE status
  <2>1. st \in [Jobs -> Status \cup {"absent"}]
    BY MovedType DEF TypeOK, Status
  <2>2. st[j] # "queued"
    BY MovedQuiet DEF TypeOK
  <2>3. status' = Moved(st, k, IF intact THEN "completed" ELSE "cancelled")
    BY <1>4 DEF CancelEffect
  <2> HIDE DEF st, intact
  <2> QED BY <2>1, <2>2, <2>3, MovedQuiet
<1>5. ASSUME NEW k \in Jobs,
             Add(k) \/ (\E ok \in BOOLEAN : Probe(k, ok)) \/ ProbeUnavailable(k) \/ Remove(k)
      PROVE  FALSE
  <2>1. ASSUME NEW ok, Probe(k, ok) PROVE FALSE
    BY <1>1, <2>1 DEF Probe
  <2>2. ~Add(k)
    BY DEF Add, TypeOK
  <2> QED BY <1>5, <2>1, <2>2, <1>2, <1>3 DEF ProbeUnavailable, Remove
<1>6. ASSUME NEW k \in Jobs,
             \/ Cancel(k) \/ CancelBegin(k) \/ CancelEnd(k)
             \/ \E on \in BOOLEAN : SetPaused(k, on)
             \/ Prioritize(k) \/ CancelPrioritized(k) \/ Measure(k)
      PROVE  FALSE
  BY <1>6, <1>2, <1>4 DEF Cancel, CancelBegin, CancelEnd, SetPaused, Prioritize,
                          CancelPrioritized, Measure, cards
<1>7. ASSUME NEW J \in SUBSET Jobs, StartBegin(J) PROVE FALSE
  BY <1>7 DEF StartBegin, TypeOK
<1>8. ASSUME NEW k \in Jobs, NEW r \in Runs, PumpClaim(k, r) PROVE FALSE
  BY <1>1, <1>8 DEF PumpClaim
<1>9. ASSUME NEW r \in Runs,
             \/ \E ok \in BOOLEAN : Prepared(r, ok)
             \/ Encoded(r) \/ Fallback(r)
             \/ \E result \in {"ok", "bad", "tool"} : Validated(r, result)
             \/ Abandon(r) \/ End(r)
             \/ \E result \in Results : Exit(r, result)
      PROVE  FALSE
  <2>1. ~Fail(r) /\ ~Complete(r)
    BY <1>1 DEF Fail, Complete
  <2>2. ASSUME NEW phase, RuntimeFailure(r, phase) PROVE FALSE
    BY <1>1, <2>2 DEF RuntimeFailure
  <2>3. /\ ~StopSeen(r) /\ ~Spawn(r, "encode") /\ ~Spawn(r, "encode2") /\ ~Retry(r)
        /\ ~Moves(r, "probe") /\ ~End(r)
        /\ ~\E result \in Results : Exit(r, result)
    BY <1>2 DEF StopSeen, Spawn, Retry, Moves, End, Exit, cards
  <2> QED BY <1>9, <2>1, <2>2, <2>3, <1>3 DEF Prepared, Encoded, Fallback, Validated, Abandon
<1>10. ASSUME CancelAll PROVE FALSE
  BY <1>10 DEF CancelAll, TypeOK
<1>11. ASSUME \/ StartThrow \/ PumpSkip \/ PumpDrained \/ HandoffEnd \/ Read
              \/ WatchdogTick \/ Outside
       PROVE  FALSE
  BY <1>1, <1>2, <1>11 DEF StartThrow, PumpSkip, PumpDrained, HandoffEnd, Read,
       WatchdogTick, Outside, ToolsLost, ToolsBack, RequestUpdateDrain, HandleWake,
       Vanish, cards
<1> QED BY <1>5, <1>6, <1>7, <1>8, <1>9, <1>10, <1>11, Steps

(* While an update drains the queue, no card becomes queued: not by a new  *)
(* start(), which is refused, and not by one in whose middle the update    *)
(* was asked for, because that update was granted and not drained for      *)
(* (queue.ts, start and requestUpdateDrain).                               *)
THEOREM DrainHolds == Spec => DrainAdmitsNothing
<1>1. Init => DrainInv
  BY BatchBegins DEF Init, DrainInv, StartIdle
<1>2. DrainInv /\ [Next]_vars => DrainInv'
  <2>1. DrainInv /\ Next => DrainInv'
    BY BatchStep, DrainStep DEF DrainInv
  <2>2. DrainInv /\ UNCHANGED vars => DrainInv'
    BY BatchStutter DEF DrainInv, StartIdle, vars, slot, lists, env
  <2> QED BY <2>1, <2>2
<1>3. DrainInv /\ [Next]_vars =>
        [update = "draining" =>
           \A j \in Jobs : status'[j] = "queued" => status[j] = "queued"]_vars
  <2> SUFFICES ASSUME DrainInv, Next, update = "draining", NEW j \in Jobs,
                      status'[j] = "queued", status[j] # "queued"
               PROVE  FALSE
    OBVIOUS
  <2>1. StartCommit
    BY QueuedByStart DEF DrainInv, BatchInv, TypeInv
  <2> QED BY <2>1 DEF StartCommit, DrainInv, StartIdle
<1> QED BY <1>1, <1>2, <1>3, PTL DEF Spec, DrainAdmitsNothing

-----------------------------------------------------------------------------
(* The refinement of JobCards.                                             *)

(* What one card of the list does in a step.                               *)
MoveOK(from, to) ==
  \/ from = to
  \/ to \in Edges(from)
  \/ from = "absent" /\ to = "analyzing"
  \/ from \in Status \ Stoppable /\ to = "absent"
  \/ from = "queued" /\ to = "completed"

Shown(j) == IF j \in listed THEN status[j] ELSE "absent"

AllMovesOK == \A j \in Jobs : MoveOK(Shown(j), Shown(j)')

LEMMA EdgesOf ==
  /\ \A s : Edges(s) # {} => s \in Status
  /\ \A s \in Settled : "ready" \in Edges(s)
  /\ "ready" \in Edges("queued")
  /\ \A s \in {"queued", "processing"} : "cancelled" \in Edges(s)
  /\ Edges("queued") = {"processing", "cancelled", "ready"}
BY DEF Edges, Settled, Status

LEMMA MoveOKIsCardMove ==
  ASSUME NEW from, NEW to, MoveOK(from, to)
  PROVE  Cards!CardMove(from, to)
<1>1. \A s : Cards!Edges(s) = Edges(s)
  BY DEF Cards!Edges, Edges
<1>2. Cards!Status = Status /\ Cards!Stoppable = Stoppable
  BY <1>1 DEF Cards!Status, Status, Cards!Stoppable, Stoppable
<1>3. to \in Edges(from) => from \in Status
  BY EdgesOf
<1> QED BY <1>1, <1>2, <1>3
        DEF MoveOK, Cards!CardMove, Cards!Appear, Cards!Disappear, Cards!HandBack

LEMMA SameShown == ASSUME UNCHANGED <<status, listed>> PROVE AllMovesOK
BY DEF AllMovesOK, MoveOK, Shown

(* A write through transition().                                           *)
LEMMA MovedOK ==
  ASSUME TypeOK, NEW j, NEW s, status' = Moved(status, j, s), listed' = listed
  PROVE  AllMovesOK
<1>1. \A k \in Jobs : status'[k] = status[k] \/ status'[k] \in Edges(status[k])
  BY DEF TypeOK, Moved, Allowed
<1> QED BY <1>1 DEF AllMovesOK, MoveOK, Shown

LEMMA AbandonBatchOK ==
  ASSUME AbandonBatch(status), listed' = listed
  PROVE  AllMovesOK
BY EdgesOf DEF AbandonBatch, Given, AllMovesOK, MoveOK, Shown

LEMMA AddOK == ASSUME TypeOK, NEW j \in Jobs, Add(j) PROVE AllMovesOK
BY DEF Add, TypeOK, AllMovesOK, MoveOK, Shown

LEMMA RemoveOK == ASSUME TypeOK, NEW j \in Jobs, Remove(j) PROVE AllMovesOK
<1>1. CASE status[j] = "absent"
  BY <1>1 DEF Remove, AllMovesOK, MoveOK, Shown
<1>2. CASE status[j] \in Status
  BY <1>2 DEF Remove, AllMovesOK, MoveOK, Shown
<1> QED BY <1>1, <1>2 DEF TypeOK

(* start() writes ready directly, but only over an edge the table has.     *)
LEMMA StartBeginOK ==
  ASSUME TypeOK, NEW J \in SUBSET Jobs, StartBegin(J) PROVE AllMovesOK
<1>1. \A j \in Jobs : status'[j] = status[j]
                        \/ (status[j] \in Settled /\ status'[j] = "ready")
  BY DEF StartBegin
<1> QED BY <1>1, EdgesOf DEF AllMovesOK, MoveOK, Shown, StartBegin

LEMMA StartCommitOK == ASSUME TypeOK, StartCommit PROVE AllMovesOK
<1>1. \A j \in Jobs : Moved(status, j, "queued")[j] = status[j]
                        \/ Moved(status, j, "queued")[j] \in Edges(status[j])
  BY DEF TypeOK, Moved, Allowed
<1>2. \A j \in Jobs : status'[j] = status[j] \/ status'[j] \in Edges(status[j])
  BY <1>1 DEF StartCommit
<1> QED BY <1>2 DEF AllMovesOK, MoveOK, Shown, StartCommit

(* The stop of a queued repeat goes through processing to completed.       *)
LEMMA CancelEffectOK ==
  ASSUME TypeOK, NEW j \in Jobs, NEW was, NEW from, CancelEffect(j, was, from)
  PROVE  AllMovesOK
<1> DEFINE intact == from # NoSlot /\ file[j][from] = "good"
           st == IF status[j] = "queued" /\ intact THEN Moved(status, j, "processing") ELSE status
<1>1. listed' = listed /\ status' = Moved(st, j, IF intact THEN "completed" ELSE "cancelled")
  BY DEF CancelEffect
<1>2. CASE status[j] = "queued" /\ intact
  <2>1. st = [status EXCEPT ![j] = "processing"]
    BY <1>2, EdgesOf DEF Moved, Allowed
  <2>2. \A k \in Jobs : status'[k] = status[k]
                          \/ (k = j /\ status'[k] \in {"processing", "completed"})
    <3> HIDE DEF st
    <3> QED BY <2>1, <1>1, <1>2 DEF Moved, TypeOK
  <2> QED BY <1>1, <1>2, <2>2, EdgesOf DEF AllMovesOK, MoveOK, Shown
<1>3. CASE ~(status[j] = "queued" /\ intact)
  <2>1. st = status
    BY <1>3
  <2>2. status' = Moved(status, j, IF intact THEN "completed" ELSE "cancelled")
    BY <1>1, <2>1
  <2> QED BY <1>1, <2>2, MovedOK
<1> QED BY <1>2, <1>3

LEMMA CancelAllOK == ASSUME TypeOK, CancelAll PROVE AllMovesOK
<1>1. \A j \in Jobs : \/ status'[j] = status[j]
                      \/ status[j] \in {"queued", "processing"} /\ status'[j] = "cancelled"
  BY DEF CancelAll
<1> QED BY <1>1, EdgesOf DEF AllMovesOK, MoveOK, Shown, CancelAll

LEMMA RunOK ==
  ASSUME TypeOK, NEW r \in Runs,
         \/ \E ok \in BOOLEAN : Prepared(r, ok)
         \/ Encoded(r) \/ Fallback(r)
         \/ \E result \in {"ok", "bad", "tool"} : Validated(r, result)
         \/ Abandon(r) \/ End(r)
         \/ \E result \in Results : Exit(r, result)
  PROVE  AllMovesOK
<1>1. CASE Fail(r)
  BY <1>1, MovedOK DEF Fail
<1>2. CASE Complete(r)
  BY <1>2, MovedOK DEF Complete
<1>3. ASSUME NEW phase, RuntimeFailure(r, phase) PROVE AllMovesOK
  BY <1>3, MovedOK DEF RuntimeFailure
<1>4. CASE Abandon(r)
  BY <1>4, AbandonBatchOK DEF Abandon
<1>5. CASE \/ StopSeen(r) \/ Spawn(r, "encode") \/ Spawn(r, "encode2") \/ Retry(r)
           \/ Moves(r, "probe") \/ End(r) \/ \E result \in Results : Exit(r, result)
  <2>1. UNCHANGED <<status, listed>>
    BY <1>5 DEF StopSeen, Spawn, Retry, Moves, End, Exit, cards
  <2> QED BY <2>1, SameShown
<1>6. CASE \E ok \in BOOLEAN : Prepared(r, ok)
  BY <1>6, <1>1, <1>3, <1>5 DEF Prepared
<1>7. CASE Encoded(r)
  BY <1>7, <1>1, <1>3, <1>5 DEF Encoded
<1>8. CASE Fallback(r)
  BY <1>8, <1>5 DEF Fallback
<1>9. CASE \E result \in {"ok", "bad", "tool"} : Validated(r, result)
  BY <1>9, <1>1, <1>2, <1>3, <1>5 DEF Validated
<1> QED BY <1>4, <1>5, <1>6, <1>7, <1>8, <1>9

LEMMA CardsStep == TypeOK /\ Next => AllMovesOK
<1> SUFFICES ASSUME TypeOK, Next PROVE AllMovesOK
  OBVIOUS
<1>1. ASSUME NEW j \in Jobs,
             Add(j) \/ (\E ok \in BOOLEAN : Probe(j, ok)) \/ ProbeUnavailable(j) \/ Remove(j)
      PROVE  AllMovesOK
  <2>1. ASSUME NEW ok, Probe(j, ok) PROVE AllMovesOK
    BY <2>1, MovedOK DEF Probe
  <2>2. CASE ProbeUnavailable(j)
    BY <2>2, AbandonBatchOK DEF ProbeUnavailable
  <2> QED BY <1>1, <2>1, <2>2, AddOK, RemoveOK
<1>2. ASSUME NEW j \in Jobs,
             \/ Cancel(j) \/ CancelBegin(j) \/ CancelEnd(j)
             \/ \E on \in BOOLEAN : SetPaused(j, on)
             \/ Prioritize(j) \/ CancelPrioritized(j) \/ Measure(j)
      PROVE  AllMovesOK
  <2>1. CASE Cancel(j)
    BY <2>1, CancelEffectOK DEF Cancel
  <2>2. CASE CancelEnd(j)
    BY <2>2, CancelEffectOK DEF CancelEnd
  <2>3. CASE \/ CancelBegin(j) \/ (\E on \in BOOLEAN : SetPaused(j, on))
             \/ Prioritize(j) \/ CancelPrioritized(j) \/ Measure(j)
    <3>1. UNCHANGED <<status, listed>>
      BY <2>3 DEF CancelBegin, SetPaused, Prioritize, CancelPrioritized, Measure, cards
    <3> QED BY <3>1, SameShown
  <2> QED BY <1>2, <2>1, <2>2, <2>3
<1>3. CASE (\E J \in SUBSET Jobs : StartBegin(J)) \/ StartCommit
  BY <1>3, StartBeginOK, StartCommitOK
<1>4. ASSUME NEW j \in Jobs, NEW r \in Runs, PumpClaim(j, r) PROVE AllMovesOK
  BY <1>4, MovedOK DEF PumpClaim
<1>5. CASE \/ StartThrow \/ PumpSkip \/ PumpDrained \/ HandoffEnd \/ Read \/ WatchdogTick
           \/ ToolsLost \/ ToolsBack \/ RequestUpdateDrain \/ \E r \in Runs : Vanish(r)
  <2>1. UNCHANGED <<status, listed>>
    BY <1>5 DEF StartThrow, PumpSkip, PumpDrained, HandoffEnd, Read, WatchdogTick,
                ToolsLost, ToolsBack, RequestUpdateDrain, Vanish, cards
  <2> QED BY <2>1, SameShown
<1>6. CASE HandleWake
  BY <1>6, MovedOK DEF HandleWake
<1>7. CASE Outside
  BY <1>5, <1>6, <1>7 DEF Outside
<1> QED BY <1>1, <1>2, <1>3, <1>4, <1>5, <1>7, RunOK, CancelAllOK, Steps

(* The list a person sees obeys the table: it implements JobCards.         *)
THEOREM CardsImplemented == Spec => CardsRefinement
<1> DEFINE card == [j \in Jobs |-> IF j \in listed THEN status[j] ELSE "absent"]
<1>1. Init => Cards!CardsInit
  BY DEF Init, Cards!CardsInit
<1>2. TypeOK /\ TypeOK' /\ [Next]_vars => [Cards!CardsNext]_card
  <2> SUFFICES ASSUME TypeOK, TypeOK', [Next]_vars PROVE [Cards!CardsNext]_card
    OBVIOUS
  <2>1. CASE UNCHANGED vars
    BY <2>1 DEF vars, cards
  <2>2. CASE Next
    <3>1. AllMovesOK
      BY <2>2, CardsStep
    <3>2. \A j \in Jobs : Cards!CardMove(Shown(j), Shown(j)')
      BY <3>1, MoveOKIsCardMove DEF AllMovesOK
    <3>3. \A j \in Jobs : card[j] = Shown(j) /\ card'[j] = Shown(j)'
      BY DEF Shown
    <3>4. card' \in [Jobs -> Cards!Status \cup {"absent"}]
      BY DEF TypeOK, Cards!Status, Status
    <3>5. Cards!CardsNext
      BY <3>2, <3>3, <3>4 DEF Cards!CardsNext
    <3> QED BY <3>5
  <2> QED BY <2>1, <2>2
<1> QED BY <1>1, <1>2, TypeCorrect, PTL DEF Spec, CardsRefinement, Cards!CardsSpec
=============================================================================
