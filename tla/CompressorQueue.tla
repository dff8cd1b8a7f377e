-------------------------- MODULE CompressorQueue --------------------------
(***************************************************************************)
(* The compression queue of the agent: CompressionQueue in                 *)
(* apps/agent/src/queue/queue.ts.                                          *)
(*                                                                         *)
(* The queue is one object in a single-threaded process; its interleaving  *)
(* comes from the awaits of its asynchronous methods.  An action below is  *)
(* the code between two awaits.  Three kinds of activity overlap:          *)
(*   - runs: passes of pump(), each driving one encode to its end; a       *)
(*     stopped encode gives up the slot at once, so an older run may still *)
(*     be unwinding while a newer one encodes;                             *)
(*   - the estimate handoff: the loop of runPrioritizedEstimates(), during *)
(*     which the governor keeps the encoder suspended;                     *)
(*   - requests: start, cancel, pause, ... and the two that await in the   *)
(*     middle (start, and the cancel of a repeat).                         *)
(***************************************************************************)
EXTENDS JobLifecycle, Naturals, FiniteSets

CONSTANTS Jobs,        \* cards
          Runs,        \* passes of pump() that may be in flight at once (bound)
          Slots,       \* output names per card, 1 = the first choice (bound)
          None,        \* no run, no job
          CanSuspend,  \* the governor can suspend a child on this platform
          Ops,         \* the requests and outside events of this instance
          RerunBusy    \* may a card be started again while its stopped run unwinds?

ASSUME QueueAssumption ==
  /\ None \notin Runs \cup Jobs
  /\ Slots \subseteq Nat \ {0}
  /\ CanSuspend \in BOOLEAN
  /\ RerunBusy \in BOOLEAN

VARIABLES
  \* cards: CompressionJob.  A card that left the list keeps its last status:
  \* a run in flight still holds the object.
  status, listed, out, prev, paused, prio,
  \* disk: what is at each output name, and the name each encoder writes
  file, writing,
  \* the slot: this.current, the governor's holds, this.pauseHolds, the drain
  \* watchdog, a pump() queued as a microtask, this.terminating, and the one
  \* estimate handoff with what it began from (wasEncoding)
  act, holds, pauseHold, watchdog, pumpDue, terminating, handoff,
  \* runs: where each stands, its card, and its encoder process
  pc, rjob, child,
  \* this.batch, the cards of it, cards between the awaits of start(), and
  \* cancels between theirs
  batch, inBatch, starting, cancelling,
  \* this.tools and this.updateState
  tools, update

cards == <<status, listed, out, prev, paused, prio>>
disk  == <<file, writing>>
slot  == <<act, holds, pauseHold, watchdog, pumpDue, terminating, handoff>>
runs  == <<pc, rjob, child>>
lists == <<batch, inBatch, starting, cancelling>>
env   == <<tools, update>>
vars  == <<cards, disk, slot, runs, lists, env>>

-----------------------------------------------------------------------------
(* Types.                                                                  *)

NoSlot == 0
Reasons == {"paused", "estimate"}
Places == {"free", "prepare", "encode", "fallback", "encode2", "probe",
           "abandon", "ending"}
Processes == {"none", "live", "refused", "vanished",
              "zero", "fail", "audio", "nospawn"}
Activity == [kind : {"idle", "estimating", "encoding", "held"},
             job : Jobs \cup {None}, run : Runs \cup {None},
             child : Runs \cup {None}]
Cancels == {<<"no", NoSlot>>}
             \cup {"queued", "processing"} \X (Slots \cup {NoSlot})

TypeOK ==
  /\ status \in [Jobs -> Status \cup {"absent"}]
  /\ listed \subseteq Jobs
  /\ out \in [Jobs -> Slots \cup {NoSlot}]
  /\ prev \in [Jobs -> Slots \cup {NoSlot}]
  /\ paused \in [Jobs -> BOOLEAN]
  /\ prio \in [Jobs -> {"idle", "asked", "measured"}]
  /\ file \in [Jobs -> [Slots -> {"none", "partial", "good"}]]
  /\ writing \in [Runs -> Slots \cup {NoSlot}]
  /\ act \in Activity
  /\ holds \subseteq Runs \X Reasons
  /\ pauseHold \in [Jobs -> Runs \cup {None}]
  /\ watchdog \in BOOLEAN
  /\ pumpDue \in BOOLEAN
  /\ terminating \subseteq Runs
  /\ handoff \in {"none", "encoding", "idle"}
  /\ pc \in [Runs -> Places]
  /\ rjob \in [Runs -> Jobs \cup {None}]
  /\ child \in [Runs -> Processes]
  /\ batch \in {"none", "open", "closed"}
  /\ inBatch \subseteq Jobs
  /\ starting \subseteq Jobs
  /\ cancelling \in [Jobs -> Cancels]
  /\ tools \in BOOLEAN
  /\ update \in {"none", "draining", "pending"}

Idle == [kind |-> "idle", job |-> None, run |-> None, child |-> None]
Estimating == [Idle EXCEPT !.kind = "estimating"]

Init ==
  /\ status = [j \in Jobs |-> "absent"] /\ listed = {}
  /\ out = [j \in Jobs |-> NoSlot] /\ prev = [j \in Jobs |-> NoSlot]
  /\ paused = [j \in Jobs |-> FALSE] /\ prio = [j \in Jobs |-> "idle"]
  /\ file = [j \in Jobs |-> [s \in Slots |-> "none"]]
  /\ writing = [r \in Runs |-> NoSlot]
  /\ act = Idle /\ holds = {} /\ pauseHold = [j \in Jobs |-> None]
  /\ watchdog = FALSE /\ pumpDue = FALSE /\ terminating = {}
  /\ handoff = "none"
  /\ pc = [r \in Runs |-> "free"] /\ rjob = [r \in Runs |-> None]
  /\ child = [r \in Runs |-> "none"]
  /\ batch = "none" /\ inBatch = {} /\ starting = {}
  /\ cancelling = [j \in Jobs |-> <<"no", NoSlot>>]
  /\ tools = TRUE /\ update = "none"

-----------------------------------------------------------------------------
(* The slot.  Handlers change it through several methods in a row, so each *)
(* method is an operator from slot records to slot records.                *)

Slot == [act |-> act, holds |-> holds, pauseHold |-> pauseHold,
         watchdog |-> watchdog, pumpDue |-> pumpDue,
         terminating |-> terminating, handoff |-> handoff,
         alive |-> {r \in Runs : child[r] \in {"live", "refused"}}]

Becomes(S) ==
  /\ act' = S.act /\ holds' = S.holds /\ pauseHold' = S.pauseHold
  /\ watchdog' = S.watchdog /\ pumpDue' = S.pumpDue
  /\ terminating' = S.terminating /\ handoff' = S.handoff

Encodes(a) == a.kind \in {"encoding", "held"}

(* A governor hold on a process that is gone is empty.                     *)
Hold(S, r, why) ==
  IF r \in S.alive THEN [S EXCEPT !.holds = @ \cup {<<r, why>>}] ELSE S

TakePauseHold(S, j, r) ==
  IF r = None THEN S ELSE [Hold(S, r, "paused") EXCEPT !.pauseHold[j] = r]

ReleasePauseHold(S, j) ==
  [S EXCEPT !.holds = @ \ {<<S.pauseHold[j], "paused">>}, !.pauseHold[j] = None]

(* A pause is a hold on one child: it ends with the encode and moves with  *)
(* the same card to its next child.  Any activity arms the watchdog.       *)
PauseFollows(S, next) ==
  LET j == S.act.job
      same == next.kind = "encoding" /\ next.job = j
  IN  IF S.act.kind # "encoding" \/ S.pauseHold[j] = None THEN S
      ELSE IF ~same THEN ReleasePauseHold(S, j)
      ELSE IF next.child = S.act.child THEN S
      ELSE TakePauseHold(ReleasePauseHold(S, j), j, next.child)

SetActivity(S, next) ==
  [PauseFollows(S, next) EXCEPT !.act = next,
                                !.watchdog = @ \/ next.kind # "idle"]

ReleaseEstimateHoldForgotten(S) ==                           \* mutant
  IF S.act.kind # "held" THEN S
  ELSE SetActivity(S, [S.act EXCEPT !.kind = "encoding"])
ReleaseEstimateHold(S) ==
  IF S.act.kind # "held" THEN S
  ELSE [SetActivity(S, [S.act EXCEPT !.kind = "encoding"])
          EXCEPT !.holds = @ \ {<<S.act.child, "estimate">>}]

(* resumeForTermination() drops every hold, so that the signal arrives.    *)
SignalAbsent(S, r) ==                                        \* mutant
  [S EXCEPT !.holds = {h \in @ : h[1] # r}, !.terminating = @ \cup {r}]
Signal(S, r) ==
  IF r = None THEN S
  ELSE [S EXCEPT !.holds = {h \in @ : h[1] # r},
                 !.terminating = @ \cup ({r} \cap S.alive)]

(* A stop frees the slot at once; the run it stops unwinds later.          *)
StopActiveEncodeUnsignalled(S) ==                            \* mutant
  IF ~Encodes(S.act) THEN S
  ELSE [SetActivity(ReleaseEstimateHold(S), Idle) EXCEPT !.pumpDue = TRUE]
StopActiveEncodeSuspended(S) ==                              \* mutant
  IF ~Encodes(S.act) THEN S
  ELSE [SetActivity([S EXCEPT !.terminating = @ \cup ({S.act.child} \cap S.alive)], Idle)
          EXCEPT !.pumpDue = TRUE]
StopActiveEncode(S) ==
  IF ~Encodes(S.act) THEN S
  ELSE [SetActivity(Signal(ReleaseEstimateHold(S), S.act.child), Idle)
          EXCEPT !.pumpDue = TRUE]

(* An encode of a card that has left the list or has settled is no encode. *)
StrandedByProcess(S) == Encodes(S.act) /\ S.act.child \notin S.alive   \* mutant
Stranded(S) ==
  Encodes(S.act) /\ (S.act.job \notin listed \/ status[S.act.job] \in Settled)

ClearStranded(S) == IF Stranded(S) THEN SetActivity(S, Idle) ELSE S

QueuedInBatch == \E j \in inBatch \cap listed : status[j] = "queued"

RunningByActivity(S) == S.act.kind # "idle"                  \* mutant
Running(S) == S.act.kind # "idle" \/ QueuedInBatch

(* runPrioritizedEstimates() up to its first await, pr being the estimate  *)
(* requests.  It claims the slot or, when an encoder runs, has it held.    *)
(* The estimator serves one loop at a time: a second one is answered false *)
(* and undoes its claim before anything else happens.                      *)
Handoff(S, pr) ==
  LET wanted == batch # "none" /\ \E j \in listed : status[j] = "queued" /\ pr[j] = "asked"
      first == S.handoff = "none"
      held == SetActivity(Hold(S, S.act.child, "estimate"), [S.act EXCEPT !.kind = "held"])
  IN  IF ~wanted THEN S
      ELSE IF S.act.kind = "idle" THEN
             IF first THEN [S EXCEPT !.act = Estimating, !.handoff = "idle"]
             ELSE [S EXCEPT !.pumpDue = TRUE]
      ELSE IF S.act.kind = "encoding" /\ CanSuspend /\ S.act.child \in S.alive THEN
             IF first THEN [held EXCEPT !.handoff = "encoding"]
             ELSE ReleaseEstimateHold(held)
      ELSE S

-----------------------------------------------------------------------------
(* Cards.                                                                  *)

Busy(j) == \E r \in Runs : rjob[r] = j

(* nextOutputPath(): the first name that is neither reserved nor on disk.  *)
FreeSlotsUnreserved(j, reserved) ==                          \* mutant
  IF reserved = {} THEN Slots ELSE {s \in Slots \ reserved : file[j][s] = "none"}
FreeSlots(j, reserved) == {s \in Slots \ reserved : file[j][s] = "none"}
NextOutput(j, reserved) ==
  CHOOSE s \in FreeSlots(j, reserved) : \A t \in FreeSlots(j, reserved) : s <= t

(* addOne() up to the probe.  A card of the model is used again for a new  *)
(* file only when nothing refers to the old one.                           *)
Add(j) ==
  /\ j \notin listed /\ ~Busy(j) /\ j \notin starting
  /\ cancelling[j][1] = "no" /\ FreeSlots(j, {}) # {}
  /\ status[j] # "absent" => "readd" \in Ops
  /\ status' = [status EXCEPT ![j] = "analyzing"]
  /\ listed' = listed \cup {j}
  /\ out' = [out EXCEPT ![j] = NextOutput(j, {})]
  /\ prev' = [prev EXCEPT ![j] = NoSlot]
  /\ paused' = [paused EXCEPT ![j] = FALSE]
  /\ prio' = [prio EXCEPT ![j] = "idle"]
  /\ inBatch' = inBatch \ {j}
  /\ UNCHANGED <<disk, slot, runs, batch, starting, cancelling, env>>

Probe(j, ok) ==
  /\ j \in listed /\ status[j] = "analyzing" /\ tools
  /\ status' = Moved(status, j, IF ok THEN "ready" ELSE "failed")
  /\ UNCHANGED <<listed, out, prev, paused, prio, disk, slot, runs, lists, env>>

(* pauseForRuntimeFailure(), its second half: what the batch had queued    *)
(* goes back to ready, the batch is over and nothing watches any more.     *)
Given(st) ==
  [j \in Jobs |-> IF j \in listed \cap inBatch /\ batch # "none" /\ st[j] = "queued"
                  THEN "ready" ELSE st[j]]
AbandonBatch(st) ==
  LET given == {j \in listed \cap inBatch : st[j] = "queued"}
  IN  /\ status' = Given(st)
      /\ prio' = [j \in Jobs |-> IF j \in given /\ batch # "none" THEN "idle" ELSE prio[j]]
      /\ inBatch' = IF batch = "none" THEN inBatch ELSE inBatch \ given
      /\ batch' = IF batch = "none" THEN "none" ELSE "closed"
      /\ Becomes([Slot EXCEPT !.watchdog = @ /\ batch = "none"])

(* A probe that finds the tool missing: the card stays in analysis.        *)
ProbeUnavailable(j) ==
  /\ "tools" \in Ops
  /\ j \in listed /\ status[j] = "analyzing"
  /\ tools' = FALSE
  /\ AbandonBatch(status)
  /\ UNCHANGED <<listed, out, prev, paused, disk, runs, starting, cancelling, update>>

(* remove(): what cannot be stopped can be removed.                        *)
Remove(j) ==
  /\ "remove" \in Ops
  /\ j \in listed /\ status[j] \notin Stoppable
  /\ listed' = listed \ {j}
  /\ UNCHANGED <<status, out, prev, paused, prio, disk, slot, runs, lists, env>>

-----------------------------------------------------------------------------
(* What start() refuses to work without: the tools, and no update waiting. *)
AcceptingWhileDraining == tools                              \* mutant
Accepting == tools /\ update = "none"

(* start(), behind its gate.  First half: the guard, and resetForRerun()   *)
(* of the cards that had settled.                                          *)
StartBegin(J) ==
  LET S == ClearStranded(Slot)
      again == {j \in J : status[j] \in Settled}
      kept(j) == IF status[j] = "completed" THEN out[j] ELSE NoSlot
  IN
  /\ starting = {} /\ J # {} /\ J \subseteq listed
  /\ Accepting /\ ~Running(S)
  /\ \A j \in J : status[j] \in Settled \cup {"ready"}
  /\ \A j \in again : /\ "rerun" \in Ops
                      /\ status[j] = "completed" => "repeat" \in Ops
                      /\ RerunBusy \/ ~Busy(j)
  /\ \A j \in J : FreeSlots(j, {kept(j)}) # {}
  /\ status' = [j \in Jobs |-> IF j \in again THEN "ready" ELSE status[j]]
  /\ prev' = [j \in Jobs |-> IF j \in again THEN kept(j) ELSE prev[j]]
  /\ out' = [j \in Jobs |-> IF j \in again THEN NextOutput(j, {kept(j)}) ELSE out[j]]
  /\ prio' = [j \in Jobs |-> IF j \in again THEN "idle" ELSE prio[j]]
  /\ inBatch' = inBatch \ again
  /\ starting' = J
  /\ Becomes(S)
  /\ UNCHANGED <<listed, paused, disk, runs, batch, cancelling, env>>

(* Second half, after the disk and the folders answered: commit at once.   *)
StartCommit ==
  /\ starting # {}
  /\ \A j \in starting : FreeSlots(j, {}) # {}
  /\ status' = [j \in Jobs |-> IF j \in starting THEN Moved(status, j, "queued")[j]
                               ELSE status[j]]
  /\ out' = [j \in Jobs |-> IF j \in starting THEN NextOutput(j, {}) ELSE out[j]]
  /\ batch' = "open"
  /\ inBatch' = starting
  /\ starting' = {}
  /\ Becomes([Slot EXCEPT !.watchdog = TRUE, !.pumpDue = TRUE])
  /\ UNCHANGED <<listed, prev, paused, prio, disk, runs, cancelling, env>>

(* Or a folder is not writable, or an image is gone: nothing was marked.   *)
StartThrow ==
  /\ starting # {}
  /\ starting' = {}
  /\ UNCHANGED <<cards, disk, slot, runs, batch, inBatch, cancelling, env>>

-----------------------------------------------------------------------------
(* pump().                                                                 *)
CanPump == act.kind = "idle" /\ batch # "none" /\ tools

PumpSkip ==
  /\ pumpDue /\ ~CanPump
  /\ pumpDue' = FALSE
  /\ UNCHANGED <<cards, disk, act, holds, pauseHold, watchdog, terminating, handoff,
                 runs, lists, env>>

PumpDrained ==
  /\ pumpDue /\ CanPump /\ ~QueuedInBatch
  /\ Becomes([Slot EXCEPT !.pumpDue = FALSE, !.watchdog = FALSE])
  /\ batch' = "closed"
  /\ update' = IF update = "draining" THEN "pending" ELSE update
  /\ UNCHANGED <<cards, disk, runs, inBatch, starting, cancelling, tools>>

PumpClaim(j, r) ==
  /\ pumpDue /\ CanPump
  /\ j \in listed \cap inBatch /\ status[j] = "queued"
  /\ pc[r] = "free" /\ r = CHOOSE q \in Runs : pc[q] = "free"
  /\ Becomes([SetActivity(Slot, [kind |-> "encoding", job |-> j, run |-> r, child |-> None])
                EXCEPT !.pumpDue = FALSE])
  /\ status' = Moved(status, j, "processing")
  /\ prio' = [prio EXCEPT ![j] = IF @ = "asked" THEN "idle" ELSE @]
  /\ pc' = [pc EXCEPT ![r] = "prepare"]
  /\ rjob' = [rjob EXCEPT ![r] = j]
  /\ UNCHANGED <<listed, out, prev, paused, disk, child, lists, env>>

(* What a run finds when it resumes.  Only the status says it was stopped. *)
Cancelled(r) == status[rjob[r]] = "cancelled"

(* unlink(job.outputPath): whoever writes there now writes to no name.     *)
Unlinked(r) ==
  LET j == rjob[r] IN
  /\ file' = [file EXCEPT ![j] = [s \in Slots |-> IF s = out[j] THEN "none" ELSE @[s]]]
  /\ writing' = [q \in Runs |-> IF rjob[q] = j /\ writing[q] = out[j] THEN NoSlot
                                ELSE writing[q]]

At(r, place) == pc' = [pc EXCEPT ![r] = place]

(* A run that was stopped removes its output and says nothing.             *)
StopSeenKeeping(r) ==                                        \* mutant
  /\ Cancelled(r) /\ At(r, "ending")
  /\ UNCHANGED <<cards, disk, slot, rjob, child, lists, env>>
StopSeen(r) ==
  /\ Cancelled(r) /\ Unlinked(r) /\ At(r, "ending")
  /\ UNCHANGED <<cards, slot, rjob, child, lists, env>>

(* A run that broke: failed, if the table lets it, and no output either.   *)
Fail(r) ==
  /\ status' = Moved(status, rjob[r], "failed")
  /\ Unlinked(r) /\ At(r, "ending")
  /\ UNCHANGED <<listed, out, prev, paused, prio, slot, rjob, child, lists, env>>

(* run(): ffmpeg -n creates the output, or refuses one that exists; its    *)
(* child is attached to whichever encode has the slot, then the handoff    *)
(* gets its chance.                                                        *)
Attach(S, r) ==
  LET fresh == [S EXCEPT !.alive = @ \cup {r},
                         !.act.child = IF @ = r THEN None ELSE @]
  IN  IF S.act.kind = "encoding" THEN SetActivity(fresh, [S.act EXCEPT !.child = r])
      ELSE fresh

Spawn(r, place) ==
  LET j == rjob[r]
      new == out[j] # NoSlot /\ file[j][out[j]] = "none"
  IN
  /\ child' = [child EXCEPT ![r] = IF new THEN "live" ELSE "refused"]
  /\ writing' = [writing EXCEPT ![r] = IF new THEN out[j] ELSE NoSlot]
  /\ file' = [file EXCEPT ![j] = [s \in Slots |-> IF new /\ s = out[j] THEN "partial" ELSE @[s]]]
  /\ Becomes(Handoff(Attach(Slot, r), prio))
  /\ At(r, place)
  /\ UNCHANGED <<cards, rjob, lists, env>>


(* The encoder exits.  A suspended one can only be killed from outside.    *)
Suspended(r) == \E why \in Reasons : <<r, why>> \in holds

Exit(r, result) ==
  /\ child[r] \in {"live", "refused"}
  /\ child[r] = "refused" => result = "fail"
  /\ Suspended(r) => result = "fail" /\ "kill" \in Ops
  /\ result = "audio" => "audio" \in Ops
  /\ result = "nospawn" => "tools" \in Ops /\ writing[r] # NoSlot
  /\ child' = [child EXCEPT ![r] = result]
  /\ file' = [file EXCEPT ![rjob[r]] =
                [s \in Slots |-> IF s # writing[r] THEN @[s]
                                 ELSE IF result = "zero" THEN "good"
                                 ELSE IF result = "nospawn" THEN "none" ELSE @[s]]]
  /\ Becomes([Slot EXCEPT !.holds = {h \in @ : h[1] # r}, !.terminating = @ \ {r}])
  /\ UNCHANGED <<cards, writing, pc, rjob, lists, env>>

(* pauseForRuntimeFailure() up to its await.                               *)
RuntimeFailure(r, phase) ==
  /\ tools' = FALSE
  /\ status' = Moved(status, rjob[r], "interrupted")
  /\ IF phase = "encoding" THEN Unlinked(r) ELSE UNCHANGED disk
  /\ At(r, "abandon")
  /\ UNCHANGED <<listed, out, prev, paused, prio, slot, rjob, child, lists, update>>

(* The awaits before the encode: the source, the images, which a missing   *)
(* tool may end as well as a missing file.                                 *)
Prepared(r, ok) ==
  /\ pc[r] = "prepare"
  /\ IF Cancelled(r) THEN StopSeen(r)
     ELSE IF ok THEN Spawn(r, "encode")
     ELSE Fail(r) \/ ("tools" \in Ops /\ RuntimeFailure(r, "encoding"))

Abandon(r) ==
  /\ pc[r] = "abandon"
  /\ AbandonBatch(status)
  /\ At(r, "ending")
  /\ UNCHANGED <<listed, out, prev, paused, disk, rjob, child, starting, cancelling, env>>

Moves(r, place) ==
  At(r, place) /\ UNCHANGED <<cards, disk, slot, rjob, child, lists, env>>

Retry(r) ==
  /\ Unlinked(r) /\ At(r, "fallback")
  /\ UNCHANGED <<cards, slot, rjob, child, lists, env>>

(* completeJob(); the table decides whether the card may be completed.     *)
Complete(r) ==
  /\ status' = Moved(status, rjob[r], "completed")
  /\ At(r, "ending")
  /\ UNCHANGED <<listed, out, prev, paused, prio, disk, slot, rjob, child, lists, env>>

(* The run resumes after its encoder.                                      *)
EncodedTrusting(r) ==                                        \* mutant
  /\ pc[r] \in {"encode", "encode2"}
  /\ child[r] \in {"zero", "fail", "audio", "nospawn"}
  /\ IF Cancelled(r) THEN StopSeen(r) ELSE Complete(r)
Encoded(r) ==
  /\ pc[r] \in {"encode", "encode2"}
  /\ child[r] \in {"zero", "fail", "audio", "nospawn"}
  /\ IF Cancelled(r) THEN StopSeen(r)
     ELSE CASE child[r] = "nospawn" -> RuntimeFailure(r, "encoding")
            [] child[r] = "audio" /\ pc[r] = "encode" -> Retry(r)
            [] child[r] = "zero" -> Moves(r, "probe")
            [] OTHER -> Fail(r)

(* The second attempt, with re-encoded audio, does not look at the status. *)
Fallback(r) == pc[r] = "fallback" /\ Spawn(r, "encode2")

(* finalizing: probeMedia(), then complete without another look.           *)
Validated(r, result) ==
  LET j == rjob[r] IN
  /\ pc[r] = "probe"
  /\ result = "ok" => out[j] # NoSlot /\ file[j][out[j]] = "good"
  /\ result = "tool" => "tools" \in Ops
  /\ IF result = "ok" THEN Complete(r)
     ELSE IF Cancelled(r) THEN StopSeen(r)
     ELSE IF result = "tool" THEN RuntimeFailure(r, "output-validation")
     ELSE Fail(r)

(* finally: only an encode that still has the slot gives it up.            *)
ReleasedByAny(S, r) == IF Encodes(S.act) THEN SetActivity(S, Idle) ELSE S   \* mutant
Released(S, r) ==
  IF Encodes(S.act) /\ S.act.run = r
  THEN SetActivity(S, IF S.act.kind = "held" THEN Estimating ELSE Idle)
  ELSE S

End(r) ==
  /\ pc[r] = "ending"
  /\ Becomes(Handoff([ClearStranded(Released(Slot, r)) EXCEPT !.pumpDue = TRUE], prio))
  /\ At(r, "free")
  /\ rjob' = [rjob EXCEPT ![r] = None]
  /\ child' = [child EXCEPT ![r] = "none"]
  /\ writing' = [writing EXCEPT ![r] = NoSlot]
  /\ UNCHANGED <<cards, file, lists, env>>

-----------------------------------------------------------------------------
(* Stopping.  cancelJob() awaits only when the card is being repeated: it  *)
(* looks whether the finished file is still there.                         *)
(* Its second half.  was and from were read before the await.              *)
CancelEffect(j, was, from) ==
  LET intact == from # NoSlot /\ file[j][from] = "good"
      st == IF status[j] = "queued" /\ intact THEN Moved(status, j, "processing") ELSE status
  IN
  /\ status' = Moved(st, j, IF intact THEN "completed" ELSE "cancelled")
  /\ out' = IF intact THEN [out EXCEPT ![j] = from] ELSE out
  /\ prev' = [prev EXCEPT ![j] = NoSlot]
  /\ prio' = [prio EXCEPT ![j] = IF intact \/ @ = "asked" THEN "idle" ELSE @]
  /\ Becomes(IF was = "processing" THEN StopActiveEncode(Slot) ELSE Slot)
  /\ UNCHANGED <<listed, paused, disk, runs, batch, inBatch, starting, env>>

Cancel(j) ==
  /\ "cancel" \in Ops
  /\ j \in listed /\ status[j] \in {"queued", "processing"} /\ prev[j] = NoSlot
  /\ CancelEffect(j, status[j], NoSlot)
  /\ UNCHANGED cancelling

CancelBegin(j) ==
  /\ "cancelrepeat" \in Ops
  /\ j \in listed /\ status[j] \in {"queued", "processing"} /\ prev[j] # NoSlot
  /\ cancelling[j][1] = "no"
  /\ cancelling' = [cancelling EXCEPT ![j] = <<status[j], prev[j]>>]
  /\ UNCHANGED <<cards, disk, slot, runs, batch, inBatch, starting, env>>

CancelEnd(j) ==
  /\ cancelling[j][1] # "no"
  /\ CancelEffect(j, cancelling[j][1], cancelling[j][2])
  /\ cancelling' = [cancelling EXCEPT ![j] = <<"no", NoSlot>>]

(* cancelAll(), but for the cards being repeated, which CancelBegin and    *)
(* CancelEnd stop one by one before or after this; and its end, which      *)
(* closes a batch nothing is left of.                                      *)
CancelAll ==
  LET stop == {j \in listed : status[j] \in {"queued", "processing"} /\ prev[j] = NoSlot}
      S == IF \E j \in stop : status[j] = "processing" THEN StopActiveEncode(Slot) ELSE Slot
      T == ClearStranded(S)
      drained == /\ batch = "open" /\ T.act.kind = "idle"
                 /\ \A j \in (listed \cap inBatch) \ stop : status[j] # "queued"
  IN
  /\ "stopall" \in Ops
  /\ status' = [j \in Jobs |-> IF j \in stop THEN "cancelled" ELSE status[j]]
  /\ prio' = [j \in Jobs |-> IF j \in stop /\ prio[j] = "asked" THEN "idle" ELSE prio[j]]
  /\ batch' = IF drained THEN "closed" ELSE batch
  /\ Becomes([T EXCEPT !.watchdog = @ /\ ~drained])
  /\ UNCHANGED <<listed, out, prev, paused, disk, runs, inBatch, starting, cancelling, env>>

-----------------------------------------------------------------------------
(* Pausing an encode.                                                      *)
SetPaused(j, on) ==
  /\ "pause" \in Ops /\ CanSuspend
  /\ j \in listed /\ status[j] = "processing"
  /\ act.kind = "encoding" /\ act.job = j /\ act.child # None
  /\ Becomes(IF ~on THEN ReleasePauseHold(Slot, j)
             ELSE IF pauseHold[j] = None THEN TakePauseHold(Slot, j, act.child) ELSE Slot)
  /\ paused' = [paused EXCEPT ![j] = on]
  /\ UNCHANGED <<status, listed, out, prev, prio, disk, runs, lists, env>>

(* Estimates a person asked for while the queue works.                     *)
Prioritize(j) ==
  LET S == ClearStranded(Slot)
      asked == [prio EXCEPT ![j] = "asked"]
  IN
  /\ "prioritize" \in Ops
  /\ Running(S) /\ j \in listed /\ status[j] = "queued" /\ prio[j] = "idle"
  /\ prio' = asked
  /\ Becomes(Handoff(S, asked))
  /\ UNCHANGED <<status, listed, out, prev, paused, disk, runs, lists, env>>

CancelPrioritized(j) ==
  /\ "unask" \in Ops
  /\ j \in listed /\ prio[j] = "asked"
  /\ prio' = [prio EXCEPT ![j] = "idle"]
  /\ UNCHANGED <<status, listed, out, prev, paused, disk, slot, runs, lists, env>>

(* The estimator, inside the loop; it refuses while an encode is active.   *)
Measure(j) ==
  /\ handoff # "none" /\ act.kind # "encoding"
  /\ j \in listed /\ status[j] = "queued" /\ prio[j] = "asked"
  /\ prio' = [prio EXCEPT ![j] = "measured"]
  /\ UNCHANGED <<status, listed, out, prev, paused, disk, slot, runs, lists, env>>

(* The finally of the loop.                                                *)
HandoffEnd ==
  LET S == ReleaseEstimateHold(Slot)
      T == IF S.act.kind = "estimating" THEN [S EXCEPT !.act = Idle] ELSE S
  IN
  /\ handoff # "none"
  /\ Becomes([T EXCEPT !.handoff = "none",
                       !.pumpDue = @ \/ (handoff = "idle" /\ T.act.kind = "idle")])
  /\ UNCHANGED <<cards, disk, runs, lists, env>>

-----------------------------------------------------------------------------
(* Everything else that happens to the queue.                              *)

(* state(), read by every broadcast.                                       *)
Read ==
  /\ Stranded(Slot)
  /\ Becomes(ClearStranded(Slot))
  /\ UNCHANGED <<cards, disk, runs, lists, env>>

(* The watchdog retires when nothing holds the slot and nothing waits.     *)
OverWhenIdle(S) == S.act.kind = "idle"                       \* mutant
Over(S) == S.act.kind = "idle" /\ (batch # "open" \/ ~QueuedInBatch)

WatchdogTick ==
  LET S == ClearStranded(Slot)
      over == Over(S)
  IN
  /\ watchdog
  /\ Becomes([S EXCEPT !.watchdog = ~over,
                       !.pumpDue = @ \/ (S.act.kind = "idle" /\ ~over)])
  /\ batch' = IF over /\ batch = "open" THEN "closed" ELSE batch
  /\ UNCHANGED <<cards, disk, runs, inBatch, starting, cancelling, env>>

ToolsLost ==
  /\ "tools" \in Ops /\ tools
  /\ tools' = FALSE
  /\ UNCHANGED <<cards, disk, slot, runs, lists, update>>

ToolsBack ==
  /\ ~tools
  /\ tools' = TRUE
  /\ Becomes([Slot EXCEPT !.pumpDue = @ \/ act.kind = "idle"])
  /\ UNCHANGED <<cards, disk, runs, lists, update>>

(* A newer build asks again, and is answered anew.                         *)
RequestUpdateDrain ==
  LET S == ClearStranded(Slot) IN
  /\ "update" \in Ops
  /\ update' = IF Running(S) THEN "draining" ELSE "pending"
  /\ Becomes(S)
  /\ UNCHANGED <<cards, disk, runs, lists, tools>>

(* The machine slept and the encoder is gone without an exit event.        *)
Vanish(r) ==
  /\ "sleep" \in Ops /\ child[r] = "live"
  /\ child' = [child EXCEPT ![r] = "vanished"]
  /\ Becomes([Slot EXCEPT !.holds = {h \in @ : h[1] # r}])
  /\ UNCHANGED <<cards, disk, pc, rjob, lists, env>>

HandleWake ==
  /\ Encodes(act) /\ act.child # None /\ child[act.child] = "vanished"
  /\ act.job \in listed /\ status[act.job] = "processing"
  /\ status' = Moved(status, act.job, "interrupted")
  /\ Becomes([SetActivity(ReleaseEstimateHold(Slot), Idle) EXCEPT !.pumpDue = TRUE])
  /\ UNCHANGED <<listed, out, prev, paused, prio, disk, runs, lists, env>>

-----------------------------------------------------------------------------
CardStep(j) ==
  \/ Add(j)
  \/ \E ok \in BOOLEAN : Probe(j, ok)
  \/ ProbeUnavailable(j)
  \/ Remove(j)

Starts == (\E J \in SUBSET Jobs : StartBegin(J)) \/ StartCommit \/ StartThrow

PumpStep == PumpSkip \/ PumpDrained \/ \E j \in Jobs, r \in Runs : PumpClaim(j, r)

(* What a run does by itself; its encoder exits in Exit.                   *)
RunStep(r) ==
  \/ \E ok \in BOOLEAN : Prepared(r, ok)
  \/ Encoded(r)
  \/ Fallback(r)
  \/ \E result \in {"ok", "bad", "tool"} : Validated(r, result)
  \/ Abandon(r)
  \/ End(r)

Exits(r) == \E result \in {"zero", "fail", "audio", "nospawn"} : Exit(r, result)

Request(j) ==
  \/ Cancel(j)
  \/ CancelBegin(j)
  \/ CancelEnd(j)
  \/ \E on \in BOOLEAN : SetPaused(j, on)
  \/ Prioritize(j)
  \/ CancelPrioritized(j)
  \/ Measure(j)

Outside == ToolsLost \/ ToolsBack \/ RequestUpdateDrain \/ HandleWake
             \/ \E r \in Runs : Vanish(r)

Next ==
  \/ \E j \in Jobs : CardStep(j) \/ Request(j)
  \/ Starts
  \/ PumpStep
  \/ \E r \in Runs : RunStep(r) \/ Exits(r)
  \/ CancelAll
  \/ HandoffEnd
  \/ Read
  \/ WatchdogTick
  \/ Outside

Spec == Init /\ [][Next]_vars

(* What the event loop, the timers and the operating system owe the queue: *)
(* microtasks run, I/O answers, an encoder that is not suspended ends, an  *)
(* estimate ends, the watchdog ticks.  Nothing is owed by a person, and    *)
(* nobody brings a missing tool back.                                      *)
Fairness ==
  /\ WF_vars(PumpStep)
  /\ WF_vars(\E r \in Runs : RunStep(r))
  /\ WF_vars(\E r \in Runs : ~Suspended(r) /\ Exits(r))
  /\ WF_vars(HandoffEnd)
  /\ WF_vars(WatchdogTick)
  /\ WF_vars(StartCommit \/ StartThrow)

FairSpec == Spec /\ Fairness

-----------------------------------------------------------------------------
(* Properties.                                                             *)

(* start() promises that a throw or an outage never leaves a card queued   *)
(* with no pump to take it: a queued card belongs to the open batch.       *)
QueuedInOpenBatch ==
  \A j \in listed : status[j] = "queued" => batch = "open" /\ j \in inBatch

(* The safety net is there whenever it may be needed: the watchdog is      *)
(* armed as long as a card is queued, whatever ended, failed or was        *)
(* stopped meanwhile.                                                      *)
QueueWatched == (\E j \in listed : status[j] = "queued") => watchdog

(* A card shown as compressing has the slot; nothing else is compressing.  *)
ProcessingOwnsSlot ==
  \A j \in listed : status[j] = "processing" => Encodes(act) /\ act.job = j

(* A5 (queue.ts, holdForEstimates): no child is held down with nobody left *)
(* to release it.                                                          *)
HoldsHaveOwner ==
  \A h \in holds :
    \/ h[2] = "estimate" /\ act.kind = "held" /\ act.child = h[1] /\ handoff = "encoding"
    \/ h[2] = "paused" /\ Encodes(act) /\ act.child = h[1]
         /\ pauseHold[act.job] = h[1]

(* The pause a card shows is the pause of its encoder.                     *)
PausedMeansSuspended ==
  \A r \in Runs : /\ child[r] = "live" /\ act.kind = "encoding" /\ act.child = r
                  /\ status[act.job] = "processing"
                  => (paused[act.job] <=> <<r, "paused">> \in holds)

(* An encoder that a person's pause holds down is that of the encode in    *)
(* the slot, and its card says so: the button that ends the pause is there *)
(* (queue.ts, setPaused and setActivity).                                  *)
HeldIsShown ==
  \A r \in Runs : <<r, "paused">> \in holds
                   => act.kind = "encoding" /\ act.child = r /\ paused[act.job]

(* A pause ends with the run it was pressed in: a fresh run is never       *)
(* paused, whatever an earlier one left behind (queue.ts, run).            *)
FreshRunNotPaused ==
  [][\A r \in Runs : pc[r] = "prepare" /\ pc'[r] = "encode" => ~paused'[rjob[r]]]_vars

(* Every encoder can be reached by a stop: it has the slot, or it has been *)
(* told to end.                                                            *)
EncoderReachable ==
  \A r \in Runs : child[r] = "live" => (Encodes(act) /\ act.child = r) \/ r \in terminating

(* A stop, a failure or an outage leaves no half-written file beside the   *)
(* source once its run is over.                                            *)
NoPartialLeft ==
  \A j \in Jobs : ~Busy(j) => \A s \in Slots : file[j][s] # "partial"

(* A card shown as completed has its result on disk.                       *)
CompletedHasResult ==
  \A j \in listed : status[j] = "completed" => out[j] # NoSlot /\ file[j][out[j]] = "good"

(* While a repeat is under way the finished file stays where it is, and    *)
(* the repeat does not aim at it, although start() computes the output     *)
(* name a second time without reserving it.                                *)
PreviousKept ==
  \A j \in listed : prev[j] # NoSlot /\ status[j] \in {"ready", "queued", "processing"}
                      => file[j][prev[j]] = "good" /\ out[j] # prev[j]

(* An encode that is still running loses the slot only to its own stop.    *)
SlotKeptWhileEncoding ==
  [][\A r \in Runs : Encodes(act) /\ act.child = r /\ child[r] = "live" /\ act' = Idle
       => r \in terminating']_vars

(* A run that gave up the slot never settles the card of a later one: a    *)
(* stop frees the slot before the stopped run is over, and the comment of  *)
(* stopActiveEncode() (queue.ts) calls that safe.  It is not when the card *)
(* is started again meanwhile: its old run finds it processing.            *)
SettledByItsRun ==
  [][\A j \in listed : status[j] = "processing" /\ status'[j] \in {"completed", "failed"}
       => Encodes(act) /\ act.job = j /\ pc'[act.run] = "ending" /\ pc[act.run] # "ending"]_vars

(* While an update drains the queue, it finishes what was accepted and     *)
(* accepts nothing more, not even what start() had in its hands.           *)
DrainAdmitsNothing ==
  [][update = "draining" => \A j \in Jobs : status'[j] = "queued" => status[j] = "queued"]_vars

(* The list a person sees obeys the table.                                 *)
Cards == INSTANCE JobCards
           WITH card <- [j \in Jobs |-> IF j \in listed THEN status[j] ELSE "absent"]
CardsRefinement == Cards!CardsSpec

PausedByPerson == \E r \in Runs : <<r, "paused">> \in holds

(* A card that is queued is taken, or handed back: neither a stop, nor an  *)
(* estimate that had the encoder suspended, nor an outage that is over     *)
(* leaves the queue standing still.                                        *)
QueuedIsTaken ==
  \A j \in Jobs : (j \in listed /\ status[j] = "queued")
                    ~> (status[j] # "queued" \/ ~tools \/ PausedByPerson)

(* A stopped encoder is gone eventually, however it was suspended.         *)
StoppedEnds == \A r \in Runs : r \in terminating ~> r \notin terminating

(* A card that compresses stops compressing some day.                      *)
ProcessingEnds ==
  \A j \in Jobs : (j \in listed /\ status[j] = "processing")
                    ~> (status[j] # "processing" \/ PausedByPerson)
=============================================================================
