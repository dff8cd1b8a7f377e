----------------------------- MODULE MediaActions -----------------------------
(***************************************************************************)
(* The queue of image conversions started from the file manager:           *)
(* apps/agent/src/media-actions/queue.ts.                                  *)
(*                                                                         *)
(* An addition awaits a free output name for each of its files; one pump   *)
(* converts one image after another; a stop waits for the conversion to    *)
(* settle or for a deadline; a quit drains the queue until its own         *)
(* deadline and then abandons what is left.                                *)
(***************************************************************************)
EXTENDS Filter, FiniteSets, SequencesExt

CONSTANTS Calls,        \* additions: one selection of files each
          Images,       \* the images added
          Selection,    \* the images of each addition, in order
          Already,      \* images that have the target format already
          NoImage,
          MaxAttempts,  \* attempts at a free output name (five in the code)
          HistoryLimit  \* settled jobs kept (a hundred in the code)

ASSUME MediaAssumption ==
  /\ Selection \in [Calls -> Seq(Images)] /\ Already \subseteq Images
  /\ NoImage \notin Images
  /\ MaxAttempts \in Nat \ {0} /\ HistoryLimit \in Nat

VARIABLES
  jobs,         \* this.jobs
  jobStatus,
  output,       \* the number in the output name; all would use the same name
  images,       \* who wrote each output name on disk
  adding,       \* how far each addition is: 0 not begun, then the awaited file
  choosing,     \* names reserved when the search for a free one began
  conversion,   \* the pump, and the conversion it awaits
  cancelling,
  waits,        \* who waits for the stop of each image
  stopAll,      \* what cancelAll() has still to stop
  quit,         \* where shutdown() is
  abandoned

mediaVars == <<jobs, jobStatus, output, images, adding, choosing, conversion,
               cancelling, waits, stopAll, quit, abandoned>>

Callers == {"person", "all"}
Names == 1..(Cardinality(Images) + 1)

Settled(s) == s \in {"completed", "failed", "skipped", "cancelled"}
NoConversion ==
  [pc |-> "idle", job |-> NoImage, attempt |-> 0, aborted |-> FALSE]

MediaTypeOK ==
  /\ jobs \in Seq(Images) /\ IsInjective(jobs)
  /\ jobStatus \in [Images -> {"none", "queued", "processing", "completed",
                               "failed", "skipped", "cancelled"}]
  /\ output \in [Images -> {0} \cup Names]
  /\ images \in [Names -> Images \cup {NoImage}]
  /\ adding \in [Calls -> Nat]
  /\ choosing \in [Images -> SUBSET Names]
  /\ conversion \in [pc : {"idle", "converting", "renaming"},
                     job : Images \cup {NoImage},
                     attempt : 0..MaxAttempts, aborted : BOOLEAN]
  /\ cancelling \subseteq Images /\ waits \in [Images -> SUBSET Callers]
  /\ stopAll \in Seq(Images)
  /\ quit \in {"no", "adding", "draining", "abandoning", "done"}
  /\ abandoned \subseteq Images

(* What the handlers share and hand on to each other synchronously.        *)
Media == [jobs |-> jobs, status |-> jobStatus, conversion |-> conversion,
          cancelling |-> cancelling, waits |-> waits]
MediaBecomes(M) ==
  \E R \in {M} :
    /\ jobs' = R.jobs /\ jobStatus' = R.status /\ conversion' = R.conversion
    /\ cancelling' = R.cancelling /\ waits' = R.waits

Stopping   == quit # "no"
Abandoning == quit = "abandoning"
Unsettled     == {j \in ToSet(jobs) : jobStatus[j] \in {"queued", "processing"}}
QueuedAt(M)   == {i \in DOMAIN M.jobs : M.status[M.jobs[i]] = "queued"}
NextQueued(M) == M.jobs[Min(QueuedAt(M))]

(* The top of the loop of pump(): the first queued job is taken, unless    *)
(* the quit has run out of time.                                           *)
TakeThrough(M) ==                                            \* mutant
  IF QueuedAt(M) = {} THEN [M EXCEPT !.conversion = NoConversion]
  ELSE [M EXCEPT !.status[NextQueued(M)] = "processing",
                 !.conversion = [pc |-> "converting", job |-> NextQueued(M),
                                 attempt |-> 1, aborted |-> FALSE]]
Take(M) ==
  IF Abandoning \/ QueuedAt(M) = {} THEN [M EXCEPT !.conversion = NoConversion]
  ELSE [M EXCEPT !.status[NextQueued(M)] = "processing",
                 !.conversion = [pc |-> "converting", job |-> NextQueued(M),
                                 attempt |-> 1, aborted |-> FALSE]]

(* schedule()                                                              *)
ScheduleImages(M) ==
  IF M.conversion.pc # "idle" \/ Stopping \/ QueuedAt(M) = {} THEN M
  ELSE Take(M)

(* trimHistory()                                                           *)
Trimmed(M) ==
  LET done == {j \in Images : Settled(M.status[j])}
      over == Only(M.jobs, done)
      kept == SubSeq(over, Len(over) + 1 -
                (IF Len(over) < HistoryLimit THEN Len(over) ELSE HistoryLimit),
                Len(over))
  IN  [M EXCEPT !.jobs = kept \o Only(@, Images \ done)]

Reserved(j) == {output[k] : k \in ToSet(jobs) \ {j}} \ {0}

MediaInit ==
  /\ jobs = <<>> /\ jobStatus = [j \in Images |-> "none"]
  /\ output = [j \in Images |-> 0] /\ images = [n \in Names |-> NoImage]
  /\ adding = [c \in Calls |-> 0] /\ choosing = [j \in Images |-> {}]
  /\ conversion = NoConversion /\ cancelling = {}
  /\ waits = [j \in Images |-> {}] /\ stopAll = <<>>
  /\ quit = "no" /\ abandoned = {}

-----------------------------------------------------------------------------
(* addImageConversions()                                                   *)
InFlight(c) == adding[c] \in 1..Len(Selection[c])

(* The loop from the i-th file on: files that have the format already are  *)
(* skipped at once, the next other one awaits a name.                      *)
Awaited(c, i) ==
  LET open == {k \in i..Len(Selection[c]) : Selection[c][k] \notin Already}
  IN  IF open = {} THEN Len(Selection[c]) + 1
      ELSE CHOOSE k \in open : \A m \in open : k <= m

Goes(c, i, M) ==
  LET k       == Awaited(c, i)
      skipped == SubSeq(Selection[c], i, k - 1)
      S == [M EXCEPT !.jobs = @ \o skipped,
                     !.status = [j \in Images |->
                        IF j \in ToSet(skipped) THEN "skipped" ELSE @[j]]]
  IN  /\ adding' = [adding EXCEPT ![c] = k]
      /\ IF k > Len(Selection[c])
         THEN MediaBecomes(ScheduleImages(Trimmed(S))) /\ UNCHANGED choosing
         ELSE /\ MediaBecomes(S)
              /\ choosing' = [choosing EXCEPT ![Selection[c][k]] =
                   {output'[j] : j \in ToSet(S.jobs)} \ {0}]

AddBegins(c) ==
  /\ adding[c] = 0 /\ ~Stopping
  /\ output' = output /\ Goes(c, 1, Media)
  /\ UNCHANGED <<images, stopAll, quit, abandoned>>

(* nextConvertedImagePath(): the first name neither reserved nor on disk.  *)
(* The names of an instance are its bound: a search that would count       *)
(* beyond them does not end.                                               *)
FreeNames(j) == {n \in Names : n \notin choosing[j] /\ images[n] = NoImage}
Free(j) == Min(FreeNames(j))

NameFound(c) ==
  LET j == Selection[c][adding[c]] IN
  /\ InFlight(c) /\ FreeNames(j) # {}
  /\ output' = [output EXCEPT ![j] = Free(j)]
  /\ Goes(c, adding[c] + 1,
          [Media EXCEPT !.jobs = Append(@, j), !.status[j] = "queued"])
  /\ UNCHANGED <<images, stopAll, quit, abandoned>>

-----------------------------------------------------------------------------
(* pump(): the conversion ends, the waiting stops are answered, and the    *)
(* next job is taken in the same turn of the event loop.                   *)
ConversionEnds(s) ==
  LET j == conversion.job IN
  /\ MediaBecomes(Take([Media EXCEPT !.status[j] = s, !.waits[j] = {},
                                     !.cancelling = @ \ {j}]))
  /\ UNCHANGED <<output, adding, choosing, stopAll, quit, abandoned>>

ConvertsAnyway ==                                            \* mutant
  /\ conversion.pc = "converting"
  /\ images' = [images EXCEPT ![output[conversion.job]] = conversion.job]
  /\ ConversionEnds("completed")
Converts ==
  /\ conversion.pc = "converting"
  /\ images[output[conversion.job]] = NoImage
  /\ images' = [images EXCEPT ![output[conversion.job]] = conversion.job]
  /\ ConversionEnds("completed")

(* A throw: what was asked to stop, and what the quit stopped, did not     *)
(* break.                                                                  *)
ThrowsPlainly ==                                             \* mutant
  /\ conversion.pc = "converting"
  /\ ConversionEnds(IF conversion.job \in cancelling THEN "cancelled"
                    ELSE "failed")
  /\ UNCHANGED images
Throws ==
  /\ conversion.pc = "converting"
  /\ ConversionEnds(IF conversion.job \in cancelling \/ Abandoning
                    THEN "cancelled" ELSE "failed")
  /\ UNCHANGED images

(* The name was taken by another addition: another is looked for.          *)
OutputExists ==
  /\ conversion.pc = "converting" /\ images[output[conversion.job]] # NoImage
  /\ conversion' = [conversion EXCEPT !.pc = "renaming"]
  /\ choosing' = [choosing EXCEPT ![conversion.job] = Reserved(conversion.job)]
  /\ UNCHANGED <<jobs, jobStatus, output, images, adding, cancelling, waits,
                 stopAll, quit, abandoned>>

Renamed ==
  LET j == conversion.job IN
  /\ conversion.pc = "renaming" /\ FreeNames(j) # {}
  /\ output' = [output EXCEPT ![j] = Free(j)]
  /\ IF conversion.attempt < MaxAttempts
     THEN /\ conversion' = [conversion EXCEPT !.pc = "converting",
                                              !.attempt = @ + 1]
          /\ UNCHANGED <<jobs, jobStatus, cancelling, waits>>
     ELSE MediaBecomes(Take([Media EXCEPT
            !.status[j] = IF j \in cancelling \/ Abandoning THEN "cancelled"
                          ELSE "failed",
            !.waits[j] = {}, !.cancelling = @ \ {j}]))
  /\ UNCHANGED <<images, adding, choosing, stopAll, quit, abandoned>>

-----------------------------------------------------------------------------
(* cancel() of some caller: a queued job is cancelled, a running one is    *)
(* aborted and awaited.                                                    *)
Cancels(who, j) ==
  IF jobStatus[j] = "queued"
  THEN /\ jobStatus' = [jobStatus EXCEPT ![j] = "cancelled"]
       /\ UNCHANGED <<conversion, cancelling, waits>>
  ELSE /\ jobStatus[j] = "processing"
       /\ waits' = [waits EXCEPT ![j] = @ \cup {who}]
       /\ cancelling' = cancelling \cup {j}
       /\ conversion' = [conversion EXCEPT !.aborted = @ \/ conversion.job = j]
       /\ UNCHANGED jobStatus

CancelImage(who, j) ==
  /\ j \in ToSet(jobs) /\ who \notin waits[j] /\ Cancels(who, j)
  /\ UNCHANGED <<jobs, output, images, adding, choosing, stopAll, quit,
                 abandoned>>

(* The deadline of a stop: the caller is answered, and the queue forgets   *)
(* that the job was asked to stop.                                         *)
CancelDeadline(who, j) ==
  /\ who \in waits[j]
  /\ waits' = [waits EXCEPT ![j] = @ \ {who}] /\ cancelling' = cancelling \ {j}
  /\ UNCHANGED <<jobs, jobStatus, output, images, adding, choosing, conversion,
                 stopAll, quit, abandoned>>

(* cancelAll(): the jobs in the order of the list; a running one is        *)
(* awaited before the next is looked at.                                   *)
StopsThese(ids) ==
  LET busy == {i \in DOMAIN ids : jobStatus[ids[i]] = "processing"}
      n    == IF busy = {} THEN Len(ids)
              ELSE (CHOOSE i \in busy : \A k \in busy : i <= k) - 1
      now  == {ids[i] : i \in 1..n} \cap Unsettled
  IN  /\ jobStatus' = [j \in Images |-> IF j \in now THEN "cancelled"
                                        ELSE jobStatus[j]]
      /\ stopAll' = SubSeq(ids, n + 1, Len(ids))
      /\ IF busy = {} THEN UNCHANGED <<conversion, cancelling, waits>>
         ELSE /\ waits' = [waits EXCEPT ![ids[n + 1]] = @ \cup {"all"}]
              /\ cancelling' = cancelling \cup {ids[n + 1]}
              /\ conversion' = [conversion EXCEPT !.aborted = TRUE]
      /\ UNCHANGED <<jobs, output, images, adding, choosing, quit, abandoned>>

StopsAllImages ==
  LET ids == Only(jobs, Unsettled)
  IN  stopAll = <<>> /\ ids # <<>> /\ StopsThese(ids)

StopAllAnswered == stopAll # <<>> /\ "all" \notin waits[Head(stopAll)]
StopsAllGoesOn == StopAllAnswered /\ StopsThese(Tail(stopAll))

-----------------------------------------------------------------------------
(* shutdown(): no more additions, those in flight end, the pump drains.    *)
QuitBegins ==
  /\ quit = "no" /\ quit' = "adding"
  /\ UNCHANGED <<jobs, jobStatus, output, images, adding, choosing, conversion,
                 cancelling, waits, stopAll, abandoned>>

Added == quit = "adding" /\ ~\E c \in Calls : InFlight(c)

DrainBegins ==
  /\ Added
  /\ IF conversion.pc = "idle" /\ QueuedAt(Media) # {}
     THEN MediaBecomes(Take(Media)) ELSE MediaBecomes(Media)
  /\ quit' = IF conversion'.pc = "idle" THEN "done" ELSE "draining"
  /\ UNCHANGED <<output, images, adding, choosing, stopAll, abandoned>>

Drained == quit \in {"draining", "abandoning"} /\ conversion.pc = "idle"

(* discardAbandoned() runs when the pump has ended.                        *)
QuitEnds ==
  /\ Drained /\ quit' = "done"
  /\ jobStatus' = [j \in Images |->
       IF j \in abandoned /\ jobStatus[j] \in {"queued", "processing"}
       THEN "cancelled" ELSE jobStatus[j]]
  /\ UNCHANGED <<jobs, output, images, adding, choosing, conversion,
                 cancelling, waits, stopAll, abandoned>>

QuitDeadlineBusy ==                                          \* mutant
  /\ quit = "draining" /\ quit' = "abandoning"
  /\ abandoned' = {j \in Unsettled : jobStatus[j] = "processing"}
  /\ conversion' = [conversion EXCEPT !.aborted = TRUE]
  /\ UNCHANGED <<jobs, jobStatus, output, images, adding, choosing, cancelling,
                 waits, stopAll>>
QuitDeadline ==
  /\ quit = "draining" /\ quit' = "abandoning"
  /\ abandoned' = Unsettled
  /\ conversion' = [conversion EXCEPT !.aborted = TRUE]
  /\ UNCHANGED <<jobs, jobStatus, output, images, adding, choosing, cancelling,
                 waits, stopAll>>

-----------------------------------------------------------------------------
(* What follows from a promise that is already kept comes before the next  *)
(* event.                                                                  *)
Due == StopAllAnswered \/ Added \/ Drained

ConversionGoesOn == Converts \/ Throws \/ OutputExists \/ Renamed
Continues        == StopsAllGoesOn \/ DrainBegins \/ QuitEnds

MediaNext ==
  \/ Continues
  \/ /\ ~Due /\ quit # "done"
     /\ \/ \E c \in Calls : AddBegins(c) \/ NameFound(c)
        \/ \E j \in Images : CancelImage("person", j)
        \/ \E j \in Images, who \in Callers : CancelDeadline(who, j)
        \/ StopsAllImages \/ QuitBegins \/ QuitDeadline \/ ConversionGoesOn

MediaSpec == MediaInit /\ [][MediaNext]_mediaVars

(* Names are found on disk and timers fire.  An encoder need not end by    *)
(* itself (it may be wedged on its image); one that was asked to stop ends,*)
(* for the spawn seam kills it.  Strong, because the steps that are due    *)
(* come between.                                                           *)
MediaFairness ==
  /\ WF_mediaVars(Continues)
  /\ SF_mediaVars(~Due /\ conversion.aborted /\ ConversionGoesOn)
  /\ SF_mediaVars(~Due /\ \E c \in Calls : NameFound(c))
  /\ SF_mediaVars(~Due /\ QuitDeadline)

MediaFairSpec == MediaSpec /\ MediaFairness

-----------------------------------------------------------------------------
(* A converted image is under its own name: two additions that found the   *)
(* same free name, a conversion that was aborted and one that looked for a *)
(* name again never end in one image under the other's name.               *)
ConvertedIsThere ==
  \A j \in Images : jobStatus[j] = "completed" => images[output[j]] = j

(* Being stopped is not a failure, for a person who waits for the stop and *)
(* for the quit.                                                           *)
StopIsNotFailure ==
  [][\A j \in Images : jobStatus'[j] = "failed" /\ jobStatus[j] # "failed" =>
       j \notin cancelling \cup abandoned]_mediaVars

(* A queued image has somebody who will take it: the pump, an addition     *)
(* that schedules when it ends, or the quit, which is on its way to one of *)
(* them or is about to abandon it.                                         *)
QueuedHasPump ==
  (\E j \in ToSet(jobs) : jobStatus[j] = "queued") =>
    \/ conversion.pc # "idle" \/ \E c \in Calls : InFlight(c)
    \/ quit \in {"adding", "abandoning"}

(* When the quit is over nothing is left that waits or is converted, not   *)
(* what an addition brought after the quit began and not what the deadline *)
(* found in line behind a wedged encoder.                                  *)
QuitLeavesNothing == quit = "done" => Unsettled = {} /\ conversion.pc = "idle"

(* A quit ends, though a conversion may only end because it is aborted.    *)
QuitComesToAnEnd == (quit # "no") ~> (quit = "done")
=============================================================================
