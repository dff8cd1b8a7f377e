-------------------------- MODULE MediaActionsProofs --------------------------
(***************************************************************************)
(* Theorems about MediaActions, for any images, additions and bounds.      *)
(*                                                                         *)
(* A job is labelled failed in one place, at the end of its conversion,    *)
(* and pump() looks there at who asked for a stop and whether the quit has *)
(* run out of time.  That this is enough for what the quit abandoned needs *)
(* that nothing is abandoned before the deadline and nothing ends after    *)
(* the quit has (StopsDoNotFail).                                          *)
(*                                                                         *)
(* A converted image is under its own name (ConvertedStays): nobody else's *)
(* conversion writes there, because a name that is taken is not written,   *)
(* and its own name is not changed any more, because the jobs that are     *)
(* given a name are not completed ones (PlaceInv).                         *)
(*                                                                         *)
(* Whoever waits is taken (QueuedIsPumped), and a quit leaves nobody       *)
(* behind (QuitSettles): the pump knows the image it converts, and nothing *)
(* is queued after the additions in flight have ended (QuitInv).           *)
(***************************************************************************)
EXTENDS MediaActions, FilterProofs

Status == {"none", "queued", "processing", "completed", "failed", "skipped",
           "cancelled"}

(* Only the deadline of the quit abandons jobs.                            *)
AbandonedLate == abandoned # {} => quit \in {"abandoning", "done"}

MediaInv == jobStatus \in [Images -> Status] /\ AbandonedLate

(* What the methods hand on to each other has these parts.                 *)
IsMedia(M) ==
  DOMAIN M = {"jobs", "status", "conversion", "cancelling", "waits"}

(* A step from statuses st to statuses r labels as failed none of S.       *)
Spares(st, r, S) ==
  /\ r \in [Images -> Status]
  /\ \A j \in S \cap Images : r[j] = "failed" => st[j] = "failed"

-----------------------------------------------------------------------------
(* A part is exchanged, and the others stay.                               *)
LEMMA JobsExchanged ==
  ASSUME NEW M, IsMedia(M), NEW a
  PROVE  /\ IsMedia([M EXCEPT !.jobs = a])
         /\ [M EXCEPT !.jobs = a].status = M.status
BY DEF IsMedia

LEMMA StatusExchanged ==
  ASSUME NEW M, IsMedia(M), NEW a, NEW r
  PROVE  /\ IsMedia([M EXCEPT !.jobs = a, !.status = r])
         /\ [M EXCEPT !.jobs = a, !.status = r].status = r
BY DEF IsMedia

LEMMA JobAppended ==
  ASSUME NEW M, IsMedia(M), NEW a, NEW j, NEW s
  PROVE  /\ IsMedia([M EXCEPT !.jobs = a, !.status[j] = s])
         /\ [M EXCEPT !.jobs = a, !.status[j] = s].status =
              [M.status EXCEPT ![j] = s]
BY DEF IsMedia

LEMMA JobEnded ==
  ASSUME NEW M, IsMedia(M), NEW j, NEW s, NEW w, NEW k
  PROVE  LET R == [M EXCEPT !.status[j] = s, !.waits[j] = w, !.cancelling = k]
         IN  IsMedia(R) /\ R.status = [M.status EXCEPT ![j] = s]
BY DEF IsMedia

LEMMA MediaIsMedia == IsMedia(Media) /\ Media.status = jobStatus
BY DEF IsMedia, Media

(* The methods of the queue label nothing as failed.                       *)
LEMMA TakeSpares ==
  ASSUME NEW M, IsMedia(M), NEW S, NEW st, Spares(st, M.status, S)
  PROVE  IsMedia(Take(M)) /\ Spares(st, Take(M).status, S)
<1> DEFINE h == NextQueued(M)
<1>1. CASE Abandoning \/ QueuedAt(M) = {}
  BY <1>1 DEF Take, IsMedia
<1>2. CASE ~(Abandoning \/ QueuedAt(M) = {})
  <2>1. /\ IsMedia(Take(M))
        /\ Take(M).status = [M.status EXCEPT ![h] = "processing"]
    BY <1>2 DEF Take, IsMedia
  <2>2. QED
    BY <2>1 DEF Spares, Status
<1>3. QED
  BY <1>1, <1>2

LEMMA ScheduleSpares ==
  ASSUME NEW M, IsMedia(M), NEW S, NEW st, Spares(st, M.status, S)
  PROVE  IsMedia(ScheduleImages(M)) /\ Spares(st, ScheduleImages(M).status, S)
<1>1. CASE ScheduleImages(M) = M
  BY <1>1
<1>2. CASE ScheduleImages(M) = Take(M)
  BY <1>2, TakeSpares
<1>3. QED
  BY <1>1, <1>2 DEF ScheduleImages

LEMMA TrimmedStatus ==
  ASSUME NEW M, IsMedia(M)
  PROVE  IsMedia(Trimmed(M)) /\ Trimmed(M).status = M.status
BY DEF Trimmed, IsMedia

LEMMA BecomesStatus ==
  ASSUME NEW M, IsMedia(M), MediaBecomes(M)
  PROVE  jobStatus' = M.status
BY DEF MediaBecomes, IsMedia

(* Those whose stop is awaited, and those the quit stopped.                *)
Stopped == cancelling \cup abandoned

(* An addition.                                                            *)
LEMMA GoesSpares ==
  ASSUME NEW c, NEW i, NEW M, IsMedia(M),
         Spares(jobStatus, M.status, Stopped), Goes(c, i, M)
  PROVE  Spares(jobStatus, jobStatus', Stopped)
<1> DEFINE k == Awaited(c, i)
           skipped == SubSeq(Selection[c], i, k - 1)
           S == [M EXCEPT !.jobs = @ \o skipped,
                          !.status = [j \in Images |->
                             IF j \in ToSet(skipped) THEN "skipped" ELSE @[j]]]
<1>1. /\ IsMedia(S)
      /\ S.status = [j \in Images |->
           IF j \in ToSet(skipped) THEN "skipped" ELSE M.status[j]]
  BY DEF IsMedia
<1>2. Spares(jobStatus, S.status, Stopped)
  BY <1>1 DEF Spares, Status
<1>3. MediaBecomes(S) \/ MediaBecomes(ScheduleImages(Trimmed(S)))
  BY DEF Goes
<1> HIDE DEF S
<1>4. CASE MediaBecomes(S)
  BY <1>1, <1>2, <1>4, BecomesStatus
<1>5. CASE MediaBecomes(ScheduleImages(Trimmed(S)))
  <2>1. /\ IsMedia(ScheduleImages(Trimmed(S)))
        /\ Spares(jobStatus, ScheduleImages(Trimmed(S)).status, Stopped)
    BY <1>1, <1>2, TrimmedStatus, ScheduleSpares
  <2>2. QED
    BY <1>5, <2>1, BecomesStatus
<1>6. QED
  BY <1>3, <1>4, <1>5

LEMMA AddsSpare ==
  ASSUME MediaInv, NEW c, AddBegins(c) \/ NameFound(c)
  PROVE  Spares(jobStatus, jobStatus', Stopped)
<1>1. CASE AddBegins(c)
  <2>1. IsMedia(Media) /\ Spares(jobStatus, Media.status, Stopped)
    BY DEF IsMedia, Media, MediaInv, Spares
  <2>2. QED
    BY <1>1, <2>1, GoesSpares DEF AddBegins
<1>2. CASE NameFound(c)
  <2> DEFINE j == Selection[c][adding[c]]
             M == [Media EXCEPT !.jobs = Append(@, j), !.status[j] = "queued"]
  <2>1. IsMedia(M) /\ M.status = [jobStatus EXCEPT ![j] = "queued"]
    BY DEF IsMedia, Media
  <2> HIDE DEF j
  <2>2. Spares(jobStatus, M.status, Stopped)
    <3> HIDE DEF M
    <3>1. QED
      BY <2>1 DEF MediaInv, Spares, Status
  <2>3. Goes(c, adding[c] + 1, M)
    BY <1>2 DEF NameFound, j
  <2> HIDE DEF M
  <2>4. QED
    BY <2>1, <2>2, <2>3, GoesSpares
<1>3. QED
  BY <1>1, <1>2

(* The end of a conversion: the only place that says failed.               *)
LEMMA EndSpares ==
  ASSUME MediaInv, NEW s \in Status, NEW R, IsMedia(R),
         LET j == conversion.job
         IN  /\ R.status = [jobStatus EXCEPT ![j] = s]
             /\ s = "failed" => j \notin Stopped,
         MediaBecomes(Take(R))
  PROVE  Spares(jobStatus, jobStatus', Stopped)
<1>1. Spares(jobStatus, R.status, Stopped)
  BY DEF MediaInv, Spares
<1>2. QED
  BY <1>1, TakeSpares, BecomesStatus

LEMMA ConversionSpares ==
  ASSUME MediaInv, quit # "done", ConversionGoesOn
  PROVE  Spares(jobStatus, jobStatus', Stopped)
<1> DEFINE j == conversion.job
           said == IF j \in cancelling \/ Abandoning THEN "cancelled"
                   ELSE "failed"
<1>1. said \in Status /\ (said = "failed" => j \notin Stopped)
  BY DEF Status, Stopped, MediaInv, AbandonedLate, Abandoning
<1>2. ASSUME NEW s \in Status, s = "failed" => j \notin Stopped,
             ConversionEnds(s)
      PROVE  Spares(jobStatus, jobStatus', Stopped)
  <2> DEFINE R == [Media EXCEPT !.status[j] = s, !.waits[j] = {},
                                !.cancelling = @ \ {j}]
  <2>1. IsMedia(R) /\ R.status = [jobStatus EXCEPT ![j] = s]
    BY DEF IsMedia, Media
  <2>2. MediaBecomes(Take(R))
    BY <1>2 DEF ConversionEnds
  <2> HIDE DEF R
  <2>3. QED
    BY <1>2, <2>1, <2>2, EndSpares
<1>3. CASE Converts
  BY <1>2, <1>3 DEF Converts, Status
<1>4. CASE Throws
  <2>1. ConversionEnds(said)
    BY <1>4 DEF Throws
  <2> HIDE DEF said
  <2>2. QED
    BY <1>1, <1>2, <2>1
<1>5. CASE OutputExists
  BY <1>5 DEF OutputExists, MediaInv, Spares
<1>6. CASE Renamed
  <2>1. CASE jobStatus' = jobStatus
    BY <2>1 DEF MediaInv, Spares
  <2>2. CASE jobStatus' # jobStatus
    <3> DEFINE R == [Media EXCEPT !.status[j] = said, !.waits[j] = {},
                                  !.cancelling = @ \ {j}]
    <3>1. IsMedia(R) /\ R.status = [jobStatus EXCEPT ![j] = said]
      BY DEF IsMedia, Media
    <3>2. MediaBecomes(Take(R))
      BY <1>6, <2>2 DEF Renamed
    <3> HIDE DEF R, said
    <3>3. QED
      BY <1>1, <3>1, <3>2, EndSpares
  <2>3. QED
    BY <2>1, <2>2
<1>7. QED
  BY <1>3, <1>4, <1>5, <1>6 DEF ConversionGoesOn

(* Stops, the deadline, and the quit.                                      *)
LEMMA StopsSpare ==
  ASSUME MediaInv,
         \/ \E j \in Images, who \in Callers :
              CancelImage(who, j) \/ CancelDeadline(who, j)
         \/ StopsAllImages \/ StopsAllGoesOn \/ QuitBegins \/ QuitDeadline
         \/ QuitEnds
  PROVE  Spares(jobStatus, jobStatus', Stopped)
<1>1. ASSUME NEW ids, StopsThese(ids)
      PROVE  Spares(jobStatus, jobStatus', Stopped)
  BY <1>1 DEF StopsThese, MediaInv, Spares, Status
<1>2. CASE StopsAllImages \/ StopsAllGoesOn
  BY <1>1, <1>2 DEF StopsAllImages, StopsAllGoesOn
<1>3. ASSUME NEW j \in Images, NEW who \in Callers,
             CancelImage(who, j) \/ CancelDeadline(who, j)
      PROVE  Spares(jobStatus, jobStatus', Stopped)
  BY <1>3
  DEF CancelImage, Cancels, CancelDeadline, MediaInv, Spares, Status
<1>4. CASE QuitBegins \/ QuitDeadline \/ QuitEnds
  BY <1>4 DEF QuitBegins, QuitDeadline, QuitEnds, MediaInv, Spares, Status
<1>5. QED
  BY <1>2, <1>3, <1>4

LEMMA DrainSpares ==
  ASSUME MediaInv, DrainBegins
  PROVE  Spares(jobStatus, jobStatus', Stopped)
<1>1. IsMedia(Media) /\ Spares(jobStatus, Media.status, Stopped)
  BY DEF IsMedia, Media, MediaInv, Spares
<1>2. CASE MediaBecomes(Take(Media))
  BY <1>1, <1>2, TakeSpares, BecomesStatus
<1>3. CASE MediaBecomes(Media)
  BY <1>1, <1>3, BecomesStatus
<1>4. QED
  BY <1>2, <1>3 DEF DrainBegins

LEMMA StepSpares ==
  ASSUME MediaInv, MediaNext
  PROVE  Spares(jobStatus, jobStatus', Stopped)
<1>1. CASE Continues
  BY <1>1, StopsSpare, DrainSpares DEF Continues
<1>2. CASE quit # "done" /\ ConversionGoesOn
  BY <1>2, ConversionSpares
<1>3. CASE \E c \in Calls : AddBegins(c) \/ NameFound(c)
  BY <1>3, AddsSpare
<1>4. CASE \/ \E j \in Images : CancelImage("person", j)
           \/ \E j \in Images, who \in Callers : CancelDeadline(who, j)
           \/ StopsAllImages \/ QuitBegins \/ QuitDeadline
  <2>1. "person" \in Callers
    BY DEF Callers
  <2>2. QED
    BY <1>4, <2>1, StopsSpare
<1>5. QED
  BY <1>1, <1>2, <1>3, <1>4 DEF MediaNext

-----------------------------------------------------------------------------
LEMMA MediaBegins == MediaInit => MediaInv
BY DEF MediaInit, MediaInv, AbandonedLate, Status

LEMMA NextKeepsMedia ==
  ASSUME MediaInv, [MediaNext]_mediaVars
  PROVE  MediaInv'
<1>1. CASE MediaNext
  <2>1. jobStatus' \in [Images -> Status]
    BY <1>1, StepSpares DEF Spares
  <2>2. AbandonedLate'
    BY <1>1
    DEF MediaInv, AbandonedLate, MediaNext, Continues, StopsAllGoesOn,
        StopsThese, StopsAllImages, DrainBegins, Added, QuitEnds, AddBegins,
        NameFound, CancelImage, CancelDeadline, QuitBegins, QuitDeadline,
        ConversionGoesOn, Converts, Throws, OutputExists, Renamed,
        ConversionEnds
  <2>3. QED
    BY <2>1, <2>2 DEF MediaInv
<1>2. CASE UNCHANGED mediaVars
  BY <1>2 DEF mediaVars, MediaInv, AbandonedLate
<1>3. QED
  BY <1>1, <1>2

(* Whatever is awaited by someone who stopped it, and whatever the quit    *)
(* abandoned, is never labelled as failed (queue.ts, the end of pump()).   *)
THEOREM StopsDoNotFail == MediaSpec => StopIsNotFailure
<1>1. ASSUME MediaInv, [MediaNext]_mediaVars
      PROVE  [\A j \in Images :
                jobStatus'[j] = "failed" /\ jobStatus[j] # "failed" =>
                  j \notin cancelling \cup abandoned]_mediaVars
  BY <1>1, StepSpares DEF Spares, Stopped
<1>2. QED
  BY <1>1, MediaBegins, NextKeepsMedia, PTL DEF MediaSpec, StopIsNotFailure

-----------------------------------------------------------------------------
(* Where the converted images are.  A name is written only while nothing   *)
(* is there, and the name of a job changes only while the job is not       *)
(* completed: the one being added and the one being converted are not.     *)
Placed(M, out, disk) ==
  /\ IsMedia(M) /\ M.jobs \in Seq(Images) /\ M.status \in [Images -> Status]
  /\ \A j \in Images :
       /\ M.status[j] = "queued" => out[j] \in Names
       /\ M.status[j] = "completed" => out[j] \in Names /\ disk[out[j]] = j

(* The image that is converted has a name and is not a completed one.      *)
Busy(M, out) ==
  /\ DOMAIN M.conversion = {"pc", "job", "attempt", "aborted"}
  /\ M.conversion.pc # "idle" =>
       /\ M.conversion.job \in Images
       /\ M.status[M.conversion.job] # "completed"
       /\ out[M.conversion.job] \in Names

PlaceInv ==
  /\ output \in [Images -> {0} \cup Names]
  /\ images \in [Names -> Images \cup {NoImage}]
  /\ Placed(Media, output, images) /\ Busy(Media, output)

(* The list and the statuses are that of some images.                      *)
Sorted(M) ==
  IsMedia(M) /\ M.jobs \in Seq(Images) /\ M.status \in [Images -> Status]

LEMMA MinOf ==
  ASSUME NEW S, S \subseteq Nat, S # {}
  PROVE  Min(S) \in S
<1>1. \E m \in S : \A n \in S : m <= n
  BY LeastNatural
<1>2. QED
  BY <1>1 DEF Min

LEMMA FreeIsFree ==
  ASSUME NEW j, FreeNames(j) # {}
  PROVE  Free(j) \in Names /\ images[Free(j)] = NoImage
<1>1. Names \subseteq Nat
  BY DEF Names
<1>2. FreeNames(j) \subseteq Nat
  BY <1>1 DEF FreeNames
<1>3. Free(j) \in FreeNames(j)
  BY <1>2, MinOf DEF Free
<1>4. QED
  BY <1>3 DEF FreeNames

(* The next job is one of the list and queued.                             *)
LEMMA NextIsQueued ==
  ASSUME NEW M, M.jobs \in Seq(Images), QueuedAt(M) # {}
  PROVE  NextQueued(M) \in Images /\ M.status[NextQueued(M)] = "queued"
<1>1. QueuedAt(M) \subseteq 1..Len(M.jobs) /\ Len(M.jobs) \in Nat
  BY DEF QueuedAt
<1>2. Min(QueuedAt(M)) \in QueuedAt(M)
  BY <1>1, MinOf
<1> DEFINE m == Min(QueuedAt(M))
<1> HIDE DEF m
<1>3. m \in 1..Len(M.jobs) /\ M.status[M.jobs[m]] = "queued"
  BY <1>1, <1>2 DEF QueuedAt, m
<1>4. M.jobs[m] \in Images
  BY <1>3
<1>5. QED
  BY <1>3, <1>4 DEF NextQueued, m

LEMMA TakePlaces ==
  ASSUME NEW M, NEW out, NEW disk, Placed(M, out, disk)
  PROVE  Placed(Take(M), out, disk) /\ Busy(Take(M), out)
<1> DEFINE h == NextQueued(M)
           new == [pc |-> "converting", job |-> h, attempt |-> 1,
                   aborted |-> FALSE]
<1>1. CASE Abandoning \/ QueuedAt(M) = {}
  <2>1. Take(M) = [M EXCEPT !.conversion = NoConversion]
    BY <1>1 DEF Take
  <2>2. /\ IsMedia(Take(M)) /\ Take(M).jobs = M.jobs
        /\ Take(M).status = M.status /\ Take(M).conversion = NoConversion
    BY <2>1 DEF Placed, IsMedia
  <2>3. QED
    BY <2>2 DEF Placed, Busy, NoConversion
<1>2. CASE ~(Abandoning \/ QueuedAt(M) = {})
  <2>1. h \in Images /\ M.status[h] = "queued"
    BY <1>2, NextIsQueued DEF Placed
  <2>2. Take(M) = [M EXCEPT !.status[h] = "processing", !.conversion = new]
    BY <1>2 DEF Take
  <2>3. /\ new.pc = "converting" /\ new.job = h
        /\ DOMAIN new = {"pc", "job", "attempt", "aborted"}
    OBVIOUS
  <2> HIDE DEF h, new
  <2>4. /\ IsMedia(Take(M)) /\ Take(M).jobs = M.jobs
        /\ Take(M).status = [M.status EXCEPT ![h] = "processing"]
        /\ Take(M).conversion = new
    BY <2>2 DEF Placed, IsMedia
  <2>5. Take(M).status \in [Images -> Status]
    BY <2>4 DEF Placed, Status
  <2>6. \A j \in Images : Take(M).status[j] \in {"queued", "completed"} =>
          Take(M).status[j] = M.status[j]
    BY <2>4 DEF Placed
  <2>7. Placed(Take(M), out, disk)
    BY <2>4, <2>5, <2>6 DEF Placed
  <2>8. Busy(Take(M), out)
    BY <2>1, <2>3, <2>4 DEF Placed, Busy
  <2>9. QED
    BY <2>7, <2>8
<1>3. QED
  BY <1>1, <1>2

LEMMA SchedulePlaces ==
  ASSUME NEW M, NEW out, NEW disk, Placed(M, out, disk), Busy(M, out)
  PROVE  Placed(ScheduleImages(M), out, disk) /\ Busy(ScheduleImages(M), out)
BY TakePlaces DEF ScheduleImages

LEMMA TrimmedSorted ==
  ASSUME NEW M, Sorted(M)
  PROVE  /\ Sorted(Trimmed(M)) /\ Trimmed(M).status = M.status
         /\ Trimmed(M).conversion = M.conversion
<1> DEFINE done == {j \in Images : Settled(M.status[j])}
           over == Only(M.jobs, done)
           n    == IF Len(over) < HistoryLimit THEN Len(over) ELSE HistoryLimit
           kept == SubSeq(over, Len(over) + 1 - n, Len(over))
           rest == Only(M.jobs, Images \ done)
<1>1. over \in Seq(Images) /\ rest \in Seq(Images)
  BY OnlyMembers DEF Sorted
<1>2. kept \in Seq(Images)
  <2> HIDE DEF over
  <2>1. n \in 0..Len(over) /\ Len(over) \in Nat
    BY <1>1, MediaAssumption
  <2> HIDE DEF n
  <2>2. \A i \in (Len(over) + 1 - n)..Len(over) : over[i] \in Images
    BY <1>1, <2>1
  <2>3. QED
    BY <1>1, <2>1, <2>2
<1>3. Trimmed(M) = [M EXCEPT !.jobs = kept \o rest]
  BY DEF Trimmed
<1> HIDE DEF kept, rest
<1>4. kept \o rest \in Seq(Images)
  BY <1>1, <1>2
<1> DEFINE jobsLeft == kept \o rest
<1> HIDE DEF jobsLeft
<1>5. /\ IsMedia(Trimmed(M)) /\ Trimmed(M).status = M.status
      /\ Trimmed(M).conversion = M.conversion
      /\ Trimmed(M).jobs \in Seq(Images)
  BY <1>3, <1>4 DEF Sorted, IsMedia, jobsLeft
<1>6. QED
  BY <1>5 DEF Sorted

LEMMA TrimmedPlaces ==
  ASSUME NEW M, NEW out, NEW disk, Placed(M, out, disk), Busy(M, out)
  PROVE  Placed(Trimmed(M), out, disk) /\ Busy(Trimmed(M), out)
BY TrimmedSorted DEF Placed, Busy, Sorted

(* What a handler hands on is what the next state holds.                   *)
LEMMA BecomesPlaced ==
  ASSUME NEW M, MediaBecomes(M), Placed(M, output', images'), Busy(M, output'),
         output' \in [Images -> {0} \cup Names],
         images' \in [Names -> Images \cup {NoImage}]
  PROVE  PlaceInv'
<1>1. /\ Media'.jobs = M.jobs /\ Media'.status = M.status
      /\ Media'.conversion = M.conversion /\ IsMedia(Media')
  BY DEF MediaBecomes, Media, IsMedia
<1>2. Placed(Media', output', images') /\ Busy(Media', output')
  BY <1>1 DEF Placed, Busy
<1>3. QED
  BY <1>2 DEF PlaceInv

LEMMA AwaitedRange ==
  ASSUME NEW c \in Calls, NEW i \in 1..(Len(Selection[c]) + 1)
  PROVE  Awaited(c, i) \in i..(Len(Selection[c]) + 1)
<1> DEFINE open == {k \in i..Len(Selection[c]) : Selection[c][k] \notin Already}
<1>1. Len(Selection[c]) \in Nat
  BY MediaAssumption
<1>2. CASE open = {}
  BY <1>1, <1>2 DEF Awaited
<1>3. CASE open # {}
  <2>1. open \subseteq Nat /\ open \subseteq i..Len(Selection[c])
    BY <1>1
  <2>2. \E k \in open : \A m \in open : k <= m
    <3> HIDE DEF open
    <3>1. QED
      BY <1>3, <2>1, LeastNatural
  <2>3. Awaited(c, i) \in open
    BY <1>3, <2>2 DEF Awaited
  <2>4. Awaited(c, i) \in i..Len(Selection[c])
    BY <2>3
  <2>5. QED
    BY <1>1, <2>4
<1>4. QED
  BY <1>2, <1>3

LEMMA GoesPlaces ==
  ASSUME NEW c \in Calls, NEW i \in 1..(Len(Selection[c]) + 1), NEW M,
         Placed(M, output', images), Busy(M, output'), Goes(c, i, M),
         output' \in [Images -> {0} \cup Names], images' = images,
         images \in [Names -> Images \cup {NoImage}]
  PROVE  PlaceInv'
<1> DEFINE k == Awaited(c, i)
           skipped == SubSeq(Selection[c], i, k - 1)
           st == [j \in Images |->
                    IF j \in ToSet(skipped) THEN "skipped" ELSE M.status[j]]
           longer == M.jobs \o skipped
           S == [M EXCEPT !.jobs = longer, !.status = st]
<1>1. skipped \in Seq(Images)
  <2>1. Selection[c] \in Seq(Images) /\ Len(Selection[c]) \in Nat
    BY MediaAssumption
  <2>2. k \in i..(Len(Selection[c]) + 1)
    BY AwaitedRange
  <2> HIDE DEF k
  <2>3. \A m \in i..(k - 1) : Selection[c][m] \in Images
    BY <2>1, <2>2
  <2>4. QED
    BY <2>1, <2>2, <2>3
<1> HIDE DEF skipped
<1>2. longer \in Seq(Images)
  BY <1>1 DEF Placed
<1>3. /\ st \in [Images -> Status]
      /\ \A j \in Images : st[j] \in {M.status[j], "skipped"}
  BY DEF Placed, Status
<1>4. MediaBecomes(S) \/ MediaBecomes(ScheduleImages(Trimmed(S)))
  BY DEF Goes, skipped
<1> HIDE DEF longer, st
<1>5. /\ IsMedia(S) /\ S.jobs = longer /\ S.status = st
      /\ S.conversion = M.conversion
  BY DEF Placed, IsMedia
<1> HIDE DEF S
<1>6. Placed(S, output', images')
  BY <1>2, <1>3, <1>5 DEF Placed
<1>7. Busy(S, output')
  BY <1>3, <1>5 DEF Busy
<1>8. CASE MediaBecomes(S)
  BY <1>6, <1>7, <1>8, BecomesPlaced
<1>9. CASE MediaBecomes(ScheduleImages(Trimmed(S)))
  BY <1>6, <1>7, <1>9, TrimmedPlaces, SchedulePlaces, BecomesPlaced
<1>10. QED
  BY <1>4, <1>8, <1>9

LEMMA AddsPlace ==
  ASSUME PlaceInv, NEW c \in Calls, AddBegins(c) \/ NameFound(c)
  PROVE  PlaceInv'
<1>1. Len(Selection[c]) \in Nat /\ Selection[c] \in Seq(Images)
  BY MediaAssumption
<1>2. CASE AddBegins(c)
  BY <1>1, <1>2, GoesPlaces DEF AddBegins, PlaceInv
<1>3. CASE NameFound(c)
  <2> DEFINE j == Selection[c][adding[c]]
             longer == Append(jobs, j)
             st == [jobStatus EXCEPT ![j] = "queued"]
             M == [Media EXCEPT !.jobs = longer, !.status = st]
  <2>1. adding[c] \in 1..Len(Selection[c]) /\ FreeNames(j) # {}
    BY <1>3 DEF NameFound, InFlight
  <2>2. j \in Images
    BY <1>1, <2>1
  <2>3. adding[c] + 1 \in 1..(Len(Selection[c]) + 1)
    BY <1>1, <2>1
  <2>4. Goes(c, adding[c] + 1, M)
    BY <1>3 DEF NameFound, Media
  <2>5. output' = [output EXCEPT ![j] = Free(j)] /\ images' = images
    BY <1>3 DEF NameFound
  <2> HIDE DEF j
  <2>6. Free(j) \in Names
    BY <2>1, FreeIsFree
  <2>7. /\ output' \in [Images -> {0} \cup Names] /\ output'[j] \in Names
        /\ \A k \in Images : k # j => output'[k] = output[k]
    BY <2>2, <2>5, <2>6 DEF PlaceInv
  <2>8. /\ jobs \in Seq(Images) /\ jobStatus \in [Images -> Status]
        /\ Media.jobs = jobs /\ Media.status = jobStatus
        /\ Media.conversion = conversion
    BY DEF PlaceInv, Placed, Media
  <2>9. /\ longer \in Seq(Images) /\ st \in [Images -> Status]
        /\ st[j] = "queued" /\ \A k \in Images : k # j => st[k] = jobStatus[k]
    BY <2>2, <2>8 DEF Status
  <2> HIDE DEF longer, st
  <2>10. /\ IsMedia(M) /\ M.jobs = longer /\ M.status = st
         /\ M.conversion = conversion
    BY DEF IsMedia, Media
  <2> HIDE DEF M
  <2>11. Placed(M, output', images)
    BY <2>7, <2>8, <2>9, <2>10 DEF Placed, PlaceInv
  <2>12. Busy(M, output')
    BY <2>7, <2>8, <2>9, <2>10 DEF Busy, PlaceInv
  <2>13. QED
    BY <2>3, <2>4, <2>5, <2>7, <2>11, <2>12, GoesPlaces DEF PlaceInv
<1>4. QED
  BY <1>2, <1>3

(* The conversion ends: it wrote its own name, which was free, or nothing. *)
LEMMA EndPlaces ==
  ASSUME PlaceInv, conversion.pc # "idle", NEW s \in Status \ {"queued"},
         s = "completed" => images'[output'[conversion.job]] = conversion.job,
         \A n \in Names : images[n] # NoImage => images'[n] = images[n],
         images' \in [Names -> Images \cup {NoImage}],
         output' \in [Images -> {0} \cup Names],
         output'[conversion.job] \in Names,
         \A k \in Images : k # conversion.job => output'[k] = output[k],
         MediaBecomes(Take([Media EXCEPT !.status[conversion.job] = s,
                                         !.waits[conversion.job] = {},
                                         !.cancelling = @ \ {conversion.job}]))
  PROVE  PlaceInv'
<1> DEFINE j == conversion.job
           st == [jobStatus EXCEPT ![j] = s]
           w  == [waits EXCEPT ![j] = {}]
           cs == cancelling \ {j}
           R  == [Media EXCEPT !.status = st, !.waits = w, !.cancelling = cs]
<1>1. /\ j \in Images /\ jobs \in Seq(Images)
      /\ jobStatus \in [Images -> Status]
      /\ \A k \in Images :
           /\ jobStatus[k] = "queued" => output[k] \in Names
           /\ jobStatus[k] = "completed" =>
                output[k] \in Names /\ images[output[k]] = k
  BY DEF PlaceInv, Placed, Busy, Media
<1>2. MediaBecomes(Take(R))
  BY DEF Media
<1> HIDE DEF j
<1>3. /\ st \in [Images -> Status] /\ st[j] = s
      /\ \A k \in Images : k # j => st[k] = jobStatus[k]
  BY <1>1
<1> HIDE DEF st, w, cs
<1>4. IsMedia(R) /\ R.jobs = jobs /\ R.status = st
  BY DEF Media, IsMedia
<1> HIDE DEF R
<1>5. \A k \in Images : st[k] = "completed" =>
        output'[k] \in Names /\ images'[output'[k]] = k
  <2>1. ASSUME NEW k \in Images, k # j, st[k] = "completed"
        PROVE  output'[k] \in Names /\ images'[output'[k]] = k
    BY <1>1, <1>3, <2>1, MediaAssumption DEF j
  <2>2. QED
    BY <1>3, <2>1 DEF j
<1>6. \A k \in Images : st[k] = "queued" => output'[k] \in Names
  BY <1>1, <1>3 DEF j
<1>7. Placed(R, output', images')
  BY <1>1, <1>3, <1>4, <1>5, <1>6 DEF Placed
<1>8. QED
  BY <1>2, <1>7, TakePlaces, BecomesPlaced

LEMMA ConversionPlaces ==
  ASSUME PlaceInv, ConversionGoesOn
  PROVE  PlaceInv'
<1> DEFINE j == conversion.job
           said == IF j \in cancelling \/ Abandoning THEN "cancelled"
                   ELSE "failed"
<1>1. said \in Status \ {"queued"} /\ said # "completed"
  BY DEF Status
<1>2. conversion.pc # "idle"
  BY DEF ConversionGoesOn, Converts, Throws, OutputExists, Renamed
<1>3. /\ j \in Images /\ output[j] \in Names
      /\ output \in [Images -> {0} \cup Names]
      /\ images \in [Names -> Images \cup {NoImage}]
  BY <1>2 DEF PlaceInv, Busy, Media
<1>4. CASE Converts
  <2>1. /\ images[output[j]] = NoImage /\ output' = output
        /\ images' = [images EXCEPT ![output[j]] = j]
    BY <1>4 DEF Converts, ConversionEnds
  <2>2. /\ images' \in [Names -> Images \cup {NoImage}]
        /\ images'[output[j]] = j
        /\ \A n \in Names : images[n] # NoImage => images'[n] = images[n]
    BY <1>3, <2>1
  <2>3. "completed" \in Status \ {"queued"}
    BY DEF Status
  <2>4. QED
    BY <1>2, <1>3, <1>4, <2>1, <2>2, <2>3, EndPlaces
    DEF Converts, ConversionEnds
<1>5. CASE Throws
  <2>1. images' = images /\ output' = output /\ ConversionEnds(said)
    BY <1>5 DEF Throws, ConversionEnds
  <2> HIDE DEF said
  <2>2. QED
    BY <1>1, <1>2, <1>3, <2>1, EndPlaces DEF ConversionEnds
<1>6. CASE OutputExists
  <2>1. /\ output' = output /\ images' = images /\ jobs' = jobs
        /\ jobStatus' = jobStatus
        /\ conversion' = [conversion EXCEPT !.pc = "renaming"]
    BY <1>6 DEF OutputExists
  <2>2. DOMAIN conversion = {"pc", "job", "attempt", "aborted"}
    BY DEF PlaceInv, Busy, Media
  <2>3. /\ DOMAIN conversion' = {"pc", "job", "attempt", "aborted"}
        /\ conversion'.job = j
    BY <2>1, <2>2
  <2>4. QED
    BY <1>2, <2>1, <2>3 DEF PlaceInv, Placed, Busy, Media, IsMedia
<1>7. CASE Renamed
  <2>1. /\ FreeNames(j) # {} /\ images' = images
        /\ output' = [output EXCEPT ![j] = Free(j)]
    BY <1>7 DEF Renamed
  <2>2. Free(j) \in Names
    BY <2>1, FreeIsFree
  <2>3. /\ output' \in [Images -> {0} \cup Names] /\ output'[j] \in Names
        /\ \A k \in Images : k # j => output'[k] = output[k]
    BY <1>3, <2>1, <2>2
  <2>4. CASE conversion.attempt < MaxAttempts
    <3>1. /\ jobs' = jobs /\ jobStatus' = jobStatus
          /\ conversion' = [conversion EXCEPT
                              !.pc = "converting", !.attempt = @ + 1]
      BY <1>7, <2>4 DEF Renamed
    <3>2. DOMAIN conversion = {"pc", "job", "attempt", "aborted"}
      BY DEF PlaceInv, Busy, Media
    <3>3. /\ DOMAIN conversion' = {"pc", "job", "attempt", "aborted"}
          /\ conversion'.job = j
      BY <3>1, <3>2
    <3>4. jobStatus[j] # "completed"
      BY <1>2 DEF PlaceInv, Busy, Media
    <3> HIDE DEF j
    <3>5. Placed(Media', output', images')
      BY <2>1, <2>3, <3>1, <3>4 DEF PlaceInv, Placed, Media, IsMedia
    <3>6. Busy(Media', output')
      BY <1>3, <2>3, <3>1, <3>3, <3>4 DEF Busy, Media
    <3>7. QED
      BY <1>3, <2>1, <2>3, <3>5, <3>6 DEF PlaceInv
  <2>5. CASE ~(conversion.attempt < MaxAttempts)
    <3>1. MediaBecomes(Take([Media EXCEPT !.status[j] = said, !.waits[j] = {},
                                          !.cancelling = @ \ {j}]))
      BY <1>7, <2>5 DEF Renamed
    <3> HIDE DEF said
    <3>2. QED
      BY <1>1, <1>2, <1>3, <2>1, <2>3, <3>1, EndPlaces
  <2>6. QED
    BY <2>4, <2>5
<1>8. QED
  BY <1>4, <1>5, <1>6, <1>7 DEF ConversionGoesOn

(* A stop, the deadline and the quit write no name and complete nothing.   *)
LEMMA StopsPlace ==
  ASSUME PlaceInv, jobs' = jobs, output' = output, images' = images,
         jobStatus' \in [Images -> Status],
         \A j \in Images : jobStatus'[j] \in {jobStatus[j], "cancelled"},
         \/ conversion' = conversion
         \/ \E b : conversion' = [conversion EXCEPT !.aborted = b]
  PROVE  PlaceInv'
<1>1. DOMAIN conversion = {"pc", "job", "attempt", "aborted"}
  BY DEF PlaceInv, Busy, Media
<1>2. /\ DOMAIN conversion' = {"pc", "job", "attempt", "aborted"}
      /\ conversion'.pc = conversion.pc /\ conversion'.job = conversion.job
  BY <1>1
<1>3. QED
  BY <1>2 DEF PlaceInv, Placed, Busy, Media, IsMedia

LEMMA StopPlaces ==
  ASSUME PlaceInv,
         \/ \E j \in Images, who \in Callers :
              CancelImage(who, j) \/ CancelDeadline(who, j)
         \/ StopsAllImages \/ StopsAllGoesOn \/ QuitBegins \/ QuitDeadline
         \/ QuitEnds
  PROVE  PlaceInv'
<1>1. jobStatus \in [Images -> Status] /\ "cancelled" \in Status
  BY DEF PlaceInv, Placed, Media, Status
<1>2. ASSUME NEW ids, StopsThese(ids)
      PROVE  PlaceInv'
  <2>1. /\ jobStatus' \in [Images -> Status]
        /\ \A j \in Images : jobStatus'[j] \in {jobStatus[j], "cancelled"}
    BY <1>1, <1>2 DEF StopsThese
  <2>2. /\ jobs' = jobs /\ output' = output /\ images' = images
        /\ \/ conversion' = conversion
           \/ conversion' = [conversion EXCEPT !.aborted = TRUE]
    BY <1>2 DEF StopsThese
  <2>3. QED
    BY <2>1, <2>2, StopsPlace
<1>3. ASSUME NEW j \in Images, NEW who, CancelImage(who, j)
      PROVE  PlaceInv'
  <2>1. /\ jobStatus' \in [Images -> Status]
        /\ \A k \in Images : jobStatus'[k] \in {jobStatus[k], "cancelled"}
    BY <1>1, <1>3 DEF CancelImage, Cancels
  <2>2. /\ jobs' = jobs /\ output' = output /\ images' = images
        /\ \/ conversion' = conversion
           \/ \E b : conversion' = [conversion EXCEPT !.aborted = b]
    BY <1>3 DEF CancelImage, Cancels
  <2>3. QED
    BY <2>1, <2>2, StopsPlace
<1>4. ASSUME NEW j, NEW who, CancelDeadline(who, j)
      PROVE  PlaceInv'
  BY <1>1, <1>4, StopsPlace DEF CancelDeadline
<1>5. CASE QuitBegins
  BY <1>1, <1>5, StopsPlace DEF QuitBegins
<1>6. CASE QuitDeadline
  BY <1>1, <1>6, StopsPlace DEF QuitDeadline
<1>7. CASE QuitEnds
  <2>1. /\ jobStatus' \in [Images -> Status]
        /\ \A k \in Images : jobStatus'[k] \in {jobStatus[k], "cancelled"}
    BY <1>1, <1>7 DEF QuitEnds
  <2>2. QED
    BY <1>7, <2>1, StopsPlace DEF QuitEnds
<1>8. CASE StopsAllImages \/ StopsAllGoesOn
  BY <1>2, <1>8 DEF StopsAllImages, StopsAllGoesOn
<1>9. QED
  BY <1>3, <1>4, <1>5, <1>6, <1>7, <1>8

LEMMA DrainPlaces ==
  ASSUME PlaceInv, DrainBegins
  PROVE  PlaceInv'
<1>1. output' = output /\ images' = images
  BY DEF DrainBegins
<1>2. CASE MediaBecomes(Take(Media))
  BY <1>1, <1>2, TakePlaces, BecomesPlaced DEF PlaceInv
<1>3. CASE MediaBecomes(Media)
  BY <1>1, <1>3, BecomesPlaced DEF PlaceInv
<1>4. QED
  BY <1>2, <1>3 DEF DrainBegins

LEMMA PlaceBegins == MediaInit => PlaceInv
<1> SUFFICES ASSUME MediaInit PROVE PlaceInv
  OBVIOUS
<1>1. /\ jobs = <<>> /\ jobStatus = [j \in Images |-> "none"]
      /\ conversion = NoConversion
  BY DEF MediaInit
<1>2. Placed(Media, output, images)
  BY <1>1 DEF Placed, Media, IsMedia, Status
<1>3. Busy(Media, output)
  BY <1>1 DEF Busy, Media, NoConversion
<1>4. QED
  BY <1>2, <1>3 DEF PlaceInv, MediaInit

LEMMA NextPlaces ==
  ASSUME PlaceInv, [MediaNext]_mediaVars
  PROVE  PlaceInv'
<1>1. CASE Continues
  BY <1>1, StopPlaces, DrainPlaces DEF Continues
<1>2. CASE ConversionGoesOn
  BY <1>2, ConversionPlaces
<1>3. CASE \E c \in Calls : AddBegins(c) \/ NameFound(c)
  BY <1>3, AddsPlace
<1>4. CASE \/ \E j \in Images : CancelImage("person", j)
           \/ \E j \in Images, who \in Callers : CancelDeadline(who, j)
           \/ StopsAllImages \/ QuitBegins \/ QuitDeadline
  <2>1. "person" \in Callers
    BY DEF Callers
  <2>2. QED
    BY <1>4, <2>1, StopPlaces
<1>5. CASE UNCHANGED mediaVars
  BY <1>5 DEF mediaVars, PlaceInv, Placed, Busy, Media, IsMedia
<1>6. QED
  BY <1>1, <1>2, <1>3, <1>4, <1>5 DEF MediaNext

(* A converted image is under its own name (queue.ts, the loop of          *)
(* convert() that looks for another name when its own was taken, and the   *)
(* names addImageConversions() awaits).                                    *)
THEOREM ConvertedStays == MediaSpec => []ConvertedIsThere
<1>1. PlaceInv => ConvertedIsThere
  BY DEF PlaceInv, Placed, Media, ConvertedIsThere
<1>2. QED
  BY <1>1, PlaceBegins, NextPlaces, PTL DEF MediaSpec

-----------------------------------------------------------------------------
(* Who takes the images that wait.  The image that says it is being        *)
(* converted is the one the pump awaits; the additions in flight end       *)
(* before the drain begins; from then on nothing is queued any more, so    *)
(* what the deadline abandons is all there is.                             *)
Pumped(M) ==
  \A j \in Images : M.status[j] = "processing" =>
    M.conversion.pc # "idle" /\ M.conversion.job = j

AddingTyped == adding \in [Calls -> Nat]

NobodyWaits(M) == \A j \in ToSet(M.jobs) : M.status[j] # "queued"

QuitInv ==
  /\ PlaceInv /\ Pumped(Media)
  /\ quit \in {"no", "adding"} \/ \A c \in Calls : ~InFlight(c)
  /\ quit = "abandoning" => Unsettled \subseteq abandoned
  /\ QueuedHasPump /\ QuitLeavesNothing

LEMMA QuitFacts ==
  ASSUME QuitInv
  PROVE  /\ PlaceInv /\ jobs \in Seq(Images) /\ jobStatus \in [Images -> Status]
         /\ ToSet(jobs) \subseteq Images
         /\ DOMAIN conversion = {"pc", "job", "attempt", "aborted"}
         /\ Placed(Media, output, images) /\ Busy(Media, output)
         /\ Media.jobs = jobs /\ Media.status = jobStatus /\ Media.conversion = conversion
         /\ \A j \in Images : jobStatus[j] = "processing" =>
              conversion.pc # "idle" /\ conversion.job = j
<1>1. /\ PlaceInv /\ Placed(Media, output, images) /\ Busy(Media, output)
      /\ Pumped(Media)
  BY DEF QuitInv, PlaceInv
<1>2. Media.jobs = jobs /\ Media.status = jobStatus /\ Media.conversion = conversion
  BY DEF Media
<1>3. jobs \in Seq(Images)
  BY <1>1, <1>2 DEF Placed
<1>4. ToSet(jobs) \subseteq Images
  BY <1>3 DEF ToSet
<1>5. QED
  BY <1>1, <1>2, <1>3, <1>4 DEF Placed, Busy, Pumped

LEMMA NobodyQueued ==
  ASSUME NEW M, QueuedAt(M) = {}
  PROVE  NobodyWaits(M)
BY DEF QueuedAt, NobodyWaits, ToSet

LEMMA SomebodyQueued ==
  ASSUME NEW M, QueuedAt(M) # {}
  PROVE  ~NobodyWaits(M)
BY DEF QueuedAt, NobodyWaits, ToSet

(* The pump takes the next image, unless there is none or it is too late.  *)
LEMMA TakePumps ==
  ASSUME NEW M, Sorted(M),
         \A j \in Images : M.status[j] # "processing"
  PROVE  /\ Pumped(Take(M)) /\ Take(M).jobs = M.jobs
         /\ \A j \in Images : Take(M).status[j] \in {M.status[j], "processing"}
         /\ Abandoning => Take(M).status = M.status
         /\ ~Abandoning /\ Take(M).conversion.pc = "idle" => NobodyWaits(Take(M))
         /\ Take(M).conversion.pc = "idle" => Take(M).status = M.status
<1> DEFINE h == NextQueued(M)
           new == [pc |-> "converting", job |-> h, attempt |-> 1,
                   aborted |-> FALSE]
<1>1. CASE Abandoning \/ QueuedAt(M) = {}
  <2>1. Take(M) = [M EXCEPT !.conversion = NoConversion]
    BY <1>1 DEF Take
  <2>2. Take(M).jobs = M.jobs /\ Take(M).status = M.status
    BY <2>1 DEF Sorted, IsMedia
  <2>3. QueuedAt(M) = {} => NobodyWaits(Take(M))
    BY <2>2, NobodyQueued DEF NobodyWaits
  <2>4. QED
    BY <1>1, <2>2, <2>3 DEF Pumped, Sorted
<1>2. CASE ~(Abandoning \/ QueuedAt(M) = {})
  <2>1. h \in Images /\ M.status[h] = "queued"
    BY <1>2, NextIsQueued DEF Sorted
  <2>2. Take(M) = [M EXCEPT !.status[h] = "processing", !.conversion = new]
    BY <1>2 DEF Take
  <2>3. new.pc = "converting" /\ new.job = h
    OBVIOUS
  <2> HIDE DEF h, new
  <2>4. /\ Take(M).jobs = M.jobs
        /\ Take(M).status = [M.status EXCEPT ![h] = "processing"]
        /\ Take(M).conversion = new
    BY <2>2 DEF Sorted, IsMedia
  <2>5. \A j \in Images : /\ j # h => Take(M).status[j] = M.status[j]
                          /\ Take(M).status[h] = "processing"
    BY <2>1, <2>4 DEF Sorted
  <2>6. QED
    BY <1>2, <2>1, <2>3, <2>4, <2>5 DEF Pumped
<1>3. QED
  BY <1>1, <1>2

(* What the steps of the stops, of the deadline and of the quit leave: no  *)
(* image comes to wait or to be converted, the pump goes on.               *)
Quieter ==
  /\ jobs' = jobs /\ adding' = adding
  /\ jobStatus' \in [Images -> Status]
  /\ \A j \in Images : jobStatus'[j] \in {jobStatus[j], "cancelled"}
  /\ \/ conversion' = conversion
     \/ \E b : conversion' = [conversion EXCEPT !.aborted = b]

LEMMA QuieterKeeps ==
  ASSUME QuitInv, Quieter, PlaceInv'
  PROVE  /\ Pumped(Media)' /\ conversion'.pc = conversion.pc
         /\ Unsettled' \subseteq Unsettled
         /\ (\E j \in ToSet(jobs') : jobStatus'[j] = "queued") =>
              \E j \in ToSet(jobs) : jobStatus[j] = "queued"
         /\ \A c \in Calls : InFlight(c)' <=> InFlight(c)
<1>1. conversion'.pc = conversion.pc /\ conversion'.job = conversion.job
  BY QuitFacts DEF Quieter
<1>2. \A j \in Images : jobStatus'[j] \in {"queued", "processing"} =>
                          jobStatus'[j] = jobStatus[j]
  BY DEF Quieter
<1>3. Media'.status = jobStatus' /\ Media'.conversion = conversion'
  BY DEF Media
<1>4. Pumped(Media)'
  BY <1>1, <1>2, <1>3, QuitFacts DEF Pumped
<1>5. Unsettled' \subseteq Unsettled
  BY <1>2, QuitFacts DEF Unsettled, Quieter
<1>6. (\E j \in ToSet(jobs') : jobStatus'[j] = "queued") =>
         \E j \in ToSet(jobs) : jobStatus[j] = "queued"
  BY <1>2, QuitFacts DEF Quieter
<1>7. QED
  BY <1>1, <1>4, <1>5, <1>6 DEF Quieter, InFlight

LEMMA StopsQuieter ==
  ASSUME QuitInv,
         \/ \E j \in Images, who \in Callers :
              CancelImage(who, j) \/ CancelDeadline(who, j)
         \/ StopsAllImages \/ StopsAllGoesOn \/ QuitBegins \/ QuitDeadline
         \/ QuitEnds
  PROVE  Quieter
<1>1. jobStatus \in [Images -> Status] /\ "cancelled" \in Status
  BY QuitFacts DEF Status
<1>2. ASSUME NEW ids, StopsThese(ids)
      PROVE  Quieter
  BY <1>1, <1>2 DEF StopsThese, Quieter
<1>3. ASSUME NEW j \in Images, NEW who, CancelImage(who, j)
      PROVE  Quieter
  BY <1>1, <1>3 DEF CancelImage, Cancels, Quieter
<1>4. ASSUME NEW j, NEW who, CancelDeadline(who, j)
      PROVE  Quieter
  BY <1>1, <1>4 DEF CancelDeadline, Quieter
<1>5. CASE QuitBegins \/ QuitDeadline
  BY <1>1, <1>5 DEF QuitBegins, QuitDeadline, Quieter
<1>6. CASE QuitEnds
  BY <1>1, <1>6 DEF QuitEnds, Quieter
<1>7. CASE StopsAllImages \/ StopsAllGoesOn
  BY <1>2, <1>7 DEF StopsAllImages, StopsAllGoesOn
<1>8. QED
  BY <1>3, <1>4, <1>5, <1>6, <1>7

LEMMA StopsPump ==
  ASSUME QuitInv, PlaceInv',
         \/ \E j \in Images, who \in Callers :
              CancelImage(who, j) \/ CancelDeadline(who, j)
         \/ StopsAllImages \/ StopsAllGoesOn \/ QuitBegins \/ QuitDeadline
         \/ QuitEnds
  PROVE  QuitInv'
<1>1. /\ Quieter /\ Pumped(Media)' /\ conversion'.pc = conversion.pc
      /\ Unsettled' \subseteq Unsettled
      /\ (\E j \in ToSet(jobs') : jobStatus'[j] = "queued") =>
           \E j \in ToSet(jobs) : jobStatus[j] = "queued"
      /\ \A c \in Calls : InFlight(c)' <=> InFlight(c)
  BY StopsQuieter, QuieterKeeps
<1>2. CASE QuitBegins
  BY <1>1, <1>2 DEF QuitBegins, QuitInv, QueuedHasPump, QuitLeavesNothing
<1>3. CASE QuitDeadline
  BY <1>1, <1>3 DEF QuitDeadline, QuitInv, QueuedHasPump, QuitLeavesNothing
<1>4. CASE QuitEnds
  <2>1. /\ conversion.pc = "idle" /\ quit \in {"draining", "abandoning"} /\ quit' = "done"
        /\ jobStatus' = [j \in Images |->
             IF j \in abandoned /\ jobStatus[j] \in {"queued", "processing"}
             THEN "cancelled" ELSE jobStatus[j]]
    BY <1>4 DEF QuitEnds, Drained
  <2>2. Unsettled' = {}
    <3>1. CASE quit = "abandoning"
      <4>1. Unsettled \subseteq abandoned
        BY <3>1 DEF QuitInv
      <4>2. \A j \in Images : jobStatus'[j] \in {"queued", "processing"} => j \notin abandoned
        BY <2>1
      <4>3. QED
        BY <1>1, <4>1, <4>2, QuitFacts DEF Unsettled, Quieter
    <3>2. CASE quit = "draining"
      <4>1. \A j \in ToSet(jobs) : jobStatus[j] # "queued"
        BY <2>1, <3>2 DEF QuitInv, QueuedHasPump
      <4>2. Unsettled = {}
        BY <2>1, <4>1, QuitFacts DEF Unsettled
      <4>3. QED
        BY <1>1, <4>2
    <3>3. QED
      BY <2>1, <3>1, <3>2
  <2>3. ~\E j \in ToSet(jobs') : jobStatus'[j] = "queued"
    BY <2>2 DEF Unsettled
  <2>4. QED
    BY <1>1, <2>1, <2>2, <2>3 DEF QuitInv, QueuedHasPump, QuitLeavesNothing
<1>5. CASE \/ \E j \in Images, who \in Callers :
                CancelImage(who, j) \/ CancelDeadline(who, j)
           \/ StopsAllImages \/ StopsAllGoesOn
  <2>1. quit' = quit /\ abandoned' = abandoned
    BY <1>5 DEF CancelImage, CancelDeadline, StopsAllImages, StopsAllGoesOn, StopsThese
  <2>2. QED
    BY <1>1, <2>1 DEF QuitInv, QueuedHasPump, QuitLeavesNothing
<1>6. QED
  BY <1>2, <1>3, <1>4, <1>5

(* What the pump leaves behind when a conversion ends.                     *)
LEMMA EndPumps ==
  ASSUME QuitInv, PlaceInv', conversion.pc # "idle", quit' = quit, abandoned' = abandoned,
         adding' = adding, NEW s \in Status \ {"queued", "processing"},
         MediaBecomes(Take([Media EXCEPT !.status[conversion.job] = s,
                                         !.waits[conversion.job] = {},
                                         !.cancelling = @ \ {conversion.job}]))
  PROVE  QuitInv'
<1> DEFINE j == conversion.job
           st == [jobStatus EXCEPT ![j] = s]
           w  == [waits EXCEPT ![j] = {}]
           cs == cancelling \ {j}
           R  == [Media EXCEPT !.status = st, !.waits = w, !.cancelling = cs]
           T  == Take(R)
<1>1. j \in Images /\ jobStatus \in [Images -> Status]
  BY QuitFacts DEF Busy
<1>2. MediaBecomes(T)
  BY DEF Media
<1>3. st \in [Images -> Status] /\ st[j] = s /\ \A k \in Images : k # j => st[k] = jobStatus[k]
  BY <1>1
<1> HIDE DEF st, w, cs
<1>4. IsMedia(R) /\ R.jobs = jobs /\ R.status = st
  BY DEF Media, IsMedia
<1> HIDE DEF R
<1>5. \A k \in Images : st[k] # "processing"
  BY <1>3, QuitFacts
<1>6. /\ Pumped(T) /\ T.jobs = jobs
      /\ \A k \in Images : T.status[k] \in {st[k], "processing"}
      /\ Abandoning => T.status = st
      /\ ~Abandoning /\ T.conversion.pc = "idle" => NobodyWaits(T)
  BY <1>3, <1>4, <1>5, TakePumps, QuitFacts DEF Sorted
<1> HIDE DEF T, j
<1>7. jobs' = jobs /\ jobStatus' = T.status /\ conversion' = T.conversion
  BY <1>2, <1>6 DEF MediaBecomes
<1>8. Pumped(Media)'
  BY <1>6, <1>7 DEF Pumped, Media
<1>9. \A c \in Calls : InFlight(c)' <=> InFlight(c)
  BY DEF InFlight
<1>10. quit' = "abandoning" => Unsettled' \subseteq abandoned'
  <2> SUFFICES ASSUME quit = "abandoning", NEW k \in Unsettled' PROVE k \in abandoned
    OBVIOUS
  <2>1. k \in ToSet(jobs) /\ k \in Images /\ st[k] \in {"queued", "processing"}
    BY <1>6, <1>7, QuitFacts DEF Unsettled, Abandoning
  <2>2. k # j
    BY <1>3, <2>1
  <2>3. k \in Unsettled
    BY <1>3, <2>1, <2>2 DEF Unsettled
  <2>4. QED
    BY <2>3 DEF QuitInv
<1>11. QueuedHasPump'
  <2> SUFFICES ASSUME NEW k \in ToSet(jobs'), jobStatus'[k] = "queued",
                      conversion'.pc = "idle", quit \notin {"adding", "abandoning"}
               PROVE  FALSE
    BY DEF QueuedHasPump
  <2>1. NobodyWaits(T)
    BY <1>6, <1>7 DEF Abandoning
  <2>2. QED
    BY <1>6, <1>7, <2>1 DEF NobodyWaits
<1>12. quit # "done"
  BY DEF QuitInv, QuitLeavesNothing
<1>13. QED
  BY <1>8, <1>9, <1>10, <1>11, <1>12 DEF QuitInv, QuitLeavesNothing

LEMMA ConversionPumps ==
  ASSUME QuitInv, PlaceInv', ConversionGoesOn
  PROVE  QuitInv'
<1> DEFINE j == conversion.job
           said == IF j \in cancelling \/ Abandoning THEN "cancelled"
                   ELSE "failed"
<1>1. said \in Status \ {"queued", "processing"} /\ "completed" \in Status \ {"queued", "processing"}
  BY DEF Status
<1>2. conversion.pc # "idle"
  BY DEF ConversionGoesOn, Converts, Throws, OutputExists, Renamed
<1>3. quit' = quit /\ abandoned' = abandoned /\ adding' = adding
  BY DEF ConversionGoesOn, Converts, Throws, OutputExists, Renamed, ConversionEnds
<1>4. CASE Converts
  BY <1>1, <1>2, <1>3, <1>4, EndPumps DEF Converts, ConversionEnds
<1>5. CASE Throws
  <2>1. ConversionEnds(said)
    BY <1>5 DEF Throws
  <2> HIDE DEF said
  <2>2. QED
    BY <1>1, <1>2, <1>3, <2>1, EndPumps DEF ConversionEnds
<1>6. ASSUME jobs' = jobs, jobStatus' = jobStatus, conversion'.pc # "idle",
             conversion'.job = conversion.job
      PROVE  QuitInv'
  <2>1. Pumped(Media)'
    BY <1>6, QuitFacts DEF Pumped, Media
  <2>2. /\ \A c \in Calls : InFlight(c)' <=> InFlight(c)
        /\ Unsettled' = Unsettled /\ quit # "done"
    BY <1>2, <1>3, <1>6 DEF InFlight, Unsettled, QuitInv, QuitLeavesNothing
  <2>3. QED
    BY <1>3, <1>6, <2>1, <2>2 DEF QuitInv, QueuedHasPump, QuitLeavesNothing
<1>7. CASE OutputExists
  <2>1. /\ jobs' = jobs /\ jobStatus' = jobStatus
        /\ conversion' = [conversion EXCEPT !.pc = "renaming"]
    BY <1>7 DEF OutputExists
  <2>2. conversion'.pc # "idle" /\ conversion'.job = conversion.job
    BY <2>1, QuitFacts
  <2>3. QED
    BY <1>6, <2>1, <2>2
<1>8. CASE Renamed
  <2>1. CASE conversion.attempt < MaxAttempts
    <3>1. /\ jobs' = jobs /\ jobStatus' = jobStatus
          /\ conversion' = [conversion EXCEPT
                              !.pc = "converting", !.attempt = @ + 1]
      BY <1>8, <2>1 DEF Renamed
    <3>2. conversion'.pc # "idle" /\ conversion'.job = conversion.job
      BY <3>1, QuitFacts
    <3>3. QED
      BY <1>6, <3>1, <3>2
  <2>2. CASE ~(conversion.attempt < MaxAttempts)
    <3>1. MediaBecomes(Take([Media EXCEPT !.status[j] = said, !.waits[j] = {},
                                          !.cancelling = @ \ {j}]))
      BY <1>8, <2>2 DEF Renamed
    <3> HIDE DEF said
    <3>2. QED
      BY <1>1, <1>2, <1>3, <3>1, EndPumps
  <2>3. QED
    BY <2>1, <2>2
<1>9. QED
  BY <1>4, <1>5, <1>7, <1>8 DEF ConversionGoesOn

(* The quit hands what is queued to the pump, or there is nothing.         *)
LEMMA DrainPumps ==
  ASSUME QuitInv, PlaceInv', DrainBegins
  PROVE  QuitInv'
<1>1. /\ quit = "adding" /\ \A c \in Calls : ~InFlight(c)
      /\ adding' = adding /\ abandoned' = abandoned
      /\ quit' = IF conversion'.pc = "idle" THEN "done" ELSE "draining"
  BY DEF DrainBegins, Added
<1>2. \A c \in Calls : ~InFlight(c)'
  BY <1>1 DEF InFlight
<1>3. Sorted(Media) /\ IsMedia(Media)
  BY QuitFacts DEF Sorted, Placed
<1>4. /\ Pumped(Media)'
      /\ conversion'.pc = "idle" =>
           /\ \A k \in ToSet(jobs') : jobStatus'[k] # "queued"
           /\ Unsettled' = {}
  <2>1. CASE conversion.pc = "idle" /\ QueuedAt(Media) # {}
    <3> DEFINE T == Take(Media)
    <3>1. /\ Pumped(T) /\ T.jobs = jobs
          /\ T.conversion.pc = "idle" => NobodyWaits(T) /\ T.status = jobStatus
      <4>1. \A k \in Images : Media.status[k] # "processing"
        BY <2>1, QuitFacts
      <4>2. QED
        BY <1>1, <1>3, <4>1, TakePumps, QuitFacts DEF Abandoning
    <3>2. MediaBecomes(T)
      BY <2>1 DEF DrainBegins
    <3> HIDE DEF T
    <3>3. jobs' = jobs /\ jobStatus' = T.status /\ conversion' = T.conversion
      BY <3>1, <3>2 DEF MediaBecomes
    <3>4. Pumped(Media)'
      BY <3>1, <3>3 DEF Pumped, Media
    <3>5. conversion'.pc = "idle" => \A k \in ToSet(jobs') : jobStatus'[k] # "queued"
      BY <3>1, <3>3 DEF NobodyWaits
    <3>6. conversion'.pc = "idle" => Unsettled' = {}
      BY <2>1, <3>1, <3>3, <3>5, QuitFacts DEF Unsettled
    <3>7. QED
      BY <3>4, <3>5, <3>6
  <2>2. CASE ~(conversion.pc = "idle" /\ QueuedAt(Media) # {})
    <3>1. jobs' = jobs /\ jobStatus' = jobStatus /\ conversion' = conversion
      BY <2>2, QuitFacts DEF DrainBegins, MediaBecomes
    <3>2. conversion.pc = "idle" => NobodyWaits(Media)
      BY <2>2, NobodyQueued
    <3>3. Pumped(Media)'
      BY <3>1, QuitFacts DEF Pumped, Media
    <3>4. conversion'.pc = "idle" => \A k \in ToSet(jobs') : jobStatus'[k] # "queued"
      BY <3>1, <3>2, QuitFacts DEF NobodyWaits
    <3>5. conversion'.pc = "idle" => Unsettled' = {}
      BY <3>1, <3>4, QuitFacts DEF Unsettled
    <3>6. QED
      BY <3>3, <3>4, <3>5
  <2>3. QED
    BY <2>1, <2>2
<1>5. QED
  BY <1>1, <1>2, <1>4 DEF QuitInv, QueuedHasPump, QuitLeavesNothing

(* An addition goes on, and the last file of it lets the pump begin.       *)
LEMMA SkippedImages ==
  ASSUME NEW c \in Calls, NEW i \in 1..(Len(Selection[c]) + 1)
  PROVE  SubSeq(Selection[c], i, Awaited(c, i) - 1) \in Seq(Images)
<1>1. Selection[c] \in Seq(Images) /\ Len(Selection[c]) \in Nat
  BY MediaAssumption
<1> DEFINE k == Awaited(c, i)
<1>2. k \in i..(Len(Selection[c]) + 1)
  BY AwaitedRange
<1> HIDE DEF k
<1>3. \A m \in i..(k - 1) : Selection[c][m] \in Images
  BY <1>1, <1>2
<1>4. SubSeq(Selection[c], i, k - 1) \in Seq(Images)
  BY <1>1, <1>2, <1>3
<1>5. QED
  BY <1>4 DEF k

LEMMA SchedulePumps ==
  ASSUME NEW M, Sorted(M), Pumped(M), ~Abandoning
  PROVE  /\ Pumped(ScheduleImages(M)) /\ ScheduleImages(M).jobs = M.jobs
         /\ ScheduleImages(M).conversion.pc = "idle" /\ ~Stopping =>
              NobodyWaits(ScheduleImages(M))
<1>1. CASE M.conversion.pc # "idle" \/ Stopping \/ QueuedAt(M) = {}
  <2>1. ScheduleImages(M) = M
    BY <1>1 DEF ScheduleImages
  <2>2. QED
    BY <1>1, <2>1, NobodyQueued
<1>2. CASE ~(M.conversion.pc # "idle" \/ Stopping \/ QueuedAt(M) = {})
  <2>1. ScheduleImages(M) = Take(M)
    BY <1>2 DEF ScheduleImages
  <2>2. \A j \in Images : M.status[j] # "processing"
    BY <1>2 DEF Pumped
  <2>3. QED
    BY <2>1, <2>2, TakePumps
<1>3. QED
  BY <1>1, <1>2

LEMMA GoesPumps ==
  ASSUME NEW c \in Calls, NEW i \in 1..(Len(Selection[c]) + 1), NEW M,
         Sorted(M), Pumped(M), Goes(c, i, M), adding \in [Calls -> Nat],
         quit \in {"no", "adding"}, quit' = quit
  PROVE  Pumped(Media)' /\ QueuedHasPump' /\ adding' \in [Calls -> Nat]
<1> DEFINE k == Awaited(c, i)
           skipped == SubSeq(Selection[c], i, k - 1)
           st == [j \in Images |->
                    IF j \in ToSet(skipped) THEN "skipped" ELSE M.status[j]]
           longer == M.jobs \o skipped
           S == [M EXCEPT !.jobs = longer, !.status = st]
           U == ScheduleImages(Trimmed(S))
<1>1. /\ k \in i..(Len(Selection[c]) + 1) /\ Len(Selection[c]) \in Nat
      /\ skipped \in Seq(Images)
  BY AwaitedRange, SkippedImages, MediaAssumption
<1>2. adding' = [adding EXCEPT ![c] = k]
  BY DEF Goes
<1>3. k > Len(Selection[c]) => MediaBecomes(U)
  BY DEF Goes
<1>4. ~(k > Len(Selection[c])) => MediaBecomes(S)
  BY DEF Goes
<1> HIDE DEF k, skipped
<1>5. /\ longer \in Seq(Images) /\ st \in [Images -> Status]
      /\ \A j \in Images : st[j] \in {M.status[j], "skipped"}
  BY <1>1 DEF Sorted, Status
<1> HIDE DEF longer, st
<1>6. /\ IsMedia(S) /\ S.jobs = longer /\ S.status = st
      /\ S.conversion = M.conversion
  BY DEF Sorted, IsMedia
<1> HIDE DEF S
<1>7. Sorted(S) /\ Pumped(S)
  BY <1>5, <1>6 DEF Sorted, Pumped
<1>8. adding' \in [Calls -> Nat] /\ adding'[c] = k
  BY <1>1, <1>2
<1>9. CASE k > Len(Selection[c])
  <2>1. /\ Sorted(Trimmed(S)) /\ Pumped(Trimmed(S))
    BY <1>7, TrimmedSorted DEF Pumped
  <2>2. /\ Pumped(U)
        /\ U.conversion.pc = "idle" /\ ~Stopping => NobodyWaits(U)
    BY <2>1, SchedulePumps DEF Abandoning
  <2> HIDE DEF U
  <2>3. jobs' = U.jobs /\ jobStatus' = U.status /\ conversion' = U.conversion
    BY <1>3, <1>9 DEF MediaBecomes
  <2>4. Pumped(Media)'
    BY <2>2, <2>3 DEF Pumped, Media
  <2>5. QueuedHasPump'
    BY <2>2, <2>3 DEF QueuedHasPump, NobodyWaits, Stopping
  <2>6. QED
    BY <1>8, <2>4, <2>5
<1>10. CASE ~(k > Len(Selection[c]))
  <2>1. jobs' = S.jobs /\ jobStatus' = S.status /\ conversion' = S.conversion
    BY <1>4, <1>10 DEF MediaBecomes
  <2>2. Pumped(Media)'
    BY <1>7, <2>1 DEF Pumped, Media
  <2>3. InFlight(c)'
    BY <1>1, <1>8, <1>10 DEF InFlight
  <2>4. QED
    BY <1>8, <2>2, <2>3 DEF QueuedHasPump
<1>11. QED
  BY <1>9, <1>10

LEMMA AddsPump ==
  ASSUME QuitInv, PlaceInv', adding \in [Calls -> Nat], NEW c \in Calls,
         AddBegins(c) \/ NameFound(c)
  PROVE  QuitInv' /\ adding' \in [Calls -> Nat]
<1>1. Len(Selection[c]) \in Nat /\ Selection[c] \in Seq(Images)
  BY MediaAssumption
<1>2. quit' = quit /\ quit \in {"no", "adding"}
  <2>1. AddBegins(c) => quit = "no"
    BY DEF AddBegins, Stopping
  <2>2. NameFound(c) => quit \in {"no", "adding"}
    BY DEF NameFound, QuitInv
  <2>3. QED
    BY <2>1, <2>2 DEF AddBegins, NameFound
<1>3. Pumped(Media)' /\ QueuedHasPump' /\ adding' \in [Calls -> Nat]
  <2>1. CASE AddBegins(c)
    <3>1. Sorted(Media) /\ Pumped(Media)
      BY DEF QuitInv, PlaceInv, Placed, Sorted
    <3>2. QED
      BY <1>1, <1>2, <2>1, <3>1, GoesPumps DEF AddBegins
  <2>2. CASE NameFound(c)
    <3> DEFINE j == Selection[c][adding[c]]
               longer == Append(jobs, j)
               st == [jobStatus EXCEPT ![j] = "queued"]
               M == [Media EXCEPT !.jobs = longer, !.status = st]
    <3>1. adding[c] \in 1..Len(Selection[c])
      BY <2>2 DEF NameFound, InFlight
    <3>2. j \in Images /\ adding[c] + 1 \in 1..(Len(Selection[c]) + 1)
      BY <1>1, <3>1
    <3>3. Goes(c, adding[c] + 1, M)
      BY <2>2 DEF NameFound, Media
    <3> HIDE DEF j
    <3>4. /\ longer \in Seq(Images) /\ st \in [Images -> Status]
          /\ st[j] = "queued" /\ \A k \in Images : k # j => st[k] = jobStatus[k]
      BY <3>2, QuitFacts DEF Status
    <3> HIDE DEF longer, st
    <3>5. /\ IsMedia(M) /\ M.jobs = longer /\ M.status = st
          /\ M.conversion = conversion
      BY DEF IsMedia, Media
    <3> HIDE DEF M
    <3>6. Sorted(M)
      BY <3>4, <3>5 DEF Sorted
    <3>7. Pumped(M)
      BY <3>4, <3>5, QuitFacts DEF Pumped
    <3>8. QED
      BY <1>2, <3>2, <3>3, <3>6, <3>7, GoesPumps
  <2>3. QED
    BY <2>1, <2>2
<1>4. QED
  BY <1>2, <1>3 DEF QuitInv, QuitLeavesNothing

LEMMA PumpBegins == MediaInit => QuitInv /\ AddingTyped
<1> SUFFICES ASSUME MediaInit PROVE QuitInv /\ AddingTyped
  OBVIOUS
<1>1. PlaceInv /\ jobStatus = [j \in Images |-> "none"] /\ jobs = <<>> /\ quit = "no"
  BY PlaceBegins DEF MediaInit
<1>2. Pumped(Media)
  BY <1>1 DEF Pumped, Media
<1>3. QueuedHasPump
  BY <1>1 DEF QueuedHasPump, ToSet
<1>4. QED
  BY <1>1, <1>2, <1>3 DEF QuitInv, QuitLeavesNothing, MediaInit, AddingTyped

LEMMA NextPumps ==
  ASSUME QuitInv, AddingTyped, [MediaNext]_mediaVars
  PROVE  QuitInv' /\ AddingTyped'
<1>1. PlaceInv'
  BY NextPlaces DEF QuitInv
<1>2. CASE StopsAllGoesOn \/ QuitEnds
  BY <1>1, <1>2, StopsPump, StopsQuieter DEF Quieter, AddingTyped
<1>3. CASE DrainBegins
  BY <1>1, <1>3, DrainPumps DEF DrainBegins, AddingTyped
<1>4. CASE ConversionGoesOn
  <2>1. adding' = adding
    BY <1>4 DEF ConversionGoesOn, Converts, Throws, OutputExists, Renamed, ConversionEnds
  <2>2. QED
    BY <1>1, <1>4, <2>1, ConversionPumps DEF AddingTyped
<1>5. CASE \E c \in Calls : AddBegins(c) \/ NameFound(c)
  BY <1>1, <1>5, AddsPump DEF AddingTyped
<1>6. CASE \/ \E j \in Images : CancelImage("person", j)
           \/ \E j \in Images, who \in Callers : CancelDeadline(who, j)
           \/ StopsAllImages \/ QuitBegins \/ QuitDeadline
  <2>1. "person" \in Callers
    BY DEF Callers
  <2>2. QED
    BY <1>1, <1>6, <2>1, StopsPump, StopsQuieter DEF Quieter, AddingTyped
<1>7. CASE UNCHANGED mediaVars
  BY <1>7 DEF mediaVars, QuitInv, PlaceInv, Placed, Busy, Media, IsMedia, Pumped, InFlight,
              Unsettled, QueuedHasPump, QuitLeavesNothing, AddingTyped
<1>8. QED
  BY <1>2, <1>3, <1>4, <1>5, <1>6, <1>7 DEF MediaNext, Continues

LEMMA QuitInvariant == MediaSpec => []QuitInv
BY PumpBegins, NextPumps, PTL DEF MediaSpec

(* A queued image has somebody who will take it (queue.ts, schedule(), the *)
(* end of addImageConversions() and shutdown()).                           *)
THEOREM QueuedIsPumped == MediaSpec => []QueuedHasPump
<1>1. QuitInv => QueuedHasPump
  BY DEF QuitInv
<1>2. QED
  BY <1>1, QuitInvariant, PTL

(* A quit that is over leaves nothing waiting or converting (queue.ts,     *)
(* shutdown() and discardAbandoned()).                                     *)
THEOREM QuitSettles == MediaSpec => []QuitLeavesNothing
<1>1. QuitInv => QuitLeavesNothing
  BY DEF QuitInv
<1>2. QED
  BY <1>1, QuitInvariant, PTL
=============================================================================
