-------------------------- MODULE TranscriptionQueue --------------------------
(***************************************************************************)
(* The transcription queue of the agent:                                   *)
(* apps/agent/src/queue/transcription-queue.ts, with the part of           *)
(* transcription-store.ts a restart goes through and the sidecar store of  *)
(* transcription/document-store.ts.                                        *)
(*                                                                         *)
(* Two activities share the machine: one run of whisper at a time, and one *)
(* few-second guess of a file's language at a time, which steps aside for  *)
(* a run.  A run awaits its own guess, whisper, and the save of the        *)
(* document; in every one of those waits a person may stop the card, start *)
(* it again, remove it, or name its language.                              *)
(***************************************************************************)
EXTENDS Filter, FiniteSets, SequencesExt

CONSTANTS Jobs,           \* files a person or a team operation adds
          TeamJobs,       \* those of a team operation: not in the person's list
          None,           \* no job
          MaxTries,       \* bound: how often one card is started
          MaxAsks,        \* bound: how often a language is asked for anew
          MaxCrashes,     \* bound: how often the agent dies
          Persisting,     \* is the list kept on disk in this instance?
          CanWithdraw,    \* may a tool, a model or a download go away?
          CanLoseRestore  \* may putting the previous document back fail?

ASSUME TranscriptionAssumption ==
  /\ TeamJobs \subseteq Jobs /\ None \notin Jobs
  /\ MaxTries \in Nat /\ MaxAsks \in Nat /\ MaxCrashes \in Nat
  /\ Persisting \in BOOLEAN
  /\ CanWithdraw \in BOOLEAN /\ CanLoseRestore \in BOOLEAN

VARIABLES
  list,         \* this.jobs, oldest first
  status,       \* of each job object, also of one that has left the list
  lang,         \* languageSource: who named the language of the file
  listening,    \* languageProbing: rows that say they are being listened to
  probeQueue,   \* files in line for a guess
  walker,       \* the file whose probe drainProbes() awaits
  mode,         \* that probe: "on", "stepping" aside for a run, "dropped"
  run,          \* the pass of pump() that holds inFlight
  asks,         \* how often a language was asked for anew
  tools,        \* ffmpeg and whisper are there
  model,        \* the speech model: "present", "downloading", "absent"
  doc,          \* the sidecar on disk: the number of the run it came from
  result,       \* history: the run whose transcript the file should have
  tries,        \* attemptId: which start of the card is the current one
  cleanup,      \* removed jobs whose sidecar is still to be deleted
  dirty,        \* the persist timer is armed
  writing,      \* the snapshot being written, or None
  disk,         \* the list on disk
  crashes

queueVars == <<list, status, lang, listening, probeQueue, walker, mode, run,
               tries, asks, tools, model>>
diskVars  == <<doc, result, cleanup, writing, disk, crashes>>
vars      == <<queueVars, diskVars, dirty>>

Statuses == {"analyzing", "ready", "queued", "processing", "completed",
             "failed", "cancelled", "interrupted"}

(* TRANSCRIPTION_LIFECYCLE.transitions                                     *)
Edges(s) ==
  CASE s = "analyzing"  -> {"ready"}
    [] s = "queued"     -> {"processing", "cancelled", "failed"}
    [] s = "processing" -> {"completed", "failed", "cancelled", "interrupted"}
    [] s \in Statuses \ {"analyzing", "queued", "processing"} -> {"queued"}
    [] OTHER            -> {}

(* transitionJob(): a refusal leaves the job as it was.                    *)
Moved(st, j, s) == IF s \in Edges(st[j]) THEN [st EXCEPT ![j] = s] ELSE st

Idle == [pc |-> "idle", job |-> None, try |-> 0, stopped |-> FALSE]

Snapshots == [list : Seq(Jobs),
              status : [Jobs -> Statuses \cup {"none", "gone"}],
              lang : [Jobs -> {"none", "probe", "run", "manual"}]]

TypeOK ==
  /\ list \in Seq(Jobs) /\ IsInjective(list)
  /\ status \in [Jobs -> Statuses \cup {"none", "gone"}]
  /\ lang \in [Jobs -> {"none", "probe", "run", "manual"}]
  /\ listening \subseteq Jobs
  /\ probeQueue \in Seq(Jobs) /\ IsInjective(probeQueue)
  /\ walker \in Jobs \cup {None} /\ mode \in {"on", "stepping", "dropped"}
  /\ run \in [pc : {"idle", "settling", "running", "saving", "renaming",
                    "restoring"},
              job : Jobs \cup {None}, try : 0..MaxTries, stopped : BOOLEAN]
  /\ (run.pc = "idle") = (run.job = None)
  /\ tools \in BOOLEAN /\ model \in {"present", "downloading", "absent"}
  /\ doc \in [Jobs -> 0..MaxTries] /\ result \in [Jobs -> 0..MaxTries]
  /\ tries \in [Jobs -> 0..MaxTries] /\ asks \in 0..MaxAsks
  /\ crashes \in 0..MaxCrashes
  /\ cleanup \subseteq Jobs
  /\ dirty \in BOOLEAN
  /\ disk \in Snapshots /\ writing \in Snapshots \cup {None}

-----------------------------------------------------------------------------
(* The handlers call each other synchronously: each is an operator on the  *)
(* record of what they share.                                              *)
Queue == [list |-> list, status |-> status, lang |-> lang,
          listening |-> listening, probeQueue |-> probeQueue,
          walker |-> walker, mode |-> mode, run |-> run, tries |-> tries,
          asks |-> asks, tools |-> tools, model |-> model]

Becomes(Q) ==
  \E R \in {Q} :
    /\ list' = R.list /\ status' = R.status /\ lang' = R.lang
    /\ listening' = R.listening /\ probeQueue' = R.probeQueue
    /\ walker' = R.walker /\ mode' = R.mode /\ run' = R.run
    /\ tries' = R.tries /\ asks' = R.asks
    /\ tools' = R.tools /\ model' = R.model

(* notify(): every frame but a progress one arms the persist timer.        *)
Notify == dirty' = Persisting

Listed(Q, j) == j \in ToSet(Q.list)

(* probeableStatus(), and what drainProbes() asks of the head of its line. *)
Probeable(s) == s \notin {"none", "analyzing", "queued", "processing"}
CanListen(Q, j) ==
  Listed(Q, j) /\ Probeable(Q.status[j]) /\ Q.lang[j] # "manual"

(* this.probing: the probe that has not been dropped.                      *)
Probing(Q) == IF Q.mode = "dropped" THEN None ELSE Q.walker

(* One turn of the loop of drainProbes(): it gives way to a run, passes    *)
(* over the files that no longer qualify, and starts the next probe.       *)
Drain(Q) ==
  LET line == Q.probeQueue
      fit  == {i \in DOMAIN line : CanListen(Q, line[i])}
      next == CHOOSE i \in fit : \A k \in fit : i <= k
      rest == [Q EXCEPT !.walker = None, !.mode = "on"]
  IN  IF Q.run.pc # "idle" THEN rest
      ELSE IF fit = {}
           THEN [rest EXCEPT !.probeQueue = <<>>,
                             !.listening = @ \ ToSet(line)]
           ELSE [rest EXCEPT
                   !.walker = line[next],
                   !.probeQueue = SubSeq(line, next + 1, Len(line)),
                   !.listening = @ \ {line[i] : i \in 1..(next - 1)}]

(* pumpProbes(): one walker only.                                          *)
PumpProbes(Q) == IF Q.walker # None THEN Q ELSE Drain(Q)

(* scheduleLanguageProbe(); the settings leave the language to the probe.  *)
Schedule(Q, j) ==
  IF /\ Q.tools /\ Q.model = "present"
     /\ Q.lang[j] # "manual" /\ Probeable(Q.status[j])
     /\ j \notin ToSet(Q.probeQueue) /\ Probing(Q) # j
  THEN PumpProbes([Q EXCEPT !.listening = @ \cup {j},
                            !.probeQueue = Append(@, j)])
  ELSE Q

(* resumeLanguageProbes()                                                  *)
Unheard(Q) ==
  Only(Q.list, {j \in Jobs : /\ Q.status[j] = "ready" /\ Q.lang[j] = "none"
                             /\ j \notin ToSet(Q.probeQueue)
                             /\ Probing(Q) # j})
Resume(Q) ==
  LET offered == Unheard(Q)
  IN  IF Q.tools /\ Q.model = "present" /\ offered # <<>>
      THEN PumpProbes([Q EXCEPT !.listening = @ \cup ToSet(offered),
                                !.probeQueue = @ \o offered])
      ELSE Q

Without(line, S) == Only(line, Jobs \ S)

(* cancelLanguageProbe(), for each of a set of files                       *)
StopProbingShowing(Q, S) ==                                  \* mutant
  [Q EXCEPT !.probeQueue = Without(@, S),
            !.mode = IF Probing(Q) \in S THEN "dropped" ELSE @]
StopProbing(Q, S) ==
  [Q EXCEPT !.probeQueue = Without(@, S),
            !.mode = IF Probing(Q) \in S THEN "dropped" ELSE @,
            !.listening = @ \ S]

(* settleLanguageProbe(): another file's probe is put back in line.        *)
Settle(Q, j) ==
  LET other == Probing(Q) IN
  IF other \in {None, j} THEN Q
  ELSE [Q EXCEPT !.mode = "stepping",
                 !.probeQueue = IF other \in ToSet(@) THEN @
                                ELSE <<other>> \o @]

(* The line of pump() after the wait for the probe: transitionJob() is     *)
(* asked, and whisper starts whatever it answered.                         *)
Begin(Q, j) ==
  [Q EXCEPT !.status = Moved(@, j, "processing"),
            !.run = [pc |-> "running", job |-> j, try |-> Q.tries[j],
                     stopped |-> FALSE]]

(* pump(): the first queued card of the list.  Without the model, and with *)
(* none on its way, that card fails and the next is tried; the wait for    *)
(* the probe is a real one only when the file's own is running.            *)
Waiting(Q) == Only(Q.list, {j \in Jobs : Q.status[j] = "queued"})
Pump(Q) ==
  LET queued == Waiting(Q)
      j      == Head(queued)
      S      == Settle(Q, j)
  IN  IF Q.run.pc # "idle" \/ ~Q.tools \/ queued = <<>> THEN Q
      ELSE IF Q.model = "downloading" THEN Q
      ELSE IF Q.model = "absent"
           THEN [Q EXCEPT !.status =
                   [k \in Jobs |-> IF k \in ToSet(queued) THEN "failed"
                                   ELSE @[k]]]
      ELSE IF Probing(Q) = j
           THEN [S EXCEPT !.run = [pc |-> "settling", job |-> j,
                                   try |-> Q.tries[j], stopped |-> FALSE]]
           ELSE Begin(S, j)

Init ==
  /\ list = <<>> /\ status = [j \in Jobs |-> "none"]
  /\ lang = [j \in Jobs |-> "none"] /\ listening = {} /\ probeQueue = <<>>
  /\ walker = None /\ mode = "on" /\ run = Idle
  /\ tries = [j \in Jobs |-> 0] /\ asks = 0
  /\ tools = TRUE /\ model \in {"present", "absent"}
  /\ doc = [j \in Jobs |-> 0] /\ result = doc /\ cleanup = {}
  /\ dirty = FALSE /\ writing = None /\ crashes = 0
  /\ disk = [list |-> <<>>, status |-> status, lang |-> lang]

-----------------------------------------------------------------------------
(* What a person or a team operation asks for.                             *)

(* addOne() up to the duration probe, and after it.                        *)
Add(j) ==
  /\ status[j] = "none"
  /\ list' = Append(list, j)
  /\ status' = [status EXCEPT ![j] = "analyzing"]
  /\ Notify
  /\ UNCHANGED <<lang, listening, probeQueue, walker, mode, run, tries, asks,
                 tools, model, diskVars>>

Analyzed(j) ==
  /\ Listed(Queue, j) /\ status[j] = "analyzing"
  /\ Becomes(Schedule([Queue EXCEPT !.status = Moved(@, j, "ready")], j))
  /\ Notify /\ UNCHANGED diskVars

(* start(), which retry() calls for one card.                              *)
Startable == {j \in ToSet(list) : "queued" \in Edges(status[j])}

Start(S) ==
  /\ S # {} /\ S \subseteq Startable
  /\ \A j \in S : tries[j] < MaxTries
  /\ Becomes(Pump([Queue EXCEPT
       !.status = [j \in Jobs |-> IF j \in S THEN "queued" ELSE @[j]],
       !.tries  = [j \in Jobs |-> IF j \in S THEN @[j] + 1 ELSE @[j]],
       !.lang   = [j \in Jobs |-> IF j \in S /\ @[j] = "run" THEN "none"
                                  ELSE @[j]]]))
  /\ Notify /\ UNCHANGED diskVars

(* cancelJob() for each of a set of cards; active.cancel() reaches         *)
(* whatever whisper is running.                                            *)
StopCardsBlindly(Q, S) ==                                    \* mutant
  [StopProbing(Q, S) EXCEPT
     !.status = [j \in Jobs |-> IF j \in S THEN Moved(@, j, "cancelled")[j]
                                ELSE @[j]],
     !.run.stopped = @ \/ Q.run.pc = "running"]
StopCards(Q, S) ==
  [StopProbing(Q, S) EXCEPT
     !.status = [j \in Jobs |-> IF j \in S THEN Moved(@, j, "cancelled")[j]
                                ELSE @[j]],
     !.run.stopped = @ \/ /\ Q.run.pc = "running"
                          /\ \E j \in S : Q.status[j] = "processing"]

Cancel(j) ==
  /\ Listed(Queue, j) /\ status[j] \in {"queued", "processing"}
  /\ Becomes(StopCards(Queue, {j}))
  /\ Notify /\ UNCHANGED diskVars

(* cancelAll(): the person's queued cards, then the running one.           *)
CancelAll ==
  LET S == {j \in Jobs \ TeamJobs :
              Listed(Queue, j) /\ status[j] \in {"queued", "processing"}}
  IN  /\ S # {}
      /\ Becomes(StopCards(Queue, S))
      /\ Notify /\ UNCHANGED diskVars

(* remove(), removeMany() and clearCompleted(): the cards leave the list   *)
(* at once, their sidecars later.                                          *)
RemoveAll(S) ==
  /\ S # {}
  /\ Becomes([StopProbing(Queue, S) EXCEPT
                 !.list = Without(@, S)])
  /\ cleanup' = cleanup \cup S
  /\ UNCHANGED <<doc, result, writing, disk, crashes, dirty>>

RemoveCard(j) ==
  Listed(Queue, j) /\ status[j] # "processing" /\ RemoveAll({j})

ClearCompleted ==
  RemoveAll({j \in ToSet(list) :
               status[j] \in {"completed", "failed", "cancelled"}})

(* cleanupSource(), under the document lock of the job; then notify().     *)
Saving(j) == run.job = j /\ run.pc \in {"saving", "renaming", "restoring"}

Cleaned(j) ==
  /\ j \in cleanup /\ ~Saving(j)
  /\ doc' = [doc EXCEPT ![j] = 0] /\ result' = [result EXCEPT ![j] = 0]
  /\ cleanup' = cleanup \ {j}
  /\ Notify
  /\ UNCHANGED <<queueVars, writing, disk, crashes>>

(* setJobLanguage(): a person's own answer, or the question asked again.   *)
NameLanguage(j) ==
  /\ Listed(Queue, j)
  /\ Becomes([StopProbing(Queue, {j}) EXCEPT !.lang[j] = "manual"])
  /\ Notify /\ UNCHANGED diskVars

AskLanguage(j) ==
  /\ Listed(Queue, j) /\ asks < MaxAsks
  /\ Becomes(Schedule([StopProbing(Queue, {j}) EXCEPT
                         !.lang[j] = "none", !.asks = @ + 1], j))
  /\ Notify /\ UNCHANGED diskVars

-----------------------------------------------------------------------------
(* The guess of the language.                                              *)

(* applyProbeResult(), of a fragment and of the whole probe.               *)
ApplyOver(l, j, heard) ==                                    \* mutant
  [l EXCEPT ![j] = IF heard THEN "probe" ELSE @]
Apply(l, j, heard) ==
  [l EXCEPT ![j] = IF heard /\ @ \in {"none", "probe"} THEN "probe" ELSE @]

Fragment ==
  /\ walker # None /\ Listed(Queue, walker) /\ lang[walker] = "none"
  /\ lang' = Apply(lang, walker, TRUE)
  /\ Notify
  /\ UNCHANGED <<list, status, listening, probeQueue, walker, mode, run, tries,
                 asks, tools, model, diskVars>>

(* The end of the probe drainProbes() awaits.  A file put back in line     *)
(* keeps its row as it is; any other stops listening.                      *)
ProbeEnds ==
  /\ walker # None
  /\ IF walker \in ToSet(probeQueue) \/ ~Listed(Queue, walker)
     THEN Becomes(Drain(Queue)) /\ UNCHANGED dirty
     ELSE /\ \E heard \in BOOLEAN :
               Becomes(Drain([Queue EXCEPT
                 !.listening = @ \ {walker},
                 !.lang = Apply(@, walker, heard)]))
          /\ Notify
  /\ UNCHANGED diskVars

-----------------------------------------------------------------------------
(* The run.                                                                *)

(* The wait for the file's own probe ends: it answered, or its 20 seconds  *)
(* are over.                                                               *)
SettleEnds ==
  /\ run.pc = "settling"
  /\ Becomes(Begin(Queue, run.job))
  /\ Notify /\ UNCHANGED diskVars

(* onLanguage()                                                            *)
RunHears ==
  /\ run.pc = "running" /\ status[run.job] = "processing"
  /\ lang[run.job] \notin {"manual", "run"}
  /\ lang' = [lang EXCEPT ![run.job] = "run"]
  /\ Notify
  /\ UNCHANGED <<list, status, listening, probeQueue, walker, mode, run, tries,
                 asks, tools, model, diskVars>>

(* The finally of pump(): the machine is free, the next card and then the  *)
(* probes that stepped aside are looked at.                                *)
FinishForgetting(Q) == Pump([Q EXCEPT !.run = Idle])         \* mutant
Finish(Q) == PumpProbes(Pump([Q EXCEPT !.run = Idle]))

(* whisper ends without a transcript: stopped, or broken.                  *)
RunStops ==
  /\ run.pc = "running"
  /\ run.stopped \/ status[run.job] = "cancelled"
  /\ Becomes(Finish([Queue EXCEPT !.status = Moved(@, run.job, "cancelled")]))
  /\ Notify /\ UNCHANGED diskVars

RunFails ==
  /\ run.pc = "running" /\ status[run.job] # "cancelled"
  /\ Becomes(Finish([Queue EXCEPT !.status = Moved(@, run.job, "failed")]))
  /\ Notify /\ UNCHANGED diskVars

(* whisper ends with a transcript, and perhaps with the language it heard; *)
(* the save waits its turn in the lock.                                    *)
RunSpeaks ==
  /\ run.pc = "running" /\ status[run.job] # "cancelled"
  /\ run.job \notin cleanup
  /\ run' = [run EXCEPT !.pc = "saving"]
  /\ \E heard \in BOOLEAN :
       lang' = [lang EXCEPT ![run.job] = IF ~heard \/ @ \in {"manual", "probe"} THEN @
                                         ELSE "run"]
  /\ Notify
  /\ UNCHANGED <<list, status, listening, probeQueue, walker, mode, tries,
                 asks, tools, model, diskVars>>

(* TranscriptionDocumentStore.save(): the temporary file is written, and   *)
(* replaces the document only while the card is still being transcribed.   *)
WriteEnds ==
  /\ run.pc = "saving"
  /\ run' = [run EXCEPT !.pc = IF status[run.job] = "processing"
                               THEN "renaming" ELSE "restoring"]
  /\ UNCHANGED <<list, status, lang, listening, probeQueue, walker, mode,
                 tries, asks, tools, model, diskVars, dirty>>

(* The document has been replaced: the card is completed, unless a stop    *)
(* arrived during the rename.                                              *)
RenameEnds ==
  /\ run.pc = "renaming"
  /\ doc' = [doc EXCEPT ![run.job] = run.try]
  /\ IF "completed" \in Edges(status[run.job])
     THEN /\ Becomes(Finish([Queue EXCEPT
                               !.status = Moved(@, run.job, "completed")]))
          /\ result' = [result EXCEPT ![run.job] = run.try]
          /\ Notify
     ELSE /\ Becomes([Queue EXCEPT !.run.pc = "restoring"])
          /\ UNCHANGED <<result, dirty>>
  /\ UNCHANGED <<cleanup, writing, disk, crashes>>

(* The previous document is put back, or removed when there was none.      *)
RestoreNothing ==                                            \* mutant
  /\ run.pc = "restoring"
  /\ Becomes(Finish(Queue))
  /\ Notify
  /\ UNCHANGED diskVars
RestoreEnds ==
  /\ run.pc = "restoring"
  /\ doc' = [doc EXCEPT ![run.job] = result[run.job]]
  /\ Becomes(Finish(Queue))
  /\ Notify
  /\ UNCHANGED <<result, cleanup, writing, disk, crashes>>

(* The disk refuses a write: the save leaves the document alone, the       *)
(* restore leaves the new one.                                             *)
SaveFailsQuietly ==                                          \* mutant
  /\ \/ run.pc \in {"saving", "renaming"}
     \/ run.pc = "restoring" /\ CanLoseRestore
  /\ Becomes(Finish(Queue))
  /\ Notify /\ UNCHANGED diskVars
SaveFails ==
  /\ \/ run.pc \in {"saving", "renaming"}
     \/ run.pc = "restoring" /\ CanLoseRestore
  /\ Becomes(Finish([Queue EXCEPT !.status = Moved(@, run.job, "failed")]))
  /\ Notify /\ UNCHANGED diskVars

-----------------------------------------------------------------------------
(* The tools and the model come and go.                                    *)
Quietly(Q) == Becomes(Q) /\ Notify /\ UNCHANGED diskVars

(* setToolAvailability()                                                   *)
ToolsChange ==
  CanWithdraw /\ Quietly(Resume([Queue EXCEPT !.tools = ~@]))

(* The model file is deleted from the disk.                                *)
ModelGoes ==
  /\ CanWithdraw /\ model = "present" /\ model' = "absent"
  /\ UNCHANGED <<list, status, lang, listening, probeQueue, walker, mode, run,
                 tries, asks, tools, diskVars, dirty>>

Download == model = "absent" /\ Quietly([Queue EXCEPT !.model = "downloading"])

(* ModelDownloader's onComplete.                                           *)
DownloadEnds ==
  /\ model = "downloading"
  /\ Quietly(Resume(Pump([Queue EXCEPT !.model = "present"])))

(* Cancelled, or given up: the downloader only notifies.                   *)
DownloadFails ==
  /\ CanWithdraw /\ model = "downloading"
  /\ Quietly([Queue EXCEPT !.model = "absent"])

-----------------------------------------------------------------------------
(* The list on disk (index.ts, transcription-store.ts).  Saves are         *)
(* coalesced by a timer, chained one after another, and atomic.            *)

(* persisted(): the person's cards, in their order.                        *)
Persisted ==
  LET mine == Without(list, TeamJobs)
  IN  [list   |-> mine,
       status |-> [j \in Jobs |-> IF j \in ToSet(mine) THEN status[j]
                                  ELSE "none"],
       lang   |-> [j \in Jobs |-> IF j \in ToSet(mine) THEN lang[j]
                                  ELSE "none"]]

PersistBegins ==
  /\ dirty /\ writing = None
  /\ writing' = Persisted /\ dirty' = FALSE
  /\ UNCHANGED <<queueVars, doc, result, cleanup, disk, crashes>>

PersistEndsClearing ==                                       \* mutant
  /\ writing # None
  /\ disk' = writing /\ writing' = None /\ dirty' = FALSE
  /\ UNCHANGED <<queueVars, doc, result, cleanup, crashes>>
PersistEnds ==
  /\ writing # None
  /\ disk' = writing /\ writing' = None
  /\ UNCHANGED <<queueVars, doc, result, cleanup, dirty, crashes>>

(* migrateJob(), and the check of loadTranscriptionState() that a          *)
(* completed card has its document.  A run cut short comes back            *)
(* interrupted; nothing comes back queued.                                 *)
Migrated(s, d) ==
  CASE s = "processing"             -> "interrupted"
    [] s \in {"queued", "analyzing"} -> "ready"
    [] s = "completed" /\ d = 0      -> "failed"
    [] OTHER                         -> s

Restored(snap, docs) == [snap EXCEPT !.status =
                           [j \in Jobs |-> Migrated(@[j], docs[j])]]

(* The agent dies and starts again: the restored list, and the probes of   *)
(* the files nobody has listened to.  A rename under way has landed or     *)
(* not; what it, or a restore that never came, left is the file's document *)
(* from now on.                                                            *)
Restart ==
  /\ crashes < MaxCrashes /\ crashes' = crashes + 1
  /\ \/ doc' = doc
     \/ run.pc = "renaming" /\ doc' = [doc EXCEPT ![run.job] = run.try]
  /\ result' = [j \in Jobs |-> IF run.job = j /\ run.pc \in {"renaming", "restoring"}
                               THEN doc'[j] ELSE result[j]]
  /\ LET back == Restored(disk, doc')
     IN  Becomes(Resume([Queue EXCEPT
           !.list = back.list, !.lang = back.lang,
           !.status = [j \in Jobs |->
             IF j \in ToSet(back.list) THEN back.status[j]
             ELSE IF status[j] = "none" THEN "none" ELSE "gone"],
           !.listening = {}, !.probeQueue = <<>>, !.walker = None,
           !.mode = "on", !.run = Idle,
           !.model = IF @ = "downloading" THEN "absent" ELSE @]))
  /\ cleanup' = {} /\ writing' = None /\ dirty' = FALSE
  /\ UNCHANGED disk

-----------------------------------------------------------------------------
Asked ==
  \/ \E j \in Jobs : Add(j) \/ Cancel(j) \/ RemoveCard(j)
                     \/ NameLanguage(j) \/ AskLanguage(j)
  \/ \E S \in SUBSET Jobs : Start(S)
  \/ CancelAll \/ ClearCompleted

RunGoesOn ==
  \/ SettleEnds \/ RunStops \/ RunFails \/ RunSpeaks
  \/ WriteEnds \/ RenameEnds \/ RestoreEnds \/ SaveFails

Environment ==
  ToolsChange \/ ModelGoes \/ Download \/ DownloadEnds \/ DownloadFails

Next ==
  \/ Asked \/ RunGoesOn \/ RunHears \/ Environment
  \/ \E j \in Jobs : Analyzed(j) \/ Cleaned(j)
  \/ Fragment \/ ProbeEnds
  \/ PersistBegins \/ PersistEnds \/ Restart

Spec == Init /\ [][Next]_vars

(* What the event loop owes: processes end, files are read and written.    *)
Fairness ==
  /\ WF_vars(RunGoesOn) /\ WF_vars(ProbeEnds)
  /\ WF_vars(DownloadEnds \/ DownloadFails)
  /\ WF_vars(\E j \in Jobs : Analyzed(j)) /\ WF_vars(\E j \in Jobs : Cleaned(j))

FairSpec == Spec /\ Fairness

-----------------------------------------------------------------------------
(* A card that says it is being transcribed is the card of the run that    *)
(* holds the machine, past the wait for its probe: pump() sets the status  *)
(* once and four different waits later somebody must have unset it.        *)
ProcessingIsTheRun ==
  \A j \in Jobs : status[j] = "processing" =>
    run.job = j /\ run.pc \in {"running", "saving", "renaming"}

(* Outside a save the document on disk is that of the last run that        *)
(* completed: however stops, new starts, removals and failed writes fall   *)
(* into a save, a run that did not complete leaves the transcript a person *)
(* had, and a completed card has one.  A death of the agent disturbs only  *)
(* the document that was being replaced.                                   *)
DocumentKept ==
  \A j \in ToSet(list) :
    /\ Saving(j) \/ doc[j] = result[j]
    /\ status[j] = "completed" => doc[j] # 0

(* A row that says it is being listened to is in line or is being heard:   *)
(* cancelLanguageProbe(), settleLanguageProbe() and drainProbes() each move*)
(* the file and the flag separately.  And the line is served: drainProbes()*)
(* leaves a line behind only for a run, and every run's end comes back.    *)
ListeningIsInLine ==
  /\ \A j \in listening :
       j \in ToSet(probeQueue) \/ (walker = j /\ mode = "on")
  /\ probeQueue # <<>> => walker # None \/ run.pc # "idle"

(* With the tools there, a queued card has a run to wait for, or a         *)
(* download: whatever stops, fails, is removed or starts again, nobody     *)
(* forgets to call pump().  setToolAvailability() and a download that ends *)
(* without a model do not call it.                                         *)
QueuedHasRun ==
  tools /\ (\E j \in ToSet(list) : status[j] = "queued") =>
    run.pc # "idle" \/ model = "downloading"

(* With nothing on its way to the disk, a restart would bring back what    *)
(* the list says now: every handler that changes a card arms the save.     *)
SavedIsCurrent ==
  ~dirty /\ writing = None /\ cleanup = {} =>
    Restored(disk, doc) = Restored(Persisted, doc)

(* A person's answer about the language is replaced only by a person who   *)
(* asks again, or lost with a process that died before saving it.          *)
ManualKept ==
  [][\A j \in Jobs : lang[j] = "manual" /\ lang'[j] # "manual" =>
       AskLanguage(j) \/ crashes' # crashes]_vars

(* active.cancel() is not told which card it is for: it stops the whisper  *)
(* of a card only when that card was being transcribed and is stopped.     *)
StopHitsItsRun ==
  [][~run.stopped /\ run'.stopped =>
       status[run.job] = "processing" /\ status'[run.job] = "cancelled"]_vars

(* A row that says it is being listened to is heard in the end, though     *)
(* every run puts the probes off and settleLanguageProbe() sends the one   *)
(* that was going back in line.                                            *)
ListeningIsHeard ==
  \A j \in Jobs :
    (j \in listening) ~> (j \notin listening \/ (walker = j /\ mode = "on"))

(* A queued card that can neither run nor fail does not stay queued: with  *)
(* the tools there and no model coming, pump() fails it.  A retry during a *)
(* download, and then the end of the download without a model, leave it.   *)
QueuedNotStranded ==
  \A j \in Jobs :
    (Listed(Queue, j) /\ status[j] = "queued" /\ tools /\ model = "absent") ~>
      ~(Listed(Queue, j) /\ status[j] = "queued")
=============================================================================
