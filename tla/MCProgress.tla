------------------------------ MODULE MCProgress ------------------------------
(***************************************************************************)
(* What must happen in the end, for TLC: a behaviour is one of a single    *)
(* component, chosen at the beginning, and the other stands still.         *)
(*   "images"  MediaActions: two additions, of three files                 *)
(*   "cards"   TranscriptionQueue: two cards, started once each, of which  *)
(*             a person may remove the first                               *)
(***************************************************************************)
EXTENDS MediaActions

CONSTANTS None, a, b, c, x, y, j1, j2

MCCalls     == {x, y}
MCImages    == {a, b, c}
MCSelection == [k \in MCCalls |-> IF k = x THEN <<a, b>> ELSE <<c>>]
MCAlready   == {}

VARIABLES component, list, status, lang, listening, probeQueue, walker, mode,
          run, asks, tools, model, doc, result, tries, cleanup, dirty, writing,
          disk, crashes

cardVars == <<list, status, lang, listening, probeQueue, walker, mode, run,
              asks, tools, model, doc, result, tries, cleanup, dirty, writing,
              disk, crashes>>

Cards == INSTANCE TranscriptionQueue
           WITH Jobs <- {j1, j2}, TeamJobs <- {}, MaxTries <- 1, MaxAsks <- 0,
                MaxCrashes <- 0, Persisting <- FALSE, CanWithdraw <- FALSE,
                CanLoseRestore <- FALSE

Init ==
  /\ component \in {"images", "cards"}
  /\ MediaInit /\ Cards!Init
  /\ component # "cards" => model = "present"

Next ==
  /\ UNCHANGED component
  /\ \/ component = "images" /\ MediaNext /\ UNCHANGED cardVars
     \/ /\ component = "cards" /\ Cards!Next /\ cleanup' \subseteq {j1}
        /\ UNCHANGED mediaVars

Spec ==
  /\ Init /\ [][Next]_<<component, mediaVars, cardVars>>
  /\ MediaFairness /\ Cards!Fairness

-----------------------------------------------------------------------------
(* A row of the transcription list that says it is being listened to is    *)
(* heard in the end, though every run puts the guesses off.                *)
ListeningIsHeard == Cards!ListeningIsHeard
=============================================================================
