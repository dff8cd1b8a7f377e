------------------------------ MODULE JobCards ------------------------------
(***************************************************************************)
(* What the compressor promises the interface about its list: cards come   *)
(* and go, and the status of a card moves only along the declared edges.   *)
(* This is all a person can see of the queue; CompressorQueue implements   *)
(* it (property CardsRefinement there).                                    *)
(***************************************************************************)
EXTENDS JobLifecycle

CONSTANT Jobs       \* the cards the list may hold

VARIABLE card       \* the status of every card, "absent" when not listed

CardsInit == card = [j \in Jobs |-> "absent"]

(* A card enters the list being analysed.                                  *)
Appear(from, to) == from = "absent" /\ to = "analyzing"

(* A card with nothing left to stop leaves it.                             *)
Disappear(from, to) == from \in Status \ Stoppable /\ to = "absent"

(* Stopping a queued repeat gives the finished card back in one step.      *)
HandBack(from, to) == from = "queued" /\ to = "completed"

CardMove(from, to) ==
  \/ from = to
  \/ from \in Status /\ to \in Edges(from)
  \/ Appear(from, to)
  \/ Disappear(from, to)
  \/ HandBack(from, to)

CardsNext == /\ card' \in [Jobs -> Status \cup {"absent"}]
             /\ \A j \in Jobs : CardMove(card[j], card'[j])

CardsSpec == CardsInit /\ [][CardsNext]_card
=============================================================================
