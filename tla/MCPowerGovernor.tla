--------------------------- MODULE MCPowerGovernor ---------------------------
(***************************************************************************)
(* PowerGovernor for TLC, twice: a behaviour is of one instance.           *)
(*   "children"  two children come and go, and one window sets the limit,  *)
(*               with saves that succeed                                   *)
(*   "windows"   no child, and two windows set the limit at once, with     *)
(*               writes and renames that fail                              *)
(***************************************************************************)
EXTENDS PowerGovernor, TLC

CONSTANTS c1, c2, k1, t1, w1, w2

MCChildren == {c1, c2}
MCKids     == {k1}
MCHolders  == {t1}
MCWindows  == {w1, w2}
MCLimits   == {50, 100}

VARIABLE instance

MCInit == Init /\ instance \in {"children", "windows"}

MCNext ==
  /\ Next /\ UNCHANGED instance
  /\ \/ /\ instance = "children"
        /\ call'[w2] = "idle" /\ call'[w1] # "unlink"
     \/ instance = "windows" /\ children' = {}

MCSpec == MCInit /\ [][MCNext]_<<instance, vars>> /\ WF_vars(Tick)
=============================================================================
