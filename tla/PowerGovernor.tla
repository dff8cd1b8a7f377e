---------------------------- MODULE PowerGovernor ----------------------------
(***************************************************************************)
(* The power governor: PowerGovernor in apps/agent/src/power/governor.ts.  *)
(*                                                                         *)
(* It is the only part of the agent that stops a process.  Two things      *)
(* stop a managed child: a hold that some tool took, and the duty cycle    *)
(* that keeps all children under the power limit.  Whatever stops one, it  *)
(* must run again: when the hold is released, when the cycle turns, when   *)
(* the limit is lifted, when it is to receive a signal.                    *)
(***************************************************************************)
EXTENDS PowerLimit, FiniteSets

CONSTANTS Children,    \* processes the tools spawn
          Kids,        \* processes those fan out to
          Holders,     \* tools that hold a child
          CanLose      \* may the means of suspending give up (Windows)?

ASSUME GovernorAssumption == CanLose \in BOOLEAN

VARIABLES
  \* the managed children and, of them, those whose process has exited and
  \* whose close event has not come yet
  children, gone,
  \* <<child, kid>>: the tree as last walked, and the kids stopped with it
  tree, frozen,
  suspended,             \* children whose own process is stopped
  \* <<child, holder>>: the holds, and the release functions not yet called
  holds, tokens,
  \* children pinned for a termination, and those whose pin is past its time
  terminating, lapsed,
  cycle,                 \* the duty cycle: none, or its on- or off-window
  support                \* the means of suspending works

govVars == <<children, gone, tree, frozen, suspended, holds, tokens,
             terminating, lapsed, cycle, support>>
vars    == <<govVars, limitVars>>

TypeOK ==
  /\ LimitTypeOK
  /\ children \subseteq Children
  /\ gone \subseteq children
  /\ suspended \subseteq children
  /\ tree \subseteq children \X Kids
  /\ frozen \subseteq children \X Kids
  /\ holds \subseteq (children \X Holders) \cap tokens
  /\ tokens \subseteq Children \X Holders
  /\ terminating \subseteq children
  /\ lapsed \subseteq terminating
  /\ cycle \in {"none", "on", "off"}
  /\ support \in BOOLEAN

Init ==
  /\ LimitInit
  /\ children = {} /\ gone = {} /\ suspended = {}
  /\ tree = {} /\ frozen = {} /\ holds = {} /\ tokens = {}
  /\ terminating = {} /\ lapsed = {}
  /\ cycle = "none" /\ support = TRUE

-----------------------------------------------------------------------------
(* A handler calls several methods in a row: each is an operator from      *)
(* governor records to governor records.                                   *)
Governor == [children |-> children, gone |-> gone, tree |-> tree,
             frozen |-> frozen, suspended |-> suspended, holds |-> holds,
             terminating |-> terminating, lapsed |-> lapsed,
             cycle |-> cycle, support |-> support, limit |-> limit]

Becomes(G) ==
  /\ children' = G.children /\ gone' = G.gone /\ tree' = G.tree
  /\ frozen' = G.frozen /\ suspended' = G.suspended /\ holds' = G.holds
  /\ terminating' = G.terminating /\ lapsed' = G.lapsed
  /\ cycle' = G.cycle /\ support' = G.support

Owners(pairs) == {p[1] : p \in pairs}

(* isStopped(): the child or any kid of it is stopped on our account.      *)
Stopped(G) == G.suspended \cup Owners(G.frozen)

(* The stopped children that no tool holds.                                *)
FreedOrHeld(G) == Stopped(G)                                 \* mutant
Freed(G) == Stopped(G) \ Owners(G.holds)

Resume(G, R) ==
  [G EXCEPT !.suspended = @ \ R, !.frozen = {p \in @ : p[1] \notin R}]

(* suspend(): never a child being terminated; a process that has exited    *)
(* cannot be stopped any more, its kids can.                               *)
SuspendAnyway(G, R) ==                                       \* mutant
  IF ~G.support THEN G
  ELSE [G EXCEPT !.suspended = @ \cup (R \ G.gone),
                 !.frozen = @ \cup {p \in G.tree : p[1] \in R}]
Suspend(G, R) ==
  LET S == R \ G.terminating
  IN  IF ~G.support THEN G
      ELSE [G EXCEPT !.suspended = @ \cup (S \ G.gone),
                     !.frozen = @ \cup {p \in G.tree : p[1] \in S}]

(* expireTerminationPins()                                                 *)
ExpireNever(G) == G                                          \* mutant
Expire(G) == [G EXCEPT !.terminating = @ \ G.lapsed, !.lapsed = {}]

ShouldCycle(G) == G.limit # Full /\ G.support /\ G.children # {}

(* The start of an on-window: resumeAll().                                 *)
OpenWindowIdly(G) == [G EXCEPT !.cycle = "on"]               \* mutant
OpenWindow(G) == [Resume(G, Freed(G) \ G.terminating) EXCEPT !.cycle = "on"]

RetuneKeeping(G) ==                                          \* mutant
  LET E == Expire(G) IN
  IF ~ShouldCycle(E) THEN [E EXCEPT !.cycle = "none"]
  ELSE IF E.cycle = "none" THEN OpenWindow(E)
  ELSE E
Retune(G) ==
  LET E == Expire(G) IN
  IF ~ShouldCycle(E) THEN [Resume(E, Freed(E)) EXCEPT !.cycle = "none"]
  ELSE IF E.cycle = "none" THEN OpenWindow(E)
  ELSE E

-----------------------------------------------------------------------------
(* A child comes and goes.  A process of the model is used again when no   *)
(* release function refers to its former life.                             *)
Register(c) ==
  /\ c \notin children /\ c \notin Owners(tokens)
  /\ Becomes(Retune([Governor EXCEPT !.children = @ \cup {c}]))
  /\ UNCHANGED <<tokens, limitVars>>

Exit(c) ==
  /\ c \in children \ gone
  /\ gone' = gone \cup {c}
  /\ UNCHANGED <<children, tree, frozen, suspended, holds, tokens,
                 terminating, lapsed, cycle, support, limitVars>>

(* The close event: resumed first, then forgotten.                         *)
Forgotten(G, c) ==
  [G EXCEPT !.children = @ \ {c}, !.gone = @ \ {c},
            !.tree = {p \in @ : p[1] # c}, !.holds = {h \in @ : h[1] # c},
            !.terminating = @ \ {c}, !.lapsed = @ \ {c}]
Release(c) ==
  /\ c \in gone
  /\ Becomes(Retune(Forgotten(Resume(Governor, {c}), c)))
  /\ UNCHANGED <<tokens, limitVars>>

(* hold(), and the function it returns.                                    *)
Hold(c, t) ==
  LET H == [Governor EXCEPT !.holds = @ \cup {<<c, t>>}] IN
  /\ c \in children /\ <<c, t>> \notin tokens
  /\ Becomes(IF c \in terminating \cup suspended THEN H ELSE Suspend(H, {c}))
  /\ tokens' = tokens \cup {<<c, t>>}
  /\ UNCHANGED limitVars

Unhold(c, t) ==
  LET H == [Governor EXCEPT !.holds = @ \ {<<c, t>>}] IN
  /\ <<c, t>> \in tokens
  /\ Becomes(IF c \notin Owners(H.holds) /\ c \in suspended /\ limit = Full
             THEN Resume(H, {c}) ELSE H)
  /\ tokens' = tokens \ {<<c, t>>}
  /\ UNCHANGED limitVars

(* resumeForTermination(): before every signal that should end a child.    *)
Terminate(c) ==
  /\ c \in children
  /\ Becomes(Resume([Governor EXCEPT !.terminating = @ \cup {c}, !.lapsed = @ \ {c},
                                     !.holds = {h \in @ : h[1] # c}], {c}))
  /\ UNCHANGED <<tokens, limitVars>>

(* Ten seconds later the pin is past its time, though nobody has noticed.  *)
PinLapses(c) ==
  /\ c \in terminating \ lapsed
  /\ lapsed' = lapsed \cup {c}
  /\ UNCHANGED <<children, gone, tree, frozen, suspended, holds, tokens,
                 terminating, cycle, support, limitVars>>

(* The timer of the duty cycle: suspendAll(), or the next on-window.       *)
Tick ==
  /\ cycle # "none"
  /\ Becomes(IF cycle = "on"
             THEN [Suspend(Expire(Governor), children) EXCEPT !.cycle = "off"]
             ELSE OpenWindow(Governor))
  /\ UNCHANGED <<tokens, limitVars>>

(* refreshTree() and setDescendants(): new kids of a stopped child stop.   *)
SetTree(G, c, K) == [G EXCEPT !.tree = {p \in @ : p[1] # c} \cup ({c} \X K)]
AdoptNobody(c, K) ==                                         \* mutant
  /\ c \in children /\ Becomes(SetTree(Governor, c, K))
  /\ UNCHANGED <<tokens, limitVars>>
Adopt(c, K) ==
  LET T == SetTree(Governor, c, K) IN
  /\ c \in children
  /\ Becomes(IF c \in suspended \ terminating /\ support
             THEN [T EXCEPT !.frozen = @ \cup ({c} \X K)] ELSE T)
  /\ UNCHANGED <<tokens, limitVars>>

(* The rest of setLimit().                                                 *)
ApplyLimit(w) ==
  /\ Saved(w)
  /\ Becomes(Retune([Governor EXCEPT !.limit = want[w]]))
  /\ UNCHANGED tokens

(* refreshPauseSupport(): the means of suspending gives up for the session.*)
LoseSupport ==
  /\ CanLose /\ support
  /\ Becomes(Retune([Governor EXCEPT !.support = FALSE]))
  /\ UNCHANGED <<tokens, limitVars>>

(* wake(): the cycle is rebuilt from a known point.                        *)
Wake ==
  /\ children # {}
  /\ Becomes(Retune([Resume(Governor, Freed(Governor)) EXCEPT !.cycle = "none"]))
  /\ UNCHANGED <<tokens, limitVars>>

-----------------------------------------------------------------------------
ChildStep(c) ==
  \/ Register(c)
  \/ Exit(c)
  \/ Release(c)
  \/ \E t \in Holders : Hold(c, t) \/ Unhold(c, t)
  \/ Terminate(c)
  \/ PinLapses(c)
  \/ \E K \in SUBSET Kids : Adopt(c, K)

LimitStep(w) == (SaveStep(w) /\ UNCHANGED govVars) \/ ApplyLimit(w)

Next ==
  \/ \E c \in Children : ChildStep(c)
  \/ \E w \in Windows : LimitStep(w)
  \/ Tick
  \/ LoseSupport
  \/ Wake

Spec == Init /\ [][Next]_vars

(* The timer of the cycle fires.                                           *)
FairSpec == Spec /\ WF_vars(Tick)

-----------------------------------------------------------------------------
(* Properties.                                                             *)

(* Nothing resumes this child but the next limit, spawn or exit: the means *)
(* of suspending is lost, a limit is set, and release functions leave the  *)
(* child to a cycle that does not run.                                     *)
LeftToNobody == ~support /\ limit # Full

(* A stopped process has somebody who will let it run: the tool that holds *)
(* it, the duty cycle, or its own close event.                             *)
StoppedHasOwner ==
  \A c \in Stopped(Governor) :
    c \in Owners(holds) \/ cycle # "none" \/ c \in gone \/ LeftToNobody

(* A child that is to end runs, and so do its kids: a stopped process does *)
(* not receive SIGTERM.                                                    *)
TerminatingRuns == terminating \cap Stopped(Governor) = {}

(* Stopping a child stops its tree, kids born meanwhile included.          *)
TreeStopped ==
  support => \A p \in tree : p[1] \in suspended => p \in frozen

(* The cycle does not run a child that a tool keeps held.                  *)
HeldStaysStopped ==
  [][suspended \cap Owners(holds) \cap Owners(holds') \subseteq suspended']_vars

(* A child that nobody holds runs again.                                   *)
FreedRuns ==
  \A c \in Children :
    c \in Freed(Governor) \ gone
      ~> (c \notin Freed(Governor) \/ c \in gone \/ LeftToNobody)

(* A6: a child that outlives its termination comes back under the limit.   *)
PinEnds ==
  \A c \in Children :
    (c \in lapsed /\ cycle # "none") ~> (c \notin lapsed \/ cycle = "none")
=============================================================================
