------------------------- MODULE PowerGovernorProofs -------------------------
(***************************************************************************)
(* Proofs about PowerGovernor, for any children, kids, holders, windows    *)
(* and limits.                                                             *)
(*                                                                         *)
(* The methods of the governor are operators on governor records, so the   *)
(* invariants are stated on records too.  Sound(G) is what every method    *)
(* preserves, Settled(G) what retune() establishes whatever it is given.   *)
(* The handlers that end in retune() need only that they are sound before  *)
(* it; the others are shown one by one.                                    *)
(***************************************************************************)
EXTENDS PowerGovernor, TLAPS

Records ==
  [children : SUBSET Children, gone : SUBSET Children,
   tree : SUBSET (Children \X Kids), frozen : SUBSET (Children \X Kids),
   suspended : SUBSET Children, holds : SUBSET (Children \X Holders),
   terminating : SUBSET Children, lapsed : SUBSET Children,
   cycle : {"none", "on", "off"}, support : BOOLEAN, limit : Limits]

(* Only children that are registered are on anybody's account.             *)
Registered(G) ==
  /\ G.gone \subseteq G.children
  /\ G.suspended \subseteq G.children
  /\ G.terminating \subseteq G.children
  /\ G.lapsed \subseteq G.terminating
  /\ \A p \in G.tree \cup G.frozen : p[1] \in G.children
  /\ \A h \in G.holds : h[1] \in G.children

(* A kid is stopped with its root, unless the root could not be.           *)
RootFirst(G) == \A p \in G.frozen : p[1] \in G.suspended \cup G.gone

Running(G) == \A c \in G.terminating : c \notin G.suspended /\ \A p \in G.frozen : p[1] # c

WholeTree(G) == G.support => \A p \in G.tree : p[1] \in G.suspended => p \in G.frozen

Sound(G) == G \in Records /\ Registered(G) /\ RootFirst(G) /\ Running(G) /\ WholeTree(G)

(* The cycle runs when there is something to limit and only then.          *)
CycleRuns(G) ==
  /\ ShouldCycle(G) => G.cycle # "none"
  /\ G.cycle # "none" => G.limit # Full /\ G.support

Owned(G) ==
  \A c \in Stopped(G) :
    c \in Owners(G.holds) \/ G.cycle # "none" \/ c \in G.gone
      \/ (~G.support /\ G.limit # Full)

Settled(G) == CycleRuns(G) /\ Owned(G)

(* What no method on records changes, and what few change.                 *)
Alike(H, G) ==
  /\ H.children = G.children /\ H.gone = G.gone /\ H.tree = G.tree
  /\ H.holds = G.holds /\ H.support = G.support /\ H.limit = G.limit
SamePins(H, G) == H.terminating = G.terminating /\ H.lapsed = G.lapsed

Tokens == holds \subseteq tokens /\ tokens \subseteq Children \X Holders

Good == Tokens /\ Sound(Governor) /\ Settled(Governor)

(* The inductive invariant.                                                *)
GovernorInv == LimitTypeOK /\ Good

(* What a step may not do to a held child.                                 *)
Kept == suspended \cap Owners(holds) \cap Owners(holds') \subseteq suspended'

-----------------------------------------------------------------------------
(* The methods on records.                                                 *)

LEMMA ResumeSound ==
  ASSUME NEW G, Sound(G), NEW R
  PROVE  /\ Sound(Resume(G, R))
         /\ Stopped(Resume(G, R)) = Stopped(G) \ R
         /\ Resume(G, R).suspended = G.suspended \ R
         /\ Resume(G, R).frozen = {p \in G.frozen : p[1] \notin R}
         /\ Alike(Resume(G, R), G) /\ SamePins(Resume(G, R), G) /\ Resume(G, R).cycle = G.cycle
<1> DEFINE H == Resume(G, R)
<1>1. G \in Records
  BY DEF Sound
<1>2. /\ H \in Records
      /\ H.children = G.children /\ H.gone = G.gone /\ H.tree = G.tree
      /\ H.holds = G.holds /\ H.terminating = G.terminating /\ H.lapsed = G.lapsed
      /\ H.cycle = G.cycle /\ H.support = G.support /\ H.limit = G.limit
      /\ H.suspended = G.suspended \ R
      /\ H.frozen = {p \in G.frozen : p[1] \notin R}
  BY <1>1 DEF Resume, Records
<1> HIDE DEF H
<1>3. Registered(H) /\ RootFirst(H) /\ Running(H) /\ WholeTree(H)
  BY <1>2 DEF Sound, Registered, RootFirst, Running, WholeTree
<1>4. Stopped(H) = Stopped(G) \ R
  BY <1>2 DEF Stopped, Owners
<1> QED
  BY <1>2, <1>3, <1>4 DEF Sound, Alike, SamePins, H

LEMMA SuspendSound ==
  ASSUME NEW G, Sound(G), NEW R, R \subseteq G.children
  PROVE  /\ Sound(Suspend(G, R))
         /\ G.suspended \subseteq Suspend(G, R).suspended
         /\ Stopped(Suspend(G, R)) \subseteq Stopped(G) \cup R
         /\ ~G.support => Suspend(G, R) = G
         /\ Alike(Suspend(G, R), G) /\ SamePins(Suspend(G, R), G) /\ Suspend(G, R).cycle = G.cycle
<1> DEFINE H == Suspend(G, R)
           S == R \ G.terminating
<1>1. G \in Records
  BY DEF Sound
<1>2. CASE ~G.support
  <2>1. H = G
    BY <1>2 DEF Suspend
  <2> QED
    BY <2>1 DEF Alike, SamePins
<1>3. CASE G.support
  <2>1. /\ H \in Records
        /\ H.children = G.children /\ H.gone = G.gone /\ H.tree = G.tree
        /\ H.holds = G.holds /\ H.terminating = G.terminating /\ H.lapsed = G.lapsed
        /\ H.cycle = G.cycle /\ H.support = G.support /\ H.limit = G.limit
        /\ H.suspended = G.suspended \cup (S \ G.gone)
        /\ H.frozen = G.frozen \cup {p \in G.tree : p[1] \in S}
    BY <1>1, <1>3 DEF Suspend, Records, Sound
  <2> HIDE DEF H
  <2>2. Registered(H) /\ RootFirst(H) /\ Running(H) /\ WholeTree(H)
    BY <2>1 DEF Sound, Registered, RootFirst, Running, WholeTree
  <2>3. Stopped(H) \subseteq Stopped(G) \cup R
    BY <2>1 DEF Stopped, Owners
  <2> QED
    BY <1>3, <2>1, <2>2, <2>3 DEF Sound, Alike, SamePins, H
<1> QED
  BY <1>2, <1>3

LEMMA ExpireSound ==
  ASSUME NEW G, Sound(G)
  PROVE  /\ Sound(Expire(G))
         /\ Stopped(Expire(G)) = Stopped(G)
         /\ Alike(Expire(G), G) /\ Expire(G).cycle = G.cycle
         /\ Expire(G).suspended = G.suspended /\ Expire(G).frozen = G.frozen
<1> DEFINE H == Expire(G)
<1>1. G \in Records
  BY DEF Sound
<1>2. /\ H \in Records
      /\ H.children = G.children /\ H.gone = G.gone /\ H.tree = G.tree
      /\ H.holds = G.holds /\ H.suspended = G.suspended /\ H.frozen = G.frozen
      /\ H.cycle = G.cycle /\ H.support = G.support /\ H.limit = G.limit
      /\ H.terminating = G.terminating \ G.lapsed /\ H.lapsed = {}
  BY <1>1 DEF Expire, Records
<1> HIDE DEF H
<1>3. Registered(H) /\ RootFirst(H) /\ Running(H) /\ WholeTree(H)
  BY <1>2 DEF Sound, Registered, RootFirst, Running, WholeTree
<1> QED
  BY <1>2, <1>3 DEF Sound, Stopped, Alike, H

(* Setting the field of the cycle disturbs nothing that Sound speaks of.   *)
LEMMA CycleSound ==
  ASSUME NEW G, Sound(G), NEW x \in {"none", "on", "off"},
         NEW H, H = [G EXCEPT !.cycle = x]
  PROVE  /\ Sound(H) /\ Stopped(H) = Stopped(G) /\ H.cycle = x
         /\ Alike(H, G) /\ SamePins(H, G)
         /\ H.suspended = G.suspended /\ H.frozen = G.frozen
<1>1. /\ H \in Records
      /\ H.children = G.children /\ H.gone = G.gone /\ H.tree = G.tree
      /\ H.holds = G.holds /\ H.suspended = G.suspended /\ H.frozen = G.frozen
      /\ H.terminating = G.terminating /\ H.lapsed = G.lapsed
      /\ H.cycle = x /\ H.support = G.support /\ H.limit = G.limit
  BY DEF Sound, Records
<1>2. Registered(H) /\ RootFirst(H) /\ Running(H) /\ WholeTree(H)
  BY <1>1 DEF Sound, Registered, RootFirst, Running, WholeTree
<1>3. Stopped(H) = Stopped(G)
  BY <1>1 DEF Stopped
<1> QED
  BY <1>1, <1>2, <1>3 DEF Sound, Alike, SamePins

LEMMA OpenWindowSound ==
  ASSUME NEW G, Sound(G)
  PROVE  /\ Sound(OpenWindow(G))
         /\ OpenWindow(G).cycle = "on"
         /\ Alike(OpenWindow(G), G) /\ SamePins(OpenWindow(G), G)
         /\ G.suspended \cap Owners(G.holds) \subseteq OpenWindow(G).suspended
<1> DEFINE R == Freed(G) \ G.terminating
           H == Resume(G, R)
<1>1. Sound(H) /\ Alike(H, G) /\ SamePins(H, G) /\ H.cycle = G.cycle
  BY ResumeSound
<1>2. G.suspended \cap Owners(G.holds) \subseteq H.suspended
  BY DEF Resume, Freed, Sound, Records
<1> HIDE DEF H, R
<1>3. OpenWindow(G) = [H EXCEPT !.cycle = "on"]
  BY DEF OpenWindow, H, R
<1> HIDE DEF OpenWindow
<1>4. /\ Sound(OpenWindow(G)) /\ OpenWindow(G).cycle = "on"
      /\ Alike(OpenWindow(G), H) /\ SamePins(OpenWindow(G), H)
      /\ OpenWindow(G).suspended = H.suspended
  BY <1>1, <1>3, CycleSound
<1> QED
  BY <1>1, <1>2, <1>4 DEF Alike, SamePins

(* retune(): sound records become sound and settled ones.                  *)
LEMMA RetuneSettles ==
  ASSUME NEW G, Sound(G)
  PROVE  /\ Sound(Retune(G)) /\ Settled(Retune(G))
         /\ Alike(Retune(G), G)
         /\ G.suspended \cap Owners(G.holds) \subseteq Retune(G).suspended
<1> DEFINE E == Expire(G)
           N == Resume(E, Freed(E))
<1>1. /\ Sound(E)
      /\ E.suspended = G.suspended /\ E.cycle = G.cycle
      /\ Alike(E, G)
  BY ExpireSound
<1> HIDE DEF E
<1>2. CASE ~ShouldCycle(E)
  <2>1. Retune(G) = [N EXCEPT !.cycle = "none"]
    BY <1>2 DEF Retune, E
  <2>2. /\ Sound(N) /\ Stopped(N) = Stopped(E) \ Freed(E)
        /\ Alike(N, E)
    BY <1>1, ResumeSound
  <2>3. E.suspended \cap Owners(E.holds) \subseteq N.suspended
    BY <1>1 DEF Resume, Freed, Sound, Records
  <2> HIDE DEF N
  <2>4. /\ Sound(Retune(G)) /\ Stopped(Retune(G)) = Stopped(N)
        /\ Retune(G).cycle = "none" /\ Retune(G).suspended = N.suspended
        /\ Alike(Retune(G), N)
    BY <2>1, <2>2, CycleSound
  <2>5. Stopped(Retune(G)) \subseteq Owners(Retune(G).holds)
    BY <1>1, <2>2, <2>4 DEF Freed, Alike
  <2>6. Settled(Retune(G))
    BY <1>2, <2>2, <2>4, <2>5 DEF Settled, CycleRuns, Owned, ShouldCycle, Alike
  <2> QED
    BY <1>1, <2>2, <2>3, <2>4, <2>6 DEF Alike
<1>3. CASE ShouldCycle(E) /\ E.cycle = "none"
  <2>1. Retune(G) = OpenWindow(E)
    BY <1>3 DEF Retune, E
  <2>2. /\ Sound(Retune(G)) /\ Retune(G).cycle = "on"
        /\ Alike(Retune(G), E)
        /\ E.suspended \cap Owners(E.holds) \subseteq Retune(G).suspended
    BY <1>1, <2>1, OpenWindowSound
  <2>3. Settled(Retune(G))
    BY <1>3, <2>2 DEF Settled, CycleRuns, Owned, ShouldCycle, Alike
  <2> QED
    BY <1>1, <2>2, <2>3 DEF Alike
<1>4. CASE ShouldCycle(E) /\ E.cycle # "none"
  <2>1. Retune(G) = E
    BY <1>4 DEF Retune, E
  <2>2. Settled(E)
    BY <1>4 DEF Settled, CycleRuns, Owned, ShouldCycle, Alike
  <2> QED
    BY <1>1, <2>1, <2>2 DEF Alike
<1> QED
  BY <1>2, <1>3, <1>4
-----------------------------------------------------------------------------
(* From records to states.                                                 *)

LEMMA Fields ==
  /\ Governor.children = children /\ Governor.gone = gone
  /\ Governor.tree = tree /\ Governor.frozen = frozen
  /\ Governor.suspended = suspended /\ Governor.holds = holds
  /\ Governor.terminating = terminating /\ Governor.lapsed = lapsed
  /\ Governor.cycle = cycle /\ Governor.support = support /\ Governor.limit = limit
  BY DEF Governor

LEMMA Arrives ==
  ASSUME NEW G \in Records, Becomes(G), limit' = G.limit
  PROVE  Governor' = G
  BY DEF Governor, Becomes, Records

(* A handler that ends in retune().                                        *)
LEMMA RetuneStep ==
  ASSUME NEW G, Sound(G), Becomes(Retune(G)), limit' = G.limit
  PROVE  /\ Sound(Governor)' /\ Settled(Governor)'
         /\ holds' = G.holds
         /\ G.suspended \cap Owners(G.holds) \subseteq suspended'
<1>1. /\ Sound(Retune(G)) /\ Settled(Retune(G)) /\ Alike(Retune(G), G)
      /\ G.suspended \cap Owners(G.holds) \subseteq Retune(G).suspended
  BY RetuneSettles
<1> HIDE DEF Retune
<1>2. Governor' = Retune(G)
  BY <1>1, Arrives DEF Sound, Alike
<1>3. holds' = G.holds /\ suspended' = Retune(G).suspended
  BY <1>1 DEF Becomes, Alike
<1>4. Sound(Governor') /\ Settled(Governor')
  BY <1>1, <1>2
<1> QED
  BY <1>1, <1>3, <1>4

LEMMA RegisterGood ==
  ASSUME Good, NEW c \in Children, Register(c)
  PROVE  Good' /\ Kept
<1> DEFINE G == [Governor EXCEPT !.children = @ \cup {c}]
<1>1. Sound(G) /\ G.holds = holds /\ G.suspended = suspended /\ G.limit = limit
  BY DEF Good, Governor, Sound, Records, Registered, RootFirst, Running, WholeTree
<1> HIDE DEF G
<1>2. Becomes(Retune(G)) /\ limit' = limit /\ tokens' = tokens
  BY DEF Register, limitVars, G
<1>3. /\ Sound(Governor)' /\ Settled(Governor)' /\ holds' = holds
      /\ suspended \cap Owners(holds) \subseteq suspended'
  BY <1>1, <1>2, RetuneStep
<1> QED
  BY <1>2, <1>3 DEF Good, Tokens, Kept

LEMMA ReleaseGood ==
  ASSUME Good, NEW c \in Children, Release(c)
  PROVE  Good' /\ Kept
<1> DEFINE H == Resume(Governor, {c})
           G == Forgotten(H, c)
<1>1. /\ H \in Records
      /\ H.suspended = suspended \ {c} /\ H.frozen = {p \in frozen : p[1] # c}
      /\ Sound(H) /\ Alike(H, Governor)
  <2>1. /\ Sound(H) /\ Alike(H, Governor) /\ H.suspended = Governor.suspended \ {c}
        /\ H.frozen = {p \in Governor.frozen : p[1] \notin {c}}
    BY ResumeSound DEF Good
  <2> QED
    BY <2>1, Fields DEF Sound
<1> HIDE DEF H
<1>2. /\ G \in Records
      /\ G.children = children \ {c} /\ G.gone = gone \ {c}
      /\ G.tree = {p \in tree : p[1] # c} /\ G.frozen = H.frozen
      /\ G.suspended = suspended \ {c} /\ G.holds = {h \in holds : h[1] # c}
      /\ G.terminating = H.terminating \ {c} /\ G.lapsed = H.lapsed \ {c}
      /\ G.support = support /\ G.limit = limit
  BY <1>1, Fields DEF Forgotten, Records, Alike
<1>3. Sound(G)
  <2> HIDE DEF G
  <2> QED
    BY <1>1, <1>2, Fields
    DEF Sound, Registered, RootFirst, Running, WholeTree, Alike
<1> HIDE DEF G
<1>4. Becomes(Retune(G)) /\ limit' = limit /\ tokens' = tokens
  BY DEF Release, limitVars, G, H
<1>5. /\ Sound(Governor)' /\ Settled(Governor)' /\ holds' = G.holds
      /\ G.suspended \cap Owners(G.holds) \subseteq suspended'
  BY <1>2, <1>3, <1>4, RetuneStep
<1> QED
  BY <1>2, <1>4, <1>5 DEF Good, Tokens, Kept, Owners

LEMMA ApplyLimitGood ==
  ASSUME Good, LimitTypeOK, NEW w \in Windows, ApplyLimit(w)
  PROVE  Good' /\ Kept
<1> DEFINE G == [Governor EXCEPT !.limit = want[w]]
<1>1. Sound(G) /\ G.holds = holds /\ G.suspended = suspended /\ G.limit = want[w]
  BY DEF Good, Governor, Sound, Records, Registered, RootFirst, Running, WholeTree,
         LimitTypeOK
<1> HIDE DEF G
<1>2. Becomes(Retune(G)) /\ limit' = want[w] /\ tokens' = tokens
  BY DEF ApplyLimit, Saved, G
<1>3. /\ Sound(Governor)' /\ Settled(Governor)' /\ holds' = holds
      /\ suspended \cap Owners(holds) \subseteq suspended'
  BY <1>1, <1>2, RetuneStep
<1> QED
  BY <1>2, <1>3 DEF Good, Tokens, Kept

LEMMA LoseSupportGood ==
  ASSUME Good, LoseSupport
  PROVE  Good' /\ Kept
<1> DEFINE G == [Governor EXCEPT !.support = FALSE]
<1>1. Sound(G) /\ G.holds = holds /\ G.suspended = suspended /\ G.limit = limit
  BY DEF Good, Governor, Sound, Records, Registered, RootFirst, Running, WholeTree
<1> HIDE DEF G
<1>2. Becomes(Retune(G)) /\ limit' = limit /\ tokens' = tokens
  BY DEF LoseSupport, limitVars, G
<1>3. /\ Sound(Governor)' /\ Settled(Governor)' /\ holds' = holds
      /\ suspended \cap Owners(holds) \subseteq suspended'
  BY <1>1, <1>2, RetuneStep
<1> QED
  BY <1>2, <1>3 DEF Good, Tokens, Kept

LEMMA WakeGood ==
  ASSUME Good, Wake
  PROVE  Good' /\ Kept
<1> DEFINE H == Resume(Governor, Freed(Governor))
           G == [H EXCEPT !.cycle = "none"]
<1>1. /\ Sound(H) /\ Alike(H, Governor)
      /\ suspended \cap Owners(holds) \subseteq H.suspended
  <2>1. /\ Sound(H) /\ Alike(H, Governor)
        /\ H.suspended = Governor.suspended \ Freed(Governor)
    BY ResumeSound DEF Good
  <2> QED
    BY <2>1, Fields DEF Freed
<1> HIDE DEF H
<1>2. /\ Sound(G) /\ G.holds = holds /\ G.limit = limit
      /\ suspended \cap Owners(holds) \subseteq G.suspended
  <2>1. Sound(G) /\ Alike(G, H) /\ G.suspended = H.suspended
    BY <1>1, CycleSound
  <2> QED
    BY <1>1, <2>1, Fields DEF Alike
<1> HIDE DEF G
<1>3. Becomes(Retune(G)) /\ limit' = limit /\ tokens' = tokens
  BY DEF Wake, limitVars, G, H
<1>4. /\ Sound(Governor)' /\ Settled(Governor)' /\ holds' = holds
      /\ G.suspended \cap Owners(G.holds) \subseteq suspended'
  BY <1>2, <1>3, RetuneStep
<1> QED
  BY <1>2, <1>3, <1>4 DEF Good, Tokens, Kept

-----------------------------------------------------------------------------
(* The handlers that change the record themselves.                         *)

LEMMA DirectStep ==
  ASSUME NEW G, Sound(G), Settled(G), Becomes(G), limit' = G.limit
  PROVE  /\ Sound(Governor)' /\ Settled(Governor)'
         /\ holds' = G.holds /\ suspended' = G.suspended
<1>1. Governor' = G
  BY Arrives DEF Sound
<1>2. Sound(Governor') /\ Settled(Governor')
  BY <1>1
<1>3. holds' = G.holds /\ suspended' = G.suspended
  BY DEF Becomes
<1> QED
  BY <1>2, <1>3

(* A record stays settled while no child loses the owner it needs.         *)
LEMMA StaysSettled ==
  ASSUME NEW G, NEW H, Settled(G),
         H.children = G.children, H.cycle = G.cycle,
         H.support = G.support, H.limit = G.limit, G.gone \subseteq H.gone,
         \A c \in Stopped(H) :
           \/ c \in Owners(H.holds)
           \/ c \in Stopped(G) /\ c \notin Owners(G.holds)
  PROVE  Settled(H)
  BY DEF Settled, CycleRuns, Owned, ShouldCycle

LEMMA ExitGood ==
  ASSUME Good, NEW c \in Children, Exit(c)
  PROVE  Good' /\ Kept
<1> DEFINE G == [Governor EXCEPT !.gone = @ \cup {c}]
<1>1. c \in children /\ UNCHANGED <<limit, tokens>> /\ Becomes(G)
  BY Fields DEF Exit, limitVars, Becomes, Governor
<1>2. Sound(G) /\ G.holds = holds /\ G.suspended = suspended /\ G.limit = limit
  BY <1>1 DEF Good, Governor, Sound, Records, Registered, RootFirst, Running, WholeTree
<1>3. Settled(G)
  BY StaysSettled, Fields DEF Good, Governor, Stopped
<1> HIDE DEF G
<1>4. Sound(Governor)' /\ Settled(Governor)' /\ holds' = holds /\ suspended' = suspended
  BY <1>1, <1>2, <1>3, DirectStep
<1> QED
  BY <1>1, <1>4 DEF Good, Tokens, Kept

LEMMA PinLapsesGood ==
  ASSUME Good, NEW c \in Children, PinLapses(c)
  PROVE  Good' /\ Kept
<1> DEFINE G == [Governor EXCEPT !.lapsed = @ \cup {c}]
<1>1. c \in terminating /\ UNCHANGED <<limit, tokens>> /\ Becomes(G)
  BY Fields DEF PinLapses, limitVars, Becomes, Governor
<1>2. Sound(G) /\ G.holds = holds /\ G.suspended = suspended /\ G.limit = limit
  BY <1>1 DEF Good, Governor, Sound, Records, Registered, RootFirst, Running, WholeTree
<1>3. Settled(G)
  BY StaysSettled, Fields DEF Good, Governor, Stopped
<1> HIDE DEF G
<1>4. Sound(Governor)' /\ Settled(Governor)' /\ holds' = holds /\ suspended' = suspended
  BY <1>1, <1>2, <1>3, DirectStep
<1> QED
  BY <1>1, <1>4 DEF Good, Tokens, Kept

LEMMA HoldGood ==
  ASSUME Good, NEW c \in Children, NEW t \in Holders, Hold(c, t)
  PROVE  Good' /\ Kept
<1> DEFINE H == [Governor EXCEPT !.holds = @ \cup {<<c, t>>}]
           G == IF c \in terminating \cup suspended THEN H ELSE Suspend(H, {c})
<1>1. /\ c \in children /\ limit' = limit /\ tokens' = tokens \cup {<<c, t>>}
      /\ Becomes(G)
  BY DEF Hold, limitVars
<1>2. /\ Sound(H) /\ H.holds = holds \cup {<<c, t>>} /\ H.suspended = suspended
      /\ Stopped(H) = Stopped(Governor) /\ Alike(H, [Governor EXCEPT !.holds = H.holds])
      /\ H.cycle = cycle
  BY <1>1 DEF Good, Governor, Sound, Records, Registered, RootFirst, Running, WholeTree,
              Alike, Stopped
<1>3. Governor.holds = holds /\ H.children = children /\ H.gone = gone
      /\ H.support = support /\ H.limit = limit
  BY DEF Governor
<1> HIDE DEF H
<1>4. /\ Sound(G) /\ Alike(G, H) /\ G.cycle = H.cycle
      /\ H.suspended \subseteq G.suspended /\ Stopped(G) \subseteq Stopped(H) \cup {c}
  BY <1>1, <1>2, <1>3, SuspendSound DEF Alike
<1> HIDE DEF G
<1>5. Settled(G)
  <2>1. \A d \in Owners(holds) \cup {c} : d \in Owners(G.holds)
    <3>1. G.holds = holds \cup {<<c, t>>} /\ <<c, t>>[1] = c
      BY <1>2, <1>4 DEF Alike
    <3> QED
      BY <3>1 DEF Owners
  <2> QED
    BY <1>2, <1>3, <1>4, <2>1, StaysSettled, Fields DEF Good, Alike
<1>6. Sound(Governor)' /\ Settled(Governor)' /\ holds' = G.holds /\ suspended' = G.suspended
  BY <1>1, <1>3, <1>4, <1>5, DirectStep DEF Alike
<1> QED
  BY <1>1, <1>2, <1>4, <1>6 DEF Good, Tokens, Kept, Alike

LEMMA UnholdGood ==
  ASSUME Good, NEW c \in Children, NEW t \in Holders, Unhold(c, t)
  PROVE  Good' /\ Kept
<1> DEFINE H == [Governor EXCEPT !.holds = @ \ {<<c, t>>}]
           G == IF c \notin Owners(H.holds) /\ c \in suspended /\ limit = Full
                THEN Resume(H, {c}) ELSE H
<1>1. limit' = limit /\ tokens' = tokens \ {<<c, t>>} /\ Becomes(G)
  BY DEF Unhold, limitVars
<1>2. /\ Sound(H) /\ H.holds = holds \ {<<c, t>>} /\ H.suspended = suspended
      /\ Stopped(H) = Stopped(Governor) /\ H.frozen = frozen
  BY DEF Good, Governor, Sound, Records, Registered, RootFirst, Running, WholeTree, Stopped
<1>3. /\ Governor.holds = holds /\ H.children = children /\ H.gone = gone
      /\ H.support = support /\ H.limit = limit /\ H.cycle = cycle
  BY DEF Governor
<1> HIDE DEF H
<1>4. /\ Sound(G) /\ Alike(G, H) /\ G.cycle = H.cycle
      /\ \A d \in Owners(H.holds) \cap suspended : d \in G.suspended
      /\ Stopped(G) = Stopped(H) \ (IF c \notin Owners(H.holds) /\ c \in suspended /\ limit = Full
                                    THEN {c} ELSE {})
  BY <1>2, ResumeSound DEF Alike
<1> HIDE DEF G
<1>5. Settled(G)
  <2>1. \A d : d # c => (d \in Owners(holds) <=> d \in Owners(H.holds))
    BY <1>2 DEF Owners
  <2>2. CycleRuns(G)
    BY <1>3, <1>4, Fields DEF Good, Settled, CycleRuns, ShouldCycle, Alike
  <2>3. ASSUME NEW d \in Stopped(G), d \notin Owners(H.holds)
        PROVE  d \in Owners(G.holds) \/ G.cycle # "none" \/ d \in G.gone
                 \/ (~G.support /\ G.limit # Full)
    <3>1. d \in Stopped(Governor)
      BY <1>2, <1>4
    <3>2. CASE d # c
      BY <1>3, <1>4, <2>1, <2>3, <3>1, <3>2, Fields DEF Good, Settled, Owned, Alike
    <3>3. CASE d = c /\ c \notin suspended
      <4>1. c \in gone
        BY <1>2, <1>3, <3>1, <3>3, Fields DEF Sound, RootFirst, Stopped, Owners
      <4> QED
        BY <1>3, <1>4, <3>3, <4>1 DEF Alike
    <3>4. CASE d = c /\ limit # Full
      <4>1. c \in children
        BY <3>1, <3>4, Fields DEF Good, Sound, Registered, Stopped, Owners
      <4> QED
        BY <1>3, <1>4, <2>2, <3>4, <4>1 DEF CycleRuns, ShouldCycle, Alike
    <3> QED
      BY <1>4, <2>3, <3>2, <3>3, <3>4
  <2> QED
    BY <1>4, <2>2, <2>3 DEF Settled, Owned, Alike
<1>6. Sound(Governor)' /\ Settled(Governor)' /\ holds' = G.holds /\ suspended' = G.suspended
  BY <1>1, <1>3, <1>4, <1>5, DirectStep DEF Alike
<1> QED
  BY <1>1, <1>2, <1>4, <1>6 DEF Good, Tokens, Kept, Alike

LEMMA TerminateGood ==
  ASSUME Good, NEW c \in Children, Terminate(c)
  PROVE  Good' /\ Kept
<1> DEFINE H == [Governor EXCEPT !.terminating = @ \cup {c}, !.lapsed = @ \ {c},
                                 !.holds = {h \in @ : h[1] # c}]
           G == Resume(H, {c})
<1>1. c \in children /\ limit' = limit /\ tokens' = tokens /\ Becomes(G)
  BY DEF Terminate, limitVars
<1>2. /\ H \in Records
      /\ H.children = children /\ H.gone = gone /\ H.tree = tree
      /\ H.frozen = frozen /\ H.suspended = suspended
      /\ H.holds = {h \in holds : h[1] # c}
      /\ H.terminating = terminating \cup {c} /\ H.lapsed = lapsed \ {c}
      /\ H.cycle = cycle /\ H.support = support /\ H.limit = limit
  BY DEF Good, Sound, Governor, Records
<1> HIDE DEF H
<1>3. /\ G \in Records
      /\ G.children = children /\ G.gone = gone /\ G.tree = tree
      /\ G.frozen = {p \in frozen : p[1] \notin {c}} /\ G.suspended = suspended \ {c}
      /\ G.holds = {h \in holds : h[1] # c}
      /\ G.terminating = terminating \cup {c} /\ G.lapsed = lapsed \ {c}
      /\ G.cycle = cycle /\ G.support = support /\ G.limit = limit
  BY <1>2 DEF Resume, Records
<1> HIDE DEF G
<1>4. Sound(G)
  BY <1>1, <1>3, Fields
  DEF Good, Sound, Registered, RootFirst, Running, WholeTree
<1>5. Settled(G)
  <2>1. \A d \in Stopped(G) : d # c /\ d \in Stopped(Governor)
    BY <1>3, Fields DEF Stopped, Owners
  <2>2. \A d : d # c => (d \in Owners(holds) => d \in Owners(G.holds))
    BY <1>3 DEF Owners
  <2> QED
    BY <1>3, <2>1, <2>2, StaysSettled, Fields DEF Good
<1>6. Sound(Governor)' /\ Settled(Governor)' /\ holds' = G.holds /\ suspended' = G.suspended
  BY <1>1, <1>3, <1>4, <1>5, DirectStep
<1>7. Kept
  BY <1>3, <1>6 DEF Kept, Owners
<1> QED
  BY <1>1, <1>3, <1>6, <1>7 DEF Good, Tokens

LEMMA TickGood ==
  ASSUME Good, Tick
  PROVE  Good' /\ Kept
<1> DEFINE E == Expire(Governor)
           S == Suspend(E, children)
           N == [S EXCEPT !.cycle = "off"]
           G == IF cycle = "on" THEN N ELSE OpenWindow(Governor)
<1>1. cycle # "none" /\ limit' = limit /\ tokens' = tokens /\ Becomes(G)
  BY DEF Tick, limitVars
<1>2. limit # Full /\ support
  BY <1>1, Fields DEF Good, Settled, CycleRuns
<1>3. Sound(E) /\ Alike(E, Governor) /\ E.suspended = suspended
  BY ExpireSound, Fields DEF Good
<1> HIDE DEF E
<1>4. Sound(S) /\ Alike(S, Governor) /\ suspended \subseteq S.suspended
  BY <1>3, SuspendSound, Fields DEF Alike
<1> HIDE DEF S
<1>5. /\ Sound(N) /\ Alike(N, Governor) /\ N.cycle = "off"
      /\ suspended \subseteq N.suspended
  <2>1. Sound(N) /\ N.cycle = "off" /\ Alike(N, S) /\ N.suspended = S.suspended
    BY <1>4, CycleSound
  <2> QED
    BY <1>4, <2>1 DEF Alike
<1> HIDE DEF N
<1>6. /\ Sound(OpenWindow(Governor)) /\ Alike(OpenWindow(Governor), Governor)
      /\ OpenWindow(Governor).cycle = "on"
      /\ suspended \cap Owners(holds) \subseteq OpenWindow(Governor).suspended
  BY OpenWindowSound, Fields DEF Good
<1> HIDE DEF OpenWindow
<1>7. /\ Sound(G) /\ Alike(G, Governor) /\ G.cycle # "none"
      /\ suspended \cap Owners(holds) \subseteq G.suspended
  BY <1>5, <1>6
<1> HIDE DEF G
<1>8. Settled(G)
  BY <1>2, <1>7, Fields DEF Settled, CycleRuns, Owned, Alike
<1>9. Sound(Governor)' /\ Settled(Governor)' /\ holds' = G.holds /\ suspended' = G.suspended
  BY <1>1, <1>7, <1>8, DirectStep, Fields DEF Alike
<1> QED
  BY <1>1, <1>7, <1>9, Fields DEF Good, Tokens, Kept, Alike

LEMMA AdoptGood ==
  ASSUME Good, NEW c \in Children, NEW K \in SUBSET Kids, Adopt(c, K)
  PROVE  Good' /\ Kept
<1> DEFINE T == SetTree(Governor, c, K)
           G == IF c \in suspended \ terminating /\ support
                THEN [T EXCEPT !.frozen = @ \cup ({c} \X K)] ELSE T
<1>1. c \in children /\ limit' = limit /\ tokens' = tokens /\ Becomes(G)
  BY DEF Adopt, limitVars
<1>2. /\ T \in Records
      /\ T.tree = {p \in tree : p[1] # c} \cup ({c} \X K)
      /\ T.frozen = frozen /\ T.suspended = suspended
      /\ Alike(T, [Governor EXCEPT !.tree = T.tree])
      /\ T.terminating = terminating /\ T.lapsed = lapsed /\ T.cycle = cycle
  BY DEF Good, Sound, Governor, Records, SetTree, Alike
<1>3. /\ T.children = children /\ T.gone = gone /\ T.holds = holds
      /\ T.support = support /\ T.limit = limit
  BY <1>2 DEF Governor, Alike
<1> HIDE DEF T
<1>4. /\ G \in Records
      /\ G.children = children /\ G.gone = gone /\ G.holds = holds
      /\ G.support = support /\ G.limit = limit
      /\ G.tree = {p \in tree : p[1] # c} \cup ({c} \X K)
      /\ G.frozen = frozen \cup
           (IF c \in suspended \ terminating /\ support THEN {c} \X K ELSE {})
      /\ G.suspended = suspended
      /\ G.terminating = terminating /\ G.lapsed = lapsed /\ G.cycle = cycle
  BY <1>2, <1>3 DEF Records
<1> HIDE DEF G
<1>5. Sound(G)
  <2>1. \A p \in {c} \X K : p[1] = c
    OBVIOUS
  <2>2. Registered(G)
    BY <1>1, <1>4, <2>1, Fields DEF Good, Sound, Registered
  <2>3. RootFirst(G)
    BY <1>4, <2>1, Fields DEF Good, Sound, RootFirst
  <2>4. Running(G)
    BY <1>4, <2>1, Fields DEF Good, Sound, Running
  <2>5. WholeTree(G)
    <3>1. c \in suspended => c \notin terminating
      BY Fields DEF Good, Sound, Running
    <3> QED
      BY <1>4, <2>1, <3>1, Fields DEF Good, Sound, WholeTree
  <2> QED
    BY <1>4, <2>2, <2>3, <2>4, <2>5 DEF Sound
<1>6. Settled(G)
  <2>1. Stopped(G) = Stopped(Governor)
    BY <1>4, Fields DEF Stopped, Owners
  <2> QED
    BY <1>4, <2>1, StaysSettled, Fields DEF Good
<1>7. Sound(Governor)' /\ Settled(Governor)' /\ holds' = holds /\ suspended' = suspended
  BY <1>1, <1>4, <1>5, <1>6, DirectStep
<1> QED
  BY <1>1, <1>7 DEF Good, Tokens, Kept

-----------------------------------------------------------------------------
(* The invariant.                                                          *)

LEMMA SaveTyped ==
  ASSUME LimitTypeOK, NEW w \in Windows, SaveStep(w)
  PROVE  LimitTypeOK'
<1>1. CASE \E l \in Limits : SaveBegin(w, l)
  <2>1. crowded' \subseteq Windows /\ clean' \in BOOLEAN
    BY <1>1 DEF SaveBegin, Meets, InFlight, LimitTypeOK
  <2> QED
    BY <1>1, <2>1 DEF SaveBegin, LimitTypeOK
<1>2. CASE SaveWrite(w)
  BY <1>2 DEF SaveWrite, history, LimitTypeOK
<1>3. CASE SaveFail(w)
  BY <1>3 DEF SaveFail, history, LimitTypeOK
<1>4. CASE SaveRefused(w)
  BY <1>4, LimitAssumption DEF SaveRefused, history, LimitTypeOK
<1>5. CASE SaveRename(w)
  BY <1>5 DEF SaveRename, history, LimitTypeOK
<1> QED
  BY <1>1, <1>2, <1>3, <1>4, <1>5 DEF SaveStep

LEMMA SavedTyped ==
  ASSUME LimitTypeOK, NEW w \in Windows, Saved(w)
  PROVE  LimitTypeOK'
  BY LimitAssumption DEF Saved, LimitTypeOK

LEMMA LimitVarsTyped ==
  ASSUME LimitTypeOK, UNCHANGED limitVars
  PROVE  LimitTypeOK'
  BY DEF limitVars, LimitTypeOK

LEMMA StutterGood ==
  ASSUME Good, UNCHANGED govVars, limit' = limit
  PROVE  Good' /\ Kept
<1>1. Becomes(Governor) /\ tokens' = tokens
  BY Fields DEF govVars, Becomes
<1>2. Sound(Governor)' /\ Settled(Governor)' /\ holds' = holds /\ suspended' = suspended
  BY <1>1, DirectStep, Fields DEF Good
<1> QED
  BY <1>1, <1>2 DEF Good, Tokens, Kept

LEMMA InvInit ==
  ASSUME Init
  PROVE  GovernorInv
<1>1. LimitTypeOK
  BY LimitAssumption DEF Init, LimitInit, LimitTypeOK
<1>2. Tokens
  BY DEF Init, Tokens
<1>3. Governor \in Records
  BY <1>1 DEF Init, Governor, Records, LimitTypeOK
<1>4. Sound(Governor)
  BY <1>3, Fields
  DEF Init, Sound, Registered, RootFirst, Running, WholeTree
<1>5. Settled(Governor)
  BY Fields DEF Init, Settled, CycleRuns, Owned, ShouldCycle, Stopped, Owners
<1> QED
  BY <1>1, <1>2, <1>4, <1>5 DEF GovernorInv, Good

LEMMA InvStep ==
  ASSUME GovernorInv, [Next]_vars
  PROVE  GovernorInv' /\ Kept
<1> USE DEF GovernorInv
<1>1. ASSUME NEW c \in Children, Register(c) PROVE GovernorInv' /\ Kept
  BY <1>1, RegisterGood, LimitVarsTyped DEF Register
<1>2. ASSUME NEW c \in Children, Exit(c) PROVE GovernorInv' /\ Kept
  BY <1>2, ExitGood, LimitVarsTyped DEF Exit
<1>3. ASSUME NEW c \in Children, Release(c) PROVE GovernorInv' /\ Kept
  BY <1>3, ReleaseGood, LimitVarsTyped DEF Release
<1>4. ASSUME NEW c \in Children, NEW t \in Holders, Hold(c, t)
      PROVE  GovernorInv' /\ Kept
  BY <1>4, HoldGood, LimitVarsTyped DEF Hold
<1>5. ASSUME NEW c \in Children, NEW t \in Holders, Unhold(c, t)
      PROVE  GovernorInv' /\ Kept
  BY <1>5, UnholdGood, LimitVarsTyped DEF Unhold
<1>6. ASSUME NEW c \in Children, Terminate(c) PROVE GovernorInv' /\ Kept
  BY <1>6, TerminateGood, LimitVarsTyped DEF Terminate
<1>7. ASSUME NEW c \in Children, PinLapses(c) PROVE GovernorInv' /\ Kept
  BY <1>7, PinLapsesGood, LimitVarsTyped DEF PinLapses
<1>8. ASSUME NEW c \in Children, NEW K \in SUBSET Kids, Adopt(c, K)
      PROVE  GovernorInv' /\ Kept
  BY <1>8, AdoptGood, LimitVarsTyped DEF Adopt
<1>9. ASSUME NEW w \in Windows, SaveStep(w), UNCHANGED govVars
      PROVE  GovernorInv' /\ Kept
  <2>1. LimitTypeOK'
    BY <1>9, SaveTyped
  <2>2. limit' = limit
    BY <1>9 DEF SaveStep, SaveBegin, SaveWrite, SaveFail, SaveRefused,
                  SaveRename
  <2> QED
    BY <1>9, <2>1, <2>2, StutterGood
<1>10. ASSUME NEW w \in Windows, ApplyLimit(w) PROVE GovernorInv' /\ Kept
  BY <1>10, ApplyLimitGood, SavedTyped DEF ApplyLimit
<1>11. ASSUME Tick PROVE GovernorInv' /\ Kept
  BY <1>11, TickGood, LimitVarsTyped DEF Tick
<1>12. ASSUME LoseSupport PROVE GovernorInv' /\ Kept
  BY <1>12, LoseSupportGood, LimitVarsTyped DEF LoseSupport
<1>13. ASSUME Wake PROVE GovernorInv' /\ Kept
  BY <1>13, WakeGood, LimitVarsTyped DEF Wake
<1>14. ASSUME UNCHANGED vars PROVE GovernorInv' /\ Kept
  BY <1>14, StutterGood, LimitVarsTyped DEF vars, limitVars
<1> QED
  BY <1>1, <1>2, <1>3, <1>4, <1>5, <1>6, <1>7, <1>8, <1>9, <1>10, <1>11, <1>12,
     <1>13, <1>14
  DEF Next, ChildStep, LimitStep

LEMMA InvHolds == Spec => []GovernorInv
<1>1. Init => GovernorInv
  BY InvInit
<1>2. GovernorInv /\ [Next]_vars => GovernorInv'
  BY InvStep
<1> QED
  BY <1>1, <1>2, PTL DEF Spec

-----------------------------------------------------------------------------
(* Every reachable state of the governor is well typed.                    *)
THEOREM GovernorTyped == Spec => []TypeOK
<1>1. GovernorInv => TypeOK
  <2> SUFFICES ASSUME GovernorInv PROVE TypeOK
    OBVIOUS
  <2>1. LimitTypeOK /\ Tokens /\ Governor \in Records /\ Registered(Governor)
    BY DEF GovernorInv, Good, Sound
  <2>2. /\ children \subseteq Children /\ cycle \in {"none", "on", "off"}
        /\ support \in BOOLEAN /\ tree \subseteq Children \X Kids
        /\ frozen \subseteq Children \X Kids /\ holds \subseteq Children \X Holders
    BY <2>1 DEF Governor, Records
  <2>3. /\ tree \subseteq children \X Kids /\ frozen \subseteq children \X Kids
        /\ holds \subseteq children \X Holders
    BY <2>1, <2>2, Fields DEF Registered
  <2> QED
    BY <2>1, <2>2, <2>3, Fields DEF TypeOK, Registered, Tokens
<1> QED
  BY <1>1, InvHolds, PTL

(* Whatever stops a process, somebody will let it run: the tool that holds *)
(* it, the duty cycle or its close event.                                  *)
THEOREM OwnerHolds == Spec => []StoppedHasOwner
<1>1. GovernorInv => StoppedHasOwner
  BY Fields DEF GovernorInv, Good, Settled, Owned, StoppedHasOwner, LeftToNobody
<1> QED
  BY <1>1, InvHolds, PTL

(* A child that is to end is never stopped, nor is any kid of it.          *)
THEOREM TerminationHolds == Spec => []TerminatingRuns
<1>1. GovernorInv => TerminatingRuns
  BY Fields DEF GovernorInv, Good, Sound, Running, TerminatingRuns, Stopped, Owners
<1> QED
  BY <1>1, InvHolds, PTL

(* A stopped child has its whole tree stopped.                             *)
THEOREM TreeHolds == Spec => []TreeStopped
<1>1. GovernorInv => TreeStopped
  BY Fields DEF GovernorInv, Good, Sound, WholeTree, TreeStopped
<1> QED
  BY <1>1, InvHolds, PTL

(* No step runs a child that a tool keeps held across it.                  *)
THEOREM HeldHolds == Spec => HeldStaysStopped
<1>1. GovernorInv /\ [Next]_vars =>
        [suspended \cap Owners(holds) \cap Owners(holds') \subseteq suspended']_vars
  BY InvStep DEF Kept
<1> QED
  BY <1>1, InvHolds, PTL DEF Spec, HeldStaysStopped

-----------------------------------------------------------------------------
(* The file.  A request that met no other is the only one in flight, the   *)
(* temporary file is its own, and nobody else touches the file.            *)
Whole ==
  /\ disk # Torn
  /\ limit = Loaded \/ \E w \in Windows : call[w] = "apply" /\ want[w] = Loaded
SavedAlone ==
  /\ \A w \in InFlight : w \notin crowded =>
       /\ InFlight = {w}
       /\ call[w] = "write" => at[w] = "tmp"
       /\ call[w] = "rename" => tmp = want[w]
       /\ call[w] = "apply" => disk = want[w]
  /\ clean => InFlight \cap crowded = {} /\ Whole

(* A limit that was saved is the limit a restart finds.                    *)
LEMMA LoadedIsSaved ==
  ASSUME disk \in Limits
  PROVE  disk # Torn /\ Loaded = disk
BY LimitAssumption DEF Torn, Loaded

LEMMA BeginAlone ==
  ASSUME NEW w \in Windows, NEW l \in Limits, LimitTypeOK, SavedAlone,
         SaveBegin(w, l)
  PROVE  SavedAlone'
<1>1. /\ call[w] = "idle" /\ call' = [call EXCEPT ![w] = "write"]
      /\ at' = [at EXCEPT ![w] = "tmp"] /\ UNCHANGED <<limit, disk>>
      /\ call \in [Windows -> {"idle", "write", "rename", "unlink", "apply"}]
      /\ at \in [Windows -> {"tmp", "disk", "lost"}]
      /\ want' = [want EXCEPT ![w] = l] /\ want \in [Windows -> Limits]
  BY DEF SaveBegin, LimitTypeOK
<1>2. InFlight' = InFlight \cup {w} /\ w \notin InFlight
  BY <1>1 DEF InFlight
<1>3. CASE InFlight = {}
  <2>1. crowded' = {} /\ InFlight' = {w} /\ clean' = clean
    BY <1>2, <1>3 DEF SaveBegin, Meets, LimitTypeOK
  <2>2. call'[w] = "write" /\ at'[w] = "tmp"
    BY <1>1
  <2>3. clean => Whole'
    <3>1. SUFFICES ASSUME clean PROVE Whole'
      OBVIOUS
    <3>2. disk # Torn /\ limit = Loaded
      BY <1>3, <3>1 DEF SavedAlone, Whole, InFlight
    <3>3. QED
      BY <1>1, <3>2 DEF Whole, Loaded
  <2>4. QED
    BY <2>1, <2>2, <2>3 DEF SavedAlone
<1>4. CASE InFlight # {}
  <2>1. crowded' = InFlight' /\ ~clean'
    BY <1>2, <1>4 DEF SaveBegin, Meets
  <2>2. QED
    BY <2>1 DEF SavedAlone
<1>5. QED
  BY <1>3, <1>4

(* A request that is not crowded is the only one in flight: what another   *)
(* request does is no step of it.                                          *)
LEMMA OnlyOne ==
  ASSUME SavedAlone, NEW w \in Windows, call[w] # "idle",
         w \notin crowded \/ clean
  PROVE  InFlight = {w} /\ w \notin crowded
<1>1. w \in InFlight
  BY DEF InFlight
<1>2. w \notin crowded
  BY <1>1 DEF SavedAlone
<1>3. QED
  BY <1>1, <1>2 DEF SavedAlone

LEMMA SaveAlone ==
  ASSUME NEW w \in Windows, LimitTypeOK, SavedAlone,
         SaveWrite(w) \/ SaveFail(w) \/ SaveRefused(w) \/ SaveRename(w)
  PROVE  SavedAlone'
<1>1. /\ call \in [Windows -> {"idle", "write", "rename", "unlink", "apply"}]
      /\ at \in [Windows -> {"tmp", "disk", "lost"}]
      /\ want \in [Windows -> Limits] /\ call[w] \notin {"idle", "apply"}
      /\ UNCHANGED <<limit, crowded, clean>>
  BY DEF LimitTypeOK, SaveWrite, SaveFail, SaveRefused, SaveRename, history
<1>2. \A v \in Windows \ {w} : call'[v] = call[v]
  BY <1>1 DEF SaveWrite, SaveFail, SaveRefused, SaveRename
<1>3. InFlight' = InFlight \/ InFlight' = InFlight \ {w}
  BY <1>1, <1>2 DEF InFlight
<1>4. CASE w \in crowded
  <2>1. ~clean
    BY <1>1, <1>4, OnlyOne
  <2>2. \A v \in InFlight : v \in crowded
    <3>1. w \in InFlight
      BY <1>1 DEF InFlight
    <3>2. QED
      BY <1>4, <3>1 DEF SavedAlone
  <2>3. QED
    BY <1>1, <1>3, <2>1, <2>2 DEF SavedAlone
<1>5. CASE w \notin crowded
  <2>1. InFlight = {w}
    BY <1>1, <1>5, OnlyOne
  <2>2. /\ call[w] = "write" => at[w] = "tmp"
        /\ call[w] = "rename" => tmp = want[w]
    BY <1>5, <2>1 DEF SavedAlone
  <2>3. clean => disk # Torn /\ limit = Loaded
    BY <1>1, <2>1 DEF SavedAlone, Whole, InFlight
  <2>4. CASE SaveWrite(w)
    <3>1. /\ InFlight' = {w} /\ call'[w] = "rename" /\ tmp' = want'[w]
          /\ disk' = disk
      BY <1>1, <1>2, <2>1, <2>2, <2>4 DEF SaveWrite, InFlight
    <3>2. QED
      BY <1>1, <1>5, <2>3, <3>1 DEF SavedAlone, Whole, Loaded
  <2>5. CASE SaveFail(w)
    <3>1. InFlight' = {w} /\ call'[w] = "unlink" /\ disk' = disk
      BY <1>1, <1>2, <2>1, <2>5 DEF SaveFail, InFlight
    <3>2. QED
      BY <1>1, <1>5, <2>3, <3>1 DEF SavedAlone, Whole, Loaded
  <2>6. CASE SaveRefused(w)
    <3>1. InFlight' = {} /\ disk' = disk
      BY <1>1, <1>2, <2>1, <2>6 DEF SaveRefused, InFlight
    <3>2. QED
      BY <1>1, <2>3, <3>1 DEF SavedAlone, Whole, Loaded
  <2>7. CASE SaveRename(w)
    <3>1. /\ InFlight' = {w} /\ call'[w] = "apply"
          /\ disk' = want[w] /\ want' = want
      BY <1>1, <1>2, <2>1, <2>2, <2>7 DEF SaveRename, history, InFlight
    <3>2. disk' \in Limits /\ disk' # Torn /\ Loaded' = want'[w]
      BY <1>1, <3>1, LimitAssumption DEF Torn, Loaded
    <3>3. Whole'
      BY <3>1, <3>2 DEF Whole
    <3>4. QED
      BY <1>1, <1>5, <3>1, <3>3 DEF SavedAlone
  <2>8. QED
    BY <2>4, <2>5, <2>6, <2>7
<1>6. QED
  BY <1>4, <1>5

LEMMA SavedKeepsAlone ==
  ASSUME NEW w \in Windows, LimitTypeOK, SavedAlone, Saved(w)
  PROVE  SavedAlone'
<1>1. /\ call \in [Windows -> {"idle", "write", "rename", "unlink", "apply"}]
      /\ call[w] = "apply" /\ limit' = want[w] /\ want[w] \in Limits
      /\ call' = [call EXCEPT ![w] = "idle"]
      /\ want' = [want EXCEPT ![w] = Full] /\ want \in [Windows -> Limits]
      /\ clean' = (clean \/ w \notin crowded)
      /\ UNCHANGED <<disk, tmp, at, crowded>>
  BY DEF LimitTypeOK, Saved
<1>2. InFlight' = InFlight \ {w} /\ w \in InFlight
  BY <1>1 DEF InFlight
<1>3. CASE w \in crowded
  <2>1. ~clean /\ \A v \in InFlight : v \in crowded
    BY <1>2, <1>3 DEF SavedAlone
  <2>2. QED
    BY <1>1, <1>2, <1>3, <2>1 DEF SavedAlone
<1>4. CASE w \notin crowded
  <2>1. InFlight = {w} /\ disk = want[w]
    BY <1>1, <1>2, <1>4 DEF SavedAlone
  <2>2. disk' # Torn /\ limit' = Loaded'
    BY <1>1, <2>1, LoadedIsSaved DEF Loaded
  <2>3. QED
    BY <1>2, <2>1, <2>2 DEF SavedAlone, Whole
<1>5. QED
  BY <1>3, <1>4

LEMMA AloneStep ==
  ASSUME LimitTypeOK, SavedAlone, [Next]_vars
  PROVE  SavedAlone'
<1>1. ASSUME UNCHANGED limitVars PROVE SavedAlone'
  BY <1>1 DEF limitVars, SavedAlone, Whole, InFlight, Loaded
<1>2. ASSUME NEW c \in Children, ChildStep(c) PROVE UNCHANGED limitVars
  BY <1>2
  DEF ChildStep, Register, Exit, Release, Hold, Unhold, Terminate, PinLapses, Adopt
<1>3. Tick \/ LoseSupport \/ Wake \/ UNCHANGED vars => UNCHANGED limitVars
  BY DEF Tick, LoseSupport, Wake, vars, limitVars
<1>4. ASSUME NEW w \in Windows, LimitStep(w) PROVE SavedAlone'
  BY <1>4, BeginAlone, SaveAlone, SavedKeepsAlone
  DEF LimitStep, ApplyLimit, SaveStep
<1> QED
  BY <1>1, <1>2, <1>3, <1>4 DEF Next

(* Whatever windows there are: requests that meet no other leave the file  *)
(* whole at every point, with the limit in force or the one about to be    *)
(* (store.ts, savePowerLimit(); governor.ts, setLimit()).                  *)
THEOREM LimitHolds == Spec => []LimitSurvives
<1>1. Init => SavedAlone
  <2>1. SUFFICES ASSUME Init PROVE SavedAlone
    OBVIOUS
  <2>2. InFlight = {} /\ disk = NoFile /\ limit = Full
    BY <2>1 DEF Init, LimitInit, InFlight
  <2>3. disk # Torn /\ Loaded = Full
    BY <2>2, LimitAssumption DEF NoFile, Torn, Loaded
  <2>4. QED
    BY <2>2, <2>3 DEF SavedAlone, Whole
<1>2. GovernorInv /\ SavedAlone /\ [Next]_vars => SavedAlone'
  BY AloneStep DEF GovernorInv
<1>3. SavedAlone => LimitSurvives
  BY DEF SavedAlone, Whole, LimitSurvives
<1> QED
  BY <1>1, <1>2, <1>3, InvHolds, PTL DEF Spec
=============================================================================
