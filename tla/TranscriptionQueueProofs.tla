------------------------ MODULE TranscriptionQueueProofs ------------------------
(***************************************************************************)
(* Theorems about TranscriptionQueue, for any files, team operations and   *)
(* bounds, with the disk and the model that come and go.                   *)
(*                                                                         *)
(* The handlers are compositions of a few operators on the record of what  *)
(* they share, and what each operator keeps is proved once.                *)
(*                                                                         *)
(* RInv: those of the language probes leave the cards and the run alone    *)
(* (Same); only Begin and the ends of a run touch both, and that a card    *)
(* says it is transcribed for no other run than its own (Running) is what  *)
(* each of them keeps.                                                     *)
(* ListInv: every row that listens is on the list, and in line or heard    *)
(* (Lines); the card of a run has been started and is neither completed    *)
(* nor failed before the run ends (Started); what is removed is off the    *)
(* list; and what is on the disk is a list of the person's cards (Snap).   *)
(* DocInv: a document is not the one the file should have only for the run *)
(* that still puts the previous one back.                                  *)
(* Attends: a line of probes has a probe or a run that will come back to   *)
(* it, and, while nothing is taken away, a queued card has a run or a      *)
(* download.                                                               *)
(* SaveInv: the newest list on its way to the disk is the one a restart    *)
(* should bring back, unless the timer is armed.                           *)
(***************************************************************************)
EXTENDS TranscriptionQueue, FilterProofs

(* The record of what the handlers share has its twelve fields, a status   *)
(* and a language for every file, and a run with its four.                 *)
Shaped(Q) ==
  /\ Q = [list |-> Q.list, status |-> Q.status, lang |-> Q.lang,
          listening |-> Q.listening, probeQueue |-> Q.probeQueue,
          walker |-> Q.walker, mode |-> Q.mode, run |-> Q.run,
          tries |-> Q.tries, asks |-> Q.asks, tools |-> Q.tools,
          model |-> Q.model]
  /\ Q.status = [j \in Jobs |-> Q.status[j]]
  /\ Q.lang = [j \in Jobs |-> Q.lang[j]]
  /\ Q.run = [pc |-> Q.run.pc, job |-> Q.run.job, try |-> Q.run.try,
              stopped |-> Q.run.stopped]

(* Nothing about the cards and the run differs.                            *)
Same(Q, R) ==
  /\ Shaped(R)
  /\ R.list = Q.list /\ R.status = Q.status /\ R.lang = Q.lang
  /\ R.run = Q.run /\ R.tries = Q.tries /\ R.tools = Q.tools
  /\ R.model = Q.model

(* A card that says it is transcribed is the card of the run.              *)
Running(Q) ==
  \A j \in Jobs : Q.status[j] = "processing" =>
    Q.run.job = j /\ Q.run.pc \in {"running", "saving", "renaming"}

Silent(Q) == \A j \in Jobs : Q.status[j] # "processing"

-----------------------------------------------------------------------------
(* The probes leave the cards and the run alone.                           *)
LEMMA SameTrans ==
  ASSUME NEW Q, NEW R, NEW T, Same(Q, R), Same(R, T)
  PROVE  Same(Q, T)
BY DEF Same

LEMMA SameSelf ==
  ASSUME NEW Q, Shaped(Q)
  PROVE  Same(Q, Q)
BY DEF Same

(* What a handler writes about the probes alone: one field, and then the   *)
(* combinations of fields the handlers write.                              *)
LEMMA FieldSame ==
  ASSUME NEW Q, Shaped(Q), NEW x
  PROVE  /\ Same(Q, [Q EXCEPT !.listening = x])
         /\ Same(Q, [Q EXCEPT !.probeQueue = x])
         /\ Same(Q, [Q EXCEPT !.walker = x])
         /\ Same(Q, [Q EXCEPT !.mode = x])
<1>1. Same(Q, [Q EXCEPT !.listening = x])
  BY DEF Shaped, Same
<1>2. Same(Q, [Q EXCEPT !.probeQueue = x])
  BY DEF Shaped, Same
<1>3. Same(Q, [Q EXCEPT !.walker = x])
  BY DEF Shaped, Same
<1>4. Same(Q, [Q EXCEPT !.mode = x])
  BY DEF Shaped, Same
<1>5. QED
  BY <1>1, <1>2, <1>3, <1>4

LEMMA ProbeFieldsSame ==
  ASSUME NEW Q, Shaped(Q)
  PROVE  /\ \A w, m : Same(Q, [Q EXCEPT !.walker = w, !.mode = m])
         /\ \A line, heard :
              Same(Q, [Q EXCEPT !.probeQueue = line, !.listening = heard])
         /\ \A line, heard :
              Same(Q, [Q EXCEPT !.listening = heard, !.probeQueue = line])
         /\ \A line, heard, w :
              Same(Q, [Q EXCEPT !.walker = w, !.probeQueue = line,
                                !.listening = heard])
         /\ \A line, m : Same(Q, [Q EXCEPT !.mode = m, !.probeQueue = line])
         /\ \A line, heard, m :
              Same(Q, [Q EXCEPT !.probeQueue = line, !.mode = m,
                                !.listening = heard])
<1> SUFFICES ASSUME NEW heard, NEW line, NEW w, NEW m
    PROVE  /\ Same(Q, [Q EXCEPT !.walker = w, !.mode = m])
           /\ Same(Q, [Q EXCEPT !.probeQueue = line, !.listening = heard])
           /\ Same(Q, [Q EXCEPT !.listening = heard, !.probeQueue = line])
           /\ Same(Q, [Q EXCEPT !.walker = w, !.probeQueue = line,
                                !.listening = heard])
           /\ Same(Q, [Q EXCEPT !.mode = m, !.probeQueue = line])
           /\ Same(Q, [Q EXCEPT !.probeQueue = line, !.mode = m,
                                !.listening = heard])
  BY Zenon
<1> DEFINE W(R) == [R EXCEPT !.walker = w]
           M(R) == [R EXCEPT !.mode = m]
           P(R) == [R EXCEPT !.probeQueue = line]
           L(R) == [R EXCEPT !.listening = heard]
<1>1. \A R : Shaped(R) =>
        /\ Same(R, W(R)) /\ Same(R, M(R)) /\ Same(R, P(R)) /\ Same(R, L(R))
        /\ Shaped(W(R)) /\ Shaped(M(R)) /\ Shaped(P(R)) /\ Shaped(L(R))
  <2>1. ASSUME NEW R, Shaped(R)
        PROVE  /\ Same(R, W(R)) /\ Same(R, M(R)) /\ Same(R, P(R))
               /\ Same(R, L(R))
    BY <2>1, FieldSame, Zenon
  <2> HIDE DEF W, M, P, L
  <2>2. QED
    BY <2>1 DEF Same
<1>2. /\ [Q EXCEPT !.walker = w, !.mode = m] = M(W(Q))
      /\ [Q EXCEPT !.probeQueue = line, !.listening = heard] = L(P(Q))
      /\ [Q EXCEPT !.listening = heard, !.probeQueue = line] = P(L(Q))
      /\ [Q EXCEPT !.walker = w, !.probeQueue = line,
                   !.listening = heard] = L(P(W(Q)))
      /\ [Q EXCEPT !.mode = m, !.probeQueue = line] = P(M(Q))
      /\ [Q EXCEPT !.probeQueue = line, !.mode = m,
                   !.listening = heard] = L(M(P(Q)))
  OBVIOUS
<1> HIDE DEF W, M, P, L
<1>3. /\ Same(Q, M(W(Q))) /\ Same(Q, L(P(Q))) /\ Same(Q, P(L(Q)))
      /\ Same(Q, P(M(Q))) /\ Shaped(P(W(Q))) /\ Same(Q, P(W(Q)))
      /\ Shaped(M(P(Q))) /\ Same(Q, M(P(Q)))
  BY <1>1, SameTrans
<1>4. Same(Q, L(P(W(Q)))) /\ Same(Q, L(M(P(Q))))
  BY <1>1, <1>3, SameTrans
<1>5. QED
  BY <1>2, <1>3, <1>4

LEMMA DrainSame ==
  ASSUME NEW Q, Shaped(Q)
  PROVE  Same(Q, Drain(Q))
<1> DEFINE rest == [Q EXCEPT !.walker = None, !.mode = "on"]
<1>1. Same(Q, rest)
  BY ProbeFieldsSame, Zenon
<1>2. Shaped(rest)
  <2> HIDE DEF rest
  <2>1. QED
    BY <1>1 DEF Same
<1>3. ASSUME NEW heard, NEW line, NEW w
      PROVE  /\ Same(rest, [rest EXCEPT !.probeQueue = line,
                                        !.listening = heard])
             /\ Same(rest, [rest EXCEPT !.walker = w, !.probeQueue = line,
                                        !.listening = heard])
  <2> HIDE DEF rest
  <2>1. QED
    BY <1>2, ProbeFieldsSame, Zenon
<1>4. CASE Q.run.pc # "idle"
  BY <1>1, <1>4 DEF Drain
<1>5. CASE Q.run.pc = "idle"
  <2> DEFINE line == Q.probeQueue
             fit  == {i \in DOMAIN line : CanListen(Q, line[i])}
             next == CHOOSE i \in fit : \A k \in fit : i <= k
  <2>1. CASE fit = {}
    <3> DEFINE heard == rest.listening \ ToSet(line)
               R     == [rest EXCEPT !.probeQueue = <<>>, !.listening = heard]
    <3>1. Drain(Q) = R
      BY <1>5, <2>1 DEF Drain
    <3>2. Same(rest, R)
      BY <1>3
    <3> HIDE DEF rest, R
    <3>3. QED
      BY <1>1, <3>1, <3>2, SameTrans
  <2>2. CASE fit # {}
    <3> DEFINE w     == line[next]
               l     == SubSeq(line, next + 1, Len(line))
               heard == rest.listening \ {line[i] : i \in 1..(next - 1)}
               R     == [rest EXCEPT !.walker = w, !.probeQueue = l,
                                     !.listening = heard]
    <3>1. Drain(Q) = R
      BY <1>5, <2>2 DEF Drain
    <3>2. Same(rest, R)
      <4> HIDE DEF w, l, heard, rest
      <4>1. QED
        BY <1>3, Zenon
    <3> HIDE DEF rest, R
    <3>3. QED
      BY <1>1, <3>1, <3>2, SameTrans
  <2>3. QED
    BY <2>1, <2>2
<1>6. QED
  BY <1>4, <1>5

LEMMA PumpProbesSame ==
  ASSUME NEW Q, Shaped(Q)
  PROVE  Same(Q, PumpProbes(Q))
BY DrainSame, SameSelf DEF PumpProbes

LEMMA ScheduleSame ==
  ASSUME NEW Q, Shaped(Q), NEW j
  PROVE  Same(Q, Schedule(Q, j))
<1> DEFINE heard == Q.listening \cup {j}
           line  == Append(Q.probeQueue, j)
           R     == [Q EXCEPT !.listening = heard, !.probeQueue = line]
<1>1. Schedule(Q, j) = Q \/ Schedule(Q, j) = PumpProbes(R)
  BY DEF Schedule
<1>2. Same(Q, R)
  <2> HIDE DEF heard, line
  <2>1. QED
    BY ProbeFieldsSame, Zenon
<1> HIDE DEF R
<1>3. Shaped(R)
  BY <1>2 DEF Same
<1>4. QED
  BY <1>1, <1>2, <1>3, PumpProbesSame, SameSelf, SameTrans

LEMMA ResumeSame ==
  ASSUME NEW Q, Shaped(Q)
  PROVE  Same(Q, Resume(Q))
<1> DEFINE heard == Q.listening \cup ToSet(Unheard(Q))
           line  == Q.probeQueue \o Unheard(Q)
           R     == [Q EXCEPT !.listening = heard, !.probeQueue = line]
<1>1. Resume(Q) = Q \/ Resume(Q) = PumpProbes(R)
  BY DEF Resume
<1>2. Same(Q, R)
  <2> HIDE DEF heard, line
  <2>1. QED
    BY ProbeFieldsSame, Zenon
<1> HIDE DEF R
<1>3. Shaped(R)
  BY <1>2 DEF Same
<1>4. QED
  BY <1>1, <1>2, <1>3, PumpProbesSame, SameSelf, SameTrans

LEMMA StopProbingSame ==
  ASSUME NEW Q, Shaped(Q), NEW S
  PROVE  Same(Q, StopProbing(Q, S))
<1> DEFINE line  == Without(Q.probeQueue, S)
           m     == IF Probing(Q) \in S THEN "dropped" ELSE Q.mode
           heard == Q.listening \ S
<1>1. StopProbing(Q, S) = [Q EXCEPT !.probeQueue = line, !.mode = m,
                                    !.listening = heard]
  BY DEF StopProbing
<1> HIDE DEF line, m, heard
<1>2. Same(Q, [Q EXCEPT !.probeQueue = line, !.mode = m,
                        !.listening = heard])
  BY ProbeFieldsSame, Zenon
<1>3. QED
  BY <1>1, <1>2

LEMMA SettleSame ==
  ASSUME NEW Q, Shaped(Q), NEW j
  PROVE  Same(Q, Settle(Q, j))
<1> DEFINE other == Probing(Q)
           line  == IF other \in ToSet(Q.probeQueue) THEN Q.probeQueue
                    ELSE <<other>> \o Q.probeQueue
<1>1. Settle(Q, j) = Q
      \/ Settle(Q, j) = [Q EXCEPT !.mode = "stepping", !.probeQueue = line]
  BY DEF Settle
<1> HIDE DEF line
<1>2. Same(Q, [Q EXCEPT !.mode = "stepping", !.probeQueue = line])
  BY ProbeFieldsSame, Zenon
<1>3. QED
  BY <1>1, <1>2, SameSelf
-----------------------------------------------------------------------------
(* The run is given to a card only while no card says it is transcribed.   *)

(* What a handler writes about the cards and about the run.                *)
LEMMA CardFields ==
  ASSUME NEW Q, Shaped(Q), NEW st, st = [j \in Jobs |-> st[j]]
  PROVE  LET R == [Q EXCEPT !.status = st]
         IN  /\ Shaped(R) /\ R.status = st /\ R.run = Q.run /\ R.lang = Q.lang
             /\ R.tries = Q.tries
BY DEF Shaped

LEMMA RunFields ==
  ASSUME NEW Q, Shaped(Q), NEW pc, NEW job, NEW try, NEW stopped
  PROVE  LET r == [pc |-> pc, job |-> job, try |-> try, stopped |-> stopped]
             R == [Q EXCEPT !.run = r]
         IN  /\ Shaped(R) /\ R.status = Q.status /\ R.run = r
             /\ R.lang = Q.lang
             /\ r.pc = pc /\ r.job = job /\ r.stopped = stopped
<1> DEFINE r == [pc |-> pc, job |-> job, try |-> try, stopped |-> stopped]
<1>1. r = [pc |-> r.pc, job |-> r.job, try |-> r.try, stopped |-> r.stopped]
      /\ r.pc = pc /\ r.job = job /\ r.stopped = stopped
  OBVIOUS
<1> HIDE DEF r
<1>2. LET R == [Q EXCEPT !.run = r]
      IN  Shaped(R) /\ R.status = Q.status /\ R.run = r /\ R.lang = Q.lang
  BY <1>1 DEF Shaped
<1>3. QED
  BY <1>1, <1>2 DEF r

(* What transitionJob() allows.                                            *)
LEMMA MovedType ==
  ASSUME NEW st, st = [j \in Jobs |-> st[j]], NEW j, NEW s
  PROVE  LET m == Moved(st, j, s)
         IN  /\ m = [k \in Jobs |-> m[k]]
             /\ \A k \in Jobs : k # j => m[k] = st[k]
             /\ \A k \in Jobs : m[k] \in {s, st[k]}
             /\ j \in Jobs => m[j] = IF s \in Edges(st[j]) THEN s ELSE st[j]
BY DEF Moved

(* A card that leaves "processing" leaves nobody transcribed.              *)
LEMMA MovedSilent ==
  ASSUME NEW Q, Shaped(Q), Running(Q),
         NEW s \in {"completed", "failed", "cancelled"}
  PROVE  LET R == [Q EXCEPT !.status = Moved(@, Q.run.job, s)]
         IN  /\ Shaped(R) /\ Silent(R) /\ R.run = Q.run /\ R.lang = Q.lang
             /\ R.status = Moved(Q.status, Q.run.job, s)
<1> DEFINE st == Moved(Q.status, Q.run.job, s)
           R  == [Q EXCEPT !.status = st]
<1>1. /\ st = [k \in Jobs |-> st[k]]
      /\ \A k \in Jobs : k # Q.run.job => st[k] = Q.status[k]
      /\ Q.run.job \in Jobs /\ Q.status[Q.run.job] = "processing" =>
           st[Q.run.job] = s
      /\ \A k \in Jobs : st[k] \in {s, Q.status[k]}
  <2>1. Q.status = [k \in Jobs |-> Q.status[k]]
    BY DEF Shaped
  <2>2. s \in Edges("processing")
    BY DEF Edges
  <2>3. QED
    BY <2>1, <2>2, MovedType
<1> HIDE DEF st
<1>2. Shaped(R) /\ R.run = Q.run /\ R.lang = Q.lang /\ R.status = st
  BY <1>1, CardFields
<1> HIDE DEF R
<1>3. Silent(R)
  BY <1>1, <1>2 DEF Silent, Running
<1>4. QED
  BY <1>2, <1>3 DEF R, st

LEMMA RunningSame ==
  ASSUME NEW Q, NEW R, Same(Q, R), Running(Q)
  PROVE  Running(R)
BY DEF Same, Running

LEMMA SilentRuns ==
  ASSUME NEW Q, Silent(Q)
  PROVE  Running(Q)
BY DEF Silent, Running

LEMMA BeginRunning ==
  ASSUME NEW Q, Shaped(Q), Silent(Q), NEW j
  PROVE  Shaped(Begin(Q, j)) /\ Running(Begin(Q, j))
         /\ ~Begin(Q, j).run.stopped /\ Begin(Q, j).lang = Q.lang
<1> DEFINE st == Moved(Q.status, j, "processing")
           C  == [Q EXCEPT !.status = st]
           r  == [pc |-> "running", job |-> j, try |-> Q.tries[j],
                  stopped |-> FALSE]
           R  == [C EXCEPT !.run = r]
<1>1. Begin(Q, j) = R
  BY DEF Begin
<1>2. /\ st = [k \in Jobs |-> st[k]]
      /\ \A k \in Jobs : k # j => st[k] = Q.status[k]
  BY MovedType DEF Shaped
<1>3. Shaped(C) /\ C.status = st /\ C.lang = Q.lang
  <2> HIDE DEF st
  <2>1. QED
    BY <1>2, CardFields
<1>4. /\ Shaped(R) /\ R.status = C.status /\ R.lang = C.lang
      /\ R.run.pc = "running" /\ R.run.job = j /\ R.run.stopped = FALSE
  <2> HIDE DEF C
  <2>1. QED
    BY <1>3, RunFields
<1> HIDE DEF R, C, st
<1>5. Running(R)
  BY <1>2, <1>3, <1>4 DEF Running, Silent
<1>6. QED
  BY <1>1, <1>3, <1>4, <1>5

-----------------------------------------------------------------------------
(* What the handlers do to the run: nothing, or they give or take it with  *)
(* nobody stopped.                                                         *)
Kept(Q, R) ==
  /\ Shaped(R) /\ Running(R) /\ R.lang = Q.lang
  /\ R.run = Q.run \/ R.run.stopped = FALSE

LEMMA SameKept ==
  ASSUME NEW Q, NEW R, Running(Q), Same(Q, R)
  PROVE  Kept(Q, R)
BY RunningSame DEF Kept, Same

LEMMA PumpKept ==
  ASSUME NEW Q, Shaped(Q), Running(Q)
  PROVE  Kept(Q, Pump(Q))
<1> DEFINE queued == Waiting(Q)
           j      == Head(queued)
           S      == Settle(Q, j)
           st     == [k \in Jobs |-> IF k \in ToSet(queued) THEN "failed"
                                     ELSE Q.status[k]]
           P      == [S EXCEPT !.run = [pc |-> "settling", job |-> j,
                                        try |-> Q.tries[j], stopped |-> FALSE]]
<1>1. \/ Pump(Q) = Q
      \/ /\ Q.run.pc = "idle"
         /\ Pump(Q) \in {[Q EXCEPT !.status = st], P, Begin(S, j)}
  BY DEF Pump
<1>2. Kept(Q, Q)
  BY DEF Kept
<1>3. ASSUME Q.run.pc = "idle"
      PROVE  /\ Kept(Q, [Q EXCEPT !.status = st])
             /\ Kept(Q, P) /\ Kept(Q, Begin(S, j))
  <2>1. Silent(Q)
    BY <1>3 DEF Running, Silent
  <2>2. Same(Q, S)
    BY SettleSame
  <2>3. Shaped(S) /\ Silent(S) /\ S.lang = Q.lang
    <3> HIDE DEF S
    <3>1. QED
      BY <2>1, <2>2 DEF Same, Silent
  <2>4. Kept(Q, [Q EXCEPT !.status = st])
    <3> DEFINE R == [Q EXCEPT !.status = st]
    <3>1. st = [k \in Jobs |-> st[k]]
          /\ \A k \in Jobs : st[k] \in {"failed", Q.status[k]}
      OBVIOUS
    <3>2. Shaped(R) /\ R.status = st /\ R.run = Q.run /\ R.lang = Q.lang
      <4> HIDE DEF st
      <4>1. QED
        BY <3>1, CardFields
    <3> HIDE DEF R, st
    <3>3. Silent(R)
      BY <2>1, <3>1, <3>2 DEF Silent
    <3>4. Kept(Q, R)
      BY <3>2, <3>3, SilentRuns DEF Kept
    <3>5. QED
      BY <3>4 DEF R
  <2>5. Kept(Q, P)
    <3>1. Shaped(P) /\ P.status = S.status /\ P.lang = S.lang
          /\ P.run.stopped = FALSE
      <4> HIDE DEF S
      <4>1. QED
        BY <2>3, RunFields
    <3> HIDE DEF P, S
    <3>2. Silent(P)
      BY <2>3, <3>1 DEF Silent
    <3>3. QED
      BY <2>3, <3>1, <3>2, SilentRuns DEF Kept
  <2>6. Kept(Q, Begin(S, j))
    <3> HIDE DEF S, j
    <3>1. QED
      BY <2>3, BeginRunning DEF Kept
  <2>7. QED
    BY <2>4, <2>5, <2>6
<1>4. QED
  <2> HIDE DEF st, P, S, j
  <2>1. QED
    BY <1>1, <1>2, <1>3

LEMMA FinishKept ==
  ASSUME NEW Q, Shaped(Q), Silent(Q)
  PROVE  Kept(Q, Finish(Q)) /\ Finish(Q).run.stopped = FALSE
<1> DEFINE I == [Q EXCEPT !.run = [pc |-> "idle", job |-> None, try |-> 0,
                                   stopped |-> FALSE]]
           P == Pump(I)
<1>1. Finish(Q) = PumpProbes(P)
  BY DEF Finish, Idle
<1>2. Shaped(I) /\ I.status = Q.status /\ I.lang = Q.lang
      /\ I.run.stopped = FALSE
  BY RunFields
<1>3. Silent(I)
  <2> HIDE DEF I
  <2>1. QED
    BY <1>2 DEF Silent
<1>4. Kept(I, P)
  <2> HIDE DEF I
  <2>1. QED
    BY <1>2, <1>3, SilentRuns, PumpKept
<1>5. Shaped(P) /\ Running(P) /\ P.lang = Q.lang /\ P.run.stopped = FALSE
  <2> HIDE DEF I, P
  <2>1. QED
    BY <1>2, <1>4 DEF Kept
<1>6. Same(P, PumpProbes(P))
  <2> HIDE DEF P
  <2>1. QED
    BY <1>5, PumpProbesSame
<1>7. QED
  <2> HIDE DEF P
  <2>1. QED
    BY <1>1, <1>5, <1>6, RunningSame DEF Kept, Same

(* A stop reaches whisper only through the card that is being transcribed. *)
LEMMA StopCardsKept ==
  ASSUME NEW Q, Shaped(Q), Running(Q), NEW S \in SUBSET Jobs
  PROVE  LET R == StopCards(Q, S)
         IN  /\ Shaped(R) /\ Running(R) /\ R.lang = Q.lang
             /\ R.run.job = Q.run.job
             /\ ~Q.run.stopped /\ R.run.stopped =>
                  /\ Q.status[Q.run.job] = "processing"
                  /\ R.status[Q.run.job] = "cancelled"
<1> DEFINE P  == StopProbing(Q, S)
           st == [j \in Jobs |-> IF j \in S THEN Moved(P.status, j, "cancelled")[j]
                                 ELSE P.status[j]]
           C  == [P EXCEPT !.status = st]
           b  == P.run.stopped \/ (Q.run.pc = "running" /\
                                   \E j \in S : Q.status[j] = "processing")
           R  == [C EXCEPT !.run = [P.run EXCEPT !.stopped = b]]
<1>1. Same(Q, P) /\ Shaped(P) /\ P.run = Q.run /\ P.status = Q.status
      /\ P.lang = Q.lang
  <2>1. Same(Q, P)
    BY StopProbingSame
  <2> HIDE DEF P
  <2>2. QED
    BY <2>1 DEF Same
<1> HIDE DEF P
<1>2. StopCards(Q, S) = [P EXCEPT !.status = st, !.run.stopped = b]
  BY DEF StopCards, P
<1>3. /\ st = [j \in Jobs |-> st[j]]
      /\ \A j \in Jobs : st[j] \in {"cancelled", Q.status[j]}
      /\ \A j \in S : Q.status[j] = "processing" => st[j] = "cancelled"
  BY <1>1 DEF Moved, Edges, Shaped
<1>4. Shaped(C) /\ C.status = st /\ C.run = Q.run /\ C.lang = Q.lang
  <2> HIDE DEF st
  <2>1. QED
    BY <1>1, <1>3, CardFields
<1>5. StopCards(Q, S) = R
  <2>1. [P EXCEPT !.status = st, !.run.stopped = b]
        = [C EXCEPT !.run = [C.run EXCEPT !.stopped = b]]
    <3> HIDE DEF st, b
    <3>1. QED
      OBVIOUS
  <2> HIDE DEF C, st, b
  <2>2. QED
    BY <1>1, <1>2, <1>4, <2>1
<1>6. [P.run EXCEPT !.stopped = b]
      = [pc |-> Q.run.pc, job |-> Q.run.job, try |-> Q.run.try, stopped |-> b]
  <2> HIDE DEF b
  <2>1. QED
    BY <1>1 DEF Shaped
<1>7. /\ Shaped(R) /\ R.status = st /\ R.lang = Q.lang
      /\ R.run.pc = Q.run.pc /\ R.run.job = Q.run.job /\ R.run.stopped = b
  <2> HIDE DEF C, b, st
  <2>1. QED
    BY <1>4, <1>6, RunFields
<1> HIDE DEF R, C, st
<1>8. Running(R)
  BY <1>3, <1>7 DEF Running
<1>9. ASSUME ~Q.run.stopped, R.run.stopped
      PROVE  /\ Q.status[Q.run.job] = "processing"
             /\ R.status[Q.run.job] = "cancelled"
  <2>1. PICK j \in S : Q.status[j] = "processing"
    BY <1>1, <1>7, <1>9
  <2>2. j = Q.run.job
    BY <2>1 DEF Running
  <2>3. QED
    BY <1>3, <1>7, <2>1, <2>2
<1>10. QED
  BY <1>5, <1>7, <1>8, <1>9

-----------------------------------------------------------------------------
(* The fields that say nothing about the cards and the run, and the        *)
(* languages.                                                              *)
LEMMA OtherFields ==
  ASSUME NEW Q, Shaped(Q), NEW x
  PROVE  \A R \in {[Q EXCEPT !.list = x], [Q EXCEPT !.tries = x],
                   [Q EXCEPT !.asks = x], [Q EXCEPT !.tools = x],
                   [Q EXCEPT !.model = x]} :
           Shaped(R) /\ R.status = Q.status /\ R.run = Q.run /\ R.lang = Q.lang
<1>1. LET R == [Q EXCEPT !.list = x]
      IN  Shaped(R) /\ R.status = Q.status /\ R.run = Q.run /\ R.lang = Q.lang
  BY DEF Shaped
<1>2. LET R == [Q EXCEPT !.tries = x]
      IN  Shaped(R) /\ R.status = Q.status /\ R.run = Q.run /\ R.lang = Q.lang
  BY DEF Shaped
<1>3. LET R == [Q EXCEPT !.asks = x]
      IN  Shaped(R) /\ R.status = Q.status /\ R.run = Q.run /\ R.lang = Q.lang
  BY DEF Shaped
<1>4. LET R == [Q EXCEPT !.tools = x]
      IN  Shaped(R) /\ R.status = Q.status /\ R.run = Q.run /\ R.lang = Q.lang
  BY DEF Shaped
<1>5. LET R == [Q EXCEPT !.model = x]
      IN  Shaped(R) /\ R.status = Q.status /\ R.run = Q.run /\ R.lang = Q.lang
  BY DEF Shaped
<1>6. QED
  BY <1>1, <1>2, <1>3, <1>4, <1>5

LEMMA LangFields ==
  ASSUME NEW Q, Shaped(Q), NEW l, l = [j \in Jobs |-> l[j]]
  PROVE  LET R == [Q EXCEPT !.lang = l]
         IN  Shaped(R) /\ R.status = Q.status /\ R.run = Q.run /\ R.lang = l
BY DEF Shaped

-----------------------------------------------------------------------------
(* The invariant: the record is shaped, a card says it is transcribed only *)
(* for its own run, and what is on the disk is a list.                     *)
SnapShaped(s) ==
  /\ s = [list |-> s.list, status |-> s.status, lang |-> s.lang]
  /\ s.lang = [j \in Jobs |-> s.lang[j]]

RInv ==
  /\ Shaped(Queue) /\ Running(Queue)
  /\ SnapShaped(disk) /\ (writing # None => SnapShaped(writing))
  /\ crashes \in Nat

(* What one step may do to a run and to a person's answer.                 *)
Hits ==
  ~run.stopped /\ run'.stopped =>
    status[run.job] = "processing" /\ status'[run.job] = "cancelled"
Answers ==
  \A j \in Jobs : lang[j] = "manual" /\ lang'[j] # "manual" =>
    AskLanguage(j) \/ crashes' # crashes

StepKeeps == RInv' /\ Hits /\ Answers

LEMMA QueueFields ==
  /\ Queue.status = status /\ Queue.run = run /\ Queue.lang = lang
  /\ Queue.list = list /\ Queue.tries = tries
  /\ Queue'.status = status' /\ Queue'.run = run' /\ Queue'.lang = lang'
BY DEF Queue

LEMMA BecomesIs ==
  ASSUME NEW R, Shaped(R), Becomes(R)
  PROVE  Queue' = R /\ status' = R.status /\ run' = R.run /\ lang' = R.lang
<1>1. /\ list' = R.list /\ status' = R.status /\ lang' = R.lang
      /\ listening' = R.listening /\ probeQueue' = R.probeQueue
      /\ walker' = R.walker /\ mode' = R.mode /\ run' = R.run
      /\ tries' = R.tries /\ asks' = R.asks
      /\ tools' = R.tools /\ model' = R.model
  BY DEF Becomes
<1>2. QED
  BY <1>1 DEF Queue, Shaped

(* A handler that leaves the disk alone.                                   *)
LEMMA HandlerKeeps ==
  ASSUME RInv, NEW R, Becomes(R), UNCHANGED <<writing, disk, crashes>>,
         Shaped(R), Running(R),
         ~run.stopped /\ R.run.stopped =>
           status[run.job] = "processing" /\ R.status[run.job] = "cancelled",
         \A j \in Jobs : lang[j] = "manual" /\ R.lang[j] # "manual" =>
           AskLanguage(j)
  PROVE  StepKeeps
<1>1. Queue' = R /\ status' = R.status /\ run' = R.run /\ lang' = R.lang
  BY BecomesIs
<1>2. RInv'
  <2>1. Shaped(Queue') /\ Running(Queue')
    BY <1>1
  <2>2. QED
    BY <2>1 DEF RInv
<1>3. QED
  BY <1>1, <1>2 DEF StepKeeps, Hits, Answers

(* ... and neither names a language nor stops a run.                       *)
LEMMA KeptKeeps ==
  ASSUME RInv, NEW R, Becomes(R), UNCHANGED <<writing, disk, crashes>>,
         Kept(Queue, R) \/ (Shaped(R) /\ Running(R) /\ R.lang = lang
                            /\ R.run.stopped = FALSE)
  PROVE  StepKeeps
<1>1. Shaped(R) /\ Running(R) /\ R.lang = lang
      /\ (R.run = run \/ R.run.stopped = FALSE)
  BY QueueFields DEF Kept
<1>2. QED
  BY <1>1, HandlerKeeps

(* A step that writes the variables themselves.                            *)
LEMMA PlainKeeps ==
  ASSUME RInv, UNCHANGED <<disk, writing, crashes>>,
         status' = [j \in Jobs |-> status'[j]],
         lang' = [j \in Jobs |-> lang'[j]],
         run' = [pc |-> run'.pc, job |-> run'.job, try |-> run'.try,
                 stopped |-> run'.stopped],
         Running(Queue'), run'.stopped = run.stopped,
         \A j \in Jobs : lang[j] = "manual" => lang'[j] = "manual"
  PROVE  StepKeeps
<1>1. Shaped(Queue')
  BY DEF Shaped, Queue
<1>2. RInv'
  BY <1>1 DEF RInv
<1>3. Hits /\ Answers
  BY DEF Hits, Answers
<1>4. QED
  BY <1>2, <1>3 DEF StepKeeps

-----------------------------------------------------------------------------
(* What a person asks for.                                                 *)
LEMMA AddKeeps ==
  ASSUME RInv, NEW j \in Jobs, Add(j)
  PROVE  StepKeeps
<1>1. /\ status' = [status EXCEPT ![j] = "analyzing"]
      /\ UNCHANGED <<lang, run, disk, writing, crashes>>
  BY DEF Add, diskVars
<1>2. /\ status = [k \in Jobs |-> status[k]]
      /\ lang = [k \in Jobs |-> lang[k]]
      /\ run = [pc |-> run.pc, job |-> run.job, try |-> run.try,
                stopped |-> run.stopped]
  BY QueueFields DEF RInv, Shaped
<1>3. status' = [k \in Jobs |-> status'[k]]
      /\ \A k \in Jobs : status'[k] \in {"analyzing", status[k]}
  BY <1>1, <1>2
<1>4. Running(Queue')
  BY <1>1, <1>3, QueueFields DEF RInv, Running
<1>5. QED
  BY <1>1, <1>2, <1>3, <1>4, PlainKeeps

LEMMA AnalyzedKeeps ==
  ASSUME RInv, NEW j \in Jobs, Analyzed(j)
  PROVE  StepKeeps
<1> DEFINE st == Moved(status, j, "ready")
           A  == [Queue EXCEPT !.status = st]
<1>1. Becomes(Schedule(A, j)) /\ UNCHANGED <<disk, writing, crashes>>
  BY QueueFields DEF Analyzed, diskVars
<1>2. /\ st = [k \in Jobs |-> st[k]]
      /\ \A k \in Jobs : st[k] \in {"ready", status[k]}
  BY MovedType, QueueFields DEF RInv, Shaped
<1>3. Shaped(A) /\ A.status = st /\ A.run = run /\ A.lang = lang
  <2> HIDE DEF st
  <2>1. QED
    BY <1>2, CardFields, QueueFields DEF RInv
<1> HIDE DEF A, st
<1>4. Running(A)
  BY <1>2, <1>3, QueueFields DEF RInv, Running
<1>5. Same(A, Schedule(A, j))
  BY <1>3, ScheduleSame
<1>6. Kept(Queue, Schedule(A, j))
  BY <1>3, <1>4, <1>5, RunningSame, QueueFields DEF Kept, Same
<1>7. QED
  BY <1>1, <1>6, KeptKeeps

LEMMA StartKeeps ==
  ASSUME RInv, NEW S \in SUBSET Jobs, Start(S)
  PROVE  StepKeeps
<1> DEFINE st == [j \in Jobs |-> IF j \in S THEN "queued" ELSE status[j]]
           tr == [j \in Jobs |-> IF j \in S THEN tries[j] + 1 ELSE tries[j]]
           l  == [j \in Jobs |-> IF j \in S /\ lang[j] = "run" THEN "none"
                                 ELSE lang[j]]
           A  == [Queue EXCEPT !.status = st]
           B  == [A EXCEPT !.tries = tr]
           C  == [B EXCEPT !.lang = l]
<1>1. Becomes(Pump(C)) /\ UNCHANGED <<disk, writing, crashes>>
  <2>1. C = [Queue EXCEPT
               !.status = [j \in Jobs |-> IF j \in S THEN "queued" ELSE @[j]],
               !.tries  = [j \in Jobs |-> IF j \in S THEN @[j] + 1 ELSE @[j]],
               !.lang   = [j \in Jobs |-> IF j \in S /\ @[j] = "run"
                                          THEN "none" ELSE @[j]]]
    BY QueueFields
  <2> HIDE DEF C
  <2>2. QED
    BY <2>1 DEF Start, diskVars
<1>2. /\ st = [k \in Jobs |-> st[k]] /\ l = [k \in Jobs |-> l[k]]
      /\ \A k \in Jobs : st[k] \in {"queued", status[k]}
      /\ \A k \in Jobs : lang[k] = "manual" => l[k] = "manual"
  OBVIOUS
<1>3. Shaped(A) /\ A.status = st /\ A.run = run
  <2> HIDE DEF st
  <2>1. QED
    BY <1>2, CardFields, QueueFields DEF RInv
<1>4. Shaped(B) /\ B.status = st /\ B.run = run
  <2> HIDE DEF A, tr
  <2>1. QED
    BY <1>3, OtherFields
<1>5. Shaped(C) /\ C.status = st /\ C.run = run /\ C.lang = l
  <2> HIDE DEF B, l
  <2>1. QED
    BY <1>2, <1>4, LangFields
<1> HIDE DEF C, st, l
<1>6. Running(C)
  BY <1>2, <1>5, QueueFields DEF RInv, Running
<1>7. Kept(C, Pump(C))
  BY <1>5, <1>6, PumpKept
<1>8. QED
  BY <1>1, <1>2, <1>5, <1>7, HandlerKeeps DEF Kept

LEMMA StopKeeps ==
  ASSUME RInv, NEW S \in SUBSET Jobs, Becomes(StopCards(Queue, S)),
         UNCHANGED diskVars
  PROVE  StepKeeps
<1> DEFINE R == StopCards(Queue, S)
<1>1. /\ Shaped(R) /\ Running(R) /\ R.lang = lang /\ R.run.job = run.job
      /\ ~run.stopped /\ R.run.stopped =>
           status[run.job] = "processing" /\ R.status[run.job] = "cancelled"
  BY StopCardsKept, QueueFields DEF RInv
<1> HIDE DEF R
<1>2. QED
  BY <1>1, HandlerKeeps DEF diskVars, R

LEMMA RemoveKeeps ==
  ASSUME RInv, NEW S, RemoveAll(S)
  PROVE  StepKeeps
<1> DEFINE P == StopProbing(Queue, S)
           x == Without(P.list, S)
           R == [P EXCEPT !.list = x]
<1>1. Becomes(R) /\ UNCHANGED <<disk, writing, crashes>>
  BY DEF RemoveAll
<1>2. Same(Queue, P) /\ Shaped(P)
  <2>1. Same(Queue, P)
    BY StopProbingSame DEF RInv
  <2> HIDE DEF P
  <2>2. QED
    BY <2>1 DEF Same
<1>3. Shaped(R) /\ R.status = P.status /\ R.run = P.run /\ R.lang = P.lang
  <2> HIDE DEF P, x
  <2>1. QED
    BY <1>2, OtherFields
<1> HIDE DEF P, x, R
<1>4. Kept(Queue, R)
  BY <1>2, <1>3 DEF RInv, Kept, Running, Same
<1>5. QED
  BY <1>1, <1>4, KeptKeeps

LEMMA CleanedKeeps ==
  ASSUME RInv, NEW j, Cleaned(j)
  PROVE  StepKeeps
<1>1. UNCHANGED <<list, status, lang, listening, probeQueue, walker, mode, run,
                  tries, asks, tools, model, writing, disk, crashes>>
  BY DEF Cleaned, queueVars
<1>2. QED
  BY <1>1 DEF RInv, StepKeeps, Hits, Answers, Queue

(* A language is named, or asked for anew.                                 *)
LEMMA LanguageKeeps ==
  ASSUME RInv, NEW j \in Jobs, NameLanguage(j) \/ AskLanguage(j)
  PROVE  StepKeeps
<1> DEFINE P == StopProbing(Queue, {j})
<1>1. Same(Queue, P) /\ Shaped(P) /\ P.lang = lang /\ P.run = run
      /\ P.status = status
  <2>1. Same(Queue, P)
    BY StopProbingSame DEF RInv
  <2> HIDE DEF P
  <2>2. QED
    BY <2>1, QueueFields DEF Same
<1>2. ASSUME NEW x
      PROVE  LET l == [lang EXCEPT ![j] = x]
             IN  /\ l = [k \in Jobs |-> l[k]] /\ l[j] = x
                 /\ \A k \in Jobs : k # j => l[k] = lang[k]
  BY QueueFields DEF RInv, Shaped
<1>3. Running(P)
  <2> HIDE DEF P
  <2>1. QED
    BY <1>1, RunningSame DEF RInv
<1>4. CASE NameLanguage(j)
  <2> DEFINE l == [lang EXCEPT ![j] = "manual"]
             R == [P EXCEPT !.lang = l]
  <2>1. Becomes(R) /\ UNCHANGED <<disk, writing, crashes>>
    <3>1. [P EXCEPT !.lang[j] = "manual"] = R
      <4> HIDE DEF P
      <4>1. QED
        BY <1>1
    <3>2. QED
      BY <1>4, <3>1 DEF NameLanguage, diskVars
  <2>2. Shaped(R) /\ R.status = status /\ R.run = run /\ R.lang = l
    <3>1. l = [k \in Jobs |-> l[k]]
      BY <1>2
    <3> HIDE DEF P, l
    <3>2. QED
      BY <1>1, <3>1, LangFields
  <2>3. \A k \in Jobs : lang[k] = "manual" => l[k] = "manual"
    BY <1>2
  <2> HIDE DEF R, P, l
  <2>4. Running(R)
    BY <1>1, <1>3, <2>2 DEF Running
  <2>5. QED
    BY <2>1, <2>2, <2>3, <2>4, HandlerKeeps
<1>5. CASE AskLanguage(j)
  <2> DEFINE l == [lang EXCEPT ![j] = "none"]
             x == P.asks + 1
             A == [P EXCEPT !.lang = l]
             B == [A EXCEPT !.asks = x]
  <2>1. Becomes(Schedule(B, j)) /\ UNCHANGED <<disk, writing, crashes>>
    <3>1. [P EXCEPT !.lang[j] = "none", !.asks = @ + 1] = B
      <4> HIDE DEF P
      <4>1. QED
        BY <1>1
    <3>2. QED
      BY <1>5, <3>1 DEF AskLanguage, diskVars
  <2>2. Shaped(A) /\ A.status = status /\ A.run = run /\ A.lang = l
    <3>1. l = [k \in Jobs |-> l[k]]
      BY <1>2
    <3> HIDE DEF P, l
    <3>2. QED
      BY <1>1, <3>1, LangFields
  <2>3. Shaped(B) /\ B.status = status /\ B.run = run /\ B.lang = l
    <3> HIDE DEF A, x
    <3>1. QED
      BY <2>2, OtherFields
  <2>4. \A k \in Jobs : lang[k] = "manual" /\ l[k] # "manual" => k = j
    BY <1>2
  <2> HIDE DEF B, P, l
  <2>5. Running(B)
    BY <1>1, <1>3, <2>3 DEF Running
  <2>6. Same(B, Schedule(B, j))
    BY <2>3, ScheduleSame
  <2>7. /\ Shaped(Schedule(B, j)) /\ Running(Schedule(B, j))
        /\ Schedule(B, j).run = run /\ Schedule(B, j).lang = l
    BY <2>3, <2>5, <2>6, RunningSame DEF Same
  <2>8. QED
    BY <1>5, <2>1, <2>4, <2>7, HandlerKeeps
<1>6. QED
  BY <1>4, <1>5

-----------------------------------------------------------------------------
(* The guess of the language.                                              *)
LEMMA ApplyKeepsAnswers ==
  ASSUME NEW l, l = [j \in Jobs |-> l[j]], NEW j, NEW heard
  PROVE  LET a == Apply(l, j, heard)
         IN  /\ a = [k \in Jobs |-> a[k]]
             /\ \A k \in Jobs : l[k] = "manual" => a[k] = "manual"
BY DEF Apply

LEMMA FragmentKeeps ==
  ASSUME RInv, Fragment
  PROVE  StepKeeps
<1>1. /\ lang' = Apply(lang, walker, TRUE)
      /\ UNCHANGED <<status, run, disk, writing, crashes>>
  BY DEF Fragment, diskVars
<1>2. /\ status = [k \in Jobs |-> status[k]]
      /\ lang = [k \in Jobs |-> lang[k]]
      /\ run = [pc |-> run.pc, job |-> run.job, try |-> run.try,
                stopped |-> run.stopped]
  BY QueueFields DEF RInv, Shaped
<1>3. lang' = [k \in Jobs |-> lang'[k]]
      /\ \A k \in Jobs : lang[k] = "manual" => lang'[k] = "manual"
  BY <1>1, <1>2 DEF Apply
<1>4. Running(Queue')
  BY <1>1, QueueFields DEF RInv, Running
<1>5. QED
  BY <1>1, <1>2, <1>3, <1>4, PlainKeeps

LEMMA ProbeEndsKeeps ==
  ASSUME RInv, ProbeEnds
  PROVE  StepKeeps
<1>1. UNCHANGED <<disk, writing, crashes>>
  BY DEF ProbeEnds, diskVars
<1>2. CASE Becomes(Drain(Queue))
  <2>1. Kept(Queue, Drain(Queue))
    BY DrainSame, SameKept DEF RInv
  <2>2. QED
    BY <1>1, <1>2, <2>1, KeptKeeps
<1>3. ASSUME NEW heard,
             Becomes(Drain([Queue EXCEPT
                              !.listening = @ \ {walker},
                              !.lang = Apply(@, walker, heard)]))
      PROVE  StepKeeps
  <2> DEFINE h == Queue.listening \ {walker}
             l == Apply(lang, walker, heard)
             A == [Queue EXCEPT !.listening = h]
             B == [A EXCEPT !.lang = l]
  <2>1. Becomes(Drain(B))
    <3>1. [Queue EXCEPT !.listening = @ \ {walker},
                        !.lang = Apply(@, walker, heard)] = B
      BY QueueFields
    <3>2. QED
      BY <1>3, <3>1
  <2>2. Shaped(A) /\ A.status = status /\ A.run = run
    <3>1. Same(Queue, A)
      <4> HIDE DEF h
      <4>1. QED
        BY FieldSame DEF RInv
    <3> HIDE DEF A
    <3>2. QED
      BY <3>1, QueueFields DEF Same
  <2>3. l = [k \in Jobs |-> l[k]]
        /\ \A k \in Jobs : lang[k] = "manual" => l[k] = "manual"
    BY ApplyKeepsAnswers, QueueFields DEF RInv, Shaped
  <2>4. Shaped(B) /\ B.status = status /\ B.run = run /\ B.lang = l
    <3> HIDE DEF A, l
    <3>1. QED
      BY <2>2, <2>3, LangFields
  <2> HIDE DEF B, l
  <2>5. Running(B)
    BY <2>4, QueueFields DEF RInv, Running
  <2>6. Same(B, Drain(B))
    BY <2>4, DrainSame
  <2>7. Shaped(Drain(B)) /\ Running(Drain(B)) /\ Drain(B).lang = l
        /\ Drain(B).run = run
    BY <2>4, <2>5, <2>6, RunningSame DEF Same
  <2>8. QED
    BY <1>1, <2>1, <2>3, <2>7, HandlerKeeps
<1>4. QED
  BY <1>2, <1>3 DEF ProbeEnds

-----------------------------------------------------------------------------
(* The run.                                                                *)
LEMMA SettleEndsKeeps ==
  ASSUME RInv, SettleEnds
  PROVE  StepKeeps
<1> DEFINE R == Begin(Queue, run.job)
<1>1. Becomes(R) /\ UNCHANGED <<disk, writing, crashes>> /\ run.pc = "settling"
  BY DEF SettleEnds, diskVars
<1>2. Silent(Queue)
  BY <1>1, QueueFields DEF RInv, Running, Silent
<1>3. Shaped(R) /\ Running(R) /\ ~R.run.stopped /\ R.lang = lang
  BY <1>2, BeginRunning, QueueFields DEF RInv
<1> HIDE DEF R
<1>4. QED
  BY <1>1, <1>3, HandlerKeeps

LEMMA RunPlainKeeps ==
  ASSUME RInv, RunHears \/ RunSpeaks \/ WriteEnds
  PROVE  StepKeeps
<1>1. UNCHANGED <<status, disk, writing, crashes>>
  BY DEF RunHears, RunSpeaks, WriteEnds, diskVars
<1>2. /\ status = [k \in Jobs |-> status[k]]
      /\ lang = [k \in Jobs |-> lang[k]]
      /\ run = [pc |-> run.pc, job |-> run.job, try |-> run.try,
                stopped |-> run.stopped]
  BY QueueFields DEF RInv, Shaped
<1>3. /\ lang' = [k \in Jobs |-> lang'[k]]
      /\ \A k \in Jobs : lang[k] = "manual" => lang'[k] = "manual"
  <2>1. CASE RunHears
    BY <1>2, <2>1 DEF RunHears
  <2>2. CASE RunSpeaks
    BY <1>2, <2>2 DEF RunSpeaks
  <2>3. CASE WriteEnds
    BY <1>2, <2>3 DEF WriteEnds
  <2>4. QED
    BY <2>1, <2>2, <2>3
<1>4. /\ run' = [pc |-> run'.pc, job |-> run'.job, try |-> run'.try,
                 stopped |-> run'.stopped]
      /\ run'.stopped = run.stopped /\ run'.job = run.job
  <2>1. run' = run \/ \E pc : run' = [run EXCEPT !.pc = pc]
    BY DEF RunHears, RunSpeaks, WriteEnds
  <2>2. QED
    BY <1>2, <2>1
<1>5. Running(Queue')
  <2>1. \A j \in Jobs : status[j] = "processing" =>
          run.job = j /\ run.pc \in {"running", "saving", "renaming"}
    BY QueueFields DEF RInv, Running
  <2>2. CASE RunHears
    BY <1>1, <2>1, <2>2, QueueFields DEF RunHears, Running
  <2>3. CASE RunSpeaks
    <3>1. run'.pc = "saving"
      BY <1>2, <2>3 DEF RunSpeaks
    <3>2. QED
      BY <1>1, <1>4, <2>1, <3>1, QueueFields DEF Running
  <2>4. CASE WriteEnds
    <3>1. status[run.job] = "processing" => run'.pc = "renaming"
      BY <1>2, <2>4 DEF WriteEnds
    <3>2. QED
      BY <1>1, <1>4, <2>1, <3>1, QueueFields DEF Running
  <2>5. QED
    BY <2>2, <2>3, <2>4
<1>6. QED
  BY <1>1, <1>2, <1>3, <1>4, <1>5, PlainKeeps

(* The machine is given back, with the card moved or with nobody           *)
(* transcribed.                                                            *)
LEMMA GivenBackKeeps ==
  ASSUME RInv, NEW Q, Shaped(Q), Silent(Q), Q.lang = lang,
         Becomes(Finish(Q)), UNCHANGED <<writing, disk, crashes>>
  PROVE  StepKeeps
<1>1. Kept(Q, Finish(Q)) /\ Finish(Q).run.stopped = FALSE
  BY FinishKept
<1>2. QED
  BY <1>1, KeptKeeps DEF Kept

LEMMA RunEndsKeeps ==
  ASSUME RInv, RunStops \/ RunFails \/ RenameEnds \/ RestoreEnds \/ SaveFails
  PROVE  StepKeeps
<1>1. UNCHANGED <<writing, disk, crashes>>
  BY DEF RunStops, RunFails, RenameEnds, RestoreEnds, SaveFails, diskVars
<1>2. ASSUME NEW s \in {"completed", "failed", "cancelled"},
             Becomes(Finish([Queue EXCEPT !.status = Moved(@, run.job, s)]))
      PROVE  StepKeeps
  <2> DEFINE M == [Queue EXCEPT !.status = Moved(@, run.job, s)]
  <2>1. Shaped(M) /\ Silent(M) /\ M.lang = lang
    <3>1. Queue.run.job = run.job
      BY QueueFields
    <3>2. QED
      BY <3>1, MovedSilent, QueueFields DEF RInv
  <2> HIDE DEF M
  <2>2. QED
    BY <1>1, <1>2, <2>1, GivenBackKeeps DEF M
<1>3. CASE RunStops
  BY <1>2, <1>3 DEF RunStops
<1>4. CASE RunFails
  BY <1>2, <1>4 DEF RunFails
<1>5. CASE SaveFails
  BY <1>2, <1>5 DEF SaveFails
<1>6. CASE RestoreEnds
  <2>1. Silent(Queue)
    BY <1>6, QueueFields DEF RestoreEnds, RInv, Running, Silent
  <2>2. QED
    BY <1>1, <1>6, <2>1, GivenBackKeeps, QueueFields DEF RestoreEnds, RInv
<1>7. CASE RenameEnds
  <2>1. CASE "completed" \in Edges(status[run.job])
    BY <1>2, <1>7, <2>1 DEF RenameEnds
  <2>2. CASE "completed" \notin Edges(status[run.job])
    <3> DEFINE r == [run EXCEPT !.pc = "restoring"]
               R == [Queue EXCEPT !.run = r]
    <3>1. Becomes(R)
      <4>1. [Queue EXCEPT !.run.pc = "restoring"] = R
        BY QueueFields
      <4>2. QED
        BY <1>7, <2>2, <4>1 DEF RenameEnds
    <3>2. r = [pc |-> "restoring", job |-> run.job, try |-> run.try,
               stopped |-> run.stopped]
      BY QueueFields DEF RInv, Shaped
    <3>3. Shaped(R) /\ R.status = status /\ R.lang = lang
          /\ R.run.stopped = run.stopped
      BY <3>2, RunFields, QueueFields DEF RInv
    <3>4. \A j \in Jobs : status[j] # "processing"
      BY <2>2, QueueFields DEF RInv, Running, Edges
    <3> HIDE DEF R, r
    <3>5. Running(R)
      BY <3>3, <3>4 DEF Running
    <3>6. QED
      BY <1>1, <3>1, <3>3, <3>5, HandlerKeeps
  <2>3. QED
    BY <2>1, <2>2
<1>8. QED
  BY <1>3, <1>4, <1>5, <1>6, <1>7

-----------------------------------------------------------------------------
(* Tools, the model, the list on disk, and a restart.                      *)
LEMMA EnvironmentKeeps ==
  ASSUME RInv, Environment
  PROVE  StepKeeps
<1>1. UNCHANGED <<writing, disk, crashes>>
  BY DEF Environment, ToolsChange, ModelGoes, Download, DownloadEnds,
         DownloadFails, Quietly, diskVars
<1>2. ASSUME NEW x, NEW R \in {[Queue EXCEPT !.tools = x],
                               [Queue EXCEPT !.model = x]}
      PROVE  /\ Kept(Queue, R) /\ Kept(Queue, Resume(R))
             /\ Kept(Queue, Resume(Pump(R)))
  <2>1. Shaped(R) /\ R.status = status /\ R.run = run /\ R.lang = lang
    <3>1. Shaped(Queue)
      BY DEF RInv
    <3>2. CASE R = [Queue EXCEPT !.tools = x]
      BY <3>1, <3>2, OtherFields, QueueFields
    <3>3. CASE R = [Queue EXCEPT !.model = x]
      BY <3>1, <3>3, OtherFields, QueueFields
    <3>4. R = [Queue EXCEPT !.tools = x] \/ R = [Queue EXCEPT !.model = x]
      BY <1>2, Zenon
    <3>5. QED
      BY <3>2, <3>3, <3>4
  <2>2. Running(R)
    BY <2>1, QueueFields DEF RInv, Running
  <2>3. Kept(Queue, R)
    BY <2>1, <2>2, QueueFields DEF Kept
  <2>4. Same(R, Resume(R))
    BY <2>1, ResumeSame
  <2>5. Kept(Queue, Resume(R))
    BY <2>1, <2>2, <2>4, RunningSame, QueueFields DEF Kept, Same
  <2> DEFINE P == Pump(R)
  <2>6. Kept(R, P)
    BY <2>1, <2>2, PumpKept
  <2> HIDE DEF P
  <2>7. Shaped(P) /\ Running(P) /\ P.lang = lang
        /\ (P.run = run \/ P.run.stopped = FALSE)
    BY <2>1, <2>6 DEF Kept
  <2>8. Same(P, Resume(P))
    BY <2>7, ResumeSame
  <2>9. Kept(Queue, Resume(P))
    BY <2>7, <2>8, RunningSame, QueueFields DEF Kept, Same
  <2>10. QED
    BY <2>3, <2>5, <2>9 DEF P
<1>3. CASE ToolsChange
  <2> DEFINE x == ~Queue.tools
             R == [Queue EXCEPT !.tools = x]
  <2>1. Becomes(Resume(R))
    BY <1>3 DEF ToolsChange, Quietly
  <2>2. R \in {[Queue EXCEPT !.tools = x], [Queue EXCEPT !.model = x]}
    BY Zenon
  <2> HIDE DEF R, x
  <2>3. Kept(Queue, Resume(R))
    BY <1>2, <2>2
  <2>4. QED
    BY <1>1, <2>1, <2>3, KeptKeeps
<1>4. CASE ModelGoes
  <2>1. UNCHANGED <<status, lang, run>>
    BY <1>4 DEF ModelGoes
  <2>2. /\ status = [k \in Jobs |-> status[k]]
        /\ lang = [k \in Jobs |-> lang[k]]
        /\ run = [pc |-> run.pc, job |-> run.job, try |-> run.try,
                  stopped |-> run.stopped]
    BY QueueFields DEF RInv, Shaped
  <2>3. Running(Queue')
    BY <2>1, QueueFields DEF RInv, Running
  <2>4. QED
    BY <1>1, <2>1, <2>2, <2>3, PlainKeeps
<1>5. CASE Download
  <2>1. Becomes([Queue EXCEPT !.model = "downloading"])
    BY <1>5 DEF Download, Quietly
  <2>2. QED
    BY <1>1, <1>2, <2>1, KeptKeeps
<1>6. CASE DownloadEnds
  <2>1. Becomes(Resume(Pump([Queue EXCEPT !.model = "present"])))
    BY <1>6 DEF DownloadEnds, Quietly
  <2>2. QED
    BY <1>1, <1>2, <2>1, KeptKeeps
<1>7. CASE DownloadFails
  <2>1. Becomes([Queue EXCEPT !.model = "absent"])
    BY <1>7 DEF DownloadFails, Quietly
  <2>2. QED
    BY <1>1, <1>2, <2>1, KeptKeeps
<1>8. QED
  BY <1>3, <1>4, <1>5, <1>6, <1>7 DEF Environment

LEMMA PersistKeeps ==
  ASSUME RInv, PersistBegins \/ PersistEnds
  PROVE  StepKeeps
<1>1. UNCHANGED <<list, status, lang, listening, probeQueue, walker, mode, run,
                  tries, asks, tools, model, crashes>>
  BY DEF PersistBegins, PersistEnds, queueVars
<1>2. SnapShaped(Persisted)
  BY DEF SnapShaped, Persisted
<1>3. SnapShaped(disk') /\ (writing' # None => SnapShaped(writing'))
  BY <1>2 DEF RInv, PersistBegins, PersistEnds
<1>4. QED
  BY <1>1, <1>3 DEF RInv, StepKeeps, Hits, Answers, Queue

(* The record a restart resumes the probes of.                             *)
RestartRecord(A) ==
  /\ Shaped(A) /\ Queue' = Resume(A)
  /\ A.list = disk.list /\ A.lang = disk.lang
  /\ \A j \in Jobs : A.status[j] = IF j \in ToSet(disk.list)
                                   THEN Migrated(disk.status[j], doc'[j])
                                   ELSE IF status[j] = "none" THEN "none"
                                   ELSE "gone"
  /\ A.listening = {} /\ A.probeQueue = <<>> /\ A.walker = None
  /\ A.run = Idle /\ A.run.pc = "idle" /\ A.run.stopped = FALSE
  /\ A.tries = tries

Whole(Q) ==
  Q = [list |-> Q.list, status |-> Q.status, lang |-> Q.lang,
       listening |-> Q.listening, probeQueue |-> Q.probeQueue,
       walker |-> Q.walker, mode |-> Q.mode, run |-> Q.run,
       tries |-> Q.tries, asks |-> Q.asks, tools |-> Q.tools,
       model |-> Q.model]

LEMMA WholeField ==
  ASSUME NEW Q, Whole(Q), NEW x
  PROVE  /\ Whole([Q EXCEPT !.list = x])
         /\ Whole([Q EXCEPT !.status = x])
         /\ Whole([Q EXCEPT !.lang = x])
         /\ Whole([Q EXCEPT !.listening = x])
         /\ Whole([Q EXCEPT !.probeQueue = x])
         /\ Whole([Q EXCEPT !.walker = x])
         /\ Whole([Q EXCEPT !.mode = x])
         /\ Whole([Q EXCEPT !.run = x])
         /\ Whole([Q EXCEPT !.model = x])
<1>1. Whole([Q EXCEPT !.list = x])
  BY DEF Whole
<1>2. Whole([Q EXCEPT !.status = x])
  BY DEF Whole
<1>3. Whole([Q EXCEPT !.lang = x])
  BY DEF Whole
<1>4. Whole([Q EXCEPT !.listening = x])
  BY DEF Whole
<1>5. Whole([Q EXCEPT !.probeQueue = x])
  BY DEF Whole
<1>6. Whole([Q EXCEPT !.walker = x])
  BY DEF Whole
<1>7. Whole([Q EXCEPT !.mode = x])
  BY DEF Whole
<1>8. Whole([Q EXCEPT !.run = x])
  BY DEF Whole
<1>9. Whole([Q EXCEPT !.model = x])
  BY DEF Whole
<1>10. QED
  BY <1>1, <1>2, <1>3, <1>4, <1>5, <1>6, <1>7, <1>8, <1>9

LEMMA RestartIs ==
  ASSUME RInv, Restart
  PROVE  \E A : RestartRecord(A)
<1> DEFINE back == Restored(disk, doc')
           m  == IF model = "downloading" THEN "absent" ELSE model
           st == [j \in Jobs |->
                    IF j \in ToSet(back.list) THEN back.status[j]
                    ELSE IF status[j] = "none" THEN "none" ELSE "gone"]
           E  == [Queue EXCEPT
                    !.list = back.list, !.lang = back.lang, !.status = st,
                    !.listening = {}, !.probeQueue = <<>>, !.walker = None,
                    !.mode = "on", !.run = Idle, !.model = m]
<1>1. Becomes(Resume(E))
  <2>1. Queue.model = model
    BY DEF Queue
  <2>2. QED
    BY <2>1 DEF Restart
<1>2. /\ back.list = disk.list /\ back.lang = disk.lang
      /\ back.lang = [j \in Jobs |-> back.lang[j]]
      /\ \A j \in Jobs : back.status[j] = Migrated(disk.status[j], doc'[j])
  BY DEF Restored, RInv, SnapShaped
<1> HIDE DEF back
<1>3. /\ st = [j \in Jobs |-> st[j]]
      /\ \A j \in Jobs : st[j] = IF j \in ToSet(disk.list)
                                 THEN Migrated(disk.status[j], doc'[j])
                                 ELSE IF status[j] = "none" THEN "none"
                                 ELSE "gone"
  BY <1>2
<1> HIDE DEF st, m
<1>4. /\ Idle = [pc |-> Idle.pc, job |-> Idle.job, try |-> Idle.try,
                stopped |-> Idle.stopped]
      /\ Idle.pc = "idle" /\ Idle.stopped = FALSE
  BY DEF Idle
<1>5. /\ E.list = back.list /\ E.status = st /\ E.lang = back.lang
      /\ E.listening = {} /\ E.probeQueue = <<>> /\ E.walker = None
      /\ E.run = Idle /\ E.tries = tries
  BY DEF Queue
<1>6. Whole(E)
  <2> DEFINE A1 == [Queue EXCEPT !.list = back.list]
             A2 == [A1 EXCEPT !.lang = back.lang]
             A3 == [A2 EXCEPT !.status = st]
             A4 == [A3 EXCEPT !.listening = {}]
             A5 == [A4 EXCEPT !.probeQueue = <<>>]
             A6 == [A5 EXCEPT !.walker = None]
             A7 == [A6 EXCEPT !.mode = "on"]
             A8 == [A7 EXCEPT !.run = Idle]
             A9 == [A8 EXCEPT !.model = m]
  <2>1. E = A9
    OBVIOUS
  <2> HIDE DEF E
  <2>2. Whole(Queue)
    BY DEF Whole, Queue
  <2>3. Whole(A1)
    BY <2>2, WholeField
  <2> HIDE DEF A1
  <2>4. Whole(A2)
    BY <2>3, WholeField
  <2> HIDE DEF A2
  <2>5. Whole(A3)
    BY <2>4, WholeField
  <2> HIDE DEF A3
  <2>6. Whole(A4)
    BY <2>5, WholeField
  <2> HIDE DEF A4
  <2>7. Whole(A5)
    BY <2>6, WholeField
  <2> HIDE DEF A5
  <2>8. Whole(A6)
    BY <2>7, WholeField
  <2> HIDE DEF A6
  <2>9. Whole(A7)
    BY <2>8, WholeField
  <2> HIDE DEF A7
  <2>10. Whole(A8)
    BY <2>9, WholeField
  <2> HIDE DEF A8
  <2>11. Whole(A9)
    BY <2>10, WholeField
  <2>12. QED
    BY <2>1, <2>11
<1> HIDE DEF E
<1>7. Shaped(E)
  BY <1>2, <1>3, <1>4, <1>5, <1>6 DEF Shaped, Whole
<1>8. Queue' = Resume(E)
  <2>1. Same(E, Resume(E))
    BY <1>7, ResumeSame
  <2>2. QED
    BY <1>1, <2>1, BecomesIs DEF Same
<1>9. RestartRecord(E)
  BY <1>2, <1>3, <1>4, <1>5, <1>7, <1>8 DEF RestartRecord
<1>10. QED
  BY <1>9

LEMMA RestartKeeps ==
  ASSUME RInv, Restart
  PROVE  StepKeeps
<1>1. UNCHANGED disk /\ writing' = None /\ crashes' = crashes + 1
  BY DEF Restart
<1>2. PICK A : RestartRecord(A)
  BY RestartIs
<1>3. Same(A, Resume(A)) /\ Queue' = Resume(A)
  BY <1>2, ResumeSame DEF RestartRecord
<1>4. \A j \in Jobs : A.status[j] # "processing"
  BY <1>2 DEF RestartRecord, Migrated
<1>5. Running(A) /\ Shaped(Queue') /\ run'.stopped = FALSE
  BY <1>2, <1>3, <1>4, QueueFields DEF RestartRecord, Running, Same
<1>6. crashes' \in Nat /\ crashes' # crashes
  BY <1>1 DEF RInv
<1>7. RInv'
  <2>1. Running(Queue')
    BY <1>3, <1>5, RunningSame
  <2>2. QED
    BY <1>1, <1>5, <1>6, <2>1 DEF RInv
<1>8. Hits /\ Answers
  BY <1>5, <1>6 DEF Hits, Answers
<1>9. QED
  BY <1>7, <1>8 DEF StepKeeps

-----------------------------------------------------------------------------
LEMMA InitHolds == Init => RInv
<1>1. SUFFICES ASSUME Init PROVE RInv
  OBVIOUS
<1>2. /\ status = [j \in Jobs |-> "none"] /\ lang = [j \in Jobs |-> "none"]
      /\ run = Idle /\ writing = None /\ crashes = 0
      /\ disk = [list |-> <<>>, status |-> status, lang |-> lang]
  BY <1>1 DEF Init
<1>3. Shaped(Queue)
  BY <1>2 DEF Shaped, Queue, Idle
<1>4. Running(Queue)
  BY <1>2, QueueFields DEF Running
<1>5. SnapShaped(disk)
  BY <1>2 DEF SnapShaped
<1>6. QED
  BY <1>2, <1>3, <1>4, <1>5 DEF RInv

LEMMA NextKeeps ==
  ASSUME RInv, [Next]_vars
  PROVE  StepKeeps
<1>1. ASSUME NEW j \in Jobs,
             \/ Add(j) \/ Cancel(j) \/ RemoveCard(j) \/ NameLanguage(j)
             \/ AskLanguage(j) \/ Analyzed(j) \/ Cleaned(j)
      PROVE  StepKeeps
  <2>1. CASE Cancel(j)
    BY <2>1, StopKeeps DEF Cancel
  <2>2. CASE RemoveCard(j)
    BY <2>2, RemoveKeeps DEF RemoveCard
  <2>3. QED
    BY <1>1, <2>1, <2>2, AddKeeps, LanguageKeeps, AnalyzedKeeps, CleanedKeeps
<1>2. CASE CancelAll
  BY <1>2, StopKeeps DEF CancelAll
<1>3. CASE \E S \in SUBSET Jobs : Start(S)
  BY <1>3, StartKeeps
<1>4. CASE ClearCompleted
  BY <1>4, RemoveKeeps DEF ClearCompleted
<1>5. CASE RunGoesOn
  BY <1>5, SettleEndsKeeps, RunPlainKeeps, RunEndsKeeps DEF RunGoesOn
<1>6. CASE UNCHANGED vars
  BY <1>6 DEF vars, queueVars, diskVars, RInv, StepKeeps, Hits, Answers, Queue
<1>7. QED
  BY <1>1, <1>2, <1>3, <1>4, <1>5, <1>6, RunPlainKeeps, EnvironmentKeeps,
     FragmentKeeps, ProbeEndsKeeps, PersistKeeps, RestartKeeps
  DEF Next, Asked

LEMMA Invariant == Spec => []RInv
<1>1. RInv /\ [Next]_vars => RInv'
  BY NextKeeps DEF StepKeeps
<1>2. QED
  BY <1>1, InitHolds, PTL DEF Spec

(* A card says it is being transcribed only while its own run has the      *)
(* machine and has not yet ended: whatever is stopped, removed, started    *)
(* anew or saved in the waits of pump() and transcribe().                  *)
THEOREM OneRunTranscribes == Spec => []ProcessingIsTheRun
<1>1. RInv => ProcessingIsTheRun
  BY QueueFields DEF RInv, Running, ProcessingIsTheRun
<1>2. QED
  BY <1>1, Invariant, PTL

(* active.cancel() stops the whisper of no card but the one that is being  *)
(* transcribed and is stopped by this very request.                        *)
THEOREM StopsItsOwn == Spec => StopHitsItsRun
<1>1. RInv /\ [Next]_vars =>
        [~run.stopped /\ run'.stopped =>
           status[run.job] = "processing" /\ status'[run.job] = "cancelled"]_vars
  BY NextKeeps DEF StepKeeps, Hits
<1>2. QED
  BY <1>1, Invariant, PTL DEF Spec, StopHitsItsRun

(* What a person said about the language is never overheard by a probe, a  *)
(* run or a new start: only a person who asks again changes it, or a crash *)
(* before it was saved.                                                    *)
THEOREM AnswersAreKept == Spec => ManualKept
<1>1. RInv /\ [Next]_vars =>
        [\A j \in Jobs : lang[j] = "manual" /\ lang'[j] # "manual" =>
           AskLanguage(j) \/ crashes' # crashes]_vars
  BY NextKeeps DEF StepKeeps, Answers
<1>2. QED
  BY <1>1, Invariant, PTL DEF Spec, ManualKept

-----------------------------------------------------------------------------
(* The rows that say they are listened to: each is on the list, and in     *)
(* line or being heard.                                                    *)
Lines(Q) ==
  /\ Q.list \in Seq(Jobs) /\ Q.probeQueue \in Seq(Jobs)
  /\ Q.walker \in Jobs \cup {None}
  /\ Q.listening \subseteq ToSet(Q.list)
  /\ \A j \in Q.listening :
       j \in ToSet(Q.probeQueue) \/ (Q.walker = j /\ Q.mode = "on")

SameLines(Q, R) ==
  /\ R.list = Q.list /\ R.probeQueue = Q.probeQueue /\ R.walker = Q.walker
  /\ R.listening = Q.listening /\ R.mode = Q.mode

LEMMA SameLinesLines ==
  ASSUME NEW Q, NEW R, Lines(Q), SameLines(Q, R)
  PROVE  Lines(R)
BY DEF Lines, SameLines

LEMMA OnlySet ==
  ASSUME NEW T, NEW s \in Seq(T), NEW S
  PROVE  Only(s, S) \in Seq(T) /\ ToSet(Only(s, S)) = ToSet(s) \cap S
<1>1. ToSet(s) = Members(s) /\ ToSet(Only(s, S)) = Members(Only(s, S))
  BY DEF Members, ToSet
<1>2. QED
  BY <1>1, OnlyMembers

LEMMA ConcatSet ==
  ASSUME NEW T, NEW s \in Seq(T), NEW t \in Seq(T)
  PROVE  s \o t \in Seq(T) /\ ToSet(s \o t) = ToSet(s) \cup ToSet(t)
<1>1. /\ s \o t \in Seq(T) /\ Len(s) \in Nat /\ Len(t) \in Nat
      /\ DOMAIN (s \o t) = 1..(Len(s) + Len(t))
      /\ DOMAIN s = 1..Len(s) /\ DOMAIN t = 1..Len(t)
      /\ \A i \in 1..Len(s) : (s \o t)[i] = s[i]
      /\ \A i \in 1..Len(t) : (s \o t)[Len(s) + i] = t[i]
  OBVIOUS
<1>2. ASSUME NEW i \in 1..(Len(s) + Len(t))
      PROVE  (s \o t)[i] \in ToSet(s) \cup ToSet(t)
  <2>1. CASE i <= Len(s)
    BY <1>1, <2>1 DEF ToSet
  <2>2. CASE i > Len(s)
    <3>1. i - Len(s) \in 1..Len(t) /\ i = Len(s) + (i - Len(s))
      BY <1>1, <2>2
    <3>2. (s \o t)[i] = t[i - Len(s)]
      BY <1>1, <3>1
    <3>3. QED
      BY <1>1, <3>1, <3>2 DEF ToSet
  <2>3. QED
    BY <1>1, <2>1, <2>2
<1>3. ASSUME NEW i \in 1..Len(s) PROVE s[i] \in ToSet(s \o t)
  BY <1>1 DEF ToSet
<1>4. ASSUME NEW i \in 1..Len(t) PROVE t[i] \in ToSet(s \o t)
  <2>1. Len(s) + i \in DOMAIN (s \o t)
    BY <1>1
  <2>2. QED
    BY <1>1, <2>1 DEF ToSet
<1> DEFINE r == s \o t
<1> HIDE DEF r
<1>5. ToSet(r) \subseteq ToSet(s) \cup ToSet(t)
  BY <1>1, <1>2 DEF ToSet, r
<1>6. ToSet(s) \cup ToSet(t) \subseteq ToSet(r)
  BY <1>1, <1>3, <1>4 DEF ToSet, r
<1>7. QED
  BY <1>1, <1>5, <1>6 DEF r

LEMMA OneSet ==
  ASSUME NEW T, NEW e \in T
  PROVE  <<e>> \in Seq(T) /\ ToSet(<<e>>) = {e}
BY DEF ToSet

(* What is left of a line from some place on.                              *)
LEMMA RestSet ==
  ASSUME NEW T, NEW s \in Seq(T), NEW n \in 1..Len(s)
  PROVE  /\ SubSeq(s, n + 1, Len(s)) \in Seq(T)
         /\ \A i \in (n + 1)..Len(s) : s[i] \in ToSet(SubSeq(s, n + 1, Len(s)))
<1> DEFINE r == SubSeq(s, n + 1, Len(s))
<1>1. Len(s) \in Nat /\ \A i \in (n + 1)..Len(s) : s[i] \in T
  OBVIOUS
<1>2. /\ r \in Seq(T) /\ DOMAIN r = 1..(Len(s) - n)
      /\ \A i \in 1..(Len(s) - n) : r[i] = s[n + i]
  BY <1>1
<1> HIDE DEF r
<1>3. ASSUME NEW i \in (n + 1)..Len(s) PROVE s[i] \in ToSet(r)
  <2>1. i - n \in 1..(Len(s) - n) /\ n + (i - n) = i
    BY <1>1
  <2>2. QED
    BY <1>2, <2>1 DEF ToSet
<1>4. QED
  BY <1>2, <1>3 DEF r

(* One turn of drainProbes(), when every row that listens is in its line.  *)
LEMMA DrainLines ==
  ASSUME NEW Q, Shaped(Q), Q.list \in Seq(Jobs), Q.probeQueue \in Seq(Jobs),
         Q.listening \subseteq ToSet(Q.list),
         Q.listening \subseteq ToSet(Q.probeQueue)
  PROVE  Lines(Drain(Q))
<1> DEFINE rest == [Q EXCEPT !.walker = None, !.mode = "on"]
           line == Q.probeQueue
           fit  == {i \in DOMAIN line : CanListen(Q, line[i])}
           next == CHOOSE i \in fit : \A k \in fit : i <= k
<1>1. CASE Q.run.pc # "idle"
  <2>1. Drain(Q) = rest
    BY <1>1 DEF Drain
  <2>2. /\ rest.list = Q.list /\ rest.probeQueue = Q.probeQueue
        /\ rest.listening = Q.listening /\ rest.walker = None
    BY DEF Shaped
  <2> HIDE DEF rest
  <2>3. QED
    BY <2>1, <2>2 DEF Lines
<1>2. CASE Q.run.pc = "idle" /\ fit = {}
  <2> DEFINE heard == Q.listening \ ToSet(line)
             R == [rest EXCEPT !.probeQueue = <<>>, !.listening = heard]
  <2>1. Drain(Q) = R
    <3>1. rest.listening = Q.listening
      BY DEF Shaped
    <3>2. Drain(Q) = [rest EXCEPT !.probeQueue = <<>>,
                                  !.listening = @ \ ToSet(line)]
      BY <1>2 DEF Drain
    <3> HIDE DEF rest
    <3>3. QED
      BY <3>1, <3>2
  <2>2. heard = {}
    OBVIOUS
  <2> HIDE DEF heard
  <2>3. /\ R.list = Q.list /\ R.probeQueue = <<>> /\ R.listening = {}
        /\ R.walker = None
    BY <2>2 DEF Shaped
  <2> HIDE DEF R
  <2>4. QED
    BY <2>1, <2>3 DEF Lines
<1>3. CASE Q.run.pc = "idle" /\ fit # {}
  <2>1. fit \subseteq 1..Len(line) /\ Len(line) \in Nat
    OBVIOUS
  <2>2. next \in fit
    <3>1. fit \subseteq Nat
      BY <2>1
    <3>2. \E i \in fit : \A k \in fit : i <= k
      <4> HIDE DEF fit
      <4>1. QED
        BY <1>3, <3>1, LeastNatural
    <3> HIDE DEF fit
    <3>3. QED
      BY <3>2
  <2>3. next \in 1..Len(line) /\ line[next] \in Jobs
    <3> HIDE DEF fit, next
    <3>1. QED
      BY <2>1, <2>2
  <2> DEFINE w     == line[next]
             l     == SubSeq(line, next + 1, Len(line))
             passed == {line[i] : i \in 1..(next - 1)}
             heard == Q.listening \ passed
             R     == [rest EXCEPT !.walker = w, !.probeQueue = l,
                                   !.listening = heard]
  <2>4. Drain(Q) = R
    <3>1. rest.listening = Q.listening
      BY DEF Shaped
    <3>2. Drain(Q) = [rest EXCEPT !.walker = w, !.probeQueue = l,
                                  !.listening = @ \ passed]
      BY <1>3 DEF Drain
    <3> HIDE DEF rest, w, l, passed
    <3>3. QED
      BY <3>1, <3>2
  <2> HIDE DEF next
  <2>5. l \in Seq(Jobs) /\ \A i \in (next + 1)..Len(line) : line[i] \in ToSet(l)
    BY <2>3, RestSet
  <2>6. ASSUME NEW j \in heard PROVE j \in ToSet(l) \/ j = w
    <3>1. PICK i \in 1..Len(line) : j = line[i]
      BY DEF ToSet
    <3>2. i \notin 1..(next - 1)
      BY <3>1
    <3>3. i = next \/ i \in (next + 1)..Len(line)
      BY <2>1, <2>3, <3>2
    <3> HIDE DEF l
    <3>4. QED
      BY <2>5, <3>1, <3>3
  <2>7. heard \subseteq ToSet(Q.list)
    OBVIOUS
  <2> HIDE DEF w, l, heard
  <2>8. /\ R.list = Q.list /\ R.probeQueue = l /\ R.listening = heard
        /\ R.walker = w /\ R.mode = "on"
    BY DEF Shaped
  <2> HIDE DEF R
  <2>9. w \in Jobs
    BY <2>3 DEF w
  <2>10. QED
    BY <2>4, <2>5, <2>6, <2>7, <2>8, <2>9 DEF Lines
<1>4. QED
  BY <1>1, <1>2, <1>3

LEMMA PumpProbesLines ==
  ASSUME NEW Q, Shaped(Q), Lines(Q)
  PROVE  Lines(PumpProbes(Q))
<1>1. CASE Q.walker # None
  BY <1>1 DEF PumpProbes
<1>2. CASE Q.walker = None
  <2>1. Q.listening \subseteq ToSet(Q.probeQueue)
    <3>1. ToSet(Q.list) \subseteq Jobs
      BY DEF Lines, ToSet
    <3>2. QED
      BY <1>2, <3>1, TranscriptionAssumption DEF Lines
  <2>2. QED
    BY <1>2, <2>1, DrainLines DEF PumpProbes, Lines
<1>3. QED
  BY <1>1, <1>2

(* Files are put at the end of the line.                                   *)
LEMMA LinedUp ==
  ASSUME NEW Q, Shaped(Q), Lines(Q), NEW more \in Seq(Jobs),
         ToSet(more) \subseteq ToSet(Q.list)
  PROVE  LET R == [Q EXCEPT !.listening = Q.listening \cup ToSet(more),
                            !.probeQueue = Q.probeQueue \o more]
         IN  Shaped(R) /\ Lines(R)
<1> DEFINE heard == Q.listening \cup ToSet(more)
           line  == Q.probeQueue \o more
           R == [Q EXCEPT !.listening = heard, !.probeQueue = line]
<1>1. line \in Seq(Jobs) /\ ToSet(line) = ToSet(Q.probeQueue) \cup ToSet(more)
  BY ConcatSet DEF Lines
<1>2. heard \subseteq ToSet(Q.list)
      /\ \A j \in heard : j \in Q.listening \/ j \in ToSet(more)
  BY DEF Lines
<1> HIDE DEF heard, line
<1>3. /\ R.list = Q.list /\ R.probeQueue = line
      /\ R.listening = heard /\ R.walker = Q.walker /\ R.mode = Q.mode
  BY DEF Shaped
<1>4. Same(Q, R)
  BY ProbeFieldsSame, Zenon
<1> HIDE DEF R
<1>5. Lines(R)
  BY <1>1, <1>2, <1>3 DEF Lines
<1>6. QED
  BY <1>4, <1>5 DEF Same, R, heard, line

LEMMA ScheduleLines ==
  ASSUME NEW Q, Shaped(Q), Lines(Q), NEW j \in ToSet(Q.list)
  PROVE  Lines(Schedule(Q, j))
<1> DEFINE R == [Q EXCEPT !.listening = Q.listening \cup {j},
                          !.probeQueue = Append(Q.probeQueue, j)]
<1>1. Schedule(Q, j) = Q \/ Schedule(Q, j) = PumpProbes(R)
  BY DEF Schedule
<1>2. j \in Jobs
  BY DEF Lines, ToSet
<1>3. /\ <<j>> \in Seq(Jobs) /\ ToSet(<<j>>) = {j}
      /\ Append(Q.probeQueue, j) = Q.probeQueue \o <<j>>
  BY <1>2, OneSet DEF Lines
<1>4. Shaped(R) /\ Lines(R)
  BY <1>3, LinedUp
<1> HIDE DEF R
<1>5. QED
  BY <1>1, <1>4, PumpProbesLines

LEMMA ResumeLines ==
  ASSUME NEW Q, Shaped(Q), Lines(Q)
  PROVE  Lines(Resume(Q))
<1> DEFINE more == Unheard(Q)
           R == [Q EXCEPT !.listening = Q.listening \cup ToSet(more),
                          !.probeQueue = Q.probeQueue \o more]
<1>1. Resume(Q) = Q \/ Resume(Q) = PumpProbes(R)
  BY DEF Resume
<1>2. more \in Seq(Jobs) /\ ToSet(more) \subseteq ToSet(Q.list)
  BY OnlySet DEF Unheard, Lines
<1> HIDE DEF more
<1>3. Shaped(R) /\ Lines(R)
  BY <1>2, LinedUp
<1> HIDE DEF R
<1>4. QED
  BY <1>1, <1>3, PumpProbesLines

LEMMA StopProbingLines ==
  ASSUME NEW Q, Shaped(Q), Lines(Q), NEW S
  PROVE  LET R == StopProbing(Q, S)
         IN  Lines(R) /\ R.listening = Q.listening \ S
<1> DEFINE line  == Without(Q.probeQueue, S)
           m     == IF Probing(Q) \in S THEN "dropped" ELSE Q.mode
           heard == Q.listening \ S
           R     == [Q EXCEPT !.probeQueue = line, !.mode = m,
                              !.listening = heard]
<1>1. StopProbing(Q, S) = R
  BY DEF StopProbing
<1>2. line \in Seq(Jobs) /\ ToSet(line) = ToSet(Q.probeQueue) \ S
  <2>1. ToSet(Q.probeQueue) \subseteq Jobs
    BY DEF Lines, ToSet
  <2>2. QED
    BY <2>1, OnlySet DEF Lines, Without
<1>3. \A j \in heard : Q.walker = j /\ Q.mode = "on" => m = "on"
  BY DEF Probing
<1>4. heard \subseteq ToSet(Q.list) /\ heard = Q.listening \ S
  BY DEF Lines
<1> HIDE DEF line, m, heard
<1>5. /\ R.list = Q.list /\ R.probeQueue = line /\ R.listening = heard
      /\ R.walker = Q.walker /\ R.mode = m
  BY DEF Shaped
<1> HIDE DEF R
<1>6. Lines(R)
  BY <1>2, <1>3, <1>4, <1>5 DEF Lines
<1>7. QED
  BY <1>1, <1>4, <1>5, <1>6

LEMMA SettleLines ==
  ASSUME NEW Q, Shaped(Q), Lines(Q), NEW j
  PROVE  Lines(Settle(Q, j))
<1> DEFINE other == Probing(Q)
           line  == IF other \in ToSet(Q.probeQueue) THEN Q.probeQueue
                    ELSE <<other>> \o Q.probeQueue
           R     == [Q EXCEPT !.mode = "stepping", !.probeQueue = line]
<1>1. CASE other \in {None, j}
  BY <1>1 DEF Settle
<1>2. CASE other \notin {None, j}
  <2>1. other \in Jobs /\ other = Q.walker
    BY <1>2 DEF Probing, Lines
  <2>2. line \in Seq(Jobs) /\ ToSet(line) = ToSet(Q.probeQueue) \cup {other}
    <3> HIDE DEF other
    <3>1. CASE other \in ToSet(Q.probeQueue)
      BY <3>1 DEF Lines
    <3>2. CASE other \notin ToSet(Q.probeQueue)
      <4> DEFINE one == <<other>>
      <4>1. one \in Seq(Jobs) /\ ToSet(one) = {other}
        BY <2>1, OneSet
      <4>2. Q.probeQueue \in Seq(Jobs)
        BY DEF Lines
      <4>3. line = one \o Q.probeQueue
        BY <3>2
      <4> HIDE DEF line, one
      <4>4. QED
        BY <4>1, <4>2, <4>3, ConcatSet
    <3>3. QED
      BY <3>1, <3>2
  <2>3. Settle(Q, j) = R
    BY <1>2 DEF Settle
  <2> HIDE DEF line, other
  <2>4. /\ R.list = Q.list /\ R.probeQueue = line /\ R.listening = Q.listening
        /\ R.walker = Q.walker /\ R.mode = "stepping"
    BY DEF Shaped
  <2> HIDE DEF R
  <2>5. QED
    BY <2>1, <2>2, <2>3, <2>4 DEF Lines
<1>3. QED
  BY <1>1, <1>2

(* What was started has been started at least once, and the card of a run  *)
(* is neither completed nor failed before the run ends.                    *)
Started(Q) ==
  /\ Q.tries \in [Jobs -> Nat]
  /\ \A j \in Jobs : Q.status[j] = "queued" => Q.tries[j] # 0
  /\ Q.run.pc # "idle" =>
       /\ Q.run.job \in Jobs /\ Q.run.try # 0 /\ Q.tries[Q.run.job] # 0
       /\ Q.status[Q.run.job] \notin {"completed", "failed"}

Fit(Q) == Shaped(Q) /\ Running(Q) /\ Lines(Q) /\ Started(Q)

(* A handler removes no card and completes none; one that finds a run      *)
(* leaves it with its card.                                                *)
Spares(Q, R) ==
  /\ R.list = Q.list
  /\ \A j \in Jobs : R.status[j] = Q.status[j]
                     \/ R.status[j] \notin {"none", "completed"}
Holds(Q, R) ==
  Q.run.pc # "idle" => R.run.pc = Q.run.pc /\ R.run.job = Q.run.job

Serves(Q, R) == Fit(R) /\ Spares(Q, R) /\ Holds(Q, R)

LEMMA SameServes ==
  ASSUME NEW Q, NEW R, Fit(Q), Same(Q, R), Lines(R)
  PROVE  Serves(Q, R)
<1>1. Shaped(R) /\ Running(R) /\ Started(R)
  BY RunningSame DEF Fit, Same, Started
<1>2. Spares(Q, R) /\ Holds(Q, R)
  BY DEF Same, Spares, Holds
<1>3. QED
  BY <1>1, <1>2 DEF Serves, Fit

LEMMA ServesTrans ==
  ASSUME NEW Q, NEW R, NEW T, Serves(Q, R), Serves(R, T)
  PROVE  Serves(Q, T)
<1>1. Spares(Q, T)
  BY DEF Serves, Spares
<1>2. Holds(Q, T)
  BY DEF Serves, Holds
<1>3. QED
  BY <1>1, <1>2 DEF Serves

LEMMA HeadOf ==
  ASSUME NEW T, NEW s \in Seq(T), s # <<>>
  PROVE  Head(s) \in ToSet(s)
<1>1. Head(s) = s[1] /\ 1 \in DOMAIN s
  OBVIOUS
<1>2. QED
  BY <1>1 DEF ToSet

LEMMA WaitingIs ==
  ASSUME NEW Q, Lines(Q)
  PROVE  /\ ToSet(Waiting(Q)) \subseteq {j \in Jobs : Q.status[j] = "queued"}
         /\ Waiting(Q) # <<>> => /\ Head(Waiting(Q)) \in Jobs
                                 /\ Q.status[Head(Waiting(Q))] = "queued"
<1>1. /\ Waiting(Q) \in Seq(Jobs)
      /\ ToSet(Waiting(Q)) \subseteq {j \in Jobs : Q.status[j] = "queued"}
  BY OnlySet DEF Lines, Waiting
<1>2. Waiting(Q) # <<>> => Head(Waiting(Q)) \in ToSet(Waiting(Q))
  BY <1>1, HeadOf
<1>3. QED
  BY <1>1, <1>2

(* What begins to run is what was queued, or what waited for its probe.    *)
LEMMA BeginServes ==
  ASSUME NEW Q, Shaped(Q), Lines(Q), NEW j \in Jobs, Q.tries \in [Jobs -> Nat],
         Q.tries[j] # 0, Q.status[j] \notin {"completed", "failed"},
         \A k \in Jobs : Q.status[k] = "queued" => Q.tries[k] # 0
  PROVE  /\ Lines(Begin(Q, j)) /\ Started(Begin(Q, j))
         /\ Spares(Q, Begin(Q, j))
<1> DEFINE st == Moved(Q.status, j, "processing")
           r  == [pc |-> "running", job |-> j, try |-> Q.tries[j],
                  stopped |-> FALSE]
           R  == [Q EXCEPT !.status = st, !.run = r]
<1>1. Begin(Q, j) = R
  BY DEF Begin
<1>2. /\ \A k \in Jobs : st[k] = Q.status[k] \/ (k = j /\ st[k] = "processing")
  BY MovedType DEF Shaped
<1>3. r.pc = "running" /\ r.job = j /\ r.try = Q.tries[j]
  OBVIOUS
<1> HIDE DEF st, r
<1>4. /\ R.list = Q.list /\ R.tries = Q.tries /\ R.status = st /\ R.run = r
      /\ SameLines(Q, R)
  BY DEF Shaped, SameLines
<1> HIDE DEF R
<1>5. Lines(R)
  BY <1>4, SameLinesLines
<1>6. Started(R)
  BY <1>2, <1>3, <1>4 DEF Started
<1>7. Spares(Q, R)
  BY <1>2, <1>4 DEF Spares
<1>8. QED
  BY <1>1, <1>5, <1>6, <1>7

LEMMA PumpServes ==
  ASSUME NEW Q, Fit(Q)
  PROVE  Serves(Q, Pump(Q))
<1> DEFINE queued == Waiting(Q)
           j      == Head(queued)
           S      == Settle(Q, j)
           st     == [k \in Jobs |-> IF k \in ToSet(queued) THEN "failed"
                                     ELSE Q.status[k]]
           r      == [pc |-> "settling", job |-> j, try |-> Q.tries[j],
                      stopped |-> FALSE]
           F      == [Q EXCEPT !.status = st]
           P      == [S EXCEPT !.run = r]
<1>1. \/ Pump(Q) = Q
      \/ /\ Q.run.pc = "idle" /\ queued # <<>>
         /\ Pump(Q) \in {F, P, Begin(S, j)}
  BY DEF Pump
<1>2. CASE Pump(Q) = Q
  <2>1. Serves(Q, Q)
    BY SameServes, SameSelf DEF Fit
  <2>2. QED
    BY <1>2, <2>1
<1>3. CASE /\ Q.run.pc = "idle" /\ queued # <<>>
           /\ Pump(Q) \in {F, P, Begin(S, j)}
  <2>1. Shaped(Pump(Q)) /\ Running(Pump(Q)) /\ Holds(Q, Pump(Q))
    BY <1>3, PumpKept DEF Fit, Kept, Holds
  <2>2. /\ j \in Jobs /\ Q.status[j] = "queued"
        /\ ToSet(queued) \subseteq {k \in Jobs : Q.status[k] = "queued"}
    BY <1>3, WaitingIs DEF Fit
  <2>3. Same(Q, S) /\ Lines(S)
    BY SettleSame, SettleLines DEF Fit
  <2> HIDE DEF j, queued, S
  <2>4. /\ Shaped(S) /\ S.tries = Q.tries /\ S.status = Q.status
        /\ S.list = Q.list
    BY <2>3 DEF Same
  <2>5. Lines(F) /\ Started(F) /\ Spares(Q, F)
    <3>1. \A k \in Jobs : st[k] = Q.status[k] \/ st[k] = "failed"
      OBVIOUS
    <3> HIDE DEF st
    <3>2. F.status = st /\ F.tries = Q.tries /\ F.run = Q.run
          /\ F.list = Q.list /\ SameLines(Q, F)
      BY DEF Fit, Shaped, SameLines
    <3> HIDE DEF F
    <3>3. Lines(F)
      BY <3>2, SameLinesLines DEF Fit
    <3>4. Started(F) /\ Spares(Q, F)
      BY <1>3, <3>1, <3>2 DEF Fit, Started, Spares
    <3>5. QED
      BY <3>3, <3>4
  <2>6. Lines(P) /\ Started(P) /\ Spares(Q, P)
    <3>1. r.pc = "settling" /\ r.job = j /\ r.try = Q.tries[j]
      OBVIOUS
    <3> HIDE DEF r
    <3>2. P.status = S.status /\ P.tries = S.tries /\ P.run = r
          /\ P.list = S.list /\ SameLines(S, P)
      BY <2>4 DEF Shaped, SameLines
    <3> HIDE DEF P
    <3>3. Lines(P)
      BY <2>3, <3>2, SameLinesLines
    <3>4. Started(P)
      BY <2>2, <2>4, <3>1, <3>2 DEF Fit, Started
    <3>5. Spares(Q, P)
      BY <2>4, <3>2 DEF Spares
    <3>6. QED
      BY <3>3, <3>4, <3>5
  <2>7. /\ Lines(Begin(S, j)) /\ Started(Begin(S, j))
        /\ Spares(Q, Begin(S, j))
    <3>1. Lines(Begin(S, j)) /\ Started(Begin(S, j)) /\ Spares(S, Begin(S, j))
      BY <2>2, <2>3, <2>4, BeginServes DEF Fit, Started
    <3>2. QED
      BY <2>4, <3>1 DEF Spares
  <2> HIDE DEF F, P
  <2>8. Lines(Pump(Q)) /\ Started(Pump(Q)) /\ Spares(Q, Pump(Q))
    BY <1>3, <2>5, <2>6, <2>7
  <2>9. QED
    BY <2>1, <2>8 DEF Serves, Fit
<1>4. QED
  BY <1>1, <1>2, <1>3

(* The machine is given back.                                              *)
LEMMA FinishServes ==
  ASSUME NEW Q, Shaped(Q), Silent(Q), Lines(Q), Q.tries \in [Jobs -> Nat],
         \A k \in Jobs : Q.status[k] = "queued" => Q.tries[k] # 0
  PROVE  Fit(Finish(Q)) /\ Spares(Q, Finish(Q))
<1> DEFINE I == [Q EXCEPT !.run = Idle]
           P == Pump(I)
<1>1. Finish(Q) = PumpProbes(P)
  BY DEF Finish
<1>2. /\ Shaped(I) /\ I.status = Q.status /\ I.run = Idle
  BY RunFields DEF Idle
<1>3. /\ I.list = Q.list /\ I.tries = Q.tries /\ SameLines(Q, I)
  BY DEF Shaped, SameLines
<1> HIDE DEF I
<1>4. Silent(I)
  BY <1>2 DEF Silent
<1>5. Fit(I)
  <2>1. Idle.pc = "idle"
    BY DEF Idle
  <2>2. Started(I)
    BY <1>2, <1>3, <2>1 DEF Started
  <2>3. QED
    BY <1>2, <1>3, <1>4, <2>2, SilentRuns, SameLinesLines DEF Fit
<1>6. Serves(I, P)
  BY <1>5, PumpServes
<1> HIDE DEF P
<1>7. Serves(P, PumpProbes(P))
  BY <1>6, PumpProbesSame, PumpProbesLines, SameServes DEF Serves, Fit
<1>8. Serves(I, PumpProbes(P))
  BY <1>6, <1>7, ServesTrans
<1>9. QED
  BY <1>1, <1>2, <1>3, <1>8 DEF Serves, Spares

LEMMA StopCardsServes ==
  ASSUME NEW Q, Fit(Q), NEW S \in SUBSET Jobs
  PROVE  Serves(Q, StopCards(Q, S))
<1> DEFINE P  == StopProbing(Q, S)
           st == [j \in Jobs |-> IF j \in S THEN Moved(P.status, j, "cancelled")[j]
                                 ELSE P.status[j]]
           b  == P.run.stopped \/ (Q.run.pc = "running" /\
                                   \E j \in S : Q.status[j] = "processing")
           R  == [P EXCEPT !.status = st, !.run = [P.run EXCEPT !.stopped = b]]
<1>1. Same(Q, P) /\ Lines(P)
  BY StopProbingSame, StopProbingLines DEF Fit
<1>2. Shaped(StopCards(Q, S)) /\ Running(StopCards(Q, S))
  BY StopCardsKept DEF Fit
<1>3. StopCards(Q, S) = [P EXCEPT !.status = st, !.run.stopped = b]
  BY DEF StopCards
<1> HIDE DEF P
<1>4. /\ Shaped(P) /\ P.status = Q.status /\ P.run = Q.run /\ P.list = Q.list
      /\ P.tries = Q.tries
  BY <1>1 DEF Same
<1>5. \A j \in Jobs : st[j] \in {"cancelled", Q.status[j]}
  BY <1>4 DEF Moved, Shaped
<1> HIDE DEF st, b
<1>6. StopCards(Q, S) = R
  BY <1>3, <1>4 DEF Shaped
<1>7. R.run.pc = Q.run.pc /\ R.run.job = Q.run.job /\ R.run.try = Q.run.try
  BY <1>4 DEF Shaped
<1>8. R.status = st /\ R.list = P.list /\ R.tries = P.tries /\ SameLines(P, R)
  BY <1>4 DEF Shaped, SameLines
<1> HIDE DEF R
<1>9. Lines(R)
  BY <1>1, <1>8, SameLinesLines
<1>10. Started(R)
  BY <1>4, <1>5, <1>7, <1>8 DEF Fit, Started
<1>11. Spares(Q, R) /\ Holds(Q, R)
  BY <1>4, <1>5, <1>7, <1>8 DEF Spares, Holds
<1>12. QED
  BY <1>2, <1>6, <1>9, <1>10, <1>11 DEF Serves, Fit

-----------------------------------------------------------------------------
(* The invariant about the list, the documents and what is saved.          *)
Snap(s) ==
  /\ s.list \in Seq(Jobs) /\ ToSet(s.list) \cap TeamJobs = {}
  /\ s.status = [j \in Jobs |-> s.status[j]]
  /\ \A j \in ToSet(s.list) : s.status[j] # "none"
  /\ \A j \in Jobs \ ToSet(s.list) : s.status[j] = "none" /\ s.lang[j] = "none"

ListInv ==
  /\ Lines(Queue) /\ Started(Queue)
  /\ doc = [j \in Jobs |-> doc[j]] /\ result = [j \in Jobs |-> result[j]]
  /\ \A j \in ToSet(list) : status[j] = "completed" => doc[j] # 0
  /\ cleanup \subseteq Jobs /\ cleanup \cap ToSet(list) = {}
  /\ \A j \in ToSet(list) \cup cleanup : status[j] # "none"
  /\ Snap(disk) /\ (writing # None => Snap(writing))

(* A document differs from the one the file should have only while a save  *)
(* has still to put the previous one back.                                 *)
DocInv ==
  \A j \in Jobs : doc[j] = result[j] \/ (run.pc = "restoring" /\ run.job = j)

StepLists == ListInv' /\ (DocInv /\ ~CanLoseRestore => DocInv')

LEMMA AllFields ==
  /\ Queue.list = list /\ Queue.status = status /\ Queue.lang = lang
  /\ Queue.listening = listening /\ Queue.probeQueue = probeQueue
  /\ Queue.walker = walker /\ Queue.mode = mode /\ Queue.run = run
  /\ Queue.tries = tries /\ Queue.asks = asks /\ Queue.tools = tools
  /\ Queue.model = model
  /\ Queue'.list = list' /\ Queue'.status = status' /\ Queue'.lang = lang'
  /\ Queue'.listening = listening' /\ Queue'.probeQueue = probeQueue'
  /\ Queue'.walker = walker' /\ Queue'.mode = mode' /\ Queue'.run = run'
  /\ Queue'.tries = tries'
BY DEF Queue

(* The fields that say nothing about the list and the probes.             *)
LEMMA CardsLines ==
  ASSUME NEW Q, Shaped(Q), NEW x
  PROVE  /\ \A R \in {[Q EXCEPT !.status = x], [Q EXCEPT !.lang = x],
                      [Q EXCEPT !.asks = x], [Q EXCEPT !.tools = x],
                      [Q EXCEPT !.model = x], [Q EXCEPT !.run = x]} :
              SameLines(Q, R) /\ R.tries = Q.tries
         /\ SameLines(Q, [Q EXCEPT !.tries = x])
         /\ [Q EXCEPT !.tries = x].tries = x
<1>1. LET R == [Q EXCEPT !.status = x] IN SameLines(Q, R) /\ R.tries = Q.tries
  BY DEF Shaped, SameLines
<1>2. LET R == [Q EXCEPT !.lang = x] IN SameLines(Q, R) /\ R.tries = Q.tries
  BY DEF Shaped, SameLines
<1>3. LET R == [Q EXCEPT !.asks = x] IN SameLines(Q, R) /\ R.tries = Q.tries
  BY DEF Shaped, SameLines
<1>4. LET R == [Q EXCEPT !.tools = x] IN SameLines(Q, R) /\ R.tries = Q.tries
  BY DEF Shaped, SameLines
<1>5. LET R == [Q EXCEPT !.model = x] IN SameLines(Q, R) /\ R.tries = Q.tries
  BY DEF Shaped, SameLines
<1>6. LET R == [Q EXCEPT !.run = x] IN SameLines(Q, R) /\ R.tries = Q.tries
  BY DEF Shaped, SameLines
<1>7. LET R == [Q EXCEPT !.tries = x] IN SameLines(Q, R) /\ R.tries = x
  BY DEF Shaped, SameLines
<1>8. QED
  BY <1>1, <1>2, <1>3, <1>4, <1>5, <1>6, <1>7

LEMMA FitNow ==
  ASSUME RInv, ListInv
  PROVE  Fit(Queue)
BY DEF RInv, ListInv, Fit

(* A handler that leaves the disk alone.                                   *)
LEMMA HandlerLists ==
  ASSUME RInv, ListInv, NEW R, Becomes(R), UNCHANGED diskVars,
         Fit(R), Spares(Queue, R),
         Holds(Queue, R) \/ run.pc # "restoring" \/ CanLoseRestore
  PROVE  StepLists
<1>1. Queue' = R /\ status' = R.status /\ run' = R.run /\ list' = R.list
  BY BecomesIs, AllFields DEF Fit
<1>2. Lines(Queue') /\ Started(Queue')
  BY <1>1 DEF Fit
<1>3. /\ list' = list
      /\ \A j \in Jobs : status'[j] = status[j]
                         \/ status'[j] \notin {"none", "completed"}
  BY <1>1, AllFields DEF Spares
<1>4. ToSet(list) \subseteq Jobs
  BY AllFields DEF ListInv, Lines, ToSet
<1>5. ListInv'
  BY <1>2, <1>3, <1>4 DEF ListInv, diskVars
<1>6. DocInv /\ ~CanLoseRestore => DocInv'
  BY <1>1, AllFields DEF DocInv, Holds, diskVars
<1>7. QED
  BY <1>5, <1>6 DEF StepLists

LEMMA ServesLists ==
  ASSUME RInv, ListInv, NEW R, Becomes(R), UNCHANGED diskVars, Serves(Queue, R)
  PROVE  StepLists
BY HandlerLists DEF Serves

(* A step that leaves the list, the cards and the run alone.               *)
LEMMA StillLists ==
  ASSUME RInv, ListInv,
         UNCHANGED <<list, status, listening, probeQueue, walker, mode, run,
                     tries, doc, result, cleanup>>,
         Snap(disk'), writing' # None => Snap(writing')
  PROVE  StepLists
<1>1. Lines(Queue')
  BY AllFields DEF ListInv, Lines
<1>2. Started(Queue')
  BY AllFields DEF ListInv, Started
<1>3. QED
  BY <1>1, <1>2 DEF StepLists, ListInv, DocInv

-----------------------------------------------------------------------------
LEMMA AddLists ==
  ASSUME RInv, ListInv, NEW j \in Jobs, Add(j)
  PROVE  StepLists
<1>1. /\ status[j] = "none" /\ list' = Append(list, j)
      /\ status' = [status EXCEPT ![j] = "analyzing"]
      /\ UNCHANGED <<listening, probeQueue, walker, mode, run, tries, doc,
                     result, cleanup, disk, writing>>
  BY DEF Add, diskVars
<1>2. list \in Seq(Jobs) /\ status = [k \in Jobs |-> status[k]]
  BY AllFields DEF ListInv, Lines, RInv, Shaped
<1>3. list' \in Seq(Jobs) /\ ToSet(list') = ToSet(list) \cup {j}
  <2>1. /\ Members(list') = Members(list) \cup {j} /\ list' \in Seq(Jobs)
    BY <1>1, <1>2, AppendMembers
  <2>2. QED
    BY <2>1 DEF Members, ToSet
<1>4. /\ \A k \in Jobs : k # j => status'[k] = status[k]
      /\ status'[j] = "analyzing"
  BY <1>1, <1>2
<1>5. ToSet(list) \subseteq Jobs
  BY <1>2 DEF ToSet
<1>6. Lines(Queue')
  BY <1>1, <1>3, AllFields DEF ListInv, Lines
<1>7. Started(Queue')
  BY <1>1, <1>4, AllFields DEF ListInv, Started
<1>8. ListInv'
  <2>1. /\ cleanup' \cap ToSet(list') = {}
        /\ \A k \in ToSet(list') \cup cleanup' : status'[k] # "none"
        /\ \A k \in ToSet(list') : status'[k] = "completed" => doc'[k] # 0
    BY <1>1, <1>3, <1>4, <1>5 DEF ListInv
  <2>2. QED
    BY <1>1, <1>6, <1>7, <2>1 DEF ListInv
<1>9. QED
  BY <1>1, <1>8 DEF StepLists, DocInv

LEMMA AnalyzedLists ==
  ASSUME RInv, ListInv, NEW j \in Jobs, Analyzed(j)
  PROVE  StepLists
<1> DEFINE st == Moved(status, j, "ready")
           A  == [Queue EXCEPT !.status = st]
<1>1. Becomes(Schedule(A, j)) /\ UNCHANGED diskVars /\ j \in ToSet(list)
  BY AllFields DEF Analyzed, Listed
<1>2. /\ st = [k \in Jobs |-> st[k]]
      /\ \A k \in Jobs : st[k] \in {"ready", status[k]}
  BY MovedType, AllFields DEF RInv, Shaped
<1>3. Fit(Queue)
  BY FitNow
<1> HIDE DEF st
<1>4. Shaped(A) /\ A.status = st /\ A.run = run /\ A.tries = tries
  BY <1>2, <1>3, CardFields, AllFields DEF Fit
<1>5. A.list = list /\ SameLines(Queue, A)
  BY <1>3, AllFields DEF SameLines, Fit, Shaped
<1> HIDE DEF A
<1>6. Lines(A)
  BY <1>3, <1>5, SameLinesLines DEF Fit
<1>7. Running(A) /\ Started(A)
  BY <1>2, <1>3, <1>4, AllFields DEF Fit, Running, Started
<1>8. Serves(Queue, A)
  BY <1>2, <1>4, <1>5, <1>6, <1>7, AllFields DEF Serves, Fit, Spares, Holds
<1>9. Serves(A, Schedule(A, j))
  BY <1>1, <1>4, <1>5, <1>6, <1>8, ScheduleSame, ScheduleLines, SameServes
  DEF Serves
<1>10. QED
  BY <1>1, <1>8, <1>9, ServesTrans, ServesLists

LEMMA StartLists ==
  ASSUME RInv, ListInv, NEW S \in SUBSET Jobs, Start(S)
  PROVE  StepLists
<1> DEFINE st == [j \in Jobs |-> IF j \in S THEN "queued" ELSE status[j]]
           tr == [j \in Jobs |-> IF j \in S THEN tries[j] + 1 ELSE tries[j]]
           l  == [j \in Jobs |-> IF j \in S /\ lang[j] = "run" THEN "none"
                                 ELSE lang[j]]
           A  == [Queue EXCEPT !.status = st]
           B  == [A EXCEPT !.tries = tr]
           C  == [B EXCEPT !.lang = l]
<1>1. Becomes(Pump(C)) /\ UNCHANGED diskVars
  <2>1. C = [Queue EXCEPT
               !.status = [j \in Jobs |-> IF j \in S THEN "queued" ELSE @[j]],
               !.tries  = [j \in Jobs |-> IF j \in S THEN @[j] + 1 ELSE @[j]],
               !.lang   = [j \in Jobs |-> IF j \in S /\ @[j] = "run"
                                          THEN "none" ELSE @[j]]]
    BY QueueFields
  <2> HIDE DEF C
  <2>2. QED
    BY <2>1 DEF Start
<1>2. Fit(Queue) /\ tries \in [Jobs -> Nat]
  BY FitNow, AllFields DEF ListInv, Started
<1>3. /\ st = [k \in Jobs |-> st[k]] /\ l = [k \in Jobs |-> l[k]]
      /\ \A k \in Jobs : \/ st[k] = status[k] /\ k \notin S
                         \/ st[k] = "queued" /\ k \in S
  OBVIOUS
<1>4. /\ tr \in [Jobs -> Nat]
      /\ \A k \in Jobs : (tries[k] # 0 \/ k \in S) => tr[k] # 0
  BY <1>2
<1> HIDE DEF st, tr, l
<1>5. /\ Shaped(A) /\ A.status = st /\ A.run = run /\ SameLines(Queue, A)
  BY <1>2, <1>3, CardFields, CardsLines, AllFields DEF Fit
<1> HIDE DEF A
<1>6. /\ Shaped(B) /\ B.status = st /\ B.run = run /\ SameLines(A, B)
      /\ B.tries = tr
  BY <1>5, OtherFields, CardsLines
<1> HIDE DEF B
<1>7. /\ Shaped(C) /\ C.status = st /\ C.run = run /\ SameLines(B, C)
      /\ C.tries = tr
  BY <1>3, <1>6, LangFields, CardsLines
<1> HIDE DEF C
<1>8. Lines(C) /\ C.list = list
  <2>1. SameLines(Queue, C)
    BY <1>5, <1>6, <1>7 DEF SameLines
  <2>2. QED
    BY <1>2, <2>1, SameLinesLines, AllFields DEF Fit, SameLines
<1>9. Running(C)
  BY <1>2, <1>3, <1>7, AllFields DEF Fit, Running
<1>10. Started(C)
  BY <1>2, <1>3, <1>4, <1>7, AllFields DEF Fit, Started
<1>11. Serves(Queue, C)
  BY <1>3, <1>7, <1>8, <1>9, <1>10, AllFields DEF Serves, Fit, Spares, Holds
<1>12. Serves(C, Pump(C))
  BY <1>11, PumpServes DEF Serves
<1>13. QED
  BY <1>1, <1>11, <1>12, ServesTrans, ServesLists

LEMMA StopLists ==
  ASSUME RInv, ListInv, NEW S \in SUBSET Jobs, Becomes(StopCards(Queue, S)),
         UNCHANGED diskVars
  PROVE  StepLists
BY FitNow, StopCardsServes, ServesLists

LEMMA RemoveLists ==
  ASSUME RInv, ListInv, NEW S, S \subseteq ToSet(list), RemoveAll(S)
  PROVE  StepLists
<1> DEFINE P == StopProbing(Queue, S)
           x == Without(P.list, S)
           R == [P EXCEPT !.list = x]
<1>1. /\ Becomes(R) /\ cleanup' = cleanup \cup S
      /\ UNCHANGED <<doc, result, disk, writing>>
  BY DEF RemoveAll
<1>2. Fit(Queue)
  BY FitNow
<1>3. Same(Queue, P) /\ Lines(P) /\ P.listening = Queue.listening \ S
  BY <1>2, StopProbingSame, StopProbingLines DEF Fit
<1> HIDE DEF P
<1>4. /\ Shaped(P) /\ P.list = list /\ P.status = status /\ P.run = run
      /\ P.tries = tries
  BY <1>3, AllFields DEF Same
<1>5. x \in Seq(Jobs) /\ ToSet(x) = ToSet(list) \ S /\ ToSet(list) \subseteq Jobs
  <2>1. list \in Seq(Jobs) /\ ToSet(list) \subseteq Jobs
    BY <1>3, <1>4 DEF Lines, ToSet
  <2>2. QED
    BY <1>4, <2>1, OnlySet DEF Without
<1> HIDE DEF x
<1>6. /\ Shaped(R) /\ R.list = x /\ R.status = status /\ R.run = run
      /\ R.tries = tries /\ R.listening = P.listening /\ R.walker = P.walker
      /\ R.mode = P.mode /\ R.probeQueue = P.probeQueue
  BY <1>4 DEF Shaped
<1> HIDE DEF R
<1>7. Lines(R)
  BY <1>3, <1>4, <1>5, <1>6, AllFields DEF Lines
<1>8. Started(R)
  BY <1>2, <1>6, AllFields DEF Fit, Started
<1>9. Queue' = R /\ status' = status /\ run' = run /\ list' = x
  BY <1>1, <1>6, BecomesIs, AllFields
<1>10. ListInv'
  BY <1>1, <1>5, <1>7, <1>8, <1>9 DEF ListInv
<1>11. QED
  BY <1>1, <1>9, <1>10 DEF StepLists, DocInv

LEMMA CleanedLists ==
  ASSUME RInv, ListInv, NEW j, Cleaned(j)
  PROVE  StepLists
<1>1. /\ j \in cleanup /\ cleanup' = cleanup \ {j}
      /\ doc' = [doc EXCEPT ![j] = 0] /\ result' = [result EXCEPT ![j] = 0]
      /\ UNCHANGED <<list, status, lang, listening, probeQueue, walker, mode,
                     run, tries, disk, writing>>
  BY DEF Cleaned, queueVars
<1>2. j \in Jobs /\ j \notin ToSet(list)
  BY <1>1 DEF ListInv
<1>3. /\ doc' = [k \in Jobs |-> doc'[k]] /\ result' = [k \in Jobs |-> result'[k]]
      /\ doc'[j] = 0 /\ result'[j] = 0
      /\ \A k \in Jobs : k # j => doc'[k] = doc[k] /\ result'[k] = result[k]
  BY <1>1, <1>2 DEF ListInv
<1>4. Lines(Queue') /\ Started(Queue')
  <2>1. Lines(Queue')
    BY <1>1, AllFields DEF ListInv, Lines
  <2>2. Started(Queue')
    BY <1>1, AllFields DEF ListInv, Started
  <2>3. QED
    BY <2>1, <2>2
<1>5. ToSet(list) \subseteq Jobs
  BY AllFields DEF ListInv, Lines, ToSet
<1>6. ListInv'
  BY <1>1, <1>2, <1>3, <1>4, <1>5 DEF ListInv
<1>7. QED
  BY <1>1, <1>3, <1>6 DEF StepLists, DocInv

(* A handler of the probes alone, whatever it makes of the languages.      *)
LEMMA StillServes ==
  ASSUME NEW Q, NEW R, Fit(Q), Shaped(R), Lines(R), R.list = Q.list,
         R.status = Q.status, R.run = Q.run, R.tries = Q.tries
  PROVE  Serves(Q, R)
<1>1. Running(R) /\ Started(R)
  BY DEF Fit, Running, Started
<1>2. Spares(Q, R) /\ Holds(Q, R)
  BY DEF Spares, Holds
<1>3. QED
  BY <1>1, <1>2 DEF Serves, Fit

LEMMA LanguageLists ==
  ASSUME RInv, ListInv, NEW j \in Jobs, NameLanguage(j) \/ AskLanguage(j)
  PROVE  StepLists
<1> DEFINE P == StopProbing(Queue, {j})
<1>1. Same(Queue, P) /\ Lines(P) /\ Serves(Queue, P)
  BY FitNow, StopProbingSame, StopProbingLines, SameServes DEF Fit
<1> HIDE DEF P
<1>2. P.lang = lang /\ P.list = list /\ Shaped(P) /\ Fit(P)
  BY <1>1, AllFields DEF Same, Serves
<1>3. ASSUME NEW x, NEW l, l = [lang EXCEPT ![j] = x]
      PROVE  Serves(P, [P EXCEPT !.lang = l])
  <2> DEFINE R == [P EXCEPT !.lang = l]
  <2>1. l = [k \in Jobs |-> l[k]]
    BY <1>3, AllFields DEF RInv, Shaped
  <2>2. Shaped(R) /\ R.status = P.status /\ R.run = P.run
    BY <1>2, <2>1, LangFields
  <2>3. SameLines(P, R) /\ R.tries = P.tries
    BY <1>2, CardsLines
  <2> HIDE DEF R
  <2>4. Lines(R) /\ R.list = P.list
    BY <1>1, <2>3, SameLinesLines DEF SameLines
  <2>5. Serves(P, R)
    BY <1>2, <2>2, <2>3, <2>4, StillServes
  <2>6. QED
    BY <2>5 DEF R
<1>4. CASE NameLanguage(j)
  <2> DEFINE l == [lang EXCEPT ![j] = "manual"]
             R == [P EXCEPT !.lang = l]
  <2>1. Becomes(R) /\ UNCHANGED diskVars
    <3>1. [P EXCEPT !.lang[j] = "manual"] = R
      BY <1>2
    <3>2. QED
      BY <1>4, <3>1 DEF NameLanguage, P
  <2>2. Serves(P, R)
    BY <1>3
  <2> HIDE DEF R
  <2>3. QED
    BY <1>1, <2>1, <2>2, ServesTrans, ServesLists
<1>5. CASE AskLanguage(j)
  <2> DEFINE l == [lang EXCEPT ![j] = "none"]
             x == P.asks + 1
             A == [P EXCEPT !.lang = l]
             B == [A EXCEPT !.asks = x]
  <2>1. /\ Becomes(Schedule(B, j)) /\ UNCHANGED diskVars /\ j \in ToSet(list)
    <3>1. [P EXCEPT !.lang[j] = "none", !.asks = @ + 1] = B
      BY <1>2
    <3>2. QED
      BY <1>5, <3>1, AllFields DEF AskLanguage, P, Listed
  <2>2. Serves(P, A)
    BY <1>3
  <2> HIDE DEF A, x
  <2>3. Fit(A) /\ A.list = list
    BY <1>2, <2>2 DEF Serves, Spares
  <2>4. /\ Shaped(B) /\ B.status = A.status /\ B.run = A.run
        /\ SameLines(A, B) /\ B.tries = A.tries
    BY <2>3, OtherFields, CardsLines DEF Fit
  <2> HIDE DEF B
  <2>5. Lines(B) /\ B.list = list
    BY <2>3, <2>4, SameLinesLines DEF Fit, SameLines
  <2>6. Serves(A, B)
    BY <2>3, <2>4, <2>5, StillServes
  <2>7. Serves(B, Schedule(B, j))
    BY <2>1, <2>4, <2>5, <2>6, ScheduleSame, ScheduleLines, SameServes
    DEF Serves
  <2>8. QED
    BY <1>1, <2>1, <2>2, <2>6, <2>7, ServesTrans, ServesLists
<1>6. QED
  BY <1>4, <1>5

LEMMA OnlyLanguageLists ==
  ASSUME RInv, ListInv, Fragment \/ RunHears \/ ModelGoes
  PROVE  StepLists
<1>1. UNCHANGED <<list, status, listening, probeQueue, walker, mode, run,
                  tries, doc, result, cleanup, writing, disk>>
  BY DEF Fragment, RunHears, ModelGoes, diskVars
<1>2. QED
  BY <1>1, StillLists DEF ListInv

LEMMA ProbeEndsLists ==
  ASSUME RInv, ListInv, ProbeEnds
  PROVE  StepLists
<1>1. Fit(Queue) /\ UNCHANGED diskVars
  BY FitNow DEF ProbeEnds
<1>2. /\ list \in Seq(Jobs) /\ probeQueue \in Seq(Jobs)
      /\ listening \subseteq ToSet(list)
      /\ \A j \in listening : j \in ToSet(probeQueue) \/ walker = j
  BY AllFields DEF ListInv, Lines
<1>3. CASE /\ walker \in ToSet(probeQueue) \/ ~Listed(Queue, walker)
           /\ Becomes(Drain(Queue))
  <2>1. listening \subseteq ToSet(probeQueue)
    BY <1>2, <1>3, AllFields DEF Listed
  <2>2. Lines(Drain(Queue))
    BY <1>1, <1>2, <2>1, DrainLines, AllFields DEF Fit
  <2>3. Serves(Queue, Drain(Queue))
    BY <1>1, <2>2, DrainSame, SameServes DEF Fit
  <2>4. QED
    BY <1>1, <1>3, <2>3, ServesLists
<1>4. ASSUME NEW heard,
             Becomes(Drain([Queue EXCEPT
                              !.listening = @ \ {walker},
                              !.lang = Apply(@, walker, heard)]))
      PROVE  StepLists
  <2> DEFINE h == Queue.listening \ {walker}
             l == Apply(lang, walker, heard)
             A == [Queue EXCEPT !.listening = h]
             B == [A EXCEPT !.lang = l]
  <2>1. Becomes(Drain(B))
    <3>1. [Queue EXCEPT !.listening = @ \ {walker},
                        !.lang = Apply(@, walker, heard)] = B
      BY AllFields
    <3>2. QED
      BY <1>4, <3>1
  <2>2. h \subseteq ToSet(list) /\ h \subseteq ToSet(probeQueue)
    BY <1>2, AllFields
  <2>3. l = [k \in Jobs |-> l[k]]
    BY ApplyKeepsAnswers, AllFields DEF RInv, Shaped
  <2> HIDE DEF h, l
  <2>4. Same(Queue, A) /\ A.listening = h /\ A.probeQueue = probeQueue
    <3>1. Same(Queue, A)
      BY <1>1, FieldSame DEF Fit
    <3>2. A.listening = h /\ A.probeQueue = probeQueue
      BY <1>1, AllFields DEF Fit, Shaped
    <3>3. QED
      BY <3>1, <3>2
  <2> HIDE DEF A
  <2>5. /\ Shaped(A) /\ A.status = status /\ A.run = run /\ A.list = list
        /\ A.tries = tries
    BY <2>4, AllFields DEF Same
  <2>6. /\ Shaped(B) /\ B.status = status /\ B.run = run
        /\ SameLines(A, B) /\ B.tries = tries
    BY <2>3, <2>5, LangFields, CardsLines
  <2> HIDE DEF B
  <2>7. B.list = list /\ B.listening = h /\ B.probeQueue = probeQueue
    BY <2>4, <2>5, <2>6 DEF SameLines
  <2>8. Lines(Drain(B))
    BY <1>2, <2>2, <2>6, <2>7, DrainLines
  <2>9. Same(B, Drain(B))
    BY <2>6, DrainSame
  <2> DEFINE D == Drain(B)
  <2> HIDE DEF D
  <2>10. /\ Shaped(D) /\ Lines(D) /\ D.list = list /\ D.status = status
         /\ D.run = run /\ D.tries = tries
    BY <2>6, <2>7, <2>8, <2>9 DEF Same, D
  <2>11. Serves(Queue, D)
    BY <1>1, <2>10, StillServes, AllFields
  <2>12. QED
    BY <1>1, <2>1, <2>11, ServesLists DEF D
<1>5. QED
  BY <1>3, <1>4 DEF ProbeEnds

-----------------------------------------------------------------------------
(* The run, the list and the documents.                                    *)
LEMMA SettleEndsLists ==
  ASSUME RInv, ListInv, SettleEnds
  PROVE  StepLists
<1> DEFINE R == Begin(Queue, run.job)
<1>1. Becomes(R) /\ UNCHANGED diskVars /\ run.pc = "settling"
  BY DEF SettleEnds
<1>2. Fit(Queue) /\ Silent(Queue)
  BY <1>1, FitNow, AllFields DEF RInv, Running, Silent
<1>3. /\ run.job \in Jobs /\ tries[run.job] # 0 /\ tries \in [Jobs -> Nat]
      /\ status[run.job] \notin {"completed", "failed"}
      /\ \A k \in Jobs : status[k] = "queued" => tries[k] # 0
  BY <1>1, AllFields DEF ListInv, Started
<1>4. Shaped(R) /\ Running(R)
  BY <1>2, BeginRunning DEF Fit
<1>5. Lines(R) /\ Started(R) /\ Spares(Queue, R)
  BY <1>2, <1>3, BeginServes, AllFields DEF Fit
<1> HIDE DEF R
<1>6. QED
  BY <1>1, <1>4, <1>5, HandlerLists DEF Fit

(* The steps of a save that only move the run on.                          *)
LEMMA RunMovesLists ==
  ASSUME RInv, ListInv, RunSpeaks \/ WriteEnds
  PROVE  StepLists
<1>1. /\ UNCHANGED <<list, status, listening, probeQueue, walker, mode, tries,
                     doc, result, cleanup, writing, disk>>
      /\ run.pc \in {"running", "saving"}
  BY DEF RunSpeaks, WriteEnds, diskVars
<1>2. /\ run'.job = run.job /\ run'.try = run.try
  <2>1. run = [pc |-> run.pc, job |-> run.job, try |-> run.try,
               stopped |-> run.stopped]
    BY AllFields DEF RInv, Shaped
  <2>2. \E pc : run' = [run EXCEPT !.pc = pc]
    BY DEF RunSpeaks, WriteEnds
  <2>3. QED
    BY <2>1, <2>2
<1>3. Lines(Queue')
  BY <1>1, AllFields DEF ListInv, Lines
<1>4. Started(Queue')
  BY <1>1, <1>2, AllFields DEF ListInv, Started
<1>5. ListInv'
  BY <1>1, <1>3, <1>4 DEF ListInv
<1>6. DocInv => DocInv'
  BY <1>1 DEF DocInv
<1>7. QED
  BY <1>5, <1>6 DEF StepLists

(* What the card of the run is moved to when it ends.                      *)
LEMMA MovedLists ==
  ASSUME RInv, ListInv, NEW s \in {"completed", "failed", "cancelled"},
         run.pc # "idle"
  PROVE  LET M == [Queue EXCEPT !.status = Moved(@, run.job, s)]
             R == Finish(M)
         IN  /\ Fit(R) /\ R.list = list
             /\ \A j \in Jobs : \/ R.status[j] \in {s, status[j]}
                                \/ R.status[j] \notin {"none", "completed"}
             /\ \A j \in Jobs \ {run.job} :
                  \/ R.status[j] = status[j]
                  \/ R.status[j] \notin {"none", "completed"}
<1> DEFINE st == Moved(status, run.job, s)
           M  == [Queue EXCEPT !.status = st]
<1>1. [Queue EXCEPT !.status = Moved(@, run.job, s)] = M
  BY AllFields
<1>2. Shaped(M) /\ Silent(M)
  <2>1. Queue.run.job = run.job
    BY AllFields
  <2>2. QED
    BY <2>1, MovedSilent, AllFields DEF RInv
<1>3. /\ \A j \in Jobs : st[j] \in {s, status[j]}
      /\ \A j \in Jobs \ {run.job} : st[j] = status[j]
      /\ st = [j \in Jobs |-> st[j]]
  BY MovedType, AllFields DEF RInv, Shaped
<1> HIDE DEF st
<1>4. M.status = st /\ M.list = list /\ SameLines(Queue, M) /\ M.tries = tries
  BY <1>3, CardFields, CardsLines, AllFields DEF RInv, SameLines
<1> HIDE DEF M
<1>5. Lines(M)
  BY <1>4, SameLinesLines DEF ListInv
<1>6. /\ M.tries \in [Jobs -> Nat]
      /\ \A k \in Jobs : M.status[k] = "queued" => M.tries[k] # 0
  BY <1>3, <1>4, AllFields DEF ListInv, Started
<1>7. Fit(Finish(M)) /\ Spares(M, Finish(M))
  BY <1>2, <1>5, <1>6, FinishServes
<1>8. QED
  BY <1>1, <1>3, <1>4, <1>7 DEF Spares

(* A run that ends with a document put back, or with none written.         *)
LEMMA RunFailsLists ==
  ASSUME RInv, ListInv, RunStops \/ RunFails \/ SaveFails
  PROVE  StepLists
<1>1. /\ UNCHANGED diskVars /\ run.pc # "idle"
      /\ run.pc # "restoring" \/ CanLoseRestore
  BY DEF RunStops, RunFails, SaveFails
<1>2. ASSUME NEW s \in {"failed", "cancelled"},
             Becomes(Finish([Queue EXCEPT !.status = Moved(@, run.job, s)]))
      PROVE  StepLists
  <2> DEFINE R == Finish([Queue EXCEPT !.status = Moved(@, run.job, s)])
  <2>1. /\ Fit(R) /\ R.list = list
        /\ \A j \in Jobs : \/ R.status[j] \in {s, status[j]}
                           \/ R.status[j] \notin {"none", "completed"}
    BY <1>1, MovedLists
  <2>2. Becomes(R)
    BY <1>2
  <2> HIDE DEF R
  <2>3. Spares(Queue, R)
    BY <2>1, AllFields DEF Spares
  <2>4. QED
    BY <1>1, <2>1, <2>2, <2>3, HandlerLists
<1>3. QED
  BY <1>2 DEF RunStops, RunFails, SaveFails

LEMMA RestoreEndsLists ==
  ASSUME RInv, ListInv, RestoreEnds
  PROVE  StepLists
<1> DEFINE R == Finish(Queue)
<1>1. /\ run.pc = "restoring" /\ Becomes(R)
      /\ doc' = [doc EXCEPT ![run.job] = result[run.job]]
      /\ UNCHANGED <<result, cleanup, writing, disk>>
  BY DEF RestoreEnds
<1>2. Shaped(Queue) /\ Silent(Queue) /\ Lines(Queue)
  BY <1>1, AllFields DEF RInv, ListInv, Running, Silent
<1>3. /\ tries \in [Jobs -> Nat] /\ run.job \in Jobs
      /\ status[run.job] # "completed"
      /\ \A k \in Jobs : status[k] = "queued" => tries[k] # 0
  BY <1>1, AllFields DEF ListInv, Started
<1>4. Fit(R) /\ Spares(Queue, R)
  BY <1>2, <1>3, FinishServes, AllFields
<1> HIDE DEF R
<1>5. Queue' = R /\ status' = R.status /\ run' = R.run /\ list' = list
  BY <1>1, <1>4, BecomesIs, AllFields DEF Fit, Spares
<1>6. /\ \A j \in Jobs : \/ status'[j] = status[j]
                         \/ status'[j] \notin {"none", "completed"}
      /\ ToSet(list) \subseteq Jobs
  BY <1>2, <1>4, <1>5, AllFields DEF Spares, Lines, ToSet
<1>7. /\ doc' = [j \in Jobs |-> doc'[j]] /\ doc'[run.job] = result[run.job]
      /\ \A j \in Jobs : j # run.job => doc'[j] = doc[j]
  BY <1>1, <1>3 DEF ListInv
<1>8. Lines(Queue') /\ Started(Queue')
  BY <1>4, <1>5 DEF Fit
<1>9. ListInv'
  BY <1>1, <1>3, <1>5, <1>6, <1>7, <1>8 DEF ListInv
<1>10. DocInv => DocInv'
  BY <1>1, <1>7 DEF DocInv
<1>11. QED
  BY <1>9, <1>10 DEF StepLists

(* The document replaced: kept by a completed card, or to be put back.     *)
LEMMA RenameEndsLists ==
  ASSUME RInv, ListInv, RenameEnds
  PROVE  StepLists
<1>1. /\ run.pc = "renaming" /\ doc' = [doc EXCEPT ![run.job] = run.try]
      /\ UNCHANGED <<cleanup, writing, disk>>
  BY DEF RenameEnds
<1>2. /\ run.job \in Jobs /\ run.try # 0 /\ status[run.job] # "completed"
      /\ ToSet(list) \subseteq Jobs
  BY <1>1, AllFields DEF ListInv, Started, Lines, ToSet
<1>3. /\ doc' = [j \in Jobs |-> doc'[j]] /\ doc'[run.job] = run.try
      /\ \A j \in Jobs : j # run.job => doc'[j] = doc[j]
  BY <1>1, <1>2 DEF ListInv
<1>4. CASE "completed" \in Edges(status[run.job])
  <2> DEFINE R == Finish([Queue EXCEPT
                            !.status = Moved(@, run.job, "completed")])
  <2>1. Becomes(R) /\ result' = [result EXCEPT ![run.job] = run.try]
    BY <1>4 DEF RenameEnds
  <2>2. /\ Fit(R) /\ R.list = list
        /\ \A j \in Jobs : \/ R.status[j] \in {"completed", status[j]}
                           \/ R.status[j] \notin {"none", "completed"}
        /\ \A j \in Jobs \ {run.job} :
             \/ R.status[j] = status[j]
             \/ R.status[j] \notin {"none", "completed"}
    BY <1>1, MovedLists
  <2> HIDE DEF R
  <2>3. Queue' = R /\ status' = R.status /\ list' = list
    BY <2>1, <2>2, BecomesIs, AllFields DEF Fit
  <2>4. /\ result' = [j \in Jobs |-> result'[j]] /\ result'[run.job] = run.try
        /\ \A j \in Jobs : j # run.job => result'[j] = result[j]
    BY <1>2, <2>1 DEF ListInv
  <2>5. Lines(Queue') /\ Started(Queue')
    BY <2>2, <2>3 DEF Fit
  <2>6. ListInv'
    <3>1. \A j \in ToSet(list') : status'[j] = "completed" => doc'[j] # 0
      BY <1>2, <1>3, <2>2, <2>3 DEF ListInv
    <3>2. \A j \in ToSet(list') \cup cleanup' : status'[j] # "none"
      BY <1>1, <1>2, <2>2, <2>3 DEF ListInv
    <3>3. QED
      BY <1>1, <1>3, <2>3, <2>4, <2>5, <3>1, <3>2 DEF ListInv
  <2>7. DocInv => DocInv'
    BY <1>1, <1>3, <2>4 DEF DocInv
  <2>8. QED
    BY <2>6, <2>7 DEF StepLists
<1>5. CASE "completed" \notin Edges(status[run.job])
  <2> DEFINE r == [run EXCEPT !.pc = "restoring"]
             R == [Queue EXCEPT !.run = r]
  <2>1. Becomes(R) /\ result' = result
    <3>1. [Queue EXCEPT !.run.pc = "restoring"] = R
      BY AllFields
    <3>2. QED
      BY <1>5, <3>1 DEF RenameEnds
  <2>2. r = [pc |-> "restoring", job |-> run.job, try |-> run.try,
             stopped |-> run.stopped]
    BY AllFields DEF RInv, Shaped
  <2>3. Shaped(R) /\ R.status = status /\ R.run = r
    BY <2>2, RunFields, AllFields DEF RInv
  <2>4. r.pc = "restoring" /\ r.job = run.job /\ r.try = run.try
    BY <2>2
  <2> HIDE DEF r
  <2>5. SameLines(Queue, R) /\ R.tries = tries
    BY CardsLines, AllFields DEF RInv
  <2> HIDE DEF R
  <2>6. Queue' = R /\ status' = status /\ run' = r /\ list' = list
    BY <2>1, <2>3, <2>5, BecomesIs, AllFields DEF SameLines
  <2>7. Lines(Queue')
    BY <2>5, <2>6, SameLinesLines DEF ListInv
  <2>8. Started(Queue')
    BY <1>1, <2>3, <2>4, <2>5, <2>6, AllFields DEF ListInv, Started
  <2>9. ListInv'
    BY <1>1, <1>2, <1>3, <2>1, <2>6, <2>7, <2>8 DEF ListInv
  <2>10. DocInv => DocInv'
    BY <1>1, <1>3, <2>1, <2>4, <2>6 DEF DocInv
  <2>11. QED
    BY <2>9, <2>10 DEF StepLists
<1>6. QED
  BY <1>4, <1>5

LEMMA EnvironmentLists ==
  ASSUME RInv, ListInv, Environment
  PROVE  StepLists
<1>1. Fit(Queue)
  BY FitNow
<1>2. ASSUME NEW x, NEW R \in {[Queue EXCEPT !.tools = x],
                               [Queue EXCEPT !.model = x]}
      PROVE  /\ Serves(Queue, R) /\ Serves(Queue, Resume(R))
             /\ Serves(Queue, Resume(Pump(R)))
  <2>1. /\ Shaped(R) /\ R.status = status /\ R.run = run
        /\ SameLines(Queue, R) /\ R.tries = tries
    <3>1. CASE R = [Queue EXCEPT !.tools = x]
      BY <1>1, <3>1, OtherFields, CardsLines, AllFields DEF Fit
    <3>2. CASE R = [Queue EXCEPT !.model = x]
      BY <1>1, <3>2, OtherFields, CardsLines, AllFields DEF Fit
    <3>3. R = [Queue EXCEPT !.tools = x] \/ R = [Queue EXCEPT !.model = x]
      BY <1>2, Zenon
    <3>4. QED
      BY <3>1, <3>2, <3>3
  <2>2. Serves(Queue, R)
    <3>1. Lines(R) /\ R.list = list
      BY <1>1, <2>1, SameLinesLines, AllFields DEF Fit, SameLines
    <3>2. QED
      BY <1>1, <2>1, <3>1, StillServes, AllFields
  <2>3. \A P : Serves(Queue, P) => Serves(Queue, Resume(P))
    <3>1. TAKE P
    <3>2. HAVE Serves(Queue, P)
    <3>3. Serves(P, Resume(P))
      BY <3>2, ResumeSame, ResumeLines, SameServes DEF Serves, Fit
    <3>4. QED
      BY <3>2, <3>3, ServesTrans
  <2>4. Serves(Queue, Pump(R))
    <3>1. Serves(R, Pump(R))
      BY <2>2, PumpServes DEF Serves
    <3>2. QED
      BY <2>2, <3>1, ServesTrans
  <2>5. QED
    BY <2>2, <2>3, <2>4
<1>3. CASE ToolsChange
  <2> DEFINE x == ~Queue.tools
             R == [Queue EXCEPT !.tools = x]
  <2>1. Becomes(Resume(R)) /\ UNCHANGED diskVars
    BY <1>3 DEF ToolsChange, Quietly
  <2>2. R \in {[Queue EXCEPT !.tools = x], [Queue EXCEPT !.model = x]}
    BY Zenon
  <2> HIDE DEF R, x
  <2>3. Serves(Queue, Resume(R))
    BY <1>2, <2>2
  <2>4. QED
    BY <2>1, <2>3, ServesLists
<1>4. CASE Download
  <2>1. Becomes([Queue EXCEPT !.model = "downloading"]) /\ UNCHANGED diskVars
    BY <1>4 DEF Download, Quietly
  <2>2. QED
    BY <1>2, <2>1, ServesLists
<1>5. CASE DownloadEnds
  <2>1. /\ Becomes(Resume(Pump([Queue EXCEPT !.model = "present"])))
        /\ UNCHANGED diskVars
    BY <1>5 DEF DownloadEnds, Quietly
  <2>2. QED
    BY <1>2, <2>1, ServesLists
<1>6. CASE DownloadFails
  <2>1. Becomes([Queue EXCEPT !.model = "absent"]) /\ UNCHANGED diskVars
    BY <1>6 DEF DownloadFails, Quietly
  <2>2. QED
    BY <1>2, <2>1, ServesLists
<1>7. QED
  BY <1>3, <1>4, <1>5, <1>6, OnlyLanguageLists DEF Environment

-----------------------------------------------------------------------------
(* The list on disk, and a restart.                                        *)
LEMMA PersistedSnap ==
  ASSUME ListInv
  PROVE  /\ Snap(Persisted) /\ Persisted.list = Without(list, TeamJobs)
         /\ ToSet(Persisted.list) = ToSet(list) \ TeamJobs
         /\ \A j \in Jobs :
              /\ Persisted.status[j] = IF j \in ToSet(Persisted.list)
                                       THEN status[j] ELSE "none"
              /\ Persisted.lang[j] = IF j \in ToSet(Persisted.list)
                                     THEN lang[j] ELSE "none"
<1> DEFINE mine == Without(list, TeamJobs)
<1>1. list \in Seq(Jobs) /\ ToSet(list) \subseteq Jobs
  BY AllFields DEF ListInv, Lines, ToSet
<1>2. mine \in Seq(Jobs) /\ ToSet(mine) = ToSet(list) \ TeamJobs
  BY <1>1, OnlySet DEF Without
<1> DEFINE st == [j \in Jobs |-> IF j \in ToSet(mine) THEN status[j]
                                 ELSE "none"]
           l  == [j \in Jobs |-> IF j \in ToSet(mine) THEN lang[j]
                                 ELSE "none"]
<1>3. Persisted = [list |-> mine, status |-> st, lang |-> l]
  BY DEF Persisted
<1>4. /\ st = [j \in Jobs |-> st[j]]
      /\ \A j \in Jobs : /\ st[j] = IF j \in ToSet(mine) THEN status[j]
                                    ELSE "none"
                         /\ l[j] = IF j \in ToSet(mine) THEN lang[j]
                                   ELSE "none"
  OBVIOUS
<1> HIDE DEF mine, st, l
<1>5. /\ Persisted.list = mine /\ Persisted.status = st /\ Persisted.lang = l
  BY <1>3
<1>6. \A j \in ToSet(mine) : st[j] # "none"
  BY <1>1, <1>2, <1>4 DEF ListInv
<1>7. Snap(Persisted)
  BY <1>2, <1>4, <1>5, <1>6 DEF Snap
<1>8. QED
  BY <1>2, <1>4, <1>5, <1>7 DEF mine

LEMMA PersistLists ==
  ASSUME RInv, ListInv, PersistBegins \/ PersistEnds
  PROVE  StepLists
<1>1. UNCHANGED <<list, status, listening, probeQueue, walker, mode, run,
                  tries, doc, result, cleanup>>
  BY DEF PersistBegins, PersistEnds, queueVars
<1>2. Snap(disk') /\ (writing' # None => Snap(writing'))
  BY PersistedSnap DEF ListInv, PersistBegins, PersistEnds
<1>3. QED
  BY <1>1, <1>2, StillLists

LEMMA RestartLists ==
  ASSUME RInv, ListInv, Restart
  PROVE  StepLists
<1>1. /\ UNCHANGED disk /\ cleanup' = {} /\ writing' = None
      /\ doc' = [j \in Jobs |-> doc'[j]] /\ result' = [j \in Jobs |-> result'[j]]
  BY DEF Restart, ListInv
<1>2. PICK A : RestartRecord(A)
  BY RestartIs
<1>3. Same(A, Resume(A)) /\ Queue' = Resume(A)
  BY <1>2, ResumeSame DEF RestartRecord
<1>4. /\ list' = disk.list /\ run'.pc = "idle"
      /\ \A j \in Jobs : status'[j] = IF j \in ToSet(disk.list)
                                      THEN Migrated(disk.status[j], doc'[j])
                                      ELSE IF status[j] = "none" THEN "none"
                                      ELSE "gone"
  BY <1>2, <1>3, AllFields DEF RestartRecord, Same
<1>5. /\ disk.list \in Seq(Jobs) /\ ToSet(disk.list) \subseteq Jobs
      /\ \A j \in ToSet(disk.list) : disk.status[j] # "none"
  <2>1. /\ disk.list \in Seq(Jobs)
        /\ \A j \in ToSet(disk.list) : disk.status[j] # "none"
    BY DEF ListInv, Snap
  <2>2. ToSet(disk.list) \subseteq Jobs
    BY <2>1 DEF ToSet
  <2>3. QED
    BY <2>1, <2>2
<1>6. Lines(Queue')
  <2>1. Lines(A)
    <3>1. <<>> \in Seq(Jobs)
      OBVIOUS
    <3>2. QED
      BY <1>2, <1>5, <3>1 DEF RestartRecord, Lines
  <2>2. QED
    BY <1>2, <1>3, <2>1, ResumeLines DEF RestartRecord
<1>7. \A j \in Jobs : status'[j] # "queued"
  BY <1>4 DEF Migrated
<1>8. Started(Queue')
  <2>1. Queue'.tries = tries /\ tries \in [Jobs -> Nat]
    BY <1>2, <1>3, AllFields DEF RestartRecord, Same, ListInv, Started
  <2>2. QED
    BY <1>4, <1>7, <2>1, AllFields DEF Started
<1>9. \A j \in ToSet(list') : /\ status'[j] # "none"
                              /\ status'[j] = "completed" => doc'[j] # 0
  BY <1>1, <1>4, <1>5 DEF Migrated
<1>10. ListInv'
  BY <1>1, <1>6, <1>8, <1>9 DEF ListInv
<1>11. DocInv => DocInv'
  BY DEF Restart, DocInv, ListInv
<1>12. QED
  BY <1>10, <1>11 DEF StepLists

LEMMA InitLists == Init => ListInv /\ DocInv
<1>1. SUFFICES ASSUME Init PROVE ListInv /\ DocInv
  OBVIOUS
<1>2. /\ list = <<>> /\ status = [j \in Jobs |-> "none"]
      /\ lang = [j \in Jobs |-> "none"] /\ listening = {}
      /\ probeQueue = <<>> /\ walker = None /\ run = Idle
      /\ tries = [j \in Jobs |-> 0] /\ writing = None /\ cleanup = {}
      /\ doc = [j \in Jobs |-> 0] /\ result = doc
      /\ disk = [list |-> <<>>, status |-> status, lang |-> lang]
  BY <1>1 DEF Init
<1>3. <<>> \in Seq(Jobs) /\ ToSet(<<>>) = {}
  BY DEF ToSet
<1>4. Lines(Queue)
  BY <1>2, <1>3, AllFields DEF Lines
<1>5. Started(Queue)
  <2>1. Idle.pc = "idle"
    BY DEF Idle
  <2>2. QED
    BY <1>2, <2>1, AllFields DEF Started
<1>6. Snap(disk)
  <2>1. /\ disk.list = <<>> /\ disk.status = [j \in Jobs |-> "none"]
        /\ disk.lang = [j \in Jobs |-> "none"]
    BY <1>2
  <2>2. QED
    BY <1>3, <2>1 DEF Snap
<1>7. ListInv
  BY <1>2, <1>3, <1>4, <1>5, <1>6 DEF ListInv
<1>8. DocInv
  BY <1>2 DEF DocInv
<1>9. QED
  BY <1>7, <1>8

LEMMA NextLists ==
  ASSUME RInv, ListInv, [Next]_vars
  PROVE  StepLists
<1>0. ToSet(list) \subseteq Jobs
  BY AllFields DEF ListInv, Lines, ToSet
<1>1. ASSUME NEW j \in Jobs,
             \/ Add(j) \/ Cancel(j) \/ RemoveCard(j) \/ NameLanguage(j)
             \/ AskLanguage(j) \/ Analyzed(j) \/ Cleaned(j)
      PROVE  StepLists
  <2>1. CASE Cancel(j)
    BY <2>1, StopLists DEF Cancel
  <2>2. CASE RemoveCard(j)
    <3>1. {j} \subseteq ToSet(list) /\ RemoveAll({j})
      BY <2>2, AllFields DEF RemoveCard, Listed
    <3>2. QED
      BY <3>1, RemoveLists
  <2>3. QED
    BY <1>1, <2>1, <2>2, AddLists, LanguageLists, AnalyzedLists, CleanedLists
<1>2. CASE CancelAll
  <2> DEFINE S == {j \in Jobs \ TeamJobs :
                     Listed(Queue, j) /\ status[j] \in {"queued", "processing"}}
  <2>1. S \in SUBSET Jobs /\ Becomes(StopCards(Queue, S)) /\ UNCHANGED diskVars
    BY <1>2 DEF CancelAll
  <2> HIDE DEF S
  <2>2. QED
    BY <2>1, StopLists
<1>3. CASE \E S \in SUBSET Jobs : Start(S)
  BY <1>3, StartLists
<1>4. CASE ClearCompleted
  BY <1>4, RemoveLists DEF ClearCompleted
<1>5. CASE RunGoesOn
  BY <1>5, SettleEndsLists, RunMovesLists, RunFailsLists, RestoreEndsLists,
     RenameEndsLists
  DEF RunGoesOn
<1>6. CASE UNCHANGED vars
  <2>1. UNCHANGED <<list, status, listening, probeQueue, walker, mode, run,
                    tries, doc, result, cleanup, writing, disk>>
    BY <1>6 DEF vars, queueVars, diskVars
  <2>2. QED
    BY <2>1, StillLists DEF ListInv
<1>7. QED
  BY <1>1, <1>2, <1>3, <1>4, <1>5, <1>6, OnlyLanguageLists, EnvironmentLists,
     ProbeEndsLists, PersistLists, RestartLists
  DEF Next, Asked

LEMMA ListInvariant == Spec => [](RInv /\ ListInv)
<1>1. Init => RInv /\ ListInv
  BY InitHolds, InitLists
<1>2. RInv /\ ListInv /\ [Next]_vars => (RInv /\ ListInv)'
  BY NextKeeps, NextLists DEF StepKeeps, StepLists
<1>3. QED
  BY <1>1, <1>2, PTL DEF Spec

LEMMA ListedJobs ==
  ASSUME ListInv
  PROVE  ToSet(list) \subseteq Jobs
BY AllFields DEF ListInv, Lines, ToSet

(* When putting the previous document back does not fail, the document on  *)
(* disk is that of the last run that completed, but for the moments in     *)
(* which a save holds it, and a completed card has one: whatever stops,    *)
(* new starts, removals, failed writes and restarts fall into a save.      *)
THEOREM DocumentsAreKept == ~CanLoseRestore => (Spec => []DocumentKept)
<1>1. SUFFICES ASSUME ~CanLoseRestore PROVE Spec => []DocumentKept
  OBVIOUS
<1>2. Init => ListInv /\ DocInv
  BY InitLists
<1>3. RInv /\ ListInv /\ DocInv /\ [Next]_vars => DocInv'
  BY <1>1, NextLists DEF StepLists
<1>4. RInv /\ ListInv /\ DocInv => DocumentKept
  <2>1. SUFFICES ASSUME RInv, ListInv, DocInv PROVE DocumentKept
    OBVIOUS
  <2>2. QED
    BY <2>1, ListedJobs DEF ListInv, DocInv, DocumentKept, Saving
<1>5. QED
  BY <1>2, <1>3, <1>4, ListInvariant, PTL DEF Spec

-----------------------------------------------------------------------------
(* Who comes back for the line of probes and for the cards that are        *)
(* queued: the line has a probe or a run to wait for, and, while nothing   *)
(* is taken away, the cards have a run or a download.                      *)
Attended(Q) == Q.probeQueue # <<>> => Q.walker # None \/ Q.run.pc # "idle"

Cared(Q) ==
  Q.tools /\ (\E j \in ToSet(Q.list) : Q.status[j] = "queued") =>
    Q.run.pc # "idle" \/ Q.model = "downloading"

Attends(Q) == Attended(Q) /\ (~CanWithdraw => Cared(Q))

LEMMA SameCared ==
  ASSUME NEW Q, NEW R, Same(Q, R), Cared(Q)
  PROVE  Cared(R)
BY DEF Same, Cared

LEMMA BusyAttends ==
  ASSUME NEW Q, Q.run.pc # "idle"
  PROVE  Attended(Q) /\ Cared(Q) /\ Attends(Q)
BY DEF Attends, Attended, Cared

(* drainProbes() leaves a line behind only for a run.                      *)
LEMMA DrainAttended ==
  ASSUME NEW Q, Shaped(Q), Q.probeQueue \in Seq(Jobs)
  PROVE  Attended(Drain(Q))
<1> DEFINE rest == [Q EXCEPT !.walker = None, !.mode = "on"]
           line == Q.probeQueue
           fit  == {i \in DOMAIN line : CanListen(Q, line[i])}
           next == CHOOSE i \in fit : \A k \in fit : i <= k
<1>1. CASE Q.run.pc # "idle"
  <2>1. Drain(Q).run = Q.run
    BY DrainSame DEF Same
  <2>2. QED
    BY <1>1, <2>1 DEF Attended
<1>2. CASE Q.run.pc = "idle" /\ fit = {}
  <2> DEFINE heard == Q.listening \ ToSet(line)
             R == [rest EXCEPT !.probeQueue = <<>>, !.listening = heard]
  <2>1. Drain(Q) = R
    <3>1. rest.listening = Q.listening
      BY DEF Shaped
    <3>2. Drain(Q) = [rest EXCEPT !.probeQueue = <<>>,
                                  !.listening = @ \ ToSet(line)]
      BY <1>2 DEF Drain
    <3> HIDE DEF rest
    <3>3. QED
      BY <3>1, <3>2
  <2> HIDE DEF heard
  <2>2. R.probeQueue = <<>>
    BY DEF Shaped
  <2> HIDE DEF R
  <2>3. QED
    BY <2>1, <2>2 DEF Attended
<1>3. CASE Q.run.pc = "idle" /\ fit # {}
  <2>1. fit \subseteq 1..Len(line) /\ Len(line) \in Nat
    OBVIOUS
  <2>2. next \in fit
    <3>1. fit \subseteq Nat
      BY <2>1
    <3>2. \E i \in fit : \A k \in fit : i <= k
      <4> HIDE DEF fit
      <4>1. QED
        BY <1>3, <3>1, LeastNatural
    <3> HIDE DEF fit
    <3>3. QED
      BY <3>2
  <2>3. line[next] \in Jobs
    <3> HIDE DEF fit, next
    <3>1. QED
      BY <2>1, <2>2
  <2> DEFINE w     == line[next]
             l     == SubSeq(line, next + 1, Len(line))
             passed == {line[i] : i \in 1..(next - 1)}
             heard == Q.listening \ passed
             R     == [rest EXCEPT !.walker = w, !.probeQueue = l,
                                   !.listening = heard]
  <2>4. Drain(Q) = R
    <3>1. rest.listening = Q.listening
      BY DEF Shaped
    <3>2. Drain(Q) = [rest EXCEPT !.walker = w, !.probeQueue = l,
                                  !.listening = @ \ passed]
      BY <1>3 DEF Drain
    <3> HIDE DEF rest, w, l, passed
    <3>3. QED
      BY <3>1, <3>2
  <2>5. w \in Jobs
    BY <2>3
  <2> HIDE DEF w, l, heard
  <2>6. R.walker = w
    BY DEF Shaped
  <2> HIDE DEF R
  <2>7. QED
    BY <2>4, <2>5, <2>6, TranscriptionAssumption DEF Attended
<1>4. QED
  BY <1>1, <1>2, <1>3

LEMMA PumpProbesAttended ==
  ASSUME NEW Q, Shaped(Q), Q.probeQueue \in Seq(Jobs)
  PROVE  Attended(PumpProbes(Q))
<1>1. CASE Q.walker # None
  BY <1>1 DEF PumpProbes, Attended
<1>2. CASE Q.walker = None
  BY <1>2, DrainAttended DEF PumpProbes
<1>3. QED
  BY <1>1, <1>2

(* The handlers of the probes leave the cards alone and the line attended. *)
LEMMA ProbesAttend ==
  ASSUME NEW Q, Shaped(Q), Lines(Q), ~CanWithdraw => Cared(Q)
  PROVE  Attends(PumpProbes(Q)) /\ Attends(Drain(Q))
<1>1. Q.probeQueue \in Seq(Jobs)
  BY DEF Lines
<1>2. Attended(PumpProbes(Q)) /\ Attended(Drain(Q))
  BY <1>1, PumpProbesAttended, DrainAttended
<1>3. ~CanWithdraw => Cared(PumpProbes(Q)) /\ Cared(Drain(Q))
  BY PumpProbesSame, DrainSame, SameCared
<1>4. QED
  BY <1>2, <1>3 DEF Attends

LEMMA ScheduleAttends ==
  ASSUME NEW Q, Shaped(Q), Lines(Q), Attends(Q), NEW j \in ToSet(Q.list)
  PROVE  Attends(Schedule(Q, j))
<1> DEFINE R == [Q EXCEPT !.listening = Q.listening \cup {j},
                          !.probeQueue = Append(Q.probeQueue, j)]
<1>1. Schedule(Q, j) = Q \/ Schedule(Q, j) = PumpProbes(R)
  BY DEF Schedule
<1>2. j \in Jobs
  BY DEF Lines, ToSet
<1>3. /\ <<j>> \in Seq(Jobs) /\ ToSet(<<j>>) = {j}
      /\ Append(Q.probeQueue, j) = Q.probeQueue \o <<j>>
  BY <1>2, OneSet DEF Lines
<1>4. Shaped(R) /\ Lines(R)
  BY <1>3, LinedUp
<1>5. Same(Q, R)
  BY ProbeFieldsSame, Zenon
<1> HIDE DEF R
<1>6. ~CanWithdraw => Cared(R)
  BY <1>5, SameCared DEF Attends
<1>7. QED
  BY <1>1, <1>4, <1>6, ProbesAttend

LEMMA ResumeAttends ==
  ASSUME NEW Q, Shaped(Q), Lines(Q), Attends(Q)
  PROVE  Attends(Resume(Q))
<1> DEFINE more == Unheard(Q)
           R == [Q EXCEPT !.listening = Q.listening \cup ToSet(more),
                          !.probeQueue = Q.probeQueue \o more]
<1>1. Resume(Q) = Q \/ Resume(Q) = PumpProbes(R)
  BY DEF Resume
<1>2. more \in Seq(Jobs) /\ ToSet(more) \subseteq ToSet(Q.list)
  BY OnlySet DEF Unheard, Lines
<1> HIDE DEF more
<1>3. Shaped(R) /\ Lines(R)
  BY <1>2, LinedUp
<1>4. Same(Q, R)
  BY ProbeFieldsSame, Zenon
<1> HIDE DEF R
<1>5. ~CanWithdraw => Cared(R)
  BY <1>4, SameCared DEF Attends
<1>6. QED
  BY <1>1, <1>3, <1>5, ProbesAttend

(* A line that nobody attended was empty, and stays so.                    *)
LEMMA StopProbingAttends ==
  ASSUME NEW Q, Shaped(Q), Attends(Q), NEW S
  PROVE  Attends(StopProbing(Q, S))
<1> DEFINE line  == Without(Q.probeQueue, S)
           m     == IF Probing(Q) \in S THEN "dropped" ELSE Q.mode
           heard == Q.listening \ S
           R     == [Q EXCEPT !.probeQueue = line, !.mode = m,
                              !.listening = heard]
<1>1. StopProbing(Q, S) = R
  BY DEF StopProbing
<1>2. Q.probeQueue = <<>> => line = <<>>
  <2>1. <<>> \in Seq(Jobs) /\ Members(<<>>) = {}
    BY DEF Members
  <2>2. Only(<<>>, Jobs \ S) = <<>>
    BY <2>1, OnlyAll
  <2>3. QED
    BY <2>2 DEF Without
<1> HIDE DEF line, m, heard
<1>3. R.probeQueue = line /\ R.walker = Q.walker /\ R.run = Q.run
  BY DEF Shaped
<1> HIDE DEF R
<1>4. Attended(R)
  BY <1>2, <1>3 DEF Attends, Attended
<1>5. ~CanWithdraw => Cared(R)
  BY <1>1, StopProbingSame, SameCared DEF Attends
<1>6. QED
  BY <1>1, <1>4, <1>5 DEF Attends

(* pump() leaves a queued card behind only for a run or for a download.    *)
LEMMA PumpAttends ==
  ASSUME NEW Q, Fit(Q)
  PROVE  Cared(Pump(Q)) /\ (Attended(Q) => Attended(Pump(Q)))
<1> DEFINE queued == Waiting(Q)
           j      == Head(queued)
           S      == Settle(Q, j)
           st     == [k \in Jobs |-> IF k \in ToSet(queued) THEN "failed"
                                     ELSE Q.status[k]]
           r      == [pc |-> "settling", job |-> j, try |-> Q.tries[j],
                      stopped |-> FALSE]
           F      == [Q EXCEPT !.status = st]
           P      == [S EXCEPT !.run = r]
<1>1. \/ /\ Pump(Q) = Q
         /\ Q.run.pc # "idle" \/ ~Q.tools \/ queued = <<>> \/ Q.model = "downloading"
      \/ queued # <<>> /\ Pump(Q) \in {F, P, Begin(S, j)}
  BY DEF Pump
<1>2. /\ Q.list \in Seq(Jobs) /\ ToSet(Q.list) \subseteq Jobs
      /\ ToSet(queued) = {k \in ToSet(Q.list) : Q.status[k] = "queued"}
  <2>1. Q.list \in Seq(Jobs) /\ ToSet(Q.list) \subseteq Jobs
    BY DEF Fit, Lines, ToSet
  <2>2. ToSet(queued) = ToSet(Q.list) \cap {k \in Jobs : Q.status[k] = "queued"}
    BY <2>1, OnlySet DEF Waiting
  <2>3. QED
    BY <2>1, <2>2
<1>3. CASE /\ Pump(Q) = Q
           /\ Q.run.pc # "idle" \/ ~Q.tools \/ queued = <<>> \/ Q.model = "downloading"
  <2>1. queued = <<>> => ToSet(queued) = {}
    BY DEF ToSet
  <2> HIDE DEF queued
  <2>2. Cared(Q)
    BY <1>2, <1>3, <2>1 DEF Cared
  <2>3. QED
    BY <1>3, <2>2
<1>4. CASE queued # <<>> /\ Pump(Q) \in {F, P, Begin(S, j)}
  <2>1. Shaped(S)
    BY SettleSame DEF Fit, Same
  <2>2. Cared(F) /\ (Attended(Q) => Attended(F))
    <3>1. \A k \in ToSet(Q.list) : st[k] # "queued"
      BY <1>2
    <3> HIDE DEF st, queued
    <3>2. /\ F.status = st /\ F.run = Q.run /\ F.list = Q.list
          /\ F.probeQueue = Q.probeQueue /\ F.walker = Q.walker
      BY DEF Fit, Shaped
    <3> HIDE DEF F
    <3>3. QED
      BY <3>1, <3>2 DEF Attended, Cared
  <2>3. Cared(P) /\ Attended(P)
    <3>1. r.pc = "settling"
      OBVIOUS
    <3> HIDE DEF r, S, j
    <3>2. P.run = r
      BY <2>1 DEF Shaped
    <3> HIDE DEF P
    <3>3. QED
      BY <3>1, <3>2, BusyAttends
  <2>4. Cared(Begin(S, j)) /\ Attended(Begin(S, j))
    <3> DEFINE B == Begin(S, j)
    <3>1. B.run.pc = "running"
      <4> HIDE DEF S, j
      <4>1. QED
        BY <2>1 DEF Begin, Shaped
    <3> HIDE DEF B
    <3>2. Cared(B) /\ Attended(B)
      BY <3>1, BusyAttends
    <3>3. QED
      BY <3>2 DEF B
  <2> HIDE DEF F, P, S, j, queued
  <2>5. QED
    BY <1>4, <2>2, <2>3, <2>4
<1>5. QED
  BY <1>1, <1>3, <1>4

(* The machine given back is offered to the cards and to the line.         *)
LEMMA FinishAttends ==
  ASSUME NEW Q, Shaped(Q), Silent(Q), Lines(Q), Q.tries \in [Jobs -> Nat],
         \A k \in Jobs : Q.status[k] = "queued" => Q.tries[k] # 0
  PROVE  Attends(Finish(Q))
<1> DEFINE I == [Q EXCEPT !.run = Idle]
           P == Pump(I)
<1>1. Finish(Q) = PumpProbes(P)
  BY DEF Finish
<1>2. /\ Shaped(I) /\ I.status = Q.status /\ I.run = Idle
  BY RunFields DEF Idle
<1>3. /\ I.list = Q.list /\ I.tries = Q.tries /\ SameLines(Q, I)
  BY DEF Shaped, SameLines
<1> HIDE DEF I
<1>4. Fit(I)
  <2>1. Idle.pc = "idle"
    BY DEF Idle
  <2>2. Started(I)
    BY <1>2, <1>3, <2>1 DEF Started
  <2>3. Silent(I)
    BY <1>2 DEF Silent
  <2>4. QED
    BY <1>2, <1>3, <2>2, <2>3, SilentRuns, SameLinesLines DEF Fit
<1>5. Cared(P) /\ Shaped(P) /\ Lines(P)
  BY <1>4, PumpAttends, PumpServes DEF Serves, Fit
<1> HIDE DEF P
<1>6. QED
  BY <1>1, <1>5, ProbesAttend

LEMMA StopCardsAttends ==
  ASSUME NEW Q, Fit(Q), Attends(Q), NEW S \in SUBSET Jobs
  PROVE  Attends(StopCards(Q, S))
<1> DEFINE P  == StopProbing(Q, S)
           st == [j \in Jobs |-> IF j \in S THEN Moved(P.status, j, "cancelled")[j]
                                 ELSE P.status[j]]
           b  == P.run.stopped \/ (Q.run.pc = "running" /\
                                   \E j \in S : Q.status[j] = "processing")
           R  == [P EXCEPT !.status = st, !.run = [P.run EXCEPT !.stopped = b]]
<1>1. Same(Q, P) /\ Attends(P)
  BY StopProbingSame, StopProbingAttends DEF Fit
<1>2. StopCards(Q, S) = [P EXCEPT !.status = st, !.run.stopped = b]
  BY DEF StopCards
<1> HIDE DEF P
<1>3. /\ Shaped(P) /\ P.status = Q.status /\ P.list = Q.list
      /\ ToSet(P.list) \subseteq Jobs
  <2>1. ToSet(Q.list) \subseteq Jobs
    BY DEF Fit, Lines, ToSet
  <2>2. QED
    BY <1>1, <2>1 DEF Same
<1>4. \A j \in Jobs : st[j] = "queued" => P.status[j] = "queued"
  BY <1>3 DEF Moved, Shaped
<1> HIDE DEF st, b
<1>5. StopCards(Q, S) = R
  BY <1>2, <1>3 DEF Shaped
<1>6. /\ R.run.pc = P.run.pc /\ R.status = st /\ R.list = P.list
      /\ R.probeQueue = P.probeQueue /\ R.walker = P.walker
      /\ R.tools = P.tools /\ R.model = P.model
  BY <1>3 DEF Shaped
<1> HIDE DEF R
<1>7. Attends(R)
  BY <1>1, <1>3, <1>4, <1>6 DEF Attends, Attended, Cared
<1>8. QED
  BY <1>5, <1>7

AttendsStep == Attends(Queue')

LEMMA HandlerAttends ==
  ASSUME NEW R, Shaped(R), Becomes(R), Attends(R)
  PROVE  AttendsStep
BY BecomesIs DEF AttendsStep

LEMMA AttendFields ==
  /\ Queue'.list = list' /\ Queue'.status = status'
  /\ Queue'.probeQueue = probeQueue' /\ Queue'.walker = walker'
  /\ Queue'.run = run' /\ Queue'.tools = tools' /\ Queue'.model = model'
BY DEF Queue

(* A step that queues no card, adds nothing to the line and leaves its     *)
(* probe, the run, the tools and the model alone.                          *)
LEMMA CalmAttends ==
  ASSUME Attends(Queue),
         UNCHANGED <<probeQueue, walker, tools, model>>, run'.pc = run.pc,
         \A j \in ToSet(list') : status'[j] = "queued" =>
           j \in ToSet(list) /\ status[j] = "queued"
  PROVE  AttendsStep
BY AttendFields, AllFields DEF AttendsStep, Attends, Attended, Cared

LEMMA SettingAttends ==
  ASSUME NEW Q, NEW R, Attends(Q), SameLines(Q, R), R.run = Q.run,
         R.tools = Q.tools, R.model = Q.model,
         \A j \in ToSet(R.list) : R.status[j] = "queued" => Q.status[j] = "queued"
  PROVE  Attends(R)
BY DEF SameLines, Attends, Attended, Cared

LEMMA AddAttends ==
  ASSUME RInv, ListInv, Attends(Queue), NEW j \in Jobs, Add(j)
  PROVE  AttendsStep
<1>1. /\ list' = Append(list, j) /\ status' = [status EXCEPT ![j] = "analyzing"]
      /\ UNCHANGED <<probeQueue, walker, run, tools, model>>
  BY DEF Add
<1>2. list \in Seq(Jobs) /\ status = [k \in Jobs |-> status[k]]
  BY AllFields DEF ListInv, Lines, RInv, Shaped
<1>3. ToSet(list') = ToSet(list) \cup {j} /\ ToSet(list) \subseteq Jobs
  <2>1. /\ Members(list') = Members(list) \cup {j} /\ list' \in Seq(Jobs)
    BY <1>1, <1>2, AppendMembers
  <2>2. ToSet(list) \subseteq Jobs
    BY <1>2 DEF ToSet
  <2>3. QED
    BY <2>1, <2>2 DEF Members, ToSet
<1>4. \A k \in ToSet(list') : status'[k] = "queued" =>
        k \in ToSet(list) /\ status[k] = "queued"
  BY <1>1, <1>2, <1>3
<1>5. QED
  BY <1>1, <1>4, CalmAttends

LEMMA AnalyzedAttends ==
  ASSUME RInv, ListInv, Attends(Queue), NEW j \in Jobs, Analyzed(j)
  PROVE  AttendsStep
<1> DEFINE st == Moved(status, j, "ready")
           A  == [Queue EXCEPT !.status = st]
<1>1. Becomes(Schedule(A, j)) /\ j \in ToSet(list)
  BY AllFields DEF Analyzed, Listed
<1>2. /\ st = [k \in Jobs |-> st[k]]
      /\ \A k \in Jobs : st[k] \in {"ready", status[k]}
  BY MovedType, AllFields DEF RInv, Shaped
<1>3. Fit(Queue) /\ ToSet(list) \subseteq Jobs
  BY FitNow, AllFields DEF Fit, Lines, ToSet
<1> HIDE DEF st
<1>4. /\ Shaped(A) /\ A.status = st /\ SameLines(Queue, A) /\ A.run = Queue.run
      /\ A.tools = Queue.tools /\ A.model = Queue.model
  <2>1. Shaped(A) /\ A.status = st /\ A.run = Queue.run
    BY <1>2, <1>3, CardFields DEF Fit
  <2>2. SameLines(Queue, A) /\ A.tools = Queue.tools /\ A.model = Queue.model
    BY <1>3 DEF SameLines, Fit, Shaped
  <2>3. QED
    BY <2>1, <2>2
<1> HIDE DEF A
<1>5. Lines(A) /\ A.list = list
  BY <1>3, <1>4, SameLinesLines, AllFields DEF Fit, SameLines
<1>6. Attends(A)
  BY <1>2, <1>3, <1>4, <1>5, SettingAttends, AllFields
<1>7. Attends(Schedule(A, j)) /\ Shaped(Schedule(A, j))
  BY <1>1, <1>4, <1>5, <1>6, ScheduleAttends, ScheduleSame DEF Same
<1>8. QED
  BY <1>1, <1>7, HandlerAttends

LEMMA StartAttends ==
  ASSUME RInv, ListInv, Attends(Queue), NEW S \in SUBSET Jobs, Start(S)
  PROVE  AttendsStep
<1> DEFINE st == [j \in Jobs |-> IF j \in S THEN "queued" ELSE status[j]]
           tr == [j \in Jobs |-> IF j \in S THEN tries[j] + 1 ELSE tries[j]]
           l  == [j \in Jobs |-> IF j \in S /\ lang[j] = "run" THEN "none"
                                 ELSE lang[j]]
           A  == [Queue EXCEPT !.status = st]
           B  == [A EXCEPT !.tries = tr]
           C  == [B EXCEPT !.lang = l]
<1>1. Becomes(Pump(C))
  <2>1. C = [Queue EXCEPT
               !.status = [j \in Jobs |-> IF j \in S THEN "queued" ELSE @[j]],
               !.tries  = [j \in Jobs |-> IF j \in S THEN @[j] + 1 ELSE @[j]],
               !.lang   = [j \in Jobs |-> IF j \in S /\ @[j] = "run"
                                          THEN "none" ELSE @[j]]]
    BY QueueFields
  <2> HIDE DEF C
  <2>2. QED
    BY <2>1 DEF Start
<1>2. Fit(Queue) /\ tries \in [Jobs -> Nat]
  BY FitNow, AllFields DEF ListInv, Started
<1>3. /\ st = [k \in Jobs |-> st[k]] /\ l = [k \in Jobs |-> l[k]]
      /\ \A k \in Jobs : \/ st[k] = status[k] /\ k \notin S
                         \/ st[k] = "queued" /\ k \in S
  OBVIOUS
<1>4. /\ tr \in [Jobs -> Nat]
      /\ \A k \in Jobs : (tries[k] # 0 \/ k \in S) => tr[k] # 0
  BY <1>2
<1> HIDE DEF st, tr, l
<1>5. /\ Shaped(A) /\ A.status = st /\ A.run = run /\ SameLines(Queue, A)
  BY <1>2, <1>3, CardFields, CardsLines, AllFields DEF Fit
<1> HIDE DEF A
<1>6. /\ Shaped(B) /\ B.status = st /\ B.run = run /\ SameLines(A, B)
      /\ B.tries = tr
  BY <1>5, OtherFields, CardsLines
<1> HIDE DEF B
<1>7. /\ Shaped(C) /\ C.status = st /\ C.run = run /\ SameLines(B, C)
      /\ C.tries = tr
  BY <1>3, <1>6, LangFields, CardsLines
<1> HIDE DEF C
<1>8. SameLines(Queue, C)
  BY <1>5, <1>6, <1>7 DEF SameLines
<1>9. Fit(C)
  <2>1. Lines(C)
    BY <1>2, <1>8, SameLinesLines DEF Fit
  <2>2. Running(C)
    BY <1>2, <1>3, <1>7, AllFields DEF Fit, Running
  <2>3. Started(C)
    BY <1>2, <1>3, <1>4, <1>7, AllFields DEF Fit, Started
  <2>4. QED
    BY <1>7, <2>1, <2>2, <2>3 DEF Fit
<1>10. Attended(C)
  BY <1>7, <1>8, AllFields DEF SameLines, Attends, Attended
<1>11. Attends(Pump(C)) /\ Shaped(Pump(C))
  BY <1>9, <1>10, PumpAttends, PumpServes DEF Attends, Serves, Fit
<1>12. QED
  BY <1>1, <1>11, HandlerAttends

LEMMA StopAttends ==
  ASSUME RInv, ListInv, Attends(Queue), NEW S \in SUBSET Jobs,
         Becomes(StopCards(Queue, S))
  PROVE  AttendsStep
BY FitNow, StopCardsAttends, StopCardsServes, HandlerAttends DEF Serves, Fit

LEMMA RemoveAttends ==
  ASSUME RInv, ListInv, Attends(Queue), NEW S, RemoveAll(S)
  PROVE  AttendsStep
<1> DEFINE P == StopProbing(Queue, S)
           x == Without(P.list, S)
           R == [P EXCEPT !.list = x]
<1>1. Becomes(R)
  BY DEF RemoveAll
<1>2. Fit(Queue)
  BY FitNow
<1>3. Same(Queue, P) /\ Attends(P)
  BY <1>2, StopProbingSame, StopProbingAttends DEF Fit
<1> HIDE DEF P
<1>4. Shaped(P) /\ P.list = list
  BY <1>3, AllFields DEF Same
<1>5. ToSet(x) \subseteq ToSet(P.list)
  <2>1. list \in Seq(Jobs)
    BY <1>2, AllFields DEF Fit, Lines
  <2>2. QED
    BY <1>4, <2>1, OnlySet DEF Without
<1> HIDE DEF x
<1>6. /\ Shaped(R) /\ R.list = x /\ R.status = P.status /\ R.run = P.run
      /\ R.walker = P.walker /\ R.probeQueue = P.probeQueue
      /\ R.tools = P.tools /\ R.model = P.model
  BY <1>4 DEF Shaped
<1> HIDE DEF R
<1>7. Attends(R)
  BY <1>3, <1>5, <1>6 DEF Attends, Attended, Cared
<1>8. QED
  BY <1>1, <1>6, <1>7, HandlerAttends

LEMMA LanguageAttends ==
  ASSUME RInv, ListInv, Attends(Queue), NEW j \in Jobs,
         NameLanguage(j) \/ AskLanguage(j)
  PROVE  AttendsStep
<1> DEFINE P == StopProbing(Queue, {j})
<1>1. Same(Queue, P) /\ Lines(P) /\ Attends(P)
  BY FitNow, StopProbingSame, StopProbingLines, StopProbingAttends DEF Fit
<1> HIDE DEF P
<1>2. P.lang = lang /\ P.list = list /\ Shaped(P)
  BY <1>1, AllFields DEF Same
<1>3. ASSUME NEW x, NEW l, l = [lang EXCEPT ![j] = x]
      PROVE  LET R == [P EXCEPT !.lang = l]
             IN  Shaped(R) /\ SameLines(P, R) /\ Attends(R)
  <2> DEFINE R == [P EXCEPT !.lang = l]
  <2>1. l = [k \in Jobs |-> l[k]]
    BY <1>3, AllFields DEF RInv, Shaped
  <2>2. Shaped(R) /\ R.status = P.status /\ R.run = P.run
    BY <1>2, <2>1, LangFields
  <2>3. SameLines(P, R) /\ R.tools = P.tools /\ R.model = P.model
    BY <1>2 DEF SameLines, Shaped
  <2> HIDE DEF R
  <2>4. Attends(R)
    BY <1>1, <2>2, <2>3, SettingAttends
  <2>5. QED
    BY <2>2, <2>3, <2>4 DEF R
<1>4. CASE NameLanguage(j)
  <2> DEFINE l == [lang EXCEPT ![j] = "manual"]
             R == [P EXCEPT !.lang = l]
  <2>1. Becomes(R)
    <3>1. [P EXCEPT !.lang[j] = "manual"] = R
      BY <1>2
    <3>2. QED
      BY <1>4, <3>1 DEF NameLanguage, P
  <2>2. Shaped(R) /\ Attends(R)
    BY <1>3
  <2> HIDE DEF R
  <2>3. QED
    BY <2>1, <2>2, HandlerAttends
<1>5. CASE AskLanguage(j)
  <2> DEFINE l == [lang EXCEPT ![j] = "none"]
             x == P.asks + 1
             A == [P EXCEPT !.lang = l]
             B == [A EXCEPT !.asks = x]
  <2>1. /\ Becomes(Schedule(B, j)) /\ j \in ToSet(list)
    <3>1. [P EXCEPT !.lang[j] = "none", !.asks = @ + 1] = B
      BY <1>2
    <3>2. QED
      BY <1>5, <3>1, AllFields DEF AskLanguage, P, Listed
  <2>2. Shaped(A) /\ SameLines(P, A) /\ Attends(A)
    BY <1>3
  <2> HIDE DEF A, x
  <2>3. /\ Shaped(B) /\ B.status = A.status /\ B.run = A.run
        /\ SameLines(A, B) /\ B.tools = A.tools /\ B.model = A.model
    <3>1. Shaped(B) /\ B.status = A.status /\ B.run = A.run /\ SameLines(A, B)
      BY <2>2, OtherFields, CardsLines
    <3>2. B.tools = A.tools /\ B.model = A.model
      BY <2>2 DEF Shaped
    <3>3. QED
      BY <3>1, <3>2
  <2> HIDE DEF B
  <2>4. Lines(B) /\ B.list = list /\ Attends(B)
    <3>1. SameLines(P, B)
      BY <2>2, <2>3 DEF SameLines
    <3>2. Lines(B) /\ B.list = list
      BY <1>1, <1>2, <3>1, SameLinesLines DEF SameLines
    <3>3. Attends(B)
      BY <2>2, <2>3, SettingAttends
    <3>4. QED
      BY <3>2, <3>3
  <2>5. Attends(Schedule(B, j)) /\ Shaped(Schedule(B, j))
    BY <2>1, <2>3, <2>4, ScheduleAttends, ScheduleSame DEF Same
  <2>6. QED
    BY <2>1, <2>5, HandlerAttends
<1>6. QED
  BY <1>4, <1>5

LEMMA ProbeEndsAttends ==
  ASSUME RInv, ListInv, Attends(Queue), ProbeEnds
  PROVE  AttendsStep
<1>1. Fit(Queue) /\ probeQueue \in Seq(Jobs)
  BY FitNow, AllFields DEF Fit, Lines
<1>2. CASE Becomes(Drain(Queue))
  <2>1. Attends(Drain(Queue)) /\ Shaped(Drain(Queue))
    BY <1>1, ProbesAttend, DrainSame DEF Fit, Attends, Same
  <2>2. QED
    BY <1>2, <2>1, HandlerAttends
<1>3. ASSUME NEW heard,
             Becomes(Drain([Queue EXCEPT
                              !.listening = @ \ {walker},
                              !.lang = Apply(@, walker, heard)]))
      PROVE  AttendsStep
  <2> DEFINE h == Queue.listening \ {walker}
             l == Apply(lang, walker, heard)
             A == [Queue EXCEPT !.listening = h]
             B == [A EXCEPT !.lang = l]
  <2>1. Becomes(Drain(B))
    <3>1. [Queue EXCEPT !.listening = @ \ {walker},
                        !.lang = Apply(@, walker, heard)] = B
      BY AllFields
    <3>2. QED
      BY <1>3, <3>1
  <2>2. l = [k \in Jobs |-> l[k]]
    BY ApplyKeepsAnswers, AllFields DEF RInv, Shaped
  <2> HIDE DEF h, l
  <2>3. Same(Queue, A) /\ A.probeQueue = probeQueue
    <3>1. Same(Queue, A)
      BY <1>1, FieldSame DEF Fit
    <3>2. A.probeQueue = probeQueue
      BY <1>1, AllFields DEF Fit, Shaped
    <3>3. QED
      BY <3>1, <3>2
  <2> HIDE DEF A
  <2>4. /\ Shaped(B) /\ B.status = A.status /\ B.run = A.run
        /\ SameLines(A, B) /\ B.tools = A.tools /\ B.model = A.model
    <3>1. Shaped(A)
      BY <2>3 DEF Same
    <3>2. Shaped(B) /\ B.status = A.status /\ B.run = A.run /\ SameLines(A, B)
      BY <2>2, <3>1, LangFields, CardsLines
    <3>3. B.tools = A.tools /\ B.model = A.model
      BY <3>1 DEF Shaped
    <3>4. QED
      BY <3>2, <3>3
  <2> HIDE DEF B
  <2>5. ~CanWithdraw => Cared(B)
    BY <2>3, <2>4 DEF Attends, Cared, Same, SameLines
  <2>6. Attended(Drain(B))
    <3>1. B.probeQueue \in Seq(Jobs)
      BY <1>1, <2>3, <2>4 DEF SameLines
    <3>2. QED
      BY <2>4, <3>1, DrainAttended
  <2>7. Attends(Drain(B)) /\ Shaped(Drain(B))
    <3>1. ~CanWithdraw => Cared(Drain(B))
      BY <2>4, <2>5, DrainSame, SameCared
    <3>2. QED
      BY <2>4, <2>6, <3>1, DrainSame DEF Attends, Same
  <2>8. QED
    BY <2>1, <2>7, HandlerAttends
<1>4. QED
  BY <1>2, <1>3 DEF ProbeEnds

LEMMA RunMovesAttends ==
  ASSUME RInv, ListInv, SettleEnds \/ RunSpeaks \/ WriteEnds
  PROVE  AttendsStep
<1>1. run'.pc # "idle"
  <2>1. CASE SettleEnds
    <3>1. Becomes(Begin(Queue, run.job))
      BY <2>1 DEF SettleEnds
    <3>2. Begin(Queue, run.job).run.pc = "running"
      BY DEF Begin, RInv, Shaped
    <3>3. QED
      BY <3>1, <3>2 DEF Becomes
  <2>2. CASE RunSpeaks \/ WriteEnds
    <3>1. run = [pc |-> run.pc, job |-> run.job, try |-> run.try,
                 stopped |-> run.stopped]
      BY AllFields DEF RInv, Shaped
    <3>2. \E pc : pc # "idle" /\ run' = [run EXCEPT !.pc = pc]
      BY <2>2 DEF RunSpeaks, WriteEnds
    <3>3. QED
      BY <3>1, <3>2
  <2>3. QED
    BY <2>1, <2>2
<1>2. QED
  BY <1>1, BusyAttends, AttendFields DEF AttendsStep

(* The card of the run is moved, and the machine given back.               *)
LEMMA EndsAttend ==
  ASSUME RInv, ListInv, NEW s \in {"completed", "failed", "cancelled"},
         Becomes(Finish([Queue EXCEPT !.status = Moved(@, run.job, s)]))
  PROVE  AttendsStep
<1> DEFINE st == Moved(status, run.job, s)
           M  == [Queue EXCEPT !.status = st]
<1>1. [Queue EXCEPT !.status = Moved(@, run.job, s)] = M
  BY AllFields
<1>2. Shaped(M) /\ Silent(M)
  <2>1. Queue.run.job = run.job
    BY AllFields
  <2>2. QED
    BY <2>1, MovedSilent, AllFields DEF RInv
<1>3. /\ \A j \in Jobs : st[j] \in {s, status[j]}
      /\ st = [j \in Jobs |-> st[j]]
  BY MovedType, AllFields DEF RInv, Shaped
<1> HIDE DEF st
<1>4. M.status = st /\ SameLines(Queue, M) /\ M.tries = tries
  <2>1. Shaped(Queue) /\ Queue.tries = tries
    BY AllFields DEF RInv
  <2>2. M.status = st /\ M.tries = tries
    BY <1>3, <2>1, CardFields
  <2>3. SameLines(Queue, M)
    BY <2>1, CardsLines
  <2>4. QED
    BY <2>2, <2>3
<1> HIDE DEF M
<1>5. Lines(M)
  BY <1>4, SameLinesLines DEF ListInv
<1>6. /\ M.tries \in [Jobs -> Nat]
      /\ \A k \in Jobs : M.status[k] = "queued" => M.tries[k] # 0
  BY <1>3, <1>4, AllFields DEF ListInv, Started
<1>7. Attends(Finish(M)) /\ Shaped(Finish(M))
  BY <1>2, <1>5, <1>6, FinishAttends, FinishKept DEF Kept
<1>8. QED
  BY <1>1, <1>7, HandlerAttends

LEMMA RunEndsAttends ==
  ASSUME RInv, ListInv,
         RunStops \/ RunFails \/ SaveFails \/ RestoreEnds \/ RenameEnds
  PROVE  AttendsStep
<1>1. CASE RunStops \/ RunFails \/ SaveFails
  BY <1>1, EndsAttend DEF RunStops, RunFails, SaveFails
<1>2. CASE RestoreEnds
  <2>1. run.pc = "restoring" /\ Becomes(Finish(Queue))
    BY <1>2 DEF RestoreEnds
  <2>2. Shaped(Queue) /\ Silent(Queue) /\ Lines(Queue)
    BY <2>1, AllFields DEF RInv, ListInv, Running, Silent
  <2>3. /\ Queue.tries \in [Jobs -> Nat]
        /\ \A k \in Jobs : Queue.status[k] = "queued" => Queue.tries[k] # 0
    BY DEF ListInv, Started
  <2>4. Attends(Finish(Queue)) /\ Shaped(Finish(Queue))
    BY <2>2, <2>3, FinishAttends, FinishKept DEF Kept
  <2>5. QED
    BY <2>1, <2>4, HandlerAttends
<1>3. CASE RenameEnds
  <2>1. CASE "completed" \in Edges(status[run.job])
    BY <1>3, <2>1, EndsAttend DEF RenameEnds
  <2>2. CASE "completed" \notin Edges(status[run.job])
    <3> DEFINE r == [run EXCEPT !.pc = "restoring"]
               R == [Queue EXCEPT !.run = r]
    <3>1. Becomes(R)
      <4>1. [Queue EXCEPT !.run.pc = "restoring"] = R
        BY AllFields
      <4>2. QED
        BY <1>3, <2>2, <4>1 DEF RenameEnds
    <3>2. r = [pc |-> "restoring", job |-> run.job, try |-> run.try,
               stopped |-> run.stopped]
      BY AllFields DEF RInv, Shaped
    <3>3. Shaped(R) /\ R.run = r /\ r.pc = "restoring"
      BY <3>2, RunFields DEF RInv
    <3> HIDE DEF r, R
    <3>4. QED
      BY <3>1, <3>3, BusyAttends, HandlerAttends
  <2>3. QED
    BY <2>1, <2>2
<1>4. QED
  BY <1>1, <1>2, <1>3

(* While nothing is taken away, only a download comes and ends.            *)
LEMMA EnvironmentAttends ==
  ASSUME RInv, ListInv, Attends(Queue), Environment
  PROVE  AttendsStep
<1>1. Fit(Queue)
  BY FitNow
<1>2. ASSUME NEW x, NEW R \in {[Queue EXCEPT !.tools = x],
                               [Queue EXCEPT !.model = x]}
      PROVE  Fit(R) /\ Attended(R) /\ SameLines(Queue, R) /\ R.run = run
  <2>1. /\ Shaped(R) /\ R.status = status /\ R.run = run
        /\ SameLines(Queue, R) /\ R.tries = tries
    <3>1. CASE R = [Queue EXCEPT !.tools = x]
      BY <1>1, <3>1, OtherFields, CardsLines, AllFields DEF Fit
    <3>2. CASE R = [Queue EXCEPT !.model = x]
      BY <1>1, <3>2, OtherFields, CardsLines, AllFields DEF Fit
    <3>3. R = [Queue EXCEPT !.tools = x] \/ R = [Queue EXCEPT !.model = x]
      BY <1>2, Zenon
    <3>4. QED
      BY <3>1, <3>2, <3>3
  <2>2. Lines(R) /\ R.list = list
    BY <1>1, <2>1, SameLinesLines, AllFields DEF Fit, SameLines
  <2>3. Fit(R)
    BY <1>1, <2>1, <2>2, StillServes, AllFields DEF Serves
  <2>4. Attended(R)
    BY <2>1, AllFields DEF SameLines, Attends, Attended
  <2>5. QED
    BY <2>1, <2>3, <2>4
<1>3. CASE ToolsChange
  <2> DEFINE x == ~Queue.tools
             R == [Queue EXCEPT !.tools = x]
  <2>1. Becomes(Resume(R)) /\ CanWithdraw
    BY <1>3 DEF ToolsChange, Quietly
  <2>2. R \in {[Queue EXCEPT !.tools = x], [Queue EXCEPT !.model = x]}
    BY Zenon
  <2> HIDE DEF R, x
  <2>3. Fit(R) /\ Attends(R)
    BY <1>2, <2>1, <2>2 DEF Attends
  <2>4. Attends(Resume(R)) /\ Shaped(Resume(R))
    BY <2>3, ResumeAttends, ResumeSame DEF Fit, Same
  <2>5. QED
    BY <2>1, <2>4, HandlerAttends
<1>4. CASE ModelGoes
  BY <1>4, AttendFields, AllFields
  DEF ModelGoes, AttendsStep, Attends, Attended
<1>5. CASE Download
  <2> DEFINE R == [Queue EXCEPT !.model = "downloading"]
  <2>1. Becomes(R)
    BY <1>5 DEF Download, Quietly
  <2>2. Fit(R) /\ Attended(R)
    BY <1>2
  <2>3. R.model = "downloading"
    BY <1>1 DEF Fit, Shaped
  <2> HIDE DEF R
  <2>4. Attends(R)
    BY <2>2, <2>3 DEF Attends, Cared
  <2>5. QED
    BY <2>1, <2>2, <2>4, HandlerAttends DEF Fit
<1>6. CASE DownloadEnds
  <2> DEFINE R == [Queue EXCEPT !.model = "present"]
  <2>1. Becomes(Resume(Pump(R)))
    BY <1>6 DEF DownloadEnds, Quietly
  <2>2. Fit(R) /\ Attended(R)
    BY <1>2
  <2> HIDE DEF R
  <2>3. Fit(Pump(R)) /\ Attends(Pump(R))
    BY <2>2, PumpAttends, PumpServes DEF Serves, Attends
  <2>4. Attends(Resume(Pump(R))) /\ Shaped(Resume(Pump(R)))
    BY <2>3, ResumeAttends, ResumeSame DEF Fit, Same
  <2>5. QED
    BY <2>1, <2>4, HandlerAttends
<1>7. CASE DownloadFails
  <2> DEFINE R == [Queue EXCEPT !.model = "absent"]
  <2>1. Becomes(R) /\ CanWithdraw
    BY <1>7 DEF DownloadFails, Quietly
  <2>2. Fit(R) /\ Attends(R)
    BY <1>2, <2>1 DEF Attends
  <2> HIDE DEF R
  <2>3. QED
    BY <2>1, <2>2, HandlerAttends DEF Fit
<1>8. QED
  BY <1>3, <1>4, <1>5, <1>6, <1>7 DEF Environment

LEMMA RestartAttends ==
  ASSUME RInv, ListInv, Restart
  PROVE  AttendsStep
<1>1. PICK A : RestartRecord(A)
  BY RestartIs
<1>2. /\ disk.list \in Seq(Jobs) /\ ToSet(disk.list) \subseteq Jobs
  BY DEF ListInv, Snap, ToSet
<1>3. Lines(A)
  <2>1. <<>> \in Seq(Jobs)
    OBVIOUS
  <2>2. QED
    BY <1>1, <1>2, <2>1 DEF RestartRecord, Lines
<1>4. Attends(A)
  <2>1. \A j \in ToSet(A.list) : A.status[j] # "queued"
    BY <1>1, <1>2 DEF RestartRecord, Migrated
  <2>2. QED
    BY <1>1, <2>1 DEF RestartRecord, Attends, Attended, Cared
<1>5. QED
  BY <1>1, <1>3, <1>4, ResumeAttends DEF RestartRecord, AttendsStep

LEMMA NextAttends ==
  ASSUME RInv, ListInv, Attends(Queue), [Next]_vars
  PROVE  AttendsStep
<1>1. CASE \E j \in Jobs :
             \/ Add(j) \/ Cancel(j) \/ RemoveCard(j) \/ NameLanguage(j)
             \/ AskLanguage(j) \/ Analyzed(j)
  BY <1>1, AddAttends, StopAttends, RemoveAttends, LanguageAttends,
     AnalyzedAttends
  DEF Cancel, RemoveCard
<1>2. CASE (\E S \in SUBSET Jobs : Start(S)) \/ ClearCompleted
  BY <1>2, StartAttends, RemoveAttends DEF ClearCompleted
<1>3. CASE CancelAll
  <2> DEFINE S == {j \in Jobs \ TeamJobs :
                     Listed(Queue, j) /\ status[j] \in {"queued", "processing"}}
  <2>1. S \in SUBSET Jobs /\ Becomes(StopCards(Queue, S))
    BY <1>3 DEF CancelAll
  <2> HIDE DEF S
  <2>2. QED
    BY <2>1, StopAttends
<1>4. CASE \/ (\E j \in Jobs : Cleaned(j)) \/ RunHears \/ Fragment
           \/ PersistBegins \/ PersistEnds \/ UNCHANGED vars
  <2>1. UNCHANGED <<list, status, probeQueue, walker, run, tools, model>>
    BY <1>4 DEF Cleaned, RunHears, Fragment, PersistBegins, PersistEnds, vars,
                queueVars
  <2>2. QED
    BY <2>1, CalmAttends
<1>5. CASE RunGoesOn
  BY <1>5, RunMovesAttends, RunEndsAttends DEF RunGoesOn
<1>6. QED
  BY <1>1, <1>2, <1>3, <1>4, <1>5, EnvironmentAttends, ProbeEndsAttends,
     RestartAttends
  DEF Next, Asked

LEMMA InitAttends == Init => Attends(Queue)
<1>1. SUFFICES ASSUME Init PROVE Attends(Queue)
  OBVIOUS
<1>2. list = <<>> /\ probeQueue = <<>>
  BY <1>1 DEF Init
<1>3. ToSet(<<>>) = {}
  BY DEF ToSet
<1>4. QED
  BY <1>2, <1>3, AllFields DEF Attends, Attended, Cared

LEMMA AttendInvariant == Spec => [](RInv /\ ListInv /\ Attends(Queue))
<1>1. RInv /\ ListInv /\ Attends(Queue) /\ [Next]_vars => Attends(Queue)'
  <2>1. Attends(Queue)' <=> Attends(Queue')
    BY DEF Attends, Attended, Cared
  <2>2. QED
    BY <2>1, NextAttends DEF AttendsStep
<1>2. QED
  BY <1>1, InitAttends, ListInvariant, PTL DEF Spec

(* A row that says it is being listened to is in the line of probes or is  *)
(* the one being heard, whatever drops, puts back or walks past a probe;   *)
(* and a line is never left without a probe or a run that will come back   *)
(* to it (transcription-queue.ts, drainProbes and pump).                   *)
THEOREM ListenersAreInLine == Spec => []ListeningIsInLine
<1>1. RInv /\ ListInv /\ Attends(Queue) => ListeningIsInLine
  BY AllFields DEF ListInv, Lines, Attends, Attended, ListeningIsInLine
<1>2. QED
  BY <1>1, AttendInvariant, PTL

(* While no tool, model or download is taken away, a queued card has a run *)
(* or a download to wait for (transcription-queue.ts, pump): no stop, end, *)
(* failure, removal, restart or language question forgets it.              *)
THEOREM QueuedIsServed == ~CanWithdraw => (Spec => []QueuedHasRun)
<1>1. SUFFICES ASSUME ~CanWithdraw PROVE Spec => []QueuedHasRun
  OBVIOUS
<1>2. Attends(Queue) => QueuedHasRun
  BY <1>1, AllFields DEF Attends, Cared, QueuedHasRun
<1>3. QED
  BY <1>2, AttendInvariant, PTL

-----------------------------------------------------------------------------
(* What is on its way to the disk, or there, says what the list says,      *)
(* unless the timer is armed or a removal is still to notify.              *)
Newest == IF writing = None THEN disk ELSE writing

Current(s) ==
  /\ s.list = Persisted.list
  /\ \A j \in Jobs : s.lang[j] = Persisted.lang[j]
  /\ \A j \in Jobs :
       Migrated(s.status[j], doc[j]) = Migrated(Persisted.status[j], doc[j])

SaveInv == dirty \/ cleanup # {} \/ Current(Newest)

(* The value that stands for no write is none of the snapshots.            *)
NoneIsNoSnapshot == \A s : SnapShaped(s) => s # None

LEMMA StaysSaved ==
  ASSUME SaveInv,
         UNCHANGED <<list, status, lang, doc, disk, writing, dirty, cleanup>>
  PROVE  SaveInv'
<1>1. Persisted' = Persisted
  BY DEF Persisted
<1>2. Newest' = Newest
  BY DEF Newest
<1>3. QED
  BY <1>1, <1>2 DEF SaveInv, Current

(* The handlers that notify, and those that leave a sidecar to delete.     *)
LEMMA NotifyingSaves ==
  ASSUME Persisting, NEW j,
         \/ Add(j) \/ Analyzed(j) \/ Cancel(j) \/ CancelAll \/ Cleaned(j)
         \/ \E S \in SUBSET Jobs : Start(S)
         \/ NameLanguage(j) \/ AskLanguage(j) \/ Fragment \/ SettleEnds
         \/ RunHears \/ RunStops \/ RunFails \/ RunSpeaks \/ RestoreEnds
         \/ SaveFails \/ ToolsChange \/ Download \/ DownloadEnds
         \/ DownloadFails
  PROVE  SaveInv'
<1>1. Notify
  BY DEF Add, Analyzed, Cancel, CancelAll, Cleaned, Start, NameLanguage,
         AskLanguage, Fragment, SettleEnds, RunHears, RunStops, RunFails,
         RunSpeaks, RestoreEnds, SaveFails, ToolsChange, Download,
         DownloadEnds, DownloadFails, Quietly
<1>2. QED
  BY <1>1 DEF Notify, SaveInv

LEMMA RemovingSaves ==
  ASSUME NEW S, RemoveAll(S)
  PROVE  SaveInv'
BY DEF RemoveAll, SaveInv

LEMMA ProbeEndsSaves ==
  ASSUME Persisting, RInv, SaveInv, ProbeEnds
  PROVE  SaveInv'
<1>1. CASE Notify
  BY <1>1 DEF Notify, SaveInv
<1>2. CASE Becomes(Drain(Queue)) /\ UNCHANGED <<diskVars, dirty>>
  <2>1. Same(Queue, Drain(Queue))
    BY DrainSame DEF RInv
  <2>2. /\ list' = Drain(Queue).list /\ status' = Drain(Queue).status
        /\ lang' = Drain(Queue).lang
    BY <1>2 DEF Becomes
  <2>3. UNCHANGED <<list, status, lang>>
    BY <2>1, <2>2, QueueFields DEF Same
  <2>4. QED
    BY <1>2, <2>3, StaysSaved DEF diskVars
<1>3. QED
  BY <1>1, <1>2 DEF ProbeEnds

(* The document that is to be put back is that of a card which is neither  *)
(* completed nor failed, here or on the disk: what a restart makes of it   *)
(* does not depend on the document.                                        *)
LEMMA RenameEndsSaves ==
  ASSUME Persisting, RInv, ListInv, SaveInv, RenameEnds
  PROVE  SaveInv'
<1>1. CASE Notify
  BY <1>1 DEF Notify, SaveInv
<1>2. CASE /\ Becomes([Queue EXCEPT !.run.pc = "restoring"])
           /\ UNCHANGED <<result, dirty>>
  <2>1. /\ UNCHANGED <<list, status, lang>>
    BY <1>2, QueueFields DEF Becomes, Queue
  <2>2. /\ run.pc = "renaming" /\ doc' = [doc EXCEPT ![run.job] = run.try]
        /\ UNCHANGED <<cleanup, writing, disk>>
    BY DEF RenameEnds
  <2>3. /\ run.job \in Jobs /\ status[run.job] \notin {"completed", "failed"}
    BY <2>2, AllFields DEF ListInv, Started
  <2>4. \A j \in Jobs : j # run.job => doc'[j] = doc[j]
    BY <2>2, <2>3 DEF ListInv
  <2>5. Persisted' = Persisted /\ Newest' = Newest
    BY <2>1, <2>2 DEF Persisted, Newest
  <2>6. Persisted.status[run.job] \notin {"completed", "failed"}
    BY <2>3, PersistedSnap
  <2>7. ASSUME Current(Newest) PROVE Current(Newest)'
    <3>1. Newest.status[run.job] # "completed"
      BY <2>3, <2>6, <2>7 DEF Current, Migrated
    <3>2. \A j \in Jobs :
            Migrated(Newest.status[j], doc'[j])
              = Migrated(Persisted.status[j], doc'[j])
      <4>1. TAKE j \in Jobs
      <4>2. CASE j # run.job
        BY <2>4, <2>7, <4>2 DEF Current
      <4>3. CASE j = run.job
        BY <2>3, <2>6, <2>7, <3>1, <4>3 DEF Current, Migrated
      <4>4. QED
        BY <4>2, <4>3
    <3>3. QED
      BY <2>5, <2>7, <3>2 DEF Current
  <2>8. QED
    BY <1>2, <2>2, <2>7 DEF SaveInv
<1>3. QED
  BY <1>1, <1>2 DEF RenameEnds

LEMMA PersistSaves ==
  ASSUME NoneIsNoSnapshot, SaveInv, PersistBegins \/ PersistEnds
  PROVE  SaveInv'
<1>1. UNCHANGED <<list, status, lang, doc, cleanup>> /\ Persisted' = Persisted
  BY DEF PersistBegins, PersistEnds, queueVars, Persisted
<1>2. CASE PersistBegins
  <2>1. SnapShaped(Persisted)
    BY DEF SnapShaped, Persisted
  <2>2. Newest' = Persisted
    BY <1>2, <2>1 DEF PersistBegins, NoneIsNoSnapshot, Newest
  <2>3. QED
    BY <1>1, <2>2 DEF SaveInv, Current
<1>3. CASE PersistEnds
  <2>1. Newest' = Newest /\ dirty' = dirty
    BY <1>3 DEF PersistEnds, Newest
  <2>2. QED
    BY <1>1, <2>1 DEF SaveInv, Current
<1>4. QED
  BY <1>2, <1>3

LEMMA RestartSaves ==
  ASSUME RInv, ListInv, Restart
  PROVE  SaveInv'
<1>1. UNCHANGED disk /\ writing' = None
  BY DEF Restart
<1>2. PICK A : RestartRecord(A)
  BY RestartIs
<1>3. Same(A, Resume(A)) /\ Queue' = Resume(A)
  BY <1>2, ResumeSame DEF RestartRecord
<1>4. /\ list' = disk.list /\ lang' = disk.lang
      /\ \A j \in Jobs : status'[j] = IF j \in ToSet(disk.list)
                                      THEN Migrated(disk.status[j], doc'[j])
                                      ELSE IF status[j] = "none" THEN "none"
                                      ELSE "gone"
  BY <1>2, <1>3, AllFields DEF RestartRecord, Same
<1>5. /\ disk.list \in Seq(Jobs) /\ ToSet(disk.list) \cap TeamJobs = {}
      /\ \A j \in Jobs \ ToSet(disk.list) :
           disk.status[j] = "none" /\ disk.lang[j] = "none"
  BY DEF ListInv, Snap
<1>6. Without(disk.list, TeamJobs) = disk.list
  <2>1. Members(disk.list) \subseteq Jobs \ TeamJobs
    BY <1>5 DEF Members, ToSet
  <2>2. QED
    BY <1>5, <2>1, OnlyAll DEF Without
<1> DEFINE st == [j \in Jobs |-> IF j \in ToSet(disk.list) THEN status'[j]
                                 ELSE "none"]
           l  == [j \in Jobs |-> IF j \in ToSet(disk.list) THEN lang'[j]
                                 ELSE "none"]
<1>7. Persisted' = [list |-> disk.list, status |-> st, lang |-> l]
  BY <1>4, <1>6 DEF Persisted
<1>8. \A j \in Jobs :
        /\ st[j] = IF j \in ToSet(disk.list)
                   THEN Migrated(disk.status[j], doc'[j]) ELSE "none"
        /\ l[j] = disk.lang[j]
  BY <1>4, <1>5
<1> HIDE DEF st, l
<1>9. /\ Persisted'.list = disk.list /\ Persisted'.status = st
      /\ Persisted'.lang = l
  BY <1>7
<1>10. \A j \in Jobs :
         Migrated(disk.status[j], doc'[j]) = Migrated(st[j], doc'[j])
  BY <1>5, <1>8 DEF Migrated
<1>11. Newest' = disk
  BY <1>1 DEF Newest
<1>12. QED
  BY <1>1, <1>8, <1>9, <1>10, <1>11 DEF SaveInv, Current

LEMMA NextSaves ==
  ASSUME Persisting, NoneIsNoSnapshot, RInv, ListInv, SaveInv, [Next]_vars
  PROVE  SaveInv'
<1>1. CASE WriteEnds \/ ModelGoes \/ UNCHANGED vars
  <2>1. UNCHANGED <<list, status, lang, doc, disk, writing, dirty, cleanup>>
    BY <1>1 DEF WriteEnds, ModelGoes, vars, queueVars, diskVars
  <2>2. QED
    BY <2>1, StaysSaved
<1>2. CASE Asked
  BY <1>2, NotifyingSaves, RemovingSaves
  DEF Asked, RemoveCard, ClearCompleted
<1>3. CASE RunGoesOn \/ Environment
  BY <1>1, <1>3, NotifyingSaves, RenameEndsSaves DEF RunGoesOn, Environment
<1>4. CASE RunHears \/ Fragment \/ \E j \in Jobs : Analyzed(j) \/ Cleaned(j)
  BY <1>4, NotifyingSaves
<1>5. QED
  BY <1>1, <1>2, <1>3, <1>4, ProbeEndsSaves, PersistSaves, RestartSaves
  DEF Next

LEMMA InitSaves == Init => SaveInv
<1>1. SUFFICES ASSUME Init PROVE SaveInv
  OBVIOUS
<1>2. /\ list = <<>> /\ status = [j \in Jobs |-> "none"]
      /\ lang = [j \in Jobs |-> "none"] /\ writing = None
      /\ disk = [list |-> <<>>, status |-> status, lang |-> lang]
  BY <1>1 DEF Init
<1>3. /\ disk.list = <<>> /\ disk.status = status /\ disk.lang = lang
  BY <1>2
<1>4. <<>> \in Seq(Jobs) /\ ToSet(<<>>) = {} /\ Members(<<>>) = {}
  BY DEF ToSet, Members
<1>5. Persisted.list = <<>>
  <2>1. Without(<<>>, TeamJobs) = <<>>
    BY <1>4, OnlyAll DEF Without
  <2>2. QED
    BY <1>2, <2>1 DEF Persisted
<1>6. \A j \in Jobs : Persisted.status[j] = "none" /\ Persisted.lang[j] = "none"
  BY <1>1, <1>4, <1>5, InitLists, PersistedSnap
<1>7. QED
  BY <1>2, <1>3, <1>5, <1>6 DEF SaveInv, Current, Newest

(* Every handler that changes what a restart would bring back arms the     *)
(* save, or leaves a sidecar whose deletion arms it: with nothing on its   *)
(* way to the disk, the list on disk is the list.                          *)
THEOREM SavesCatchUp ==
  Persisting /\ NoneIsNoSnapshot => (Spec => []SavedIsCurrent)
<1>1. SUFFICES ASSUME Persisting, NoneIsNoSnapshot
               PROVE  Spec => []SavedIsCurrent
  OBVIOUS
<1>2. RInv /\ ListInv /\ SaveInv /\ [Next]_vars => SaveInv'
  BY <1>1, NextSaves
<1>3. RInv /\ ListInv /\ SaveInv => SavedIsCurrent
  <2>1. SUFFICES ASSUME RInv, SaveInv, ~dirty, writing = None, cleanup = {}
                 PROVE  Restored(disk, doc) = Restored(Persisted, doc)
    BY DEF SavedIsCurrent
  <2> DEFINE f(s) == [j \in Jobs |-> Migrated(s.status[j], doc[j])]
  <2>2. \A s : SnapShaped(s) =>
          Restored(s, doc) = [list |-> s.list, status |-> f(s), lang |-> s.lang]
    BY DEF SnapShaped, Restored
  <2>3. SnapShaped(disk) /\ SnapShaped(Persisted)
    BY <2>1 DEF RInv, SnapShaped, Persisted
  <2>4. Current(disk)
    BY <2>1 DEF SaveInv, Newest
  <2>5. f(disk) = f(Persisted)
    BY <2>4 DEF Current
  <2>6. disk.lang = Persisted.lang
    BY <2>3, <2>4 DEF Current, SnapShaped
  <2> HIDE DEF f
  <2>7. QED
    BY <2>2, <2>3, <2>4, <2>5, <2>6 DEF Current
<1>4. QED
  BY <1>2, <1>3, InitSaves, ListInvariant, PTL DEF Spec
=============================================================================
