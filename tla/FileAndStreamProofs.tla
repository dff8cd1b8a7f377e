-------------------------- MODULE FileAndStreamProofs --------------------------
(***************************************************************************)
(* Theorems about the two parts every tool of the agent uses: the event    *)
(* stream (ChannelHub) and the file a list is kept in (StateFile).         *)
(*                                                                         *)
(* The stream: a subscription makes room, joins and starts things in turn, *)
(* and each of these leaves a hub whose timers run exactly for the readers *)
(* it has (Follows), however many are evicted on the way and whatever the  *)
(* limits are.  A call works on the hub as a value, so the proof is one of *)
(* the value: detaching keeps it, making room is a row of detachings, and  *)
(* joining keeps it.                                                       *)
(*                                                                         *)
(* The file: that a start reads a whole list needs only that every save    *)
(* has a name of its own for its copy, in a chain or not.  That the list   *)
(* never goes back needs the chain: one save is under way at a time, and   *)
(* it takes the list as it is when its turn comes.                         *)
(***************************************************************************)
EXTENDS ChannelHub, StateFile, FilterProofs, FiniteSetTheorems

(* The channels a reader may ask for.                                      *)
Names == UNION {ToSet(r) : r \in Requests}

(* What a call is done to: the hub, or the hub in the middle of the call.  *)
Hubs == [joined : Seq(Readers), wants : [Readers -> SUBSET Names],
         heartbeat : BOOLEAN, stopper : BOOLEAN, watchers : Nat]

(* One that costs what its readers need, with n panels open.               *)
Follows(H, n) ==
  /\ H \in Hubs
  /\ H.heartbeat <=> H.joined # <<>>
  /\ H.stopper <=> Listeners(H, Power) # {}
  /\ H.watchers = n + (IF H.stopper THEN 1 ELSE 0)

HubInv == Follows(Hub, Cardinality(panels)) /\ IsFiniteSet(panels)

(* The hub that detach() leaves before onActive(false) is called.          *)
Left(H, S) ==
  [H EXCEPT !.joined = Only(@, Readers \ S),
            !.wants = [s \in Readers |-> IF s \in S THEN {} ELSE @[s]],
            !.heartbeat = @ /\ ~(ToSet(H.joined) \subseteq S)]

(* What was started for the power channel stops when its last reader goes. *)
LEMMA DetachedIsLeft ==
  ASSUME NEW H, NEW S
  PROVE  Detached(H, S) =
           IF Listeners(H, Power) \cap S # {} /\ Listeners(Left(H, S), Power) = {}
           THEN Deactivated(Left(H, S)) ELSE Left(H, S)
BY DEF Detached, Left

(* A line without readers is the empty one.                                *)
LEMMA NoMembers ==
  ASSUME NEW T, NEW s \in Seq(T)
  PROVE  /\ ToSet(s) = Members(s) /\ ToSet(s) \subseteq T
         /\ s = <<>> <=> ToSet(s) = {}
<1>1. ToSet(s) = Members(s)
  BY DEF ToSet, Members
<1>2. DOMAIN s = 1..Len(s) /\ Len(s) \in Nat /\ \A i \in 1..Len(s) : s[i] \in T
  OBVIOUS
<1>3. CASE Len(s) = 0
  <2>1. s = <<>> /\ 1..Len(s) = {}
    BY <1>3
  <2>2. QED
    BY <1>1, <1>2, <2>1 DEF Members
<1>4. CASE Len(s) # 0
  <2>1. 1 \in DOMAIN s /\ s # <<>>
    BY <1>2, <1>4
  <2>2. s[1] \in Members(s)
    BY <2>1 DEF Members
  <2>3. Members(s) \subseteq T
    BY <1>2 DEF Members
  <2>4. QED
    BY <1>1, <2>1, <2>2, <2>3
<1>5. QED
  BY <1>3, <1>4

(* What changing the readers and the heartbeat of a hub leaves.            *)
LEMMA HubChanges ==
  ASSUME NEW H \in Hubs, NEW a, NEW b, NEW c \in BOOLEAN
  PROVE  [H EXCEPT !.joined = a, !.wants = b, !.heartbeat = c] =
           [joined |-> a, wants |-> b, heartbeat |-> c,
            stopper |-> H.stopper, watchers |-> H.watchers]
<1>1. PICK l, w, h, st, wt :
        H = [joined |-> l, wants |-> w, heartbeat |-> h, stopper |-> st,
             watchers |-> wt]
  BY DEF Hubs
<1>2. H.stopper = st /\ H.watchers = wt
  BY <1>1
<1> DEFINE R(j, k, b1) == [joined |-> j, wants |-> k, heartbeat |-> b1,
                           stopper |-> st, watchers |-> wt]
<1>3. [R(l, w, h) EXCEPT !.joined = a] = R(a, w, h)
  OBVIOUS
<1>4. [R(a, w, h) EXCEPT !.wants = b] = R(a, b, h)
  OBVIOUS
<1>5. [R(a, b, h) EXCEPT !.heartbeat = c] = R(a, b, c)
  OBVIOUS
<1>6. H = R(l, w, h)
  BY <1>1
<1>7. [H EXCEPT !.joined = a, !.wants = b, !.heartbeat = c] = R(a, b, c)
  <2> HIDE DEF R
  <2>1. QED
    BY <1>3, <1>4, <1>5, <1>6
<1>8. QED
  BY <1>2, <1>7

(* Those who are detached are out of the line and out of the listeners,    *)
(* and nothing has been stopped for them yet but the heartbeat.            *)
LEMMA LeftIs ==
  ASSUME NEW H \in Hubs, NEW S
  PROVE  /\ Left(H, S) \in Hubs
         /\ ToSet(Left(H, S).joined) = ToSet(H.joined) \ S
         /\ Listeners(Left(H, S), Power) = Listeners(H, Power) \ S
         /\ Left(H, S).heartbeat <=> H.heartbeat /\ ~(ToSet(H.joined) \subseteq S)
         /\ Left(H, S).stopper = H.stopper
         /\ Left(H, S).watchers = H.watchers
<1> DEFINE L == Left(H, S)
           line == Only(H.joined, Readers \ S)
           asked == [s \in Readers |-> IF s \in S THEN {} ELSE H.wants[s]]
           beat == H.heartbeat /\ ~(ToSet(H.joined) \subseteq S)
<1>1. /\ H.joined \in Seq(Readers) /\ H.wants \in [Readers -> SUBSET Names]
      /\ H.heartbeat \in BOOLEAN /\ H.stopper \in BOOLEAN /\ H.watchers \in Nat
      /\ H = [joined |-> H.joined, wants |-> H.wants,
              heartbeat |-> H.heartbeat, stopper |-> H.stopper,
              watchers |-> H.watchers]
  BY DEF Hubs
<1>2. /\ line \in Seq(Readers)
      /\ Members(line) = Members(H.joined) \cap (Readers \ S)
  BY <1>1, OnlyMembers
<1>3. /\ ToSet(line) = Members(line) /\ ToSet(H.joined) = Members(H.joined)
      /\ ToSet(H.joined) \subseteq Readers
  BY <1>1, <1>2, NoMembers
<1>4. ToSet(line) = ToSet(H.joined) \ S
  BY <1>2, <1>3
<1>5. asked \in [Readers -> SUBSET Names] /\ beat \in BOOLEAN
  BY <1>1
<1>6. L = [joined |-> line, wants |-> asked, heartbeat |-> beat,
           stopper |-> H.stopper, watchers |-> H.watchers]
  <2>1. L = [H EXCEPT !.joined = line, !.wants = asked, !.heartbeat = beat]
    BY DEF Left
  <2> HIDE DEF line, asked, beat, L
  <2>2. QED
    BY <2>1, HubChanges
<1>7. /\ L.joined = line /\ L.wants = asked /\ L.stopper = H.stopper
      /\ L.watchers = H.watchers /\ L.heartbeat = beat
  <2> HIDE DEF line, asked, L, beat
  <2>1. QED
    BY <1>6
<1>8. L \in Hubs
  <2> HIDE DEF line, asked, L, beat
  <2>1. QED
    BY <1>1, <1>2, <1>5, <1>6 DEF Hubs
<1>9. Listeners(L, Power) = Listeners(H, Power) \ S
  <2>1. \A s \in Readers : asked[s] = IF s \in S THEN {} ELSE H.wants[s]
    OBVIOUS
  <2> HIDE DEF line, asked, L, beat
  <2>2. QED
    BY <1>3, <1>4, <1>7, <2>1 DEF Listeners
<1> HIDE DEF line, asked, L
<1>10. QED
  BY <1>4, <1>7, <1>8, <1>9 DEF L

(* onActive(false) takes back the watcher that onActive(true) took.        *)
LEMMA DeactivatedIs ==
  ASSUME NEW H \in Hubs, H.stopper => H.watchers # 0
  PROVE  /\ Deactivated(H) \in Hubs
         /\ Deactivated(H).joined = H.joined
         /\ Deactivated(H).wants = H.wants
         /\ Deactivated(H).heartbeat = H.heartbeat
         /\ Deactivated(H).stopper = FALSE
         /\ Deactivated(H).watchers =
              H.watchers - (IF H.stopper THEN 1 ELSE 0)
<1>1. CASE H.stopper
  <2>1. Deactivated(H) =
          [joined |-> H.joined, wants |-> H.wants, heartbeat |-> H.heartbeat,
           stopper |-> FALSE, watchers |-> H.watchers - 1]
    BY <1>1 DEF Deactivated, Hubs
  <2>2. H.watchers - 1 \in Nat
    BY <1>1 DEF Hubs
  <2> DEFINE G == Deactivated(H)
  <2>3. G = [joined |-> H.joined, wants |-> H.wants, heartbeat |-> H.heartbeat,
           stopper |-> FALSE, watchers |-> H.watchers - 1]
    BY <2>1
  <2> HIDE DEF G
  <2>4. G \in Hubs
    BY <2>2, <2>3 DEF Hubs
  <2>5. QED
    BY <1>1, <2>1, <2>4 DEF G
<1>2. CASE ~H.stopper
  BY <1>2 DEF Deactivated, Hubs
<1>3. QED
  BY <1>1, <1>2

(* Detaching any readers leaves no timer behind and stops none too many.   *)
LEMMA DetachedKeeps ==
  ASSUME NEW H, NEW n \in Nat, Follows(H, n), NEW S
  PROVE  /\ Follows(Detached(H, S), n)
         /\ ToSet(Detached(H, S).joined) = ToSet(H.joined) \ S
<1> DEFINE L == Left(H, S)
<1>1. /\ H \in Hubs /\ H.joined \in Seq(Readers)
      /\ H.heartbeat <=> H.joined # <<>>
      /\ H.stopper <=> Listeners(H, Power) # {}
      /\ H.watchers = n + (IF H.stopper THEN 1 ELSE 0)
      /\ H.stopper \in BOOLEAN
  BY DEF Follows, Hubs
<1>2. /\ L \in Hubs /\ L.joined \in Seq(Readers)
      /\ ToSet(L.joined) = ToSet(H.joined) \ S
      /\ Listeners(L, Power) = Listeners(H, Power) \ S
      /\ L.heartbeat <=> H.heartbeat /\ ~(ToSet(H.joined) \subseteq S)
      /\ L.stopper = H.stopper /\ L.watchers = H.watchers
  <2>1. L \in Hubs => L.joined \in Seq(Readers)
    BY DEF Hubs
  <2>2. QED
    BY <1>1, <2>1, LeftIs
<1>3. L.heartbeat <=> L.joined # <<>>
  BY <1>1, <1>2, NoMembers
<1>4. Detached(H, S) =
        IF Listeners(H, Power) \cap S # {} /\ Listeners(L, Power) = {}
        THEN Deactivated(L) ELSE L
  BY DetachedIsLeft
<1> HIDE DEF L
<1>5. CASE Listeners(H, Power) \cap S # {} /\ Listeners(L, Power) = {}
  <2> DEFINE D == Deactivated(L)
  <2>1. L.stopper /\ L.watchers = n + 1
    BY <1>1, <1>2, <1>5
  <2>2. /\ D \in Hubs /\ D.joined = L.joined /\ D.wants = L.wants
        /\ D.heartbeat = L.heartbeat /\ D.stopper = FALSE /\ D.watchers = n
    <3>1. n + 1 # 0 /\ (n + 1) - 1 = n
      OBVIOUS
    <3>2. L.stopper => L.watchers # 0
      BY <2>1, <3>1
    <3>3. /\ D \in Hubs /\ D.joined = L.joined /\ D.wants = L.wants
          /\ D.heartbeat = L.heartbeat /\ D.stopper = FALSE
          /\ D.watchers = L.watchers - (IF L.stopper THEN 1 ELSE 0)
      BY <1>2, <3>2, DeactivatedIs
    <3> HIDE DEF D
    <3>4. QED
      BY <2>1, <3>1, <3>3
  <2> HIDE DEF D
  <2>3. Listeners(D, Power) = {}
    BY <1>5, <2>2 DEF Listeners
  <2>4. Detached(H, S) = D
    BY <1>4, <1>5 DEF D
  <2>5. Follows(D, n)
    BY <1>3, <2>2, <2>3 DEF Follows
  <2>6. QED
    BY <1>2, <2>2, <2>4, <2>5
<1>6. CASE ~(Listeners(H, Power) \cap S # {} /\ Listeners(L, Power) = {})
  <2>1. Detached(H, S) = L
    BY <1>4, <1>6
  <2>2. L.stopper <=> Listeners(L, Power) # {}
    BY <1>1, <1>2, <1>6
  <2>3. Follows(L, n)
    BY <1>1, <1>2, <1>3, <2>2 DEF Follows
  <2>4. QED
    BY <1>2, <2>1, <2>3
<1>7. QED
  BY <1>5, <1>6

-----------------------------------------------------------------------------
(* The row of hubs that evictForCapacity() goes through.                   *)
Evictions(f, H, names, n) ==
  f = [i \in 0..n |-> IF i = 0 THEN Detached(H, Oldest(H, Readers, MaxPerProcess))
                      ELSE MadeRoom(f[i - 1], names[i])]

(* There is such a row.                                                    *)
LEMMA EvictionsExist ==
  ASSUME NEW H, NEW names, NEW N \in Nat
  PROVE  \E f : Evictions(f, H, names, N)
<1> DEFINE start == Detached(H, Oldest(H, Readers, MaxPerProcess))
           Good == {n \in Nat : \E f : Evictions(f, H, names, n)}
<1>1. 0 \in Good
  <2>1. Evictions([i \in 0..0 |-> start], H, names, 0)
    BY DEF Evictions
  <2>2. QED
    BY <2>1
<1>2. ASSUME NEW n \in 1..N, n - 1 \in Good
      PROVE  n \in Good
  <2>1. PICK f : Evictions(f, H, names, n - 1)
    BY <1>2
  <2> DEFINE last == MadeRoom(f[n - 1], names[n])
             g    == [i \in 0..n |-> IF i = n THEN last ELSE f[i]]
  <2>2. \A i \in 0..(n - 1) : g[i] = f[i]
    OBVIOUS
  <2>3. g[n] = last
    OBVIOUS
  <2>4. ASSUME NEW i \in 0..n
        PROVE  g[i] = IF i = 0 THEN start ELSE MadeRoom(g[i - 1], names[i])
    <3>1. CASE i = n
      <4>1. g[n - 1] = f[n - 1]
        BY <2>2
      <4> HIDE DEF g, start
      <4>2. QED
        BY <2>3, <3>1, <4>1
    <3>2. CASE i # n
      <4>1. i \in 0..(n - 1) /\ (i # 0 => i - 1 \in 0..(n - 1))
        BY <3>2
      <4>2. f[i] = IF i = 0 THEN start ELSE MadeRoom(f[i - 1], names[i])
        BY <2>1, <4>1 DEF Evictions
      <4> HIDE DEF g, start
      <4>3. QED
        BY <2>2, <4>1, <4>2
    <3>3. QED
      BY <3>1, <3>2
  <2>5. Evictions(g, H, names, n)
    <3> DEFINE h == [i \in 0..n |->
                       IF i = 0 THEN start ELSE MadeRoom(g[i - 1], names[i])]
    <3>1. g = [i \in 0..n |-> g[i]]
      OBVIOUS
    <3> HIDE DEF g
    <3>2. g = h
      BY <2>4, <3>1
    <3>3. QED
      BY <3>2 DEF Evictions
  <2>6. QED
    BY <2>5
<1>3. 0..N \subseteq Good
  <2> HIDE DEF Good
  <2>1. QED
    BY <1>1, <1>2, UpTo
<1>4. QED
  BY <1>3

(* Its last hub is what is left when room has been made.                   *)
LEMMA EvictedIs ==
  ASSUME NEW H, NEW names, Len(names) \in Nat
  PROVE  \E f : /\ f[0] = Detached(H, Oldest(H, Readers, MaxPerProcess))
                /\ \A i \in 1..Len(names) : f[i] = MadeRoom(f[i - 1], names[i])
                /\ Evicted(H, names) = f[Len(names)]
<1> DEFINE start == Detached(H, Oldest(H, Readers, MaxPerProcess))
           f == CHOOSE f : Evictions(f, H, names, Len(names))
           g == [i \in 0..Len(names) |->
                   IF i = 0 THEN start ELSE MadeRoom(f[i - 1], names[i])]
<1>1. Evictions(f, H, names, Len(names))
  BY EvictionsExist
<1>2. Evicted(H, names) = f[Len(names)]
  BY DEF Evicted, Evictions
<1>3. f = g
  BY <1>1 DEF Evictions
<1> HIDE DEF f
<1>4. g[0] = start /\ \A i \in 1..Len(names) : g[i] = MadeRoom(f[i - 1], names[i])
  OBVIOUS
<1> HIDE DEF g
<1>5. QED
  BY <1>2, <1>3, <1>4

(* Who is evicted leaves no timer behind, and nobody joins.                *)
LEMMA EvictedKeeps ==
  ASSUME NEW H, NEW n \in Nat, Follows(H, n), NEW names, Len(names) \in Nat
  PROVE  /\ Follows(Evicted(H, names), n)
         /\ ToSet(Evicted(H, names).joined) \subseteq ToSet(H.joined)
<1>1. PICK f : /\ f[0] = Detached(H, Oldest(H, Readers, MaxPerProcess))
               /\ \A i \in 1..Len(names) : f[i] = MadeRoom(f[i - 1], names[i])
               /\ Evicted(H, names) = f[Len(names)]
  BY EvictedIs
<1> DEFINE Good == {i \in 0..Len(names) :
                      /\ Follows(f[i], n)
                      /\ ToSet(f[i].joined) \subseteq ToSet(H.joined)}
<1>2. 0 \in Good
  <2>1. Follows(f[0], n) /\ ToSet(f[0].joined) \subseteq ToSet(H.joined)
    <3> DEFINE D == Detached(H, Oldest(H, Readers, MaxPerProcess))
    <3>1. Follows(D, n) /\ ToSet(D.joined) \subseteq ToSet(H.joined)
      BY DetachedKeeps
    <3> HIDE DEF D
    <3>2. f[0] = D
      BY <1>1 DEF D
    <3>3. QED
      BY <3>1, <3>2
  <2>2. 0 \in 0..Len(names)
    OBVIOUS
  <2>3. QED
    BY <2>1, <2>2, Zenon
<1>3. ASSUME NEW i \in 1..Len(names), i - 1 \in Good
      PROVE  i \in Good
  <2>1. Follows(f[i - 1], n) /\ ToSet(f[i - 1].joined) \subseteq ToSet(H.joined)
    BY <1>3
  <2>2. f[i] = Detached(f[i - 1], Oldest(f[i - 1], Listeners(f[i - 1], names[i]),
                                         MaxPerChannel))
    BY <1>1 DEF MadeRoom
  <2>3. /\ Follows(f[i], n)
        /\ ToSet(f[i].joined) \subseteq ToSet(f[i - 1].joined)
    BY <2>1, <2>2, DetachedKeeps
  <2>4. QED
    BY <2>1, <2>3
<1>4. Len(names) \in Good
  <2>1. 0..Len(names) \subseteq Good
    <3> HIDE DEF Good
    <3>1. QED
      BY <1>2, <1>3, UpTo
  <2>2. QED
    BY <2>1
<1>5. QED
  BY <1>1, <1>4

-----------------------------------------------------------------------------
(* A reader joins, and what nobody listened to is started for him.         *)
Joined(H, s, names) ==
  [H EXCEPT !.joined = Append(@, s), !.heartbeat = TRUE,
            !.wants[s] = ToSet(names)]

(* Who joins is in line and listens, and nothing has been started yet.     *)
LEMMA JoinedIs ==
  ASSUME NEW H \in Hubs, NEW s \in Readers, NEW names \in Requests
  PROVE  /\ Joined(H, s, names) \in Hubs
         /\ Joined(H, s, names).joined # <<>>
         /\ Joined(H, s, names).heartbeat = TRUE
         /\ Joined(H, s, names).stopper = H.stopper
         /\ Joined(H, s, names).watchers = H.watchers
         /\ s \notin ToSet(H.joined) =>
              Listeners(Joined(H, s, names), Power) =
                Listeners(H, Power) \cup
                  (IF Power \in ToSet(names) THEN {s} ELSE {})
<1> DEFINE line == Append(H.joined, s)
           asked == [H.wants EXCEPT ![s] = ToSet(names)]
           J == Joined(H, s, names)
<1>1. /\ H.joined \in Seq(Readers) /\ H.wants \in [Readers -> SUBSET Names]
      /\ H.heartbeat \in BOOLEAN /\ H.stopper \in BOOLEAN /\ H.watchers \in Nat
  BY DEF Hubs
<1>2. ToSet(names) \in SUBSET Names
  BY DEF Names
<1>3. /\ line \in Seq(Readers)
      /\ Members(line) = Members(H.joined) \cup {s}
  BY <1>1, AppendMembers
<1>4. /\ ToSet(line) = ToSet(H.joined) \cup {s} /\ line # <<>>
      /\ ToSet(H.joined) \subseteq Readers
  <2> HIDE DEF line
  <2>1. ToSet(line) = Members(line) /\ (line = <<>> <=> ToSet(line) = {})
    BY <1>3, NoMembers
  <2>2. ToSet(H.joined) = Members(H.joined) /\ ToSet(H.joined) \subseteq Readers
    BY <1>1, NoMembers
  <2>3. QED
    BY <1>3, <2>1, <2>2
<1>5. /\ asked \in [Readers -> SUBSET Names] /\ asked[s] = ToSet(names)
      /\ \A r \in Readers \ {s} : asked[r] = H.wants[r]
  BY <1>1, <1>2
<1>6. J = [H EXCEPT !.joined = line, !.wants = asked, !.heartbeat = TRUE]
  BY DEF Joined, Hubs
<1> HIDE DEF line, asked, J
<1>7. J = [joined |-> line, wants |-> asked, heartbeat |-> TRUE,
           stopper |-> H.stopper, watchers |-> H.watchers]
  BY <1>6, HubChanges
<1>8. J \in Hubs
  BY <1>1, <1>3, <1>5, <1>7 DEF Hubs
<1>9. J.joined = line /\ J.wants = asked
  BY <1>7
<1>10. ASSUME s \notin ToSet(H.joined)
       PROVE  Listeners(J, Power) =
                Listeners(H, Power) \cup
                  (IF Power \in ToSet(names) THEN {s} ELSE {})
  BY <1>4, <1>5, <1>9, <1>10 DEF Listeners
<1>11. /\ J.joined # <<>> /\ J.heartbeat = TRUE
       /\ J.stopper = H.stopper /\ J.watchers = H.watchers
  BY <1>4, <1>7
<1>12. QED
  BY <1>8, <1>10, <1>11 DEF J

(* onActive(true), when the first frame can be written.                    *)
LEMMA StartedIs ==
  ASSUME NEW H \in Hubs, NEW s
  PROVE  /\ Activated(H, s, FALSE) \in Hubs
         /\ Activated(H, s, FALSE).joined = H.joined
         /\ Activated(H, s, FALSE).wants = H.wants
         /\ Activated(H, s, FALSE).heartbeat = H.heartbeat
         /\ Activated(H, s, FALSE).stopper = TRUE
         /\ Activated(H, s, FALSE).watchers = H.watchers + 1
<1> DEFINE G == Activated(H, s, FALSE)
<1>1. G = [[H EXCEPT !.watchers = @ + 1] EXCEPT !.stopper = TRUE]
  BY DEF Activated
<1> HIDE DEF G
<1>2. H.watchers + 1 \in Nat
  BY DEF Hubs
<1>3. G = [joined |-> H.joined, wants |-> H.wants, heartbeat |-> H.heartbeat,
           stopper |-> TRUE, watchers |-> H.watchers + 1]
  BY <1>1 DEF Hubs
<1>4. G \in Hubs
  BY <1>2, <1>3 DEF Hubs
<1>5. /\ G.joined = H.joined /\ G.wants = H.wants
      /\ G.heartbeat = H.heartbeat /\ G.stopper = TRUE
      /\ G.watchers = H.watchers + 1
  BY <1>3
<1>6. QED
  BY <1>4, <1>5 DEF G

(* Joining and starting together keep the timers right.                    *)
LEMMA JoinKeeps ==
  ASSUME NEW H, NEW n \in Nat, Follows(H, n), NEW s \in Readers,
         s \notin ToSet(H.joined), NEW names \in Requests
  PROVE  Follows(IF Power \in ToSet(names) /\ Listeners(H, Power) = {}
                 THEN Activated(Joined(H, s, names), s, FALSE)
                 ELSE Joined(H, s, names), n)
<1> DEFINE J == Joined(H, s, names)
           A == Activated(J, s, FALSE)
<1>1. /\ H \in Hubs
      /\ H.stopper <=> Listeners(H, Power) # {}
      /\ H.watchers = n + (IF H.stopper THEN 1 ELSE 0)
  BY DEF Follows
<1>2. /\ J \in Hubs /\ J.joined # <<>> /\ J.heartbeat = TRUE
      /\ J.stopper = H.stopper /\ J.watchers = H.watchers
      /\ Listeners(J, Power) =
           Listeners(H, Power) \cup (IF Power \in ToSet(names) THEN {s} ELSE {})
  BY <1>1, JoinedIs
<1> HIDE DEF J
<1>3. CASE Power \in ToSet(names) /\ Listeners(H, Power) = {}
  <2>1. /\ A \in Hubs /\ A.joined = J.joined /\ A.wants = J.wants
        /\ A.heartbeat = J.heartbeat /\ A.stopper = TRUE
        /\ A.watchers = J.watchers + 1
    BY <1>2, StartedIs
  <2> HIDE DEF A
  <2>2. Listeners(A, Power) = {s}
    BY <1>2, <1>3, <2>1 DEF Listeners
  <2>3. A.watchers = n + 1
    BY <1>1, <1>2, <1>3, <2>1
  <2>4. Follows(A, n)
    BY <1>2, <2>1, <2>2, <2>3 DEF Follows
  <2>5. QED
    BY <1>3, <2>4 DEF A, J
<1>4. CASE ~(Power \in ToSet(names) /\ Listeners(H, Power) = {})
  <2>1. Listeners(J, Power) # {} <=> Listeners(H, Power) # {}
    BY <1>2, <1>4
  <2>2. Follows(J, n)
    BY <1>1, <1>2, <2>1 DEF Follows
  <2>3. QED
    BY <1>4, <2>2 DEF J
<1>5. QED
  BY <1>3, <1>4

-----------------------------------------------------------------------------
(* What a call leaves is the hub.                                          *)
LEMMA BecomesKeeps ==
  ASSUME NEW H, NEW n, Follows(H, n), HubBecomes(H)
  PROVE  Follows(Hub', n)
<1>1. H = [joined |-> H.joined, wants |-> H.wants, heartbeat |-> H.heartbeat,
           stopper |-> H.stopper, watchers |-> H.watchers]
  BY DEF Follows, Hubs
<1>2. /\ joined' = H.joined /\ wants' = H.wants /\ heartbeat' = H.heartbeat
      /\ stopper' = H.stopper /\ watchers' = H.watchers
  BY DEF HubBecomes
<1>3. Hub' = H
  BY <1>1, <1>2 DEF Hub
<1>4. QED
  BY <1>3

(* The start: no readers, no timers.                                       *)
LEMMA HubBegins == HubInit => HubInv
<1>1. SUFFICES ASSUME HubInit PROVE HubInv
  OBVIOUS
<1>2. IsFiniteSet(panels) /\ Cardinality(panels) = 0
  BY <1>1, FS_EmptySet DEF HubInit
<1>3. Hub = [joined |-> <<>>, wants |-> [s \in Readers |-> {}],
             heartbeat |-> FALSE, stopper |-> FALSE, watchers |-> 0]
  BY <1>1 DEF HubInit, Hub
<1>4. <<>> \in Seq(Readers) /\ ToSet(<<>>) = {}
  BY DEF ToSet
<1>5. Hub \in Hubs
  BY <1>3, <1>4 DEF Hubs
<1>6. Listeners(Hub, Power) = {}
  BY <1>3, <1>4 DEF Listeners
<1>7. Follows(Hub, 0)
  <2>1. /\ Hub.joined = <<>> /\ Hub.heartbeat = FALSE /\ Hub.stopper = FALSE
        /\ Hub.watchers = 0
    BY <1>3
  <2>2. QED
    BY <1>5, <1>6, <2>1 DEF Follows
<1>8. QED
  BY <1>2, <1>7 DEF HubInv

(* A whole subscription, with its evictions and with the reader it may     *)
(* lose at its end.                                                        *)
LEMMA SubscriptionKeeps ==
  ASSUME ~OpeningFails, HubInv, NEW s \in Readers, NEW names \in Requests,
         Subscribes(s, names)
  PROVE  HubInv'
<1> DEFINE n  == Cardinality(panels)
           H  == Evicted(Hub, names)
           on == IF Power \in ToSet(names) /\ Listeners(H, Power) = {}
                 THEN Activated(Joined(H, s, names), s, FALSE)
                 ELSE Joined(H, s, names)
<1>1. n \in Nat /\ Follows(Hub, n) /\ IsFiniteSet(panels)
  BY FS_CardinalityType DEF HubInv
<1>2. Len(names) \in Nat
  BY HubAssumption
<1>3. Follows(H, n) /\ ToSet(H.joined) \subseteq ToSet(Hub.joined)
  BY <1>1, <1>2, EvictedKeeps
<1>4. s \notin ToSet(H.joined)
  BY <1>3 DEF Subscribes, Hub
<1>5. Follows(on, n)
  <2> HIDE DEF H, n
  <2>1. QED
    BY <1>1, <1>3, <1>4, JoinKeeps
<1>6. /\ HubBecomes(on) \/ HubBecomes(Detached(on, {s}))
      /\ panels' = panels
  BY HubAssumption DEF Subscribes, Joined
<1>7. Follows(Detached(on, {s}), n)
  <2> HIDE DEF on, n
  <2>1. QED
    BY <1>1, <1>5, DetachedKeeps
<1>8. Follows(Hub', n)
  <2> HIDE DEF on, n
  <2>1. QED
    BY <1>5, <1>6, <1>7, BecomesKeeps
<1>9. QED
  BY <1>1, <1>6, <1>8 DEF HubInv

(* Readers are dropped.                                                    *)
LEMMA DetachKeeps ==
  ASSUME HubInv, NEW S, HubBecomes(Detached(Hub, S)), UNCHANGED panels
  PROVE  HubInv'
<1> DEFINE n == Cardinality(panels)
<1>1. n \in Nat /\ Follows(Hub, n) /\ IsFiniteSet(panels)
  BY FS_CardinalityType DEF HubInv
<1>2. Follows(Detached(Hub, S), n)
  BY <1>1, DetachedKeeps
<1>3. Follows(Hub', n)
  BY <1>2, BecomesKeeps
<1>4. QED
  BY <1>1, <1>3 DEF HubInv

(* When all of them are, the heartbeat has stopped before it is stopped.   *)
LEMMA CloseKeeps ==
  ASSUME HubInv, CloseAll
  PROVE  HubInv'
<1> DEFINE n == Cardinality(panels)
           D == Detached(Hub, ToSet(joined))
           C == [D EXCEPT !.heartbeat = FALSE]
<1>1. n \in Nat /\ Follows(Hub, n)
  BY FS_CardinalityType DEF HubInv
<1>2. Follows(D, n) /\ ToSet(D.joined) = ToSet(Hub.joined) \ ToSet(joined)
  BY <1>1, DetachedKeeps
<1>3. HubBecomes(C) /\ UNCHANGED panels
  BY DEF CloseAll
<1> HIDE DEF D
<1>4. ToSet(D.joined) = {}
  BY <1>2 DEF Hub
<1>5. D \in Hubs /\ D.joined \in Seq(Readers) /\ (D.heartbeat <=> D.joined # <<>>)
  BY <1>2 DEF Follows, Hubs
<1>6. ~D.heartbeat
  BY <1>4, <1>5, NoMembers
<1>7. C = D
  BY <1>5, <1>6 DEF Hubs
<1>8. HubBecomes(Detached(Hub, ToSet(joined)))
  BY <1>3, <1>7 DEF D
<1>9. QED
  BY <1>3, <1>8, DetachKeeps

(* A panel of the power page comes and goes with a watcher of its own.     *)
LEMMA PanelKeeps ==
  ASSUME HubInv, NEW p, PanelOpens(p) \/ PanelCloses(p)
  PROVE  HubInv'
<1> DEFINE n == Cardinality(panels)
           m == Cardinality(panels')
<1>1. n \in Nat /\ Follows(Hub, n) /\ IsFiniteSet(panels)
  BY FS_CardinalityType DEF HubInv
<1>2. /\ IsFiniteSet(panels') /\ m \in Nat
      /\ \/ m = n + 1 /\ watchers' = watchers + 1
         \/ m = n - 1 /\ watchers' = watchers - 1
      /\ UNCHANGED <<joined, wants, heartbeat, stopper>>
  <2>1. CASE PanelOpens(p)
    <3>1. panels' = panels \cup {p} /\ p \notin panels
      BY <2>1 DEF PanelOpens
    <3>2. IsFiniteSet(panels') /\ m = n + 1
      BY <1>1, <3>1, FS_AddElement
    <3> HIDE DEF n, m
    <3>3. QED
      BY <1>1, <2>1, <3>2 DEF PanelOpens
  <2>2. CASE PanelCloses(p)
    <3>1. panels' = panels \ {p} /\ p \in panels
      BY <2>2 DEF PanelCloses
    <3>2. IsFiniteSet(panels') /\ m = n - 1
      BY <1>1, <3>1, FS_RemoveElement
    <3>3. m \in Nat
      BY <3>2, FS_CardinalityType
    <3> HIDE DEF n, m
    <3>4. QED
      BY <2>2, <3>2, <3>3 DEF PanelCloses
  <2>3. QED
    BY <2>1, <2>2
<1> HIDE DEF n, m
<1>3. /\ joined \in Seq(Readers) /\ wants \in [Readers -> SUBSET Names]
      /\ heartbeat \in BOOLEAN /\ stopper \in BOOLEAN /\ watchers \in Nat
      /\ heartbeat <=> joined # <<>>
      /\ stopper <=> Listeners(Hub, Power) # {}
      /\ watchers = n + (IF stopper THEN 1 ELSE 0)
  BY <1>1 DEF Follows, Hubs, Hub
<1>4. Listeners(Hub, Power)' = Listeners(Hub, Power)
  BY <1>2 DEF Listeners, Hub
<1>5. watchers' = m + (IF stopper THEN 1 ELSE 0) /\ watchers' \in Nat
  BY <1>1, <1>2, <1>3
<1>6. Hub' = [joined |-> joined, wants |-> wants, heartbeat |-> heartbeat,
              stopper |-> stopper, watchers |-> watchers']
  BY <1>2 DEF Hub
<1>7. Follows(Hub', m)
  BY <1>3, <1>4, <1>5, <1>6 DEF Follows, Hubs
<1>8. QED
  BY <1>2, <1>7 DEF HubInv, m

(* Every call keeps the timers right.                                      *)
LEMMA HubStepKeeps ==
  ASSUME ~OpeningFails, HubInv, [HubNext]_hubVars
  PROVE  HubInv'
<1>1. CASE \E s \in Readers : Leaves(s)
  BY <1>1, DetachKeeps DEF Leaves
<1>2. CASE \E s \in Readers, names \in Requests : Subscribes(s, names)
  BY <1>2, SubscriptionKeeps
<1>3. CASE \E name \in Names : Publishes(name)
  BY <1>3, DetachKeeps DEF Publishes
<1>4. CASE Beats
  BY <1>4, DetachKeeps DEF Beats
<1>5. CASE CloseAll
  BY <1>5, CloseKeeps
<1>6. CASE \E p \in Panels : PanelOpens(p) \/ PanelCloses(p)
  BY <1>6, PanelKeeps
<1>7. CASE UNCHANGED hubVars
  BY <1>7 DEF hubVars, HubInv, Hub, Follows, Listeners
<1>8. QED
  BY <1>1, <1>2, <1>3, <1>4, <1>5, <1>6, <1>7 DEF HubNext, Names

(* The heartbeat and the measurement run exactly while somebody reads      *)
(* (server/sse.ts, subscribe() and detach()), for any readers, requests    *)
(* and limits, when the first frame of a connection can be written.        *)
THEOREM CostsFollow == ~OpeningFails => (HubSpec => []CostsFollowReaders)
<1> SUFFICES ASSUME ~OpeningFails PROVE HubSpec => []CostsFollowReaders
  OBVIOUS
<1>1. HubInv => CostsFollowReaders
  <2>1. SUFFICES ASSUME HubInv PROVE CostsFollowReaders
    OBVIOUS
  <2>2. /\ heartbeat \in BOOLEAN /\ stopper \in BOOLEAN
        /\ heartbeat <=> joined # <<>>
        /\ stopper <=> Listeners(Hub, Power) # {}
        /\ watchers = Cardinality(panels) + (IF stopper THEN 1 ELSE 0)
    BY <2>1 DEF HubInv, Follows, Hubs, Hub
  <2>3. QED
    BY <2>2 DEF CostsFollowReaders
<1>2. HubInit => HubInv
  BY HubBegins
<1>3. HubInv /\ [HubNext]_hubVars => HubInv'
  BY HubStepKeeps
<1>4. QED
  BY <1>1, <1>2, <1>3, PTL DEF HubSpec

-----------------------------------------------------------------------------
USE DEF Versions, Saves

(* What a write of version v leaves in an empty file, with lengths l.      *)
Copy(l, v) == [i \in 1..l[v] |-> v]

(* Each save writes the file of its own number, which is not the list on   *)
(* disk while the save goes on, and holds the whole copy before the rename.*)
InHand(n) ==
  /\ copyName[n] \in {0, n}
  /\ saves[n].step # "done" => onDisk # n
  /\ saves[n].step \in {"writing", "renaming"} => saves[n].node = n
  /\ saves[n].step = "writing" => node[n] = <<>>
  /\ saves[n].step = "renaming" => node[n] = Copy(length, saves[n].version)
OwnFile == \A n \in Saves : InHand(n)

(* What is on disk is the copy of the save that was renamed.               *)
DiskIsACopy == onDisk # 0 => node[onDisk] = Copy(length, saves[onDisk].version)

(* A save was asked for by each change so far, and takes no later list.    *)
SavesOfChanges ==
  \A n \in Saves : /\ saves[n].step = "none" <=> n > version
                   /\ saves[n].version <= version

CopiesInv == FileTypeOK /\ OwnFile /\ DiskIsACopy /\ SavesOfChanges

(* In the chain a save that is under way has only finished ones before it, *)
(* and its list is not older than the one on disk.                         *)
OneAtATime ==
  \A n \in Saves :
    Under(n) => /\ \A m \in 1..(n - 1) : saves[m].step = "done"
                /\ onDisk # 0 => saves[onDisk].version <= saves[n].version

-----------------------------------------------------------------------------
(* The numbers the bounds are made of.                                     *)
LEMMA Numbers == MaxChanges \in Nat /\ MaxDeaths \in Nat /\ 0 \in Versions
BY StateFileAssumption

(* A copy is a list of some blocks, all of one version.                    *)
LEMMA CopyBlocks ==
  ASSUME FileTypeOK, NEW v \in Versions
  PROVE  /\ length[v] \in Nat \ {0}
         /\ Copy(length, v) \in Seq(Versions)
         /\ DOMAIN Copy(length, v) = 1..length[v]
         /\ 1 \in DOMAIN Copy(length, v) /\ Copy(length, v)[1] = v
         /\ Whole(Copy(length, v), v)
<1>1. length[v] \in Nat \ {0}
  BY StateFileAssumption DEF FileTypeOK
<1>2. Copy(length, v) \in [1..length[v] -> Versions]
  BY DEF Copy
<1>3. QED
  <2> HIDE DEF Versions
  <2>1. Copy(length, v) \in Seq(Versions)
    BY <1>1, <1>2
  <2>2. 1 \in 1..length[v]
    BY <1>1
  <2>3. /\ DOMAIN Copy(length, v) = 1..length[v]
        /\ Copy(length, v)[1] = v /\ Whole(Copy(length, v), v)
    BY <2>2 DEF Copy, Whole
  <2>4. QED
    BY <1>1, <2>1, <2>2, <2>3

(* A write into an empty file leaves a copy.                               *)
LEMMA WrittenCopy ==
  ASSUME FileTypeOK, NEW v \in Versions
  PROVE  Written(<<>>, v) = Copy(length, v)
<1>1. length[v] \in Nat \ {0} /\ Len(<<>>) = 0
  BY CopyBlocks
<1>2. QED
  BY <1>1 DEF Written, Copy

(* A start reads the version of the copy it finds.                         *)
LEMMA ReadsTheCopy ==
  CopiesInv /\ onDisk # 0 => Read = saves[onDisk].version
<1> DEFINE v == saves[onDisk].version
<1> SUFFICES ASSUME CopiesInv, onDisk # 0 PROVE Read = v
  OBVIOUS
<1>0. FileTypeOK /\ v \in Versions /\ node[onDisk] = Copy(length, v)
  BY DEF CopiesInv, FileTypeOK, DiskIsACopy
<1> HIDE DEF v
<1>1. Whole(node[onDisk], v)
  BY <1>0, CopyBlocks
<1>2. ASSUME NEW w \in Versions, Whole(node[onDisk], w) PROVE w = v
  <2>1. Copy(length, v) = Copy(length, w)
    BY <1>0, <1>2 DEF Whole, Copy
  <2>2. QED
    BY <1>0, <1>2, <2>1, CopyBlocks
<1>3. QED
  BY <1>0, <1>1, <1>2 DEF Read

-----------------------------------------------------------------------------
(* The start.                                                              *)
LEMMA FileBegins == FileInit => CopiesInv /\ OneAtATime
<1>1. SUFFICES ASSUME FileInit PROVE CopiesInv /\ OneAtATime
  OBVIOUS
<1>2. FileTypeOK
  <2>1. <<>> \in Seq(Versions)
    OBVIOUS
  <2>2. QED
    BY <1>1, <2>1, Numbers DEF FileInit, FileTypeOK, Steps
<1>3. QED
  BY <1>1, <1>2, Numbers
  DEF FileInit, CopiesInv, OwnFile, InHand, DiskIsACopy, SavesOfChanges,
      OneAtATime, Under

(* With a name of its own for each copy, a name is the number of the save. *)
LEMMA OwnNames ==
  ASSUME OwnCopy, NEW n \in Saves
  PROVE  Name(n) = n
BY DEF Name

(* A file that gets other blocks is still a file, and the others keep      *)
(* theirs.                                                                 *)
LEMMA OneFileChanges ==
  ASSUME node \in [Saves -> Seq(Versions)], NEW f \in Saves,
         NEW b \in Seq(Versions)
  PROVE  /\ [node EXCEPT ![f] = b] \in [Saves -> Seq(Versions)]
         /\ [node EXCEPT ![f] = b][f] = b
         /\ \A g \in Saves : g # f => [node EXCEPT ![f] = b][g] = node[g]
<1> HIDE DEF Saves, Versions
<1>1. QED
  OBVIOUS

(* A change: its save is due, and nothing else is touched.                 *)
LEMMA ChangeKeepsCopies ==
  ASSUME CopiesInv, Change
  PROVE  CopiesInv'
<1>1. /\ version' \in Saves /\ version' \in Versions /\ version' = version + 1
      /\ saves' = [saves EXCEPT ![version'] =
                     [step |-> "due", version |-> version', node |-> 0]]
      /\ UNCHANGED <<length, node, copyName, onDisk, deaths>>
  <2>1. version \in 0..MaxChanges
    BY DEF CopiesInv, FileTypeOK
  <2>2. QED
    BY <2>1, Numbers DEF Change
<1>2. onDisk # version'
  BY <1>1 DEF CopiesInv, FileTypeOK, OwnFile, InHand, SavesOfChanges
<1>3. FileTypeOK'
  BY <1>1, Numbers DEF CopiesInv, FileTypeOK, Steps
<1>4. \A n \in Saves : n # version' => saves'[n] = saves[n]
  BY <1>1 DEF CopiesInv, FileTypeOK
<1>5. saves'[version'] = [step |-> "due", version |-> version', node |-> 0]
  BY <1>1 DEF CopiesInv, FileTypeOK
<1>6. OwnFile'
  BY <1>1, <1>2, <1>4, <1>5 DEF CopiesInv, OwnFile, InHand
<1>7. DiskIsACopy'
  BY <1>1, <1>2, <1>4 DEF CopiesInv, FileTypeOK, DiskIsACopy
<1>8. SavesOfChanges'
  BY <1>1, <1>4, <1>5 DEF CopiesInv, FileTypeOK, SavesOfChanges
<1>9. QED
  BY <1>3, <1>6, <1>7, <1>8 DEF CopiesInv

(* A step of one save that writes no file and leaves the list on disk:     *)
(* it begins, ends, or is refused.                                         *)
LEMMA StepKeepsCopies ==
  ASSUME CopiesInv, NEW n \in Saves, NEW s \in Steps \ {"none"},
         NEW v \in Versions, v <= version,
         saves[n].step # "none", saves[n].step = "done" => s = "done",
         s \notin {"writing", "renaming"},
         v # saves[n].version => saves[n].step # "done",
         saves' = [saves EXCEPT ![n].step = s, ![n].version = v],
         copyName' \in [Saves -> 0..MaxChanges],
         \A m \in Saves : copyName'[m] \in {0, m},
         UNCHANGED <<version, length, node, onDisk, deaths>>
  PROVE  CopiesInv'
<1>1. /\ \A m \in Saves : m # n => saves'[m] = saves[m]
      /\ saves'[n].step = s /\ saves'[n].version = v
      /\ saves'[n].node = saves[n].node
  BY DEF CopiesInv, FileTypeOK
<1>2. FileTypeOK'
  <2>1. saves' \in [Saves -> [step : Steps, version : Versions,
                              node : 0..MaxChanges]]
    BY DEF CopiesInv, FileTypeOK
  <2>2. QED
    BY <2>1 DEF CopiesInv, FileTypeOK
<1>3. OwnFile'
  <2>1. ASSUME NEW m \in Saves, m # n PROVE InHand(m)'
    BY <1>1, <2>1 DEF CopiesInv, OwnFile, InHand
  <2>2. InHand(n)'
    BY <1>1 DEF CopiesInv, OwnFile, InHand
  <2>3. QED
    BY <2>1, <2>2 DEF OwnFile
<1>4. DiskIsACopy'
  <2>1. CASE onDisk = n
    BY <1>1, <2>1 DEF CopiesInv, DiskIsACopy, OwnFile, InHand
  <2>2. CASE onDisk # n
    BY <1>1, <2>2 DEF CopiesInv, FileTypeOK, DiskIsACopy
  <2>3. QED
    BY <2>1, <2>2
<1>5. SavesOfChanges'
  BY <1>1 DEF CopiesInv, FileTypeOK, SavesOfChanges
<1>6. QED
  BY <1>2, <1>3, <1>4, <1>5 DEF CopiesInv

(* writeFile() makes the copy, or empties the one it left before: never    *)
(* the list on disk.                                                       *)
LEMMA OpensKeepsCopies ==
  ASSUME CopiesInv, OwnCopy, NEW n \in Saves, Opens(n)
  PROVE  CopiesInv'
<1>1. /\ saves[n].step = "opening"
      /\ node' = [node EXCEPT ![n] = <<>>]
      /\ copyName' = [copyName EXCEPT ![n] = n]
      /\ saves' = [saves EXCEPT ![n].step = "writing", ![n].node = n]
      /\ UNCHANGED <<version, length, onDisk, deaths>>
  BY OwnNames DEF Opens, CopiesInv, OwnFile, InHand
<1>2. /\ \A m \in Saves : m # n => saves'[m] = saves[m] /\ node'[m] = node[m]
                                   /\ copyName'[m] = copyName[m]
      /\ saves'[n].step = "writing" /\ saves'[n].node = n
      /\ saves'[n].version = saves[n].version /\ copyName'[n] = n
      /\ node'[n] = <<>> /\ node' \in [Saves -> Seq(Versions)]
  <2>1. node \in [Saves -> Seq(Versions)] /\ <<>> \in Seq(Versions)
    BY DEF CopiesInv, FileTypeOK
  <2>2. QED
    BY <1>1, <2>1, OneFileChanges DEF CopiesInv, FileTypeOK
<1>3. FileTypeOK'
  <2>1. saves' \in [Saves -> [step : Steps, version : Versions,
                              node : 0..MaxChanges]]
    <3>1. n \in 0..MaxChanges /\ "writing" \in Steps
      BY Numbers DEF Steps
    <3>2. saves \in [Saves -> [step : Steps, version : Versions,
                               node : 0..MaxChanges]]
      BY DEF CopiesInv, FileTypeOK
    <3> HIDE DEF Saves, Versions
    <3>3. [saves[n] EXCEPT !.step = "writing", !.node = n] \in
            [step : Steps, version : Versions, node : 0..MaxChanges]
      BY <3>1, <3>2
    <3>4. QED
      BY <1>1, <3>2, <3>3
  <2>2. copyName' \in [Saves -> 0..MaxChanges]
    <3>1. copyName \in [Saves -> 0..MaxChanges] /\ n \in 0..MaxChanges
      BY Numbers DEF CopiesInv, FileTypeOK
    <3>2. QED
      BY <1>1, <3>1
  <2>3. /\ version \in Versions /\ deaths \in 0..MaxDeaths
        /\ onDisk \in 0..MaxChanges /\ length \in [Versions -> Lengths]
    BY DEF CopiesInv, FileTypeOK
  <2> HIDE DEF Saves, Versions
  <2>4. QED
    BY <1>1, <1>2, <2>1, <2>2, <2>3 DEF FileTypeOK
<1>4. OwnFile'
  <2>1. ASSUME NEW m \in Saves, m # n PROVE InHand(m)'
    <3>1. InHand(m)
      BY DEF CopiesInv, OwnFile
    <3>2. /\ saves'[m] = saves[m] /\ node'[m] = node[m]
          /\ copyName'[m] = copyName[m] /\ onDisk' = onDisk /\ length' = length
      BY <1>1, <1>2, <2>1
    <3>3. QED
      BY <3>1, <3>2 DEF InHand
  <2>2. InHand(n)'
    BY <1>1, <1>2 DEF CopiesInv, OwnFile, InHand
  <2>3. QED
    BY <2>1, <2>2 DEF OwnFile
<1>5. DiskIsACopy'
  <2>1. onDisk # n
    BY <1>1 DEF CopiesInv, OwnFile, InHand
  <2>2. QED
    BY <1>1, <1>2, <2>1 DEF CopiesInv, FileTypeOK, DiskIsACopy
<1>6. SavesOfChanges'
  BY <1>1, <1>2 DEF CopiesInv, FileTypeOK, SavesOfChanges
<1>7. QED
  BY <1>3, <1>4, <1>5, <1>6 DEF CopiesInv

(* The copy gets the blocks of the whole list.                             *)
LEMMA WritesKeepsCopies ==
  ASSUME CopiesInv, NEW n \in Saves, Writes(n)
  PROVE  CopiesInv'
<1> DEFINE b == Copy(length, saves[n].version)
<1>1. /\ saves[n].step = "writing"
      /\ node' = [node EXCEPT ![n] = b]
      /\ saves' = [saves EXCEPT ![n].step = "renaming"]
      /\ UNCHANGED <<version, length, copyName, onDisk, deaths>>
  <2>1. saves[n].node = n /\ node[n] = <<>> /\ saves[n].version \in Versions
    BY DEF Writes, CopiesInv, OwnFile, InHand, FileTypeOK
  <2>2. Written(node[n], saves[n].version) = b
    BY <2>1, WrittenCopy DEF CopiesInv
  <2>3. QED
    BY <2>1, <2>2 DEF Writes, CopiesInv, FileTypeOK
<1>2. /\ \A m \in Saves : m # n => saves'[m] = saves[m] /\ node'[m] = node[m]
      /\ saves'[n].step = "renaming" /\ saves'[n].node = saves[n].node
      /\ saves'[n].version = saves[n].version
      /\ node'[n] = b /\ node' \in [Saves -> Seq(Versions)]
  <2>1. node \in [Saves -> Seq(Versions)] /\ b \in Seq(Versions)
    BY CopyBlocks DEF CopiesInv, FileTypeOK
  <2>2. QED
    BY <1>1, <2>1, OneFileChanges DEF CopiesInv, FileTypeOK
<1>3. FileTypeOK'
  <2>1. saves' \in [Saves -> [step : Steps, version : Versions,
                              node : 0..MaxChanges]]
    BY <1>1, Numbers DEF CopiesInv, FileTypeOK, Steps
  <2>2. QED
    BY <1>1, <1>2, <2>1 DEF CopiesInv, FileTypeOK
<1>4. OwnFile'
  <2>1. ASSUME NEW m \in Saves, m # n PROVE InHand(m)'
    BY <1>1, <1>2, <2>1 DEF CopiesInv, OwnFile, InHand
  <2>2. InHand(n)'
    BY <1>1, <1>2 DEF CopiesInv, OwnFile, InHand
  <2>3. QED
    BY <2>1, <2>2 DEF OwnFile
<1>5. DiskIsACopy'
  <2>1. onDisk # n
    BY <1>1 DEF CopiesInv, OwnFile, InHand
  <2>2. QED
    BY <1>1, <1>2, <2>1 DEF CopiesInv, FileTypeOK, DiskIsACopy
<1>6. SavesOfChanges'
  BY <1>1, <1>2 DEF CopiesInv, FileTypeOK, SavesOfChanges
<1>7. QED
  BY <1>3, <1>4, <1>5, <1>6 DEF CopiesInv

(* The rename: the copy is whole, and becomes the list on disk.            *)
LEMMA RenamesKeepsCopies ==
  ASSUME CopiesInv, OwnCopy, NEW n \in Saves, Renames(n)
  PROVE  CopiesInv'
<1>1. /\ saves[n].step = "renaming"
      /\ onDisk' = IF copyName[n] = 0 THEN onDisk ELSE n
      /\ copyName' = [copyName EXCEPT ![n] = 0]
      /\ saves' = [saves EXCEPT ![n].step = "done"]
      /\ UNCHANGED <<version, length, node, deaths>>
  BY OwnNames DEF Renames, CopiesInv, OwnFile, InHand
<1>2. /\ \A m \in Saves : m # n => saves'[m] = saves[m]
                                   /\ copyName'[m] = copyName[m]
      /\ saves'[n].step = "done" /\ saves'[n].node = saves[n].node
      /\ saves'[n].version = saves[n].version /\ copyName'[n] = 0
  BY <1>1 DEF CopiesInv, FileTypeOK
<1>3. FileTypeOK'
  <2>1. saves' \in [Saves -> [step : Steps, version : Versions,
                              node : 0..MaxChanges]]
    BY <1>1, Numbers DEF CopiesInv, FileTypeOK, Steps
  <2>2. /\ copyName' \in [Saves -> 0..MaxChanges]
        /\ onDisk' \in 0..MaxChanges
    <3>1. /\ copyName \in [Saves -> 0..MaxChanges] /\ 0 \in 0..MaxChanges
          /\ onDisk \in 0..MaxChanges /\ n \in 0..MaxChanges
      BY Numbers DEF CopiesInv, FileTypeOK
    <3>2. QED
      BY <1>1, <3>1
  <2>3. QED
    BY <1>1, <2>1, <2>2 DEF CopiesInv, FileTypeOK
<1>4. OwnFile'
  <2>1. ASSUME NEW m \in Saves, m # n PROVE InHand(m)'
    BY <1>1, <1>2, <2>1 DEF CopiesInv, OwnFile, InHand
  <2>2. InHand(n)'
    BY <1>1, <1>2 DEF CopiesInv, OwnFile, InHand
  <2>3. QED
    BY <2>1, <2>2 DEF OwnFile
<1>5. DiskIsACopy'
  <2>1. CASE onDisk' = n
    BY <1>1, <1>2, <2>1 DEF CopiesInv, OwnFile, InHand, DiskIsACopy
  <2>2. CASE onDisk' # n
    <3>1. onDisk' = onDisk
      BY <1>1, <2>2
    <3>2. QED
      BY <1>1, <1>2, <2>2, <3>1 DEF CopiesInv, FileTypeOK, DiskIsACopy
  <2>3. QED
    BY <2>1, <2>2
<1>6. SavesOfChanges'
  BY <1>1, <1>2 DEF CopiesInv, FileTypeOK, SavesOfChanges
<1>7. QED
  BY <1>3, <1>4, <1>5, <1>6 DEF CopiesInv

(* A save that begins, and one the disk refuses.                           *)
LEMMA BeginsKeepsCopies ==
  ASSUME CopiesInv, NEW n \in Saves, SaveBegins(n)
  PROVE  CopiesInv'
<1> DEFINE v == IF Chained THEN version ELSE saves[n].version
<1>1. /\ saves[n].step = "due"
      /\ saves' = [saves EXCEPT ![n].step = "opening", ![n].version = v]
      /\ UNCHANGED <<version, length, node, copyName, onDisk, deaths>>
  BY DEF SaveBegins, CopiesInv, FileTypeOK
<1>2. v \in Versions /\ v <= version
  BY DEF CopiesInv, FileTypeOK, SavesOfChanges
<1>3. /\ copyName' \in [Saves -> 0..MaxChanges]
      /\ \A m \in Saves : copyName'[m] \in {0, m}
  BY <1>1 DEF CopiesInv, FileTypeOK, OwnFile, InHand
<1>4. "opening" \in Steps \ {"none"}
  BY DEF Steps
<1> HIDE DEF v
<1>5. QED
  BY <1>1, <1>2, <1>3, <1>4, StepKeepsCopies

LEMMA FailsKeepsCopies ==
  ASSUME CopiesInv, OwnCopy, NEW n \in Saves, SaveRefused(n)
  PROVE  CopiesInv'
<1> DEFINE v == saves[n].version
<1>1. /\ saves[n].step \in {"opening", "writing", "renaming"}
      /\ saves' = [saves EXCEPT ![n].step = "done", ![n].version = v]
      /\ copyName' = [copyName EXCEPT ![n] = 0]
      /\ UNCHANGED <<version, length, node, onDisk, deaths>>
  BY DEF SaveRefused, Under, CopiesInv, FileTypeOK
<1>2. v \in Versions /\ v <= version
  BY DEF CopiesInv, FileTypeOK, SavesOfChanges
<1>3. /\ copyName' \in [Saves -> 0..MaxChanges]
      /\ \A m \in Saves : copyName'[m] \in {0, m}
  <2>1. copyName \in [Saves -> 0..MaxChanges] /\ 0 \in 0..MaxChanges
    BY Numbers DEF CopiesInv, FileTypeOK
  <2>2. QED
    BY <1>1, <2>1 DEF CopiesInv, OwnFile, InHand
<1>4. "done" \in Steps \ {"none"}
  BY DEF Steps
<1>5. QED
  BY <1>1, <1>2, <1>3, <1>4, StepKeepsCopies

(* The process dies: its saves are over, the files stay.                   *)
LEMMA DiesKeepsCopies ==
  ASSUME CopiesInv, Dies
  PROVE  CopiesInv'
<1>1. /\ UNCHANGED <<version, length, node, copyName, onDisk>>
      /\ deaths' \in 0..MaxDeaths
      /\ \A m \in Saves :
           /\ saves'[m].version = saves[m].version
           /\ saves'[m].node = saves[m].node
           /\ saves'[m].step = IF saves[m].step = "none" THEN "none" ELSE "done"
  BY Numbers DEF Dies, CopiesInv, FileTypeOK
<1>2. FileTypeOK'
  <2>1. saves' \in [Saves -> [step : Steps, version : Versions,
                              node : 0..MaxChanges]]
    BY DEF Dies, CopiesInv, FileTypeOK, Steps
  <2>2. QED
    BY <1>1, <2>1 DEF CopiesInv, FileTypeOK
<1>3. OwnFile'
  BY <1>1 DEF CopiesInv, FileTypeOK, OwnFile, InHand
<1>4. DiskIsACopy'
  <2>1. onDisk # 0 => onDisk \in Saves
    BY DEF CopiesInv, FileTypeOK, Saves
  <2>2. onDisk # 0 => saves'[onDisk].version = saves[onDisk].version
    BY <1>1, <2>1
  <2>3. QED
    BY <1>1, <2>2 DEF CopiesInv, DiskIsACopy
<1>5. SavesOfChanges'
  BY <1>1 DEF CopiesInv, FileTypeOK, SavesOfChanges
<1>6. QED
  BY <1>2, <1>3, <1>4, <1>5 DEF CopiesInv

LEMMA NextKeepsCopies ==
  ASSUME CopiesInv, OwnCopy, [FileNext]_fileVars
  PROVE  CopiesInv'
<1>1. CASE Change
  BY <1>1, ChangeKeepsCopies
<1>2. CASE SaveGoesOn
  BY <1>2, BeginsKeepsCopies, OpensKeepsCopies, WritesKeepsCopies,
     RenamesKeepsCopies DEF SaveGoesOn
<1>3. CASE \E n \in Saves : SaveRefused(n)
  BY <1>3, FailsKeepsCopies
<1>4. CASE Dies
  BY <1>4, DiesKeepsCopies
<1>5. CASE UNCHANGED fileVars
  BY <1>5 DEF fileVars, CopiesInv, FileTypeOK, OwnFile, InHand, DiskIsACopy,
              SavesOfChanges
<1>6. QED
  BY <1>1, <1>2, <1>3, <1>4, <1>5 DEF FileNext

(* A start reads a list that was really there, wherever the agent died and *)
(* whatever the disk refused: it is enough that each save writes a copy of *)
(* its own (queue/store.ts, the name of the temporary file).               *)
THEOREM StartFindsAList == OwnCopy => (FileSpec => []FileIsAList)
<1> SUFFICES ASSUME OwnCopy PROVE FileSpec => []FileIsAList
  OBVIOUS
<1>1. CopiesInv => FileIsAList
  <2>1. SUFFICES ASSUME CopiesInv, onDisk # 0
                 PROVE  Read # Lost
    BY Numbers DEF FileIsAList, Read, Lost
  <2>2. onDisk \in Saves /\ saves[onDisk].version \in Versions
    BY <2>1 DEF CopiesInv, FileTypeOK
  <2>3. Read = saves[onDisk].version
    BY <2>1, ReadsTheCopy
  <2>4. QED
    BY <2>2, <2>3, Numbers DEF Lost
<1>2. FileInit => CopiesInv
  BY FileBegins
<1>3. CopiesInv /\ [FileNext]_fileVars => CopiesInv'
  BY NextKeepsCopies
<1>4. QED
  BY <1>1, <1>2, <1>3, PTL DEF FileSpec

-----------------------------------------------------------------------------
(* In the chain only one save is under way.                                *)
LEMMA OneUnderWay ==
  ASSUME CopiesInv, OneAtATime, NEW n \in Saves, NEW m \in Saves,
         Under(n), Under(m)
  PROVE  n = m
<1>1. /\ \A k \in 1..(n - 1) : saves[k].step = "done"
      /\ \A k \in 1..(m - 1) : saves[k].step = "done"
      /\ saves[n].step # "done" /\ saves[m].step # "done"
  BY DEF OneAtATime, Under
<1>2. n \in Nat /\ m \in Nat /\ n >= 1 /\ m >= 1
  BY Numbers
<1>3. QED
  BY <1>1, <1>2

LEMMA NextKeepsChain ==
  ASSUME CopiesInv, OneAtATime, OwnCopy, Chained, [FileNext]_fileVars
  PROVE  OneAtATime'
<1>1. /\ FileTypeOK /\ SavesOfChanges /\ CopiesInv'
  BY NextKeepsCopies DEF CopiesInv
<1>2. CASE Change
  <2>1. /\ version \in 0..MaxChanges /\ version' = version + 1
        /\ version' \in Saves /\ onDisk' = onDisk
        /\ \A m \in Saves : m # version' => saves'[m] = saves[m]
        /\ saves'[version'].step = "due" /\ saves[version'].step = "none"
    BY <1>1, <1>2, Numbers DEF Change, FileTypeOK, SavesOfChanges
  <2>2. onDisk # version'
    BY <2>1 DEF CopiesInv, OwnFile, InHand
  <2>3. SUFFICES ASSUME NEW k \in Saves, Under(k)'
                 PROVE  (/\ \A m \in 1..(k - 1) : saves[m].step = "done"
                         /\ onDisk # 0 =>
                              saves[onDisk].version <= saves[k].version)'
    BY DEF OneAtATime
  <2>4. k # version' /\ Under(k)
    BY <2>1, <2>3 DEF Under
  <2>5. \A m \in 1..(k - 1) : m \in Saves /\ saves[m].step = "done"
    BY <2>4, Numbers DEF OneAtATime
  <2>6. onDisk \in {0} \cup Saves
    BY <1>1, Numbers DEF FileTypeOK
  <2>7. QED
    BY <2>1, <2>2, <2>4, <2>5, <2>6 DEF OneAtATime
<1>3. ASSUME NEW n \in Saves, SaveBegins(n) PROVE OneAtATime'
  <2>1. /\ saves[n].step = "due" /\ onDisk' = onDisk
        /\ \A m \in 1..(n - 1) : saves[m].step \in {"none", "done"}
        /\ \A m \in Saves : m # n => saves'[m] = saves[m]
        /\ saves'[n].step = "opening" /\ saves'[n].version = version
    BY <1>1, <1>3 DEF SaveBegins, FileTypeOK
  <2>2. onDisk # n
    BY <2>1 DEF CopiesInv, OwnFile, InHand
  <2>3. \A m \in 1..(n - 1) : m \in Saves /\ saves[m].step = "done"
    <3>1. ASSUME NEW m \in 1..(n - 1)
          PROVE  m \in Saves /\ saves[m].step # "none"
      <4>1. m \in Saves /\ m < n /\ version \in Nat
        BY <1>1, <3>1, Numbers DEF FileTypeOK
      <4>2. ~(n > version)
        BY <1>1, <2>1 DEF SavesOfChanges
      <4>3. QED
        BY <1>1, <4>1, <4>2 DEF SavesOfChanges
    <3>2. QED
      BY <2>1, <3>1
  <2>4. \A m \in Saves : m # n => ~Under(m)
    BY <2>1, <2>3, Numbers DEF OneAtATime, Under
  <2>5. onDisk # 0 => saves[onDisk].version <= version
    BY <1>1 DEF FileTypeOK, SavesOfChanges
  <2>6. SUFFICES ASSUME NEW k \in Saves, Under(k)'
                 PROVE  (/\ \A m \in 1..(k - 1) : saves[m].step = "done"
                         /\ onDisk # 0 =>
                              saves[onDisk].version <= saves[k].version)'
    BY DEF OneAtATime
  <2>7. k = n
    BY <2>1, <2>4, <2>6 DEF Under
  <2>8. onDisk \in {0} \cup Saves
    BY <1>1, Numbers DEF FileTypeOK
  <2>9. \A m \in 1..(n - 1) : m \in Saves /\ m # n /\ saves'[m].step = "done"
    BY <2>1, <2>3, Numbers
  <2>10. QED
    BY <2>1, <2>2, <2>5, <2>7, <2>8, <2>9
<1>4. ASSUME NEW n \in Saves, Opens(n) \/ Writes(n) PROVE OneAtATime'
  <2>1. \E f \in 0..MaxChanges, s \in {"writing", "renaming"} :
          saves' = [saves EXCEPT ![n].step = s, ![n].node = f]
    <3>1. CASE Opens(n)
      <4>1. saves' = [saves EXCEPT ![n].step = "writing",
                                   ![n].node = IF copyName[n] = 0 THEN n
                                               ELSE copyName[n]]
        BY <3>1, OwnNames DEF Opens
      <4>2. (IF copyName[n] = 0 THEN n ELSE copyName[n]) \in 0..MaxChanges
        BY <1>1, Numbers DEF FileTypeOK
      <4>3. QED
        BY <4>1, <4>2
    <3>2. CASE Writes(n)
      <4>1. /\ saves[n].node \in 0..MaxChanges
            /\ saves' = [saves EXCEPT ![n].step = "renaming",
                                      ![n].node = saves[n].node]
        BY <1>1, <3>2 DEF Writes, FileTypeOK
      <4>2. QED
        BY <4>1
    <3>3. QED
      BY <1>4, <3>1, <3>2
  <2>2. /\ Under(n) /\ onDisk' = onDisk
        /\ \A m \in Saves :
             /\ saves'[m].version = saves[m].version
             /\ m # n => saves'[m].step = saves[m].step
    BY <1>1, <1>4, <2>1 DEF Opens, Writes, FileTypeOK, Under
  <2>3. SUFFICES ASSUME NEW k \in Saves, Under(k)'
                 PROVE  (/\ \A m \in 1..(k - 1) : saves[m].step = "done"
                         /\ onDisk # 0 =>
                              saves[onDisk].version <= saves[k].version)'
    BY DEF OneAtATime
  <2>4. Under(k)
    BY <2>2, <2>3 DEF Under
  <2>5. \A m \in 1..(k - 1) : m \in Saves /\ m # n /\ saves[m].step = "done"
    BY <2>2, <2>4, Numbers DEF OneAtATime, Under
  <2>6. onDisk \in {0} \cup Saves
    BY <1>1, Numbers DEF FileTypeOK
  <2>7. QED
    BY <2>2, <2>4, <2>5, <2>6 DEF OneAtATime
<1>5. ASSUME NEW n \in Saves, Renames(n) \/ SaveRefused(n) PROVE OneAtATime'
  <2>1. /\ Under(n) /\ saves'[n].step = "done"
        /\ \A m \in Saves : m # n => saves'[m].step = saves[m].step
    BY <1>1, <1>5 DEF Renames, SaveRefused, FileTypeOK, Under
  <2>2. \A m \in Saves : ~Under(m)'
    BY <2>1, OneUnderWay DEF Under
  <2>3. QED
    BY <2>2 DEF OneAtATime
<1>6. CASE Dies
  <2>1. \A m \in Saves : ~Under(m)'
    BY <1>1, <1>6 DEF Dies, Under, FileTypeOK
  <2>2. QED
    BY <2>1 DEF OneAtATime
<1>7. CASE UNCHANGED fileVars
  BY <1>7 DEF fileVars, OneAtATime, Under
<1>8. QED
  BY <1>2, <1>3, <1>4, <1>5, <1>6, <1>7 DEF FileNext, SaveGoesOn

(* Once a save has landed no older list lands after it, though changes are *)
(* faster than the disk (queue/store.ts, the chain of pending saves).      *)
THEOREM NewerListsLand == Chained /\ OwnCopy => (FileSpec => FileKeepsUp)
<1> SUFFICES ASSUME Chained, OwnCopy PROVE FileSpec => FileKeepsUp
  OBVIOUS
<1>1. ASSUME CopiesInv, OneAtATime, [FileNext]_fileVars
      PROVE  [onDisk' # onDisk => Read' >= Read]_fileVars
  <2>1. SUFFICES ASSUME NEW n \in Saves, Renames(n), onDisk' # onDisk
                 PROVE  Read' >= Read
    BY <1>1 DEF FileNext, SaveGoesOn, Change, SaveBegins, Opens, Writes,
                SaveRefused, Dies, fileVars
  <2>2. /\ onDisk' = n /\ node'[n] = node[n] /\ length' = length
        /\ Under(n) /\ node[n] = Copy(length, saves[n].version)
        /\ saves[n].version \in Versions
    BY <1>1, <2>1, OwnNames
    DEF Renames, Under, CopiesInv, OwnFile, InHand, FileTypeOK
  <2>3. Read' = saves[n].version
    <3>1. CopiesInv' /\ onDisk' # 0
      BY <1>1, <2>2, NextKeepsCopies
    <3>2. (CopiesInv /\ onDisk # 0 => Read = saves[onDisk].version)'
      BY ReadsTheCopy, PTL
    <3>3. Read' = saves'[onDisk'].version
      BY <3>1, <3>2
    <3>4. saves'[n].version = saves[n].version
      BY <1>1, <2>1 DEF Renames, CopiesInv, FileTypeOK
    <3>5. QED
      BY <2>2, <3>3, <3>4
  <2>4. CASE onDisk = 0
    BY <2>2, <2>3, <2>4, Numbers DEF Read
  <2>5. CASE onDisk # 0
    <3>1. Read = saves[onDisk].version
      BY <1>1, <2>5, ReadsTheCopy
    <3>2. saves[onDisk].version <= saves[n].version
      BY <1>1, <2>2, <2>5 DEF OneAtATime
    <3>3. QED
      BY <1>1, <2>2, <2>3, <2>5, <3>1, <3>2 DEF CopiesInv, FileTypeOK
  <2>6. QED
    BY <2>4, <2>5
<1>2. FileInit => CopiesInv /\ OneAtATime
  BY FileBegins
<1>3. CopiesInv /\ OneAtATime /\ [FileNext]_fileVars =>
        (CopiesInv /\ OneAtATime)'
  BY NextKeepsCopies, NextKeepsChain
<1>4. QED
  BY <1>1, <1>2, <1>3, PTL DEF FileSpec, FileKeepsUp
=============================================================================
