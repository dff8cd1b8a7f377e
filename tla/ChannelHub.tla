------------------------------ MODULE ChannelHub ------------------------------
(***************************************************************************)
(* The one event stream of the agent (apps/agent/src/server/sse.ts) and    *)
(* what it costs to produce: its heartbeat, and the measurement of the     *)
(* machine (apps/agent/src/power/sampler.ts), which runs for those who     *)
(* watch the power channel (apps/agent/src/power/routes.ts).               *)
(*                                                                         *)
(* Nothing here waits, but everything calls back: a subscription evicts    *)
(* others, which may stop the measurement it is about to start, and the    *)
(* start publishes a first sample to the very subscriber that is joining.  *)
(***************************************************************************)
EXTENDS Filter, FiniteSets, SequencesExt

CONSTANTS Readers,        \* connections to the stream
          Panels,         \* connections to the power channel's own endpoint
          Requests,       \* what a reader may ask for: channels in order
          Power,          \* the channel that costs something to produce
          MaxPerProcess,  \* MAX_PER_PROCESS (32 in the code)
          MaxPerChannel,  \* MAX_PER_CHANNEL (8 in the code)
          OpeningFails    \* may the first frame of a new connection fail?

ASSUME HubAssumption ==
  /\ MaxPerProcess \in Nat \ {0} /\ MaxPerChannel \in Nat \ {0}
  /\ OpeningFails \in BOOLEAN
  /\ \A r \in Requests : r \in Seq(ToSet(r))

VARIABLES
  joined,      \* this.subscribers, oldest first
  wants,       \* the channels of each of them
  heartbeat,   \* is the timer set?
  stopper,     \* stopSampling is there (power/routes.ts)
  panels,      \* open connections of the power channel's own endpoint
  watchers     \* of the sampler, whose timer runs while there is one

hubVars == <<joined, wants, heartbeat, stopper, panels, watchers>>

HubTypeOK ==
  /\ joined \in Seq(Readers) /\ IsInjective(joined)
  /\ wants \in [Readers -> SUBSET UNION {ToSet(r) : r \in Requests}]
  /\ heartbeat \in BOOLEAN /\ stopper \in BOOLEAN
  /\ panels \subseteq Panels /\ watchers \in Nat

HubInit ==
  /\ joined = <<>> /\ wants = [s \in Readers |-> {}]
  /\ heartbeat = FALSE /\ stopper = FALSE /\ panels = {} /\ watchers = 0

Hub == [joined |-> joined, wants |-> wants, heartbeat |-> heartbeat,
        stopper |-> stopper, watchers |-> watchers]
HubBecomes(H) ==
  \E R \in {H} :
    /\ joined' = R.joined /\ wants' = R.wants /\ heartbeat' = R.heartbeat
    /\ stopper' = R.stopper /\ watchers' = R.watchers

(* listenerCount(): those of the readers in line who asked for a channel.  *)
Listeners(H, name) == {s \in ToSet(H.joined) : name \in H.wants[s]}

(* onActive(false) of the power channel: what was started last is stopped. *)
Deactivated(H) ==
  IF H.stopper THEN [H EXCEPT !.stopper = FALSE, !.watchers = @ - 1] ELSE H

(* detach() of some readers, once each.                                    *)
Detached(H, S) ==
  LET left == [H EXCEPT !.joined = Only(@, Readers \ S),
                        !.wants = [s \in Readers |-> IF s \in S THEN {}
                                                     ELSE @[s]],
                        !.heartbeat = @ /\ ~(ToSet(H.joined) \subseteq S)]
  IN  IF Listeners(H, Power) \cap S # {} /\ Listeners(left, Power) = {}
      THEN Deactivated(left) ELSE left

(* onActive(true): watch(), whose first watcher starts the timer and       *)
(* publishes a sample before stopSampling has been assigned.               *)
Activated(H, s, failsAtOnce) ==
  LET watched == [H EXCEPT !.watchers = @ + 1]
      first   == IF H.watchers = 0 /\ failsAtOnce THEN Detached(watched, {s})
                 ELSE watched
  IN  [first EXCEPT !.stopper = TRUE]

(* evictForCapacity(): the oldest go first, of all readers and then of     *)
(* each channel asked for.                                                 *)
Oldest(H, S, limit) ==
  LET line  == Only(H.joined, S)
      spare == IF Len(line) < limit THEN 0 ELSE Len(line) - limit + 1
  IN  {line[i] : i \in 1..spare}
MadeRoom(H, name) ==
  Detached(H, Oldest(H, Listeners(H, name), MaxPerChannel))
Evicted(H, names) ==
  LET upTo[n \in 0..Len(names)] ==
        IF n = 0 THEN Detached(H, Oldest(H, Readers, MaxPerProcess))
        ELSE MadeRoom(upTo[n - 1], names[n])
  IN  upTo[Len(names)]

-----------------------------------------------------------------------------
(* subscribe(): room is made, the reader joins, what nobody listened to is *)
(* started, and the snapshots are written; a frame that cannot be written, *)
(* or a reader who does not read, ends it again.                           *)
SubscribesLast(s, names) ==                                  \* mutant
  /\ s \notin ToSet(joined)
  /\ LET H     == Evicted(Hub, names)
         inset == [H EXCEPT !.joined = Append(@, s), !.heartbeat = TRUE,
                            !.wants[s] = ToSet(names)]
     IN  \E stalls \in BOOLEAN :
           HubBecomes(IF stalls THEN Detached(inset, {s}) ELSE inset)
  /\ UNCHANGED panels
Subscribes(s, names) ==
  /\ s \notin ToSet(joined)
  /\ LET H     == Evicted(Hub, names)
         inset == [H EXCEPT !.joined = Append(@, s), !.heartbeat = TRUE,
                            !.wants[s] = ToSet(names)]
         newly == Power \in ToSet(names) /\ Listeners(H, Power) = {}
     IN  \E failsAtOnce \in {FALSE, OpeningFails}, stalls \in BOOLEAN :
           LET on == IF newly THEN Activated(inset, s, failsAtOnce) ELSE inset
           IN  HubBecomes(IF stalls THEN Detached(on, {s}) ELSE on)
  /\ UNCHANGED panels

(* The connection closes.                                                  *)
Leaves(s) ==
  /\ s \in ToSet(joined) /\ HubBecomes(Detached(Hub, {s}))
  /\ UNCHANGED panels

(* publish() on a channel: those who cannot be written to, or have stopped *)
(* reading, are dropped.                                                   *)
Publishes(name) ==
  /\ \E S \in SUBSET Listeners(Hub, name) :
       S # {} /\ HubBecomes(Detached(Hub, S))
  /\ UNCHANGED panels

(* The heartbeat is written to every reader.                               *)
Beats ==
  /\ heartbeat
  /\ \E S \in SUBSET ToSet(joined) : S # {} /\ HubBecomes(Detached(Hub, S))
  /\ UNCHANGED panels

(* closeAll(), when the agent goes.                                        *)
CloseAll ==
  /\ HubBecomes([Detached(Hub, ToSet(joined)) EXCEPT !.heartbeat = FALSE])
  /\ UNCHANGED panels

(* GET /api/power/events: a watcher of its own until the connection closes.*)
PanelOpens(p) ==
  /\ p \notin panels /\ panels' = panels \cup {p} /\ watchers' = watchers + 1
  /\ UNCHANGED <<joined, wants, heartbeat, stopper>>
PanelCloses(p) ==
  /\ p \in panels /\ panels' = panels \ {p} /\ watchers' = watchers - 1
  /\ UNCHANGED <<joined, wants, heartbeat, stopper>>

HubNext ==
  \/ \E s \in Readers :
       Leaves(s) \/ \E names \in Requests : Subscribes(s, names)
  \/ \E name \in UNION {ToSet(r) : r \in Requests} : Publishes(name)
  \/ Beats \/ CloseAll
  \/ \E p \in Panels : PanelOpens(p) \/ PanelCloses(p)

HubSpec == HubInit /\ [][HubNext]_hubVars

-----------------------------------------------------------------------------
(* The machine is measured exactly while somebody watches, once for each   *)
(* open panel and once for all readers of the power channel, and a stream  *)
(* beats exactly while it has a reader: a reader who is evicted, dropped   *)
(* or gone in the middle of his own subscription leaves no timer behind.   *)
CostsFollowReaders ==
  /\ heartbeat = (joined # <<>>)
  /\ stopper = (Listeners(Hub, Power) # {})
  /\ watchers = Cardinality(panels) + (IF stopper THEN 1 ELSE 0)
=============================================================================
