-------------------------------- MODULE MCTools --------------------------------
(***************************************************************************)
(* The smaller components for TLC, side by side: a behaviour is one of a   *)
(* single component, chosen at the beginning, and the others stand still.  *)
(*   "stitch"   StitchQueue: two rows of one video                         *)
(*   "media"    MediaActions: two additions, one file in the format already*)
(*   "file"     StateFile: the compressor's and the transcription list     *)
(*   "stream"   ChannelHub: four readers, two panels                       *)
(*   "cards"    TranscriptionQueue: a person's card, started twice, and a   *)
(*              team's, started once, while the tools and the model stay    *)
(*              and nothing is saved                                        *)
(*   "list"     TranscriptionQueue: the person's card, started once, saved, *)
(*              and restored, while the tools and the model come and go     *)
(*   "again"    TranscriptionQueue: the person's card, started twice, saved *)
(*              and restored, while the tools and the model stay            *)
(***************************************************************************)
EXTENDS StitchQueue, MediaActions, StateFile, ChannelHub, TranscriptionQueue

CONSTANTS r1, r2, video, a, b, c, d, x, y, s1, s2, s3, s4, p1, p2, j1, t1

MCRows      == {r1, r2}
MCFiles     == {video}
MCSource    == [r \in MCRows |-> video]
MCCalls     == {x, y}
MCImages    == {a, b, c, d}
MCSelection == [k \in MCCalls |-> IF k = x THEN <<a, d, b>> ELSE <<c>>]
MCAlready   == {d}
MCLengths   == {1, 2}
MCReaders   == {s1, s2, s3, s4}
MCPanels    == {p1, p2}
MCRequests  == {<<"power">>, <<"queue">>, <<"queue", "power">>,
                <<"power", "queue">>}

MCCards == {j1, t1}
MCTeam  == {t1}

VARIABLES component

ToolsInit ==
  /\ component \in {"stitch", "media", "file", "stream", "cards", "list", "again"}
  /\ StitchInit /\ MediaInit /\ FileInit /\ HubInit /\ Init
  /\ component \notin {"cards", "list"} => model = "present"
  /\ component # "file" => length = [v \in Versions |-> 1]

(* What may happen in the three instances of the transcription list.         *)
CardsNext ==
  /\ \/ Asked \/ RunGoesOn \/ RunHears \/ Download \/ DownloadEnds
     \/ \E j \in Jobs : Analyzed(j) \/ Cleaned(j)
     \/ Fragment \/ ProbeEnds
  /\ tries'[t1] <= 1

ListNext ==
  /\ Next
  /\ ToSet(list') \subseteq {j1} /\ tries'[j1] <= 1 /\ asks' = 0

AgainNext ==
  /\ \/ RunGoesOn \/ ProbeEnds \/ PersistBegins \/ PersistEnds \/ Restart
     \/ Add(j1) \/ Analyzed(j1) \/ Start({j1}) \/ Cancel(j1) \/ RemoveCard(j1) \/ Cleaned(j1)
  /\ asks' = 0

ToolsNext ==
  /\ UNCHANGED component
  /\ \/ /\ component = "stitch" /\ StitchNext
        /\ UNCHANGED <<mediaVars, fileVars, hubVars, vars>>
     \/ /\ component = "media" /\ MediaNext
        /\ UNCHANGED <<stitchVars, fileVars, hubVars, vars>>
     \/ /\ component = "file" /\ FileNext
        /\ UNCHANGED <<stitchVars, mediaVars, hubVars, vars>>
     \/ /\ component = "stream" /\ HubNext
        /\ UNCHANGED <<stitchVars, mediaVars, fileVars, vars>>
     \/ /\ \/ component = "cards" /\ CardsNext
           \/ component = "list" /\ ListNext
           \/ component = "again" /\ AgainNext
        /\ UNCHANGED <<stitchVars, mediaVars, fileVars, hubVars>>

ToolsSpec ==
  /\ ToolsInit
  /\ [][ToolsNext]_<<component, stitchVars, mediaVars, fileVars, hubVars, vars>>
=============================================================================
