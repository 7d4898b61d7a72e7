---------------------------- MODULE TimelineTools ---------------------------
(***************************************************************************)
(* tools_markers.cpp and tools_timeline.cpp: markers and regions, which    *)
(* keep their number wherever they are; tempo markers, which are found by  *)
(* their place in the row; the time selection.                             *)
(***************************************************************************)
EXTENDS Project

Marker(num, region, pos, end, name, color) ==
    [num |-> num, region |-> region, pos |-> pos, end |-> end, name |-> name, color |-> color]

\* The markers, or regions, numbered n: one or none.
Found(n, region) == {mk \in P.markers : mk.num = n /\ mk.region = region}

WithMarkers(set) == [P EXCEPT !.markers = set]

NextNumber(region) == Free({mk.num : mk \in {mk \in P.markers : mk.region = region}})

\* No colour for 0, else one with the flag of a custom colour.
nativeMarkerColor(c) == IF c = 0 THEN 0 ELSE c + 2^24

Numbers == {1, 9}

\* marker.add, region.add
MarkerAdd ==
    \E pos \in {0, 5}, c \in {0, 255} :
      \/ Returns("marker.add", <<pos, c>>,
                 InBlock(Now, WithMarkers(P.markers \cup
                   {Marker(NextNumber(FALSE), FALSE, pos, pos, "new", nativeMarkerColor(c))})))
      \/ Returns("region.add", <<pos, c>>,
                 InBlock(Now, WithMarkers(P.markers \cup
                   {Marker(NextNumber(TRUE), TRUE, pos, pos + 2, "new", nativeMarkerColor(c))})))

MarkersList == \E tool \in {"markers.list", "region.list"} : Returns(tool, <<>>, Now)

\* marker.delete, region.delete: a number there is none of is no error of the call.
MarkerDelete ==
    \E n \in Numbers, region \in BOOLEAN :
    \E tool \in IF region THEN {"marker.delete", "region.delete"} ELSE {"marker.delete"} :
      Returns(tool, <<n, region>>, InBlock(Now, WithMarkers(P.markers \ Found(n, region))))

\* marker.goto, region.goto
MarkerGoto ==
    \E n \in Numbers, region \in BOOLEAN :
      Returns(IF region THEN "region.goto" ELSE "marker.goto", <<n>>,
              IF Found(n, region) = {} THEN Now
              ELSE Set(Now, [Now.ui EXCEPT !.cursor = (CHOOSE mk \in Found(n, region) : TRUE).pos]))

\* marker.edit: what the call leaves out stays; -1 and "" stand for that.
MarkerEdit ==
    \E n \in Numbers, region \in BOOLEAN, pos \in {-1, 7}, name \in {"", "new"}, c \in {-1, 0, 255} :
      Returns("marker.edit", <<n, region, pos, name, c>>,
        InBlock(Need(Now, Found(n, region) # {}),
                WithMarkers({IF mk \notin Found(n, region) THEN mk
                             ELSE LET at == IF pos < 0 THEN mk.pos ELSE pos
                                  IN  [mk EXCEPT !.pos = at, !.end = IF region THEN @ ELSE at,
                                                 !.name = IF name = "" THEN @ ELSE name,
                                                 !.color = IF c < 0 THEN @ ELSE nativeMarkerColor(c)] : mk \in P.markers})))

-----------------------------------------------------------------------------
\* timeselection.get, timeselection.set: not undoable.
TimeSelection ==
    \/ Returns("timeselection.get", <<>>, Now)
    \/ Returns("timeselection.set", <<"loop">>, Set(Now, [Now.ui EXCEPT !.loop = 3]))
    \/ Returns("timeselection.set", <<"timesel">>, Set(Now, [Now.ui EXCEPT !.range = 3]))

\* tempo.get, tempo.set: SetCurrentBPM makes its own undo point.
Tempo ==
    \/ Returns("tempo.get", <<>>, Now)
    \/ \E bpm \in {90, 120} : Returns("tempo.set", <<bpm>>, InBlock(Now, [P EXCEPT !.bpm = bpm]))

\* REAPER keeps the tempo markers in the order of their positions, one at each.
Placed(markers, mk) ==
    SelectSeq(markers, LAMBDA other : other.pos < mk.pos) \o <<mk>>
      \o SelectSeq(markers, LAMBDA other : other.pos > mk.pos)

\* tempo.list_markers, tempo.add_marker, which throws after its block.
TempoAdd ==
    \/ Returns("tempo.list_markers", <<>>, Now)
    \/ \E pos \in {0, 4}, sig \in {0, 3}, works \in BOOLEAN :
         Returns("tempo.add_marker", <<pos, sig>>,
                 Need(InBlock(Now, IF works THEN [P EXCEPT !.tempo = Placed(@, [pos |-> pos, bpm |-> 100, sig |-> sig])]
                                   ELSE P), works))

\* tempo.edit_marker: read, changed and written at its index.
TempoEdit ==
    \E k \in {1, 2}, pos \in {-1, 6}, bpm \in {-1, 80}, works \in BOOLEAN :
      LET s   == Need(Now, k \in DOMAIN P.tempo)
          old == P.tempo[k]
          new == [old EXCEPT !.pos = IF pos < 0 THEN @ ELSE pos, !.bpm = IF bpm < 0 THEN @ ELSE bpm]
      IN  Returns("tempo.edit_marker", <<k, pos, bpm>>,
                  Need(InBlock(s, IF works THEN [P EXCEPT !.tempo = Placed(RemoveAt(@, k), new)] ELSE P), works))

\* tempo.delete_marker
TempoDelete ==
    \E k \in {1, 2} :
      Returns("tempo.delete_marker", <<k>>,
              Need(InBlock(Now, IF k \in DOMAIN P.tempo THEN [P EXCEPT !.tempo = RemoveAt(@, k)] ELSE P), k \in DOMAIN P.tempo))

\* time.qn_to_time, time.time_to_qn
TimeConversions == \E tool \in {"time.qn_to_time", "time.time_to_qn"} : Returns(tool, <<>>, Now)

TimelineNext ==
    \/ MarkerAdd \/ MarkersList \/ MarkerDelete \/ MarkerGoto \/ MarkerEdit
    \/ TimeSelection \/ Tempo \/ TempoAdd \/ TempoEdit \/ TempoDelete \/ TimeConversions
=============================================================================
