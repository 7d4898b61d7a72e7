---------------------------- MODULE ObjectSession ---------------------------
(***************************************************************************)
(* An immersive session: tracks, their names and widths, and the sends     *)
(* between them, as the tools that build beds, objects and renderer buses  *)
(* leave them.  Every tool call is one job of the main thread, so it is one *)
(* step; between the calls other clients and the user rename, widen, route *)
(* and delete tracks, and every call names its tracks by position.         *)
(***************************************************************************)
EXTENDS SendLayout

CONSTANTS
    Layouts,        \* widths of the bed layouts and scenes a call may ask for
    ObjectCounts,   \* objectCount of a session to set up
    Widths,         \* channel counts a call may ask for
    Sendings,       \* the channels of a new send: pairs of I_SRCCHAN and I_DSTCHAN
    Buses,          \* the rendererTrack a call may give: positions in the track list
    Beds,           \* the bedTrack a call may give, None to give none
    ObjectLists,    \* the objectTracks a call may give
    Beginnings,     \* the sessions to begin with: tracks, and the receives of each
    MaxTracks,      \* tracks in a session
    MaxReceives,    \* receives of a bus that calls may pile up
    MaxCalls        \* calls and edits in a behaviour

ASSUME BoundsAssumption ==
    /\ MaxTracks \in Nat /\ MaxReceives \in Nat /\ MaxCalls \in Nat
    /\ Widths \subseteq Nat /\ Sendings \subseteq Nat \X Nat
    /\ Buses \subseteq Nat /\ Beds \subseteq Nat
    /\ ObjectLists \subseteq Seq(Nat \ {0})

\* The channel counts of a track.  The bed layouts and the even-padded scenes are
\* among them, and a session is set up with at most 128 objects.
Nchans == {n \in 2..128 : n % 2 = 0}

ASSUME SetupsAssumption == Layouts \subseteq Nchans /\ ObjectCounts \subseteq 0..128

\* A track's name: what it is for, and the N of "Object N" or the layout of "<layout> Bed".
Object(n) == <<"Object", n>>
Plain     == <<"", 0>>
BedName(w)   == <<"Bed", w>>
SceneName(w) == <<"Scene", w>>
BusName   == <<"Dolby Renderer Bus", 0>>
Monitor   == <<"Monitor", 0>>

Names == {"", "Object", "Bed", "Scene", "Dolby Renderer Bus", "Monitor"} \X Nat

Ids == 1..MaxTracks

VARIABLES
    tracks,     \* the track list: id, name and nchan of each
    receives,   \* per track id, its receives in REAPER's order
    last,       \* what the last call did, as far as it promises a layout
    calls       \* number of calls and edits so far

vars == <<tracks, receives, last, calls>>

\* No promise.
Nothing == [verb |-> "none"]

TrackRecords == [id : Ids, name : Names, nchan : Nchans]
SendRecords  == [src : Ids, srcChan : Nat \cup {NoAudio}, dstChan : Nat]

\* No two tracks have the same id, and no send leads from or to a track that is gone.
Session(ts, rs) ==
    /\ ts \in Seq(TrackRecords)
    /\ rs \in [Ids -> Seq(SendRecords)]
    /\ \A i, k \in DOMAIN ts : ts[i].id = ts[k].id => i = k
    /\ \A d \in Ids : \A k \in DOMAIN rs[d] : {d, rs[d][k].src} \subseteq {ts[i].id : i \in DOMAIN ts}

ASSUME BeginningsAssumption == \A b \in Beginnings : Session(b.tracks, b.receives)

TypeOK == Session(tracks, receives) /\ calls \in 0..MaxCalls

Init ==
    /\ \E b \in Beginnings : tracks = b.tracks /\ receives = b.receives
    /\ last = Nothing
    /\ calls = 0

-----------------------------------------------------------------------------
(* Sets and sequences in an order. *)

\* The elements of S in the order R, a set of pairs.
Sorted(S, R) ==
    [k \in 1..Cardinality(S) |-> CHOOSE x \in S : Cardinality({y \in S : <<y, x>> \in R}) = k - 1]

Ascending(S)  == Sorted(S, {p \in S \X S : p[1] < p[2]})
Descending(S) == Sorted(S, {p \in S \X S : p[1] > p[2]})

\* The elements of s at the positions of K, in their order.
Picked(s, K) == LET ks == Ascending(K) IN [j \in DOMAIN ks |-> s[ks[j]]]

-----------------------------------------------------------------------------
(* REAPER. *)

\* Mutant: leaves an odd channel count as it is.
Clamped_Odd(n) == IF n < 2 THEN 2 ELSE IF n > 128 THEN 128 ELSE n

\* clampChannels
Clamped(n) == IF n < 2 THEN 2 ELSE IF n > 128 THEN 128 ELSE n + (n % 2)

Used   == {tracks[i].id : i \in DOMAIN tracks}
Unused == Ids \ Used

\* InsertTrackAtIndex at the end of the list, for each of the given tracks.
Inserted(new) ==
    LET ids == Ascending(Unused)
    IN  tracks \o [k \in DOMAIN new |-> [id |-> ids[k], name |-> new[k].name, nchan |-> new[k].nchan]]

\* InsertTrackAtIndex at a given position.
InsertedAt(i, t) == InsertAt(tracks, i, [id |-> Min(Unused), name |-> t.name, nchan |-> t.nchan])

CanInsert(n) == Cardinality(Unused) >= n

Track(name, nchan) == [name |-> name, nchan |-> nchan]

Send(src, srcChan, dstChan) == [src |-> src, srcChan |-> srcChan, dstChan |-> dstChan]

\* encodeSend on a new send from channel 0 of its source.
Wire(src, width, chan, mono) == Send(src, SrcChan(0, width), DstChan(chan, mono))

NotFrom(src, sends) == Picked(sends, {k \in DOMAIN sends : sends[k].src # src})

\* CreateTrackSend for each in turn; REAPER makes no send from a track to itself.
Created(bus, sends) == NotFrom(bus, sends)

IdAt(i) == tracks[i].id
IdOrNone(i) == IF i = None THEN None ELSE IdAt(i)

At(objs) == [k \in DOMAIN objs |-> IdAt(objs[k])]

InRange(objs) == \A k \in DOMAIN objs : objs[k] \in DOMAIN tracks

\* The objects before the first one that is no track of ts, which ends the call.
Reached(objs, ts) ==
    LET bad == {k \in DOMAIN objs : objs[k] \notin DOMAIN ts}
    IN  IF bad = {} THEN objs ELSE SubSeq(objs, 1, Min(bad) - 1)

Counted == calls < MaxCalls /\ calls' = calls + 1

-----------------------------------------------------------------------------
(* Tracks and sends, by a tool or by hand. *)

\* track.add: what stood from the index on moves up.
TrackAdd ==
    /\ Counted
    /\ CanInsert(1)
    /\ \E i \in 1..(Len(tracks) + 1) : tracks' = InsertedAt(i, Track(Plain, 2))
    /\ last' = Nothing
    /\ UNCHANGED receives

\* track.remove; REAPER drops the track's sends with it.
TrackRemove ==
    /\ Counted
    /\ \E i \in DOMAIN tracks :
         /\ tracks' = RemoveAt(tracks, i)
         /\ receives' = [d \in Ids |-> IF d = IdAt(i) THEN <<>>
                                       ELSE NotFrom(IdAt(i), receives[d])]
    /\ last' = Nothing

\* track.set_name
TrackSetName ==
    /\ Counted
    /\ \E i \in DOMAIN tracks, name \in {Plain, Object(1), Object(2)} \cup {BedName(w) : w \in Layouts} :
         tracks' = [tracks EXCEPT ![i].name = name]
    /\ last' = Nothing
    /\ UNCHANGED receives

\* spatial.set_track_channels; track.set_channels clamps at 64 instead of 128.
SetTrackChannels ==
    /\ Counted
    /\ \E i \in DOMAIN tracks, w \in Widths, cap \in {64, 128} :
         tracks' = [tracks EXCEPT ![i].nchan = Clamped(IF w > cap THEN cap ELSE w)]
    /\ last' = Nothing
    /\ UNCHANGED receives

\* spatial.build_bed
BuildBed ==
    /\ Counted
    /\ CanInsert(1)
    /\ \E w \in Layouts, i \in 1..(Len(tracks) + 1) : tracks' = InsertedAt(i, Track(BedName(w), w))
    /\ last' = Nothing
    /\ UNCHANGED receives

\* send.add, and spatial.assign_to_bed with its channels.
SendAdd ==
    /\ Counted
    /\ \E i, k \in DOMAIN tracks :
         /\ i # k
         /\ Len(receives[IdAt(k)]) < MaxReceives
         /\ \E c \in Sendings :
              receives' = [receives EXCEPT ![IdAt(k)] = Append(@, Send(IdAt(i), c[1], c[2]))]
    /\ last' = Nothing
    /\ UNCHANGED tracks

\* send.remove on a receive.
SendRemove ==
    /\ Counted
    /\ \E d \in Used : \E k \in DOMAIN receives[d] :
         receives' = [receives EXCEPT ![d] = RemoveAt(@, k)]
    /\ last' = Nothing
    /\ UNCHANGED tracks

\* send.set_channels on a receive: its source or destination channels or both;
\* srcChannel -1 leaves it without audio.
SendSetChannels ==
    /\ Counted
    /\ \E d \in Used : \E k \in DOMAIN receives[d] :
         \E c \in Sendings \cup {<<NoAudio, 0>>} :
           \E src, dst \in BOOLEAN :
             receives' = [receives EXCEPT ![d][k] =
               Send(@.src, IF src THEN c[1] ELSE @.srcChan, IF dst THEN c[2] ELSE @.dstChan)]
    /\ last' = Nothing
    /\ UNCHANGED tracks

-----------------------------------------------------------------------------
(* spatial.author_object_bed *)

\* The N a track gets in the renaming loop, the last one if it is listed twice.
NumberOf(objs, i) == Max({k \in DOMAIN objs : objs[k] = i})

Renamed(ts, objs) ==
    [i \in DOMAIN ts |-> IF \E k \in DOMAIN objs : objs[k] = i
                         THEN [ts[i] EXCEPT !.name = Object(NumberOf(objs, i))]
                         ELSE ts[i]]

Widened(ts, i, w) == [ts EXCEPT ![i].nchan = IF @ < w THEN Clamped(w) ELSE @]

Bedded(w, bed, create) ==
    IF bed = None /\ create THEN Inserted(<<Track(BedName(w), w)>>)
    ELSE IF bed # None THEN Widened(tracks, bed, w) ELSE tracks

\* dryRun:false.  The bed is built or widened and the objects renamed one by one;
\* a position out of range ends the call with an error, and what was done stays.
AuthorObjectBed ==
    /\ Counted
    /\ \E w \in Layouts, objs \in ObjectLists, rename \in BOOLEAN :
       \E bed \in Beds, create \in BOOLEAN :
         LET bedded == Bedded(w, bed, create)
             done   == Reached(objs, bedded)
         IN  /\ bed \in {None} \cup DOMAIN tracks
             /\ bed = None /\ create => CanInsert(1)
             /\ tracks' = IF rename THEN Renamed(bedded, done) ELSE bedded
             /\ last' = IF done = objs /\ rename
                        THEN [verb |-> "author", objs |-> [k \in DOMAIN objs |-> bedded[objs[k]].id]]
                        ELSE Nothing
    /\ UNCHANGED receives

-----------------------------------------------------------------------------
(* spatial.setup_immersive_session, confirmed, and the layout it wires. *)

\* Mutant: the objects start one channel late.
AtmosSends_OneBased(bed, bedW, objs) ==
    (IF bed = None THEN <<>> ELSE <<Wire(bed, bedW, 0, FALSE)>>)
      \o [k \in DOMAIN objs |-> Wire(objs[k], 1, bedW + k, FALSE)]

\* buildAtmosLayoutSDK: a new send for the bed and for each object, whatever is there.
AtmosSends(bed, bedW, objs) ==
    (IF bed = None THEN <<>> ELSE <<Wire(bed, bedW, 0, FALSE)>>)
      \o [k \in DOMAIN objs |-> Wire(objs[k], 1, bedW + k - 1, FALSE)]

NewSession(w, n, monitor, renderer) ==
    <<Track(BedName(w), w)>>
      \o [k \in 1..n |-> Track(Object(k), 2)]
      \o (IF monitor THEN <<Track(Monitor, 2)>> ELSE <<>>)
      \o (IF renderer THEN <<Track(BusName, Clamped(w + n))>> ELSE <<>>)

SetUp(w, n, monitor, renderer) ==
    LET new  == NewSession(w, n, monitor, renderer)
        ids  == Ascending(Unused)
        objs == [k \in 1..n |-> ids[k + 1]]
        bus  == ids[Len(new)]
        mon  == ids[n + 2]
    IN  /\ CanInsert(Len(new))
        /\ tracks' = Inserted(new)
        /\ receives' = [d \in Ids |->
             IF renderer /\ d = bus THEN AtmosSends(ids[1], w, objs)
             ELSE IF monitor /\ d = mon THEN [k \in 1..n |-> Wire(objs[k], 1, 0, TRUE)]
             ELSE receives[d]]
        /\ last' = IF renderer
                   THEN [verb |-> "setup", bus |-> bus, bed |-> ids[1], bedW |-> w, objs |-> objs,
                         clean |-> TRUE, complete |-> TRUE]
                   ELSE Nothing

SetupImmersive ==
    /\ Counted
    /\ \E w \in Layouts, n \in ObjectCounts, monitor, renderer \in BOOLEAN : SetUp(w, n, monitor, renderer)

\* spatial.render_deliverables with the atmos-send-layout target: the bus is
\* widened, then the sends added; an object out of range throws on its way.
RenderAtmosLayout ==
    /\ Counted
    /\ \E r \in Buses, bed \in Beds, w \in Layouts, objs \in ObjectLists :
         LET bedW  == IF bed = None THEN w ELSE tracks[bed].nchan
             total == bedW + Len(objs)
             new   == AtmosSends(IdOrNone(bed), bedW, At(Reached(objs, tracks)))
         IN  /\ r \in DOMAIN tracks
             /\ bed \in {None} \cup DOMAIN tracks
             /\ Len(receives[IdAt(r)]) + Len(new) <= MaxReceives
             /\ tracks' = Widened(tracks, r, total)
             /\ receives' = [receives EXCEPT ![IdAt(r)] = @ \o Created(IdAt(r), new)]
    /\ last' = Nothing

-----------------------------------------------------------------------------
(* spatial.spatialize_stems *)

\* findTrackByName: the first track of that name.
Named(name) == {i \in DOMAIN tracks : tracks[i].name = name}

\* Into a bed, or into an ambisonic scene, which also sets the width of each stem.
\* A stem out of range is passed over for a bed; for a scene the transaction is
\* rolled back, and nothing has happened.
Spatialize(w, stems, scene, lfe, monitor) ==
    LET name  == IF scene THEN SceneName(w) ELSE BedName(w)
        reuse == Named(name) # {}
        new   == (IF reuse THEN <<>> ELSE <<Track(name, w)>>)
                   \o (IF monitor THEN <<Track(Monitor, IF scene THEN w ELSE 2)>> ELSE <<>>)
        added == Inserted(new)
        bus   == IF reuse THEN IdAt(Min(Named(name))) ELSE added[Len(tracks) + 1].id
        mon   == added[Len(added)].id
        count == IF reuse THEN Len(tracks) ELSE Len(tracks) + 1
        found == Picked(stems, {k \in DOMAIN stems : stems[k] <= count})
        sends == [k \in DOMAIN found |->
                    IF lfe /\ ~scene THEN Wire(added[found[k]].id, 1, 3, TRUE)
                                     ELSE Wire(added[found[k]].id, w, 0, FALSE)]
    IN  /\ CanInsert(Len(new))
        /\ Len(receives[bus]) + Len(sends) <= MaxReceives
        /\ IF scene /\ found # stems THEN UNCHANGED <<tracks, receives>>
           ELSE /\ tracks' = [i \in DOMAIN added |-> IF scene /\ i \in Range(found)
                                                   THEN [added[i] EXCEPT !.nchan = w] ELSE added[i]]
                /\ receives' = [d \in Ids |->
                     IF d = bus THEN receives[d] \o Created(bus, sends)
                     ELSE IF monitor /\ d = mon THEN <<Wire(bus, IF scene THEN w ELSE 2, 0, FALSE)>>
                     ELSE receives[d]]
        /\ last' = Nothing

SpatializeStems ==
    /\ Counted
    /\ \E w \in Layouts, stems \in ObjectLists, scene, lfe, monitor \in BOOLEAN :
         Spatialize(w, stems, scene, lfe, monitor)

-----------------------------------------------------------------------------
(* spatial.orchestrate_sends *)

IsObject(i) == tracks[i].name[1] = "Object"
ObjectNumber(i) == tracks[i].name[2]

\* Mutant: the tracks as they are found, without the sort.
Discovered_Unsorted == Ascending({i \in DOMAIN tracks : IsObject(i)})

\* Without objectTracks: the tracks called "Object N", by N and then by position.
Discovered ==
    LET objects == {i \in DOMAIN tracks : IsObject(i)}
    IN  Sorted(objects, {p \in objects \X objects :
                            \/ ObjectNumber(p[1]) < ObjectNumber(p[2])
                            \/ ObjectNumber(p[1]) = ObjectNumber(p[2]) /\ p[1] < p[2]})

\* Mutant: strays are removed in the order they are found.
Pruned_Ascending(rs, strays) ==
    LET order == Ascending(strays)
        after[n \in 0..Cardinality(strays)] ==
          IF n = 0 THEN rs
          ELSE LET before == after[n - 1]
               IN  IF order[n] \in DOMAIN before THEN RemoveAt(before, order[n]) ELSE before
    IN  after[Cardinality(strays)]

\* The strays are removed from the last to the first, for the indices to hold.
Pruned(rs, strays) ==
    LET order == Descending(strays)
        after[n \in 0..Cardinality(strays)] == IF n = 0 THEN rs ELSE RemoveAt(after[n - 1], order[n])
    IN  after[Cardinality(strays)]

\* Mutant: a fix moves the receive, and leaves its width.
Fixed_DstOnly(rs, roster, at) ==
    [i \in DOMAIN rs |->
       IF \E k \in DOMAIN at : at[k] = i
       THEN [rs[i] EXCEPT !.dstChan = DstChan(roster[CHOOSE k \in DOMAIN at : at[k] = i].chan, FALSE)]
       ELSE rs[i]]

\* A fix points the receive at its channels again.
Fixed(rs, roster, at) ==
    [i \in DOMAIN rs |->
       IF \E k \in DOMAIN at : at[k] = i
       THEN LET e == roster[CHOOSE k \in DOMAIN at : at[k] = i]
            IN  IF Fits(e, Decode(rs[i])) THEN rs[i] ELSE Wire(e.src, e.width, e.chan, FALSE)
       ELSE rs[i]]

Added(roster, at) ==
    LET missing == Ascending({k \in DOMAIN at : at[k] = None})
    IN  [j \in DOMAIN missing |->
           LET e == roster[missing[j]] IN Wire(e.src, e.width, e.chan, FALSE)]

\* dryRun:false, with positions in range and within the limits; the other calls
\* change nothing.  CreateTrackSend may fail, and the entry is then skipped.
Orchestrate(r, bed, objs, prune, created) ==
    LET bedW   == IF bed = None THEN 0 ELSE tracks[bed].nchan
        roster == Roster(IdOrNone(bed), bedW, At(objs))
        bus    == IdAt(r)
        recon  == Reconcile(roster, Decoded(receives[bus]))
        fixed  == Fixed(receives[bus], roster, recon.at)
        kept   == IF prune THEN Pruned(fixed, recon.strays) ELSE fixed
        new    == IF created THEN Added(roster, recon.at) ELSE <<>>
    IN  /\ InRange(objs)
        /\ ~Fatal(bedW, Len(objs))
        /\ tracks' = Widened(tracks, r, TotalChannels(bedW, Len(objs)))
        /\ receives' = [receives EXCEPT ![bus] = kept \o Created(bus, new)]
        /\ last' = [verb |-> "orchestrate", bus |-> bus, bed |-> IdOrNone(bed), bedW |-> bedW,
                    objs |-> At(objs), clean |-> prune,
                    complete |-> \/ created /\ bus \notin Range(At(objs)) \cup {IdOrNone(bed)}
                                 \/ None \notin Range(recon.at)]

OrchestrateSends ==
    /\ Counted
    /\ \E r \in Buses, bed \in Beds, given \in ObjectLists \cup {<<>>}, prune, created \in BOOLEAN :
         /\ r \in DOMAIN tracks
         /\ bed \in {None} \cup DOMAIN tracks
         /\ Orchestrate(r, bed, IF given = <<>> THEN Discovered ELSE given, prune, created)

-----------------------------------------------------------------------------
Next ==
    \/ TrackAdd \/ TrackRemove \/ TrackSetName \/ SetTrackChannels \/ BuildBed
    \/ SendAdd \/ SendRemove \/ SendSetChannels
    \/ AuthorObjectBed \/ SetupImmersive \/ RenderAtmosLayout \/ SpatializeStems
    \/ OrchestrateSends

Spec == Init /\ [][Next]_vars

-----------------------------------------------------------------------------
(* Properties. *)

Promised == last.verb \in {"setup", "orchestrate"} /\ last.complete

Layout == Decoded(receives[last.bus])

\* The widest bed whose width code the six bits of decodeSend can hold.
Readable == last.bedW <= 126

\* "Re-running never stacks duplicates" (tools_spatial.cpp 4752): after a call that
\* could create its sends, the same call finds every one of them in place.  The
\* layout setup_immersive_session wires is one orchestrate_sends agrees with.
Settled ==
    Promised /\ Readable => AllReused(Roster(last.bed, last.bedW, last.objs), Layout)

\* A bus the session was set up with, or that orchestrate_sends has pruned, is what
\* analysis.send_layout_inspect calls a clean master, and is as wide as its sends.
CleanMaster ==
    Promised /\ last.clean /\ Readable /\ ~Fatal(last.bedW, Len(last.objs)) =>
      /\ Inspect(Layout, last.bedW, Len(last.objs)) = {}
      /\ \A i \in DOMAIN tracks : IdAt(i) = last.bus => Covered(Layout) <= tracks[i].nchan

\* The renaming of author_object_bed and the discovery of orchestrate_sends agree
\* on the objects and their order, if no other track has such a name.
RenamedAreFound ==
    /\ last.verb = "author" /\ Cardinality(Range(last.objs)) = Len(last.objs)
    /\ \A i \in DOMAIN tracks : IsObject(i) => IdAt(i) \in Range(last.objs)
    => At(Discovered) = last.objs

\* How many sends of a track a bus receives, with audio or without.
Sends(rs, s, audio) == Cardinality({k \in DOMAIN rs : rs[k].src = s /\ (rs[k].srcChan # NoAudio) = audio})

\* The places of a track in the layout of a call.
Places(l, s) ==
    Cardinality({k \in DOMAIN l.objs : l.objs[k] = s}) + (IF l.bed = s THEN 1 ELSE 0)

\* What a call l does to the sends of track s on bus d.
Spared(l, d, s) ==
    /\ Sends(receives'[d], s, FALSE) = Sends(receives[d], s, FALSE)
    /\ d # l.bus => receives'[d] = receives[d]
    /\ d = l.bus /\ l.complete =>
         Sends(receives'[d], s, TRUE) =
           IF l.clean THEN Places(l, s) ELSE Max({Sends(receives[d], s, TRUE), Places(l, s)})

\* orchestrate_sends never removes a send it has a place for, nor one without audio,
\* nor touches another bus: of each track the bus has as many sends as it has
\* places or, without prune, as it had when those were more.
OnlyStraysGo == [][last'.verb = "orchestrate" => \A d, s \in Ids : Spared(last', d, s)]_vars
=============================================================================
