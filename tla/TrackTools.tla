----------------------------- MODULE TrackTools -----------------------------
(***************************************************************************)
(* tools_core.cpp: transport, project, track, undo and selection tools.    *)
(***************************************************************************)
EXTENDS Project, TrackChunk

-----------------------------------------------------------------------------
(* Transport and project. *)

\* transport.get_state, transport.set, set_repeat, set_playrate (in quarters of the
\* normal rate), set_metronome: none is undoable.
Transport ==
    \/ Returns("transport.get_state", <<>>, Now)
    \/ \E action \in {"play", "stop", "jump"} :
         Returns("transport.set", <<action>>,
                 Set(Need(Now, action # "jump"), [Now.ui EXCEPT !.playing = action]))
    \/ Returns("transport.set", <<"goto">>, Set(Now, [Now.ui EXCEPT !.cursor = 1]))
    \/ \E on \in BOOLEAN :
         Returns("transport.set_repeat", <<on>>, Set(Now, [Now.ui EXCEPT !.repeat = on]))
    \/ \E r \in {0, 8, 20} :
         Returns("transport.set_playrate", <<r>>, Set(Now, [Now.ui EXCEPT !.rate = Clamp(1, 16, r)]))
    \/ \E on \in BOOLEAN :
         Returns("transport.set_metronome", <<on>>,
                 IF Now.ui.click # on THEN Set(Now, [Now.ui EXCEPT !.click = ~@]) ELSE Now)

\* project.get_summary, project.save: with a path, or to the file there is.
ProjectSave ==
    \/ Returns("project.get_summary", <<>>, Now)
    \/ \E path \in BOOLEAN :
         Returns("project.save", <<path>>,
                 LET s == Need(Now, path \/ Now.file # <<>>)
                 IN  IF s.ok THEN [s EXCEPT !.file = <<s.proj>>] ELSE s)

\* IsProjectDirty: edits that made no undo point may or may not count.
Dirty(s) ==
    IF s.file # <<>> /\ s.proj = s.file[1] THEN {FALSE}
    ELSE IF s.file # <<>> /\ s.points[s.at] = s.file[1] THEN BOOLEAN ELSE {TRUE}

\* project.open, project.new: refused while there is something to save.
ProjectOpen ==
    \/ \E found, discard \in BOOLEAN : \E dirty \in Dirty(Now) :
         Returns("project.open", <<found, discard>>,
                 LET s == Need(Need(Now, found /\ Now.file # <<>>), discard \/ ~dirty)
                 IN  IF s.ok THEN Loaded(s, s.file[1]) ELSE s)
    \/ \E dirty \in Dirty(Now) :
         Returns("project.new", <<>>,
                 LET s == Need(Now, ~dirty)
                 IN  IF s.ok THEN [Loaded(s, Empty) EXCEPT !.file = <<>>] ELSE s)

\* Mutant: a preview returns before it puts the settings back.
ProjectRender_DryForgets ==
    \E path, dry \in BOOLEAN :
      LET s    == Set(Now, [Now.ui EXCEPT !.render = IF path THEN "call" ELSE @])
          done == IF dry THEN s ELSE Set(Rendered(s), Now.ui)
      IN  IF dry THEN Previews("project.render", <<path>>, done) ELSE Returns("project.render", <<path>>, done)

\* project.render: the RENDER_ settings are set, used and put back, also by a preview.
ProjectRender ==
    \E path, dry \in BOOLEAN :
      LET s    == Set(Now, [Now.ui EXCEPT !.render = IF path THEN "call" ELSE @])
          done == Set(IF dry THEN s ELSE Rendered(s), Now.ui)
      IN  IF dry THEN Previews("project.render", <<path>>, done) ELSE Returns("project.render", <<path>>, done)

-----------------------------------------------------------------------------
(* Tracks. *)

\* track.add at an index, or at the end.  The name goes to the track that stands at
\* the index afterwards: past the end there is none, and REAPER has added it at the end.
TrackAdd ==
    \E i \in 1..(Len(P.tracks) + 2) :
      LET new   == Track(Free(Ids), IF i <= Len(P.tracks) + 1 THEN "new" ELSE "")
          place == IF i <= Len(P.tracks) THEN i ELSE Len(P.tracks) + 1
      IN  Returns("track.add", <<i>>, InBlock(Now, [P EXCEPT !.tracks = InsertAt(@, place, new)]))

\* track.set_fader, pan held in -1..1.
SetFader ==
    \E t \in TrackArgs, db \in {0, 6}, pan \in {0, 2} :
      Returns("track.set_fader", <<t, db, pan>>,
              InBlock(Need(Now, IsTrack(t)),
                      WithTrack(t, With(With(P.tracks[t], "vol", db), "pan", Clamp(-1, 1, pan)))))

\* The state chunk of a track: its name, its width and its items.
StateChunk(x) ==
    <<Open("TRACK"), Key("NAME", x.name), Key("NCHAN", x.nchan)>>
      \o FlattenSeq([i \in DOMAIN x.items |-> <<Open("ITEM"), Key("POSITION", x.items[i].pos), Close>>])
      \o <<Close>>

\* SetTrackStateChunk
WithChunk(x, chunk) ==
    LET items == SelectSeq(chunk, LAMBDA line : line.key = "POSITION")
    IN  [x EXCEPT !.name = chunk[2].value, !.nchan = chunk[3].value,
                  !.items = [i \in DOMAIN items |-> [x.items[i] EXCEPT !.pos = items[i].value]]]

\* What both chunk tools do with a proposed chunk: nothing for one that changes
\* nothing, a preview, a request for consent, or the write in a transaction.
Applies(tool, args, s, t, chunk) ==
    IF s.ok /\ Changed(StateChunk(P.tracks[t]), chunk)
    THEN \/ Previews(tool, args, s)
         \/ Returns(tool, Append(args, "unconfirmed"), Need(s, FALSE))
         \/ \E works \in BOOLEAN :
              Returns(tool, Append(args, "confirmed"),
                      InTransaction(s, WithTrack(t, WithChunk(P.tracks[t], chunk)), works))
    ELSE Returns(tool, args, s)

\* track.set_state_chunk: a chunk that is none, or of the track without its items.
SetStateChunk ==
    \E t \in TrackArgs, valid \in BOOLEAN :
      LET chunk == IF valid THEN StateChunk([P.tracks[t] EXCEPT !.items = <<>>]) ELSE <<Open("TRACK")>>
          s     == IF valid THEN Need(Now, IsTrack(t)) ELSE Need(Now, ValidChunk(chunk))
      IN  Applies("track.set_state_chunk", <<t, valid>>, s, t, chunk)

\* track.patch_state
PatchState ==
    \E t \in TrackArgs, patches \in {<<<<"NAME", "new">>>>, <<<<"POSITION", 7>>>>,
                                     <<<<"NCHAN", 4>>, <<"NAME", "b">>>>, <<<<"NAME", "b">>, <<"NAME", "a">>>>} :
      LET old == StateChunk(P.tracks[t])
          s   == Need(Need(Now, ValidPatches(patches)), IsTrack(t))
          u   == IF s.ok THEN Need(Need(s, MissingKeys(old, patches) = {}), ValidChunk(Patched(old, patches)))
                 ELSE s
      IN  Applies("track.patch_state", <<t, patches>>, u, t, Patched(old, patches))

\* track.list, track.select: alone unless exclusive is false.
TrackSelect ==
    \/ Returns("track.list", <<>>, Now)
    \/ \E t \in TrackArgs, exclusive \in BOOLEAN :
         LET s == Need(Now, IsTrack(t))
         IN  Returns("track.select", <<t, exclusive>>,
                     Select(s, {P.tracks[t].id} \cup (IF exclusive THEN {} ELSE s.ui.tracks)))

\* track.remove: REAPER drops the sends to the track with it.
TrackRemove ==
    \E t \in TrackArgs :
      Returns("track.remove", <<t>>, InBlock(Need(Now, IsTrack(t)), WithoutTrack(P, t)))

\* track.get_name, track.set_name
SetName ==
    \E t \in TrackArgs :
      \/ Returns("track.get_name", <<t>>, Need(Now, IsTrack(t)))
      \/ \E name \in {"a", "new"} :
           Returns("track.set_name", <<t, name>>,
                   InBlock(Need(Now, IsTrack(t)), WithTrack(t, [P.tracks[t] EXCEPT !.name = name])))

\* A setter of one attribute of a track.
SetsTrack(tool, t, arg, a, v) ==
    Returns(tool, <<t, arg>>, InBlock(Need(Now, IsTrack(t)), WithTrack(t, With(P.tracks[t], a, v))))

\* track.set_mute, set_solo, set_phase, set_width
SetMuteSoloPhaseWidth ==
    \E t \in TrackArgs :
      \/ \E on \in BOOLEAN :
           \/ SetsTrack("track.set_mute", t, on, "mute", Flag(on))
           \/ SetsTrack("track.set_solo", t, on, "solo", 2 * Flag(on))
           \/ SetsTrack("track.set_phase", t, on, "phase", Flag(on))
      \/ \E w \in {-2, 0} : SetsTrack("track.set_width", t, w, "width", Clamp(-1, 1, w))

\* track.set_color, set_rec_arm, set_rec_input, set_rec_mon
SetColorRecArmInputMon ==
    \E t \in TrackArgs :
      \/ \E rgb \in {0, 255} : SetsTrack("track.set_color", t, rgb, "color", rgb)
      \/ \E on \in BOOLEAN : SetsTrack("track.set_rec_arm", t, on, "recarm", Flag(on))
      \/ \E input \in {-1, 0} : SetsTrack("track.set_rec_input", t, input, "recinput", input)
      \/ \E m \in {-1, 3} : SetsTrack("track.set_rec_mon", t, m, "recmon", Clamp(0, 2, m))

\* track.set_rec_mode, set_folder with or without compact
SetRecModeFolder ==
    \E t \in TrackArgs :
      \/ \E m \in {-1, 9} : SetsTrack("track.set_rec_mode", t, m, "recmode", Clamp(0, 8, m))
      \/ \E d \in {0, 1} : SetsTrack("track.set_folder", t, d, "folderdepth", d)
      \/ Returns("track.set_folder", <<t, 1, 3>>,
                 InBlock(Need(Now, IsTrack(t)),
                         WithTrack(t, With(With(P.tracks[t], "folderdepth", 1), "foldercompact", Clamp(0, 2, 3)))))

\* Main_OnCommand of freeze and unfreeze acts on every selected track; the items and
\* effects of a frozen track are off it until it is unfrozen, one freeze at a time.
Freezes(s)   == [s.proj EXCEPT !.tracks = [t \in DOMAIN @ |->
                   IF @[t].id \in s.ui.tracks /\ @[t].frozen < 2 THEN [@[t] EXCEPT !.frozen = @ + 1] ELSE @[t]]]
Unfreezes(s) == [s.proj EXCEPT !.tracks = [t \in DOMAIN @ |->
                   IF @[t].id \in s.ui.tracks /\ @[t].frozen > 0 THEN [@[t] EXCEPT !.frozen = @ - 1] ELSE @[t]]]

\* track.freeze with a mode there is and one there is not: the selection is lent.
TrackFreeze ==
    \E t \in TrackArgs, stereo \in BOOLEAN :
      LET s == Select(Need(Need(Now, stereo), IsTrack(t)), {P.tracks[t].id})
      IN  Returns("track.freeze", <<t, stereo>>, Select(InBlock(s, Freezes(s)), Now.ui.tracks))

\* track.unfreeze
TrackUnfreeze ==
    \E t \in TrackArgs :
      LET s == Select(Need(Now, IsTrack(t)), {P.tracks[t].id})
      IN  Returns("track.unfreeze", <<t>>, Select(InBlock(s, Unfreezes(s)), Now.ui.tracks))

\* track.get, track.get_peak: of a track that is there.
TrackGet ==
    \E tool \in {"track.get", "track.get_peak"}, t \in TrackArgs : Returns(tool, <<t>>, Need(Now, IsTrack(t)))

-----------------------------------------------------------------------------
(* Undo and selection. *)

\* edit.undo, edit.redo, edit.get_undo_state.  What Undo_DoUndo2 does while a block is
\* open is REAPER's business: nothing, the open block's edits, or the last point.
\* Not counted as calls: the user has them too.
Undo ==
    /\ call' = [None EXCEPT !.tool = "edit.undo"]
    /\ reaper' \in {[s EXCEPT !.ok = s # Now] :
                      s \in IF Now.depth = 0 THEN {Undone(Now)}
                            ELSE {Now, [Now EXCEPT !.proj = Now.base[1]], Undone(Now)}}
    /\ UNCHANGED <<calls, kit>>

Redo ==
    /\ call' = [None EXCEPT !.tool = "edit.redo"]
    /\ \/ /\ Now.at < Len(Now.points)
          /\ reaper' = [Now EXCEPT !.at = @ + 1, !.proj = Now.points[Now.at + 1]]
       \/ /\ Now.at = Len(Now.points) \/ Now.depth > 0
          /\ reaper' = Need(Now, FALSE)
    /\ UNCHANGED <<calls, kit>>

UndoState == Returns("edit.get_undo_state", <<>>, Now)

\* selection.get, selection.set: numbers there are no tracks or items for are skipped.
Selection ==
    \/ Returns("selection.get", <<>>, Now)
    \/ \E deselect \in BOOLEAN, ts \in {<<>>, <<{}>>, <<{1, 9}>>}, is \in {<<>>, <<{<<1, 1>>, <<1, 9>>}>>} :
         LET kept(there, ids) == IF deselect \/ there # <<>> THEN {} ELSE ids
             tracks == IF ts = <<>> THEN {} ELSE {P.tracks[t].id : t \in ts[1] \cap DOMAIN P.tracks}
             items  == IF is = <<>> THEN {} ELSE {P.tracks[x[1]].items[x[2]].id :
                         x \in {x \in is[1] : IsTrack(x[1]) /\ x[2] \in DOMAIN P.tracks[x[1]].items}}
         IN  Returns("selection.set", <<deselect, ts, is>>,
                     Set(Now, [Now.ui EXCEPT !.tracks = kept(ts, @) \cup tracks, !.items = kept(is, @) \cup items]))

TrackNext ==
    \/ Transport \/ ProjectSave \/ ProjectOpen \/ ProjectRender
    \/ TrackAdd \/ SetFader \/ SetStateChunk \/ PatchState \/ TrackSelect \/ TrackRemove \/ SetName
    \/ SetMuteSoloPhaseWidth \/ SetColorRecArmInputMon \/ SetRecModeFolder
    \/ TrackFreeze \/ TrackUnfreeze \/ TrackGet \/ UndoState \/ Selection
=============================================================================
