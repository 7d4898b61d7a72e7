------------------------------ MODULE MidiTools -----------------------------
(***************************************************************************)
(* tools_midi.cpp and groove.h: the notes and controllers of a take, found *)
(* by index.  Beats are counted in a unit small enough for whole numbers;  *)
(* strength and swing are counted in halves, factors and scales too.       *)
(***************************************************************************)
EXTENDS ItemTools

\* Notes and controllers keep a number of their own, whatever index they have.
Note(id, start, len, pitch, vel, sel) ==
    [id |-> id, start |-> start, len |-> len, pitch |-> pitch, vel |-> vel, sel |-> sel]

CC(id, at, type, msg2, msg3) == [id |-> id, start |-> at, type |-> type, msg2 |-> msg2, msg3 |-> msg3]

MidiTake(notes, ccs) == [Take("midi") EXCEPT !.midi = TRUE, !.notes = notes, !.ccs = ccs]

\* MIDI_Sort
Sorted(evts) == SortSeq(evts, LAMBDA x, y : x.start < y.start \/ (x.start = y.start /\ x.id < y.id))

NewId(evts) == 1 + Max({0} \cup {evts[k].id : k \in DOMAIN evts})

\* The active take of an item, which the calls name by leaving the take out.
The(x) == At(x).takes[At(x).active]

HasTake(s, x) ==
    LET u == Need(s, IsItem(x))
    IN  IF u.ok THEN Need(u, IsTake(x, -1)) ELSE u

IsMidi(s, x) ==
    LET u == HasTake(s, x)
    IN  IF u.ok THEN Need(u, The(x).midi) ELSE u

WithTake(x, take)   == WithItem(x, [At(x) EXCEPT !.takes[At(x).active] = take])
WithNotes(x, notes) == WithTake(x, [The(x) EXCEPT !.notes = notes])
WithCCs(x, ccs)     == WithTake(x, [The(x) EXCEPT !.ccs = ccs])

-----------------------------------------------------------------------------
(* groove.h *)

\* Division to the nearest, halves away from zero (llround).
Nearest(a, b) == IF a >= 0 THEN (2 * a + b) \div (2 * b) ELSE -((b - 2 * a) \div (2 * b))

quantizePos(beat, grid, strength, swing) ==
    LET idx    == Nearest(beat, grid)
        target == idx * grid + (IF idx % 2 # 0 THEN (swing * grid) \div 2 ELSE 0)
    IN  IF grid <= 0 \/ strength <= 0 THEN beat
        ELSE beat + (Clamp(0, 2, strength) * (target - beat)) \div 2

scaleVelocity(v, scale, offset, center) == Clamp(1, 127, center + Nearest((v - center) * scale, 2) + offset)

\* Refuses to leave the range of pitches.
transposePitch(pitch, semis) == IF pitch + semis \in 0..127 THEN pitch + semis ELSE pitch

stretchPos(beat, anchor, factor) == anchor + ((beat - anchor) * factor) \div 2

grooveSlot(beat, grid, n) == IF grid <= 0 \/ n <= 0 THEN 0 ELSE Nearest(beat, grid) % n

\* applyGroove: each slot of the template shifts and scales (in halves).
applyGroove(note, grid, template, strength) ==
    LET slot  == template[grooveSlot(note.start, grid, Len(template)) + 1]
        share == Clamp(0, 2, strength)
    IN  [note EXCEPT !.start = @ + (share * slot.shift) \div 2,
                     !.vel = Clamp(1, 127, Nearest(@ * (4 + share * (slot.scale - 2)), 4))]

\* legatoLengths, of notes in the order of their starts: up to the next one's start.
legatoLengths(notes, gap, minLen) ==
    [k \in DOMAIN notes |->
       IF k = Len(notes) THEN notes[k].len
       ELSE LET len == notes[k + 1].start - gap - notes[k].start
            IN  IF len < minLen THEN minLen ELSE len]

-----------------------------------------------------------------------------
(* Items and takes. *)

\* midi.create_item, take.list
CreateItem ==
    \/ \E t \in TrackArgs, works \in BOOLEAN :
         LET item == Item(Free(ItemIds), 1, 2, <<MidiTake(<<>>, <<>>)>>)
         IN  Returns("midi.create_item", <<t>>,
                     Need(InBlock(Need(Now, IsTrack(t)),
                                  IF works THEN WithItems(P, t, Append(P.tracks[t].items, item)) ELSE P), works))
    \/ \E x \in ItemArgs : Returns("take.list", <<x>>, Need(Now, IsItem(x)))

\* take.set_active, take.set_name
TakeActiveName ==
    \E x \in ItemArgs, k \in {-1, 1, 2} :
      LET u == Need(Now, IsItem(x))
          s == IF u.ok THEN Need(u, IsTake(x, k)) ELSE u
      IN  \/ Returns("take.set_active", <<x, k>>,
                     InBlock(s, WithItem(x, [At(x) EXCEPT !.active = TakeIndex(x, k)])))
          \/ Returns("take.set_name", <<x, k, "new">>,
                     InBlock(s, WithItem(x, [At(x) EXCEPT !.takes[TakeIndex(x, k)].name = "new"])))

-----------------------------------------------------------------------------
(* Single notes and controllers. *)

\* midi.insert_note, midi.list_notes
InsertNote ==
    \E x \in ItemArgs :
      \/ \E works \in BOOLEAN, pitch \in {60, 72} :
           LET new == Note(NewId(The(x).notes), 1, 1, pitch, 96, FALSE)
           IN  Returns("midi.insert_note", <<x, pitch>>,
                       Need(InBlock(IsMidi(Now, x),
                                    IF works THEN WithNotes(x, Sorted(Append(The(x).notes, new))) ELSE P), works))
      \/ Returns("midi.list_notes", <<x>>, HasTake(Now, x))

\* midi.delete_note: there is nothing at an index out of range, and nothing in audio.
DeleteNote ==
    \E x \in ItemArgs, k \in {1, 9} :
      LET s  == HasTake(Now, x)
          ok == s.ok /\ k \in DOMAIN The(x).notes
      IN  Returns("midi.delete_note", <<x, k>>,
                  Need(InBlock(s, IF ok THEN WithNotes(x, Sorted(RemoveAt(The(x).notes, k))) ELSE P), ok))

\* The data bytes of a message: seven bits each, the value of a pitch bend in two.
Msg(type, cc, value) ==
    CASE type = "cc"    -> <<cc % 128, value % 128>>
      [] type = "pitch" -> <<value % 128, (value \div 128) % 128>>
      [] OTHER          -> <<value % 128, 0>>

\* midi.insert_cc, midi.list_cc
InsertCC ==
    \E x \in ItemArgs :
      \/ \E type \in {"cc", "pitch", "program"}, value \in {5, 300}, works \in BOOLEAN :
           LET m == Msg(type, 1, value)
           IN  Returns("midi.insert_cc", <<x, type, value>>,
                       Need(InBlock(IsMidi(Now, x),
                                    IF works THEN WithCCs(x, Sorted(Append(The(x).ccs, CC(NewId(The(x).ccs), 1, type, m[1], m[2]))))
                                    ELSE P), works))
      \/ Returns("midi.list_cc", <<x>>, HasTake(Now, x))

\* midi.delete_cc
DeleteCC ==
    \E x \in ItemArgs, k \in {1, 9} :
      LET s  == HasTake(Now, x)
          ok == s.ok /\ k \in DOMAIN The(x).ccs
      IN  Returns("midi.delete_cc", <<x, k>>,
                  Need(InBlock(s, IF ok THEN WithCCs(x, Sorted(RemoveAt(The(x).ccs, k))) ELSE P), ok))

\* midi.set_note: the index is looked up before the block, and may name another note afterwards.
SetNote ==
    \E x \in ItemArgs, k \in {1, 9}, move \in BOOLEAN, works \in BOOLEAN :
      LET u    == IsMidi(Now, x)
          s    == IF u.ok THEN Need(u, k \in DOMAIN The(x).notes) ELSE u
          note == IF move THEN [The(x).notes[k] EXCEPT !.start = 9] ELSE [The(x).notes[k] EXCEPT !.vel = 1]
      IN  Returns("midi.set_note", <<x, k, move>>,
                  Need(InBlock(s, IF works THEN WithNotes(x, Sorted([The(x).notes EXCEPT ![k] = note])) ELSE P), works))

\* midi.set_cc: a controller number for a controller only.
SetCC ==
    \E x \in ItemArgs, k \in {1, 9}, move \in BOOLEAN, value \in {5, 300} :
      LET u  == IsMidi(Now, x)
          s  == IF u.ok THEN Need(u, k \in DOMAIN The(x).ccs) ELSE u
          cc == The(x).ccs[k]
          m  == Msg(cc.type, IF move THEN 7 ELSE cc.msg2, value)
          new == [cc EXCEPT !.start = IF move THEN 9 ELSE @, !.msg2 = m[1],
                            !.msg3 = IF cc.type \in {"cc", "pitch"} THEN m[2] ELSE @]
      IN  Returns("midi.set_cc", <<x, k, move, value>>,
                  InBlock(s, WithCCs(x, Sorted([The(x).ccs EXCEPT ![k] = new]))))

\* midi.insert_notes: all are checked before one is inserted.
InsertNotes ==
    \E x \in ItemArgs, list \in {<<>>, <<62, -1>>, <<62, 64>>} :
      LET s   == Need(Now, list # <<>> /\ \A k \in DOMAIN list : list[k] >= 0)
          id  == NewId(The(x).notes)
          new == [k \in DOMAIN list |-> Note(id + k - 1, 4 - k, 1, list[k], 96, FALSE)]
      IN  Returns("midi.insert_notes", <<x, list>>,
                  InBlock(IsMidi(s, x), WithNotes(x, Sorted(The(x).notes \o new))))

-----------------------------------------------------------------------------
(* Batches: all notes are read, then each is written at the index it was read *)
(* at, then the take is sorted.                                               *)

\* readNoteRecs, writeNote for each with sorting deferred, MIDI_Sort.
Rewritten(notes, recs) == Sorted(recs)

\* f of all notes, or of the selected ones.
Batch(tool, x, args, selectedOnly, s, f(_)) ==
    Returns(tool, <<x, selectedOnly>> \o args,
            InBlock(IsMidi(s, x),
                    WithNotes(x, Rewritten(The(x).notes,
                      [k \in DOMAIN The(x).notes |->
                         IF selectedOnly /\ ~The(x).notes[k].sel THEN The(x).notes[k] ELSE f(The(x).notes[k])]))))

\* No note starts before the item.
Pinned(note, start) == [note EXCEPT !.start = Clamp(0, start, start)]

\* midi.select_notes: all, or the ones in a range of pitches and starts.
SelectNotes ==
    \E x \in ItemArgs, select \in BOOLEAN, pMin \in {0, 64}, sbMax \in {3, 99} :
      Batch("midi.select_notes", x, <<select, pMin, sbMax>>, FALSE, Now,
            LAMBDA n : IF n.pitch >= pMin /\ n.start < sbMax THEN [n EXCEPT !.sel = select] ELSE n)

\* midi.quantize: an end that would meet its start keeps the length.
Quantize ==
    \E x \in ItemArgs, selOnly, qEnds \in BOOLEAN, swing \in {0, 1} :
      LET f(n) == LET u   == Pinned(n, quantizePos(n.start, 4, 2, swing))
                      len == quantizePos(n.start + n.len, 4, 2, swing) - u.start
                  IN  IF qEnds /\ len >= 1 THEN [u EXCEPT !.len = len] ELSE u
      IN  Batch("midi.quantize", x, <<qEnds, swing>>, selOnly, Now, f)

\* midi.humanize: the generator's numbers are arbitrary.
Humanize ==
    \E x \in ItemArgs, selOnly \in BOOLEAN, early \in SUBSET {1, 2} :
      LET f(n) == LET d == IF n.id \in early THEN -2 ELSE 2
                  IN  [Pinned(n, n.start + d) EXCEPT !.vel = Clamp(1, 127, @ + 20 * d)]
      IN  Batch("midi.humanize", x, <<early>>, selOnly, Now, f)

\* midi.apply_groove with a template, a named groove (which swings), or neither.
ApplyGroove ==
    \E x \in ItemArgs, selOnly \in BOOLEAN, by \in {"template", "groove", "none"} :
      LET template == <<[shift |-> 0, scale |-> 2],
                        IF by = "template" THEN [shift |-> -4, scale |-> 3] ELSE [shift |-> 2, scale |-> 2]>>
          f(n) == LET g == applyGroove(n, 3, template, 2) IN Pinned(g, g.start)
      IN  Batch("midi.apply_groove", x, <<by>>, selOnly, Need(Now, by # "none"), f)

ExtractGroove == \E x \in ItemArgs : Returns("midi.extract_groove", <<x>>, IsMidi(Now, x))

\* midi.transpose, midi.scale_velocity
TransposeScale ==
    \E x \in ItemArgs, selOnly \in BOOLEAN :
      \/ \E semis \in {-61, 2} :
           Batch("midi.transpose", x, <<semis>>, selOnly, Now,
                 LAMBDA n : [n EXCEPT !.pitch = transposePitch(@, semis)])
      \/ \E scale \in {1, 6} :
           Batch("midi.scale_velocity", x, <<scale>>, selOnly, Now,
                 LAMBDA n : [n EXCEPT !.vel = scaleVelocity(@, scale, 0, 64)])

\* midi.legato: of the chosen notes, in the order of their starts.
Legato ==
    \E x \in ItemArgs, selOnly \in BOOLEAN, gap \in {0, 2} :
      LET proc == SelectSeq(Sorted(The(x).notes), LAMBDA n : ~selOnly \/ n.sel)
          lens == legatoLengths(proc, gap, 1)
          f(n) == [n EXCEPT !.len = lens[CHOOSE k \in DOMAIN proc : proc[k].id = n.id]]
      IN  Batch("midi.legato", x, <<gap>>, selOnly, Now, f)

\* midi.nudge, midi.stretch
NudgeStretch ==
    \E x \in ItemArgs, selOnly \in BOOLEAN :
      \/ \E beats \in {-2, 4} :
           Batch("midi.nudge", x, <<beats>>, selOnly, Now, LAMBDA n : Pinned(n, n.start + beats))
      \/ \E factor \in {0, 4} :
           Batch("midi.stretch", x, <<factor>>, selOnly, Need(Now, factor > 0),
                 LAMBDA n : [Pinned(n, stretchPos(n.start, 2, factor)) EXCEPT !.len = (@ * factor) \div 2])

MidiNext ==
    \/ CreateItem \/ TakeActiveName \/ InsertNote \/ DeleteNote \/ InsertCC \/ DeleteCC \/ SetNote \/ SetCC
    \/ InsertNotes \/ SelectNotes \/ Quantize \/ Humanize \/ ApplyGroove \/ ExtractGroove \/ TransposeScale
    \/ Legato \/ NudgeStretch
=============================================================================
