------------------------------ MODULE ItemTools -----------------------------
(***************************************************************************)
(* tools_items.cpp: the items of a track and their takes, found by index.  *)
(***************************************************************************)
EXTENDS TrackTools

CONSTANTS ItemArgs      \* pairs of a track and an item index a call may name

Take(name) == [name |-> name, midi |-> FALSE, attr |-> NoAttr, notes |-> <<>>, ccs |-> <<>>, fx |-> <<>>]

Item(id, pos, len, takes) == [id |-> id, pos |-> pos, len |-> len, attr |-> NoAttr, takes |-> takes, active |-> 1]

ItemIds == UNION {{P.tracks[t].items[i].id : i \in DOMAIN P.tracks[t].items} : t \in DOMAIN P.tracks}

\* requireItem
IsItem(x) == IsTrack(x[1]) /\ x[2] \in DOMAIN P.tracks[x[1]].items

At(x) == P.tracks[x[1]].items[x[2]]

\* requireTake: the active take for a negative index.
TakeIndex(x, k) == IF k < 0 THEN At(x).active ELSE k
IsTake(x, k)    == TakeIndex(x, k) \in DOMAIN At(x).takes

\* REAPER keeps the items of a track in the order of their positions, so an index
\* may name another item after a move.
InOrder(items) == SortSeq(items, LAMBDA x, y : x.pos < y.pos \/ (x.pos = y.pos /\ x.id < y.id))

WithItems(p, t, items) == [p EXCEPT !.tracks[t].items = InOrder(items)]
WithItem(x, item)      == WithItems(P, x[1], [P.tracks[x[1]].items EXCEPT ![x[2]] = item])

\* A setter of one property of an item, or of a take.
SetsItem(tool, x, arg, item) == Returns(tool, <<x, arg>>, InBlock(Need(Now, IsItem(x)), WithItem(x, item)))

SetsTake(tool, x, k, arg, s, take) ==
    Returns(tool, <<x, k, arg>>,
            LET u == Need(s, IsItem(x))
                v == IF u.ok THEN Need(u, IsTake(x, k)) ELSE u
            IN  InBlock(v, WithItem(x, [At(x) EXCEPT !.takes[TakeIndex(x, k)] = take])))

-----------------------------------------------------------------------------
\* item.add, item.list
ItemAdd ==
    \E t \in TrackArgs :
      \/ Returns("item.add", <<t>>,
                 InBlock(Need(Now, IsTrack(t)),
                         WithItems(P, t, Append(P.tracks[t].items, Item(Free(ItemIds), 1, 1, <<>>)))))
      \/ Returns("item.list", <<t>>, Need(Now, IsTrack(t)))

\* item.set_position, set_length, set_mute: no negative positions and lengths.
SetPositionLengthMute ==
    \E x \in ItemArgs :
      \/ \E v \in {-1, 5} : SetsItem("item.set_position", x, v, [At(x) EXCEPT !.pos = Clamp(0, v, v)])
      \/ \E v \in {-1, 1} : SetsItem("item.set_length", x, v, [At(x) EXCEPT !.len = Clamp(0, v, v)])
      \/ \E on \in BOOLEAN : SetsItem("item.set_mute", x, on, With(At(x), "mute", Flag(on)))

\* item.set_vol, set_fade_in, set_fade_out
SetVolFades ==
    \E x \in ItemArgs :
      \/ SetsItem("item.set_vol", x, 6, With(At(x), "vol", 6))
      \/ \E v \in {-1, 1} :
           \/ SetsItem("item.set_fade_in", x, v, With(At(x), "fadein", Clamp(0, v, v)))
           \/ SetsItem("item.set_fade_out", x, v, With(At(x), "fadeout", Clamp(0, v, v)))

\* item.set_color, set_selected (which no undo brings back)
SetColorSelected ==
    \E x \in ItemArgs :
      \/ SetsItem("item.set_color", x, 255, With(At(x), "color", 255))
      \/ \E on \in BOOLEAN :
           Returns("item.set_selected", <<x, on>>,
                   Set(Need(Now, IsItem(x)),
                       [Now.ui EXCEPT !.items = IF on THEN @ \cup {At(x).id} ELSE @ \ {At(x).id}]))

\* SplitMediaItem: nothing outside the item.
Splits(x, pos) == At(x).pos < pos /\ pos < At(x).pos + At(x).len

\* item.split, item.delete
SplitDelete ==
    \E x \in ItemArgs :
      \/ \E pos \in {1, 9} :
           LET left  == [At(x) EXCEPT !.len = pos - At(x).pos]
               right == [At(x) EXCEPT !.id = Free(ItemIds), !.pos = pos, !.len = At(x).pos + At(x).len - pos]
               s     == Need(Now, IsItem(x))
           IN  Returns("item.split", <<x, pos>>,
                       IF s.ok /\ Splits(x, pos)
                       THEN InBlock(s, WithItems(WithItem(x, left), x[1], Append(WithItem(x, left).tracks[x[1]].items, right)))
                       ELSE Need(s, FALSE))
      \/ Returns("item.delete", <<x>>,
                 InBlock(Need(Now, IsItem(x)), WithItems(P, x[1], RemoveAt(P.tracks[x[1]].items, x[2]))))

\* Mutant: the move is not in an undo block.
ItemMove_NoBlock ==
    \E x \in ItemArgs, dest \in {0} \cup TrackArgs, pos \in {0, 5} :
      LET s    == Need(Now, IsItem(x))
          d    == IF s.ok /\ dest # 0 /\ dest # x[1] THEN Need(s, IsTrack(dest)) ELSE s
          item == IF pos = 0 THEN At(x) ELSE [At(x) EXCEPT !.pos = pos]
      IN  Returns("item.move", <<x, dest, pos>>,
                  Write(d, IF dest = 0 \/ dest = x[1] THEN WithItem(x, item)
                           ELSE WithItems(WithItems(P, x[1], RemoveAt(P.tracks[x[1]].items, x[2])),
                                          dest, Append(P.tracks[dest].items, item))))

\* item.move: the destination is looked up when the block is open.
ItemMove ==
    \E x \in ItemArgs, dest \in {0} \cup TrackArgs, pos \in {0, 5} :
      LET s    == Begin(Need(Now, IsItem(x)))
          d    == IF s.ok /\ dest # 0 /\ dest # x[1] THEN Need(s, IsTrack(dest)) ELSE s
          item == IF pos = 0 THEN At(x) ELSE [At(x) EXCEPT !.pos = pos]
      IN  Returns("item.move", <<x, dest, pos>>,
                  End(Write(d, IF dest = 0 \/ dest = x[1] THEN WithItem(x, item)
                               ELSE WithItems(WithItems(P, x[1], RemoveAt(P.tracks[x[1]].items, x[2])),
                                              dest, Append(P.tracks[dest].items, item)))))

-----------------------------------------------------------------------------
(* Main_OnCommand on the selected items. *)

\* The project when f has replaced every selected item by a sequence of items.
OnSelected(s, f(_)) ==
    [s.proj EXCEPT !.tracks = [t \in DOMAIN @ |->
       [@[t] EXCEPT !.items =
          InOrder(FlattenSeq([i \in DOMAIN @ |-> IF @[i].id \in s.ui.items THEN f(@[i]) ELSE <<@[i]>>]))]]]

\* One take with all that was set on the item and its takes rendered into it.
Glued(item)      == <<[item EXCEPT !.attr = NoAttr, !.takes = <<Take("glued")>>, !.active = 1]>>
Duplicated(item) == <<item, [item EXCEPT !.id = Free(ItemIds), !.pos = item.pos + item.len]>>
Shortened(item)  == IF Len(item.takes) < 2 THEN <<>>
                    ELSE <<[item EXCEPT !.takes = RemoveAt(@, item.active), !.active = 1]>>
Cropped(item)    == IF item.takes = <<>> THEN <<item>>
                    ELSE <<[item EXCEPT !.takes = <<@[item.active]>>, !.active = 1]>>

SelectItem(s, x) == Set(s, [s.ui EXCEPT !.items = {At(x).id}])

\* Mutant: the other items stay selected.
GlueDuplicate_KeepSelection ==
    \E x \in ItemArgs :
      LET s == Begin(Need(Now, IsItem(x)))
          u == Set(s, [s.ui EXCEPT !.items = @ \cup {At(x).id}])
      IN  \/ Returns("item.glue", <<x>>, End(Write(u, OnSelected(u, Glued))))
          \/ Returns("item.duplicate", <<x>>, End(Write(u, OnSelected(u, Duplicated))))

\* item.glue, item.duplicate: the item alone is selected for the command, and stays so.
GlueDuplicate ==
    \E x \in ItemArgs :
      LET s    == SelectItem(Begin(Need(Now, IsItem(x))), x)
          twin == Set(s, [s.ui EXCEPT !.items = {Free(ItemIds)}])
      IN  \/ Returns("item.glue", <<x>>, End(Write(s, OnSelected(s, Glued))))
          \/ Returns("item.duplicate", <<x>>, End(Write(twin, OnSelected(s, Duplicated))))

\* take.add, take.delete and take.crop_to_active
TakeAddDeleteCrop ==
    \E x \in ItemArgs :
      \/ \E active, works \in BOOLEAN :
           LET n == Len(At(x).takes) + 1
               item == [At(x) EXCEPT !.takes = Append(@, Take("new")), !.active = IF active \/ n = 1 THEN n ELSE @]
           IN  Returns("take.add", <<x, active>>,
                       Need(InBlock(Need(Now, IsItem(x)), IF works THEN WithItem(x, item) ELSE P), works))
      \/ \E k \in {-1, 1} :
           LET s == Need(Now, IsItem(x))
               u == IF s.ok THEN Need(s, IsTake(x, k) /\ Len(At(x).takes) > 1) ELSE s
               v == Write(Begin(u), WithItem(x, [At(x) EXCEPT !.active = TakeIndex(x, k)]))
           IN  Returns("take.delete", <<x, k>>,
                       End(Write(SelectItem(v, x), OnSelected(SelectItem(v, x), Shortened))))
      \/ LET s == SelectItem(Begin(Need(Now, IsItem(x))), x)
         IN  Returns("take.crop_to_active", <<x>>, End(Write(s, OnSelected(s, Cropped))))

\* take.set_vol, set_pan, set_pitch, set_playrate (which takes no rate of 0)
TakeSetters ==
    \E x \in ItemArgs, k \in {-1, 2} :
      LET take == At(x).takes[TakeIndex(x, k)]
      IN  \/ SetsTake("take.set_vol", x, k, 6, Now, With(take, "vol", 6))
          \/ SetsTake("take.set_pan", x, k, 2, Now, With(take, "pan", Clamp(-1, 1, 2)))
          \/ SetsTake("take.set_pitch", x, k, 7, Now, With(With(take, "pitch", 7), "keep", 1))
          \/ \E rate \in {0, 2} : SetsTake("take.set_playrate", x, k, rate, Need(Now, rate > 0), With(take, "rate", rate))

\* The items that are selected, in the order of the project.
Selected(s) ==
    SelectSeq(FlattenSeq([t \in DOMAIN s.proj.tracks |-> s.proj.tracks[t].items]),
              LAMBDA item : item.id \in s.ui.items)

\* The takes of all selected items go to the first of them.
Imploded(s) ==
    LET all == Selected(s)
        f(item) == IF item # all[1] THEN <<>>
                   ELSE <<[item EXCEPT !.takes = FlattenSeq([k \in DOMAIN all |-> all[k].takes])]>>
    IN  IF all = <<>> THEN s.proj ELSE OnSelected(s, f)

AreItems(list) == \A k \in DOMAIN list : IsItem(list[k])

\* What is selected for the implosion: what the user has selected, or the listed items, up
\* to the first there is none of.
Chosen(s, list) ==
    IF list = <<>> THEN s.ui.items
    ELSE {At(list[k]).id : k \in {j \in DOMAIN list : AreItems(SubSeq(list, 1, j))}}

\* items.implode_to_takes: of the selection or of listed items, each looked up when
\* the block is open and the ones before it are selected.
Implode ==
    \E list \in {<<>>} \cup (ItemArgs \X ItemArgs) :
      LET s == Begin(Now)
          u == Need(Set(s, [s.ui EXCEPT !.items = Chosen(s, list)]), AreItems(list))
      IN  Returns("items.implode_to_takes", list, End(Write(u, Imploded(u))))

ItemNext ==
    \/ ItemAdd \/ SetPositionLengthMute \/ SetVolFades \/ SetColorSelected \/ SplitDelete \/ ItemMove
    \/ GlueDuplicate \/ TakeAddDeleteCrop \/ TakeSetters \/ Implode
=============================================================================
