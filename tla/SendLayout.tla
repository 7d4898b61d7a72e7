----------------------------- MODULE SendLayout -----------------------------
(***************************************************************************)
(* send_layout.h: the sends that feed a Dolby Atmos renderer's bus.  The   *)
(* bed takes the bus channels from 0, every mono object the next one; an   *)
(* existing send is matched against that roster, and the result inspected. *)
(***************************************************************************)
EXTENDS Integers, Sequences, FiniteSets, SequencesExt

CONSTANTS
    MaxRendererChannels,    \* kMaxRendererChannels (128)
    MaxObjects              \* kMaxObjects (118)

\* No track of REAPER is wider than 128 channels.
ASSUME LimitsAssumption == MaxRendererChannels \in 0..128 /\ MaxObjects \in Nat

\* No bed track, no matching receive.
None == 0

-----------------------------------------------------------------------------
(* REAPER's channel codes: ten bits of offset, then a width code. *)

ValidWidth(w) == w = 1 \/ (w > 0 /\ w % 2 = 0)

WidthCode(w) == IF w = 2 THEN 0 ELSE IF w = 1 THEN 1 ELSE w \div 2
CodeWidth(c) == IF c = 0 THEN 2 ELSE IF c = 1 THEN 1 ELSE c * 2

\* I_SRCCHAN and I_DSTCHAN of a send (encodeSend).
NoAudio == -1
SrcChan(off, w)    == (off % 1024) + 1024 * WidthCode(w)
DstChan(off, mono) == (off % 1024) + (IF mono THEN 1024 ELSE 0)

\* What decodeSend reads back from a receive.  The width code is masked with 0x3F.
Decode(x) ==
    LET audio == x.srcChan # NoAudio
    IN  [src    |-> x.src,
         audio  |-> audio,
         width  |-> IF audio THEN CodeWidth((x.srcChan \div 1024) % 64) ELSE 0,
         dstOff |-> x.dstChan % 1024]

Decoded(receives) == [i \in DOMAIN receives |-> Decode(receives[i])]

-----------------------------------------------------------------------------
(* The roster, and the limits of a Dolby Atmos master. *)

\* buildRoster: the bed, if there is one, on the channels from 0, then the objects.
BedEntry(bed, bedW) == IF bed # None /\ bedW > 0 THEN <<[src |-> bed, chan |-> 0, width |-> bedW]>>
                                                 ELSE <<>>
Roster(bed, bedW, objs) ==
    LET base == IF bed # None /\ bedW > 0 THEN bedW ELSE 0
    IN  BedEntry(bed, bedW)
          \o [k \in 1..Len(objs) |-> [src |-> objs[k], chan |-> base + k - 1, width |-> 1]]

\* rosterTotalChannels and the fatal ones of checkConstraints.
TotalChannels(bedW, n) == bedW + n
Fatal(bedW, n) == n > MaxObjects \/ TotalChannels(bedW, n) > MaxRendererChannels

-----------------------------------------------------------------------------
(* reconcile: each entry takes an exact send if one is left, else any send of *)
(* its source, the first in the bus's order.                                  *)

Fits(e, x) == x.src = e.src /\ x.dstOff = e.chan /\ x.width = e.width

Match(e, existing, free) ==
    LET exact == {i \in free : Fits(e, existing[i])}
        same  == {i \in free : existing[i].src = e.src}
    IN  IF exact # {} THEN Min(exact) ELSE IF same # {} THEN Min(same) ELSE None

\* at: the receive each entry takes, None if one must be added; strays: what is left.
Reconcile(roster, existing) ==
    LET after[n \in 0..Len(roster)] ==
          IF n = 0 THEN [at |-> <<>>, strays |-> {i \in DOMAIN existing : existing[i].audio}]
          ELSE LET before == after[n - 1]
                   taken  == Match(roster[n], existing, before.strays)
               IN  [at |-> Append(before.at, taken), strays |-> before.strays \ {taken}]
    IN  after[Len(roster)]

\* Every entry is reused: there is nothing left to do.
AllReused(roster, existing) ==
    LET at == Reconcile(roster, existing).at
    IN  \A k \in DOMAIN roster : at[k] # None /\ Fits(roster[k], existing[at[k]])

-----------------------------------------------------------------------------
(* inspect: the issues of a bus's incoming layout. *)

Wide(x)  == IF x.width > 1 THEN x.width ELSE 1
Top(x)   == x.dstOff + Wide(x)
Audio(existing) == {i \in DOMAIN existing : existing[i].audio}

Covered(existing) ==
    IF Audio(existing) = {} THEN 0 ELSE Max({Top(existing[i]) : i \in Audio(existing)})

Feeding(existing, c) ==
    {i \in Audio(existing) : existing[i].dstOff <= c /\ c < Top(existing[i])}

BedPresent(existing, bedW) ==
    \E i \in Audio(existing) : existing[i].dstOff = 0 /\ existing[i].width = bedW

Above(existing, bedW) == {i \in Audio(existing) : existing[i].dstOff >= bedW}
ObjectChannels(existing, bedW) == {i \in Above(existing, bedW) : existing[i].width = 1}

Inspect(existing, bedW, expected) ==
    LET channels == 0..(Covered(existing) - 1)
        objects  == Cardinality(ObjectChannels(existing, bedW))
        Has(code, holds) == IF holds THEN {code} ELSE {}
        otherBed == \E i \in Audio(existing) : existing[i].dstOff = 0 /\ existing[i].width # 1
    IN  UNION {
          Has("collision", \E c \in channels : Cardinality(Feeding(existing, c)) > 1),
          Has("gap", \E c \in channels : Feeding(existing, c) = {}),
          Has("bed_width_mismatch", bedW > 0 /\ ~BedPresent(existing, bedW) /\ otherBed),
          Has("bed_missing", bedW > 0 /\ ~BedPresent(existing, bedW) /\ ~otherBed),
          Has("object_width", Above(existing, bedW) # ObjectChannels(existing, bedW)),
          Has("over_118", objects > MaxObjects),
          Has("over_128", Covered(existing) > MaxRendererChannels),
          Has("unrouted", objects < expected)}
=============================================================================
