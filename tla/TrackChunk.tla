----------------------------- MODULE TrackChunk -----------------------------
(***************************************************************************)
(* A track's state chunk, as track_chunk.h reads it: lines that open a     *)
(* block, close one, or hold a key and its value.                          *)
(***************************************************************************)
EXTENDS Integers, Sequences, SequencesExt, FiniteSets

Open(name)    == [is |-> "open", key |-> name, value |-> 0]
Close         == [is |-> "close", key |-> "", value |-> 0]
Key(k, value) == [is |-> "key", key |-> k, value |-> value]

Nested(line, depth) ==
    depth + (IF line.is = "open" THEN 1 ELSE 0) - (IF line.is = "close" THEN 1 ELSE 0)

\* The block depth after each prefix of the chunk.
Depths(chunk) ==
    LET d[k \in 0..Len(chunk)] == IF k = 0 THEN 0 ELSE Nested(chunk[k], d[k - 1])
    IN  d

\* validateTrackChunk: a TRACK block that opens first and is closed, nothing closed twice.
ValidChunk(chunk) ==
    /\ chunk # <<>> /\ chunk[1] = Open("TRACK")
    /\ \A k \in 1..Len(chunk) : Depths(chunk)[k] >= 0
    /\ Depths(chunk)[Len(chunk)] = 0

\* diffTrackChunks, as far as a tool asks whether there is a difference.
Changed(before, after) == before # after

\* validateKeyPatches, for patches that are pairs of a bareword and a single line.
ValidPatches(patches) ==
    /\ patches # <<>>
    /\ \A i, j \in DOMAIN patches : patches[i][1] = patches[j][1] => i = j

\* The lines of the track's own block, not of a nested one, that hold the key.
KeyLines(chunk, key) ==
    {k \in DOMAIN chunk : chunk[k].is = "key" /\ chunk[k].key = key /\ Depths(chunk)[k] = 1}

MissingKeys(chunk, patches) == {i \in DOMAIN patches : KeyLines(chunk, patches[i][1]) = {}}

\* applyTrackChunkKeyPatches: the first line with the key of each patch gets its value.
Patched(chunk, patches) ==
    [k \in DOMAIN chunk |->
       IF \E i \in DOMAIN patches :
            LET at == KeyLines(chunk, patches[i][1])
            IN  k \in at /\ \A j \in at : k <= j
       THEN [chunk[k] EXCEPT !.value =
               patches[CHOOSE i \in DOMAIN patches : patches[i][1] = chunk[k].key][2]]
       ELSE chunk[k]]
=============================================================================
