--------------------------- MODULE SendLayoutProofs --------------------------
(***************************************************************************)
(* What the codec and the roster of send_layout.h do for every width,      *)
(* offset and number of objects.                                           *)
(***************************************************************************)
EXTENDS SendLayout, SequenceTheorems, FunctionTheorems, FiniteSetTheorems, TLAPS

\* A width code is read back as the width it stands for.
LEMMA CodeInverse ==
    ASSUME NEW w \in Nat, ValidWidth(w)
    PROVE  WidthCode(w) \in Nat /\ CodeWidth(WidthCode(w)) = w
<1>1. CASE w = 1
  BY <1>1 DEF WidthCode, CodeWidth
<1>2. CASE w = 2
  BY <1>2 DEF WidthCode, CodeWidth
<1>3. CASE w # 1 /\ w # 2
  <2>1. w > 2 /\ w % 2 = 0
    BY <1>3 DEF ValidWidth
  <2>2. w \div 2 \in Nat /\ w = 2 * (w \div 2)
    BY <2>1
  <2>3. w \div 2 > 1
    BY <2>1, <2>2
  <2> QED
    BY <1>3, <2>2, <2>3 DEF WidthCode, CodeWidth
<1> QED
  BY <1>1, <1>2, <1>3

\* Offset and code of a channel number are read back from it.
LEMMA PackedFields ==
    ASSUME NEW off \in 0..1023, NEW code \in Nat
    PROVE  /\ off % 1024 = off
           /\ (off + 1024 * code) % 1024 = off
           /\ (off + 1024 * code) \div 1024 = code
  OBVIOUS

\* The code of a width of up to 126 channels fits the six bits decodeSend keeps.
LEMMA CodeFits ==
    ASSUME NEW w \in Nat, ValidWidth(w), w <= 126
    PROVE  WidthCode(w) % 64 = WidthCode(w)
<1>1. WidthCode(w) \in Nat
  BY CodeInverse
<1>2. WidthCode(w) <= 63
  <2>1. w \div 2 <= 63
    OBVIOUS
  <2> QED
    BY <2>1 DEF WidthCode
<1> QED
  BY <1>1, <1>2

\* The fields of the source channels encodeSend writes.
LEMMA SrcFields ==
    ASSUME NEW w \in Nat, ValidWidth(w), w <= 126
    PROVE  SrcChan(0, w) # NoAudio /\ CodeWidth((SrcChan(0, w) \div 1024) % 64) = w
<1>1. /\ SrcChan(0, w) = 0 + 1024 * WidthCode(w)
      /\ WidthCode(w) \in Nat
      /\ CodeWidth(WidthCode(w)) = w
  BY CodeInverse, PackedFields DEF SrcChan
<1>2. SrcChan(0, w) \div 1024 = WidthCode(w)
  BY <1>1, PackedFields
<1>3. SrcChan(0, w) # NoAudio
  BY <1>1 DEF NoAudio
<1> QED
  BY <1>1, <1>2, <1>3, CodeFits

\* A receive with the codes of w channels from off on.
LEMMA CodesReadBack ==
    ASSUME NEW w \in Nat, ValidWidth(w), w <= 126, NEW off,
           NEW x, x.srcChan = SrcChan(0, w), x.dstChan % 1024 = off
    PROVE  Decode(x) = [src |-> x.src, audio |-> TRUE, width |-> w, dstOff |-> off]
<1>1. x.dstChan % 1024 = off
  OBVIOUS
<1>2. x.srcChan # NoAudio
  BY SrcFields
<1>3. CodeWidth((x.srcChan \div 1024) % 64) = w
  BY SrcFields
<1> DEFINE width == IF x.srcChan # NoAudio THEN CodeWidth((x.srcChan \div 1024) % 64) ELSE 0
<1>4. Decode(x) = [src |-> x.src, audio |-> x.srcChan # NoAudio, width |-> width, dstOff |-> x.dstChan % 1024]
  BY DEF Decode
<1>5. width = w
  BY <1>2, <1>3
<1>6. (x.srcChan # NoAudio) = TRUE
  BY <1>2
<1> DEFINE audio == x.srcChan # NoAudio
           dstOff == x.dstChan % 1024
<1>7. Decode(x) = [src |-> x.src, audio |-> audio, width |-> width, dstOff |-> dstOff]
  BY <1>4
<1>8. audio = TRUE /\ width = w /\ dstOff = off
  BY <1>1, <1>5, <1>6
<1> HIDE DEF width, audio, dstOff
<1> QED
  BY <1>7, <1>8

\* The receive encodeSend writes for w channels of src from off on.
Written(src, off, w, mono) ==
    [src |-> src, srcChan |-> SrcChan(0, w), dstChan |-> DstChan(off, mono)]

\* decodeSend reads back what encodeSend wrote, for every width up to 126: what
\* orchestrate_sends and send_layout_inspect see on a bus is what was wired, and a
\* send written for a roster entry is in place at the next call.
THEOREM RoundTrip ==
    ASSUME NEW src, NEW w \in Nat, ValidWidth(w), w <= 126,
           NEW off \in 0..1023, NEW mono \in BOOLEAN
    PROVE  LET x == Decode(Written(src, off, w, mono))
           IN  /\ x = [src |-> src, audio |-> TRUE, width |-> w, dstOff |-> off]
               /\ Fits([src |-> src, chan |-> off, width |-> w], x)
<1> DEFINE y == Written(src, off, w, mono)
           x == Decode(y)
<1>1. y.src = src /\ y.srcChan = SrcChan(0, w) /\ y.dstChan % 1024 = off
  <2>1. y.src = src /\ y.srcChan = SrcChan(0, w) /\ y.dstChan = DstChan(off, mono)
    BY DEF Written
  <2>2. DstChan(off, mono) % 1024 = off
    <3>1. off % 1024 = off /\ (off + 1024 * 1) % 1024 = off
      OBVIOUS
    <3>2. CASE mono
      BY <3>1, <3>2 DEF DstChan
    <3>3. CASE ~mono
      BY <3>1, <3>3 DEF DstChan
    <3> QED
      BY <3>2, <3>3
  <2> QED
    BY <2>1, <2>2
<1> HIDE DEF y
<1>2. x = [src |-> y.src, audio |-> TRUE, width |-> w, dstOff |-> off]
  BY <1>1, CodesReadBack
<1> HIDE DEF x
<1>3. x = [src |-> src, audio |-> TRUE, width |-> w, dstOff |-> off]
  BY <1>1, <1>2
<1>4. Fits([src |-> src, chan |-> off, width |-> w], x)
  BY <1>3 DEF Fits
<1> QED
  BY <1>3, <1>4 DEF x, y

\* The limits let a bed of 128 channels through, whose code is one bit too long:
\* decodeSend takes its send for a stereo one, and no call finds it in place.
THEOREM WidestBedMisread ==
    ASSUME NEW src, NEW off \in 0..1023
    PROVE  Decode(Written(src, off, 128, FALSE)).width = 2
<1>1. WidthCode(128) = 64
  BY DEF WidthCode
<1>2. SrcChan(0, 128) = 65536
  BY <1>1 DEF SrcChan
<1>3. (SrcChan(0, 128) \div 1024) % 64 = 0 /\ SrcChan(0, 128) # NoAudio
  BY <1>2 DEF NoAudio
<1> QED
  BY <1>3 DEF Decode, CodeWidth, Written

-----------------------------------------------------------------------------
\* The channels of an entry.
Span(e) == e.chan..(e.chan + e.width - 1)

Base(bed, bedW) == IF bed # None /\ bedW > 0 THEN bedW ELSE 0

\* How many entries come before the objects.
Lead(bed, bedW) == IF bed # None /\ bedW > 0 THEN 1 ELSE 0

\* Either there is a bed with channels, and it is one entry, or there is none.
LEMMA LeadBase ==
    ASSUME NEW bed, NEW bedW \in Nat
    PROVE  /\ Base(bed, bedW) \in Nat
           /\ \/ Lead(bed, bedW) = 0 /\ Base(bed, bedW) = 0
              \/ Lead(bed, bedW) = 1 /\ Base(bed, bedW) = bedW /\ bedW > 0
  BY DEF Lead, Base

\* The entries of a roster one by one.
Entries(bed, bedW, objs) ==
    /\ DOMAIN Roster(bed, bedW, objs) = 1..(Lead(bed, bedW) + Len(objs))
    /\ Len(Roster(bed, bedW, objs)) = Lead(bed, bedW) + Len(objs)
    /\ Lead(bed, bedW) = 1 =>
         Roster(bed, bedW, objs)[1] = [src |-> bed, chan |-> 0, width |-> bedW]
    /\ \A k \in 1..Len(objs) :
         Roster(bed, bedW, objs)[Lead(bed, bedW) + k]
           = [src |-> objs[k], chan |-> Base(bed, bedW) + k - 1, width |-> 1]

\* The entries of a roster are the bed's and the objects'.
LEMMA RosterEntries ==
    ASSUME NEW bed, NEW bedW \in Nat, NEW objs, Len(objs) \in Nat
    PROVE  Entries(bed, bedW, objs)
<1> DEFINE B == [src |-> bed, chan |-> 0, width |-> bedW]
           O == [k \in 1..Len(objs) |-> [src |-> objs[k], chan |-> Base(bed, bedW) + k - 1, width |-> 1]]
           U == {O[k] : k \in 1..Len(objs)} \cup {B}
           E == BedEntry(bed, bedW)
           R == Roster(bed, bedW, objs)
<1>1. Len(objs) \in Nat
  OBVIOUS
<1>2. O \in Seq(U)
  <2>1. O \in [1..Len(objs) -> U]
    OBVIOUS
  <2> HIDE DEF O, U
  <2>2. Seq(U) = UNION {[1..m -> U] : m \in Nat}
    BY SeqDef
  <2> QED
    BY <1>1, <2>1, <2>2
<1>3. Len(O) = Len(objs)
  BY <1>1
<1>4. R = E \o O
  BY DEF Roster, Base
<1>5. \A k \in 1..Len(objs) : O[k] = [src |-> objs[k], chan |-> Base(bed, bedW) + k - 1, width |-> 1]
  OBVIOUS
<1>6. DOMAIN O = 1..Len(objs)
  OBVIOUS
<1>7. CASE Lead(bed, bedW) = 1
  <2>1. E = <<B>> /\ E \in Seq(U) /\ Len(E) = 1 /\ E[1] = B
    <3>1. E = <<B>>
      BY <1>7 DEF BedEntry, Lead
    <3>2. B \in U
      OBVIOUS
    <3> HIDE DEF E, O, U, B
    <3> QED
      BY <3>1, <3>2
  <2> HIDE DEF E, O, U, B, R
  <2>2. /\ Len(R) = 1 + Len(objs)
        /\ R \in Seq(U)
        /\ \A i \in 1..(1 + Len(objs)) : R[i] = IF i <= 1 THEN E[i] ELSE O[i - 1]
    BY <1>1, <1>2, <1>3, <1>4, <2>1, ConcatProperties
  <2>3. DOMAIN R = 1..(1 + Len(objs)) /\ Len(R) = 1 + Len(objs) /\ R[1] = B
    BY <1>1, <2>1, <2>2, LenProperties
  <2>4. ASSUME NEW k \in 1..Len(objs) PROVE R[1 + k] = O[k]
    BY <1>1, <2>2
  <2>5. \A k \in 1..Len(objs) :
          R[1 + k] = [src |-> objs[k], chan |-> Base(bed, bedW) + k - 1, width |-> 1]
    BY <1>5, <2>4
  <2> QED
    BY <1>7, <2>3, <2>5 DEF R, B, Entries
<1>8. CASE Lead(bed, bedW) = 0
  <2>1. E = <<>>
    BY <1>8 DEF BedEntry, Lead
  <2> HIDE DEF E, O, U, B, R
  <2>2. R = <<>> \o O
    BY <1>4, <2>1
  <2>3. R = O
    BY <1>2, <2>2, ConcatEmptySeq
  <2>4. \A k \in 1..Len(objs) : 0 + k = k
    BY <1>1
  <2> QED
    BY <1>1, <1>3, <1>5, <1>6, <1>8, <2>3, <2>4 DEF R, Entries
<1> QED
  BY <1>7, <1>8, LeadBase

\* buildRoster tiles the bus: every channel below the total belongs to exactly one
\* entry, and no entry reaches beyond it.  A bus wired by the roster has neither the
\* collisions nor the gaps inspect looks for.
THEOREM RosterTiles ==
    ASSUME NEW bed, NEW bedW \in Nat, NEW objs, Len(objs) \in Nat
    PROVE  LET r     == Roster(bed, bedW, objs)
               total == TotalChannels(Base(bed, bedW), Len(objs))
           IN  /\ \A i \in DOMAIN r : Span(r[i]) \subseteq 0..(total - 1)
               /\ \A i, j \in DOMAIN r : i # j => Span(r[i]) \cap Span(r[j]) = {}
               /\ \A c \in 0..(total - 1) : \E i \in DOMAIN r : c \in Span(r[i])
<1>0. Entries(bed, bedW, objs)
  BY RosterEntries
<1> DEFINE n == Lead(bed, bedW)
           b == Base(bed, bedW)
           m == Len(objs)
           R == Roster(bed, bedW, objs)
<1>1. m \in Nat /\ b \in Nat /\ ((n = 0 /\ b = 0) \/ n = 1)
  BY LeadBase
<1>2. DOMAIN R = 1..(n + m)
  BY <1>0 DEF Entries
<1>3. n = 1 => Span(R[1]) = 0..(b - 1)
  <2>1. n = 1 => R[1] = [src |-> bed, chan |-> 0, width |-> b]
    BY <1>0, LeadBase DEF Entries
  <2> HIDE DEF R, b, n
  <2> QED
    BY <1>1, <2>1 DEF Span
<1>4. \A k \in 1..m : Span(R[n + k]) = {b + k - 1}
  <2> SUFFICES ASSUME NEW k \in 1..m PROVE Span(R[n + k]) = {b + k - 1}
    OBVIOUS
  <2>1. R[n + k] = [src |-> objs[k], chan |-> b + k - 1, width |-> 1]
    BY <1>0 DEF Entries
  <2>2. R[n + k].chan = b + k - 1 /\ R[n + k].width = 1
    BY <2>1
  <2> HIDE DEF R, b, n, m
  <2> QED
    BY <1>1, <2>2 DEF Span
<1> DEFINE t == TotalChannels(b, m)
<1>5. t = b + m
  BY DEF TotalChannels
<1> HIDE DEF R, b, n, m, t
<1>6. ASSUME NEW i \in DOMAIN R
      PROVE  \/ n = 1 /\ i = 1 /\ Span(R[i]) = 0..(b - 1)
             \/ \E k \in 1..m : i = n + k /\ Span(R[i]) = {b + k - 1}
  <2>1. CASE n = 1 /\ i = 1
    BY <1>3, <2>1
  <2>2. CASE ~(n = 1 /\ i = 1)
    <3>1. i - n \in 1..m /\ i = n + (i - n)
      BY <1>1, <1>2, <2>2
    <3> QED
      BY <1>4, <3>1
  <2> QED
    BY <2>1, <2>2
<1>7. ASSUME NEW i \in DOMAIN R PROVE Span(R[i]) \subseteq 0..(t - 1)
  BY <1>1, <1>5, <1>6
<1>8. ASSUME NEW i \in DOMAIN R, NEW j \in DOMAIN R, i # j PROVE Span(R[i]) \cap Span(R[j]) = {}
  <2>1. CASE n = 1 /\ i = 1 /\ Span(R[i]) = 0..(b - 1)
    <3>1. PICK k \in 1..m : j = n + k /\ Span(R[j]) = {b + k - 1}
      BY <1>6, <1>8, <2>1
    <3> QED
      BY <1>1, <2>1, <3>1
  <2>2. CASE n = 1 /\ j = 1 /\ Span(R[j]) = 0..(b - 1)
    <3>1. PICK k \in 1..m : i = n + k /\ Span(R[i]) = {b + k - 1}
      BY <1>6, <1>8, <2>2
    <3> QED
      BY <1>1, <2>2, <3>1
  <2>3. CASE /\ \E k \in 1..m : i = n + k /\ Span(R[i]) = {b + k - 1}
             /\ \E k \in 1..m : j = n + k /\ Span(R[j]) = {b + k - 1}
    <3>1. PICK k \in 1..m : i = n + k /\ Span(R[i]) = {b + k - 1}
      BY <2>3
    <3>2. PICK l \in 1..m : j = n + l /\ Span(R[j]) = {b + l - 1}
      BY <2>3
    <3>3. b + k - 1 # b + l - 1
      BY <1>1, <1>8, <3>1, <3>2
    <3> QED
      BY <3>1, <3>2, <3>3
  <2> QED
    BY <1>6, <2>1, <2>2, <2>3
<1>9. ASSUME NEW c \in 0..(t - 1) PROVE \E i \in DOMAIN R : c \in Span(R[i])
  <2>1. CASE c < b
    <3>1. n = 1
      BY <1>1, <2>1
    <3>2. 1 \in DOMAIN R
      BY <1>1, <1>2, <3>1
    <3>3. c \in Span(R[1])
      BY <1>1, <1>3, <2>1, <3>1
    <3> QED
      BY <3>2, <3>3
  <2>2. CASE c >= b
    <3>1. c - b + 1 \in 1..m /\ n + (c - b + 1) \in 1..(n + m) /\ b + (c - b + 1) - 1 = c
      BY <1>1, <1>5, <2>2
    <3>2. Span(R[n + (c - b + 1)]) = {c}
      BY <1>4, <3>1
    <3> QED
      BY <1>2, <3>1, <3>2
  <2> QED
    BY <1>1, <1>5, <2>1, <2>2
<1>10. /\ \A i \in DOMAIN R : Span(R[i]) \subseteq 0..(t - 1)
       /\ \A i, j \in DOMAIN R : i # j => Span(R[i]) \cap Span(R[j]) = {}
       /\ \A c \in 0..(t - 1) : \E i \in DOMAIN R : c \in Span(R[i])
  BY <1>7, <1>8, <1>9
<1> QED
  BY <1>10, Zenon DEF R, b, m, t
-----------------------------------------------------------------------------
(* Induction on the natural numbers, over a set instead of a predicate, and *)
(* what it says of minima, sequences and functions defined step by step.    *)

\* Induction for a set of numbers, from the fact that every set of them has a least one.
LEMMA NatSetInduction ==
    ASSUME NEW S, 0 \in S, \A n \in Nat : n \in S => n + 1 \in S
    PROVE  Nat \subseteq S
<1> DEFINE T == Nat \ S
           R == OpToRel(<, Nat)
<1>1. IsWellFoundedOn(R, Nat)
  BY NatLessThanWellFounded
<1>2. ASSUME T # {} PROVE FALSE
  <2>1. PICK x \in T : \A y \in T : <<y, x>> \notin R
    <3>1. T \subseteq Nat
      OBVIOUS
    <3> HIDE DEF R, T
    <3> QED
      BY <1>1, <1>2, <3>1, WFMin
  <2>2. x # 0 /\ x \in Nat /\ x - 1 \in Nat /\ x - 1 < x
    OBVIOUS
  <2>3. x - 1 \in T
    BY <2>2
  <2>4. <<x - 1, x>> \in R
    BY <2>2 DEF OpToRel
  <2> QED
    BY <2>1, <2>3, <2>4
<1> QED
  BY <1>2

\* Every set of numbers that is not empty has a least one.
LEMMA MinProperties ==
    ASSUME NEW S \in SUBSET Nat, S # {}
    PROVE  Min(S) \in S /\ \A y \in S : Min(S) <= y
<1> DEFINE L == {n \in Nat : \A y \in S : n <= y}
<1>1. \E x \in S : \A y \in S : x <= y
  <2> SUFFICES ASSUME \A x \in S : \E y \in S : y < x PROVE FALSE
    OBVIOUS
  <2>1. 0 \in L
    OBVIOUS
  <2>2. ASSUME NEW n \in Nat, n \in L PROVE n + 1 \in L
    <3>1. n \notin S
      BY <2>2
    <3> QED
      BY <2>2, <3>1
  <2> HIDE DEF L
  <2>3. Nat \subseteq L
    BY <2>1, <2>2, NatSetInduction
  <2>4. PICK x \in S : TRUE
    OBVIOUS
  <2>5. x \in Nat /\ x + 1 \in Nat
    OBVIOUS
  <2> QED
    BY <2>3, <2>5 DEF L
<1> QED
  BY <1>1 DEF Min

\* A function on 1..n is a sequence.
LEMMA FcnIsSeq ==
    ASSUME NEW S, NEW n \in Nat, NEW f \in [1..n -> S]
    PROVE  f \in Seq(S) /\ Len(f) = n /\ DOMAIN f = 1..n
<1>1. f \in Seq(S)
  BY SeqDef
<1>2. DOMAIN f = 1..Len(f) /\ Len(f) \in Nat
  BY <1>1, LenProperties
<1>3. DOMAIN f = 1..n
  OBVIOUS
<1>4. Len(f) = n
  BY <1>2, <1>3
<1> QED
  BY <1>1, <1>3, <1>4

\* Where a function each value of which is made from the one before is defined.
LEMMA StepwiseFunction ==
    ASSUME NEW V, NEW b \in V, NEW n \in Nat, NEW F \in [1..n -> [V -> V]]
    PROVE  \E f \in [0..n -> V] : f[0] = b /\ \A i \in 1..n : f[i] = F[i][f[i - 1]]
<1> DEFINE S == {m \in Nat : m <= n =>
                   \E f \in [0..m -> V] : f[0] = b /\ \A i \in 1..m : f[i] = F[i][f[i - 1]]}
<1>1. 0 \in S
  <2> DEFINE f == [i \in 0..0 |-> b]
  <2>1. f \in [0..0 -> V] /\ f[0] = b
    OBVIOUS
  <2> HIDE DEF f
  <2>2. \E h \in [0..0 -> V] : h[0] = b /\ \A i \in 1..0 : h[i] = F[i][h[i - 1]]
    BY <2>1
  <2> QED
    BY <2>2
<1>2. ASSUME NEW m \in Nat, m \in S PROVE m + 1 \in S
  <2> SUFFICES ASSUME m + 1 <= n
               PROVE  \E f \in [0..(m + 1) -> V] :
                        f[0] = b /\ \A i \in 1..(m + 1) : f[i] = F[i][f[i - 1]]
    OBVIOUS
  <2>1. PICK f \in [0..m -> V] : f[0] = b /\ \A i \in 1..m : f[i] = F[i][f[i - 1]]
    BY <1>2
  <2> DEFINE g == [i \in 0..(m + 1) |-> IF i <= m THEN f[i] ELSE F[m + 1][f[m]]]
  <2>2. m + 1 \in 1..n /\ f[m] \in V
    OBVIOUS
  <2>3. g \in [0..(m + 1) -> V]
    BY <2>2
  <2>4. g[0] = b
    BY <2>1
  <2>5. ASSUME NEW i \in 1..(m + 1) PROVE g[i] = F[i][g[i - 1]]
    <3>1. CASE i <= m
      BY <2>1, <3>1
    <3>2. CASE i = m + 1
      <4>1. g[m + 1] = F[m + 1][f[m]] /\ g[m] = f[m]
        OBVIOUS
      <4>2. i - 1 = m
        BY <3>2
      <4> QED
        BY <3>2, <4>1, <4>2
    <3> QED
      BY <3>1, <3>2
  <2> QED
    BY <2>3, <2>4, <2>5
<1> HIDE DEF S
<1>3. Nat \subseteq S
  BY <1>1, <1>2, NatSetInduction
<1> QED
  BY <1>3 DEF S

\* g makes each value from the one before as F says, as long as that is in V.
Follows(g, V, b, n, F) == g[0] = b /\ \A i \in 1..n : g[i - 1] \in V => g[i] = F[i][g[i - 1]]

\* Then all of them are in V.
LEMMA StepwiseValues ==
    ASSUME NEW V, NEW b \in V, NEW n \in Nat, NEW F \in [1..n -> [V -> V]],
           NEW g, Follows(g, V, b, n, F)
    PROVE  \A i \in 0..n : g[i] \in V
<1> DEFINE S == {m \in Nat : m <= n => g[m] \in V}
<1>1. 0 \in S
  BY DEF Follows
<1>2. ASSUME NEW m \in Nat, m \in S PROVE m + 1 \in S
  <2> SUFFICES ASSUME m + 1 <= n PROVE g[m + 1] \in V
    OBVIOUS
  <2>1. m + 1 \in 1..n /\ (m + 1) - 1 = m /\ g[m] \in V
    BY <1>2
  <2>2. g[m + 1] = F[m + 1][g[m]]
    BY <2>1 DEF Follows
  <2> QED
    BY <2>1, <2>2
<1> HIDE DEF S
<1>3. Nat \subseteq S
  BY <1>1, <1>2, NatSetInduction
<1> QED
  BY <1>3 DEF S

-----------------------------------------------------------------------------
(* reconcile. *)

\* What a roster entry takes: a send of its source if one is free, and one that
\* fits if one is free.
LEMMA MatchProperties ==
    ASSUME NEW e, NEW existing, NEW free \in SUBSET (Nat \ {0})
    PROVE  LET m == Match(e, existing, free)
           IN  /\ m \in free \cup {None}
               /\ m = None => \A i \in free : existing[i].src # e.src
               /\ m # None => m \in free /\ existing[m].src = e.src
               /\ (\E i \in free : Fits(e, existing[i])) => m # None /\ Fits(e, existing[m])
<1> DEFINE exact == {i \in free : Fits(e, existing[i])}
           same  == {i \in free : existing[i].src = e.src}
           m     == Match(e, existing, free)
<1>1. exact \subseteq same
  BY DEF Fits
<1>2. CASE exact # {}
  <2>1. m = Min(exact)
    BY <1>2 DEF Match
  <2>2. Min(exact) \in exact
    BY <1>2, MinProperties
  <2>3. m \in free /\ m # 0 /\ Fits(e, existing[m]) /\ existing[m].src = e.src
    BY <1>1, <2>1, <2>2
  <2> QED
    BY <2>3 DEF None
<1>3. CASE exact = {} /\ same # {}
  <2>1. m = Min(same)
    BY <1>3 DEF Match
  <2>2. Min(same) \in same
    BY <1>3, MinProperties
  <2>3. m \in free /\ m # 0 /\ existing[m].src = e.src
    BY <2>1, <2>2
  <2> QED
    BY <1>3, <2>3 DEF None
<1>4. CASE exact = {} /\ same = {}
  <2>1. m = None
    BY <1>4 DEF Match
  <2> QED
    BY <1>4, <2>1
<1> QED
  BY <1>2, <1>3, <1>4

Reconciled == [at : Seq(Nat), strays : SUBSET (Nat \ {0})]

Begun(existing) == [at |-> <<>>, strays |-> Audio(existing)]

Taken(e, existing, before) ==
    LET taken == Match(e, existing, before.strays)
    IN  [at |-> Append(before.at, taken), strays |-> before.strays \ {taken}]

\* f holds what reconcile's loop has after each entry.
Loop(f, roster, existing) ==
    /\ f \in [0..Len(roster) -> Reconciled]
    /\ f[0] = Begun(existing)
    /\ \A n \in 1..Len(roster) : f[n] = Taken(roster[n], existing, f[n - 1])

\* One turn of the loop keeps the shape of what it has placed.
LEMMA TakenType ==
    ASSUME NEW e, NEW existing, NEW before \in Reconciled
    PROVE  Taken(e, existing, before) \in Reconciled
<1> DEFINE m == Match(e, existing, before.strays)
<1>1. before.strays \in SUBSET (Nat \ {0}) /\ before.at \in Seq(Nat)
  BY DEF Reconciled
<1>2. m \in before.strays \cup {None}
  BY <1>1, MatchProperties
<1>3. m \in Nat
  BY <1>1, <1>2 DEF None
<1> HIDE DEF m
<1>4. Append(before.at, m) \in Seq(Nat)
  BY <1>1, <1>3
<1> QED
  BY <1>1, <1>4 DEF Taken, Reconciled, m

\* The fold of Reconcile, as a function of the entries handled so far.
LEMMA ReconcileLoop ==
    ASSUME NEW roster, Len(roster) \in Nat, NEW existing, DOMAIN existing \subseteq Nat \ {0}
    PROVE  \E f : Loop(f, roster, existing) /\ Reconcile(roster, existing) = f[Len(roster)]
<1> DEFINE N == Len(roster)
           b == Begun(existing)
           F == [i \in 1..N |-> [x \in Reconciled |-> Taken(roster[i], existing, x)]]
           Def(g) == [n \in 0..N |-> IF n = 0 THEN b ELSE Taken(roster[n], existing, g[n - 1])]
           h == CHOOSE g : g = Def(g)
<1>0. N \in Nat
  OBVIOUS
<1>1. b \in Reconciled
  BY DEF Begun, Reconciled, Audio
<1>2. F \in [1..N -> [Reconciled -> Reconciled]]
  BY TakenType
<1>3. PICK f \in [0..N -> Reconciled] : f[0] = b /\ \A i \in 1..N : f[i] = F[i][f[i - 1]]
  <2> HIDE DEF F, b, N
  <2> QED
    BY <1>0, <1>1, <1>2, StepwiseFunction, SMTT(30)
<1>4. \A i \in 1..N : f[i] = Taken(roster[i], existing, f[i - 1])
  <2> SUFFICES ASSUME NEW i \in 1..N PROVE F[i][f[i - 1]] = Taken(roster[i], existing, f[i - 1])
    BY <1>3
  <2>1. f[i - 1] \in Reconciled
    OBVIOUS
  <2> QED
    BY <2>1
<1>5. f = Def(f)
  <2>1. \A i \in 0..N : f[i] = Def(f)[i]
    BY <1>3, <1>4
  <2> QED
    BY <2>1
<1>6. h = Def(h)
  BY <1>5
<1>7. h[0] = b /\ \A i \in 1..N : h[i] = Taken(roster[i], existing, h[i - 1])
  <2> HIDE DEF h, b
  <2> QED
    BY <1>6
<1>8. Follows(h, Reconciled, b, N, F)
  <2> HIDE DEF h, b
  <2> QED
    BY <1>7 DEF Follows
<1>9. \A i \in 0..N : h[i] \in Reconciled
  <2> HIDE DEF F, b, N, h, Def
  <2> QED
    BY <1>0, <1>1, <1>2, <1>8, StepwiseValues
<1>10. h \in [0..N -> Reconciled]
  <2> HIDE DEF h, b
  <2> QED
    BY <1>6, <1>9
<1>11. Reconcile(roster, existing) = h[N]
  BY DEF Reconcile, Taken, Begun, Audio
<1> HIDE DEF h
<1> QED
  BY <1>7, <1>10, <1>11 DEF Loop

\* What holds after n entries.  The first n have taken different audio sends, each
\* of its own source, and the strays are the others; an entry has gone without one
\* only if no stray is of its source.
Matched(acc, n, roster, existing) ==
    /\ acc \in Reconciled
    /\ Len(acc.at) = n
    /\ \A k \in 1..n : \/ acc.at[k] = None
                       \/ acc.at[k] \in Audio(existing) /\ existing[acc.at[k]].src = roster[k].src
    /\ \A j, k \in 1..n : acc.at[j] = acc.at[k] /\ acc.at[j] # None => j = k
    /\ acc.strays = {i \in Audio(existing) : \A k \in 1..n : acc.at[k] # i}
    /\ \A k \in 1..n : acc.at[k] = None => \A i \in acc.strays : existing[i].src # roster[k].src

\* One turn of the loop: the entry takes a free send of its own track, or none is left.
LEMMA MatchedStep ==
    ASSUME NEW roster, NEW existing, DOMAIN existing \subseteq Nat \ {0},
           NEW n \in Nat, NEW acc, Matched(acc, n, roster, existing)
    PROVE  Matched(Taken(roster[n + 1], existing, acc), n + 1, roster, existing)
<1> DEFINE m   == Match(roster[n + 1], existing, acc.strays)
           new == Taken(roster[n + 1], existing, acc)
<1>1. acc.at \in Seq(Nat) /\ acc.strays \in SUBSET (Nat \ {0}) /\ Len(acc.at) = n
  BY DEF Matched, Reconciled
<1>2. /\ m \in acc.strays \cup {None}
      /\ m = None => \A i \in acc.strays : existing[i].src # roster[n + 1].src
      /\ m # None => m \in acc.strays /\ existing[m].src = roster[n + 1].src
  BY <1>1, MatchProperties
<1>3. m \in Nat
  BY <1>1, <1>2 DEF None
<1> DEFINE at == Append(acc.at, m)
<1>4. new.at = at /\ new.strays = acc.strays \ {m}
  BY DEF Taken
<1> HIDE DEF m, new
<1>5. /\ at \in Seq(Nat) /\ Len(at) = n + 1
      /\ \A k \in 1..n : at[k] = acc.at[k]
      /\ at[n + 1] = m
  BY <1>1, <1>3, AppendProperties
<1> HIDE DEF at
<1>6. new \in Reconciled
  BY TakenType DEF Matched, new
<1>7. acc.strays \subseteq Audio(existing) /\ \A k \in 1..n : acc.at[k] \notin acc.strays
  BY DEF Matched
<1>8. 0 \notin Audio(existing)
  BY DEF Audio
<1>9. ASSUME NEW k \in 1..(n + 1)
      PROVE  \/ at[k] = None
             \/ at[k] \in Audio(existing) /\ existing[at[k]].src = roster[k].src
  <2>1. CASE k \in 1..n
    BY <1>5, <2>1 DEF Matched
  <2>2. CASE k = n + 1
    BY <1>2, <1>5, <1>7, <2>2
  <2> QED
    BY <2>1, <2>2
<1>10. ASSUME NEW j \in 1..(n + 1), NEW k \in 1..(n + 1), at[j] = at[k], at[j] # None PROVE j = k
  <2>1. CASE j \in 1..n /\ k \in 1..n
    BY <1>5, <1>10, <2>1 DEF Matched
  <2>2. CASE j = n + 1 /\ k \in 1..n
    BY <1>2, <1>5, <1>7, <1>10, <2>2
  <2>3. CASE k = n + 1 /\ j \in 1..n
    BY <1>2, <1>5, <1>7, <1>10, <2>3
  <2> QED
    BY <2>1, <2>2, <2>3
<1>11. new.strays = {i \in Audio(existing) : \A k \in 1..(n + 1) : at[k] # i}
  <2>1. acc.strays = {i \in Audio(existing) : \A k \in 1..n : acc.at[k] # i}
    BY DEF Matched
  <2>2. ASSUME NEW i \in Audio(existing)
        PROVE  (\A k \in 1..(n + 1) : at[k] # i) <=> (\A k \in 1..n : acc.at[k] # i) /\ m # i
    BY <1>5, SMTT(30)
  <2> QED
    BY <1>4, <2>1, <2>2
<1>12. ASSUME NEW k \in 1..(n + 1), at[k] = None, NEW i \in new.strays
       PROVE  existing[i].src # roster[k].src
  <2>1. CASE k \in 1..n
    BY <1>4, <1>5, <1>12, <2>1 DEF Matched
  <2>2. CASE k = n + 1
    BY <1>2, <1>4, <1>5, <1>12, <2>2
  <2> QED
    BY <2>1, <2>2
<1> QED
  BY <1>4, <1>5, <1>6, <1>9, <1>10, <1>11, <1>12 DEF Matched, new

\* After each turn of the loop the entries handled so far are matched.
LEMMA LoopMatched ==
    ASSUME NEW roster, Len(roster) \in Nat, NEW existing, DOMAIN existing \subseteq Nat \ {0},
           NEW f, Loop(f, roster, existing)
    PROVE  \A n \in 0..Len(roster) : Matched(f[n], n, roster, existing)
<1> DEFINE S == {n \in Nat : n <= Len(roster) => Matched(f[n], n, roster, existing)}
<1>2. 0 \in S
  <2>1. f[0] = Begun(existing) /\ f[0] \in Reconciled
    BY DEF Loop
  <2>2. f[0].at = <<>> /\ f[0].strays = Audio(existing)
    BY <2>1 DEF Begun
  <2>3. Len(f[0].at) = 0
    BY <2>2
  <2> QED
    BY <2>1, <2>2, <2>3 DEF Matched
<1>3. ASSUME NEW n \in Nat, n \in S PROVE n + 1 \in S
  <2> SUFFICES ASSUME n + 1 <= Len(roster) PROVE Matched(f[n + 1], n + 1, roster, existing)
    OBVIOUS
  <2>1. Matched(f[n], n, roster, existing)
    BY <1>3
  <2>2. n + 1 \in 1..Len(roster) /\ (n + 1) - 1 = n
    OBVIOUS
  <2>3. f[n + 1] = Taken(roster[n + 1], existing, f[n])
    BY <2>2 DEF Loop
  <2> QED
    BY <2>1, <2>3, MatchedStep
<1> HIDE DEF S
<1>4. Nat \subseteq S
  BY <1>2, <1>3, NatSetInduction
<1> QED
  BY <1>4 DEF S

\* reconcile matches every roster against every bus: no send is taken twice or by a
\* track it does not come from, and a send is to be added only where none is left.
THEOREM ReconcileMatches ==
    ASSUME NEW roster, Len(roster) \in Nat, NEW existing, DOMAIN existing \subseteq Nat \ {0}
    PROVE  Matched(Reconcile(roster, existing), Len(roster), roster, existing)
<1>1. PICK f : Loop(f, roster, existing) /\ Reconcile(roster, existing) = f[Len(roster)]
  BY ReconcileLoop
<1>2. Len(roster) \in 0..Len(roster)
  OBVIOUS
<1> QED
  BY <1>1, <1>2, LoopMatched

\* No two entries begin at the same channel.
Apart(roster) == \A j, k \in 1..Len(roster) : roster[j].chan = roster[k].chan => j = k

\* Every entry has its send on the bus.
Served(roster, existing) ==
    \A k \in 1..Len(roster) : \E i \in Audio(existing) : Fits(roster[k], existing[i])

\* Then every entry finds its own, whatever else is on the bus and in whatever order:
\* no send is rewritten, and none is added.
THEOREM ServedIsReused ==
    ASSUME NEW roster, Len(roster) \in Nat, DOMAIN roster = 1..Len(roster), Apart(roster),
           NEW existing, DOMAIN existing \subseteq Nat \ {0}, Served(roster, existing)
    PROVE  AllReused(roster, existing)
<1>1. PICK f : Loop(f, roster, existing) /\ Reconcile(roster, existing) = f[Len(roster)]
  BY ReconcileLoop
<1> DEFINE InPlace(n) == \A k \in 1..n : f[n].at[k] # None /\ Fits(roster[k], existing[f[n].at[k]])
           S == {n \in Nat : n <= Len(roster) => InPlace(n)}
<1>2. 0 \in S
  OBVIOUS
<1>3. ASSUME NEW n \in Nat, n \in S PROVE n + 1 \in S
  <2> SUFFICES ASSUME n + 1 <= Len(roster) PROVE InPlace(n + 1)
    OBVIOUS
  <2>1. InPlace(n)
    BY <1>3
  <2>2. n + 1 \in 1..Len(roster) /\ (n + 1) - 1 = n /\ n \in 0..Len(roster)
    OBVIOUS
  <2>3. Matched(f[n], n, roster, existing)
    BY <1>1, <2>2, LoopMatched
  <2>4. f[n].at \in Seq(Nat) /\ f[n].strays \in SUBSET (Nat \ {0}) /\ Len(f[n].at) = n
    BY <2>3 DEF Matched, Reconciled
  <2>5. PICK i \in Audio(existing) : Fits(roster[n + 1], existing[i])
    BY <2>2 DEF Served
  <2>6. \A k \in 1..n : f[n].at[k] # i
    <3> SUFFICES ASSUME NEW k \in 1..n, f[n].at[k] = i PROVE FALSE
      OBVIOUS
    <3>1. Fits(roster[k], existing[i])
      BY <2>1
    <3>2. roster[k].chan = roster[n + 1].chan
      BY <2>5, <3>1 DEF Fits
    <3>3. k \in 1..Len(roster) /\ k # n + 1
      BY <2>2
    <3> QED
      BY <2>2, <3>2, <3>3 DEF Apart
  <2>7. i \in f[n].strays
    BY <2>3, <2>6 DEF Matched
  <2> DEFINE m == Match(roster[n + 1], existing, f[n].strays)
  <2>8. m # None /\ Fits(roster[n + 1], existing[m]) /\ m \in f[n].strays
    BY <2>4, <2>5, <2>7, MatchProperties
  <2> HIDE DEF m
  <2>9. f[n + 1].at = Append(f[n].at, m)
    <3>1. f[n + 1] = Taken(roster[n + 1], existing, f[n])
      BY <1>1, <2>2 DEF Loop
    <3> QED
      BY <3>1 DEF Taken, m
  <2>10. /\ \A k \in 1..n : f[n + 1].at[k] = f[n].at[k]
         /\ f[n + 1].at[n + 1] = m
    BY <2>4, <2>8, <2>9, AppendProperties
  <2> QED
    BY <2>1, <2>8, <2>10
<1> HIDE DEF S
<1>4. Nat \subseteq S
  BY <1>2, <1>3, NatSetInduction
<1>5. InPlace(Len(roster))
  BY <1>4 DEF S
<1> QED
  BY <1>1, <1>5 DEF AllReused

-----------------------------------------------------------------------------
(* inspect, on a bus that is wired by a roster. *)

\* A set of numbers that is not empty and has a bound has a greatest one.
LEMMA MaxProperties ==
    ASSUME NEW S \in SUBSET Nat, S # {}, NEW n \in Nat, \A y \in S : y <= n
    PROVE  Max(S) \in S /\ \A y \in S : Max(S) >= y
<1> DEFINE D == {n - y : y \in S}
<1>1. D \in SUBSET Nat /\ D # {}
  <2>1. \A y \in S : n - y \in Nat
    OBVIOUS
  <2> QED
    BY <2>1
<1>2. Min(D) \in D /\ \A d \in D : Min(D) <= d
  BY <1>1, MinProperties
<1>3. PICK x \in S : Min(D) = n - x
  BY <1>2
<1>4. ASSUME NEW y \in S PROVE x >= y
  <2>1. n - y \in D
    OBVIOUS
  <2>2. n - x <= n - y
    BY <1>2, <1>3, <2>1
  <2> QED
    BY <2>2
<1> QED
  BY <1>4 DEF Max

\* The entries of a roster begin at different channels and are at least one wide.
LEMMA RosterApart ==
    ASSUME NEW bed, NEW bedW \in Nat, NEW objs, Len(objs) \in Nat
    PROVE  LET r == Roster(bed, bedW, objs)
           IN  /\ Len(r) = Lead(bed, bedW) + Len(objs)
               /\ Len(r) \in Nat
               /\ DOMAIN r = 1..Len(r)
               /\ Apart(r)
               /\ \A k \in 1..Len(r) : r[k].chan \in Nat /\ r[k].width \in Nat \ {0}
<1> DEFINE n == Lead(bed, bedW)
           b == Base(bed, bedW)
           m == Len(objs)
           R == Roster(bed, bedW, objs)
<1>1. Entries(bed, bedW, objs)
  BY RosterEntries
<1>2. m \in Nat /\ b \in Nat /\ ((n = 0 /\ b = 0) \/ (n = 1 /\ b = bedW /\ b > 0))
  BY LeadBase
<1>3. Len(R) = n + m /\ DOMAIN R = 1..Len(R) /\ Len(R) \in Nat
  BY <1>1, <1>2 DEF Entries
<1>4. n = 1 => R[1].chan = 0 /\ R[1].width = bedW
  BY <1>1 DEF Entries
<1>5. \A k \in 1..m : R[n + k].chan = b + k - 1 /\ R[n + k].width = 1
  <2> SUFFICES ASSUME NEW k \in 1..m PROVE R[n + k].chan = b + k - 1 /\ R[n + k].width = 1
    OBVIOUS
  <2>1. R[n + k] = [src |-> objs[k], chan |-> b + k - 1, width |-> 1]
    BY <1>1 DEF Entries
  <2> QED
    BY <2>1
<1> HIDE DEF n, b, m, R
<1>6. ASSUME NEW k \in 1..Len(R)
      PROVE  \/ n = 1 /\ k = 1 /\ R[k].chan = 0 /\ R[k].width = b
             \/ k - n \in 1..m /\ R[k].chan = b + (k - n) - 1 /\ R[k].width = 1
  <2>1. CASE n = 1 /\ k = 1
    BY <1>2, <1>4, <2>1
  <2>2. CASE ~(n = 1 /\ k = 1)
    <3>1. k - n \in 1..m /\ n + (k - n) = k
      BY <1>2, <1>3, <2>2
    <3> QED
      BY <1>5, <3>1
  <2> QED
    BY <2>1, <2>2
<1>7. Apart(R)
  BY <1>2, <1>3, <1>6, SMTT(30) DEF Apart
<1>8. \A k \in 1..Len(R) : R[k].chan \in Nat /\ R[k].width \in Nat \ {0}
  BY <1>2, <1>6
<1> QED
  BY <1>3, <1>7, <1>8, Zenon DEF R, n, m

\* The audio sends of the bus are the roster's, one for each entry, in any order.
Wired(roster, existing) ==
    \E g \in [Audio(existing) -> 1..Len(roster)] :
      /\ \A i \in Audio(existing) : Fits(roster[g[i]], existing[i])
      /\ \A i, j \in Audio(existing) : g[i] = g[j] => i = j
      /\ \A k \in 1..Len(roster) : \E i \in Audio(existing) : g[i] = k

\* The channels a send covers are those of its entry.
LEMMA FittingSpan ==
    ASSUME NEW e, e.chan \in Nat, e.width \in Nat \ {0}, NEW x, Fits(e, x)
    PROVE  /\ x.dstOff = e.chan /\ x.width = e.width
           /\ Top(x) = e.chan + e.width
           /\ \A c \in Nat : x.dstOff <= c /\ c < Top(x) <=> c \in Span(e)
<1>1. x.dstOff = e.chan /\ x.width = e.width
  BY DEF Fits
<1>2. Top(x) = e.chan + e.width
  BY <1>1 DEF Top, Wide
<1> QED
  BY <1>1, <1>2 DEF Span

\* A bus wired by a roster within the limits has none of the issues inspect knows:
\* what orchestrate_sends leaves on a bus it has pruned, send_layout_inspect
\* calls a clean master, however many objects there are.
THEOREM WiredIsClean ==
    ASSUME NEW bed, NEW bedW \in Nat, bed # None \/ bedW = 0, NEW objs, Len(objs) \in Nat,
           ~Fatal(bedW, Len(objs)),
           NEW existing, DOMAIN existing \subseteq Nat \ {0},
           Wired(Roster(bed, bedW, objs), existing)
    PROVE  /\ Inspect(existing, bedW, Len(objs)) = {}
           /\ Covered(existing) \in Nat /\ Covered(existing) <= TotalChannels(bedW, Len(objs))
<1> DEFINE n == Lead(bed, bedW)
           m == Len(objs)
           R == Roster(bed, bedW, objs)
           t == TotalChannels(bedW, Len(objs))
           A == Audio(existing)
<1>0. m \in Nat
  OBVIOUS
<1>1. /\ (n = 0 /\ bedW = 0) \/ (n = 1 /\ bedW > 0)
      /\ Base(bed, bedW) = bedW
  BY DEF Lead, Base
<1>2. /\ Len(R) = n + m /\ Len(R) \in Nat /\ DOMAIN R = 1..Len(R)
      /\ \A k \in 1..Len(R) : R[k].chan \in Nat /\ R[k].width \in Nat \ {0}
  BY RosterApart
<1>3. /\ \A i \in DOMAIN R : Span(R[i]) \subseteq 0..(t - 1)
      /\ \A i, j \in DOMAIN R : i # j => Span(R[i]) \cap Span(R[j]) = {}
      /\ \A c \in 0..(t - 1) : \E i \in DOMAIN R : c \in Span(R[i])
  BY <1>1, RosterTiles
<1>4. /\ n = 1 => R[1].chan = 0 /\ R[1].width = bedW
      /\ \A k \in 1..m : R[n + k].chan = bedW + k - 1 /\ R[n + k].width = 1
  <2>1. Entries(bed, bedW, objs)
    BY RosterEntries
  <2>2. n = 1 => R[1].chan = 0 /\ R[1].width = bedW
    BY <2>1 DEF Entries
  <2>3. ASSUME NEW k \in 1..m PROVE R[n + k].chan = bedW + k - 1 /\ R[n + k].width = 1
    <3>1. R[n + k] = [src |-> objs[k], chan |-> bedW + k - 1, width |-> 1]
      BY <1>1, <2>1 DEF Entries
    <3> QED
      BY <3>1
  <2> QED
    BY <2>2, <2>3
<1>5. PICK g \in [A -> 1..Len(R)] :
        /\ \A i \in A : Fits(R[g[i]], existing[i])
        /\ \A i, j \in A : g[i] = g[j] => i = j
        /\ \A k \in 1..Len(R) : \E i \in A : g[i] = k
  BY DEF Wired
<1>6. t = bedW + m /\ m <= MaxObjects /\ t <= MaxRendererChannels
  BY <1>0, LimitsAssumption DEF Fatal, TotalChannels
<1> HIDE DEF n, m, R, t, A
<1>7. ASSUME NEW i \in A
      PROVE  /\ g[i] \in 1..Len(R)
             /\ existing[i].dstOff = R[g[i]].chan /\ existing[i].width = R[g[i]].width
             /\ Top(existing[i]) = R[g[i]].chan + R[g[i]].width
             /\ \A c \in Nat : existing[i].dstOff <= c /\ c < Top(existing[i]) <=> c \in Span(R[g[i]])
  <2>1. g[i] \in 1..Len(R)
    BY <1>5
  <2>2. R[g[i]].chan \in Nat /\ R[g[i]].width \in Nat \ {0} /\ Fits(R[g[i]], existing[i])
    BY <1>2, <1>5, <2>1
  <2> HIDE DEF R
  <2> QED
    BY <2>1, <2>2, FittingSpan
<1> DEFINE Tops == {Top(existing[i]) : i \in A}
<1>8. Covered(existing) \in Nat /\ Covered(existing) <= t
  <2>1. ASSUME NEW i \in A PROVE Top(existing[i]) \in Nat /\ Top(existing[i]) <= t
    <3>1. R[g[i]].chan \in Nat /\ R[g[i]].width \in Nat \ {0} /\ g[i] \in DOMAIN R
      BY <1>2, <1>7
    <3>2. R[g[i]].chan + R[g[i]].width - 1 \in Span(R[g[i]])
      BY <3>1 DEF Span
    <3>3. R[g[i]].chan + R[g[i]].width - 1 \in 0..(t - 1)
      BY <1>3, <3>1, <3>2
    <3> QED
      BY <1>0, <1>6, <1>7, <3>1, <3>3, SMTT(30)
  <2>2. CASE A = {}
    BY <1>0, <1>6, <2>2 DEF Covered, A
  <2>3. CASE A # {}
    <3>1. Tops \in SUBSET Nat /\ Tops # {} /\ t \in Nat /\ \A y \in Tops : y <= t
      BY <1>0, <1>6, <2>1, <2>3
    <3>2. Max(Tops) \in Tops
      <4> HIDE DEF Tops
      <4> QED
        BY <3>1, MaxProperties
    <3>3. Covered(existing) = Max(Tops)
      BY <2>3 DEF Covered, A
    <3> HIDE DEF Tops
    <3> QED
      BY <3>1, <3>2, <3>3
  <2> QED
    BY <2>2, <2>3
<1> DEFINE channels == 0..(Covered(existing) - 1)
<1>9. ASSUME NEW c \in channels PROVE Feeding(existing, c) # {} /\ Cardinality(Feeding(existing, c)) = 1
  <2>1. c \in Nat /\ c \in 0..(t - 1)
    BY <1>0, <1>6, <1>8
  <2>2. Feeding(existing, c) = {i \in A : c \in Span(R[g[i]])}
    BY <1>7, <2>1 DEF Feeding, A
  <2>3. PICK k \in DOMAIN R : c \in Span(R[k])
    BY <1>3, <2>1
  <2>4. PICK i \in A : g[i] = k
    BY <1>2, <1>5
  <2>5. ASSUME NEW j \in A, c \in Span(R[g[j]]) PROVE j = i
    <3>1. g[j] \in DOMAIN R
      BY <1>2, <1>7
    <3>2. g[j] = k
      BY <1>3, <2>3, <2>5, <3>1
    <3> QED
      BY <1>5, <2>4, <3>2
  <2>6. Feeding(existing, c) = {i}
    BY <2>2, <2>3, <2>4, <2>5
  <2> QED
    BY <2>6, FS_Singleton
<1>10. bedW > 0 => BedPresent(existing, bedW)
  <2> SUFFICES ASSUME bedW > 0 PROVE BedPresent(existing, bedW)
    OBVIOUS
  <2>1. n = 1 /\ 1 \in 1..Len(R)
    BY <1>0, <1>1, <1>2
  <2>2. PICK i \in A : g[i] = 1
    BY <1>5, <2>1
  <2> QED
    BY <1>4, <1>7, <2>1, <2>2 DEF BedPresent, A
<1>11. ASSUME NEW i \in A
       PROVE  i \in Above(existing, bedW) <=> g[i] - n \in 1..m
  <2>1. g[i] \in 1..(n + m)
    BY <1>2, <1>7
  <2>2. CASE n = 1 /\ g[i] = 1
    BY <1>0, <1>1, <1>4, <1>7, <2>2 DEF Above, A
  <2>3. CASE ~(n = 1 /\ g[i] = 1)
    <3>1. g[i] - n \in 1..m /\ n + (g[i] - n) = g[i]
      BY <1>0, <1>1, <2>1, <2>3
    <3>2. existing[i].dstOff = bedW + (g[i] - n) - 1
      BY <1>4, <1>7, <3>1
    <3> QED
      BY <1>0, <1>1, <3>1, <3>2 DEF Above, A
  <2> QED
    BY <2>2, <2>3
<1>12. Above(existing, bedW) \subseteq A
  BY DEF Above, A
<1>13. ObjectChannels(existing, bedW) = Above(existing, bedW)
  <2> SUFFICES ASSUME NEW i \in Above(existing, bedW) PROVE existing[i].width = 1
    BY DEF ObjectChannels
  <2>1. i \in A /\ g[i] - n \in 1..m
    BY <1>11, <1>12
  <2>2. g[i] \in 1..Len(R) /\ n + (g[i] - n) = g[i]
    BY <1>1, <1>7, <2>1
  <2> QED
    BY <1>4, <1>7, <2>1, <2>2
<1>14. Cardinality(ObjectChannels(existing, bedW)) = m
  <2> DEFINE O == Above(existing, bedW)
             h == [k \in 1..m |-> CHOOSE i \in A : g[i] = n + k]
  <2>1. ASSUME NEW k \in 1..m PROVE h[k] \in O /\ g[h[k]] = n + k
    <3>1. n + k \in 1..Len(R)
      BY <1>0, <1>1, <1>2
    <3>2. \E i \in A : g[i] = n + k
      BY <1>5, <3>1
    <3>3. h[k] \in A /\ g[h[k]] = n + k
      BY <3>2
    <3>4. g[h[k]] - n = k
      BY <1>0, <1>1, <3>3
    <3> HIDE DEF h
    <3> QED
      BY <1>11, <3>3, <3>4
  <2>2. h \in [1..m -> O]
    BY <2>1
  <2>3. \A a, b \in 1..m : h[a] = h[b] => a = b
    <3> HIDE DEF h
    <3> QED
      BY <1>0, <1>1, <2>1
  <2>4. ASSUME NEW i \in O PROVE \E k \in 1..m : h[k] = i
    <3>1. i \in A /\ g[i] - n \in 1..m
      BY <1>11, <1>12
    <3>2. g[h[g[i] - n]] = n + (g[i] - n) /\ h[g[i] - n] \in A
      BY <1>12, <2>1, <3>1
    <3>3. g[i] \in 1..Len(R)
      BY <1>5, <3>1
    <3>4. n + (g[i] - n) = g[i]
      BY <1>1, <1>2, <3>3
    <3> HIDE DEF h
    <3> QED
      BY <1>5, <3>1, <3>2, <3>4
  <2> HIDE DEF h, O
  <2>5. h \in Bijection(1..m, O)
    BY <2>2, <2>3, <2>4, Fun_IsBij
  <2>6. ExistsBijection(1..m, O)
    BY <2>5 DEF ExistsBijection
  <2>7. Cardinality(O) = m
    BY <1>0, <2>6, FS_CountingElements
  <2> QED
    BY <1>13, <2>7 DEF O
<1>15. /\ ~\E c \in 0..(Covered(existing) - 1) : Cardinality(Feeding(existing, c)) > 1
       /\ ~\E c \in 0..(Covered(existing) - 1) : Feeding(existing, c) = {}
       /\ ~(Covered(existing) > MaxRendererChannels)
       /\ ~(Cardinality(ObjectChannels(existing, bedW)) > MaxObjects)
       /\ ~(Cardinality(ObjectChannels(existing, bedW)) < m)
  <2>1. \A c \in 0..(Covered(existing) - 1) : ~(Cardinality(Feeding(existing, c)) > 1)
    BY <1>9
  <2> QED
    BY <1>0, <1>6, <1>8, <1>9, <1>14, <2>1, LimitsAssumption
<1>16. Inspect(existing, bedW, m) = {}
  BY <1>10, <1>13, <1>15 DEF Inspect
<1> QED
  BY <1>8, <1>16 DEF m, t
=============================================================================
