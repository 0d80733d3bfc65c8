----------------------- MODULE PartitionLayoutProofs -----------------------
(***************************************************************************)
(* Safety of PartitionLayout for lists of partitions of any length, sizes  *)
(* and offsets. The key fact is CursorInv: whenever there is a cursor, it  *)
(* is the end the code gave to the last partition, so that a computed      *)
(* begin inherits what the last partition was clear of.                    *)
(***************************************************************************)
EXTENDS PartitionLayout, TLAPS

CursorInv ==
  cursor # NoCursor =>
    IF spans = <<>> THEN cursor = 1
    ELSE spans[Len(spans)].end = cursor * Mib

(* A span whose end the code knows has a begin and a size it knows. *)
SpanShape ==
  \A i \in DOMAIN spans : spans[i].end >= 0 =>
    spans[i].begin \in Nat /\ parts[i].size \in Nat

LayoutInv == LayoutTypeOK /\ CursorInv /\ SpanShape /\ RoomForSize /\ NoOverlap
-----------------------------------------------------------------------------
(* executor.py _bytes_to_mib_ceil: the least number of MiB that holds the  *)
(* bytes.                                                                  *)
LEMMA CeilIsLeast ==
  ASSUME NEW size \in Nat
  PROVE  /\ BytesToMibCeil(size) \in Nat
         /\ BytesToMibCeil(size) * Mib >= size
         /\ BytesToMibCeil(size) * Mib < size + Mib
BY DEF BytesToMibCeil, Mib

(* executor.py _try_parse_mib: a cursor taken from `begin` is at `begin`.  *)
LEMMA ParsedIsBegin ==
  ASSUME NEW begin \in Nat \cup {Foreign}
  PROVE  /\ TryParseMib(begin) \in Nat \cup {NoCursor}
         /\ TryParseMib(begin) # NoCursor =>
              begin \in Nat /\ TryParseMib(begin) * Mib = begin
BY DEF TryParseMib, Mib, Foreign, NoCursor

(* The loop starts at 1 MiB with nothing placed. *)
LEMMA LayoutInitInv == LayoutInit => LayoutInv
BY LayoutAssumption
   DEF LayoutInit, LayoutInv, LayoutTypeOK, CursorInv, SpanShape, RoomForSize,
       NoOverlap, NoCursor

(* One turn of the loop appends one span; what it is made of. *)
LEMMA PlaceSpan ==
  ASSUME LayoutInv, Place
  PROVE  LET n == Len(spans) + 1 IN
         /\ n \in DOMAIN parts /\ n \in Nat
         /\ parts[n] \in Partition
         /\ parts' = parts /\ verdict' = verdict
         /\ Len(spans') = n /\ DOMAIN spans' = 1..n
         /\ \A i \in 1..(n - 1) : spans'[i] = spans[i]
         /\ spans'[n].begin =
              IF parts[n].begin = Absent THEN cursor * Mib ELSE parts[n].begin
         /\ spans'[n].end =
              IF parts[n].size = Remainder THEN Remainder
              ELSE IF FromBegin(parts[n]) = NoCursor THEN Summed
              ELSE AfterPart(parts[n]) * Mib
         /\ cursor' = AfterPart(parts[n])
         /\ parts[n].begin = Absent => cursor \in Nat
<1>1. /\ parts \in Seq(Partition) /\ Len(parts) \in Nat
      /\ DOMAIN parts = 1..Len(parts)
      /\ Len(spans) \in Nat /\ DOMAIN spans = 1..Len(spans)
      /\ Len(spans) < Len(parts)
      /\ cursor \in Nat \cup {NoCursor}
  BY DEF LayoutInv, LayoutTypeOK, Place
<1> QED BY <1>1 DEF Place, Part, Unplaceable, LayoutInv, LayoutTypeOK

(* The arithmetic of one turn: the new span holds its size, its begin is a *)
(* number if its end is, and the cursor moves to its end.                  *)
LEMMA SpanArithmetic ==
  ASSUME NEW part \in Partition, cursor \in Nat \cup {NoCursor},
         part.begin = Absent => cursor \in Nat,
         NEW b, b = IF part.begin = Absent THEN cursor * Mib ELSE part.begin,
         NEW e, e = IF part.size = Remainder THEN Remainder
                    ELSE IF FromBegin(part) = NoCursor THEN Summed
                    ELSE AfterPart(part) * Mib
  PROVE  /\ b \in Nat \cup {Foreign} /\ e \in Nat \cup {Remainder, Summed}
         /\ AfterPart(part) \in Nat \cup {NoCursor}
         /\ AfterPart(part) # NoCursor => e = AfterPart(part) * Mib
         /\ e >= 0 => /\ b \in Nat /\ part.size \in Nat
                      /\ e - b >= part.size /\ e - b < part.size + Mib
<1>1. /\ part.begin \in Nat \cup {Absent, Foreign}
      /\ part.size \in Nat \cup {Remainder}
  BY DEF Partition
<1>2. /\ FromBegin(part) \in Nat \cup {NoCursor}
      /\ FromBegin(part) # NoCursor => b \in Nat /\ FromBegin(part) * Mib = b
  BY <1>1, ParsedIsBegin DEF FromBegin, Mib, Absent, Foreign, NoCursor
<1>3. b \in Nat \cup {Foreign}
  BY <1>1 DEF Mib, Absent, Foreign
<1>4. CASE part.size = Remainder \/ FromBegin(part) = NoCursor
  BY <1>1, <1>2, <1>3, <1>4 DEF AfterPart, Remainder, Summed, NoCursor
<1>5. CASE part.size \in Nat /\ FromBegin(part) \in Nat
  <2>1. AfterPart(part) = FromBegin(part) + BytesToMibCeil(part.size)
    BY <1>5 DEF AfterPart, Remainder, NoCursor
  <2>2. e = AfterPart(part) * Mib
    BY <1>5 DEF Remainder, NoCursor
  <2>3. AfterPart(part) \in Nat /\ AfterPart(part) * Mib =
          b + BytesToMibCeil(part.size) * Mib
    BY <1>2, <1>5, <2>1, CeilIsLeast DEF Mib, NoCursor
  <2> QED BY <1>2, <1>3, <1>5, <2>2, <2>3, CeilIsLeast DEF Mib, NoCursor
<1> QED BY <1>1, <1>2, <1>4, <1>5

(* The fields of a span. *)
LEMMA SpanTyped ==
  ASSUME LayoutTypeOK, NEW i \in DOMAIN spans
  PROVE  /\ spans[i].begin \in Nat \cup {Foreign}
         /\ spans[i].end \in Nat \cup {Remainder, Summed}
<1>1. PICK R : R = [begin : Nat \cup {Foreign}, end : Nat \cup {Remainder, Summed}]
  OBVIOUS
<1>2. spans \in Seq(R)
  BY <1>1, Zenon DEF LayoutTypeOK
<1>3. spans[i] \in R
  BY <1>2
<1> QED BY <1>1, <1>3

(* A computed begin is clear of all before it, as it is the end of the     *)
(* last partition, which was clear of those before.                        *)
LEMMA PlaceKeepsClear ==
  ASSUME LayoutInv, Place, NoOverlap
  PROVE  NoOverlap'
<1> DEFINE n == Len(spans) + 1
<1>1. /\ n \in DOMAIN parts /\ n \in Nat /\ n >= 1 /\ Len(spans) \in Nat
      /\ parts' = parts
      /\ DOMAIN spans' = 1..n /\ DOMAIN spans = 1..(n - 1)
      /\ \A i \in 1..(n - 1) : spans'[i] = spans[i]
      /\ spans'[n].begin =
           IF parts[n].begin = Absent THEN cursor * Mib ELSE parts[n].begin
      /\ parts[n].begin = Absent => cursor \in Nat
  BY PlaceSpan DEF LayoutInv, LayoutTypeOK
<1>2. \A i \in 1..(n - 1) : (Bounded(i)' <=> Bounded(i)) /\ End(i)' = End(i)
  BY <1>1 DEF Bounded, End
<1>3. \A j \in 1..(n - 1) : Clear(j)' <=> Clear(j)
  <2> SUFFICES ASSUME NEW j \in 1..(n - 1) PROVE Clear(j)' <=> Clear(j)
    OBVIOUS
  <2>1. \A i \in 1..(j - 1) : i \in 1..(n - 1)
    BY <1>1
  <2> QED BY <1>1, <1>2, <2>1 DEF Clear
<1> SUFFICES ASSUME NEW j \in 1..n, parts[j].begin = Absent,
                    \A h \in 1..(j - 1) : parts[h].begin # Absent => Clear(h)'
             PROVE  Clear(j)'
  BY <1>1 DEF NoOverlap
<1>4. CASE j < n
  <2>1. \A h \in 1..(j - 1) : parts[h].begin # Absent => Clear(h)
    BY <1>1, <1>3, <1>4
  <2>2. Clear(j)
    BY <1>1, <1>4, <2>1 DEF NoOverlap
  <2> QED BY <1>1, <1>3, <1>4, <2>2
<1>5. CASE j = n /\ n = 1
  BY <1>5 DEF Clear
<1>6. CASE j = n /\ n > 1
  <2> DEFINE l == n - 1
  <2>1. l \in 1..(n - 1) /\ l \in DOMAIN spans /\ l = Len(spans)
    BY <1>1, <1>6
  <2>2. Clear(l)
    <3>1. \A h \in 1..(l - 1) : parts[h].begin # Absent => Clear(h)
      BY <1>1, <1>3, <1>6
    <3>2. parts[l].begin # Absent => Clear(l)
      BY <1>1, <1>3, <1>6, <2>1
    <3>3. parts[l].begin = Absent => Clear(l)
      BY <2>1, <3>1 DEF NoOverlap
    <3> QED BY <3>2, <3>3
  <2>3. cursor \in Nat /\ spans'[n].begin = cursor * Mib
    BY <1>1, <1>6
  <2>4. spans[l].end = cursor * Mib
    BY <2>1, <2>3 DEF LayoutInv, CursorInv, NoCursor
  <2>5. spans[l].end \in Nat
    BY <2>3, <2>4 DEF Mib
  <2>6. spans[l].begin \in Nat /\ spans[l].begin <= spans[l].end
    <3>1. spans[l].begin \in Nat /\ parts[l].size \in Nat
      BY <2>1, <2>5 DEF LayoutInv, SpanShape
    <3>2. spans[l].end - spans[l].begin >= parts[l].size
      BY <2>1, <2>5 DEF LayoutInv, RoomForSize
    <3> QED BY <2>5, <3>1, <3>2
  <2>7. ASSUME NEW i \in 1..(n - 1)
        PROVE  Bounded(i) /\ End(i) <= cursor * Mib
    <3>1. CASE i = l
      BY <2>4, <2>5, <2>6, <3>1 DEF Bounded, End, Foreign, Remainder, Summed
    <3>2. CASE i < l
      <4>1. Bounded(i) /\ End(i) <= spans[l].begin
        BY <2>2, <3>2, <1>1 DEF Clear
      <4>2. End(i) \in Int
        <5>1. i \in DOMAIN spans /\ parts[i] \in Partition
          BY <1>1 DEF LayoutInv, LayoutTypeOK
        <5>2. /\ spans[i].begin \in Nat \cup {Foreign}
              /\ spans[i].end \in Nat \cup {Remainder, Summed}
          BY <5>1, SpanTyped DEF LayoutInv
        <5> QED BY <5>1, <5>2 DEF End, Partition, Foreign, Remainder, Summed
      <4>3. End(i) <= spans[l].end
        BY <2>5, <2>6, <4>1, <4>2
      <4> HIDE DEF l
      <4> QED BY ONLY <2>4, <4>1, <4>3
    <3>3. i = l \/ i < l
      <4>1. Len(spans) \in Nat
        BY <1>1
      <4>2. i \in 1..Len(spans) /\ l = Len(spans)
        BY <4>1
      <4> HIDE DEF l
      <4> QED BY ONLY <4>1, <4>2
    <3> QED BY <3>1, <3>2, <3>3
  <2> QED BY <1>1, <1>2, <1>6, <2>3, <2>7 DEF Clear
<1> QED BY <1>1, <1>4, <1>5, <1>6

(* A turn that places a partition keeps every part of the invariant. *)
LEMMA PlaceInv ==
  ASSUME LayoutInv, Place
  PROVE  LayoutInv'
<1> DEFINE n == Len(spans) + 1
<1>1. /\ n \in DOMAIN parts /\ n \in Nat /\ n >= 1
      /\ parts[n] \in Partition
      /\ parts' = parts /\ verdict' = verdict
      /\ Len(spans') = n /\ DOMAIN spans' = 1..n /\ DOMAIN spans = 1..(n - 1)
      /\ \A i \in 1..(n - 1) : spans'[i] = spans[i]
      /\ spans'[n].begin =
           IF parts[n].begin = Absent THEN cursor * Mib ELSE parts[n].begin
      /\ spans'[n].end =
           IF parts[n].size = Remainder THEN Remainder
           ELSE IF FromBegin(parts[n]) = NoCursor THEN Summed
           ELSE AfterPart(parts[n]) * Mib
      /\ cursor' = AfterPart(parts[n])
      /\ parts[n].begin = Absent => cursor \in Nat
  BY PlaceSpan DEF LayoutInv, LayoutTypeOK
<1>2. /\ spans'[n].begin \in Nat \cup {Foreign}
      /\ spans'[n].end \in Nat \cup {Remainder, Summed}
      /\ cursor' \in Nat \cup {NoCursor}
      /\ cursor' # NoCursor => spans'[n].end = cursor' * Mib
      /\ spans'[n].end >= 0 =>
           /\ spans'[n].begin \in Nat /\ parts[n].size \in Nat
           /\ spans'[n].end - spans'[n].begin >= parts[n].size
           /\ spans'[n].end - spans'[n].begin < parts[n].size + Mib
  BY <1>1, SpanArithmetic DEF LayoutInv, LayoutTypeOK
<1>3. LayoutTypeOK'
  <2>1. spans' \in Seq([begin : Nat \cup {Foreign},
                        end : Nat \cup {Remainder, Summed}])
    BY <1>1, <1>2 DEF Place, LayoutInv, LayoutTypeOK
  <2> QED BY <1>1, <1>2, <2>1 DEF LayoutInv, LayoutTypeOK
<1>4. CursorInv'
  BY <1>1, <1>2 DEF CursorInv
<1>5. SpanShape'
  BY <1>1, <1>2 DEF LayoutInv, SpanShape
<1>6. RoomForSize'
  BY <1>1, <1>2 DEF LayoutInv, RoomForSize
<1>7. NoOverlap'
  BY PlaceKeepsClear DEF LayoutInv
<1> QED BY <1>3, <1>4, <1>5, <1>6, <1>7 DEF LayoutInv

(* executor.py _assign_partition_indices: every turn keeps the offsets     *)
(* sound.                                                                  *)
LEMMA LayoutStepInv == LayoutInv /\ [LayoutNext]_layoutVars => LayoutInv'
<1> SUFFICES ASSUME LayoutInv, [LayoutNext]_layoutVars PROVE LayoutInv'
  OBVIOUS
<1>1. CASE Place
  BY <1>1, PlaceInv
<1>2. CASE /\ UNCHANGED <<parts, cursor, spans>>
           /\ verdict' \in {"open", "done", "rejected"}
  BY <1>2 DEF LayoutInv, LayoutTypeOK, CursorInv, SpanShape, RoomForSize,
              NoOverlap, Clear, Bounded, End
<1>3. CASE RejectImplicit
  BY <1>2, <1>3 DEF RejectImplicit
<1>4. CASE EndLayout
  BY <1>2, <1>4 DEF EndLayout
<1>5. CASE UNCHANGED layoutVars
  BY <1>2, <1>5 DEF layoutVars, LayoutInv, LayoutTypeOK
<1> QED BY <1>1, <1>3, <1>4, <1>5 DEF LayoutNext
-----------------------------------------------------------------------------
(* The inductive invariant holds throughout. *)
THEOREM LayoutCorrect == LayoutSpec => []LayoutInv
BY LayoutInitInv, LayoutStepInv, PTL DEF LayoutSpec

(* A begin is never computed from a missing cursor. *)
THEOREM LayoutTypeCorrect == LayoutSpec => []LayoutTypeOK
<1>1. LayoutInv => LayoutTypeOK
  BY DEF LayoutInv
<1> QED BY <1>1, LayoutCorrect, PTL

(* executor.py _assign_partition_indices: every partition has room for its *)
(* size and wastes less than a MiB, whatever the sizes.                    *)
THEOREM PartitionsHaveRoom == LayoutSpec => []RoomForSize
<1>1. LayoutInv => RoomForSize
  BY DEF LayoutInv
<1> QED BY <1>1, LayoutCorrect, PTL

(* executor.py _assign_partition_indices: computed offsets never make      *)
(* partitions overlap.                                                     *)
THEOREM PartitionsDisjoint == LayoutSpec => []NoOverlap
<1>1. LayoutInv => NoOverlap
  BY DEF LayoutInv
<1> QED BY <1>1, LayoutCorrect, PTL
=============================================================================
