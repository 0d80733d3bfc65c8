-------------------------- MODULE PartitionLayout --------------------------
(***************************************************************************)
(* The offsets of the partitions of one device: the inner loop of          *)
(* Executor._assign_partition_indices in storage/executor.py, which walks  *)
(* the partitions in source order with a cursor in whole MiB.              *)
(*                                                                         *)
(* Sizes and positions are in bytes. Where the code hands parted an        *)
(* expression, the model has the position it denotes.                      *)
(***************************************************************************)
EXTENDS Integers, Sequences

CONSTANT PartLists   \* the lists of partitions to explore

Mib == 1024 * 1024

(* Values of fields that are no number of bytes. *)
Absent    == -1   \* begin: the spec does not give it
Foreign   == -2   \* begin: only parted understands it, as "10%"
Remainder == -3   \* size: {max}; end: "100%"
NoCursor  == -4   \* cursor_mib is None
Summed    == -5   \* end: "<begin> + <size>B", left to parted to add

Partition == [begin : Nat \cup {Absent, Foreign}, size : Nat \cup {Remainder}]

ASSUME LayoutAssumption == PartLists \subseteq Seq(Partition)

VARIABLES
  parts,    \* the partitions of the device, in source order
  cursor,   \* cursor_mib
  spans,    \* _begin_expr and _end_expr of the partitions done
  verdict   \* "open" while the loop runs

layoutVars == <<parts, cursor, spans, verdict>>
-----------------------------------------------------------------------------
(* _try_parse_mib. *)
TryParseMib(begin) ==
  IF begin # Foreign /\ begin % Mib = 0 THEN begin \div Mib ELSE NoCursor

(* MUTANT of BytesToMibCeil: rounded to the MiB below. *)
BytesToMibFloor(size) == size \div Mib

(* _bytes_to_mib_ceil. *)
BytesToMibCeil(size) == (size + Mib - 1) \div Mib

(* The cursor once `begin` is dealt with. *)
FromBegin(part) ==
  IF part.begin = Absent THEN cursor ELSE TryParseMib(part.begin)

(* MUTANT of AfterPart: {max} leaves the cursor alone. *)
AfterPartStay(part) ==
  LET from == FromBegin(part) IN
  IF part.size = Remainder \/ from = NoCursor
  THEN from ELSE from + BytesToMibCeil(part.size)

(* The cursor once `size` is dealt with. *)
AfterPart(part) ==
  LET from == FromBegin(part) IN
  IF part.size = Remainder \/ from = NoCursor
  THEN NoCursor ELSE from + BytesToMibCeil(part.size)

LayoutInit ==
  /\ parts \in PartLists
  /\ cursor = 1
  /\ spans = <<>>
  /\ verdict = "open"

Part == parts[Len(spans) + 1]

(* MUTANT of Unplaceable: no cursor, no matter. *)
NeverUnplaceable == FALSE

Unplaceable == Part.begin = Absent /\ cursor = NoCursor

(* One turn of the loop. *)
Place ==
  /\ verdict = "open" /\ Len(spans) < Len(parts)
  /\ ~Unplaceable
  /\ cursor' = AfterPart(Part)
  /\ spans' = Append(spans,
       [begin |-> IF Part.begin = Absent THEN cursor * Mib ELSE Part.begin,
        end   |-> IF Part.size = Remainder THEN Remainder
                  ELSE IF FromBegin(Part) = NoCursor THEN Summed
                  ELSE AfterPart(Part) * Mib])
  /\ UNCHANGED <<parts, verdict>>

(* "implicit begin requires the previous partition to end on a MiB         *)
(* boundary": NodeValidationError.                                         *)
RejectImplicit ==
  /\ verdict = "open" /\ Len(spans) < Len(parts)
  /\ Unplaceable
  /\ verdict' = "rejected"
  /\ UNCHANGED <<parts, cursor, spans>>

EndLayout ==
  /\ verdict = "open" /\ Len(spans) = Len(parts)
  /\ verdict' = "done"
  /\ UNCHANGED <<parts, cursor, spans>>

LayoutNext == Place \/ RejectImplicit \/ EndLayout

LayoutSpec == LayoutInit /\ [][LayoutNext]_layoutVars
-----------------------------------------------------------------------------
LayoutTypeOK ==
  /\ parts \in Seq(Partition)
  /\ cursor \in Nat \cup {NoCursor}
  /\ spans \in Seq([begin : Nat \cup {Foreign},
                    end : Nat \cup {Remainder, Summed}])
  /\ Len(spans) <= Len(parts)
  /\ verdict \in {"open", "done", "rejected"}

(* executor.py _assign_partition_indices: a partition whose end the code   *)
(* computes has room for its size, and wastes less than a MiB.             *)
RoomForSize ==
  \A i \in DOMAIN spans : spans[i].end >= 0 =>
    /\ spans[i].end - spans[i].begin >= parts[i].size
    /\ spans[i].end - spans[i].begin < parts[i].size + Mib

(* Where partition i ends, if the spec says so. *)
Bounded(i) == spans[i].begin # Foreign /\ spans[i].end # Remainder

End(i) == IF spans[i].end = Summed THEN spans[i].begin + parts[i].size
          ELSE spans[i].end

(* Partition j starts where all before it have ended. *)
Clear(j) == \A i \in 1..(j - 1) : Bounded(i) /\ End(i) <= spans[j].begin

(* executor.py _assign_partition_indices: computed offsets never make      *)
(* partitions overlap. If each `begin` the spec gives is clear of the      *)
(* partitions before it, so is each one the code computes; in particular   *)
(* none is computed after {max} or after an end the code does not know.    *)
NoOverlap ==
  \A j \in DOMAIN spans :
    /\ parts[j].begin = Absent
    /\ \A h \in 1..(j - 1) : parts[h].begin # Absent => Clear(h)
    => Clear(j)

(* .github/development-journal.md:28: a `begin` "that doesn't land on a    *)
(* MiB boundary breaks the chain, and subsequent partitions fall back to   *)
(* parted expression arithmetic": only {max} leads to a rejection.         *)
UnalignedFallsBack ==
  verdict = "rejected" => \E i \in DOMAIN spans : parts[i].size = Remainder
=============================================================================
