-------------------------- MODULE MCPartitionLayout --------------------------
(* Instances of PartitionLayout: short lists of partitions around the MiB    *)
(* boundaries.                                                             *)
EXTENDS PartitionLayout, SequencesExt

CONSTANT MaxParts   \* longest list of the instance

(* "2048s", 1.5 MiB and 999B among them. *)
Begins == {Absent, Foreign, 999, Mib, Mib + Mib \div 2, 3 * Mib}

Sizes == {0, 1536, Mib, Mib + 1, Remainder}

SmallLists == BoundedSeq([begin : Begins, size : Sizes], MaxParts)
=============================================================================
