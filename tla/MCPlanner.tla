----------------------------- MODULE MCPlanner -----------------------------
(* Instances of Planner: specs of one disk and a few nodes around it. *)
EXTENDS Planner

Blueprint(kind, list, path) ==
  [kind |-> kind, parents |-> list, ignore |-> FALSE, opts |-> {},
   path |-> path, modules |-> {}]

Disk == Blueprint("hardware", <<>>, <<>>)

(* A node of each kind on any one parent, itself included. *)
OnOne(kinds, path) ==
  {Blueprint(kind, <<p>>, path) : kind \in kinds, p \in Node}

(* Partitions, filesystems at two depths and debug messages, one of them   *)
(* with an unknown parent.                                                 *)
DiskSpecs ==
  [Node -> {Disk, Blueprint("debug", <<Unknown>>, <<>>)}
             \cup OnOne({"partition", "debug"}, <<>>)
             \cup OnOne({"filesystem"}, <<"">>)
             \cup OnOne({"filesystem"}, <<"boot">>)]

(* Every kind of node, with an array on any two parents, and a disk as the *)
(* last node.                                                              *)
KindSpecs ==
  {Append(nodes, Disk) :
     nodes \in [1..(NodeCount - 1) ->
       {Disk, Blueprint("command", <<>>, <<>>)}
         \cup OnOne(Kind \ {"hardware", "command", "filesystem"}, <<>>)
         \cup OnOne({"filesystem"}, <<"">>)
         \cup OnOne({"filesystem"}, <<"srv", "data">>)
         \cup {Blueprint("raid1", <<p, q>>, <<>>) : p, q \in Node}]}

(* Filesystems on one disk, with mountpoints written in all ways: "/",     *)
(* "//", "///", "/boot/", "//boot", "/./boot", "/boot/../srv", ...         *)
Mountpoints ==
  {<<"">>, <<"", "">>, <<"", "", "">>, <<"boot">>, <<"boot", "">>,
   <<"", "boot">>, <<"", "", "boot">>, <<".", "boot">>, <<"boot", "efi">>,
   <<"boot", "..", "srv">>, <<"boot", "..">>}

PathSpecs ==
  {<<Disk>> \o nodes :
     nodes \in [1..(NodeCount - 1) ->
       {Blueprint("filesystem", <<1>>, path) : path \in Mountpoints}]}

AllSpecs == DiskSpecs \cup KindSpecs \cup PathSpecs

ShortLists == [Node -> BoundedSeq(Node \cup {Unknown}, 2)]
=============================================================================
