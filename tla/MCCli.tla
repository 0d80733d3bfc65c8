------------------------------- MODULE MCCli -------------------------------
(* Instances of Cli: a document, and what may be wrong with it. *)
EXTENDS Cli

Entry(id, type, parents) ==
  [mapping |-> TRUE, type |-> type, id |-> id, fields |-> "good",
   unbound |-> FALSE, parents |-> parents, ignore |-> FALSE, opts |-> {},
   path |-> <<>>, modules |-> {}]

(* Not in the order it will run in. *)
Entries ==
  << Entry("", "control", <<>>),
     [Entry("root", "filesystem", <<"crypt">>) EXCEPT !.path = <<"">>],
     [Entry("crypt", "dm-crypt-luks", <<"p1">>) EXCEPT !.modules = {"dm_crypt"}],
     Entry("p1", "partition", <<"disk">>),
     Entry("p2", "partition", <<"disk">>),
     [Entry("disk", "hardware", <<>>) EXCEPT !.opts = {"overwrite"}],
     [Entry("boot", "filesystem", <<"p2">>) EXCEPT !.path = <<"boot", "">>] >>

Good ==
  [file |-> "text", yaml |-> "mapping", vars |-> TRUE, storage |-> TRUE,
   layout |-> "fits", entries |-> Entries]

With(entries) == [Good EXCEPT !.entries = entries]
Crypt(edit(_)) == With([Entries EXCEPT ![3] = edit(@)])

Unreadable ==
  {[Good EXCEPT !.file = "missing"], [Good EXCEPT !.file = "binary"],
   [Good EXCEPT !.yaml = "malformed"], [Good EXCEPT !.yaml = "scalar"],
   [Good EXCEPT !.vars = FALSE], [Good EXCEPT !.storage = FALSE]}

Unloadable ==
  {With(Tail(Entries)), With(Append(Entries, Head(Entries))),
   With([Entries EXCEPT ![1].fields = "bad"]),
   Crypt(LAMBDA e : [e EXCEPT !.mapping = FALSE]),
   Crypt(LAMBDA e : [e EXCEPT !.type = "luks"]),
   Crypt(LAMBDA e : [e EXCEPT !.fields = "bad"]),
   Crypt(LAMBDA e : [e EXCEPT !.fields = "odd"]),
   Crypt(LAMBDA e : [e EXCEPT !.unbound = TRUE]),
   With([Entries EXCEPT ![7].id = "crypt"])}

(* Refused by prepare(): a parent nothing has, a cycle, a container on two *)
(* devices, partitions that cannot be placed.                              *)
Unpreparable ==
  {Crypt(LAMBDA e : [e EXCEPT !.parents = <<"p3">>]),
   Crypt(LAMBDA e : [e EXCEPT !.parents = <<"p1", "root">>]),
   Crypt(LAMBDA e : [e EXCEPT !.parents = <<"p1", "p2">>]),
   [Good EXCEPT !.layout = "rejected"], [Good EXCEPT !.layout = "unreadable"]}

(* Refused by the script generator only. *)
Marked == Crypt(LAMBDA e : [e EXCEPT !.opts = {"marker"}])

AllDocuments == {Good, Marked} \cup Unreadable \cup Unloadable \cup Unpreparable

(* What prepare() should make of them. *)
Node(kind, parents) ==
  [kind |-> kind, parents |-> parents, ignore |-> FALSE, opts |-> {},
   path |-> <<>>, modules |-> {}]

GoodPlan ==
  << [Node("hardware", <<>>) EXCEPT !.opts = {"overwrite"}],
     Node("partition", <<1>>),
     [Node("dm-crypt-luks", <<2>>) EXCEPT !.modules = {"dm_crypt"}],
     Node("partition", <<1>>),
     Node("filesystem", <<3>>),
     [Node("filesystem", <<4>>) EXCEPT !.path = <<"boot">>] >>

GoodPlans == {GoodPlan, [GoodPlan EXCEPT ![3].opts = {"marker"}]}
=============================================================================
