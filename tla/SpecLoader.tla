----------------------------- MODULE SpecLoader -----------------------------
(***************************************************************************)
(* load_spec of storage/spec.py: from a document to the nodes main() hands *)
(* to the Executor, or to the exception it ends with.                      *)
(*                                                                         *)
(* A document has                                                          *)
(*   file     "missing": it cannot be read; "binary": it is not UTF-8;     *)
(*            "text": it can be read                                       *)
(*   yaml     what safe_load makes of it: "malformed" (it raises),         *)
(*            "scalar" (the root is no mapping) or "mapping"               *)
(*   vars     whether `vars` is absent or a mapping                        *)
(*   storage  whether `storage` is a list; its entries are in `entries`    *)
(*   layout   what _assign_partition_indices makes of begin and size:      *)
(*            "fits", "rejected" (NodeValidationError) or "unreadable" (a  *)
(*            size that parse_size does not take)                          *)
(* and an entry the fields of a node record with ids as parents, and       *)
(*   mapping  whether it is one                                            *)
(*   type     "control", a type of the registry, "none" or another word    *)
(*   id       its id                                                       *)
(*   fields   "good", "bad" (the constructor, or for a control entry       *)
(*            normalize_modules, raises NodeValidationError), "odd" (it    *)
(*            raises another exception, as int() of a slot)                *)
(*   unbound  whether it mentions a variable that `vars` does not have     *)
(***************************************************************************)
EXTENDS StorageNodes

EntryRecord ==
  [mapping : BOOLEAN, type : STRING, id : STRING, unbound : BOOLEAN,
   fields : {"good", "bad", "odd"}, parents : Seq(STRING), ignore : BOOLEAN,
   opts : SUBSET Option, path : Seq(STRING), modules : SUBSET STRING]

DocumentRecord ==
  [file : {"missing", "binary", "text"},
   yaml : {"malformed", "scalar", "mapping"},
   vars : BOOLEAN, storage : BOOLEAN,
   layout : {"fits", "rejected", "unreadable"}, entries : Seq(EntryRecord)]

(* The places of the control entries. *)
Controls(doc) ==
  {k \in DOMAIN doc.entries :
     doc.entries[k].mapping /\ doc.entries[k].type = "control"}

(* The entries without the control entry, once it is known that there is   *)
(* one and no other.                                                       *)
Others(doc) == RemoveAt(doc.entries, CHOOSE k \in Controls(doc) : TRUE)

(* A check of load_spec: whether it fails, and the exception it raises. *)
Check(fails, raises) == [fails |-> fails, raises |-> raises]

(* The checks in their order. Variables are expanded in all entries before *)
(* one of them is looked at.                                               *)
Checks(doc) ==
  << Check(doc.yaml = "malformed", "YAMLError"),
     Check(doc.yaml = "scalar", "NodeValidationError"),
     Check(~doc.vars, "NodeValidationError"),
     Check(~doc.storage, "NodeValidationError"),
     Check(\E k \in DOMAIN doc.entries : doc.entries[k].unbound, "KeyError"),
     Check(Cardinality(Controls(doc)) # 1, "NodeValidationError"),
     Check(\E k \in Controls(doc) : doc.entries[k].fields = "bad",
           "NodeValidationError") >>

(* cls(entry, ctx), after the checks of the entry itself. *)
EntryCheck(e) ==
  Check(\/ ~e.mapping \/ e.type \notin Kind \/ e.fields # "good",
        IF e.mapping /\ e.type \in Kind /\ e.fields = "odd"
        THEN "ValueError" ELSE "NodeValidationError")

(* The exception of the first check that fails, or "none". *)
FirstError(checks) ==
  LET failed == {k \in DOMAIN checks : checks[k].fails}
  IN  IF failed = {} THEN "none"
      ELSE checks[CHOOSE k \in failed : \A j \in failed : k <= j].raises

(* The exception load_spec ends with, or "none". *)
LoadError(doc) ==
  IF FirstError(Checks(doc)) # "none" THEN FirstError(Checks(doc))
  ELSE FirstError([k \in DOMAIN Others(doc) |-> EntryCheck(Others(doc)[k])])

(* Executor.__init__: "duplicate node id". *)
DuplicateIds(doc) ==
  \E j, k \in DOMAIN Others(doc) :
    j < k /\ Others(doc)[j].id = Others(doc)[k].id

(* self.nodes, with _by_id, a dict filled in source order, applied to the  *)
(* parents: an id no node has becomes `unknown`.                           *)
NodesOf(doc, unknown) ==
  LET entries == Others(doc)
      ById(id) == LET found == {k \in DOMAIN entries : entries[k].id = id}
                  IN  IF found = {} THEN unknown
                      ELSE CHOOSE k \in found : \A j \in found : j <= k
  IN  [n \in DOMAIN entries |->
         [kind    |-> entries[n].type,
          parents |-> [k \in DOMAIN entries[n].parents |->
                         ById(entries[n].parents[k])],
          ignore  |-> entries[n].ignore,
          opts    |-> entries[n].opts,
          path    |-> entries[n].path,
          modules |-> entries[n].modules]]
=============================================================================
