------------------------------ MODULE Whitelist ------------------------------
(***************************************************************************)
(* The lineage whitelist, src/pkg/validator/validator.go: a map from a     *)
(* parent binary to the children it may start, filled from YAML files.     *)
(*                                                                         *)
(* A file is a sequence of entries [parent, children] that name binaries   *)
(* by path; Base is filepath.Base, by which several paths are one binary.  *)
(* A file that is not there, or that YAML cannot parse, is a model value.  *)
(***************************************************************************)
EXTENDS Integers, Sequences, FiniteSetsExt

CONSTANTS Base,     \* path -> name of the binary
          Missing,  \* no such file
          Corrupt   \* a file that does not parse

Readable(file) == file \notin {Missing, Corrupt}

Parents(file) == {Base[file[i].parent] : i \in DOMAIN file}

EntriesOf(file, parent) == {i \in DOMAIN file : Base[file[i].parent] = parent}

Names(paths) == {Base[path] : path \in paths}

(* Load: an entry replaces an earlier one for the same parent.             *)
FromFile(file) == [parent \in Parents(file) |->
                      Names(file[Max(EntriesOf(file, parent))].children)]

Empty == [parent \in {} |-> {}]

Children(allow, parent) == IF parent \in DOMAIN allow THEN allow[parent] ELSE {}

(* LoadMulti: an entry adds to what the parent may start already.          *)
Merge(allow, file) ==
    [parent \in DOMAIN allow \cup Parents(file) |->
        Children(allow, parent) \cup UNION {Names(file[i].children) :
                                               i \in EntriesOf(file, parent)}]

Classify(allow, parent, child) ==
    IF Base[parent] \notin DOMAIN allow THEN "SUSPICIOUS"
    ELSE IF Base[child] \in allow[Base[parent]] THEN "NORMAL"
    ELSE "ANOMALOUS"
=============================================================================
