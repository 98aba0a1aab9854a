---------------------------- MODULE MCDataStore -----------------------------
(***************************************************************************)
(* DataStore with FILES, its versions FILES_arm and FILES_local, and       *)
(* FILES_${PN}, which expands to FILES.  FILES is in the environment as    *)
(* well, and so is FILES_arm in one usage.                                 *)
(***************************************************************************)
EXTENDS DataStore

CONSTANTS files, filesArm, filesLocal, filesPN, arm, local

AllNames == {files, filesArm, filesLocal, filesPN}

(* A conditional version with appends, in three stores, with deletion, and *)
(* in the environment; two versions; all kinds of pending pieces of one    *)
(* variable; a name to expand.                                             *)
Conditional == [names |-> {files, filesArm}, env |-> {files},
                calls |-> {"set", "append"}, for |-> {None},
                overrides |-> {arm}, stores |-> 2, pieces |-> 3]
Layered == [Conditional EXCEPT !.calls = {"set"}, !.stores = 3, !.pieces = 2]
Deleted == [Conditional EXCEPT !.calls = {"set", "del"}, !.pieces = 2]
Inherited == [Conditional EXCEPT !.env = {files, filesArm}, !.pieces = 2]
Versions == [Conditional EXCEPT !.names = {files, filesArm, filesLocal}, !.env = {},
                                !.overrides = {arm, local}, !.pieces = 2]
Extended == [names |-> {files}, env |-> {files}, calls |-> {"set", "append", "prepend"},
             for |-> {None, arm}, overrides |-> {arm}, stores |-> 2, pieces |-> 3]
Expandable == [names |-> {files, filesPN}, env |-> {files}, calls |-> {"set", "append", "del"},
               for |-> {None}, overrides |-> {}, stores |-> 2, pieces |-> 3]

AllUsages == {Conditional, Layered, Deleted, Inherited, Versions, Extended, Expandable}
LayeredUsage == {Layered}
BaseOf == [n \in Name |-> IF n \in {filesArm, filesLocal} THEN files ELSE None]
CondOf == [n \in Name |-> IF n = filesArm THEN arm ELSE IF n = filesLocal THEN local ELSE None]
ExpandedTo == [n \in Name |-> IF n = filesPN THEN files ELSE n]
=============================================================================
