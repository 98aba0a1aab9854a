------------------------------ MODULE MCCooker ------------------------------
(***************************************************************************)
(* Cooker on small sets of recipes.  The tasks and their bbdepcmd flags    *)
(* are those of classes/base.bbclass.                                      *)
(***************************************************************************)
EXTENDS Cooker, SequencesExt

CONSTANTS app, lib, tool, lib2, virt, missing

BaseCmds == {"build", "compile", "clean", "do_populate_staging", "populate_staging"}
BaseTasks == BaseCmds \ {"do_populate_staging"}
BaseDepCmd == [c \in BaseCmds |-> CASE c = "compile" -> "do_populate_staging"
                                    [] c = "clean" -> ""
                                    [] OTHER -> None]
BaseStamps == [c \in BaseCmds |-> CASE c = "build" -> {"build", "compile", "populate_staging"}
                                    [] c = "populate_staging" -> {"compile", "populate_staging"}
                                    [] c = "clean" -> {}
                                    [] OTHER -> {c}]

(* The theorems about NotBuiltTwice and ImplementsBuildOrder apply here.   *)
ASSUME BaseIsAsTheTheoremsAssume == StampsAreOfTasks /\ DepCmdsAreNoTasks /\ CmdsLeaveStamps

Options(c, abort, dry_run) == [cmd |-> c, abort |-> abort, dry_run |-> dry_run]
ContinueBuild == Options("build", FALSE, FALSE)

(* Where nothing depends on them: files of one version, priority and       *)
(* preference, in any one order.                                           *)
Plain == [priority |-> 0, dp |-> 0, pv |-> <<2>>, pr |-> <<2>>]
AllPlain == [r \in Recipe |-> Plain]
NoneWanted == [n \in PN |-> {}]
AnyOrder == CHOOSE s \in SetToSeqs(Recipe) : TRUE

(* The dependencies of S as DEPENDS might list them.                       *)
Listed(S) == CHOOSE s \in SetToSeqs(S) : TRUE

-----------------------------------------------------------------------------
(* Every dependency graph on three recipes, with cycles and recipes that   *)
(* depend on themselves; app is up to date or not.                         *)
Three == {app, lib, tool}

ThreeWorlds ==
    {[provides  |-> [r \in Recipe |-> {r} \cap Three],
      depends   |-> [r \in Recipe |-> IF r \in Three THEN Listed(D[r]) ELSE <<>>],
      pkg_fn    |-> [r \in Recipe |-> r],
      parsed    |-> AnyOrder, about |-> AllPlain, wanted |-> NoneWanted,
      ignored   |-> {},
      preferred |-> [i \in Item |-> None],
      stamped   |-> S] :
        D \in [Three -> SUBSET Three], S \in {{}, {<<app, "build">>}}}

ThreeRuns ==
    [world : ThreeWorlds, targets : {<<app, tool>>, <<missing, lib>>},
     options : {ContinueBuild, Options("build", TRUE, FALSE), Options("clean", FALSE, FALSE)}]

(* Two providers of virt, and dependencies between them and a tool; each   *)
(* may be staged already, either may be preferred.                         *)
VirtWorlds ==
    {[provides  |-> [r \in Recipe |-> IF r \in {lib, lib2} THEN {virt} ELSE {r}],
      depends   |-> [D EXCEPT ![app] = <<virt, tool>>],
      pkg_fn    |-> [r \in Recipe |-> r],
      parsed    |-> AnyOrder, about |-> AllPlain, wanted |-> NoneWanted,
      ignored   |-> I,
      preferred |-> [i \in Item |-> IF i = virt THEN p ELSE None],
      stamped   |-> S] :
        D \in [Recipe -> {<<>>, <<virt>>, <<tool>>, <<virt, missing>>}], p \in {None, lib},
        S \in {{}, {<<lib2, "populate_staging">>}}, I \in {{}, {missing}}}

VirtRuns ==
    [world : VirtWorlds, targets : {<<app, tool>>, <<tool, virt>>},
     options : {ContinueBuild, Options("build", FALSE, TRUE)}]

(* Three files of one name that provide virt, one of them maybe staged,    *)
(* two priorities, preferences 0 and -1, versions 1.0, 1-0, 1.0a and 1.1,  *)
(* and a preferred version, with a revision or without.                    *)
Letter == 100
V10 == <<2, Dot, 1>>
Abouts == {[Plain EXCEPT !.pv = V10], [Plain EXCEPT !.pv = <<2, Dot, Dot, 1>>],
           [Plain EXCEPT !.pv = V10 \o <<Letter>>, !.dp = -1],
           [Plain EXCEPT !.pv = <<2, Dot, 2>>, !.priority = 1],
           [Plain EXCEPT !.pv = V10, !.pr = <<3>>],
           [Plain EXCEPT !.pv = V10 \o <<Letter>>, !.priority = 1, !.dp = -1]}

VersionWorlds ==
    {[provides  |-> [r \in Recipe |-> IF r = app THEN {app} ELSE {virt}],
      depends   |-> [r \in Recipe |-> IF r = app THEN <<virt>> ELSE <<>>],
      pkg_fn    |-> [r \in Recipe |-> IF r = app THEN app ELSE lib],
      parsed    |-> AnyOrder,
      about     |-> A,
      wanted    |-> [NoneWanted EXCEPT ![lib] = W],
      ignored   |-> {},
      preferred |-> [i \in Item |-> None],
      stamped   |-> S] :
        A \in {[B EXCEPT ![app] = Plain] : B \in [Recipe -> Abouts]},
        W \in {{}, {[pv |-> V10, pr |-> <<>>]}, {[pv |-> V10, pr |-> <<3>>]}},
        S \in {{}, {<<lib2, "populate_staging">>}}}

VersionRuns == [world : VersionWorlds, targets : {<<app>>}, options : {ContinueBuild}]

AllRuns == ThreeRuns \cup VirtRuns \cup VersionRuns

-----------------------------------------------------------------------------
(* Three targets that want virt, both of whose providers may have failed.  *)
VirtOnlyRuns ==
    [world : {w \in VirtWorlds :
                w.depends = [r \in Recipe |-> CASE r = app -> <<virt, tool>>
                                               [] r = tool -> <<virt>>
                                               [] OTHER -> <<>>]},
     targets : {<<app, tool, virt>>}, options : {ContinueBuild}]

(* -c compile, and -k, over every graph on three recipes.                  *)
CompileRuns ==
    [world : ThreeWorlds, targets : {<<app, tool>>},
     options : {Options("compile", FALSE, FALSE)}]
ContinueRuns ==
    [world : ThreeWorlds, targets : {<<lib>>}, options : {ContinueBuild}]
=============================================================================
