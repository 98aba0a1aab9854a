------------------------------- MODULE Cooker -------------------------------
(***************************************************************************)
(* One run of BBCooker.cook (bin/bitbake) once the recipes are parsed: for *)
(* each target buildProvider chooses a recipe, tryBuild has the recipe's   *)
(* dependencies provided, recursively, and tryBuildPackage executes the    *)
(* task.                                                                   *)
(*                                                                         *)
(* The recursion buildProvider - tryBuild - buildProvider is a stack of    *)
(* frames, one per call in progress; `returned` carries a result to the    *)
(* caller.  A failing task raises EventException, which only cook catches, *)
(* so it ends every call in progress; `finally` empties building_list.     *)
(*                                                                         *)
(* Which file of each name (PN) is a candidate is findBestProvider's       *)
(* choice, in ProviderSelection.  exec_task is its outcome: it leaves the  *)
(* stamps TaskExec models, raises EventException, or raises what nobody    *)
(* catches.                                                                *)
(***************************************************************************)
EXTENDS ProviderSelection, FiniteSets, Functions

CONSTANTS
    Recipe,             \* the .bb files
    Item,               \* what recipes depend on and provide
    PN,                 \* package names
    Cmd,                \* the tasks commands name, without their do_
    None,
    Runs,               \* the runs to look at, see RunType
    IsTask,             \* the members of Cmd that are tasks of a recipe
    BBDepCmd,           \* the bbdepcmd flag: None, "" or what to execute for dependencies
    Stamps,             \* Stamps[c]: the tasks that executing c leaves stamps of
    Cleans,             \* the members of Cmd that remove the stamps
    StagingCmd          \* populate_staging

WorldRecord ==
    [parsed   : Seq(Recipe),                \* the recipes in the order of their parsing
     provides : [Recipe -> SUBSET Item],    \* status.providers, by recipe
     depends  : [Recipe -> Seq(Item)],      \* DEPENDS
     pkg_fn   : [Recipe -> PN],             \* status.pkg_fn
     about    : [Recipe -> FileType],       \* bbfile_priority, pkg_dp, pkg_pvpr
     wanted   : [PN -> SUBSET [pv : Version, pr : Version]], \* PREFERRED_VERSION, if any
     ignored  : SUBSET Item,                \* ASSUME_PROVIDED
     preferred: [Item -> PN \cup {None}],   \* PREFERRED_PROVIDER_<item>
     stamped  : SUBSET (Recipe \X Cmd)]     \* stamps of earlier runs

(* Every recipe was parsed: whatever is known of one comes from there.     *)
WorldType == {w \in WorldRecord : Range(w.parsed) = Recipe}

OptionsType ==
    [cmd      : Cmd,                        \* -c, or build
     abort    : BOOLEAN,                    \* FALSE: -k
     dry_run  : BOOLEAN]                    \* -n

RunType == [world : WorldType, targets : Seq(Item), options : OptionsType]

ASSUME RecipesAreFinite == IsFiniteSet(Recipe)
ASSUME NoneIsNothing ==
    /\ None \notin BOOLEAN
    /\ None \notin {0, 1}
    /\ None \notin {""} \cup Cmd
ASSUME RunsAreTyped == Runs \subseteq RunType
ASSUME TasksAreTyped ==
    /\ BBDepCmd \in [Cmd -> Cmd \cup {None, ""}]
    /\ Stamps \in [Cmd -> SUBSET Cmd]
    /\ "" \notin Cmd

(* What bbdepcmd names does not itself have an empty bbdepcmd: wherever    *)
(* dependencies are built at all, theirs are.                              *)
ASSUME DependenciesAllTheWay ==
    \A c \in Cmd : BBDepCmd[c] \in Cmd => BBDepCmd[BBDepCmd[c]] # ""

(* What NotBuiltTwice and ImplementsBuildOrder are proved from, besides:   *)
(* exec_task leaves stamps of tasks; what a bbdepcmd names is no task      *)
(* ("do_populate_staging", which becomes do_do_populate_staging); and the  *)
(* task asked for leaves its stamp (it has no nostamp flag).               *)
StampsAreOfTasks ==
    /\ \A c \in IsTask : Stamps[c] \subseteq IsTask
    /\ \A run \in Runs : run.world.stamped \subseteq Recipe \X IsTask
DepCmdsAreNoTasks == \A c \in Cmd : BBDepCmd[c] \in Cmd => BBDepCmd[c] \notin IsTask
CmdsLeaveStamps ==
    \A run \in Runs :
        LET c == run.options.cmd
        IN  BBDepCmd[c] = None /\ c \in IsTask => c \in Stamps[c] /\ c \notin Cleans

VARIABLES
    world,              \* what was parsed: BBParsingStatus and the metadata
    targets,            \* pkgs_to_build
    options,            \* the command line
    current,            \* the index of the target being built
    stack,              \* calls in progress, innermost last
    returned,           \* None, or what the call that just ended returned
    cmd,                \* configuration.cmd
    build_cache,        \* recipes built in this run
    build_cache_fail,   \* recipes that failed in this run
    building_list,      \* recipes whose tryBuild is in progress
    stats,              \* BBStatistics
    stamped,            \* <<r, c>>: the stamp of task c of r is current
    exit                \* None, or the exit status

caches == <<build_cache, build_cache_fail>>
vars == <<world, targets, options, current, stack, returned, cmd, caches, building_list,
          stats, stamped, exit>>

-----------------------------------------------------------------------------
Providers(item) == {r \in Recipe : item \in world.provides[r]}

(* pkg_pn: where the providers of an item with one PN are among the parsed. *)
ByName(item, pn) ==
    {i \in DOMAIN world.parsed :
        world.pkg_fn[world.parsed[i]] = pn /\ item \in world.provides[world.parsed[i]]}

(* findBestProvider, for every PN that provides the item.                  *)
Best(item) ==
    {FindBestProvider(world.parsed, ByName(item, pn), world.about, world.wanted[pn]) :
        pn \in {world.pkg_fn[r] : r \in Providers(item)}}

(* Stamps are known by PN, PV and PR.                                      *)
SameStamps(r) ==
    {s \in Recipe : /\ world.pkg_fn[s] = world.pkg_fn[r]
                    /\ world.about[s].pv = world.about[r].pv
                    /\ world.about[s].pr = world.about[r].pr}

(* A list without its element at i.                                        *)
Without(e, i) == SubSeq(e, 1, i - 1) \o SubSeq(e, i + 1, Len(e))

(* for p in eligible: if p in build_cache_fail: eligible.remove(p).  The   *)
(* list shrinks under the loop, which goes on at the next position: the    *)
(* element after a removed one is never looked at.                         *)
RejectAt(l, i) ==
    IF i <= Len(l) /\ l[i] \in build_cache_fail THEN Without(l, i) ELSE l

RejectFailed(e) ==
    LET left[i \in 0 .. Len(e)] == IF i = 0 THEN e ELSE RejectAt(left[i - 1], i)
    IN  left[Len(e)]

(* eligible.remove(p); eligible = [p] + eligible                           *)
ToHead(e, i) == <<e[i]>> \o Without(e, i)

(* An eligible recipe whose PN has a recipe already staged goes first.     *)
BumpStaged(e, item) ==
    LET staged == {p \in Providers(item) : <<p, StagingCmd>> \in stamped}
        bump == {i \in DOMAIN e : \E p \in staged : world.pkg_fn[p] = world.pkg_fn[e[i]]}
    IN  IF bump = {} THEN {e} ELSE {ToHead(e, i) : i \in bump}

(* Then the preferred PN, if one is eligible.                              *)
BumpPreferred(e, item) ==
    LET bump == {i \in DOMAIN e : world.pkg_fn[e[i]] = world.preferred[item]}
    IN  IF bump = {} THEN {e} ELSE {ToHead(e, i) : i \in bump}

(* The lists of candidates buildProvider may come to; the order it starts  *)
(* from is that of the keys of a dictionary.                               *)
Candidates(item) ==
    LET best == Best(item)
        starts == Injection(1 .. Cardinality(best), best)
        rejected == {RejectFailed(e) : e \in starts}
        bumped == UNION {BumpStaged(e, item) : e \in rejected}
    IN  UNION {BumpPreferred(e, item) : e \in bumped}

-----------------------------------------------------------------------------
ProviderFrame(item, e) ==
    [kind |-> "provider", item |-> item, eligible |-> e, next |-> 1]

(* Mutant of DepCmd: an empty bbdepcmd counts as none.                     *)
DepCmdIgnoresEmpty(c) == IF BBDepCmd[c] \in {None, ""} THEN c ELSE BBDepCmd[c]

(* depcmd: what to execute for the dependencies, None when nothing is.     *)
DepCmd(c) == CASE BBDepCmd[c] = None -> c
               [] BBDepCmd[c] = "" -> None
               [] OTHER -> BBDepCmd[c]

BuildFrame(r, item, c) ==
    [kind |-> "build", item |-> item, fn |-> r, next |-> 1, failed |-> FALSE,
     depcmd |-> DepCmd(c), oldcmd |-> c, pc |-> "deps"]

ProviderFrameType ==
    [kind : {"provider"}, item : Item, eligible : Seq(Recipe), next : Nat]
BuildFrameType ==
    [kind : {"build"}, item : Item, fn : Recipe, next : Nat, failed : BOOLEAN,
     depcmd : Cmd \cup {None}, oldcmd : Cmd, pc : {"deps", "package"}]

top == stack[Len(stack)]
Top(f) == stack' = [stack EXCEPT ![Len(stack)] = f]
callers == SubSeq(stack, 1, Len(stack) - 1)
Busy == exit = None /\ stack # <<>>
Calls == Busy /\ returned = None

Return(v) == stack' = callers /\ returned' = v

(* buildProvider(item), called by cook or by tryBuild: it fails when       *)
(* nothing provides the item, or nothing eligible does, and has nothing to *)
(* do when a provider was built in this run.                               *)
BuildProvider(item) ==
    LET all_p == Providers(item)
    IN  CASE all_p = {} ->
                returned' = FALSE /\ UNCHANGED stack
          [] all_p \cap build_cache # {} ->
                returned' = TRUE /\ UNCHANGED stack
          [] OTHER ->
                \E e \in Candidates(item) :
                    IF e = <<>>
                    THEN returned' = FALSE /\ UNCHANGED stack
                    ELSE stack' = Append(stack, ProviderFrame(item, e)) /\ returned' = None

(* cook: the next target.                                                  *)
StartTarget ==
    /\ exit = None
    /\ stack = <<>>
    /\ returned = None
    /\ current <= Len(targets)
    /\ BuildProvider(targets[current])
    /\ UNCHANGED <<world, targets, options, current, cmd, caches, building_list, stats, stamped, exit>>

(* Mutant of TargetDone: a target that was not built is taken up again.    *)
TargetDoneRepeats ==
    /\ exit = None
    /\ stack = <<>>
    /\ returned # None
    /\ returned' = None
    /\ current' = IF returned THEN current + 1 ELSE current
    /\ UNCHANGED <<world, targets, options, stack, cmd, caches, building_list, stats, stamped, exit>>

(* cook: the target was built or was not; without -k the latter ends it.   *)
TargetDone ==
    /\ exit = None
    /\ stack = <<>>
    /\ returned # None
    /\ returned' = None
    /\ IF returned = FALSE /\ options.abort
       THEN exit' = 1 /\ UNCHANGED current
       ELSE current' = current + 1 /\ UNCHANGED exit
    /\ UNCHANGED <<world, targets, options, stack, cmd, caches, building_list, stats, stamped>>

(* Mutant of Finish: dependencies that were not satisfied do not count.    *)
FinishIgnoresDeps ==
    /\ exit = None
    /\ stack = <<>>
    /\ returned = None
    /\ current > Len(targets)
    /\ exit' = IF stats.fail > 0 THEN 1 ELSE 0
    /\ UNCHANGED <<world, targets, options, current, stack, returned, cmd, caches,
                   building_list, stats, stamped>>

(* cook: sys.exit(self.stats.show())                                       *)
Finish ==
    /\ exit = None
    /\ stack = <<>>
    /\ returned = None
    /\ current > Len(targets)
    /\ exit' = IF stats.fail > 0 \/ stats.deps > 0 THEN 1 ELSE 0
    /\ UNCHANGED <<world, targets, options, current, stack, returned, cmd, caches,
                   building_list, stats, stamped>>

-----------------------------------------------------------------------------
(* Mutants of TryBuild: a recipe that depends on itself is taken for       *)
(* built; cmd is assigned also when nothing is executed for dependencies.  *)
TryBuildTrustsCycle ==
    /\ Calls
    /\ top.kind = "provider"
    /\ top.next <= Len(top.eligible)
    /\ LET r == top.eligible[top.next]
       IN  IF r \in Range(building_list)
           THEN returned' = TRUE /\ UNCHANGED <<stack, cmd, building_list>>
           ELSE /\ stack' = Append(stack, BuildFrame(r, top.item, cmd))
                /\ building_list' = Append(building_list, r)
                /\ cmd' = IF DepCmd(cmd) = None THEN cmd ELSE DepCmd(cmd)
                /\ UNCHANGED returned
    /\ UNCHANGED <<world, targets, options, current, caches, stats, stamped, exit>>

TryBuildAssignsNone ==
    /\ Calls
    /\ top.kind = "provider"
    /\ top.next <= Len(top.eligible)
    /\ LET r == top.eligible[top.next]
       IN  IF r \in Range(building_list)
           THEN returned' = FALSE /\ UNCHANGED <<stack, cmd, building_list>>
           ELSE /\ stack' = Append(stack, BuildFrame(r, top.item, cmd))
                /\ building_list' = Append(building_list, r)
                /\ cmd' = DepCmd(cmd)
                /\ UNCHANGED returned
    /\ UNCHANGED <<world, targets, options, current, caches, stats, stamped, exit>>

(* buildProvider calls tryBuild for the next candidate.  A recipe that is  *)
(* being built further out "depends on itself (eventually)".               *)
TryBuild ==
    /\ Calls
    /\ top.kind = "provider"
    /\ top.next <= Len(top.eligible)
    /\ LET r == top.eligible[top.next]
       IN  IF r \in Range(building_list)
           THEN returned' = FALSE /\ UNCHANGED <<stack, cmd, building_list>>
           ELSE /\ stack' = Append(stack, BuildFrame(r, top.item, cmd))
                /\ building_list' = Append(building_list, r)
                /\ cmd' = IF DepCmd(cmd) = None THEN cmd ELSE DepCmd(cmd)
                /\ UNCHANGED returned
    /\ UNCHANGED <<world, targets, options, current, caches, stats, stamped, exit>>

(* tryBuild returned to buildProvider: done, or on to the next candidate.  *)
TryBuildReturned ==
    /\ Busy
    /\ top.kind = "provider"
    /\ returned # None
    /\ IF returned
       THEN Return(TRUE)
       ELSE Top([top EXCEPT !.next = @ + 1]) /\ returned' = None
    /\ UNCHANGED <<world, targets, options, current, cmd, caches, building_list, stats, stamped, exit>>

(* buildProvider: "no buildable providers".                                *)
NoBuildableProvider ==
    /\ Calls
    /\ top.kind = "provider"
    /\ top.next > Len(top.eligible)
    /\ Return(FALSE)
    /\ UNCHANGED <<world, targets, options, current, cmd, caches, building_list, stats, stamped, exit>>

-----------------------------------------------------------------------------
InDeps ==
    /\ Busy
    /\ top.kind = "build"
    /\ top.pc = "deps"

depends == world.depends[top.fn]

(* tryBuild: the next dependency, unless it is assumed provided or nothing *)
(* is executed for dependencies.                                           *)
NextDependency ==
    /\ InDeps
    /\ returned = None
    /\ top.next <= Len(depends)
    /\ IF depends[top.next] \in world.ignored \/ top.depcmd = None
       THEN Top([top EXCEPT !.next = @ + 1]) /\ UNCHANGED returned
       ELSE BuildProvider(depends[top.next])
    /\ UNCHANGED <<world, targets, options, current, cmd, caches, building_list, stats, stamped, exit>>

(* Mutant of DependencyReturned: with -k the failure is forgotten when a   *)
(* later dependency is provided.                                           *)
DependencyReturnedForgets ==
    /\ InDeps
    /\ returned # None
    /\ returned' = None
    /\ Top([top EXCEPT !.failed = ~returned,
                       !.next = IF ~returned /\ options.abort THEN Len(depends) + 1 ELSE @ + 1])
    /\ UNCHANGED <<world, targets, options, current, cmd, caches, building_list, stats, stamped, exit>>

(* A dependency was provided or was not; without -k the latter ends the    *)
(* loop over the dependencies.                                             *)
DependencyReturned ==
    /\ InDeps
    /\ returned # None
    /\ returned' = None
    /\ Top([top EXCEPT !.failed = @ \/ ~returned,
                       !.next = IF ~returned /\ options.abort THEN Len(depends) + 1 ELSE @ + 1])
    /\ UNCHANGED <<world, targets, options, current, cmd, caches, building_list, stats, stamped, exit>>

(* Mutant of LeaveBuildingList: the finally clause is missing.             *)
StayInBuildingList == UNCHANGED building_list

(* tryBuild's finally clause.                                              *)
LeaveBuildingList ==
    building_list' =
        Without(building_list, First({i \in DOMAIN building_list : building_list[i] = top.fn}))

RestoreCmd == IF top.depcmd = None THEN cmd ELSE top.oldcmd

InDepsDone == InDeps /\ returned = None /\ top.next > Len(depends)

(* A dependency is missing: the recipe is not tried.                       *)
DependenciesMissing ==
    /\ InDepsDone
    /\ top.failed
    /\ cmd' = RestoreCmd
    /\ stats' = [stats EXCEPT !.deps = @ + 1]
    /\ LeaveBuildingList
    /\ Return(FALSE)
    /\ UNCHANGED <<world, targets, options, current, caches, stamped, exit>>

(* All dependencies are there and the stamp of the task is current.        *)
StampIsCurrent ==
    /\ InDepsDone
    /\ ~top.failed
    /\ <<top.fn, RestoreCmd>> \in stamped
    /\ cmd' = RestoreCmd
    /\ build_cache' = build_cache \cup {top.fn}
    /\ LeaveBuildingList
    /\ Return(TRUE)
    /\ UNCHANGED <<world, targets, options, current, build_cache_fail, stats, stamped, exit>>

(* Mutant of TryBuildPackage: the stamp is not asked first.                *)
TryBuildPackageAlways ==
    /\ InDepsDone
    /\ ~top.failed
    /\ cmd' = RestoreCmd
    /\ stats' = [stats EXCEPT !.attempt = @ + 1]
    /\ Top([top EXCEPT !.pc = "package"])
    /\ UNCHANGED <<world, targets, options, current, returned, caches, building_list, stamped, exit>>

(* All dependencies are there and it is not: tryBuildPackage.              *)
TryBuildPackage ==
    /\ InDepsDone
    /\ ~top.failed
    /\ <<top.fn, RestoreCmd>> \notin stamped
    /\ cmd' = RestoreCmd
    /\ stats' = [stats EXCEPT !.attempt = @ + 1]
    /\ Top([top EXCEPT !.pc = "package"])
    /\ UNCHANGED <<world, targets, options, current, returned, caches, building_list, stamped, exit>>

InPackage ==
    /\ Busy
    /\ top.kind = "build"
    /\ top.pc = "package"

(* exec_task returns, or is not called at all for -n.                      *)
PackageSucceeds ==
    /\ InPackage
    /\ options.dry_run \/ cmd \in IsTask
    /\ build_cache' = build_cache \cup {top.fn}
    /\ stamped' =
          IF options.dry_run THEN stamped
          ELSE IF cmd \in Cleans THEN stamped \ (SameStamps(top.fn) \X Cmd)
          ELSE stamped \cup (SameStamps(top.fn) \X Stamps[cmd])
    /\ LeaveBuildingList
    /\ Return(TRUE)
    /\ UNCHANGED <<world, targets, options, current, cmd, build_cache_fail, stats, exit>>

(* exec_task raises EventException: a function failed, or the task is not  *)
(* in the task graph (InvalidTask).  Tasks before the failed one may have  *)
(* left their stamps.  No call in progress catches it but cook; each       *)
(* `finally` takes its recipe off building_list, none restores cmd.        *)
PackageFails ==
    /\ InPackage
    /\ ~options.dry_run
    /\ stats' = [stats EXCEPT !.fail = @ + 1]
    /\ build_cache_fail' = build_cache_fail \cup {top.fn}
    /\ \E S \in IF cmd \in IsTask THEN SUBSET (Stamps[cmd] \ {cmd}) ELSE {{}} :
            stamped' = stamped \cup (SameStamps(top.fn) \X S)
    /\ building_list' = <<>>
    /\ stack' = <<>>
    /\ returned' = FALSE
    /\ UNCHANGED <<world, targets, options, current, cmd, build_cache, exit>>

(* Any other exception (a fetcher's MD5SumError, an IOError) and Control-C *)
(* end the program.                                                        *)
Escapes ==
    /\ Busy
    /\ stack' = <<>>
    /\ building_list' = <<>>
    /\ returned' = None
    /\ exit' = 1
    /\ UNCHANGED <<world, targets, options, current, cmd, caches, stats, stamped>>

-----------------------------------------------------------------------------
Init ==
    /\ \E run \in Runs :
        world = run.world /\ targets = run.targets /\ options = run.options
    /\ current = 1
    /\ stack = <<>>
    /\ returned = None
    /\ cmd = options.cmd
    /\ build_cache = {}
    /\ build_cache_fail = {}
    /\ building_list = <<>>
    /\ stats = [attempt |-> 0, fail |-> 0, deps |-> 0]
    /\ stamped = UNION {SameStamps(x[1]) \X {x[2]} : x \in world.stamped}
    /\ exit = None

Step ==
    \/ StartTarget \/ TargetDone \/ Finish
    \/ TryBuild \/ TryBuildReturned \/ NoBuildableProvider
    \/ NextDependency \/ DependencyReturned
    \/ DependenciesMissing \/ StampIsCurrent \/ TryBuildPackage
    \/ PackageSucceeds \/ PackageFails

Next == Step \/ Escapes

Spec == Init /\ [][Next]_vars
FairSpec == Spec /\ WF_vars(Step)

-----------------------------------------------------------------------------
Frames == Range(stack)
Satisfied(item) == Providers(item) \cap build_cache # {}

TypeOK ==
    /\ current \in 1 .. Len(targets) + 1
    /\ returned \in BOOLEAN \cup {None}
    /\ cmd \in Cmd
    /\ build_cache \subseteq Recipe
    /\ build_cache_fail \subseteq Recipe
    /\ building_list \in Seq(Recipe)
    /\ stats \in [attempt : Nat, fail : Nat, deps : Nat]
    /\ stamped \subseteq Recipe \X Cmd
    /\ exit \in {None, 0, 1}
    /\ stack \in Seq(ProviderFrameType \cup BuildFrameType)
    /\ \A f \in Frames :
        IF f.kind = "provider"
        THEN /\ Range(f.eligible) \subseteq Providers(f.item)
             /\ f.next \in 1 .. Len(f.eligible) + 1
        ELSE /\ f.fn \in Providers(f.item)
             /\ f.next \in 1 .. Len(world.depends[f.fn]) + 1

(* Whatever was built, or found up to date, in this run has each of its    *)
(* dependencies provided by something built in this run; so nothing on a   *)
(* dependency cycle is built, unless another provider breaks the cycle.    *)
BuiltHaveDeps ==
    BBDepCmd[options.cmd] # "" =>
        \A r \in build_cache : \A d \in Range(world.depends[r]) :
            d \in world.ignored \/ Satisfied(d)

(* building_list, which is how tryBuild notices that a recipe depends on   *)
(* itself, is the chain of recipes whose tryBuild is in progress (every    *)
(* second call, the others are buildProvider's), with none twice: the      *)
(* recursion is never deeper than there are recipes, and after an          *)
(* exception no recipe is left behind to look like a cycle.                *)
BuildingListIsChain ==
    /\ Len(stack) \in {2 * Len(building_list), 2 * Len(building_list) + 1}
    /\ \A i \in DOMAIN building_list :
        stack[2 * i].kind = "build" /\ building_list[i] = stack[2 * i].fn
    /\ \A i, j \in DOMAIN building_list : building_list[i] = building_list[j] => i = j

(* A recipe is tried for an item only as the best of its name.  The        *)
(* docstring of findBestProvider (bin/bitbake:261): "If there is a         *)
(* PREFERRED_VERSION, find the highest-priority bbfile providing that      *)
(* version.  If not, find the latest version provided by an bbfile in the  *)
(* highest-priority set", where a greater DEFAULT_PREFERENCE counts before *)
(* a later version; also when another file of the name is staged, has      *)
(* failed or was built for another item.                                   *)
Rivals(r, item) == {s \in Providers(item) : world.pkg_fn[s] = world.pkg_fn[r]}
IsWanted(r) == \E v \in world.wanted[world.pkg_fn[r]] : Wanted(world.about[r], v)

Newer(a, b) ==
    \/ a.dp > b.dp
    \/ a.dp = b.dp /\ Vercmp(a, b) > 0

Beats(r, s) ==
    LET a == world.about[r]
        b == world.about[s]
    IN  \/ a.priority > b.priority
        \/ a.priority = b.priority /\ Newer(a, b)

IsBest(r, item) ==
    LET rivals == Rivals(r, item)
        wanted == {s \in rivals : IsWanted(s)}
    IN  IF wanted # {}
        THEN /\ IsWanted(r)
             /\ \A s \in wanted : world.about[s].priority <= world.about[r].priority
        ELSE \A s \in rivals : ~Beats(s, r)

TriedAreBest ==
    \A f \in {g \in Frames : g.kind = "build"} : IsBest(f.fn, f.item)

(* A recipe that was built in this run is not executed a second time, also *)
(* when it is a second choice for an item and was built meanwhile for      *)
(* another.  (With -n there is no stamp to tell, and it may be attempted   *)
(* again.)                                                                 *)
NotBuiltTwice ==
    InPackage /\ ~options.dry_run => top.fn \notin build_cache

(* A recipe that failed in this run is not executed a second time:         *)
(* buildProvider says "rejecting already-failed %s" (bin/bitbake:417).     *)
FailedNotRetried ==
    InPackage => top.fn \notin build_cache_fail

(* Exit status 0 means that every target that anything provides was built. *)
(* A target nothing provides is reported and, with -k, forgotten.          *)
ExitTruthful ==
    exit = 0 => \A i \in DOMAIN targets :
                    IF Providers(targets[i]) = {} THEN ~options.abort ELSE Satisfied(targets[i])

(* A command with an empty bbdepcmd (do_clean[bbdepcmd] = "") is executed  *)
(* for the targets alone, never for what they depend on.                   *)
CleanStaysLocal ==
    BBDepCmd[options.cmd] = "" => Len(stack) <= 2

(* A target is executed with the task that was asked for.  The help of -c: *)
(* "Specify task to execute. Note that this only executes the specified    *)
(* task for the providee and the packages it depends on".                  *)
TargetGetsCmd ==
    InPackage /\ Len(stack) = 2 => cmd = options.cmd

(* The help of -k: "While the target that failed, and those that depend on *)
(* it, cannot be remade, the other dependencies of these targets can be    *)
(* processed all the same": when the run is over, a dependency of a target *)
(* was built, failed, or has no provider whose own dependencies are there. *)
OthersAreProcessed ==
    exit # None /\ current > Len(targets) =>
        \A i \in DOMAIN targets : \A r \in Providers(targets[i]) :
            \A d \in Range(world.depends[r]) \ world.ignored :
                \/ Satisfied(d)
                \/ Providers(d) \cap build_cache_fail # {}
                \/ \A p \in Providers(d) : \E e \in Range(world.depends[p]) : ~Satisfied(e)

(* The run ends: with tasks that end, the recursion over dependencies ends *)
(* too, cycles among them or not.                                          *)
CookEnds == <>(exit # None)

Order == INSTANCE BuildOrder WITH
    needs <- [r \in Recipe |->
                IF BBDepCmd[options.cmd] = "" THEN {}
                ELSE {Providers(d) : d \in Range(world.depends[r]) \ world.ignored}],
    built <- build_cache,
    failed <- build_cache_fail

(* The recursion builds in an order BuildOrder allows.                     *)
ImplementsBuildOrder == Order!Spec
=============================================================================
