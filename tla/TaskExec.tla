------------------------------ MODULE TaskExec ------------------------------
(***************************************************************************)
(* Running the tasks of one recipe: exec_task, stamp_is_current and        *)
(* mkstamp of lib/bb/build.py, digraph.walkdown they walk the task graph   *)
(* with, the do_clean task of classes/base.bbclass, and the two ways a     *)
(* command reaches exec_task: BBCooker.tryBuild (a target) and             *)
(* BBCooker.tryBuildPackage directly (-b, or fileBuild of the shell).      *)
(*                                                                         *)
(* A task that ran leaves a stamp, an empty file whose mtime (in whole     *)
(* seconds) is compared with those of the tasks it runs after.  Stamps     *)
(* survive the process; the metadata object, with the list _task_cache of  *)
(* tasks that ran and the `force` flags, does not.                         *)
(*                                                                         *)
(* exec_task and walkdown are recursive, so the state has a call stack.    *)
(* A frame is one walkdown(item) made for one exec_task(task): it goes     *)
(* through the parents of item and then item itself, handing each to       *)
(* walkdown or to the callback `execute`, which calls exec_task again for  *)
(* every item but the task it was made for.                                *)
(***************************************************************************)
EXTENDS Naturals, Sequences

CONSTANTS
    Task,               \* the nodes of the recipe's task graph
    Parents,            \* Parents[t]: the tasks t runs after, in the digraph's order
    Flagged,            \* the nodes with the `task` flag (an `addtask` names them)
    NoStamp,            \* the tasks with the `nostamp` flag
    Cleaner,            \* do_clean: removes the work directory and every stamp
    Targets,            \* what commands name; some may be no node of the graph
    Sessions,           \* the ways BitBake may be used, see SessionType
    MaxCommands         \* bound: commands given in a behaviour

SessionType ==
    [mayForce : BOOLEAN,                \* commands may be given -f
     keepsData : BOOLEAN,               \* commands share the metadata (a shell without CACHE)
     instant : BOOLEAN,                 \* a function may end in the second it began
     killedIn : SUBSET {"walk", "func", "wiped"}]   \* where the process may be killed

(* A command works on the metadata of a file parsed for the occasion, or   *)
(* of a target.                                                            *)
Via == {"file", "target"}

ASSUME TaskExecAssumption ==
    /\ Parents \in [Task -> Seq(Task)]
    /\ Flagged \subseteq Task
    /\ NoStamp \subseteq Task
    /\ Cleaner \in Flagged \cap NoStamp
    /\ Sessions \subseteq SessionType
    /\ MaxCommands \in Nat

ParentsOf(t) == {Parents[t][i] : i \in DOMAIN Parents[t]}

(* The tasks that t runs after, directly or not: what is in every set that *)
(* has t's parents and, of its own members, their parents.                 *)
Ancestors ==
    LET closed == {S \in SUBSET Task : \A x \in S : ParentsOf(x) \subseteq S}
    IN  [t \in Task |-> {a \in Task : \A S \in closed : ParentsOf(t) \subseteq S => a \in S}]

(* On a longer cycle walkdown does not end, and in one of one or two tasks *)
(* it hands parents straight to the callback.  do_clean runs after no      *)
(* task, and none runs after it.                                           *)
ASSUME GraphAssumption ==
    /\ \A t \in Task : t \notin Ancestors[t] /\ Cleaner \notin ParentsOf(t)
    /\ Parents[Cleaner] = <<>>

VARIABLES
    session,            \* how BitBake is used in this behaviour
    stamp,              \* mtime of a task's stamp, 0 when there is none
    clock,              \* the current second
    done,               \* ghost: tasks whose last execution completed, since the last clean
    newer,              \* ghost: <<p, q>>: p's last execution began after q's ended
    ranNow,             \* ghost: tasks that completed during the current command
    cache,              \* by Via: _task_cache as the metadata object has it
    forced,             \* by Via: the tasks with the `force` flag in the object
    stack,              \* the calls of walkdown in progress, innermost last
    command,            \* [target, force, via] of the latest command
    outcome,            \* what became of it: "none", "busy", "ok", "failed", "killed"
    commands            \* how many commands were given

disk == <<stamp, done, newer>>
object == <<cache, forced>>
vars == <<session, stamp, clock, done, newer, ranNow, cache, forced, stack, command,
          outcome, commands>>

-----------------------------------------------------------------------------
(* What walkdown(item) hands on: each parent, then the item.               *)
Steps(item) == Append(Parents[item], item)

(* The state of a walkdown that starts: frame of a call for exec_task(t),  *)
(* on item i, with the copy c of _task_cache that exec_task took.          *)
Frame(t, i, c) == [task |-> t, item |-> i, next |-> 1, cache |-> c, pc |-> "walk"]

(* Mutants of StampIsCurrent: the tasks before must have stamps, of any    *)
(* age; one as old as the task's counts as younger.                        *)
StampIsCurrentAnyAge(t) ==
    /\ stamp[t] # 0
    /\ \A a \in Ancestors[t] \cup {t} : a \in NoStamp \/ stamp[a] # 0

StampIsCurrentStrict(t) ==
    /\ stamp[t] # 0
    /\ \A a \in Ancestors[t] : a \in NoStamp \/ (stamp[a] # 0 /\ stamp[a] < stamp[t])

(* stamp_is_current: the task has a stamp, and every task it runs after    *)
(* that leaves stamps has one that is not younger.                         *)
StampIsCurrent(t) ==
    /\ stamp[t] # 0
    /\ \A a \in Ancestors[t] \cup {t} :
            \/ a \in NoStamp
            \/ stamp[a] # 0 /\ stamp[a] <= stamp[t]

-----------------------------------------------------------------------------
top == stack[Len(stack)]
Top(f) == stack' = [stack EXCEPT ![Len(stack)] = f]
Push(f) == stack' = Append(stack, f)

(* Mutant of Advanced: a parent is left out.                               *)
AdvancedByTwo(f) == [f EXCEPT !.next = @ + 2]

(* The loop of walkdown goes on to the next parent.                        *)
Advanced(f) == [f EXCEPT !.next = @ + 1]

(* The innermost call returns and the loop of its caller goes on.          *)
Pop ==
    LET below == SubSeq(stack, 1, Len(stack) - 1)
    IN  stack' = [below EXCEPT ![Len(below)] = Advanced(@)]

Walking ==
    /\ stack # <<>>
    /\ top.pc = "walk"
    /\ top.next <= Len(Steps(top.item))

(* What walkdown comes to next.                                            *)
reached == Steps(top.item)[top.next]

(* walkdown calls itself for a parent.                                     *)
Descend ==
    /\ Walking
    /\ reached # top.item
    /\ Push(Frame(top.task, reached, top.cache))
    /\ UNCHANGED <<session, disk, clock, ranNow, object, command, outcome, commands>>

(* execute: nothing to do for a name that is no task, or a task this       *)
(* exec_task has in its copy of _task_cache.                               *)
SkipItem ==
    /\ Walking
    /\ reached = top.item
    /\ top.item \notin Flagged \/ top.item \in top.cache
    /\ Top(Advanced(top))
    /\ UNCHANGED <<session, disk, clock, ranNow, object, command, outcome, commands>>

(* execute calls exec_task for an item below its own task; exec_task       *)
(* returns at once when the stamp is current and no `force` flag is set,   *)
(* otherwise it walks with the _task_cache the object has by then.         *)
ExecNested ==
    /\ Walking
    /\ reached = top.item
    /\ top.item \in Flagged \ top.cache
    /\ top.item # top.task
    /\ IF top.item \notin forced[command.via] /\ StampIsCurrent(top.item)
       THEN Top(Advanced(top))
       ELSE Push(Frame(top.item, top.item, cache[command.via]))
    /\ UNCHANGED <<session, disk, clock, ranNow, object, command, outcome, commands>>

(* execute runs the function of its own task.                              *)
StartFunc ==
    /\ Walking
    /\ reached = top.item
    /\ top.item \in Flagged \ top.cache
    /\ top.item = top.task
    /\ Top([top EXCEPT !.pc = "func"])
    /\ UNCHANGED <<session, disk, clock, ranNow, object, command, outcome, commands>>

Running == stack # <<>> /\ top.pc = "func"

(* Mutant of Remember: the setVar is forgotten.                            *)
RememberLocally(f) ==
    /\ UNCHANGED cache
    /\ Top([Advanced(f) EXCEPT !.cache = @ \cup {f.task}, !.pc = "walk"])

(* task_cache.append(item); setVar('_task_cache', task_cache, d): the      *)
(* copy taken when exec_task was entered, with the task, replaces what     *)
(* the object has.                                                         *)
Remember(f) ==
    /\ cache' = [cache EXCEPT ![command.via] = f.cache \cup {f.task}]
    /\ Top([Advanced(f) EXCEPT !.cache = @ \cup {f.task}, !.pc = "walk"])

(* The function of an ordinary task completes; it took at least a second   *)
(* unless the session says otherwise.                                      *)
FuncSucceeds ==
    /\ Running
    /\ top.task # Cleaner
    /\ clock' \in {clock + 1} \cup (IF session.instant THEN {clock} ELSE {})
    /\ done' = done \cup {top.task}
    /\ newer' = (newer \ (Task \X {top.task})) \cup ({top.task} \X (done \ {top.task}))
    /\ ranNow' = ranNow \cup {top.task}
    /\ Remember(top)
    /\ UNCHANGED <<session, stamp, forced, command, outcome, commands>>

(* base_do_clean: first the work directory goes ...                        *)
CleanWorkdir ==
    /\ Running
    /\ top.task = Cleaner
    /\ done' = {}
    /\ newer' = {}
    /\ Top([top EXCEPT !.pc = "wiped"])
    /\ UNCHANGED <<session, stamp, clock, ranNow, object, command, outcome, commands>>

(* ... then the stamps.                                                    *)
CleanStamps ==
    /\ stack # <<>>
    /\ top.pc = "wiped"
    /\ stamp' = [t \in Task |-> 0]
    /\ ranNow' = ranNow \cup {Cleaner}
    /\ Remember(top)
    /\ UNCHANGED <<session, clock, done, newer, forced, command, outcome, commands>>

Unwind(how) ==
    /\ stack' = <<>>
    /\ outcome' = how

(* Mutant of FuncFails: exec_task returns instead of raising.              *)
FuncFailsQuietly ==
    /\ Running
    /\ done' = done \ {top.task}
    /\ IF Len(stack) = 1 THEN Unwind("failed") ELSE Pop /\ UNCHANGED outcome
    /\ UNCHANGED <<session, stamp, clock, newer, ranNow, object, command, commands>>

(* FuncFailed: TaskFailed is fired, and the EventException leaves every    *)
(* exec_task in progress.  What the task had made before is spoilt.        *)
FuncFails ==
    /\ Running
    /\ done' = done \ {top.task}
    /\ Unwind("failed")
    /\ UNCHANGED <<session, stamp, clock, newer, ranNow, object, command, commands>>

(* Mutant of WalkReturns: the caller asks for the same parent again.       *)
WalkReturnsToSame ==
    /\ stack # <<>>
    /\ top.pc = "walk"
    /\ top.next > Len(Steps(top.item))
    /\ top.item # top.task
    /\ stack' = SubSeq(stack, 1, Len(stack) - 1)
    /\ UNCHANGED <<session, disk, clock, ranNow, object, command, outcome, commands>>

(* walkdown returns 1 to the walkdown that called it.                      *)
WalkReturns ==
    /\ stack # <<>>
    /\ top.pc = "walk"
    /\ top.next > Len(Steps(top.item))
    /\ top.item # top.task
    /\ Pop
    /\ UNCHANGED <<session, disk, clock, ranNow, object, command, outcome, commands>>

(* mkstamp, unless the task has `nostamp`.                                 *)
MkStamp(t) ==
    stamp' = IF t \in NoStamp THEN stamp ELSE [stamp EXCEPT ![t] = clock]

(* The walk of exec_task is over: its result is not looked at, the stamp   *)
(* is made and exec_task returns.                                          *)
ExecReturns ==
    /\ stack # <<>>
    /\ top.pc = "walk"
    /\ top.next > Len(Steps(top.item))
    /\ top.item = top.task
    /\ MkStamp(top.task)
    /\ IF Len(stack) = 1 THEN Unwind("ok") ELSE Pop /\ UNCHANGED outcome
    /\ UNCHANGED <<session, clock, done, newer, ranNow, object, command, commands>>

-----------------------------------------------------------------------------
(* Objects that a new command finds: the file is parsed again, and the     *)
(* target's metadata is read again (a new process, or a recipe read back   *)
(* from CACHE) or, with keepsData, is that of the last command.            *)
Fresh(objects) ==
    [via \in Via |-> IF via = "target" /\ session.keepsData THEN objects[via] ELSE {}]

Command(t, force, via) ==
    /\ stack = <<>>
    /\ commands < MaxCommands
    /\ commands' = commands + 1
    /\ command' = [target |-> t, force |-> force, via |-> via]
    /\ ranNow' = {}
    /\ cache' = Fresh(cache)
    /\ UNCHANGED <<session, disk, clock>>

(* tryBuildPackage: set the flag if -f was given, then exec_task.          *)
TryBuildPackage(t, force, via) ==
    LET flags == Fresh(forced)[via] \cup (IF force THEN {t} \cap Task ELSE {})
    IN  /\ forced' = [Fresh(forced) EXCEPT ![via] = flags]
        /\ IF t \notin Task
           THEN stack' = stack /\ outcome' = "failed"       \* InvalidTask
           ELSE IF t \notin flags /\ StampIsCurrent(t)
           THEN stack' = stack /\ outcome' = "ok"
           ELSE Push(Frame(t, t, Fresh(cache)[via])) /\ outcome' = "busy"

(* bitbake -b, and fileBuild of the shell.                                 *)
BuildFile(t, force) ==
    /\ Command(t, force, "file")
    /\ TryBuildPackage(t, force, "file")

(* BBCooker.tryBuild: a current stamp ends it before -f is looked at.      *)
BuildTarget(t, force) ==
    /\ Command(t, force, "target")
    /\ IF t \in Task /\ StampIsCurrent(t)
       THEN /\ forced' = Fresh(forced)
            /\ outcome' = "ok"
            /\ UNCHANGED stack
       ELSE TryBuildPackage(t, force, "target")

(* The process is killed: what it kept in memory is gone, and the task it  *)
(* was running is left half done.                                          *)
Killed ==
    /\ stack # <<>>
    /\ top.pc \in session.killedIn
    /\ done' = IF top.pc = "func" THEN done \ {top.task} ELSE done
    /\ cache' = [via \in Via |-> {}]
    /\ forced' = [via \in Via |-> {}]
    /\ Unwind("killed")
    /\ UNCHANGED <<session, stamp, clock, newer, ranNow, command, commands>>

-----------------------------------------------------------------------------
Init ==
    /\ session \in Sessions
    /\ stamp = [t \in Task |-> 0]
    /\ clock = 1
    /\ done = {}
    /\ newer = {}
    /\ ranNow = {}
    /\ cache = [via \in Via |-> {}]
    /\ forced = [via \in Via |-> {}]
    /\ stack = <<>>
    /\ command = [target |-> Cleaner, force |-> FALSE, via |-> "file"]
    /\ outcome = "none"
    /\ commands = 0

(* What the interpreter does by itself.                                    *)
Step ==
    \/ Descend \/ SkipItem \/ ExecNested \/ StartFunc
    \/ FuncSucceeds \/ CleanWorkdir \/ CleanStamps \/ FuncFails
    \/ WalkReturns \/ ExecReturns

(* -f is given with each command, or once with the shell.                  *)
MayForce ==
    IF session.keepsData THEN {session.mayForce} ELSE {FALSE, session.mayForce}

Next ==
    \/ Step
    \/ Killed
    \/ \E t \in Targets, force \in MayForce : BuildFile(t, force) \/ BuildTarget(t, force)

Spec == Init /\ [][Next]_vars
FairSpec == Spec /\ WF_vars(Step)

-----------------------------------------------------------------------------
Stamped == Flagged \ NoStamp
Cleaning == stack # <<>> /\ top.pc = "wiped"

TypeOK ==
    /\ session \in Sessions
    /\ stamp \in [Task -> Nat]
    /\ clock \in Nat \ {0}
    /\ done \subseteq Task
    /\ newer \subseteq Task \X Task
    /\ ranNow \subseteq Task
    /\ cache \in [Via -> SUBSET Task]
    /\ forced \in [Via -> SUBSET Task]
    /\ stack \in Seq([task : Task, item : Task, next : Nat, cache : SUBSET Task,
                     pc : {"walk", "func", "wiped"}])
    /\ \A i \in DOMAIN stack : stack[i].next \in 1 .. Len(Steps(stack[i].item)) + 1
    /\ command \in [target : Targets \cup {Cleaner}, force : BOOLEAN, via : Via]
    /\ outcome \in {"none", "busy", "ok", "failed", "killed"}
    /\ commands \in 0 .. MaxCommands

(* stamp_is_current, in the words of its documentation, "returns 0 if it   *)
(* is not current and needs updating": what it accepts is the stamp of a   *)
(* task whose last execution completed and whose output no clean has       *)
(* removed since.  Only while do_clean has removed the one and not yet the *)
(* other may it be otherwise.                                              *)
StampsTellTruth ==
    ~Cleaning => \A t \in Stamped : StampIsCurrent(t) => t \in done

(* No command is forced, each reads its own metadata, and no clean is      *)
(* killed half way.                                                        *)
Plain ==
    /\ ~session.mayForce
    /\ ~session.keepsData
    /\ "wiped" \notin session.killedIn

(* In such a session stamps do tell the truth, whatever failures, kills    *)
(* and cleans there were.                                                  *)
CurrentIsDone == Plain => StampsTellTruth

(* What stamp_is_current accepts once a command is over was also built in  *)
(* order: among the task and the tasks before it, none ran again after one *)
(* that used its output.  With -f, which reruns single tasks, this takes   *)
(* functions of a second or more and no kill before the stamp is made.     *)
CurrentIsInOrder ==
    /\ outcome # "busy"
    /\ ~session.keepsData
    /\ session.mayForce => ~session.instant /\ "walk" \notin session.killedIn
    => \A t \in Stamped : StampIsCurrent(t) =>
        \A q \in (Ancestors[t] \cup {t}) \cap Stamped :
            \A p \in Ancestors[q] \cap Stamped : <<p, q>> \notin newer

(* When a function starts, every task before it has completed, and those   *)
(* without stamps (do_fetch) completed in this very command.               *)
DepsDoneFirst ==
    Plain /\ Running => \A a \in Ancestors[top.task] \cap Flagged :
                    a \in done /\ (a \in NoStamp => a \in ranNow)

(* The walks visit a task once for every path that leads to it, yet one    *)
(* command never executes a task's function twice.  A shell that keeps its *)
(* metadata keeps the `force` flags of every command, too: a forced task   *)
(* gets a new stamp each time a walk comes to it.  If functions may also   *)
(* end in the second they began, a task the walk has passed as current can *)
(* thus become older than one before it, run inside a later exec_task, and *)
(* have its entry in _task_cache overwritten when that one returns.        *)
NoDoubleRun ==
    Running /\ ~(session.instant /\ session.keepsData /\ session.mayForce)
        => top.task \notin ranNow

(* A command that succeeds on metadata of its own leaves its task current, *)
(* so that the same command given again has nothing to do; a task without  *)
(* stamp has run.                                                          *)
SuccessIsCurrent ==
    outcome = "ok" /\ ~session.keepsData /\ command.target \in Flagged =>
        IF command.target \in NoStamp
        THEN command.target \in ranNow
        ELSE Ancestors[command.target] \subseteq Flagged => StampIsCurrent(command.target)

(* Every command ends: the recursion over the paths of the graph, with     *)
(* functions that end, comes to an end.                                    *)
CommandEnds == outcome = "busy" ~> outcome # "busy"
=============================================================================
