-------------------------- MODULE TaskExec_proofs --------------------------
(***************************************************************************)
(* For any recipe and any commands, TaskExec keeps its types; one command  *)
(* runs no function twice; and one that succeeds leaves its task current.  *)
(*                                                                         *)
(* The last two are about the walk of one command.  The set S of tasks it  *)
(* has passed only grows, and a walk that comes to one of them again does  *)
(* nothing (Quiet).  So exec_task nests once at most: a nested one finds   *)
(* all before its task in S.  What keeps S quiet while stamps are made is  *)
(* either that functions take time (Slow) or that no flag but the target's *)
(* is set (Unforced): one of these rules holds in every session but those  *)
(* NoDoubleRun leaves out.                                                 *)
(*                                                                         *)
(* The second part, after a line, is about what the stamps say.  In a      *)
(* plain session they tell the truth, and no function starts before those  *)
(* of the tasks before it.  In one whose commands read their own metadata, *)
(* even with -f if functions take time, what is current was built in order:*)
(* what is before a current task is current (Layers), what exec_task walks *)
(* for is not (NeedsRun), so that a function which completes is newer than *)
(* no current task, but one that -f named and whose stamp is then made.    *)
(* Commands name tasks of the recipe, or names the graph does not have.    *)
(***************************************************************************)
EXTENDS TaskExec, SequenceTheorems, TLAPS

Calls == [task : Task, item : Task, next : Nat, cache : SUBSET Task,
          pc : {"walk", "func", "wiped"}]

AtOwnTask(f) == f.item = f.task
WalkOver(f) == f.next > Len(Steps(f.item))

-----------------------------------------------------------------------------
(* A parent comes before, with all that comes before it.                   *)
LEMMA ParentsAreBefore ==
    ASSUME NEW t \in Task, NEW p \in ParentsOf(t)
    PROVE  /\ p \in Task
           /\ p \in Ancestors[t]
           /\ Ancestors[p] \subseteq Ancestors[t]
<1>1. p \in Task
  BY TaskExecAssumption DEF ParentsOf
<1> QED
  BY <1>1 DEF Ancestors

LEMMA AncestorsAreTasks ==
    ASSUME NEW t \in Task
    PROVE  Ancestors[t] \subseteq Task /\ t \notin Ancestors[t]
<1>1. t \notin Ancestors[t]
  BY GraphAssumption
<1> QED
  BY <1>1 DEF Ancestors

LEMMA BeforeIsTransitive ==
    ASSUME NEW t \in Task, NEW b \in Ancestors[t]
    PROVE  Ancestors[b] \subseteq Ancestors[t]
<1>1. b \in Task
  BY AncestorsAreTasks
<1> QED
  BY <1>1 DEF Ancestors

(* Whatever comes before a task comes before one of its parents, or is one.*)
LEMMA BeforeAParent ==
    ASSUME NEW t \in Task, NEW a \in Ancestors[t]
    PROVE  \E p \in ParentsOf(t) : a \in Ancestors[p] \cup {p}
<1> DEFINE S == {x \in Task : \E p \in ParentsOf(t) : x \in Ancestors[p] \cup {p}}
<1>1. ParentsOf(t) \subseteq S
  BY ParentsAreBefore
<1>2. ASSUME NEW x \in S
      PROVE  ParentsOf(x) \subseteq S
  <2>1. PICK p \in ParentsOf(t) : x \in Ancestors[p] \cup {p}
    BY <1>2
  <2>2. p \in Task /\ x \in Task
    BY ParentsAreBefore
  <2>3. ParentsOf(x) \subseteq Ancestors[p]
    BY <2>1, <2>2, ParentsAreBefore, BeforeIsTransitive
  <2> QED
    BY <2>2, <2>3, ParentsAreBefore, AncestorsAreTasks
<1>3. a \in S
  BY <1>1, <1>2 DEF Ancestors
<1> QED
  BY <1>3

LEMMA CleanerIsAlone ==
    /\ Ancestors[Cleaner] = {}
    /\ \A t \in Task : Cleaner \notin Ancestors[t]
<1>1. Cleaner \in Task /\ ParentsOf(Cleaner) = {}
  BY TaskExecAssumption, GraphAssumption DEF ParentsOf
<1>2. Ancestors[Cleaner] = {}
  BY <1>1, BeforeAParent, AncestorsAreTasks
<1>3. ASSUME NEW t \in Task
      PROVE  Cleaner \notin Ancestors[t]
  <2> DEFINE S == Task \ {Cleaner}
  <2>1. \A x \in Task : ParentsOf(x) \subseteq S
    BY ParentsAreBefore, GraphAssumption
  <2> QED
    BY <2>1 DEF Ancestors
<1> QED
  BY <1>2, <1>3

(* walkdown goes through the parents, then the item.                       *)
LEMMA StepsOfWalk ==
    ASSUME NEW i \in Task
    PROVE  /\ Len(Steps(i)) = Len(Parents[i]) + 1
           /\ Len(Parents[i]) \in Nat
           /\ Steps(i)[Len(Steps(i))] = i
           /\ \A k \in 1 .. Len(Steps(i)) - 1 : Steps(i)[k] \in ParentsOf(i)
           /\ \A p \in ParentsOf(i) : \E k \in 1 .. Len(Steps(i)) - 1 : p = Steps(i)[k]
<1>1. Parents[i] \in Seq(Task)
  BY TaskExecAssumption
<1>2. /\ Len(Parents[i]) \in Nat
      /\ DOMAIN Parents[i] = 1 .. Len(Parents[i])
      /\ Len(Steps(i)) = Len(Parents[i]) + 1
      /\ Steps(i)[Len(Parents[i]) + 1] = i
      /\ \A k \in 1 .. Len(Parents[i]) : Steps(i)[k] = Parents[i][k]
  BY <1>1, AppendProperties DEF Steps
<1> QED
  BY <1>2 DEF ParentsOf

LEMMA StepsAreTasks ==
    ASSUME NEW i \in Task, NEW k \in 1 .. Len(Steps(i))
    PROVE  /\ Steps(i)[k] \in Task
           /\ Steps(i)[k] = i \/ Steps(i)[k] \in Ancestors[i]
           /\ Steps(i)[k] = i <=> k = Len(Steps(i))
<1>1. CASE k = Len(Steps(i))
  BY <1>1, StepsOfWalk
<1>2. CASE k # Len(Steps(i))
  <2>1. Steps(i)[k] \in ParentsOf(i)
    BY <1>2, StepsOfWalk
  <2> QED
    BY <1>2, <2>1, ParentsAreBefore, AncestorsAreTasks
<1> QED
  BY <1>1, <1>2
-----------------------------------------------------------------------------
(* The three things that happen to the stack.                              *)
LEMMA TopChanges ==
    ASSUME stack \in Seq(Calls), stack # <<>>, NEW f \in Calls, Top(f)
    PROVE  /\ stack' \in Seq(Calls)
           /\ stack' # <<>>
           /\ Len(stack') = Len(stack)
           /\ top' = f
           /\ \A i \in 1 .. Len(stack) - 1 : stack'[i] = stack[i]
<1>1. Len(stack) \in 1 .. Len(stack)
  BY EmptySeq, LenProperties
<1> QED
  BY <1>1, ExceptSeq DEF Top, top

LEMMA FramePushed ==
    ASSUME stack \in Seq(Calls), NEW f \in Calls, Push(f)
    PROVE  /\ stack' \in Seq(Calls)
           /\ stack' # <<>>
           /\ Len(stack') = Len(stack) + 1
           /\ top' = f
           /\ \A i \in 1 .. Len(stack) : stack'[i] = stack[i]
  BY AppendProperties DEF Push, top

LEMMA AdvancedIsCall ==
    ASSUME NEW f \in Calls
    PROVE  /\ Advanced(f) \in Calls
           /\ Advanced(f).next = f.next + 1
           /\ Advanced(f).task = f.task /\ Advanced(f).item = f.item
           /\ Advanced(f).cache = f.cache /\ Advanced(f).pc = f.pc
  BY DEF Advanced, Calls

LEMMA FramePopped ==
    ASSUME stack \in Seq(Calls), stack # <<>>, Len(stack) # 1, Pop
    PROVE  LET n == Len(stack) - 1
           IN  /\ n \in Nat \ {0}
               /\ stack' \in Seq(Calls)
               /\ stack' # <<>>
               /\ Len(stack') = n
               /\ top' = Advanced(stack[n])
               /\ \A i \in 1 .. n - 1 : stack'[i] = stack[i]
<1> DEFINE n == Len(stack) - 1
           below == SubSeq(stack, 1, n)
<1>1. n \in Nat \ {0} /\ n + 1 = Len(stack)
  BY EmptySeq, LenProperties
<1>2. below \in Seq(Calls) /\ Len(below) = n /\ \A i \in 1 .. n : below[i] = stack[i]
  BY <1>1, SubSeqProperties
<1>3. stack[n] \in Calls
  BY <1>1, ElementOfSeq
<1>4. Advanced(stack[n]) \in Calls
  BY <1>3, AdvancedIsCall
<1>5. stack' = [below EXCEPT ![n] = Advanced(stack[n])]
  BY SMTT(30), <1>1, <1>2 DEF Pop
<1>6. n \in 1 .. Len(below)
  BY <1>1, <1>2
<1>7. stack' \in Seq(Calls) /\ Len(stack') = n /\ stack'[n] = Advanced(stack[n])
  BY <1>2, <1>4, <1>5, <1>6, ExceptSeq
<1>8. \A i \in 1 .. n - 1 : stack'[i] = stack[i]
  <2> HIDE DEF n, below
  <2>1. \A i \in 1 .. n : stack'[i] = IF i = n THEN Advanced(stack[n]) ELSE below[i]
    BY <1>2, <1>4, <1>5, <1>6, ExceptSeq
  <2> QED
    BY <1>1, <1>2, <2>1
<1> QED
  BY <1>1, <1>7, <1>8, EmptySeq DEF top
-----------------------------------------------------------------------------
(* Type correctness.  A frame that was popped has a caller, which had      *)
(* steps to go when it pushed the frame; the invariant needs to say so.    *)
NextOK(f, isCaller) ==
    /\ f.next \in 1 .. Len(Steps(f.item)) + 1
    /\ isCaller => f.pc = "walk"
    /\ isCaller \/ f.pc # "walk" => ~WalkOver(f)

StackOK ==
    /\ stack \in Seq(Calls)
    /\ \A i \in DOMAIN stack : NextOK(stack[i], i < Len(stack))
    /\ stack # <<>> => AtOwnTask(stack[1])

RestOK ==
    /\ session \in Sessions
    /\ stamp \in [Task -> Nat]
    /\ clock \in Nat \ {0}
    /\ done \subseteq Task
    /\ newer \subseteq Task \X Task
    /\ ranNow \subseteq Task
    /\ cache \in [Via -> SUBSET Task]
    /\ forced \in [Via -> SUBSET Task]
    /\ command \in [target : Targets \cup {Cleaner}, force : BOOLEAN, via : Via]
    /\ outcome \in {"none", "busy", "ok", "failed", "killed"}
    /\ commands \in 0 .. MaxCommands

TypeInv == StackOK /\ RestOK

LEMMA TypeInvIsTypeOK == TypeInv => TypeOK
  BY DEF TypeInv, TypeOK, StackOK, NextOK, RestOK, Calls

LEMMA TopIsCall ==
    ASSUME StackOK, stack # <<>>
    PROVE  /\ Len(stack) \in Nat \ {0}
           /\ DOMAIN stack = 1 .. Len(stack)
           /\ top \in Calls
           /\ top.task \in Task /\ top.item \in Task /\ top.cache \in SUBSET Task
           /\ top.next \in 1 .. Len(Steps(top.item)) + 1
           /\ Len(Steps(top.item)) \in Nat
           /\ top.pc # "walk" => ~WalkOver(top)
           /\ Len(stack) = 1 => AtOwnTask(top)
<1>1. Len(stack) \in Nat \ {0} /\ DOMAIN stack = 1 .. Len(stack)
  BY EmptySeq, LenProperties DEF StackOK
<1>2. top \in Calls
  BY <1>1, ElementOfSeq DEF StackOK, top
<1>3. top.task \in Task /\ top.item \in Task /\ top.cache \in SUBSET Task
  BY <1>2 DEF Calls
<1> QED
  BY <1>1, <1>2, <1>3, StepsOfWalk DEF StackOK, NextOK, top

LEMMA TopKeepsStackOK ==
    ASSUME StackOK, stack # <<>>, NEW f \in Calls, Top(f),
           f.item = top.item, f.task = top.task, NextOK(f, FALSE)
    PROVE  StackOK'
<1>1. /\ Len(stack) \in Nat \ {0}
      /\ DOMAIN stack = 1 .. Len(stack) /\ DOMAIN stack' = 1 .. Len(stack)
      /\ stack'[Len(stack)] = f
      /\ Len(stack') = Len(stack)
      /\ stack' \in Seq(Calls)
      /\ \A i \in 1 .. Len(stack) - 1 : stack'[i] = stack[i]
  BY TopIsCall, TopChanges, LenProperties DEF StackOK, top
<1>2. ASSUME NEW i \in DOMAIN stack'
      PROVE  NextOK(stack'[i], i < Len(stack'))
  <2>1. CASE i = Len(stack)
    BY <1>1, <2>1 DEF NextOK
  <2>2. CASE i # Len(stack)
    <3>1. i \in DOMAIN stack /\ i < Len(stack) /\ stack'[i] = stack[i]
      BY <1>1, <2>2
    <3> QED
      BY <1>1, <3>1 DEF StackOK, NextOK
  <2> QED
    BY <2>1, <2>2
<1>3. AtOwnTask(stack'[1])
  BY <1>1 DEF StackOK, AtOwnTask, top
<1> QED
  BY <1>1, <1>2, <1>3 DEF StackOK

LEMMA PushKeepsStackOK ==
    ASSUME StackOK, NEW t \in Task, NEW i \in Task, NEW c \in SUBSET Task,
           Push(Frame(t, i, c)),
           IF stack = <<>> THEN t = i ELSE top.pc = "walk" /\ ~WalkOver(top)
    PROVE  StackOK'
<1> DEFINE f == Frame(t, i, c)
           n == Len(stack)
<1>1. f \in Calls /\ f.task = t /\ f.item = i /\ NextOK(f, FALSE)
  BY StepsOfWalk DEF Frame, Calls, NextOK
<1>2. /\ n \in Nat
      /\ DOMAIN stack = 1 .. n
      /\ DOMAIN stack' = 1 .. n + 1
      /\ Len(stack') = n + 1
      /\ stack' \in Seq(Calls) /\ stack' # <<>>
      /\ stack'[n + 1] = f
      /\ \A j \in 1 .. n : stack'[j] = stack[j]
  BY <1>1, FramePushed, LenProperties DEF StackOK, top
<1>3. n = 0 <=> stack = <<>>
  BY TopIsCall, EmptySeq
<1> HIDE DEF f, n
<1>4. ASSUME NEW j \in 1 .. n
      PROVE  NextOK(stack[j], TRUE)
  <2>1. CASE j = n
    BY <1>2, <1>3, <2>1 DEF StackOK, NextOK, top, n
  <2>2. CASE j # n
    <3>1. j \in DOMAIN stack /\ j < n
      BY <1>2, <2>2
    <3> QED
      BY <3>1 DEF StackOK, n
  <2> QED
    BY <2>1, <2>2
<1>5. ASSUME NEW j \in DOMAIN stack'
      PROVE  NextOK(stack'[j], j < Len(stack'))
  BY <1>1, <1>2, <1>4 DEF NextOK
<1>6. AtOwnTask(stack'[1])
  BY <1>1, <1>2, <1>3 DEF StackOK, AtOwnTask
<1> QED
  BY <1>2, <1>5, <1>6 DEF StackOK

LEMMA PopKeepsStackOK ==
    ASSUME StackOK, stack # <<>>, Len(stack) # 1, Pop
    PROVE  StackOK'
<1> DEFINE n == Len(stack) - 1
           f == Advanced(stack[n])
<1>1. /\ n \in Nat \ {0} /\ n < Len(stack)
      /\ DOMAIN stack = 1 .. Len(stack)
      /\ DOMAIN stack' = 1 .. n
      /\ Len(stack') = n
      /\ stack' \in Seq(Calls)
      /\ stack'[n] = f
      /\ \A j \in 1 .. n - 1 : stack'[j] = stack[j]
  BY FramePopped, LenProperties DEF StackOK, top
<1>2. stack[n] \in Calls /\ NextOK(stack[n], TRUE)
  <2>1. n \in DOMAIN stack /\ n \in 1 .. Len(stack)
    BY <1>1
  <2>2. NextOK(stack[n], n < Len(stack))
    BY <2>1 DEF StackOK
  <2> QED
    BY <1>1, <2>1, <2>2, ElementOfSeq DEF StackOK
<1>3. f.item = stack[n].item /\ f.task = stack[n].task
  BY <1>2, AdvancedIsCall
<1>4. NextOK(f, FALSE)
  <2>1. stack[n].item \in Task
    BY <1>2 DEF Calls
  <2>2. /\ Len(Steps(stack[n].item)) \in Nat
        /\ stack[n].next \in 1 .. Len(Steps(stack[n].item))
    BY <1>2, <2>1, StepsOfWalk DEF NextOK, WalkOver
  <2>3. f.next = stack[n].next + 1 /\ f.pc = stack[n].pc
    BY <1>2, AdvancedIsCall
  <2>4. stack[n].pc = "walk"
    BY <1>2 DEF NextOK
  <2> HIDE DEF n, f
  <2> QED
    BY <1>3, <2>2, <2>3, <2>4 DEF NextOK, WalkOver
<1> HIDE DEF f, n
<1>5. ASSUME NEW j \in DOMAIN stack'
      PROVE  NextOK(stack'[j], j < Len(stack'))
  <2>1. CASE j = n
    BY <1>1, <1>4, <2>1 DEF NextOK
  <2>2. CASE j # n
    <3>1. j \in DOMAIN stack /\ j < Len(stack) /\ j < n /\ stack'[j] = stack[j]
      BY <1>1, <2>2
    <3> QED
      BY <1>1, <3>1 DEF StackOK, NextOK
  <2> QED
    BY <2>1, <2>2
<1>6. AtOwnTask(stack'[1])
  BY <1>1, <1>3 DEF StackOK, AtOwnTask
<1> QED
  BY <1>1, <1>5, <1>6 DEF StackOK

LEMMA UnwindKeepsStackOK ==
    ASSUME stack' = <<>>
    PROVE  StackOK'
  BY EmptySeq DEF StackOK

(* The stack of each step of the interpreter.                              *)
LEMMA StepKeepsStackOK ==
    ASSUME TypeInv, Step
    PROVE  StackOK'
<1> USE DEF TypeInv
<1>1. CASE Descend
  <2>1. stack # <<>> /\ reached \in Task /\ top.pc = "walk" /\ ~WalkOver(top)
    BY <1>1, TopIsCall, StepsAreTasks DEF Descend, Walking, WalkOver, reached
  <2> QED
    BY <1>1, <2>1, TopIsCall, PushKeepsStackOK DEF Descend
<1>2. CASE \/ SkipItem
           \/ ExecNested /\ Top(Advanced(top))
  <2>1. /\ stack # <<>> /\ Top(Advanced(top)) /\ top.pc = "walk"
        /\ top.next <= Len(Steps(top.item))
    BY <1>2 DEF SkipItem, ExecNested, Walking
  <2>2. NextOK(Advanced(top), FALSE)
    BY <2>1, TopIsCall, AdvancedIsCall DEF NextOK
  <2> QED
    BY <2>1, <2>2, TopIsCall, AdvancedIsCall, TopKeepsStackOK
<1>3. CASE ExecNested /\ ~Top(Advanced(top))
  <2>1. /\ stack # <<>> /\ top.pc = "walk" /\ ~WalkOver(top)
        /\ Push(Frame(top.item, top.item, cache[command.via]))
    BY <1>3, TopIsCall DEF ExecNested, Walking, WalkOver
  <2>2. cache[command.via] \in SUBSET Task
    BY DEF RestOK
  <2> QED
    BY <2>1, <2>2, TopIsCall, PushKeepsStackOK
<1>4. ASSUME StartFunc \/ CleanWorkdir
      PROVE  StackOK'
  <2>1. PICK pc \in {"func", "wiped"} :
            stack # <<>> /\ ~WalkOver(top) /\ Top([top EXCEPT !.pc = pc])
    BY <1>4, TopIsCall DEF StartFunc, CleanWorkdir, Walking, Running, WalkOver
  <2> DEFINE f == [top EXCEPT !.pc = pc]
  <2>2. f \in Calls /\ f.item = top.item /\ f.task = top.task /\ f.next = top.next
    BY <2>1, TopIsCall DEF Calls
  <2>3. NextOK(f, FALSE)
    BY <2>1, <2>2, TopIsCall DEF NextOK, WalkOver
  <2> QED
    BY <2>1, <2>2, <2>3, TopKeepsStackOK
<1>5. ASSUME FuncSucceeds \/ CleanStamps
      PROVE  StackOK'
  <2> DEFINE f == [Advanced(top) EXCEPT !.cache = @ \cup {top.task}, !.pc = "walk"]
  <2>1. stack # <<>> /\ ~WalkOver(top) /\ Top(f)
    BY <1>5, TopIsCall DEF FuncSucceeds, CleanStamps, Running, Remember
  <2>2. /\ f \in Calls /\ f.item = top.item /\ f.task = top.task
        /\ f.next = top.next + 1 /\ f.pc = "walk"
    BY <2>1, TopIsCall, AdvancedIsCall DEF Calls
  <2>3. NextOK(f, FALSE)
    BY <2>1, <2>2, TopIsCall DEF NextOK, WalkOver
  <2> QED
    BY <2>1, <2>2, <2>3, TopKeepsStackOK
<1>6. CASE FuncFails
  BY <1>6, UnwindKeepsStackOK DEF FuncFails, Unwind
<1>7. CASE WalkReturns
  BY <1>7, TopIsCall, PopKeepsStackOK DEF WalkReturns, AtOwnTask
<1>8. CASE ExecReturns
  BY <1>8, UnwindKeepsStackOK, PopKeepsStackOK DEF ExecReturns, Unwind
<1> QED
  BY <1>1, <1>2, <1>3, <1>4, <1>5, <1>6, <1>7, <1>8 DEF Step

LEMMA StepKeepsRestOK ==
    ASSUME TypeInv, Step
    PROVE  RestOK'
<1> USE DEF TypeInv
<1>1. CASE Descend \/ SkipItem \/ ExecNested \/ StartFunc \/ WalkReturns
  BY <1>1 DEF RestOK, Descend, SkipItem, ExecNested, StartFunc, WalkReturns, disk, object
<1>2. CASE FuncSucceeds
  <2>1. top.task \in Task /\ top.cache \in SUBSET Task /\ command.via \in Via
    BY <1>2, TopIsCall DEF FuncSucceeds, Running, RestOK
  <2>2. done' \subseteq Task /\ ranNow' \subseteq Task /\ newer' \subseteq Task \X Task
    BY <1>2, <2>1 DEF FuncSucceeds, RestOK
  <2>3. cache' \in [Via -> SUBSET Task]
    BY <1>2, <2>1 DEF FuncSucceeds, Remember, RestOK
  <2>4. clock' \in Nat \ {0}
    BY <1>2 DEF FuncSucceeds, RestOK
  <2> QED
    BY <1>2, <2>2, <2>3, <2>4 DEF FuncSucceeds, RestOK
<1>3. CASE CleanWorkdir
  BY <1>3 DEF RestOK, CleanWorkdir, object
<1>4. CASE CleanStamps
  <2>1. top.task \in Task /\ top.cache \in SUBSET Task /\ Cleaner \in Task
    BY <1>4, TopIsCall, TaskExecAssumption DEF CleanStamps
  <2>2. cache' \in [Via -> SUBSET Task]
    BY <1>4, <2>1 DEF CleanStamps, Remember, RestOK
  <2>3. stamp' \in [Task -> Nat] /\ ranNow' \subseteq Task
    BY <1>4, <2>1 DEF CleanStamps, RestOK
  <2> QED
    BY <1>4, <2>2, <2>3 DEF RestOK, CleanStamps
<1>5. CASE FuncFails
  BY <1>5 DEF RestOK, FuncFails, Unwind, object
<1>6. CASE ExecReturns
  <2>1. stamp' \in [Task -> Nat]
    BY <1>6, TopIsCall DEF ExecReturns, MkStamp, RestOK
  <2>2. outcome' \in {"none", "busy", "ok", "failed", "killed"}
    BY <1>6 DEF ExecReturns, Unwind, RestOK
  <2> QED
    BY <1>6, <2>1, <2>2 DEF ExecReturns, RestOK, object
<1> QED
  BY <1>1, <1>2, <1>3, <1>4, <1>5, <1>6 DEF Step

LEMMA FreshTypes ==
    ASSUME RestOK, NEW objects \in [Via -> SUBSET Task]
    PROVE  Fresh(objects) \in [Via -> SUBSET Task]
  BY DEF Fresh

LEMMA TryBuildPackageKeepsTypes ==
    ASSUME TypeInv, NEW t \in Targets, NEW force \in BOOLEAN, NEW via \in Via,
           stack = <<>>, TryBuildPackage(t, force, via)
    PROVE  /\ StackOK'
           /\ forced' \in [Via -> SUBSET Task]
           /\ outcome' \in {"ok", "failed", "busy"}
<1>1. Fresh(cache) \in [Via -> SUBSET Task] /\ Fresh(forced) \in [Via -> SUBSET Task]
  BY FreshTypes DEF TypeInv, RestOK
<1>2. forced' \in [Via -> SUBSET Task]
  BY <1>1 DEF TryBuildPackage
<1>3. outcome' \in {"ok", "failed", "busy"}
  BY DEF TryBuildPackage
<1>4. ASSUME t \in Task, Push(Frame(t, t, Fresh(cache)[via]))
      PROVE  StackOK'
  <2>1. Fresh(cache)[via] \in SUBSET Task
    BY <1>1
  <2> QED
    BY <1>4, <2>1, PushKeepsStackOK DEF TypeInv
<1>5. ASSUME stack' = stack
      PROVE  StackOK'
  BY <1>5, UnwindKeepsStackOK
<1> QED
  BY <1>2, <1>3, <1>4, <1>5 DEF TryBuildPackage

LEMMA CommandKeepsTypes ==
    ASSUME TypeInv, NEW t \in Targets, NEW force \in BOOLEAN,
           BuildFile(t, force) \/ BuildTarget(t, force)
    PROVE  TypeInv'
<1>1. PICK via \in Via :
        /\ Command(t, force, via)
        /\ \/ TryBuildPackage(t, force, via)
           \/ forced' = Fresh(forced) /\ outcome' = "ok" /\ stack' = stack
  BY DEF BuildFile, BuildTarget, Via
<1>2. stack = <<>>
  BY <1>1 DEF Command
<1>3. /\ StackOK'
      /\ forced' \in [Via -> SUBSET Task]
      /\ outcome' \in {"ok", "failed", "busy"}
  BY <1>1, <1>2, TryBuildPackageKeepsTypes, UnwindKeepsStackOK, FreshTypes
     DEF TypeInv, RestOK
<1>4. /\ cache' \in [Via -> SUBSET Task]
      /\ command' \in [target : Targets \cup {Cleaner}, force : BOOLEAN, via : Via]
      /\ commands' \in 0 .. MaxCommands
      /\ ranNow' \subseteq Task
      /\ UNCHANGED <<session, disk, clock>>
  <2>1. cache' \in [Via -> SUBSET Task]
    BY <1>1, FreshTypes DEF Command, TypeInv, RestOK
  <2>2. command' \in [target : Targets \cup {Cleaner}, force : BOOLEAN, via : Via]
    BY <1>1 DEF Command
  <2>3. commands' \in 0 .. MaxCommands
    BY <1>1, TaskExecAssumption DEF Command, TypeInv, RestOK
  <2> QED
    BY <1>1, <2>1, <2>2, <2>3 DEF Command
<1> QED
  BY <1>3, <1>4 DEF TypeInv, RestOK, disk

LEMMA KilledKeepsTypes ==
    ASSUME TypeInv, Killed
    PROVE  TypeInv'
<1>1. StackOK'
  BY UnwindKeepsStackOK DEF Killed, Unwind
<1> QED
  BY <1>1 DEF Killed, Unwind, TypeInv, RestOK

LEMMA MayForceType ==
    ASSUME TypeInv
    PROVE  MayForce \subseteq BOOLEAN
  BY TaskExecAssumption DEF MayForce, TypeInv, RestOK, SessionType

LEMMA NextKeepsTypes == TypeInv /\ [Next]_vars => TypeInv'
<1> SUFFICES ASSUME TypeInv, [Next]_vars PROVE TypeInv'
  OBVIOUS
<1>1. CASE Step
  BY <1>1, StepKeepsStackOK, StepKeepsRestOK DEF TypeInv
<1>2. CASE Killed
  BY <1>2, KilledKeepsTypes
<1>3. ASSUME NEW t \in Targets, NEW force \in MayForce,
             BuildFile(t, force) \/ BuildTarget(t, force)
      PROVE  TypeInv'
  BY <1>3, MayForceType, CommandKeepsTypes
<1>4. CASE UNCHANGED vars
  BY <1>4 DEF vars, TypeInv, StackOK, NextOK, AtOwnTask, WalkOver, Steps, RestOK
<1> QED
  BY <1>1, <1>2, <1>3, <1>4 DEF Next

LEMMA InitTypes == Init => TypeInv
<1> SUFFICES ASSUME Init PROVE TypeInv
  OBVIOUS
<1>1. StackOK
  BY EmptySeq DEF Init, StackOK
<1> QED
  BY <1>1, TaskExecAssumption DEF Init, TypeInv, RestOK, Via

(* The state keeps its types: in particular no frame's loop runs past the  *)
(* end of its list, and a walk that returns to a caller has one.           *)
THEOREM TaskExecTypes == Spec => []TypeOK
<1>1. TypeInv /\ [Next]_vars => TypeInv'
  BY NextKeepsTypes
<1> QED
  BY InitTypes, <1>1, TypeInvIsTypeOK, PTL DEF Spec
-----------------------------------------------------------------------------
(* A frame's task and item are tasks.                                      *)
LEMMA CallTypes ==
    ASSUME NEW f \in Calls
    PROVE  f.task \in Task /\ f.item \in Task /\ f.next \in Nat /\ f.cache \in SUBSET Task
  BY DEF Calls

(* Frame g was pushed by frame f: for a parent, or for a nested exec_task. *)
Link(f, g) ==
    /\ g.item = Steps(f.item)[f.next]
    /\ \/ g.item # f.item /\ g.task = f.task
       \/ g.item = f.item /\ g.task = g.item /\ g.task # f.task
LinksOK == \A i \in DOMAIN stack : i > 1 => Link(stack[i - 1], stack[i])
-----------------------------------------------------------------------------
(* What one command does, as a record of what its walks look at: mem is    *)
(* the object's _task_cache, copy the one exec_task took for the command's *)
(* own task, rules what is known of the session.                           *)
Scenes == [stamp : [Task -> Nat], clock : Nat, newer : SUBSET (Task \X Task), ran : SUBSET Task,
           mem : SUBSET Task, copy : SUBSET Task, forced : SUBSET Task, target : Task,
           rules : SUBSET {"slow", "unforced"}]

CurrentIn(x, w) ==
    /\ w.stamp[x] # 0
    /\ \A a \in Ancestors[x] : a \in NoStamp \/ (w.stamp[a] # 0 /\ w.stamp[a] <= w.stamp[x])

(* A walk that comes to x leaves it alone.                                 *)
Quiet(x, w) ==
    x \in Flagged => x \in w.mem \/ (x \notin w.forced /\ CurrentIn(x, w))

(* Nothing this command does makes x current.                              *)
Hopeless(x, w) ==
    \E a \in Ancestors[x] \ NoStamp : w.stamp[a] = 0 /\ (a \notin Flagged \/ a \in w.copy)

(* S are tasks the command's own walk has passed; busy is empty or has the *)
(* task whose exec_task it now waits for.                                  *)
CacheKnows(S, w, busy) ==
    /\ w.ran \subseteq w.mem /\ w.copy \subseteq w.mem
    /\ w.mem \subseteq w.copy \cup w.ran
    /\ w.ran \cap w.copy = {}
    /\ w.ran \subseteq Flagged
    /\ w.ran \subseteq S \cup busy

PassedIsQuiet(S, w) ==
    /\ S \subseteq Ancestors[w.target]
    /\ \A y \in S : Ancestors[y] \subseteq S /\ Quiet(y, w)

NestedOK(S, w, t) ==
    /\ t \in Flagged \ w.copy
    /\ t \in Ancestors[w.target]
    /\ Ancestors[t] \subseteq S
    /\ t \in w.mem \/ t \in w.forced \/ ~CurrentIn(t, w)
    /\ t \in w.mem \cap Stamped => \A y \in (S \cap Flagged) \ w.mem : t \notin Ancestors[y]

(* When functions take a second, what has not run is older than what has.  *)
Slow(w, busy) ==
    /\ w.ran # {} => \A y \in Task \ w.ran : w.stamp[y] < w.clock
    /\ \A z \in (w.ran \cap Stamped) \ busy, y \in Task \ w.ran : w.stamp[y] < w.stamp[z]

(* When no flag but the target's is set, what has run stays current.       *)
Unforced(w, busy) ==
    /\ w.forced \subseteq {w.target}
    /\ \A z \in (w.ran \cap Stamped) \ busy : CurrentIn(z, w) \/ Hopeless(z, w)
    /\ \A t \in busy \cap w.mem \cap Stamped :
            Hopeless(t, w) \/ \A z \in w.ran : t \notin Ancestors[z]

(* Nothing has run after a task that ran after it.                         *)
RanInOrder(w) == \A q \in w.ran : \A p \in Ancestors[q] : <<p, q>> \notin w.newer

Orderly(S, w, busy) ==
    /\ CacheKnows(S, w, busy)
    /\ PassedIsQuiet(S, w)
    /\ \A t \in busy : NestedOK(S, w, t)
    /\ "slow" \in w.rules => Slow(w, busy)
    /\ "unforced" \in w.rules => Unforced(w, busy)
    /\ RanInOrder(w)
    /\ \A x \in Task : w.stamp[x] <= w.clock

LEMMA SceneFields ==
    ASSUME NEW w \in Scenes
    PROVE  /\ w.stamp \in [Task -> Nat] /\ w.clock \in Nat
           /\ w.newer \in SUBSET (Task \X Task)
           /\ w.ran \in SUBSET Task /\ w.mem \in SUBSET Task /\ w.copy \in SUBSET Task
           /\ w.forced \in SUBSET Task /\ w.target \in Task
           /\ w.rules \in SUBSET {"slow", "unforced"}
           /\ w.target \notin Ancestors[w.target]
  BY AncestorsAreTasks DEF Scenes

(* What is behind a hopeless task is hopeless, and not current.            *)
LEMMA HopelessIsNotCurrent ==
    ASSUME NEW w \in Scenes, NEW x \in Task, NEW y \in Task, Hopeless(x, w),
           y = x \/ x \in Ancestors[y]
    PROVE  Hopeless(y, w) /\ ~CurrentIn(y, w)
<1>1. Hopeless(y, w)
  BY BeforeIsTransitive DEF Hopeless
<1> QED
  BY <1>1 DEF Hopeless, CurrentIn

(* A walk for a nested exec_task finds every task before its own as it     *)
(* should be.                                                              *)
LEMMA NestedFindsNothing ==
    ASSUME NEW w \in Scenes, NEW S \in SUBSET Task, NEW t \in Task, Orderly(S, w, {t}),
           NEW x \in (Ancestors[t] \cap Flagged) \ w.mem
    PROVE  x \notin w.forced /\ CurrentIn(x, w)
  BY DEF Orderly, NestedOK, PassedIsQuiet, Quiet

(* The command's own walk passes a task that needs nothing.                *)
LEMMA PassesQuiet ==
    ASSUME NEW w \in Scenes, NEW S \in SUBSET Task, Orderly(S, w, {}),
           NEW x \in Ancestors[w.target], Ancestors[x] \subseteq S, Quiet(x, w)
    PROVE  Orderly(S \cup {x}, w, {})
<1>1. x \in Task
  BY SceneFields, AncestorsAreTasks
<1>2. CacheKnows(S \cup {x}, w, {})
  BY DEF Orderly, CacheKnows
<1>3. PassedIsQuiet(S \cup {x}, w)
  BY DEF Orderly, PassedIsQuiet
<1> QED
  BY <1>2, <1>3 DEF Orderly

(* A nested exec_task is entered.                                          *)
LEMMA NestedStarts ==
    ASSUME NEW w \in Scenes, NEW S \in SUBSET Task, Orderly(S, w, {}), w.rules # {},
           NEW t \in (Ancestors[w.target] \cap Flagged) \ w.copy, Ancestors[t] \subseteq S,
           t \in w.forced \/ ~CurrentIn(t, w)
    PROVE  Orderly(S, w, {t})
<1>1. t \in Task /\ t # w.target
  BY SceneFields, AncestorsAreTasks
<1>2. CacheKnows(S, w, {t})
  BY DEF Orderly, CacheKnows
<1>3. t \in w.mem => t \in w.ran
  BY DEF Orderly, CacheKnows
<1>4. "unforced" \in w.rules /\ t \in w.mem \cap Stamped => Hopeless(t, w)
  BY <1>1, <1>3 DEF Orderly, Unforced
<1>5. ASSUME t \in w.mem \cap Stamped, NEW y \in (S \cap Flagged) \ w.mem, t \in Ancestors[y]
      PROVE  FALSE
  <2>1. y \in Task /\ CurrentIn(y, w)
    BY <1>5 DEF Orderly, PassedIsQuiet, Quiet
  <2>2. t \notin NoStamp /\ w.stamp[t] <= w.stamp[y]
    BY <1>5, <2>1 DEF CurrentIn, Stamped
  <2>3. CASE "slow" \in w.rules
    <3>1. y \notin w.ran
      BY <1>5 DEF Orderly, CacheKnows
    <3>2. w.stamp[y] < w.stamp[t]
      BY <1>3, <1>5, <2>1, <2>3, <3>1 DEF Orderly, Slow
    <3>3. w.stamp[y] \in Nat /\ w.stamp[t] \in Nat
      BY <1>1, <2>1, SceneFields
    <3> QED
      BY <2>2, <3>2, <3>3
  <2>4. CASE "unforced" \in w.rules
    BY <1>1, <1>4, <1>5, <2>1, <2>4, HopelessIsNotCurrent
  <2> QED
    BY <2>3, <2>4, SceneFields
<1>6. NestedOK(S, w, t)
  BY <1>5 DEF NestedOK
<1>7. "slow" \in w.rules => Slow(w, {t})
  BY DEF Orderly, Slow
<1>8. "unforced" \in w.rules => Unforced(w, {t})
  BY <1>4 DEF Orderly, Unforced
<1> QED
  BY <1>2, <1>6, <1>7, <1>8 DEF Orderly

(* Its function completes, for the first time in the command.              *)
LEMMA NestedRuns ==
    ASSUME NEW w \in Scenes, NEW v \in Scenes, NEW S \in SUBSET Task, NEW t \in Task,
           Orderly(S, w, {t}), t \notin w.mem,
           v.stamp = w.stamp, v.copy = w.copy, v.forced = w.forced, v.target = w.target,
           v.rules = w.rules, v.ran = w.ran \cup {t}, v.mem = w.mem \cup {t},
           v.clock \in {w.clock, w.clock + 1}, "slow" \in w.rules => v.clock = w.clock + 1,
           \A p, q \in Task : <<p, q>> \in v.newer => q # t /\ (<<p, q>> \in w.newer \/ p = t)
    PROVE  Orderly(S, v, {t})
<1>1. t \notin S
  BY DEF Orderly, NestedOK, PassedIsQuiet, Quiet
<1>2. \A x \in Task : CurrentIn(x, v) <=> CurrentIn(x, w)
  BY DEF CurrentIn
<1>3. \A x \in Task : Hopeless(x, v) <=> Hopeless(x, w)
  BY DEF Hopeless
<1>4. CacheKnows(S, v, {t})
  BY DEF Orderly, CacheKnows, NestedOK
<1>5. PassedIsQuiet(S, v)
  BY <1>2 DEF Orderly, PassedIsQuiet, Quiet
<1>6. NestedOK(S, v, t)
  BY <1>1 DEF Orderly, NestedOK, PassedIsQuiet
<1>7. "slow" \in v.rules => Slow(v, {t})
  <2> SUFFICES ASSUME "slow" \in w.rules PROVE Slow(v, {t})
    OBVIOUS
  <2>1. \A y \in Task : v.stamp[y] < v.clock
    BY SceneFields DEF Orderly
  <2> QED
    BY <2>1 DEF Orderly, Slow
<1>8. ASSUME NEW z \in w.ran
      PROVE  z # t /\ z \in S /\ t \notin Ancestors[z]
  BY <1>1 DEF Orderly, CacheKnows, PassedIsQuiet
<1>9. "unforced" \in v.rules => Unforced(v, {t})
  <2> SUFFICES ASSUME "unforced" \in w.rules PROVE Unforced(v, {t})
    OBVIOUS
  <2>1. t \notin Ancestors[t]
    BY AncestorsAreTasks
  <2>2. \A z \in v.ran : t \notin Ancestors[z]
    BY <1>8, <2>1
  <2>3. \A z \in (v.ran \cap Stamped) \ {t} : CurrentIn(z, v) \/ Hopeless(z, v)
    BY <1>2, <1>3, SceneFields DEF Orderly, Unforced
  <2> QED
    BY <2>2, <2>3 DEF Unforced, Orderly
<1>10. RanInOrder(v)
  <2>1. ASSUME NEW q \in v.ran, NEW p \in Ancestors[q]
        PROVE  <<p, q>> \notin v.newer
    <3>1. p \in Task /\ q \in Task
      BY SceneFields, AncestorsAreTasks
    <3>2. q # t => p # t /\ <<p, q>> \notin w.newer
      BY <1>8 DEF Orderly, RanInOrder
    <3> QED
      BY <3>1, <3>2
  <2> QED
    BY <2>1 DEF RanInOrder
<1>11. \A x \in Task : v.stamp[x] <= v.clock
  <2>1. /\ \A x \in Task : v.stamp[x] = w.stamp[x] /\ w.stamp[x] \in Nat /\ w.stamp[x] <= w.clock
        /\ w.clock \in Nat
    BY SceneFields DEF Orderly
  <2>2. ASSUME NEW x \in Task
        PROVE  v.stamp[x] <= v.clock
    <3>1. v.stamp[x] \in Nat /\ v.stamp[x] <= w.clock /\ w.clock \in Nat
      BY <2>1
    <3>2. v.clock = w.clock \/ v.clock = w.clock + 1
      OBVIOUS
    <3> QED
      BY <3>1, <3>2
  <2> QED
    BY <2>2
<1>12. \A x \in {t} : NestedOK(S, v, x)
  BY <1>6
<1> QED
  BY <1>4, <1>5, <1>7, <1>9, <1>10, <1>11, <1>12 DEF Orderly

(* It returns, making its stamp.                                           *)
LEMMA NestedReturns ==
    ASSUME NEW w \in Scenes, NEW v \in Scenes, NEW S \in SUBSET Task, NEW t \in Task,
           Orderly(S, w, {t}), t \in w.mem, w.rules # {},
           v.copy = w.copy, v.forced = w.forced, v.target = w.target, v.newer = w.newer,
           v.rules = w.rules, v.ran = w.ran, v.mem = w.mem, v.clock = w.clock, 0 < w.clock,
           v.stamp = IF t \in NoStamp THEN w.stamp ELSE [w.stamp EXCEPT ![t] = w.clock]
    PROVE  Orderly(S \cup {t}, v, {})
<1>1. /\ t \in w.ran /\ t \in Flagged /\ t \notin w.copy /\ Ancestors[t] \subseteq S
      /\ t \in Ancestors[w.target] /\ t \notin Ancestors[t]
  BY AncestorsAreTasks DEF Orderly, NestedOK, CacheKnows
<1>2. /\ \A x \in Task : x # t => v.stamp[x] = w.stamp[x]
      /\ t \in Stamped => v.stamp[t] = w.clock
      /\ t \notin Stamped => v.stamp = w.stamp
      /\ \A x \in Task : w.stamp[x] \in Nat /\ v.stamp[x] \in Nat /\ w.stamp[x] <= w.clock
      /\ w.clock \in Nat
  BY <1>1, SceneFields DEF Stamped, Orderly
<1>3. ASSUME NEW x \in Task, x # t, CurrentIn(x, w), t \in Stamped => t \notin Ancestors[x]
      PROVE  CurrentIn(x, v)
  <2>1. \A a \in Ancestors[x] : a \in Task /\ v.stamp[a] = w.stamp[a]
    BY <1>2, <1>3, AncestorsAreTasks
  <2> QED
    BY <1>2, <1>3, <2>1 DEF CurrentIn
<1>4. ASSUME NEW x \in Task, Hopeless(x, w)
      PROVE  Hopeless(x, v)
  <2>1. PICK a \in Ancestors[x] \ NoStamp : w.stamp[a] = 0 /\ (a \notin Flagged \/ a \in w.copy)
    BY <1>4 DEF Hopeless
  <2>2. a # t /\ a \in Task
    BY <1>1, <2>1, AncestorsAreTasks
  <2> QED
    BY <1>2, <2>1, <2>2 DEF Hopeless
<1>5. CacheKnows(S \cup {t}, v, {})
  BY DEF Orderly, CacheKnows
<1>6. PassedIsQuiet(S \cup {t}, v)
  <2>1. ASSUME NEW y \in S
        PROVE  Quiet(y, v)
    <3>1. y \in Task /\ Quiet(y, w)
      BY DEF Orderly, PassedIsQuiet
    <3>2. y \in Flagged \ w.mem /\ t \in Stamped => t \notin Ancestors[y]
      BY DEF Orderly, NestedOK
    <3> QED
      BY <1>3, <3>1, <3>2 DEF Quiet
  <2>2. Quiet(t, v)
    BY DEF Quiet
  <2> QED
    BY <1>1, <2>1, <2>2 DEF Orderly, PassedIsQuiet
<1>7. "slow" \in v.rules => Slow(v, {})
  <2> SUFFICES ASSUME "slow" \in w.rules PROVE Slow(v, {})
    OBVIOUS
  <2>1. Slow(w, {t})
    BY DEF Orderly
  <2>2. \A y \in Task \ w.ran : w.stamp[y] < w.clock /\ v.stamp[y] = w.stamp[y]
    BY <1>1, <1>2, <2>1 DEF Slow
  <2>3. ASSUME NEW z \in w.ran \cap Stamped, NEW y \in Task \ w.ran
        PROVE  v.stamp[y] < v.stamp[z]
    <3>1. CASE z = t
      BY <1>2, <2>2, <3>1
    <3>2. CASE z # t
      BY <1>2, <2>1, <2>2, <3>2, SceneFields DEF Slow
    <3> QED
      BY <3>1, <3>2
  <2> QED
    BY <2>2, <2>3 DEF Slow
<1>8. "unforced" \in v.rules => Unforced(v, {})
  <2> SUFFICES ASSUME "unforced" \in w.rules PROVE Unforced(v, {})
    OBVIOUS
  <2>1. Unforced(w, {t})
    BY DEF Orderly
  <2>2. ASSUME NEW z \in w.ran \cap Stamped, z # t
        PROVE  CurrentIn(z, v) \/ Hopeless(z, v)
    <3>1. z \in Task /\ (CurrentIn(z, w) \/ Hopeless(z, w))
      BY <2>1, <2>2, SceneFields DEF Unforced
    <3>2. t \in Stamped => Hopeless(t, w) \/ t \notin Ancestors[z]
      BY <2>1 DEF Unforced
    <3> QED
      BY <1>3, <1>4, <2>2, <3>1, <3>2, HopelessIsNotCurrent
  <2>3. ASSUME t \in Stamped
        PROVE  CurrentIn(t, v) \/ Hopeless(t, v)
    <3>1. ASSUME NEW a \in Ancestors[t] \ NoStamp, ~Hopeless(t, w)
          PROVE  v.stamp[a] # 0 /\ v.stamp[a] <= v.stamp[t]
      <4>1. a \in Task /\ a # t /\ a \in S /\ v.stamp[a] = w.stamp[a]
        BY <1>1, <1>2, AncestorsAreTasks
      <4>2. a \in Flagged /\ a \notin w.copy => w.stamp[a] # 0
        <5>1. CASE a \in w.ran
          <6>1. a \in Stamped
            BY <3>1, <5>1 DEF Orderly, CacheKnows, Stamped
          <6>2. CurrentIn(a, w)
            BY <2>1, <3>1, <4>1, <5>1, <6>1, HopelessIsNotCurrent DEF Unforced
          <6> QED
            BY <6>2 DEF CurrentIn
        <5>2. CASE a \notin w.ran
          BY <4>1, <5>2 DEF Orderly, CacheKnows, PassedIsQuiet, Quiet, CurrentIn
        <5> QED
          BY <5>1, <5>2
      <4>3. w.stamp[a] # 0
        BY <3>1, <4>2 DEF Hopeless
      <4> QED
        BY <1>2, <2>3, <4>1, <4>3
    <3> QED
      BY <1>2, <1>4, <2>3, <3>1 DEF CurrentIn
  <2>4. \A z \in (v.ran \cap Stamped) \ {} : CurrentIn(z, v) \/ Hopeless(z, v)
    BY <2>2, <2>3
  <2>5. v.forced \subseteq {v.target}
    BY <2>1 DEF Unforced
  <2>6. {} \cap v.mem \cap Stamped = {}
    OBVIOUS
  <2> QED
    BY <2>4, <2>5, <2>6 DEF Unforced
<1>9. ASSUME NEW x \in Task
      PROVE  v.stamp[x] <= v.clock
  <2>1. CASE x = t /\ t \in Stamped
    BY <1>2, <2>1
  <2>2. CASE ~(x = t /\ t \in Stamped)
    <3>1. v.stamp[x] = w.stamp[x] /\ w.stamp[x] <= w.clock
      BY <1>2, <2>2
    <3> QED
      BY <3>1
  <2> QED
    BY <2>1, <2>2
<1>10. RanInOrder(v)
  BY DEF Orderly, RanInOrder
<1> QED
  BY <1>5, <1>6, <1>7, <1>8, <1>9, <1>10 DEF Orderly
-----------------------------------------------------------------------------
LEMMA CommandStarts ==
    ASSUME NEW w \in Scenes, w.ran = {}, w.mem = w.copy,
           "unforced" \in w.rules => w.forced \subseteq {w.target},
           \A x \in Task : w.stamp[x] <= w.clock
    PROVE  Orderly({}, w, {})
<1>1. CacheKnows({}, w, {}) /\ PassedIsQuiet({}, w)
  BY DEF CacheKnows, PassedIsQuiet
<1>2. Slow(w, {}) /\ RanInOrder(w)
  BY DEF Slow, RanInOrder
<1>3. "unforced" \in w.rules => Unforced(w, {})
  BY DEF Unforced
<1> QED
  BY <1>1, <1>2, <1>3 DEF Orderly

(* What a command on metadata of its own leaves when its walk is over.     *)
EndsWell(w) ==
    /\ w.ran \subseteq Ancestors[w.target] \cup {w.target}
    /\ w.target \in Flagged => w.target \in w.ran
    /\ \A a \in Ancestors[w.target] \cap Flagged :
            a \in w.ran \/ (a \notin w.forced /\ CurrentIn(a, w))
    /\ \A a \in Ancestors[w.target] \cap Stamped :
            CurrentIn(a, w) \/ \E b \in Ancestors[a] \ NoStamp : b \notin Flagged
    /\ RanInOrder(w)
    /\ "slow" \in w.rules /\ w.ran # {} => \A y \in Task \ w.ran : w.stamp[y] < w.clock

(* All before the target is passed.                                        *)
LEMMA AllQuiet ==
    ASSUME NEW w \in Scenes, NEW S \in SUBSET Task, Orderly(S, w, {}), w.copy = {},
           "unforced" \in w.rules, Ancestors[w.target] \subseteq S
    PROVE  /\ \A a \in Ancestors[w.target] \cap Flagged :
                    a \in w.ran \/ (a \notin w.forced /\ CurrentIn(a, w))
           /\ \A a \in Ancestors[w.target] \cap Stamped :
                    CurrentIn(a, w) \/ \E b \in Ancestors[a] \ NoStamp : b \notin Flagged
           /\ w.ran \subseteq S /\ S \subseteq Ancestors[w.target] /\ w.target \notin S
<1>1. w.mem = w.ran
  BY DEF Orderly, CacheKnows
<1>2. \A a \in Ancestors[w.target] \cap Flagged :
            a \in w.ran \/ (a \notin w.forced /\ CurrentIn(a, w))
  BY <1>1 DEF Orderly, PassedIsQuiet, Quiet
<1>3. \A a \in w.ran \cap Stamped :
            CurrentIn(a, w) \/ \E b \in Ancestors[a] \ NoStamp : b \notin Flagged
  BY DEF Orderly, Unforced, Hopeless
<1>4. w.ran \subseteq S /\ S \subseteq Ancestors[w.target] /\ w.target \notin S
  BY SceneFields DEF Orderly, CacheKnows, PassedIsQuiet
<1> QED
  BY <1>2, <1>3, <1>4 DEF Stamped

LEMMA TargetSkipped ==
    ASSUME NEW w \in Scenes, NEW S \in SUBSET Task, Orderly(S, w, {}), w.copy = {},
           "unforced" \in w.rules, Ancestors[w.target] \subseteq S, w.target \notin Flagged
    PROVE  EndsWell(w)
  BY AllQuiet DEF EndsWell, Orderly, Slow

LEMMA TargetRuns ==
    ASSUME NEW w \in Scenes, NEW v \in Scenes, NEW S \in SUBSET Task, Orderly(S, w, {}),
           w.copy = {}, "unforced" \in w.rules, Ancestors[w.target] \subseteq S,
           v.stamp = w.stamp, v.forced = w.forced, v.target = w.target,
           v.rules = w.rules, v.ran = w.ran \cup {w.target},
           v.clock \in {w.clock, w.clock + 1}, "slow" \in w.rules => v.clock = w.clock + 1,
           \A p, q \in Task : <<p, q>> \in v.newer =>
                q # w.target /\ (<<p, q>> \in w.newer \/ p = w.target)
    PROVE  EndsWell(v)
<1> DEFINE t == w.target
<1>1. \A x \in Task : CurrentIn(x, v) <=> CurrentIn(x, w)
  BY DEF CurrentIn
<1>2. t \in Task /\ Ancestors[t] \subseteq Task
  BY SceneFields, AncestorsAreTasks
<1>3. \A a \in Ancestors[t] \cap Flagged : a \in v.ran \/ (a \notin v.forced /\ CurrentIn(a, v))
  BY <1>1, <1>2, AllQuiet
<1>4. \A a \in Ancestors[t] \cap Stamped :
            CurrentIn(a, v) \/ \E b \in Ancestors[a] \ NoStamp : b \notin Flagged
  BY <1>1, <1>2, AllQuiet
<1>5. RanInOrder(v)
  <2>1. ASSUME NEW q \in v.ran, NEW p \in Ancestors[q]
        PROVE  <<p, q>> \notin v.newer
    <3>1. p \in Task /\ q \in Task
      BY SceneFields, AncestorsAreTasks
    <3>2. q # t => p # t /\ <<p, q>> \notin w.newer
      BY AllQuiet DEF Orderly, RanInOrder, PassedIsQuiet
    <3> QED
      BY <3>1, <3>2
  <2> QED
    BY <2>1 DEF RanInOrder
<1>6. ASSUME "slow" \in v.rules, NEW y \in Task
      PROVE  v.stamp[y] < v.clock
  <2>1. w.stamp[y] \in Nat /\ w.stamp[y] <= w.clock /\ w.clock \in Nat
    BY SceneFields DEF Orderly
  <2> QED
    BY <1>6, <2>1
<1>7. v.ran \subseteq Ancestors[t] \cup {t}
  BY AllQuiet
<1> QED
  BY <1>3, <1>4, <1>5, <1>6, <1>7 DEF EndsWell
-----------------------------------------------------------------------------
(* The same of the states.                                                 *)
Rules ==
    {r \in {"slow", "unforced"} : \/ r = "slow" /\ ~session.instant
                                  \/ r = "unforced" /\ ~(session.mayForce /\ session.keepsData)}
here == [stamp |-> stamp, clock |-> clock, newer |-> newer, ran |-> ranNow,
         mem |-> cache[command.via], copy |-> stack[1].cache,
         forced |-> forced[command.via], target |-> command.target, rules |-> Rules]
busy == {top.task} \ {command.target}

FrameFits(f, w, S) ==
    /\ f.item \in Ancestors[f.task] \cup {f.task}
    /\ f.task = w.target =>
            f.cache = w.copy /\ \A k \in 1 .. f.next - 1 : Steps(f.item)[k] \in S
    /\ f.task # w.target => f.cache = w.mem
    /\ f.pc # "walk" =>
            AtOwnTask(f) /\ f.next = Len(Steps(f.item)) /\ f.task \in Flagged \ f.cache
    /\ AtOwnTask(f) /\ WalkOver(f) => f.task \notin Flagged \/ f.task \in f.cache
    /\ f.pc = "wiped" => f.task = Cleaner
FramesFit(w, S) == \A i \in DOMAIN stack : FrameFits(stack[i], w, S)

(* A nested exec_task has none of its own.                                 *)
NestOnce ==
    \A i, j \in DOMAIN stack :
        i <= j /\ stack[i].task # command.target => stack[j].task = stack[i].task

Going == stack # <<>> /\ ~WalkOver(stack[1])
Shape == stack # <<>> => stack[1].task = command.target /\ NestOnce /\ LinksOK
OwnData == ~session.keepsData => stack[1].cache = {}

Walks(S) == Orderly(S, here, busy) /\ FramesFit(here, S)
StampsArePast == \A x \in Task : stamp[x] <= clock /\ (stamp[x] # 0 => x \notin NoStamp)
NoFlags == ~session.mayForce => forced = [via \in Via |-> {}]
BusyIsBusy == stack # <<>> => outcome = "busy"

WalksOK ==
    Rules # {} =>
        /\ Shape
        /\ Going => OwnData /\ \E S \in SUBSET Task : Walks(S)
        /\ stack # <<>> /\ ~Going /\ ~session.keepsData => EndsWell(here)

WInv == TypeInv /\ StampsArePast /\ NoFlags /\ BusyIsBusy /\ WalksOK /\ SuccessIsCurrent

LEMMA HereIsScene ==
    ASSUME TypeInv, stack # <<>>, stack[1].task = command.target
    PROVE  /\ here \in Scenes
           /\ here.stamp = stamp /\ here.clock = clock /\ here.newer = newer
           /\ here.ran = ranNow /\ here.mem = cache[command.via]
           /\ here.copy = stack[1].cache /\ here.forced = forced[command.via]
           /\ here.target = command.target /\ here.rules = Rules
           /\ command.target \in Task
           /\ stack[1] \in Calls
<1>1. Len(stack) \in Nat \ {0} /\ StackOK /\ RestOK
  BY TopIsCall DEF TypeInv
<1>2. stack[1] \in Calls
  BY <1>1, ElementOfSeq DEF StackOK
<1>3. stack[1].task \in Task /\ stack[1].cache \in SUBSET Task
  BY <1>2, CallTypes
<1>4. cache[command.via] \in SUBSET Task /\ forced[command.via] \in SUBSET Task
  BY <1>1 DEF RestOK
<1>5. Rules \in SUBSET {"slow", "unforced"}
  BY DEF Rules
<1>6. /\ stamp \in [Task -> Nat] /\ clock \in Nat /\ newer \in SUBSET (Task \X Task)
      /\ ranNow \in SUBSET Task
  BY <1>1 DEF RestOK
<1> HIDE DEF Rules
<1> QED
  BY <1>2, <1>3, <1>4, <1>5, <1>6 DEF here, Scenes
-----------------------------------------------------------------------------
(* The three changes of the stack again.                                   *)
LEMMA TopKeepsShape ==
    ASSUME StackOK, stack # <<>>, NEW f \in Calls, Top(f), LinksOK, NestOnce,
           f.item = top.item, f.task = top.task, UNCHANGED command,
           NEW w, NEW S, FrameFits(f, w, S),
           \A i \in 1 .. Len(stack) - 1 : FrameFits(stack[i], w, S)
    PROVE  /\ LinksOK' /\ NestOnce'
           /\ \A i \in DOMAIN stack' : FrameFits(stack'[i], w, S)
<1> DEFINE n == Len(stack)
<1>1. /\ n \in Nat \ {0}
      /\ DOMAIN stack = 1 .. n /\ DOMAIN stack' = 1 .. n
      /\ stack'[n] = f /\ f.item = stack[n].item /\ f.task = stack[n].task
      /\ \A i \in 1 .. n - 1 : stack'[i] = stack[i]
  BY TopIsCall, TopChanges, LenProperties DEF StackOK, top
<1> HIDE DEF n
<1>2. \A i \in 1 .. n : stack'[i].task = stack[i].task /\ stack'[i].item = stack[i].item
  BY <1>1
<1>3. \A i \in DOMAIN stack' : FrameFits(stack'[i], w, S)
  BY <1>1 DEF n
<1>4. NestOnce'
  BY <1>1, <1>2 DEF NestOnce
<1>5. LinksOK'
  <2>1. ASSUME NEW i \in 1 .. n, i > 1
        PROVE  Link(stack'[i - 1], stack'[i])
    <3>1. i - 1 \in 1 .. n - 1 /\ i \in DOMAIN stack
      BY <1>1, <2>1
    <3>2. Link(stack[i - 1], stack[i])
      BY <2>1, <3>1 DEF LinksOK
    <3> QED
      BY <1>1, <1>2, <3>1, <3>2 DEF Link
  <2> QED
    BY <1>1, <2>1 DEF LinksOK
<1> QED
  BY <1>3, <1>4, <1>5

LEMMA PushKeepsShape ==
    ASSUME StackOK, stack # <<>>, NEW f \in Calls, Push(f), LinksOK, NestOnce,
           Link(top, f), top.task = command.target \/ f.task = top.task, UNCHANGED command,
           NEW w, NEW S, FrameFits(f, w, S), \A i \in DOMAIN stack : FrameFits(stack[i], w, S)
    PROVE  /\ LinksOK' /\ NestOnce'
           /\ \A i \in DOMAIN stack' : FrameFits(stack'[i], w, S)
<1> DEFINE n == Len(stack)
<1>1. /\ n \in Nat \ {0}
      /\ DOMAIN stack = 1 .. n /\ DOMAIN stack' = 1 .. n + 1
      /\ stack'[n + 1] = f
      /\ top = stack[n]
      /\ \A i \in 1 .. n : stack'[i] = stack[i] /\ stack[i] \in Calls
  BY TopIsCall, FramePushed, LenProperties, ElementOfSeq DEF StackOK, top
<1> HIDE DEF n
<1>2. \A i \in DOMAIN stack' : FrameFits(stack'[i], w, S)
  BY <1>1
<1>3. LinksOK'
  <2>1. ASSUME NEW i \in 1 .. n + 1, i > 1
        PROVE  Link(stack'[i - 1], stack'[i])
    <3>1. CASE i = n + 1
      <4>1. i - 1 = n
        BY <1>1, <3>1
      <4> QED
        BY <1>1, <3>1, <4>1
    <3>2. CASE i # n + 1
      <4>1. i \in DOMAIN stack /\ i - 1 \in 1 .. n /\ i \in 1 .. n
        BY <1>1, <2>1, <3>2
      <4> QED
        BY <1>1, <2>1, <4>1 DEF LinksOK
    <3> QED
      BY <3>1, <3>2
  <2> QED
    BY <1>1, <2>1 DEF LinksOK
<1>4. NestOnce'
  <2>1. ASSUME NEW i \in 1 .. n, stack[i].task # command.target
        PROVE  f.task = stack[i].task
    BY <1>1, <2>1 DEF NestOnce
  <2>2. ASSUME NEW i \in 1 .. n + 1, NEW j \in 1 .. n + 1, i <= j,
               stack'[i].task # command.target
        PROVE  stack'[j].task = stack'[i].task
    <3>1. CASE i = n + 1
      BY <1>1, <2>2, <3>1
    <3>2. CASE i # n + 1 /\ j = n + 1
      BY <1>1, <2>1, <2>2, <3>2
    <3>3. CASE i # n + 1 /\ j # n + 1
      <4>1. i \in 1 .. n /\ j \in 1 .. n
        BY <1>1, <3>3
      <4> QED
        BY <1>1, <2>2, <4>1 DEF NestOnce
    <3> QED
      BY <3>1, <3>2, <3>3
  <2> QED
    BY <1>1, <2>2 DEF NestOnce
<1> QED
  BY <1>2, <1>3, <1>4

LEMMA PopKeepsShape ==
    ASSUME StackOK, stack # <<>>, Len(stack) # 1, Pop, LinksOK, NestOnce, UNCHANGED command,
           NEW w, NEW S, FrameFits(Advanced(stack[Len(stack) - 1]), w, S),
           \A i \in DOMAIN stack : i < Len(stack) - 1 => FrameFits(stack[i], w, S)
    PROVE  /\ LinksOK' /\ NestOnce'
           /\ \A i \in DOMAIN stack' : FrameFits(stack'[i], w, S)
<1> DEFINE n == Len(stack) - 1
           f == Advanced(stack[n])
<1>1. /\ n \in Nat \ {0}
      /\ DOMAIN stack = 1 .. n + 1 /\ DOMAIN stack' = 1 .. n
      /\ stack'[n] = f
      /\ \A i \in 1 .. n - 1 : stack'[i] = stack[i]
      /\ stack[n] \in Calls
  BY TopIsCall, FramePopped, LenProperties, ElementOfSeq DEF StackOK, top
<1>2. f.item = stack[n].item /\ f.task = stack[n].task
  BY <1>1, AdvancedIsCall
<1>3. FrameFits(f, w, S) /\ \A i \in 1 .. n - 1 : FrameFits(stack[i], w, S)
  BY <1>1
<1> HIDE DEF n, f
<1>4. \A i \in 1 .. n : stack'[i].task = stack[i].task /\ stack'[i].item = stack[i].item
  BY <1>1, <1>2
<1>5. \A i \in DOMAIN stack' : FrameFits(stack'[i], w, S)
  BY <1>1, <1>3
<1>6. NestOnce'
  BY <1>1, <1>4 DEF NestOnce
<1>7. LinksOK'
  <2>1. ASSUME NEW i \in 1 .. n, i > 1
        PROVE  Link(stack'[i - 1], stack'[i])
    <3>1. i - 1 \in 1 .. n - 1 /\ i \in DOMAIN stack
      BY <1>1, <2>1
    <3>2. Link(stack[i - 1], stack[i])
      BY <2>1, <3>1 DEF LinksOK
    <3> QED
      BY <1>1, <1>4, <3>1, <3>2 DEF Link
  <2> QED
    BY <1>1, <2>1 DEF LinksOK
<1> QED
  BY <1>5, <1>6, <1>7

(* The frame below the top one.                                            *)
LEMMA Below ==
    ASSUME StackOK, stack # <<>>, LinksOK, Len(stack) # 1
    PROVE  LET n == Len(stack) - 1
           IN  /\ n \in Nat \ {0} /\ n \in DOMAIN stack /\ n < Len(stack)
               /\ stack[n] \in Calls
               /\ stack[n].task \in Task /\ stack[n].item \in Task
               /\ Link(stack[n], top)
               /\ stack[n].pc = "walk"
               /\ stack[n].next \in 1 .. Len(Steps(stack[n].item))
<1> DEFINE n == Len(stack) - 1
<1>1. /\ n \in Nat \ {0} /\ n + 1 = Len(stack)
      /\ DOMAIN stack = 1 .. n + 1
  BY TopIsCall
<1>2. n \in DOMAIN stack /\ n < Len(stack) /\ stack[n] \in Calls
  BY <1>1, ElementOfSeq DEF StackOK
<1>3. stack[n].item \in Task /\ stack[n].task \in Task
  BY <1>2, CallTypes
<1>4. /\ stack[n].pc = "walk"
      /\ stack[n].next \in 1 .. Len(Steps(stack[n].item))
  <2>1. NextOK(stack[n], n < Len(stack))
    BY <1>2 DEF StackOK
  <2>2. Len(Steps(stack[n].item)) \in Nat
    BY <1>3, StepsOfWalk
  <2> HIDE DEF n
  <2> QED
    BY <1>2, <2>1, <2>2 DEF NextOK, WalkOver
<1>5. Link(stack[n], top)
  <2>1. n + 1 \in DOMAIN stack /\ n + 1 > 1 /\ (n + 1) - 1 = n /\ top = stack[n + 1]
    BY <1>1 DEF top
  <2> HIDE DEF n
  <2> QED
    BY <2>1 DEF LinksOK
<1> QED
  BY <1>1, <1>2, <1>3, <1>4, <1>5

(* Frames of the command's own walk are below those of a nested one; a     *)
(* frame at its own task is the first of its exec_task.                    *)
LEMMA OwnFrames ==
    ASSUME StackOK, stack # <<>>, Shape, NEW w, NEW S, FramesFit(w, S)
    PROVE  /\ top.task = command.target =>
                \A i \in DOMAIN stack : stack[i].task = command.target
           /\ AtOwnTask(top) =>
                /\ top.task = command.target => Len(stack) = 1
                /\ \A i \in DOMAIN stack : i < Len(stack) => stack[i].task = command.target
<1> DEFINE n == Len(stack)
<1>1. /\ n \in Nat \ {0} /\ DOMAIN stack = 1 .. n /\ top = stack[n]
      /\ top.task \in Task /\ top.item \in Task
      /\ LinksOK /\ NestOnce /\ stack[1].task = command.target
  BY TopIsCall DEF top, Shape
<1>2. top.task = command.target => \A i \in DOMAIN stack : stack[i].task = command.target
  BY <1>1 DEF NestOnce
<1>3. ASSUME AtOwnTask(top), n # 1
      PROVE  stack[n - 1].task = command.target /\ top.task # command.target
  <2> DEFINE f == stack[n - 1]
  <2>1. /\ n - 1 \in DOMAIN stack /\ f.task \in Task /\ f.item \in Task
        /\ Link(f, top) /\ f.next \in 1 .. Len(Steps(f.item))
    BY <1>1, <1>3, Below
  <2>2. f.item \in Ancestors[f.task] \cup {f.task}
    BY <2>1 DEF FramesFit, FrameFits
  <2>3. f.task = command.target \/ f.task = top.task
    BY <1>1, <2>1 DEF NestOnce
  <2>4. f.task # top.task
    <3>1. ASSUME f.task = top.task
          PROVE  FALSE
      <4>1. top.item # f.item /\ top.item = f.task /\ top.item = Steps(f.item)[f.next]
        BY <1>3, <2>1, <3>1 DEF Link, AtOwnTask
      <4>2. top.item \in Ancestors[f.item]
        BY <2>1, <4>1, StepsAreTasks
      <4> QED
        BY <2>1, <2>2, <4>1, <4>2, BeforeIsTransitive, AncestorsAreTasks
    <3> QED
      BY <3>1
  <2> QED
    BY <2>3, <2>4
<1>4. ASSUME AtOwnTask(top), NEW i \in DOMAIN stack, i < n
      PROVE  stack[i].task = command.target
  <2>1. n # 1 /\ n - 1 \in DOMAIN stack /\ i <= n - 1
    BY <1>1, <1>4
  <2> QED
    BY <1>1, <1>3, <1>4, <2>1 DEF NestOnce
<1> QED
  BY <1>1, <1>2, <1>3, <1>4
-----------------------------------------------------------------------------
(* What a step starts from.                                                *)
WalksFrom(S) == TypeInv /\ Going /\ Shape /\ OwnData /\ S \in SUBSET Task /\ Walks(S) /\ Rules # {}

HasScene == TypeInv /\ stack # <<>> /\ stack[1].task = command.target => here \in Scenes
LEMMA SceneHolds == HasScene
  BY HereIsScene DEF HasScene

LEMMA SceneNext == HasScene'
  BY SceneHolds, PTL

LEMMA HereNext ==
    ASSUME TypeInv', stack' # <<>>, stack'[1].task = command'.target
    PROVE  here' \in Scenes
  BY SceneNext DEF HasScene

LEMMA Setting ==
    ASSUME NEW S, WalksFrom(S)
    PROVE  /\ StackOK /\ LinksOK /\ NestOnce /\ stack # <<>> /\ stack[1].task = command.target
           /\ stack \in Seq(Calls)
           /\ Len(stack) \in Nat \ {0} /\ DOMAIN stack = 1 .. Len(stack)
           /\ top = stack[Len(stack)]
           /\ top \in Calls /\ top.task \in Task /\ top.item \in Task
           /\ top.cache \in SUBSET Task
           /\ top.next \in Nat \ {0} /\ Len(Steps(top.item)) \in Nat \ {0}
           /\ \A i \in DOMAIN stack : FrameFits(stack[i], here, S)
           /\ FrameFits(top, here, S)
           /\ Orderly(S, here, busy)
           /\ here \in Scenes
           /\ S \in SUBSET Task
           /\ busy = IF top.task = command.target THEN {} ELSE {top.task}
<1>1. stack # <<>> /\ StackOK /\ stack[1].task = command.target
  BY DEF WalksFrom, Going, TypeInv, Shape
<1>2. Len(stack) \in Nat \ {0} /\ DOMAIN stack = 1 .. Len(stack) /\ top = stack[Len(stack)]
  BY <1>1, TopIsCall DEF top
<1>3. Len(stack) \in DOMAIN stack
  BY <1>2
<1>4. \A i \in DOMAIN stack : FrameFits(stack[i], here, S)
  BY DEF WalksFrom, Walks, FramesFit
<1>5. FrameFits(top, here, S)
  BY <1>2, <1>3, <1>4
<1>6. Len(Steps(top.item)) \in Nat \ {0}
  BY <1>1, TopIsCall, StepsOfWalk
<1>7. top.next \in Nat \ {0}
  BY <1>1, <1>6, TopIsCall
<1> QED
  BY <1>1, <1>2, <1>4, <1>5, <1>6, <1>7, TopIsCall, HereIsScene
     DEF WalksFrom, Walks, busy, Shape, StackOK

LEMMA StillGoing ==
    ASSUME StackOK', stack' # <<>>, Len(stack') # 1
    PROVE  Going'
<1>1. Len(stack') \in Nat /\ DOMAIN stack' = 1 .. Len(stack')
  BY LenProperties DEF StackOK
<1>2. Len(stack') # 0
  BY EmptySeq DEF StackOK
<1>3. NextOK(stack'[1], 1 < Len(stack'))
  BY <1>1, <1>2 DEF StackOK
<1> QED
  BY <1>1, <1>2, <1>3 DEF Going, NextOK

(* What a step that only moves the stack leaves.                           *)
LEMMA StackMoves ==
    ASSUME NEW S, WalksFrom(S), NEW S2 \in SUBSET Task,
           UNCHANGED <<session, disk, clock, ranNow, object, command>>,
           LinksOK', NestOnce', stack'[1].task = stack[1].task, stack'[1].cache = stack[1].cache,
           Orderly(S2, here, busy'), \A i \in DOMAIN stack' : FrameFits(stack'[i], here, S2)
    PROVE  Shape' /\ OwnData' /\ Walks(S2)'
<1>1. here' = here
  BY DEF here, disk, object, Rules
<1>2. Shape' /\ OwnData'
  BY Setting DEF Shape, OwnData, WalksFrom
<1> QED
  BY <1>1, <1>2 DEF Walks, FramesFit

(* The bottom frame after each change of the stack.                        *)
LEMMA BottomStays ==
    ASSUME StackOK, stack # <<>>,
           \/ \E f \in Calls : Top(f) /\ f.task = top.task /\ f.cache = top.cache
           \/ \E f \in Calls : Push(f)
           \/ Len(stack) # 1 /\ Pop
    PROVE  stack'[1].task = stack[1].task /\ stack'[1].cache = stack[1].cache
<1>1. Len(stack) \in Nat \ {0} /\ DOMAIN stack = 1 .. Len(stack) /\ stack \in Seq(Calls)
  BY TopIsCall DEF StackOK
<1>2. ASSUME NEW f \in Calls, Top(f), f.task = top.task, f.cache = top.cache
      PROVE  stack'[1].task = stack[1].task /\ stack'[1].cache = stack[1].cache
  <2>1. Len(stack') = Len(stack) /\ top' = f /\ \A i \in 1 .. Len(stack) - 1 : stack'[i] = stack[i]
    BY <1>1, <1>2, TopChanges
  <2>2. CASE Len(stack) = 1
    BY <1>2, <2>1, <2>2 DEF top
  <2>3. CASE Len(stack) # 1
    BY <1>1, <2>1, <2>3
  <2> QED
    BY <2>2, <2>3
<1>3. ASSUME NEW f \in Calls, Push(f)
      PROVE  stack'[1] = stack[1]
  BY <1>1, <1>3, FramePushed
<1>4. ASSUME Len(stack) # 1, Pop
      PROVE  stack'[1].task = stack[1].task /\ stack'[1].cache = stack[1].cache
  <2> DEFINE n == Len(stack) - 1
  <2>1. /\ n \in Nat \ {0} /\ Len(stack') = n /\ top' = Advanced(stack[n])
        /\ \A i \in 1 .. n - 1 : stack'[i] = stack[i]
    BY <1>1, <1>4, FramePopped
  <2>2. CASE n = 1
    <3>1. stack[1] \in Calls /\ stack'[1] = Advanced(stack[1])
      BY <1>1, <2>1, <2>2, ElementOfSeq DEF top
    <3> QED
      BY <3>1, AdvancedIsCall
  <2>3. CASE n # 1
    BY <2>1, <2>3
  <2> QED
    BY SMTT(30), <2>2, <2>3
<1> QED
  BY <1>2, <1>3, <1>4

(* The walk has passed what comes before the item it is at.                *)
LEMMA BeforeItem ==
    ASSUME NEW S, WalksFrom(S), top.task = command.target, top.next >= Len(Steps(top.item))
    PROVE  Ancestors[top.item] \subseteq S
<1>1. \A x \in S : Ancestors[x] \subseteq S
  BY Setting DEF Orderly, PassedIsQuiet
<1>2. here.target = command.target
  BY DEF here
<1>3. ASSUME NEW p \in ParentsOf(top.item)
      PROVE  p \in S
  <2>1. PICK k \in 1 .. Len(Steps(top.item)) - 1 : p = Steps(top.item)[k]
    BY Setting, StepsOfWalk
  <2>2. k \in 1 .. top.next - 1
    BY <2>1, Setting
  <2> QED
    BY <1>2, <2>1, <2>2, Setting DEF FrameFits
<1> QED
  BY <1>1, <1>3, Setting, BeforeAParent

(* Where a walk that has steps to go stands.                               *)
LEMMA Here ==
    ASSUME NEW S, WalksFrom(S), Walking
    PROVE  /\ reached = Steps(top.item)[top.next] /\ reached \in Task
           /\ reached # top.item => reached \in Ancestors[top.item] /\ top.next < Len(Steps(top.item))
           /\ reached = top.item => top.next = Len(Steps(top.item))
           /\ top.pc = "walk"
<1>1. top.next \in 1 .. Len(Steps(top.item)) /\ top.item \in Task
  BY Setting DEF Walking
<1> QED
  BY <1>1, StepsAreTasks DEF reached, Walking

LEMMA DescendWalks ==
    ASSUME NEW S, WalksFrom(S), Descend
    PROVE  Shape' /\ OwnData' /\ Walks(S)'
<1> DEFINE f == Frame(top.task, reached, top.cache)
<1>1. Walking /\ reached # top.item /\ Push(f)
  BY DEF Descend
<1>2. reached \in Ancestors[top.item] /\ reached \in Task /\ reached = Steps(top.item)[top.next]
  BY <1>1, Here
<1>3. /\ f \in Calls /\ f.task = top.task /\ f.item = reached /\ f.next = 1
      /\ f.cache = top.cache /\ f.pc = "walk"
  BY <1>2, Setting DEF Frame, Calls
<1> HIDE DEF f
<1>4. Link(top, f)
  BY <1>1, <1>2, <1>3 DEF Link
<1>5. f.item \in Ancestors[f.task] \cup {f.task}
  BY <1>2, <1>3, Setting, BeforeIsTransitive DEF FrameFits
<1>6. ~WalkOver(f)
  BY <1>2, <1>3, StepsOfWalk DEF WalkOver
<1>7. FrameFits(f, here, S)
  BY <1>3, <1>5, <1>6, Setting DEF FrameFits
<1>8. command' = command
  BY DEF Descend
<1>9. LinksOK' /\ NestOnce' /\ \A i \in DOMAIN stack' : FrameFits(stack'[i], here, S)
  BY <1>1, <1>3, <1>4, <1>7, <1>8, Setting, PushKeepsShape
<1>10. busy' = busy
  BY <1>1, <1>3, <1>8, Setting, FramePushed DEF busy
<1>11. stack'[1].task = stack[1].task /\ stack'[1].cache = stack[1].cache
  BY <1>1, <1>3, Setting, BottomStays
<1> QED
  BY <1>9, <1>10, <1>11, Setting, StackMoves DEF Descend

(* The loop of the innermost walk goes on, having passed what S2 adds.     *)
LEMMA GoesOn ==
    ASSUME NEW S, WalksFrom(S), NEW S2 \in SUBSET Task, S \subseteq S2,
           Walking, reached = top.item, Top(Advanced(top)),
           UNCHANGED <<session, disk, clock, ranNow, object, command>>,
           top.item # command.target,
           AtOwnTask(top) => top.task \notin Flagged \/ top.task \in top.cache,
           top.task = command.target => top.item \in S2,
           Orderly(S2, here, busy)
    PROVE  Shape' /\ OwnData' /\ Walks(S2)'
<1> DEFINE f == Advanced(top)
<1>1. /\ f \in Calls /\ f.next = top.next + 1 /\ f.task = top.task /\ f.item = top.item
      /\ f.cache = top.cache /\ f.pc = "walk"
      /\ top.next = Len(Steps(top.item)) /\ top.item = Steps(top.item)[top.next]
      /\ Top(f) /\ command' = command
  BY Setting, AdvancedIsCall, Here
<1> HIDE DEF f
<1>2. FrameFits(f, here, S2)
  <2>1. ASSUME f.task = here.target, NEW k \in 1 .. f.next - 1
        PROVE  Steps(f.item)[k] \in S2
    <3>1. here.target = command.target
      BY DEF here
    <3>2. CASE k = top.next
      BY <1>1, <2>1, <3>1, <3>2
    <3>3. CASE k # top.next
      <4>1. k \in 1 .. top.next - 1
        BY <1>1, <2>1, <3>3, Setting
      <4> QED
        BY <1>1, <2>1, <4>1, Setting DEF FrameFits
    <3> QED
      BY <3>2, <3>3
  <2>2. AtOwnTask(f) => f.task \notin Flagged \/ f.task \in f.cache
    BY <1>1 DEF AtOwnTask
  <2> QED
    BY <1>1, <2>1, <2>2, Setting DEF FrameFits
<1>3. ASSUME NEW i \in DOMAIN stack
      PROVE  FrameFits(stack[i], here, S2)
  BY Setting DEF FrameFits
<1>4. LinksOK' /\ NestOnce' /\ \A i \in DOMAIN stack' : FrameFits(stack'[i], here, S2)
  <2>1. \A i \in 1 .. Len(stack) - 1 : FrameFits(stack[i], here, S2)
    BY <1>3, Setting
  <2> QED
    BY <1>1, <1>2, <2>1, Setting, TopKeepsShape
<1>5. busy' = busy
  BY <1>1, Setting, TopChanges DEF busy
<1>6. stack'[1].task = stack[1].task /\ stack'[1].cache = stack[1].cache
  BY <1>1, Setting, BottomStays
<1> QED
  BY <1>4, <1>5, <1>6, StackMoves

(* The command's own walk comes to its target only in its first frame.     *)
LEMMA AtTarget ==
    ASSUME NEW S, WalksFrom(S), top.item = command.target
    PROVE  top.task = command.target /\ Len(stack) = 1 /\ top = stack[1]
<1>1. top.task = command.target
  <2>1. ASSUME top.task # command.target
        PROVE  FALSE
    <3>1. busy = {top.task}
      BY <2>1, Setting
    <3>2. NestedOK(S, here, top.task)
      BY <3>1, Setting DEF Orderly
    <3>3. top.task \in Ancestors[command.target]
      BY <3>2 DEF NestedOK, here
    <3>4. command.target \in Ancestors[top.task]
      BY <2>1, Setting DEF FrameFits
    <3> QED
      BY <3>3, <3>4, Setting, BeforeIsTransitive, AncestorsAreTasks, HereIsScene
         DEF WalksFrom
  <2> QED
    BY <2>1
<1>2. AtOwnTask(top)
  BY <1>1 DEF AtOwnTask
<1>3. Len(stack) = 1
  BY <1>1, <1>2, Setting, OwnFrames DEF WalksFrom, Walks
<1> QED
  BY <1>1, <1>3, Setting

LEMMA SkipItemWalks ==
    ASSUME NEW S, WalksFrom(S), SkipItem, top.item # command.target
    PROVE  Shape' /\ OwnData' /\ \E S2 \in SUBSET Task : Walks(S2)'
<1>1. top.item \notin Flagged \/ top.item \in top.cache
  BY DEF SkipItem
<1>2. /\ Walking /\ reached = top.item /\ Top(Advanced(top))
      /\ UNCHANGED <<session, disk, clock, ranNow, object, command>>
      /\ (AtOwnTask(top) => top.task \notin Flagged \/ top.task \in top.cache)
  BY DEF SkipItem, AtOwnTask
<1>3. CASE top.task # command.target
  <2>1. Walks(S)' /\ Shape' /\ OwnData'
    BY <1>2, <1>3, Setting, GoesOn
  <2> QED
    BY <2>1, Setting
<1>4. CASE top.task = command.target
  <2>1. busy = {} /\ Orderly(S, here, {})
    BY <1>4, Setting
  <2>2. Ancestors[top.item] \subseteq S
    BY <1>2, <1>4, Here, BeforeItem, Setting
  <2>3. /\ here.target = command.target /\ here.copy = top.cache
        /\ top.item \in Ancestors[here.target]
    BY <1>4, Setting DEF FrameFits, here
  <2>4. Quiet(top.item, here)
    BY <1>1, <2>1, <2>3 DEF SkipItem, Quiet, Orderly, CacheKnows
  <2>5. PICK S2 : S2 = S \cup {top.item}
    OBVIOUS
  <2>6. Orderly(S2, here, busy)
    BY <2>1, <2>2, <2>3, <2>4, <2>5, Setting, PassesQuiet
  <2>7. S2 \in SUBSET Task /\ S \subseteq S2 /\ top.item \in S2
    BY <2>5, Setting
  <2>8. Walks(S2)' /\ Shape' /\ OwnData'
    BY <1>2, <2>6, <2>7, GoesOn
  <2> QED
    BY <2>7, <2>8
<1> QED
  BY <1>3, <1>4

LEMMA CurrentHere ==
    ASSUME TypeInv, NEW x \in Task
    PROVE  StampIsCurrent(x) <=> CurrentIn(x, here)
<1>1. here.stamp = stamp /\ stamp[x] \in Nat
  BY DEF here, TypeInv, RestOK
<1> QED
  BY <1>1 DEF StampIsCurrent, CurrentIn

LEMMA ExecNestedWalks ==
    ASSUME NEW S, WalksFrom(S), ExecNested
    PROVE  Shape' /\ OwnData' /\ \E S2 \in SUBSET Task : Walks(S2)'
<1>1. /\ Walking /\ reached = top.item /\ top.item \in Flagged \ top.cache
      /\ top.item # top.task
      /\ UNCHANGED <<session, disk, clock, ranNow, object, command>>
      /\ here.target = command.target /\ here.copy = stack[1].cache
      /\ here.mem = cache[command.via] /\ here.forced = forced[command.via]
      /\ command' = command
  BY DEF ExecNested, here
<1>2. top.item # command.target
  BY <1>1, AtTarget
<1>3. StampIsCurrent(top.item) <=> CurrentIn(top.item, here)
  BY Setting, CurrentHere DEF WalksFrom
<1>4. ~AtOwnTask(top)
  BY <1>1 DEF AtOwnTask
<1>5. CASE top.task # command.target
  <2>1. busy = {top.task} /\ Orderly(S, here, {top.task}) /\ top.cache = here.mem
    <3>1. top.cache = here.mem
      BY <1>1, <1>5, Setting DEF FrameFits
    <3> QED
      BY <1>5, <3>1, Setting
  <2>2. top.item \in (Ancestors[top.task] \cap Flagged) \ here.mem
    BY <1>1, <2>1, Setting DEF FrameFits
  <2>3. top.item \notin here.forced /\ CurrentIn(top.item, here)
    BY <2>1, <2>2, Setting, NestedFindsNothing
  <2>4. Top(Advanced(top))
    BY <1>1, <1>3, <2>3 DEF ExecNested
  <2>5. Walks(S)' /\ Shape' /\ OwnData'
    BY <1>1, <1>2, <1>4, <1>5, <2>4, Setting, GoesOn
  <2> QED
    BY <2>5, Setting
<1>6. ASSUME top.task = command.target
      PROVE  /\ Orderly(S, here, {}) /\ busy = {}
             /\ Ancestors[top.item] \subseteq S
             /\ top.item \in (Ancestors[here.target] \cap Flagged) \ here.copy
  <2>1. Orderly(S, here, {}) /\ busy = {}
    BY <1>6, Setting
  <2>2. Ancestors[top.item] \subseteq S
    BY <1>1, <1>6, Here, BeforeItem, Setting
  <2>3. top.item \in (Ancestors[here.target] \cap Flagged) \ here.copy
    BY <1>1, <1>6, Setting DEF FrameFits
  <2> QED
    BY <2>1, <2>2, <2>3
<1>7. CASE /\ top.task = command.target
           /\ top.item \notin forced[command.via] /\ StampIsCurrent(top.item)
  <2>1. Quiet(top.item, here)
    BY <1>1, <1>3, <1>7 DEF Quiet
  <2>2. PICK S2 : S2 = S \cup {top.item}
    OBVIOUS
  <2>3. Orderly(S2, here, busy)
    <3>1. /\ Orderly(S, here, {}) /\ busy = {} /\ Ancestors[top.item] \subseteq S
          /\ top.item \in Ancestors[here.target]
      BY <1>6, <1>7
    <3>2. here \in Scenes /\ S \in SUBSET Task
      BY Setting
    <3> QED
      BY <2>1, <2>2, <3>1, <3>2, PassesQuiet
  <2>4. S2 \in SUBSET Task /\ S \subseteq S2 /\ top.item \in S2
    BY <2>2, Setting
  <2>5. Top(Advanced(top))
    BY <1>7 DEF ExecNested
  <2>6. Walks(S2)' /\ Shape' /\ OwnData'
    BY <1>1, <1>2, <1>4, <2>3, <2>4, <2>5, GoesOn
  <2> QED
    BY <2>4, <2>6
<1>8. CASE /\ top.task = command.target
           /\ ~(top.item \notin forced[command.via] /\ StampIsCurrent(top.item))
  <2> DEFINE f == Frame(top.item, top.item, cache[command.via])
  <2>1. Push(f)
    BY <1>8 DEF ExecNested
  <2>2. cache[command.via] \in SUBSET Task
    BY DEF WalksFrom, TypeInv, RestOK
  <2>3. /\ f \in Calls /\ f.task = top.item /\ f.item = top.item /\ f.next = 1
        /\ f.cache = here.mem /\ f.pc = "walk"
    BY <1>1, <2>2, Setting DEF Frame, Calls
  <2> HIDE DEF f
  <2>4. Link(top, f)
    BY <1>1, <2>3, Here DEF Link
  <2>5. ~WalkOver(f)
    BY <2>3, Setting, StepsOfWalk DEF WalkOver
  <2>6. FrameFits(f, here, S)
    BY <1>1, <1>2, <2>3, <2>5 DEF FrameFits
  <2>7. LinksOK' /\ NestOnce' /\ \A i \in DOMAIN stack' : FrameFits(stack'[i], here, S)
    BY <1>1, <1>8, <2>1, <2>3, <2>4, <2>6, Setting, PushKeepsShape
  <2>8. busy' = {top.item}
    BY <1>1, <1>2, <2>1, <2>3, Setting, FramePushed DEF busy
  <2>9. Orderly(S, here, {top.item})
    <3>1. here.rules # {}
      BY DEF here, WalksFrom
    <3>2. top.item \in here.forced \/ ~CurrentIn(top.item, here)
      BY <1>1, <1>3, <1>8
    <3> QED
      BY <1>6, <1>8, <3>1, <3>2, Setting, NestedStarts
  <2>10. stack'[1].task = stack[1].task /\ stack'[1].cache = stack[1].cache
    BY <2>1, <2>3, Setting, BottomStays
  <2>11. Walks(S)' /\ Shape' /\ OwnData'
    BY <1>1, <2>7, <2>8, <2>9, <2>10, Setting, StackMoves
  <2> QED
    BY <2>11, Setting
<1> QED
  BY <1>5, <1>7, <1>8

LEMMA StartFuncWalks ==
    ASSUME NEW S, WalksFrom(S), StartFunc
    PROVE  Shape' /\ OwnData' /\ Walks(S)'
<1> DEFINE f == [top EXCEPT !.pc = "func"]
<1>1. /\ Walking /\ reached = top.item /\ top.item \in Flagged \ top.cache
      /\ top.item = top.task /\ Top(f) /\ command' = command
      /\ UNCHANGED <<session, disk, clock, ranNow, object, command>>
  BY DEF StartFunc
<1>2. /\ f \in Calls /\ f.item = top.item /\ f.task = top.task /\ f.next = top.next
      /\ f.cache = top.cache /\ f.pc = "func"
  BY Setting DEF Calls
<1> HIDE DEF f
<1>3. top.next = Len(Steps(top.item))
  BY <1>1, Here
<1>4. FrameFits(f, here, S)
  BY <1>1, <1>2, <1>3, Setting DEF FrameFits, AtOwnTask, WalkOver
<1>5. \A i \in 1 .. Len(stack) - 1 : FrameFits(stack[i], here, S)
  BY Setting
<1>6. LinksOK' /\ NestOnce' /\ \A i \in DOMAIN stack' : FrameFits(stack'[i], here, S)
  BY <1>1, <1>2, <1>4, <1>5, Setting, TopKeepsShape
<1>7. busy' = busy
  BY <1>1, <1>2, Setting, TopChanges DEF busy
<1>8. stack'[1].task = stack[1].task /\ stack'[1].cache = stack[1].cache
  BY <1>1, <1>2, Setting, BottomStays
<1> QED
  BY <1>1, <1>6, <1>7, <1>8, Setting, StackMoves

(* A walk returns to the walk that called it.                              *)
LEMMA WalkReturnsWalks ==
    ASSUME NEW S, WalksFrom(S), WalkReturns
    PROVE  Shape' /\ OwnData' /\ Walks(S)'
<1> DEFINE n == Len(stack) - 1
           f == Advanced(stack[n])
<1>1. /\ top.pc = "walk" /\ WalkOver(top) /\ top.item # top.task /\ Pop
      /\ command' = command
      /\ UNCHANGED <<session, disk, clock, ranNow, object, command>>
  BY DEF WalkReturns, WalkOver
<1>2. Len(stack) # 1
  BY <1>1, TopIsCall DEF AtOwnTask, WalksFrom, TypeInv, Going
<1>3. /\ n \in Nat \ {0} /\ n \in DOMAIN stack /\ n < Len(stack)
      /\ stack[n] \in Calls /\ stack[n].task \in Task /\ stack[n].item \in Task
      /\ stack[n].pc = "walk" /\ stack[n].next \in 1 .. Len(Steps(stack[n].item))
      /\ top.item = Steps(stack[n].item)[stack[n].next]
      /\ top.item # stack[n].item /\ top.task = stack[n].task
      /\ FrameFits(stack[n], here, S)
  BY <1>1, <1>2, Setting, Below DEF Link
<1>4. /\ f.next = stack[n].next + 1 /\ f.task = stack[n].task /\ f.item = stack[n].item
      /\ f.cache = stack[n].cache /\ f.pc = stack[n].pc
  BY <1>3, AdvancedIsCall
<1>5. top.task = command.target => top.item \in S
  <2>1. Len(Steps(top.item)) \in 1 .. top.next - 1
    BY <1>1, Setting DEF WalkOver
  <2>2. here.target = command.target
    BY DEF here
  <2> QED
    BY <2>1, <2>2, Setting, StepsOfWalk DEF FrameFits
<1> HIDE DEF f
<1>6. FrameFits(f, here, S)
  <2>1. stack[n].next # Len(Steps(stack[n].item))
    BY <1>3, StepsAreTasks
  <2>2. ~WalkOver(f)
    BY <1>3, <1>4, <2>1, StepsOfWalk DEF WalkOver
  <2>3. ASSUME f.task = here.target, NEW k \in 1 .. f.next - 1
        PROVE  Steps(f.item)[k] \in S
    <3>1. here.target = command.target
      BY DEF here
    <3>2. CASE k = stack[n].next
      BY <1>3, <1>4, <1>5, <2>3, <3>1, <3>2
    <3>3. CASE k # stack[n].next
      <4>1. k \in 1 .. stack[n].next - 1
        BY <1>3, <1>4, <2>3, <3>3
      <4> QED
        BY <1>3, <1>4, <2>3, <4>1 DEF FrameFits
    <3> QED
      BY <3>2, <3>3
  <2> HIDE DEF n
  <2> QED
    BY <1>3, <1>4, <2>2, <2>3 DEF FrameFits
<1>7. \A i \in DOMAIN stack : i < n => FrameFits(stack[i], here, S)
  BY Setting
<1>8. LinksOK' /\ NestOnce' /\ \A i \in DOMAIN stack' : FrameFits(stack'[i], here, S)
  BY <1>1, <1>2, <1>6, <1>7, Setting, PopKeepsShape DEF f
<1>9. busy' = busy
  BY <1>1, <1>2, <1>3, <1>4, Setting, FramePopped DEF busy, f
<1>10. stack'[1].task = stack[1].task /\ stack'[1].cache = stack[1].cache
  BY <1>1, <1>2, Setting, BottomStays
<1> QED
  BY <1>1, <1>8, <1>9, <1>10, Setting, StackMoves
-----------------------------------------------------------------------------
LEMMA Remembering ==
    ASSUME NEW g \in Calls, NEW t \in Task, g.task = t
    PROVE  LET f == [Advanced(g) EXCEPT !.cache = @ \cup {t}, !.pc = "walk"]
           IN  /\ f \in Calls /\ f.item = g.item /\ f.task = t /\ f.next = g.next + 1
               /\ f.cache = g.cache \cup {t} /\ f.pc = "walk"
<1>1. PICK h \in Calls : h = Advanced(g)
  BY AdvancedIsCall
<1>2. /\ h.next = g.next + 1 /\ h.task = t /\ h.item = g.item
      /\ h.cache = g.cache
  BY <1>1, AdvancedIsCall
<1> QED
  BY <1>1, <1>2 DEF Calls

(* A function completes: in a nested exec_task, or the command's own.      *)
LEMMA FuncTop ==
    ASSUME NEW S, WalksFrom(S), Running
    PROVE  /\ top.pc = "func" /\ AtOwnTask(top) /\ top.next = Len(Steps(top.item))
           /\ top.task \in Flagged \ top.cache
           /\ \A i \in DOMAIN stack : i < Len(stack) => stack[i].task = command.target
           /\ top.task = command.target =>
                /\ Len(stack) = 1 /\ top = stack[1] /\ here.copy = top.cache
                /\ Ancestors[command.target] \subseteq S
                /\ Orderly(S, here, {}) /\ busy = {}
           /\ top.task # command.target =>
                Len(stack) # 1 /\ top.cache = cache[command.via] /\ Orderly(S, here, {top.task})
<1>1. top.pc = "func"
  BY DEF Running
<1>2. AtOwnTask(top) /\ top.next = Len(Steps(top.item)) /\ top.task \in Flagged \ top.cache
  BY <1>1, Setting DEF FrameFits
<1>3. /\ top.task = command.target => Len(stack) = 1
      /\ \A i \in DOMAIN stack : i < Len(stack) => stack[i].task = command.target
  BY <1>2, Setting, OwnFrames DEF WalksFrom, Walks
<1>4. top.task = command.target =>
                /\ Len(stack) = 1 /\ top = stack[1] /\ here.copy = top.cache
                /\ Ancestors[command.target] \subseteq S
                /\ Orderly(S, here, {}) /\ busy = {}
  <2> SUFFICES ASSUME top.task = command.target
               PROVE  /\ Len(stack) = 1 /\ top = stack[1] /\ here.copy = top.cache
                      /\ Ancestors[command.target] \subseteq S
                      /\ Orderly(S, here, {}) /\ busy = {}
    OBVIOUS
  <2>1. Len(stack) = 1 /\ top = stack[1]
    BY <1>3, Setting
  <2>2. Orderly(S, here, {}) /\ busy = {}
    BY Setting
  <2>3. top.next >= Len(Steps(top.item)) /\ top.item = command.target
    BY <1>2, Setting DEF AtOwnTask
  <2> QED
    BY <2>1, <2>2, <2>3, BeforeItem DEF here
<1>5. top.task # command.target =>
                Len(stack) # 1 /\ top.cache = cache[command.via] /\ Orderly(S, here, {top.task})
  <2> SUFFICES ASSUME top.task # command.target
               PROVE  Len(stack) # 1 /\ top.cache = cache[command.via] /\ Orderly(S, here, {top.task})
    OBVIOUS
  <2>1. Len(stack) # 1 /\ Orderly(S, here, {top.task})
    BY Setting
  <2>2. here.target = command.target /\ here.mem = cache[command.via]
    BY DEF here
  <2>3. top.cache = here.mem
    BY <2>2, Setting DEF FrameFits
  <2> QED
    BY <2>1, <2>2, <2>3
<1> QED
  BY <1>1, <1>2, <1>3, <1>4, <1>5

LEMMA FuncSucceedsNested ==
    ASSUME NEW S, WalksFrom(S), TypeInv', FuncSucceeds, top.task # command.target
    PROVE  Shape' /\ OwnData' /\ Walks(S)'
<1>1. PICK t \in Task : t = top.task
  BY Setting
<1> DEFINE f == [Advanced(top) EXCEPT !.cache = @ \cup {t}, !.pc = "walk"]
<1>2. /\ Running /\ Top(f) /\ top.task # Cleaner
      /\ cache' = [cache EXCEPT ![command.via] = top.cache \cup {t}]
      /\ clock' \in {clock, clock + 1} /\ (~session.instant => clock' = clock + 1)
      /\ newer' = (newer \ (Task \X {t})) \cup ({t} \X (done \ {t}))
      /\ ranNow' = ranNow \cup {t}
      /\ session' = session /\ stamp' = stamp /\ forced' = forced /\ command' = command
  BY <1>1 DEF FuncSucceeds, Remember
<1>3. /\ AtOwnTask(top) /\ top.next = Len(Steps(top.item)) /\ t \in Flagged \ top.cache
      /\ Len(stack) # 1 /\ top.cache = cache[command.via] /\ Orderly(S, here, {t})
      /\ \A i \in DOMAIN stack : i < Len(stack) => stack[i].task = command.target
  BY <1>1, <1>2, FuncTop
<1>4. /\ f \in Calls /\ f.item = top.item /\ f.task = top.task /\ f.next = top.next + 1
      /\ f.cache = top.cache \cup {t} /\ f.pc = "walk"
  <2>1. top \in Calls /\ top.task = t
    BY <1>1, Setting
  <2> QED
    BY ZenonT(60), <2>1, Remembering
<1> HIDE DEF f
<1>5. /\ Len(stack') = Len(stack) /\ top' = f /\ stack'[1] = stack[1] /\ stack' # <<>>
      /\ stack' \in Seq(Calls)
  BY <1>2, <1>3, <1>4, Setting, TopChanges
<1>6. PICK w \in Scenes : w = here
  BY Setting
<1>7. PICK v : v = here'
  OBVIOUS
<1>8. /\ w.stamp = stamp /\ w.clock = clock /\ w.newer = newer /\ w.ran = ranNow
      /\ w.mem = cache[command.via] /\ w.copy = stack[1].cache
      /\ w.forced = forced[command.via] /\ w.target = command.target /\ w.rules = Rules
  BY <1>6 DEF here
<1>9. cache'[command.via] = cache[command.via] \cup {t}
  BY <1>2, <1>3 DEF WalksFrom, TypeInv, RestOK
<1>10. /\ v.stamp = w.stamp /\ v.clock = clock' /\ v.newer = newer'
       /\ v.ran = w.ran \cup {t} /\ v.mem = w.mem \cup {t} /\ v.copy = w.copy
       /\ v.forced = w.forced /\ v.target = w.target /\ v.rules = w.rules
  <2>1. Rules' = Rules
    BY <1>2 DEF Rules
  <2> QED
    BY <1>2, <1>5, <1>7, <1>8, <1>9, <2>1 DEF here
<1>11. \A p, q \in Task : <<p, q>> \in v.newer => q # t /\ (<<p, q>> \in w.newer \/ p = t)
  BY <1>2, <1>8, <1>10
<1>12. v \in Scenes
  <2>1. command' = command /\ stack'[1].task = command'.target
    BY <1>2, <1>5, Setting
  <2> QED
    BY <1>5, <1>7, HereNext, <2>1
<1>13. Orderly(S, v, {t})
  <2>1. t \notin w.mem /\ (v.clock = w.clock \/ v.clock = w.clock + 1)
    BY <1>2, <1>3, <1>8, <1>10
  <2>2. "slow" \in w.rules => v.clock = w.clock + 1
    BY <1>2, <1>8, <1>10 DEF Rules
  <2>3. S \in SUBSET Task /\ Orderly(S, w, {t})
    BY <1>3, <1>6, Setting
  <2> QED
    BY <1>10, <1>11, <1>12, <2>1, <2>2, <2>3, NestedRuns
<1>14. FrameFits(f, v, S)
  <2>1. f.task # v.target /\ f.cache = v.mem
    BY <1>1, <1>3, <1>4, <1>8, <1>10
  <2>2. f.task \in f.cache
    BY <1>1, <1>4
  <2> QED
    BY <1>4, <2>1, <2>2, Setting DEF FrameFits
<1>15. \A i \in 1 .. Len(stack) - 1 : FrameFits(stack[i], v, S)
  BY <1>3, <1>6, <1>8, <1>10, Setting DEF FrameFits
<1>16. LinksOK' /\ NestOnce' /\ \A i \in DOMAIN stack' : FrameFits(stack'[i], v, S)
  BY <1>2, <1>4, <1>14, <1>15, Setting, TopKeepsShape
<1>17. busy' = {t}
  BY <1>1, <1>2, <1>4, <1>5 DEF busy
<1>18. Walks(S)'
  BY <1>7, <1>13, <1>16, <1>17 DEF Walks, FramesFit
<1>19. Shape' /\ OwnData'
  BY <1>2, <1>5, <1>16, Setting DEF Shape, OwnData, WalksFrom
<1> QED
  BY <1>18, <1>19

(* The command's own walk is over.                                         *)
Ends == Shape' /\ ~Going' /\ (~session.keepsData => EndsWell(here'))

LEMMA FuncSucceedsOwn ==
    ASSUME NEW S, WalksFrom(S), TypeInv', FuncSucceeds, top.task = command.target
    PROVE  Ends
<1>1. PICK t \in Task : t = top.task
  BY Setting
<1> DEFINE f == [Advanced(top) EXCEPT !.cache = @ \cup {t}, !.pc = "walk"]
<1>2. /\ Running /\ Top(f) /\ top.task # Cleaner
      /\ clock' \in {clock, clock + 1} /\ (~session.instant => clock' = clock + 1)
      /\ newer' = (newer \ (Task \X {t})) \cup ({t} \X (done \ {t}))
      /\ ranNow' = ranNow \cup {t}
      /\ session' = session /\ stamp' = stamp /\ forced' = forced /\ command' = command
  BY <1>1 DEF FuncSucceeds, Remember
<1>3. /\ AtOwnTask(top) /\ top.next = Len(Steps(top.item))
      /\ Len(stack) = 1 /\ top = stack[1] /\ here.copy = top.cache
      /\ Ancestors[t] \subseteq S /\ Orderly(S, here, {})
  BY <1>1, <1>2, FuncTop
<1>4. /\ f \in Calls /\ f.item = top.item /\ f.task = top.task /\ f.next = top.next + 1
      /\ f.cache = top.cache \cup {t} /\ f.pc = "walk"
  <2>1. top \in Calls /\ top.task = t
    BY <1>1, Setting
  <2> QED
    BY ZenonT(60), <2>1, Remembering
<1> HIDE DEF f
<1>5. /\ top' = f /\ stack'[1] = f /\ stack' # <<>> /\ Len(stack') = 1 /\ DOMAIN stack' = {1}
  <2>1. Len(stack') = Len(stack) /\ top' = f /\ stack' # <<>> /\ stack' \in Seq(Calls)
    BY <1>2, <1>4, Setting, TopChanges
  <2> QED
    BY <1>3, <2>1, LenProperties DEF top
<1>6. Shape' /\ ~Going'
  BY <1>1, <1>2, <1>3, <1>4, <1>5, Setting DEF Shape, NestOnce, LinksOK, Going, WalkOver
<1>7. ASSUME ~session.keepsData
      PROVE  EndsWell(here')
  <2>1. PICK w \in Scenes : w = here
    BY Setting
  <2>2. PICK v : v = here'
    OBVIOUS
  <2>3. /\ w.stamp = stamp /\ w.clock = clock /\ w.newer = newer /\ w.ran = ranNow
        /\ w.copy = stack[1].cache /\ w.forced = forced[command.via]
        /\ w.target = command.target /\ w.rules = Rules
    BY <2>1 DEF here
  <2>4. /\ v.stamp = w.stamp /\ v.clock = clock' /\ v.newer = newer'
        /\ v.ran = w.ran \cup {t}
        /\ v.forced = w.forced /\ v.target = w.target /\ v.rules = w.rules
    <3>1. Rules' = Rules
      BY <1>2 DEF Rules
    <3> QED
      BY <1>2, <2>2, <2>3, <3>1 DEF here
  <2>5. v \in Scenes
    BY <1>1, <1>2, <1>4, <1>5, <2>2, HereNext
  <2>6. \A p, q \in Task : <<p, q>> \in v.newer => q # t /\ (<<p, q>> \in w.newer \/ p = t)
    BY <1>2, <2>3, <2>4
  <2>7. w.target = t /\ w.copy = {} /\ "unforced" \in w.rules
    BY <1>1, <1>7, <2>3 DEF Rules, WalksFrom, OwnData
  <2>8. (v.clock = w.clock \/ v.clock = w.clock + 1) /\ ("slow" \in w.rules => v.clock = w.clock + 1)
    BY <1>2, <2>3, <2>4 DEF Rules
  <2>9. S \in SUBSET Task /\ Orderly(S, w, {}) /\ Ancestors[w.target] \subseteq S
    BY <1>3, <2>1, <2>7, Setting
  <2> QED
    BY <2>2, <2>4, <2>5, <2>6, <2>7, <2>8, <2>9, TargetRuns
<1> QED
  BY <1>6, <1>7 DEF Ends

LEMMA SkipTarget ==
    ASSUME NEW S, WalksFrom(S), SkipItem, top.item = command.target
    PROVE  Ends
<1> DEFINE f == Advanced(top)
<1>1. /\ Walking /\ reached = top.item /\ Top(f)
      /\ UNCHANGED <<session, disk, clock, ranNow, object, command>>
      /\ top.item \notin Flagged \/ top.item \in top.cache
  BY DEF SkipItem
<1>2. /\ top.task = command.target /\ Len(stack) = 1 /\ top = stack[1] /\ busy = {}
      /\ here.copy = top.cache
  BY AtTarget, Setting DEF here
<1>3. /\ f \in Calls /\ f.item = top.item /\ f.task = top.task /\ f.next = top.next + 1
      /\ f.cache = top.cache
      /\ top.next = Len(Steps(top.item))
  BY <1>1, Setting, AdvancedIsCall, Here
<1> HIDE DEF f
<1>4. /\ top' = f /\ stack'[1] = f /\ stack' # <<>> /\ Len(stack') = 1 /\ DOMAIN stack' = {1}
  <2>1. Len(stack') = Len(stack) /\ top' = f /\ stack' # <<>> /\ stack' \in Seq(Calls)
    BY <1>1, <1>3, Setting, TopChanges
  <2> QED
    BY <1>2, <2>1, LenProperties DEF top
<1>5. Shape' /\ ~Going'
  BY <1>1, <1>2, <1>3, <1>4, Setting DEF Shape, NestOnce, LinksOK, Going, WalkOver
<1>6. ASSUME ~session.keepsData
      PROVE  EndsWell(here')
  <2>1. here' = here
    BY <1>1, <1>2, <1>3, <1>4 DEF here, disk, object, Rules
  <2>2. here.copy = {} /\ "unforced" \in here.rules /\ here.target = command.target
    BY <1>2, <1>6 DEF here, Rules, WalksFrom, OwnData
  <2>3. here.target \notin Flagged
    BY <1>1, <1>2, <2>2
  <2>4. Ancestors[here.target] \subseteq S
    BY <1>2, <1>3, <2>2, BeforeItem, Setting
  <2> QED
    BY <1>2, <2>1, <2>2, <2>3, <2>4, Setting, TargetSkipped
<1> QED
  BY <1>5, <1>6 DEF Ends

(* do_clean is the command's own task: it runs after none.                 *)
LEMMA CleanIsTarget ==
    ASSUME NEW S, WalksFrom(S), top.task = Cleaner, top.pc # "walk"
    PROVE  /\ top.task = command.target /\ Len(stack) = 1 /\ top = stack[1]
           /\ AtOwnTask(top) /\ top.next = Len(Steps(top.item))
           /\ busy = {} /\ S = {} /\ ranNow = {} /\ Orderly(S, here, {})
<1>1. here.target = command.target /\ here.ran = ranNow
  BY DEF here
<1>2. top.task = command.target
  <2>1. ASSUME top.task # command.target
        PROVE  FALSE
    <3>1. busy = {top.task}
      BY <2>1, Setting
    <3>2. NestedOK(S, here, top.task)
      BY <3>1, Setting DEF Orderly
    <3>3. command.target \in Task
      BY HereIsScene, Setting DEF WalksFrom
    <3> QED
      BY <1>1, <3>2, <3>3, CleanerIsAlone DEF NestedOK
  <2> QED
    BY <2>1
<1>3. AtOwnTask(top) /\ top.next = Len(Steps(top.item))
  BY Setting DEF FrameFits
<1>4. Len(stack) = 1
  BY <1>2, <1>3, Setting, OwnFrames DEF WalksFrom, Walks
<1>5. busy = {} /\ Orderly(S, here, {})
  BY <1>2, Setting
<1>6. S = {}
  BY <1>1, <1>2, <1>5, CleanerIsAlone DEF Orderly, PassedIsQuiet
<1>7. ranNow = {}
  BY <1>1, <1>5, <1>6 DEF Orderly, CacheKnows
<1> QED
  BY <1>2, <1>3, <1>4, <1>5, <1>6, <1>7, Setting

LEMMA CleanWorkdirWalks ==
    ASSUME NEW S, WalksFrom(S), CleanWorkdir, TypeInv'
    PROVE  Shape' /\ OwnData' /\ Walks(S)'
<1> DEFINE f == [top EXCEPT !.pc = "wiped"]
<1>1. /\ Running /\ top.task = Cleaner /\ Top(f) /\ newer' = {}
      /\ UNCHANGED <<session, stamp, clock, ranNow, object, command>>
  BY DEF CleanWorkdir
<1>2. top.pc = "func"
  BY <1>1 DEF Running
<1>3. /\ top.task = command.target /\ Len(stack) = 1 /\ top = stack[1]
      /\ AtOwnTask(top) /\ top.next = Len(Steps(top.item))
      /\ busy = {} /\ S = {} /\ ranNow = {} /\ Orderly(S, here, {})
  BY <1>1, <1>2, CleanIsTarget
<1>4. /\ f \in Calls /\ f.item = top.item /\ f.task = top.task /\ f.next = top.next
      /\ f.cache = top.cache /\ f.pc = "wiped"
  BY Setting DEF Calls
<1> HIDE DEF f
<1>5. /\ top' = f /\ stack'[1] = f /\ stack' # <<>>
  <2>1. Len(stack') = Len(stack) /\ top' = f /\ stack' # <<>> /\ stack' \in Seq(Calls)
    BY <1>1, <1>4, Setting, TopChanges
  <2> QED
    BY <1>3, <2>1 DEF top
<1>6. PICK w \in Scenes : w = here /\ Orderly(S, w, {})
  BY <1>3, Setting
<1>7. PICK v : v = here'
  OBVIOUS
<1>8. /\ w.stamp = stamp /\ w.clock = clock /\ w.newer = newer /\ w.ran = ranNow
      /\ w.mem = cache[command.via] /\ w.copy = stack[1].cache
      /\ w.forced = forced[command.via] /\ w.target = command.target /\ w.rules = Rules
  BY <1>6 DEF here
<1>9. /\ v.stamp = w.stamp /\ v.clock = w.clock /\ v.newer = {}
      /\ v.ran = {} /\ v.mem = w.mem /\ v.copy = w.copy
      /\ v.forced = w.forced /\ v.target = w.target /\ v.rules = w.rules
  <2>1. Rules' = Rules
    BY <1>1 DEF Rules
  <2> QED
    BY <1>1, <1>3, <1>4, <1>5, <1>7, <1>8, <2>1 DEF here, object
<1>10. v \in Scenes
  BY <1>1, <1>3, <1>4, <1>5, <1>7, HereNext
<1>11. Orderly(S, v, {})
  <2>1. Orderly(S, w, {}) /\ w.ran = {}
    BY <1>3, <1>6, <1>8
  <2>2. v.mem = v.copy
    <3>1. w.mem \subseteq w.copy /\ w.copy \subseteq w.mem
      BY <2>1 DEF Orderly, CacheKnows
    <3>2. w.mem = w.copy
      BY <3>1
    <3> QED
      BY <1>9, <3>2
  <2>3. "unforced" \in v.rules => v.forced \subseteq {v.target}
    BY <1>9, <2>1 DEF Orderly, Unforced
  <2>4. \A x \in Task : v.stamp[x] <= v.clock
    BY <1>9, <2>1 DEF Orderly
  <2> QED
    BY <1>3, <1>9, <1>10, <2>2, <2>3, <2>4, CommandStarts
<1>12. FrameFits(f, v, S)
  BY <1>1, <1>2, <1>3, <1>4, <1>6, <1>9, Setting DEF FrameFits, AtOwnTask, WalkOver
<1>13. LinksOK' /\ NestOnce' /\ \A i \in DOMAIN stack' : FrameFits(stack'[i], v, S)
  <2>1. \A i \in 1 .. Len(stack) - 1 : FrameFits(stack[i], v, S)
    BY <1>3
  <2> QED
    BY <1>1, <1>4, <1>12, <2>1, Setting, TopKeepsShape
<1>14. busy' = {}
  BY <1>1, <1>3, <1>4, <1>5 DEF busy
<1>15. Walks(S)'
  BY <1>7, <1>11, <1>13, <1>14 DEF Walks, FramesFit
<1>16. Shape' /\ OwnData'
  BY <1>1, <1>3, <1>4, <1>5, <1>13, Setting DEF Shape, OwnData, WalksFrom
<1> QED
  BY <1>15, <1>16

LEMMA CleanStampsEnds ==
    ASSUME NEW S, WalksFrom(S), CleanStamps, TypeInv'
    PROVE  Ends
<1>1. PICK t \in Task : t = top.task
  BY Setting
<1> DEFINE f == [Advanced(top) EXCEPT !.cache = @ \cup {t}, !.pc = "walk"]
<1>2. /\ top.pc = "wiped" /\ Top(f) /\ stamp' = [x \in Task |-> 0]
      /\ ranNow' = ranNow \cup {Cleaner}
      /\ UNCHANGED <<session, clock, newer, forced, command>>
  BY <1>1 DEF CleanStamps, Remember
<1>3. t = Cleaner
  BY <1>1, <1>2, Setting DEF FrameFits
<1>4. /\ t = command.target /\ Len(stack) = 1 /\ top = stack[1]
      /\ AtOwnTask(top) /\ top.next = Len(Steps(top.item)) /\ ranNow = {}
  BY <1>1, <1>2, <1>3, CleanIsTarget
<1>5. /\ f \in Calls /\ f.item = top.item /\ f.task = top.task /\ f.next = top.next + 1
  <2>1. top \in Calls /\ top.task = t
    BY <1>1, Setting
  <2> QED
    BY <2>1, Remembering
<1> HIDE DEF f
<1>6. /\ top' = f /\ stack'[1] = f /\ stack' # <<>> /\ Len(stack') = 1 /\ DOMAIN stack' = {1}
  <2>1. Len(stack') = Len(stack) /\ top' = f /\ stack' # <<>> /\ stack' \in Seq(Calls)
    BY <1>2, <1>5, Setting, TopChanges
  <2> QED
    BY <1>4, <2>1, LenProperties DEF top
<1>7. Shape' /\ ~Going'
  BY <1>1, <1>2, <1>4, <1>5, <1>6, Setting DEF Shape, NestOnce, LinksOK, Going, WalkOver
<1>8. EndsWell(here')
  <2>1. PICK v : v = here'
    OBVIOUS
  <2>2. v.target = Cleaner /\ v.ran = {Cleaner} /\ v.clock = clock /\ v.stamp = [x \in Task |-> 0]
    BY <1>2, <1>3, <1>4, <2>1 DEF here
  <2>3. clock \in Nat \ {0}
    BY DEF WalksFrom, TypeInv, RestOK
  <2> QED
    BY <2>1, <2>2, <2>3, CleanerIsAlone DEF EndsWell, RanInOrder
<1> QED
  BY <1>7, <1>8 DEF Ends

(* exec_task returns: a nested one to the walk of the command's own.       *)
LEMMA NestedExecReturns ==
    ASSUME NEW S, WalksFrom(S), ExecReturns, TypeInv'
    PROVE  Shape' /\ OwnData' /\ \E S2 \in SUBSET Task : Walks(S2)'
<1>1. PICK t \in Task : t = top.task
  BY Setting
<1>2. /\ top.pc = "walk" /\ WalkOver(top) /\ AtOwnTask(top) /\ top.item = t
      /\ MkStamp(t)
      /\ UNCHANGED <<session, clock, newer, ranNow, object, command>>
  BY <1>1 DEF ExecReturns, WalkOver, AtOwnTask
<1>3. Len(stack) # 1 /\ t # command.target
  <2>1. top.task = command.target => Len(stack) = 1
    BY <1>2, Setting, OwnFrames DEF WalksFrom, Walks
  <2>2. Len(stack) # 1
    BY <1>2, Setting DEF WalksFrom, Going
  <2> QED
    BY <1>1, <2>1, <2>2
<1>4. Pop
  BY <1>3 DEF ExecReturns
<1>5. \A i \in DOMAIN stack : i < Len(stack) => stack[i].task = command.target
  BY <1>2, Setting, OwnFrames DEF WalksFrom, Walks
<1> DEFINE n == Len(stack) - 1
           f == Advanced(stack[n])
<1>6. /\ n \in Nat \ {0} /\ n \in DOMAIN stack /\ n < Len(stack)
      /\ stack[n] \in Calls /\ stack[n].task \in Task /\ stack[n].item \in Task
      /\ stack[n].pc = "walk" /\ stack[n].next \in 1 .. Len(Steps(stack[n].item))
      /\ t = Steps(stack[n].item)[stack[n].next]
      /\ t = stack[n].item /\ stack[n].task = command.target
      /\ FrameFits(stack[n], here, S)
  BY <1>1, <1>2, <1>3, <1>5, Setting, Below DEF Link
<1>7. /\ f.next = stack[n].next + 1 /\ f.task = stack[n].task /\ f.item = stack[n].item
      /\ f.cache = stack[n].cache /\ f.pc = stack[n].pc /\ f \in Calls
  BY <1>6, AdvancedIsCall
<1>8. top' = f /\ stack' # <<>>
  BY <1>3, <1>4, Setting, FramePopped
<1>9. stack'[1].task = stack[1].task /\ stack'[1].cache = stack[1].cache
  BY <1>3, <1>4, Setting, BottomStays
<1>10. PICK S2 : S2 = S \cup {t}
  OBVIOUS
<1>11. PICK w \in Scenes : w = here
  BY Setting
<1>12. PICK v : v = here'
  OBVIOUS
<1>13. /\ w.stamp = stamp /\ w.clock = clock /\ w.newer = newer /\ w.ran = ranNow
       /\ w.mem = cache[command.via] /\ w.copy = stack[1].cache
       /\ w.forced = forced[command.via] /\ w.target = command.target /\ w.rules = Rules
  BY <1>11 DEF here
<1>14. /\ v.stamp = stamp' /\ v.clock = w.clock /\ v.newer = w.newer
       /\ v.ran = w.ran /\ v.mem = w.mem /\ v.copy = w.copy
       /\ v.forced = w.forced /\ v.target = w.target /\ v.rules = w.rules
  <2>1. Rules' = Rules
    BY <1>2 DEF Rules
  <2> QED
    BY <1>2, <1>9, <1>12, <1>13, <2>1 DEF here, object
<1>15. v \in Scenes
  BY <1>2, <1>8, <1>9, <1>12, Setting, HereNext
<1>16. Orderly(S2, v, {})
  <2>1. Orderly(S, w, {t})
    BY <1>1, <1>3, <1>11, Setting
  <2>2. t \in w.mem
    <3>1. top.cache = w.mem
      BY <1>1, <1>3, <1>11, <1>13, Setting DEF FrameFits
    <3>2. t \in Flagged
      BY <2>1 DEF Orderly, NestedOK
    <3> QED
      BY <1>1, <1>2, <3>1, <3>2, Setting DEF FrameFits
  <2>3. w.rules # {} /\ 0 < w.clock /\ S \in SUBSET Task
    BY <1>13, Setting DEF WalksFrom, TypeInv, RestOK
  <2>4. v.stamp = IF t \in NoStamp THEN w.stamp ELSE [w.stamp EXCEPT ![t] = w.clock]
    BY <1>2, <1>13, <1>14 DEF MkStamp
  <2> QED
    BY <1>10, <1>14, <1>15, <2>1, <2>2, <2>3, <2>4, NestedReturns
<1>17. ASSUME NEW i \in DOMAIN stack, i < Len(stack)
       PROVE  FrameFits(stack[i], v, S2)
  <2>1. FrameFits(stack[i], w, S) /\ stack[i].task = w.target
    BY <1>5, <1>11, <1>13, <1>17, Setting
  <2> QED
    BY <1>10, <1>14, <2>1 DEF FrameFits
<1> HIDE DEF f
<1>18. FrameFits(f, v, S2)
  <2>1. FrameFits(stack[n], v, S2)
    BY <1>6, <1>17
  <2>2. ASSUME NEW k \in 1 .. f.next - 1
        PROVE  Steps(f.item)[k] \in S2
    <3>1. CASE k = stack[n].next
      BY <1>6, <1>7, <1>10, <3>1
    <3>2. CASE k # stack[n].next
      <4>1. k \in 1 .. stack[n].next - 1
        BY <1>6, <1>7, <2>2, <3>2
      <4> QED
        BY <1>6, <1>7, <1>13, <1>14, <2>1, <4>1 DEF FrameFits
    <3> QED
      BY <3>1, <3>2
  <2>3. ~AtOwnTask(f)
    BY <1>3, <1>6, <1>7 DEF AtOwnTask
  <2> HIDE DEF n
  <2> QED
    BY <1>6, <1>7, <2>1, <2>2, <2>3 DEF FrameFits
<1>19. LinksOK' /\ NestOnce' /\ \A i \in DOMAIN stack' : FrameFits(stack'[i], v, S2)
  <2>1. \A i \in DOMAIN stack : i < n => FrameFits(stack[i], v, S2)
    BY <1>6, <1>17, Setting
  <2> QED
    BY <1>2, <1>3, <1>4, <1>18, <2>1, Setting, PopKeepsShape DEF f
<1>20. busy' = {}
  BY <1>2, <1>6, <1>7, <1>8 DEF busy
<1>21. Walks(S2)' /\ S2 \in SUBSET Task
  BY <1>10, <1>12, <1>16, <1>19, <1>20, Setting DEF Walks, FramesFit
<1>22. Shape' /\ OwnData'
  BY <1>2, <1>9, <1>19, Setting DEF Shape, OwnData, WalksFrom
<1> QED
  BY <1>21, <1>22
-----------------------------------------------------------------------------
(* When the command's own walk is over, exec_task only has to return.      *)
LEMMA OverOnlyReturns ==
    ASSUME TypeInv, stack # <<>>, ~Going
    PROVE  /\ Len(stack) = 1 /\ top = stack[1] /\ top.pc = "walk" /\ AtOwnTask(top)
           /\ WalkOver(top)
           /\ Step => ExecReturns
<1>1. Len(stack) \in Nat \ {0} /\ DOMAIN stack = 1 .. Len(stack) /\ StackOK
  BY TopIsCall DEF TypeInv
<1>2. NextOK(stack[1], 1 < Len(stack)) /\ WalkOver(stack[1]) /\ AtOwnTask(stack[1])
  BY <1>1 DEF StackOK, Going
<1>3. Len(stack) = 1 /\ stack[1].pc = "walk"
  BY <1>1, <1>2 DEF NextOK
<1>4. top = stack[1]
  BY <1>3 DEF top
<1>5. Len(Steps(top.item)) \in Nat /\ top.next \in Nat
  BY <1>1, TopIsCall
<1>6. Step => ExecReturns
  BY <1>2, <1>3, <1>4, <1>5
     DEF Step, Descend, SkipItem, ExecNested, StartFunc, FuncSucceeds, CleanWorkdir, CleanStamps,
         FuncFails, WalkReturns, Walking, Running, WalkOver, AtOwnTask
<1> QED
  BY <1>2, <1>3, <1>4, <1>6

(* The steps with which the command's own walk ends.                       *)
OwnTaskDone ==
    \/ SkipItem /\ top.item = command.target
    \/ FuncSucceeds /\ top.task = command.target
    \/ CleanStamps

LEMMA StepGoesOn ==
    ASSUME NEW S, WalksFrom(S), StackOK', Step, stack' # <<>>, ~OwnTaskDone
    PROVE  Going'
<1>1. CASE Len(stack') # 1
  BY <1>1, StillGoing
<1>2. CASE Len(stack') = 1
  <2>1. ASSUME Len(stack) = 1
        PROVE  /\ top = stack[1] /\ AtOwnTask(top) /\ top.task = command.target
               /\ ~WalkOver(top)
    BY <2>1, Setting, TopIsCall DEF WalksFrom, Going
  <2>2. CASE Descend
    <3> DEFINE f == Frame(top.task, reached, top.cache)
    <3>1. Walking /\ Push(f)
      BY <2>2 DEF Descend
    <3>2. f \in Calls
      BY <3>1, Here, Setting DEF Frame, Calls
    <3> QED
      BY <1>2, <3>1, <3>2, Setting, FramePushed
  <2>3. CASE ExecNested /\ ~Top(Advanced(top))
    <3> DEFINE f == Frame(top.item, top.item, cache[command.via])
    <3>1. Push(f)
      BY <2>3 DEF ExecNested
    <3>2. cache[command.via] \in SUBSET Task
      BY DEF WalksFrom, TypeInv, RestOK
    <3>3. f \in Calls
      BY <3>2, Setting DEF Frame, Calls
    <3> QED
      BY <1>2, <3>1, <3>3, Setting, FramePushed
  <2>4. CASE (SkipItem \/ ExecNested) /\ Top(Advanced(top))
    <3>1. Len(stack) = 1
      BY <1>2, <2>4, Setting, AdvancedIsCall, TopChanges
    <3>2. top.item = command.target /\ top.item = top.task
      BY <2>1, <3>1 DEF AtOwnTask
    <3> QED
      BY <2>4, <3>2 DEF OwnTaskDone, ExecNested
  <2>5. ASSUME StartFunc \/ CleanWorkdir
        PROVE  Going'
    <3>1. PICK pc \in {"func", "wiped"} : Top([top EXCEPT !.pc = pc])
      BY <2>5 DEF StartFunc, CleanWorkdir
    <3> DEFINE f == [top EXCEPT !.pc = pc]
    <3>2. f \in Calls /\ f.item = top.item /\ f.next = top.next
      BY Setting DEF Calls
    <3> HIDE DEF f
    <3>3. Len(stack) = 1 /\ top' = f
      BY <1>2, <3>1, <3>2, Setting, TopChanges DEF f
    <3>4. stack'[1] = f
      BY <1>2, <3>3 DEF top
    <3> QED
      BY <2>1, <3>2, <3>3, <3>4 DEF Going, WalkOver
  <2>6. CASE FuncSucceeds
    <3> DEFINE f == [Advanced(top) EXCEPT !.cache = @ \cup {top.task}, !.pc = "walk"]
    <3>1. Top(f) /\ top.task # command.target
      BY <2>6 DEF FuncSucceeds, Remember, OwnTaskDone
    <3>2. f \in Calls
      <4>1. top \in Calls /\ top.task \in Task
        BY Setting
      <4> QED
        BY <4>1, Remembering
    <3> HIDE DEF f
    <3>3. Len(stack) = 1
      BY <1>2, <3>1, <3>2, Setting, TopChanges
    <3> QED
      BY <2>1, <3>1, <3>3
  <2>7. ASSUME WalkReturns \/ ExecReturns
        PROVE  Going'
    <3> DEFINE f == stack[1]
               g == Advanced(f)
    <3>1. Len(stack) # 1
      BY <2>1, <2>7 DEF WalkReturns, ExecReturns, WalkOver
    <3>2. Pop
      BY <2>7, <3>1 DEF WalkReturns, ExecReturns
    <3>3. Len(stack) = 2 /\ top' = g /\ stack'[1] = g
      <4>1. /\ stack \in Seq(Calls) /\ stack # <<>> /\ Len(stack) \in Nat
        BY Setting
      <4>2. Len(stack') = Len(stack) - 1 /\ top' = Advanced(stack[Len(stack) - 1])
        BY <3>1, <3>2, <4>1, FramePopped
      <4>3. Len(stack) = 2
        BY <1>2, <4>1, <4>2
      <4> QED
        BY <1>2, <4>2, <4>3 DEF top
    <3>4. /\ f \in Calls /\ f.item \in Task /\ f.task \in Task /\ Link(f, top)
          /\ f.next \in 1 .. Len(Steps(f.item))
      <4>1. Len(stack) - 1 = 1
        BY <3>3
      <4>2. StackOK /\ stack # <<>> /\ LinksOK
        BY Setting
      <4> QED
        BY <3>1, <4>1, <4>2, Below
    <3>5. AtOwnTask(f)
      BY Setting DEF StackOK
    <3>6. top.item # f.item
      BY <2>7, <3>4, <3>5 DEF WalkReturns, ExecReturns, Link, AtOwnTask
    <3>7. f.next # Len(Steps(f.item)) /\ Len(Steps(f.item)) \in Nat
      BY <3>4, <3>6, StepsAreTasks, StepsOfWalk DEF Link
    <3>8. g.next = f.next + 1 /\ g.item = f.item
      BY <3>4, AdvancedIsCall
    <3> HIDE DEF f, g
    <3>9. ~WalkOver(g)
      BY <3>4, <3>7, <3>8 DEF WalkOver
    <3> QED
      BY <3>3, <3>9 DEF Going
  <2>8. CASE FuncFails
    BY <2>8 DEF FuncFails, Unwind
  <2> QED
    BY <2>2, <2>3, <2>4, <2>5, <2>6, <2>7, <2>8 DEF Step, OwnTaskDone, SkipItem
<1> QED
  BY <1>1, <1>2

(* Every step of the command's own walk until it is over.                  *)
LEMMA StepWalks ==
    ASSUME NEW S, WalksFrom(S), TypeInv', Step, stack' # <<>>, ~OwnTaskDone
    PROVE  Shape' /\ OwnData' /\ \E S2 \in SUBSET Task : Walks(S2)'
<1>1. S \in SUBSET Task
  BY DEF WalksFrom
<1>2. ~FuncFails
  BY DEF FuncFails, Unwind
<1>3. CASE Descend
  BY <1>1, <1>3, DescendWalks
<1>4. CASE SkipItem
  BY <1>4, SkipItemWalks DEF OwnTaskDone
<1>5. CASE ExecNested
  BY <1>5, ExecNestedWalks
<1>6. CASE StartFunc
  BY <1>1, <1>6, StartFuncWalks
<1>7. CASE FuncSucceeds
  BY <1>1, <1>7, FuncSucceedsNested DEF OwnTaskDone
<1>8. CASE CleanWorkdir
  BY <1>1, <1>8, CleanWorkdirWalks
<1>9. CASE WalkReturns
  BY <1>1, <1>9, WalkReturnsWalks
<1>10. CASE ExecReturns
  BY <1>10, NestedExecReturns
<1> QED
  BY <1>2, <1>3, <1>4, <1>5, <1>6, <1>7, <1>8, <1>9, <1>10 DEF Step, OwnTaskDone

LEMMA OwnTaskEnds ==
    ASSUME NEW S, WalksFrom(S), TypeInv', OwnTaskDone
    PROVE  Ends
  BY SkipTarget, FuncSucceedsOwn, CleanStampsEnds DEF OwnTaskDone

LEMMA StepKeepsWalks ==
    ASSUME TypeInv, WalksOK, TypeInv', Step
    PROVE  WalksOK'
<1>1. stack # <<>> /\ session' = session
  BY DEF Step, Descend, SkipItem, ExecNested, StartFunc, FuncSucceeds, CleanWorkdir, CleanStamps,
         FuncFails, WalkReturns, ExecReturns, Walking, Running
<1>2. Rules' = Rules
  BY <1>1 DEF Rules
<1>3. CASE stack' = <<>>
  BY <1>3 DEF WalksOK, Shape, Going
<1>4. CASE Rules = {}
  BY <1>2, <1>4 DEF WalksOK
<1>5. CASE stack' # <<>> /\ Rules # {}
  <2>1. Going
    <3>1. ASSUME ~Going
          PROVE  FALSE
      BY <1>1, <1>5, <3>1, OverOnlyReturns DEF ExecReturns, Unwind
    <3> QED
      BY <3>1
  <2>2. PICK S \in SUBSET Task : WalksFrom(S)
    BY <1>5, <2>1 DEF WalksOK, WalksFrom
  <2>3. CASE OwnTaskDone
    BY <1>1, <2>2, <2>3, OwnTaskEnds DEF Ends, WalksOK
  <2>4. CASE ~OwnTaskDone
    <3>1. Shape' /\ OwnData' /\ \E S2 \in SUBSET Task : Walks(S2)'
      BY <1>5, <2>2, <2>4, StepWalks
    <3>2. Going'
      BY <1>5, <2>2, <2>4, StepGoesOn DEF TypeInv
    <3> QED
      BY <3>1, <3>2 DEF WalksOK
  <2> QED
    BY <2>3, <2>4
<1> QED
  BY <1>3, <1>4, <1>5
-----------------------------------------------------------------------------
(* A command starts.                                                       *)
LEMMA FreshIsPart ==
    ASSUME RestOK, NEW objects \in [Via -> SUBSET Task], NEW via \in Via
    PROVE  /\ Fresh(objects)[via] \in SUBSET Task
           /\ ~session.keepsData => Fresh(objects)[via] = {}
           /\ objects = [v \in Via |-> {}] => Fresh(objects) = objects
  BY DEF Fresh

LEMMA CommandCases ==
    ASSUME TypeInv, NEW t \in Targets, NEW force \in MayForce,
           BuildFile(t, force) \/ BuildTarget(t, force)
    PROVE  \E via \in Via, flags \in SUBSET Task :
            /\ stack = <<>> /\ UNCHANGED <<session, stamp, clock, newer>>
            /\ command' = [target |-> t, force |-> force, via |-> via]
            /\ ranNow' = {} /\ cache' = Fresh(cache) /\ forced'[via] = flags
            /\ flags \subseteq Fresh(forced)[via] \cup (IF force THEN {t} \cap Task ELSE {})
            /\ ~force => forced' = Fresh(forced)
            /\ \/ stack' = <<>> /\ outcome' = "failed"
               \/ stack' = <<>> /\ outcome' = "ok" /\ StampIsCurrent(t)
               \/ /\ stack' = <<Frame(t, t, Fresh(cache)[via])>> /\ t \in Task
                  /\ outcome' = "busy"
<1>1. Fresh(cache) \in [Via -> SUBSET Task] /\ Fresh(forced) \in [Via -> SUBSET Task]
  BY FreshTypes DEF TypeInv, RestOK
<1>2. ASSUME NEW via \in Via, Command(t, force, via), TryBuildPackage(t, force, via)
      PROVE  \E flags \in SUBSET Task :
            /\ stack = <<>> /\ UNCHANGED <<session, stamp, clock, newer>>
            /\ command' = [target |-> t, force |-> force, via |-> via]
            /\ ranNow' = {} /\ cache' = Fresh(cache) /\ forced'[via] = flags
            /\ flags \subseteq Fresh(forced)[via] \cup (IF force THEN {t} \cap Task ELSE {})
            /\ ~force => forced' = Fresh(forced)
            /\ \/ stack' = <<>> /\ outcome' = "failed"
               \/ stack' = <<>> /\ outcome' = "ok" /\ StampIsCurrent(t)
               \/ /\ stack' = <<Frame(t, t, Fresh(cache)[via])>> /\ t \in Task
                  /\ outcome' = "busy"
  <2> DEFINE flags == Fresh(forced)[via] \cup (IF force THEN {t} \cap Task ELSE {})
  <2>1. flags \in SUBSET Task
    BY <1>1
  <2>2. forced' = [Fresh(forced) EXCEPT ![via] = flags]
    BY <1>2 DEF TryBuildPackage
  <2>3. forced'[via] = flags /\ (~force => forced' = Fresh(forced))
    BY <1>1, <2>2
  <2>4. stack = <<>> /\ UNCHANGED <<session, stamp, clock, newer>>
    BY <1>2 DEF Command, disk
  <2>5. \/ stack' = <<>> /\ outcome' = "failed"
        \/ stack' = <<>> /\ outcome' = "ok" /\ StampIsCurrent(t)
        \/ /\ stack' = <<Frame(t, t, Fresh(cache)[via])>> /\ t \in Task
           /\ outcome' = "busy"
    <3>1. \/ stack' = stack /\ outcome' = "failed"
          \/ stack' = stack /\ outcome' = "ok" /\ StampIsCurrent(t)
          \/ /\ Push(Frame(t, t, Fresh(cache)[via])) /\ t \in Task
             /\ outcome' = "busy"
      BY <1>2 DEF TryBuildPackage
    <3>2. Append(<<>>, Frame(t, t, Fresh(cache)[via])) = <<Frame(t, t, Fresh(cache)[via])>>
      OBVIOUS
    <3> QED
      BY <2>4, <3>1, <3>2 DEF Push
  <2> QED
    BY <1>2, <2>1, <2>3, <2>4, <2>5 DEF Command
<1>3. CASE BuildFile(t, force)
  BY <1>2, <1>3 DEF BuildFile, Via
<1>4. CASE BuildTarget(t, force) /\ ~(t \in Task /\ StampIsCurrent(t))
  BY <1>2, <1>4 DEF BuildTarget, Via
<1>5. CASE BuildTarget(t, force) /\ t \in Task /\ StampIsCurrent(t)
  <2>1. "target" \in Via
    BY DEF Via
  <2>2. Command(t, force, "target") /\ forced' = Fresh(forced) /\ outcome' = "ok" /\ stack' = stack
    BY <1>5 DEF BuildTarget
  <2>3. forced'["target"] \in SUBSET Task
    BY <1>1, <2>1, <2>2
  <2>4. /\ stack = <<>> /\ UNCHANGED <<session, stamp, clock, newer>>
        /\ command' = [target |-> t, force |-> force, via |-> "target"]
        /\ ranNow' = {} /\ cache' = Fresh(cache)
    BY <2>2 DEF Command, disk
  <2> QED
    BY <1>5, <2>1, <2>2, <2>3, <2>4
<1> QED
  BY <1>3, <1>4, <1>5

(* The walk that a command starts, from the stamps that are there.         *)
LEMMA CommandWalks ==
    ASSUME TypeInv, StampsArePast, NoFlags, NEW t \in Targets, NEW force \in MayForce,
           BuildFile(t, force) \/ BuildTarget(t, force), TypeInv'
    PROVE  WalksOK'
<1>1. PICK via \in Via, flags \in SUBSET Task :
        /\ stack = <<>> /\ UNCHANGED <<session, stamp, clock, newer>>
        /\ command' = [target |-> t, force |-> force, via |-> via]
        /\ ranNow' = {} /\ cache' = Fresh(cache) /\ forced'[via] = flags
        /\ flags \subseteq Fresh(forced)[via] \cup (IF force THEN {t} \cap Task ELSE {})
        /\ stack' = <<>> \/ (stack' = <<Frame(t, t, Fresh(cache)[via])>> /\ t \in Task)
  BY CommandCases
<1>2. CASE stack' = <<>>
  BY <1>2 DEF WalksOK, Shape, Going
<1>3. CASE stack' # <<>>
  <2>1. PICK c \in SUBSET Task : c = Fresh(cache)[via]
    BY FreshIsPart DEF TypeInv, RestOK
  <2>2. PICK f : f = Frame(t, t, c)
    OBVIOUS
  <2>3. /\ f.task = t /\ f.item = t /\ f.next = 1 /\ f.cache = c /\ f.pc = "walk" /\ t \in Task
        /\ stack' = <<f>>
    BY <1>1, <1>3, <2>1, <2>2 DEF Frame
  <2>4. /\ DOMAIN stack' = {1} /\ Len(stack') = 1 /\ stack'[1] = f /\ top' = f
        /\ command'.target = t /\ command'.via = via
    BY <1>1, <2>3 DEF top
  <2>5. PICK v : v = here'
    OBVIOUS
  <2>6. /\ v.stamp = stamp /\ v.clock = clock /\ v.ran = {} /\ v.mem = c /\ v.copy = c
        /\ v.forced = flags /\ v.target = t /\ v.rules = Rules
    <3>1. Rules' = Rules
      BY <1>1 DEF Rules
    <3> QED
      BY <1>1, <2>1, <2>3, <2>4, <2>5, <3>1 DEF here
  <2>7. v \in Scenes
    BY <2>3, <2>4, <2>5, <1>3, HereNext
  <2>8. "unforced" \in v.rules => v.forced \subseteq {v.target}
    <3>1. CASE ~session.keepsData
      <4>1. Fresh(forced)[via] = {}
        BY <3>1, FreshIsPart DEF TypeInv, RestOK
      <4> QED
        BY <1>1, <2>6, <4>1
    <3>2. CASE ~session.mayForce
      <4>1. forced = [x \in Via |-> {}]
        BY <3>2 DEF NoFlags
      <4>2. Fresh(forced) = forced
        BY <4>1, FreshIsPart DEF TypeInv, RestOK
      <4>3. Fresh(forced)[via] = {}
        BY <4>1, <4>2
      <4> QED
        BY <1>1, <2>6, <4>3
    <3> QED
      BY <2>6, <3>1, <3>2 DEF Rules
  <2>9. Orderly({}, v, {})
    BY <2>6, <2>7, <2>8, CommandStarts DEF StampsArePast
  <2>10. busy' = {}
    BY <2>3, <2>4 DEF busy
  <2>11. FrameFits(f, v, {})
    BY <2>3, <2>6, StepsOfWalk DEF FrameFits, WalkOver
  <2>12. Walks({})'
    BY <2>4, <2>5, <2>9, <2>10, <2>11 DEF Walks, FramesFit
  <2>13. Shape'
    BY <2>3, <2>4 DEF Shape, NestOnce, LinksOK
  <2>14. OwnData'
    <3>1. ~session.keepsData => c = {}
      BY <2>1, FreshIsPart DEF TypeInv, RestOK
    <3> QED
      BY <1>1, <2>3, <2>4, <3>1 DEF OwnData
  <2>15. Going'
    BY <1>3, <2>3, <2>4, StepsOfWalk DEF Going, WalkOver
  <2>16. {} \in SUBSET Task
    OBVIOUS
  <2> QED
    BY <2>12, <2>13, <2>14, <2>15, <2>16 DEF WalksOK
<1> QED
  BY <1>2, <1>3
-----------------------------------------------------------------------------
(* The rest of the invariant.                                              *)
LEMMA NextKeepsStampsPast ==
    ASSUME TypeInv, StampsArePast, [Next]_vars
    PROVE  StampsArePast'
<1>1. CASE UNCHANGED <<stamp, clock>>
  BY <1>1 DEF StampsArePast
<1>2. CASE FuncSucceeds
  BY <1>2 DEF FuncSucceeds, StampsArePast, TypeInv, RestOK
<1>3. CASE CleanStamps
  BY <1>3 DEF CleanStamps, StampsArePast, TypeInv, RestOK
<1>4. CASE ExecReturns
  <2>1. PICK t \in Task : t = top.task
    BY <1>4, TopIsCall DEF ExecReturns, TypeInv
  <2> QED
    BY <1>4, <2>1 DEF ExecReturns, MkStamp, StampsArePast, TypeInv, RestOK
<1>5. ASSUME NEW t \in Targets, NEW force \in MayForce,
             BuildFile(t, force) \/ BuildTarget(t, force)
      PROVE  UNCHANGED <<stamp, clock>>
  BY <1>5 DEF BuildFile, BuildTarget, Command, disk
<1>6. CASE Killed \/ UNCHANGED vars
  BY <1>1, <1>6 DEF Killed, vars
<1>7. CASE \/ Descend \/ SkipItem \/ ExecNested \/ StartFunc \/ CleanWorkdir \/ FuncFails
           \/ WalkReturns
  BY <1>1, <1>7
     DEF Descend, SkipItem, ExecNested, StartFunc, CleanWorkdir, FuncFails, WalkReturns, disk
<1> QED
  BY <1>1, <1>2, <1>3, <1>4, <1>5, <1>6, <1>7 DEF Next, Step

LEMMA NextKeepsNoFlags ==
    ASSUME TypeInv, NoFlags, [Next]_vars
    PROVE  NoFlags'
<1>1. session' = session
  BY DEF Next, Step, Descend, SkipItem, ExecNested, StartFunc, FuncSucceeds, CleanWorkdir,
         CleanStamps, FuncFails, WalkReturns, ExecReturns, Killed, BuildFile, BuildTarget,
         Command, vars
<1>2. CASE forced' = forced \/ forced' = [via \in Via |-> {}]
  BY <1>1, <1>2 DEF NoFlags
<1>3. ASSUME NEW t \in Targets, NEW force \in MayForce,
             BuildFile(t, force) \/ BuildTarget(t, force)
      PROVE  NoFlags'
  <2>1. ~session.mayForce => force = FALSE
    <3>1. session.mayForce \in BOOLEAN
      BY TaskExecAssumption DEF TypeInv, RestOK, SessionType
    <3>2. force = FALSE \/ force = session.mayForce
      BY DEF MayForce
    <3> QED
      BY <3>1, <3>2
  <2>2. force \in BOOLEAN
    BY MayForceType
  <2>3. ~force => forced' = Fresh(forced)
    <3>1. PICK via \in Via, flags \in SUBSET Task : ~force => forced' = Fresh(forced)
      BY <1>3, CommandCases
    <3> QED
      BY <3>1
  <2>4. ASSUME ~session.mayForce
        PROVE  forced' = [via \in Via |-> {}]
    <3>1. forced = [via \in Via |-> {}] /\ forced \in [Via -> SUBSET Task]
      BY <2>4 DEF NoFlags, TypeInv, RestOK
    <3>2. Fresh(forced) = forced
      <4>1. RestOK /\ "file" \in Via
        BY DEF TypeInv, Via
      <4> QED
        BY <3>1, <4>1, FreshIsPart
    <3> QED
      BY <2>1, <2>3, <2>4, <3>1, <3>2
  <2> QED
    BY <1>1, <2>4 DEF NoFlags
<1>4. CASE Killed
  BY <1>2, <1>4 DEF Killed
<1>5. CASE Step \/ UNCHANGED vars
  BY <1>2, <1>5
     DEF Step, Descend, SkipItem, ExecNested, StartFunc, FuncSucceeds, CleanWorkdir,
         CleanStamps, FuncFails, WalkReturns, ExecReturns, vars, object
<1> QED
  BY <1>3, <1>4, <1>5 DEF Next

LEMMA NextKeepsBusy ==
    ASSUME TypeInv, BusyIsBusy, [Next]_vars
    PROVE  BusyIsBusy'
<1>1. CASE UNCHANGED <<stack, outcome>> \/ stack' = <<>>
  BY <1>1 DEF BusyIsBusy
<1>2. CASE UNCHANGED outcome /\ stack # <<>>
  BY <1>2 DEF BusyIsBusy
<1>3. ASSUME NEW t \in Targets, NEW force \in MayForce,
             BuildFile(t, force) \/ BuildTarget(t, force)
      PROVE  BusyIsBusy'
  BY <1>3, CommandCases DEF BusyIsBusy
<1>4. CASE Killed
  BY <1>1, <1>4 DEF Killed, Unwind
<1>5. CASE Step
  BY <1>1, <1>2, <1>5
     DEF Step, Descend, SkipItem, ExecNested, StartFunc, FuncSucceeds, CleanWorkdir,
         CleanStamps, FuncFails, WalkReturns, ExecReturns, Walking, Running, Unwind
<1>6. CASE UNCHANGED vars
  BY <1>1, <1>6 DEF vars
<1> QED
  BY <1>3, <1>4, <1>5, <1>6 DEF Next

(* The command's exec_task returns, having made its stamp.                 *)
LEMMA ReturnIsCurrent ==
    ASSUME TypeInv, StampsArePast, WalksOK, TypeInv', ExecReturns, Len(stack) = 1
    PROVE  SuccessIsCurrent'
<1>1. PICK t : t = command.target
  OBVIOUS
<1>2. /\ session' = session /\ command'.target = t /\ ranNow' = ranNow
      /\ stack # <<>> /\ WalkOver(top) /\ top = stack[1] /\ MkStamp(top.task)
  BY <1>1 DEF ExecReturns, WalkOver, top
<1>3. ASSUME ~session.keepsData, t \in Flagged
      PROVE  /\ t \in NoStamp => t \in ranNow
             /\ t \notin NoStamp /\ Ancestors[t] \subseteq Flagged => StampIsCurrent(t)'
  <2>1. Rules # {}
    BY <1>3 DEF Rules
  <2>2. Shape /\ EndsWell(here) /\ stack[1].task = t
    BY <1>1, <1>2, <1>3, <2>1 DEF WalksOK, Going, Shape
  <2>3. here \in Scenes /\ here.ran = ranNow /\ here.target = t /\ here.stamp = stamp /\ t \in Task
    BY <1>1, <1>2, <2>2, HereIsScene
  <2>4. t \in ranNow
    BY <1>3, <2>2, <2>3 DEF EndsWell
  <2>5. ASSUME t \notin NoStamp, Ancestors[t] \subseteq Flagged
        PROVE  StampIsCurrent(t)'
    <3>1. /\ stamp' = [stamp EXCEPT ![t] = clock] /\ stamp \in [Task -> Nat] /\ clock \in Nat \ {0}
          /\ stamp' \in [Task -> Nat]
      BY <1>2, <2>2, <2>5 DEF MkStamp, TypeInv, RestOK
    <3>2. ASSUME NEW a \in Ancestors[t], a \notin NoStamp
          PROVE  stamp'[a] # 0 /\ stamp'[a] <= stamp'[t]
      <4>1. a \in Task /\ a # t /\ a \in Stamped
        BY <2>3, <2>5, <3>2, AncestorsAreTasks DEF Stamped
      <4>2. Ancestors[a] \subseteq Flagged
        BY <2>3, <2>5, <3>2, BeforeIsTransitive
      <4>3. CurrentIn(a, here)
        BY <2>2, <2>3, <3>2, <4>1, <4>2 DEF EndsWell
      <4>4. stamp[a] # 0 /\ stamp[a] <= clock
        BY <2>3, <4>1, <4>3 DEF CurrentIn, StampsArePast
      <4> QED
        BY <2>3, <3>1, <4>1, <4>4
    <3>3. stamp'[t] # 0 /\ stamp'[t] <= stamp'[t]
      BY <2>3, <3>1
    <3> QED
      BY <2>3, <3>2, <3>3 DEF StampIsCurrent
  <2> QED
    BY <2>4, <2>5
<1>4. StampIsCurrent(t)' <=> StampIsCurrent(command.target)'
  BY <1>2 DEF StampIsCurrent
<1> QED
  BY <1>2, <1>3, <1>4 DEF SuccessIsCurrent

LEMMA NextKeepsSuccess ==
    ASSUME TypeInv, StampsArePast, BusyIsBusy, WalksOK, SuccessIsCurrent, TypeInv', [Next]_vars
    PROVE  SuccessIsCurrent'
<1>1. CASE outcome' # "ok"
  BY <1>1 DEF SuccessIsCurrent
<1>2. CASE Step
  <2>1. stack # <<>>
    BY <1>2
       DEF Step, Descend, SkipItem, ExecNested, StartFunc, FuncSucceeds, CleanWorkdir, CleanStamps,
           FuncFails, WalkReturns, ExecReturns, Walking, Running
  <2>2. outcome = "busy"
    BY <2>1 DEF BusyIsBusy
  <2>3. CASE ExecReturns /\ Len(stack) = 1
    BY <2>3, ReturnIsCurrent
  <2>4. CASE ~(ExecReturns /\ Len(stack) = 1)
    <3>1. outcome' = outcome \/ outcome' = "failed"
      BY <1>2, <2>4
         DEF Step, Descend, SkipItem, ExecNested, StartFunc, FuncSucceeds, CleanWorkdir,
             CleanStamps, FuncFails, WalkReturns, ExecReturns, Unwind
    <3> QED
      BY <1>1, <2>2, <3>1
  <2> QED
    BY <2>3, <2>4
<1>3. CASE Killed
  BY <1>1, <1>3 DEF Killed, Unwind
<1>4. ASSUME NEW t \in Targets, NEW force \in MayForce,
             BuildFile(t, force) \/ BuildTarget(t, force), outcome' = "ok"
      PROVE  SuccessIsCurrent'
  <2>1. /\ session' = session /\ stamp' = stamp /\ command'.target = t /\ StampIsCurrent(t)
    BY <1>4, CommandCases
  <2>2. t \in Flagged => t \notin NoStamp
    <3>1. t \in Flagged => t \in Task
      BY TaskExecAssumption
    <3> QED
      BY <2>1, <3>1 DEF StampIsCurrent, StampsArePast
  <2>3. StampIsCurrent(command.target)'
    BY <2>1 DEF StampIsCurrent
  <2> QED
    BY <2>1, <2>2, <2>3 DEF SuccessIsCurrent
<1>5. CASE UNCHANGED vars
  BY <1>5 DEF vars, SuccessIsCurrent, StampIsCurrent
<1> QED
  BY <1>1, <1>2, <1>3, <1>4, <1>5 DEF Next

LEMMA InitWInv == Init => WInv
<1> SUFFICES ASSUME Init PROVE WInv
  OBVIOUS
<1>1. stack = <<>> /\ outcome = "none" /\ forced = [via \in Via |-> {}]
  BY DEF Init
<1>2. WalksOK
  BY <1>1 DEF WalksOK, Shape, Going
<1>3. StampsArePast
  BY DEF Init, StampsArePast
<1> QED
  BY <1>1, <1>2, <1>3, InitTypes DEF WInv, NoFlags, BusyIsBusy, SuccessIsCurrent

LEMMA NextKeepsWInv == WInv /\ [Next]_vars => WInv'
<1> SUFFICES ASSUME WInv, [Next]_vars PROVE WInv'
  OBVIOUS
<1>1. TypeInv /\ StampsArePast /\ NoFlags /\ BusyIsBusy /\ WalksOK /\ SuccessIsCurrent
  BY DEF WInv
<1>2. TypeInv'
  BY <1>1, NextKeepsTypes
<1>3. StampsArePast' /\ NoFlags' /\ BusyIsBusy' /\ SuccessIsCurrent'
  BY <1>1, <1>2, NextKeepsStampsPast, NextKeepsNoFlags, NextKeepsBusy, NextKeepsSuccess
<1>4. WalksOK'
  <2>1. CASE Step
    BY <1>1, <1>2, <2>1, StepKeepsWalks
  <2>2. CASE Killed
    BY <2>2 DEF Killed, Unwind, WalksOK, Shape, Going
  <2>3. ASSUME NEW t \in Targets, NEW force \in MayForce,
               BuildFile(t, force) \/ BuildTarget(t, force)
        PROVE  WalksOK'
    BY <1>1, <1>2, <2>3, CommandWalks
  <2>4. CASE UNCHANGED vars
    <3>1. here' = here /\ busy' = busy /\ Rules' = Rules
      BY <2>4 DEF vars, here, busy, Rules, top
    <3>2. Shape' = Shape /\ OwnData' = OwnData /\ Going' = Going
      BY <2>4 DEF vars, Shape, NestOnce, LinksOK, OwnData, Going
    <3>3. \A S : Walks(S)' <=> Walks(S)
      BY <2>4, <3>1 DEF vars, Walks, FramesFit
    <3> QED
      BY <1>1, <2>4, <3>1, <3>2, <3>3 DEF vars, WalksOK
  <2> QED
    BY <2>1, <2>2, <2>3, <2>4 DEF Next
<1> QED
  BY <1>2, <1>3, <1>4 DEF WInv

(* The function that starts has not run in this command.                   *)
LEMMA NotRunBefore == TypeInv /\ WalksOK => NoDoubleRun
<1> SUFFICES ASSUME TypeInv, WalksOK, Running,
                    ~(session.instant /\ session.keepsData /\ session.mayForce)
             PROVE  top.task \notin ranNow
  BY DEF NoDoubleRun
<1>1. stack # <<>> /\ Rules # {}
  BY DEF Running, Rules
<1>2. Going
  BY <1>1, OverOnlyReturns DEF Running
<1>3. PICK S \in SUBSET Task : WalksFrom(S)
  BY <1>1, <1>2 DEF WalksOK, WalksFrom
<1>4. here.ran = ranNow /\ here.mem = cache[command.via] /\ here.target = command.target
  BY DEF here
<1>5. CASE top.task = command.target
  <2>1. Orderly(S, here, {}) /\ here \in Scenes
    BY <1>3, <1>5, FuncTop, Setting
  <2>2. command.target \notin Ancestors[command.target]
    BY <1>4, <2>1, SceneFields
  <2> QED
    BY <1>4, <1>5, <2>1, <2>2 DEF Orderly, CacheKnows, PassedIsQuiet
<1>6. CASE top.task # command.target
  <2>1. /\ top.task \in Flagged \ top.cache /\ top.cache = cache[command.via]
        /\ Orderly(S, here, {top.task})
    BY <1>3, <1>6, FuncTop
  <2> QED
    BY <1>4, <2>1 DEF Orderly, CacheKnows
<1> QED
  BY <1>5, <1>6

(* However many paths of the graph lead to a task, one command executes    *)
(* its function at most once.                                              *)
THEOREM NeverRunTwice == Spec => []NoDoubleRun
<1>1. WInv => NoDoubleRun
  BY NotRunBefore DEF WInv
<1> QED
  BY InitWInv, NextKeepsWInv, <1>1, PTL DEF Spec

(* A command that succeeds leaves its task current, or has run it.         *)
THEOREM SuccessLeavesCurrent == Spec => []SuccessIsCurrent
<1>1. WInv => SuccessIsCurrent
  BY DEF WInv
<1> QED
  BY InitWInv, NextKeepsWInv, <1>1, PTL DEF Spec

-----------------------------------------------------------------------------
CommandsNameTasks == Targets \cap Task \subseteq Flagged

(* What executions have left: the predicates below are about such a record,*)
(* so that a step can be described by the records before and after.        *)
now == [stamp |-> stamp, done |-> done, ran |-> ranNow]
Worlds == [stamp : [Task -> Nat], done : SUBSET Task, ran : SUBSET Task]

(* x completed, and in this command if it leaves no stamp.                 *)
Ran(x, w) == x \in Flagged \ {Cleaner} => x \in w.done /\ (x \in NoStamp => x \in w.ran)
HasStamp(x, w) == x \in Stamped => w.stamp[x] # 0

(* x and all before it completed and have their stamps.                    *)
BeforeSettled(x, w) == \A a \in Ancestors[x] : Ran(a, w) /\ HasStamp(a, w)
Settled(x, w) == BeforeSettled(x, w) /\ Ran(x, w) /\ HasStamp(x, w)

(* No making of stamps but its own can make t current.                     *)
Outdated(t, w) ==
    \/ w.stamp[t] = 0
    \/ \E a \in Ancestors[t] \ NoStamp : a \notin Flagged \/ w.stamp[a] > w.stamp[t]

StampsOK ==
    \A t \in Task :
        /\ stamp[t] <= clock
        /\ stamp[t] # 0 => t \in Stamped /\ \A a \in Ancestors[t] : HasStamp(a, now)

(* A task that is not done has a stamp nothing but its execution renews.   *)
UndoneAreOutdated == ~Cleaning => \A t \in Stamped \ done : Outdated(t, now)

(* What is true of a frame f of the stack.                                 *)
FrameLocal(f) ==
    /\ f.task \in Flagged
    /\ f.item \in Ancestors[f.task] \cup {f.task}
    /\ f.pc # "walk" => AtOwnTask(f) /\ f.next = Len(Steps(f.item))
    /\ f.pc = "wiped" => f.task = Cleaner
    /\ AtOwnTask(f) /\ WalkOver(f) => f.task \in f.cache

(* What its walk has passed is settled, and so is what it found in the     *)
(* cache, its own task excepted, which gets its stamp at the end.          *)
Visited(f, w) ==
    \A k \in 1 .. f.next - 1 :
        Steps(f.item)[k] # f.task => Settled(Steps(f.item)[k], w)
Cached(f, w) == \A x \in f.cache : Ran(x, w) /\ (x # f.task => Settled(x, w))
Stale(f, w) == f.task \in Stamped => Outdated(f.task, w)

FrameInv(f, w) == FrameLocal(f) /\ Visited(f, w) /\ Cached(f, w) /\ Stale(f, w)

FramesOK == \A i \in DOMAIN stack : FrameInv(stack[i], now)
ChainOK ==
    \A i, j \in DOMAIN stack :
        i <= j => stack[j].task \in Ancestors[stack[i].task] \cup {stack[i].task}

(* The object's cache, on which the next nested exec_task will walk.       *)
ObjectOK ==
    stack # <<>> => \A x \in cache[command.via] :
        \/ Settled(x, now)
        \/ x = top.task /\ AtOwnTask(top) /\ WalkOver(top)

(* do_clean is alone.                                                      *)
CleanAlone ==
    stack # <<>> /\ top.task = Cleaner =>
        /\ Len(stack) = 1
        /\ top.cache \subseteq {Cleaner}
        /\ cache[command.via] \subseteq {Cleaner}

NothingForced == forced = [via \in Via |-> {}]

DiskInv == StampsOK /\ UndoneAreOutdated
WalkInv == FramesOK /\ LinksOK /\ ChainOK
PlainInv == DiskInv /\ NothingForced /\ WalkInv /\ ObjectOK /\ CleanAlone

IInv == TypeInv /\ (Plain => PlainInv)

-----------------------------------------------------------------------------
LEMMA NowIsWorld ==
    ASSUME TypeInv
    PROVE  /\ now \in Worlds
           /\ now.stamp = stamp /\ now.done = done /\ now.ran = ranNow
  BY DEF TypeInv, RestOK, now, Worlds

(* The stamp of a task is current or outdated.                             *)
LEMMA CurrentOrOutdated ==
    ASSUME TypeInv, StampsOK, NEW t \in Task
    PROVE  StampIsCurrent(t) <=> ~Outdated(t, now)
<1>1. /\ now.stamp = stamp /\ stamp \in [Task -> Nat]
      /\ Ancestors[t] \subseteq Task
  BY NowIsWorld, AncestorsAreTasks DEF TypeInv, RestOK
<1>2. ASSUME NEW a \in Task, stamp[a] # 0
      PROVE  a \in Flagged /\ a \notin NoStamp
  BY <1>2 DEF StampsOK, Stamped
<1>3. ASSUME ~StampIsCurrent(t), stamp[t] # 0
      PROVE  Outdated(t, now)
  <2>1. PICK a \in Ancestors[t] \cup {t} :
            a \notin NoStamp /\ (stamp[a] = 0 \/ ~(stamp[a] <= stamp[t]))
    BY <1>3 DEF StampIsCurrent
  <2>2. a \in Ancestors[t] /\ a \in Task
    BY <1>1, <1>3, <2>1
  <2>3. stamp[a] = 0 => a \notin Flagged
    BY <1>1, <1>3, <2>1, <2>2 DEF StampsOK, HasStamp, Stamped
  <2>4. stamp[a] # 0 => stamp[a] > stamp[t]
    BY <1>1, <2>1, <2>2
  <2> QED
    BY <1>1, <2>1, <2>2, <2>3, <2>4 DEF Outdated
<1>4. ASSUME StampIsCurrent(t)
      PROVE  ~Outdated(t, now)
  <2>1. ASSUME NEW a \in Ancestors[t] \ NoStamp
        PROVE  a \in Flagged /\ ~(stamp[a] > stamp[t])
    <3>1. stamp[a] # 0 /\ stamp[a] <= stamp[t]
      BY <1>4 DEF StampIsCurrent
    <3>2. a \in Task /\ stamp[a] \in Nat /\ stamp[t] \in Nat
      BY <1>1
    <3> QED
      BY <1>2, <3>1, <3>2
  <2> QED
    BY <1>1, <1>4, <2>1 DEF Outdated, StampIsCurrent
<1> QED
  BY <1>1, <1>3, <1>4 DEF Outdated, StampIsCurrent

(* v follows w by executions that complete and stamps that are made.       *)
Grows(w, v) ==
    /\ w.done \subseteq v.done
    /\ w.ran \subseteq v.ran
    /\ \A a \in Task : w.stamp[a] <= v.stamp[a]

LEMMA SettledGrows ==
    ASSUME NEW w \in Worlds, NEW v \in Worlds, Grows(w, v), NEW x \in Task, Settled(x, w)
    PROVE  Settled(x, v)
<1>1. ASSUME NEW a \in Task, Ran(a, w), HasStamp(a, w)
      PROVE  Ran(a, v) /\ HasStamp(a, v)
  <2>1. w.stamp[a] \in Nat /\ v.stamp[a] \in Nat /\ w.stamp[a] <= v.stamp[a]
    BY DEF Worlds, Grows
  <2> QED
    BY <1>1, <2>1 DEF Ran, HasStamp, Grows
<1> QED
  BY <1>1, AncestorsAreTasks DEF Settled, BeforeSettled

LEMMA OutdatedGrows ==
    ASSUME NEW w \in Worlds, NEW v \in Worlds, Grows(w, v), NEW t \in Task,
           v.stamp[t] = w.stamp[t], Outdated(t, w)
    PROVE  Outdated(t, v)
<1>1. \A a \in Task : /\ w.stamp[a] \in Nat /\ v.stamp[a] \in Nat
                      /\ w.stamp[a] <= v.stamp[a]
  BY DEF Worlds, Grows
<1> QED
  BY <1>1, AncestorsAreTasks DEF Outdated

LEMMA FrameGrows ==
    ASSUME NEW w \in Worlds, NEW v \in Worlds, Grows(w, v),
           NEW f \in Calls, f.next \in 1 .. Len(Steps(f.item)) + 1,
           v.stamp[f.task] = w.stamp[f.task], FrameInv(f, w)
    PROVE  FrameInv(f, v)
<1>1. f.task \in Task /\ f.item \in Task /\ f.cache \in SUBSET Task
  BY CallTypes
<1>2. Len(Steps(f.item)) \in Nat
  BY <1>1, StepsOfWalk
<1>3. Visited(f, v)
  <2>1. \A k \in 1 .. f.next - 1 : Steps(f.item)[k] \in Task
    BY <1>1, <1>2, StepsAreTasks
  <2> QED
    BY <2>1, SettledGrows DEF FrameInv, Visited
<1>4. Cached(f, v)
  BY <1>1, SettledGrows DEF FrameInv, Cached, Ran, Grows
<1>5. Stale(f, v)
  BY <1>1, OutdatedGrows DEF FrameInv, Stale
<1> QED
  BY <1>3, <1>4, <1>5 DEF FrameInv

(* Nothing needs to be done for do_clean to be settled.                    *)
LEMMA CleanerIsSettled ==
    ASSUME NEW w
    PROVE  Ran(Cleaner, w) /\ Settled(Cleaner, w)
  BY CleanerIsAlone, TaskExecAssumption
     DEF Settled, BeforeSettled, Ran, HasStamp, Stamped

(* When a walk has come to its item, all that comes before it is settled.  *)
LEMMA WalkAtItem ==
    ASSUME NEW w, NEW f \in Calls, FrameInv(f, w), f.next >= Len(Steps(f.item))
    PROVE  BeforeSettled(f.item, w)
<1>1. f.task \in Task /\ f.item \in Task /\ f.next \in Nat
  BY CallTypes
<1>2. ASSUME NEW p \in ParentsOf(f.item)
      PROVE  Settled(p, w)
  <2>1. PICK k \in 1 .. Len(Steps(f.item)) - 1 : p = Steps(f.item)[k]
    BY <1>1, StepsOfWalk
  <2>2. k \in 1 .. f.next - 1
    BY <1>1, <2>1, StepsOfWalk
  <2>3. p \in Ancestors[f.task]
    BY <1>1, ParentsAreBefore, BeforeIsTransitive DEF FrameInv, FrameLocal
  <2>4. p # f.task
    BY <1>1, <2>3, AncestorsAreTasks
  <2> QED
    BY <2>1, <2>2, <2>4 DEF FrameInv, Visited
<1> QED
  BY <1>1, <1>2, BeforeAParent DEF Settled, BeforeSettled

(* A call returned to f, with its item settled.                            *)
LEMMA CallerInv ==
    ASSUME NEW w, NEW f \in Calls, NEW g \in Calls, Link(f, g), FrameInv(f, w),
           f.pc = "walk", f.next \in 1 .. Len(Steps(f.item)), Settled(g.item, w)
    PROVE  FrameInv(Advanced(f), w)
<1>1. f.task \in Task /\ f.item \in Task /\ f.next \in Nat /\ Len(Steps(f.item)) \in Nat
  BY CallTypes, StepsOfWalk
<1> DEFINE h == Advanced(f)
<1>2. /\ h.next = f.next + 1 /\ h.task = f.task /\ h.item = f.item
      /\ h.cache = f.cache /\ h.pc = f.pc
  BY AdvancedIsCall
<1> HIDE DEF h
<1>3. ~(AtOwnTask(f) /\ f.next = Len(Steps(f.item)))
  BY <1>1, StepsOfWalk DEF Link, AtOwnTask
<1>4. FrameLocal(h)
  BY <1>1, <1>2, <1>3 DEF FrameInv, FrameLocal, AtOwnTask, WalkOver
<1>5. Visited(h, w)
  <2>1. \A k \in 1 .. h.next - 1 : k \in 1 .. f.next - 1 \/ k = f.next
    BY <1>1, <1>2
  <2> QED
    BY <1>2, <2>1 DEF FrameInv, Visited, Link
<1>6. Cached(h, w) /\ Stale(h, w)
  BY <1>2 DEF FrameInv, Cached, Stale
<1> QED
  BY <1>4, <1>5, <1>6 DEF FrameInv, h
-----------------------------------------------------------------------------
(* What the three changes of the stack do to WalkInv, given that the       *)
(* frames hold in the world after the step.                                *)
LEMMA ChainTo ==
    ASSUME StackOK, ChainOK, NEW i \in DOMAIN stack, i # Len(stack)
    PROVE  top.task \in Ancestors[stack[i].task] \cup {stack[i].task}
<1>1. /\ stack # <<>>
      /\ i \in 1 .. Len(stack)
      /\ Len(stack) \in DOMAIN stack
      /\ i <= Len(stack)
  BY TopIsCall, EmptySeq DEF StackOK
<1> QED
  BY <1>1 DEF ChainOK, top

LEMMA TopKeepsWalk ==
    ASSUME StackOK, stack # <<>>, NEW f \in Calls, Top(f), LinksOK, ChainOK,
           f.item = top.item, f.task = top.task, FrameInv(f, now'),
           \A i \in 1 .. Len(stack) - 1 : FrameInv(stack[i], now')
    PROVE  WalkInv'
<1> DEFINE n == Len(stack)
<1>1. /\ n \in Nat \ {0}
      /\ DOMAIN stack = 1 .. n /\ DOMAIN stack' = 1 .. n
      /\ stack'[n] = f /\ f.item = stack[n].item /\ f.task = stack[n].task
      /\ \A i \in 1 .. n - 1 : stack'[i] = stack[i]
  BY TopIsCall, TopChanges, LenProperties DEF StackOK, top
<1> HIDE DEF n
<1>2. \A i \in 1 .. n : stack'[i].task = stack[i].task /\ stack'[i].item = stack[i].item
  BY <1>1
<1>3. FramesOK'
  BY <1>1 DEF FramesOK, n
<1>4. ChainOK'
  BY <1>1, <1>2 DEF ChainOK
<1>5. LinksOK'
  <2>1. ASSUME NEW i \in 1 .. n, i > 1
        PROVE  Link(stack'[i - 1], stack'[i])
    <3>1. i - 1 \in 1 .. n - 1 /\ i \in DOMAIN stack
      BY <1>1, <2>1
    <3>2. Link(stack[i - 1], stack[i])
      BY <2>1, <3>1 DEF LinksOK
    <3> QED
      BY <1>1, <1>2, <3>1, <3>2 DEF Link
  <2> QED
    BY <1>1, <2>1 DEF LinksOK
<1> QED
  BY <1>3, <1>4, <1>5 DEF WalkInv

LEMMA PushKeepsWalk ==
    ASSUME StackOK, stack # <<>>, NEW f \in Calls, Push(f), LinksOK, ChainOK,
           Link(top, f), f.task \in Ancestors[top.task] \cup {top.task},
           FrameInv(f, now'), \A i \in DOMAIN stack : FrameInv(stack[i], now')
    PROVE  WalkInv'
<1> DEFINE n == Len(stack)
<1>1. /\ n \in Nat \ {0}
      /\ DOMAIN stack = 1 .. n /\ DOMAIN stack' = 1 .. n + 1
      /\ stack'[n + 1] = f
      /\ top = stack[n]
      /\ \A i \in 1 .. n : stack'[i] = stack[i] /\ stack[i] \in Calls
  BY TopIsCall, FramePushed, LenProperties, ElementOfSeq DEF StackOK, top
<1> HIDE DEF n
<1>2. FramesOK'
  BY <1>1 DEF FramesOK
<1>3. LinksOK'
  <2>1. ASSUME NEW i \in 1 .. n + 1, i > 1
        PROVE  Link(stack'[i - 1], stack'[i])
    <3>1. CASE i = n + 1
      <4>1. i - 1 = n
        BY <1>1, <3>1
      <4> QED
        BY <1>1, <3>1, <4>1
    <3>2. CASE i # n + 1
      <4>1. i \in DOMAIN stack /\ i - 1 \in 1 .. n /\ i \in 1 .. n
        BY <1>1, <2>1, <3>2
      <4> QED
        BY <1>1, <2>1, <4>1 DEF LinksOK
    <3> QED
      BY <3>1, <3>2
  <2> QED
    BY <1>1, <2>1 DEF LinksOK
<1>4. ChainOK'
  <2>1. ASSUME NEW i \in 1 .. n
        PROVE  f.task \in Ancestors[stack[i].task] \cup {stack[i].task}
    <3>1. top.task \in Ancestors[stack[i].task] \cup {stack[i].task}
      BY <1>1 DEF ChainOK
    <3>2. stack[i].task \in Task
      BY <1>1, CallTypes
    <3> QED
      BY <3>1, <3>2, BeforeIsTransitive
  <2> QED
    BY <1>1, <2>1 DEF ChainOK
<1> QED
  BY <1>2, <1>3, <1>4 DEF WalkInv

LEMMA PopKeepsWalk ==
    ASSUME StackOK, stack # <<>>, Len(stack) # 1, Pop, LinksOK, ChainOK,
           FrameInv(Advanced(stack[Len(stack) - 1]), now'),
           \A i \in DOMAIN stack : i < Len(stack) - 1 => FrameInv(stack[i], now')
    PROVE  WalkInv'
<1> DEFINE n == Len(stack) - 1
           f == Advanced(stack[n])
<1>1. /\ n \in Nat \ {0}
      /\ DOMAIN stack = 1 .. n + 1 /\ DOMAIN stack' = 1 .. n
      /\ stack'[n] = f
      /\ \A i \in 1 .. n - 1 : stack'[i] = stack[i]
      /\ stack[n] \in Calls
  BY TopIsCall, FramePopped, LenProperties, ElementOfSeq DEF StackOK, top
<1>2. f.item = stack[n].item /\ f.task = stack[n].task
  BY <1>1, AdvancedIsCall
<1>3. FrameInv(f, now') /\ \A i \in 1 .. n - 1 : FrameInv(stack[i], now')
  BY <1>1
<1> HIDE DEF n, f
<1>4. \A i \in 1 .. n : stack'[i].task = stack[i].task /\ stack'[i].item = stack[i].item
  BY <1>1, <1>2
<1>5. FramesOK'
  BY <1>1, <1>3 DEF FramesOK
<1>6. ChainOK'
  BY <1>1, <1>4 DEF ChainOK
<1>7. LinksOK'
  <2>1. ASSUME NEW i \in 1 .. n, i > 1
        PROVE  Link(stack'[i - 1], stack'[i])
    <3>1. i - 1 \in 1 .. n - 1 /\ i \in DOMAIN stack
      BY <1>1, <2>1
    <3>2. Link(stack[i - 1], stack[i])
      BY <2>1, <3>1 DEF LinksOK
    <3> QED
      BY <1>1, <1>4, <3>1, <3>2 DEF Link
  <2> QED
    BY <1>1, <2>1 DEF LinksOK
<1> QED
  BY <1>5, <1>6, <1>7 DEF WalkInv
-----------------------------------------------------------------------------
(* The top frame in a plain session.                                       *)
LEMMA TopInv ==
    ASSUME TypeInv, PlainInv, stack # <<>>
    PROVE  /\ FrameInv(top, now) /\ FrameLocal(top)
           /\ \A i \in 1 .. Len(stack) - 1 : FrameInv(stack[i], now)
           /\ \A i \in DOMAIN stack : FrameInv(stack[i], now)
           /\ LinksOK /\ ChainOK
<1>1. Len(stack) \in Nat \ {0} /\ DOMAIN stack = 1 .. Len(stack)
  BY TopIsCall DEF TypeInv
<1>2. \A i \in DOMAIN stack : FrameInv(stack[i], now)
  BY DEF PlainInv, WalkInv, FramesOK
<1> QED
  BY <1>1, <1>2 DEF PlainInv, WalkInv, FrameInv, top

(* While a walk has steps to go, all that the object's cache has is settled*)
LEMMA CacheSettled ==
    ASSUME PlainInv, Walking, TypeInv
    PROVE  \A x \in cache[command.via] : Settled(x, now)
<1>1. stack # <<>> /\ ~WalkOver(top)
  BY TopIsCall DEF Walking, WalkOver, TypeInv
<1> QED
  BY <1>1 DEF PlainInv, ObjectOK

(* What a step that only moves the stack leaves of PlainInv.               *)
LEMMA QuietStep ==
    ASSUME TypeInv, PlainInv, UNCHANGED <<session, disk, clock, ranNow, object, command>>,
           stack # <<>>, top.pc = "walk", WalkInv', CleanAlone',
           \A x \in cache[command.via] : Settled(x, now)
    PROVE  PlainInv'
<1>1. now' = now
  BY DEF now, disk
<1>2. UndoneAreOutdated'
  BY <1>1 DEF PlainInv, DiskInv, UndoneAreOutdated, Cleaning, disk
<1>3. StampsOK'
  BY <1>1 DEF PlainInv, DiskInv, StampsOK, disk
<1>4. ObjectOK'
  BY <1>1 DEF ObjectOK, object
<1>5. NothingForced'
  BY DEF PlainInv, NothingForced, object
<1> QED
  BY <1>2, <1>3, <1>4, <1>5 DEF PlainInv, DiskInv

LEMMA DescendInv ==
    ASSUME TypeInv, PlainInv, Descend
    PROVE  PlainInv'
<1> DEFINE f == Frame(top.task, reached, top.cache)
<1>1. /\ stack # <<>> /\ StackOK /\ Walking /\ Push(f)
      /\ top.pc = "walk" /\ top.next \in 1 .. Len(Steps(top.item))
      /\ reached # top.item /\ reached = Steps(top.item)[top.next]
      /\ now' = now
  BY TopIsCall DEF Descend, Walking, reached, TypeInv, now, disk
<1>2. /\ top.task \in Task /\ top.item \in Task /\ top.cache \in SUBSET Task
      /\ FrameInv(top, now)
  BY <1>1, TopIsCall, TopInv
<1>3. reached \in Task /\ reached \in Ancestors[top.item]
  BY <1>1, <1>2, StepsAreTasks
<1>4. reached \in Ancestors[top.task]
  BY <1>2, <1>3, BeforeIsTransitive DEF FrameInv, FrameLocal
<1>5. /\ f \in Calls /\ f.task = top.task /\ f.item = reached /\ f.next = 1
      /\ f.cache = top.cache /\ f.pc = "walk"
  BY <1>2, <1>3 DEF Frame, Calls
<1> HIDE DEF f
<1>6. FrameInv(f, now)
  <2>1. FrameLocal(f)
    BY <1>2, <1>3, <1>4, <1>5, AncestorsAreTasks
       DEF FrameInv, FrameLocal, AtOwnTask
  <2>2. Visited(f, now)
    BY <1>5 DEF Visited
  <2> QED
    BY <1>2, <1>5, <2>1, <2>2 DEF FrameInv, Cached, Stale
<1>7. Link(top, f)
  BY <1>1, <1>5 DEF Link
<1>8. WalkInv'
  BY <1>1, <1>5, <1>6, <1>7, TopInv, PushKeepsWalk
<1>9. CleanAlone'
  <2>1. top.task # Cleaner
    BY <1>4, CleanerIsAlone
  <2> QED
    BY <1>1, <1>5, <2>1, FramePushed DEF CleanAlone, StackOK
<1> QED
  BY <1>1, <1>8, <1>9, CacheSettled, QuietStep DEF Descend
(* The walk passes its item without more ado.                              *)
LEMMA AdvanceInv ==
    ASSUME TypeInv, PlainInv, Walking, Top(Advanced(top)),
           UNCHANGED <<session, disk, clock, ranNow, object, command>>,
           reached = top.item,
           IF AtOwnTask(top) THEN top.task \in top.cache ELSE Settled(top.item, now)
    PROVE  PlainInv'
<1> DEFINE f == Advanced(top)
<1>1. /\ stack # <<>> /\ StackOK /\ top \in Calls
      /\ top.pc = "walk" /\ top.next \in 1 .. Len(Steps(top.item))
      /\ Len(Steps(top.item)) \in Nat
      /\ top.item = Steps(top.item)[top.next]
      /\ now' = now
  BY TopIsCall DEF Walking, reached, TypeInv, now, disk
<1>2. /\ f \in Calls
      /\ f.next = top.next + 1 /\ f.task = top.task /\ f.item = top.item
      /\ f.cache = top.cache /\ f.pc = top.pc
  BY <1>1, AdvancedIsCall
<1>3. FrameInv(top, now)
  BY <1>1, TopInv
<1> HIDE DEF f
<1>4. FrameInv(f, now)
  <2>1. FrameLocal(f)
    BY <1>1, <1>2, <1>3 DEF FrameInv, FrameLocal, AtOwnTask
  <2>2. \A k \in 1 .. f.next - 1 : k \in 1 .. top.next - 1 \/ k = top.next
    BY <1>1, <1>2
  <2>3. Visited(f, now)
    BY <1>1, <1>2, <1>3, <2>2 DEF FrameInv, Visited, AtOwnTask
  <2> QED
    BY <1>2, <1>3, <2>1, <2>3 DEF FrameInv, Cached, Stale
<1>5. WalkInv'
  BY <1>1, <1>2, <1>4, TopInv, TopKeepsWalk DEF f
<1>6. CleanAlone'
  BY <1>1, <1>2, TopChanges DEF CleanAlone, PlainInv, StackOK, object, f
<1> QED
  BY <1>1, <1>5, <1>6, CacheSettled, QuietStep

LEMMA SkipItemInv ==
    ASSUME TypeInv, PlainInv, SkipItem
    PROVE  PlainInv'
<1>1. /\ stack # <<>> /\ Walking /\ top \in Calls /\ top.item \in Task
      /\ FrameInv(top, now)
      /\ top.next = Len(Steps(top.item))
      /\ top.item \notin Flagged \/ top.item \in top.cache
  BY TopIsCall, TopInv, StepsAreTasks DEF SkipItem, Walking, reached, TypeInv
<1>2. BeforeSettled(top.item, now)
  BY <1>1, WalkAtItem
<1>3. ASSUME ~AtOwnTask(top)
      PROVE  Settled(top.item, now)
  <2>1. CASE top.item \in top.cache
    BY <1>1, <1>3, <2>1 DEF FrameInv, Cached, AtOwnTask
  <2>2. CASE top.item \notin Flagged
    BY <1>2, <2>2 DEF Settled, Ran, HasStamp, Stamped
  <2> QED
    BY <1>1, <2>1, <2>2
<1>4. ASSUME AtOwnTask(top)
      PROVE  top.task \in top.cache
  BY <1>1, <1>4 DEF FrameInv, FrameLocal, AtOwnTask
<1> QED
  BY <1>1, <1>3, <1>4, AdvanceInv DEF SkipItem

LEMMA ExecNestedInv ==
    ASSUME TypeInv, PlainInv, ExecNested
    PROVE  PlainInv'
<1>1. /\ stack # <<>> /\ StackOK /\ Walking /\ top \in Calls
      /\ top.item \in Task /\ top.task \in Task
      /\ FrameInv(top, now) /\ FrameLocal(top)
      /\ top.pc = "walk" /\ ~Cleaning /\ ~AtOwnTask(top)
      /\ top.item \in Flagged /\ top.item # top.task
      /\ reached = top.item /\ top.item = Steps(top.item)[top.next]
      /\ top.next = Len(Steps(top.item))
  BY TopIsCall, TopInv, StepsAreTasks
     DEF ExecNested, Walking, reached, TypeInv, Cleaning, AtOwnTask
<1>2. BeforeSettled(top.item, now)
  BY <1>1, WalkAtItem
<1>3. UNCHANGED <<session, disk, clock, ranNow, object, command>> /\ now' = now
  BY DEF ExecNested, disk, now
<1>4. top.item \notin forced[command.via]
  BY DEF PlainInv, NothingForced, TypeInv, RestOK
<1>5. StampsOK /\ UndoneAreOutdated /\ now.done = done /\ now.stamp = stamp
  BY NowIsWorld DEF PlainInv, DiskInv
<1>6. CASE StampIsCurrent(top.item)
  <2>1. ~Outdated(top.item, now) /\ stamp[top.item] # 0
    BY <1>1, <1>5, <1>6, CurrentOrOutdated DEF StampIsCurrent
  <2>2. top.item \in Stamped /\ top.item \in done
    BY <1>1, <1>5, <2>1 DEF StampsOK, UndoneAreOutdated
  <2>3. Settled(top.item, now)
    BY <1>2, <1>5, <2>1, <2>2 DEF Settled, Ran, HasStamp, Stamped
  <2>4. Top(Advanced(top))
    BY <1>4, <1>6 DEF ExecNested
  <2> QED
    BY <1>1, <1>3, <2>3, <2>4, AdvanceInv
<1>7. CASE ~StampIsCurrent(top.item)
  <2> DEFINE f == Frame(top.item, top.item, cache[command.via])
  <2>1. Push(f)
    BY <1>4, <1>7 DEF ExecNested
  <2>2. /\ f \in Calls /\ f.task = top.item /\ f.item = top.item /\ f.next = 1
        /\ f.cache = cache[command.via] /\ f.pc = "walk"
    BY <1>1 DEF Frame, Calls, TypeInv, RestOK
  <2> HIDE DEF f
  <2>3. \A x \in f.cache : Settled(x, now)
    BY <1>1, <2>2, CacheSettled
  <2>4. top.item \in Ancestors[top.task]
    BY <1>1 DEF FrameLocal
  <2>5. FrameInv(f, now)
    <3>1. ~WalkOver(f)
      BY <1>1, <2>2, StepsOfWalk DEF WalkOver
    <3>2. FrameLocal(f)
      BY <1>1, <2>2, <3>1 DEF FrameLocal, AtOwnTask
    <3>3. Visited(f, now)
      BY <2>2 DEF Visited
    <3>4. Cached(f, now)
      BY <2>3 DEF Cached, Settled
    <3>5. Stale(f, now)
      BY <1>1, <1>5, <1>7, <2>2, CurrentOrOutdated DEF Stale
    <3> QED
      BY <3>2, <3>3, <3>4, <3>5 DEF FrameInv
  <2>6. Link(top, f)
    BY <1>1, <2>2 DEF Link
  <2>7. WalkInv'
    BY <1>1, <1>3, <2>1, <2>2, <2>4, <2>5, <2>6, TopInv, PushKeepsWalk
  <2>8. top.item # Cleaner
    BY <1>1, <2>4, CleanerIsAlone
  <2>9. CleanAlone'
    BY <1>1, <2>1, <2>2, <2>8, FramePushed DEF CleanAlone, StackOK
  <2> QED
    BY <1>1, <1>3, <2>7, <2>9, CacheSettled, QuietStep
<1> QED
  BY <1>6, <1>7

LEMMA StartFuncInv ==
    ASSUME TypeInv, PlainInv, StartFunc
    PROVE  PlainInv'
<1> DEFINE f == [top EXCEPT !.pc = "func"]
<1>1. /\ stack # <<>> /\ StackOK /\ Walking /\ top \in Calls /\ Top(f)
      /\ FrameInv(top, now) /\ AtOwnTask(top) /\ top.pc = "walk"
      /\ top.item \in Task
      /\ top.next = Len(Steps(top.item))
  BY TopIsCall, TopInv, StepsAreTasks
     DEF StartFunc, Walking, reached, TypeInv, AtOwnTask
<1>2. /\ f \in Calls /\ f.next = top.next /\ f.task = top.task /\ f.item = top.item
      /\ f.cache = top.cache /\ f.pc = "func"
  BY <1>1 DEF Calls
<1>3. UNCHANGED <<session, disk, clock, ranNow, object, command>> /\ now' = now
  BY DEF StartFunc, disk, now
<1> HIDE DEF f
<1>4. FrameInv(f, now)
  BY <1>1, <1>2
     DEF FrameInv, FrameLocal, AtOwnTask, WalkOver, Visited, Cached, Stale
<1>5. WalkInv'
  BY <1>1, <1>2, <1>3, <1>4, TopInv, TopKeepsWalk
<1>6. CleanAlone'
  BY <1>1, <1>2, <1>3, TopChanges DEF CleanAlone, PlainInv, StackOK, object
<1> QED
  BY <1>1, <1>3, <1>5, <1>6, CacheSettled, QuietStep
-----------------------------------------------------------------------------
(* The steps that execute something.                                       *)
LEMMA FuncSucceedsInv ==
    ASSUME TypeInv, TypeInv', PlainInv, FuncSucceeds
    PROVE  PlainInv'
<1> DEFINE f == [Advanced(top) EXCEPT !.cache = @ \cup {top.task}, !.pc = "walk"]
           t == top.task
<1>1. /\ stack # <<>> /\ StackOK /\ top \in Calls /\ Top(f)
      /\ FrameInv(top, now) /\ FrameLocal(top) /\ top.pc = "func" /\ t # Cleaner
      /\ t \in Task /\ top.item \in Task
      /\ top.next \in 1 .. Len(Steps(top.item))
      /\ ~Cleaning
  BY TopIsCall, TopInv DEF FuncSucceeds, Running, Remember, TypeInv, WalkOver, Cleaning
<1>2. AtOwnTask(top) /\ top.next = Len(Steps(top.item)) /\ top.next \in Nat
  BY <1>1 DEF FrameLocal
<1>3. /\ f \in Calls /\ f.next = top.next + 1 /\ f.task = t /\ f.item = top.item
      /\ f.cache = top.cache \cup {t} /\ f.pc = "walk"
  BY <1>1, AdvancedIsCall DEF Calls
<1> HIDE DEF f
<1>4. /\ now \in Worlds /\ now' \in Worlds
      /\ now.stamp = stamp /\ now.done = done /\ now.ran = ranNow
      /\ now'.stamp = stamp /\ now'.done = done \cup {t} /\ now'.ran = ranNow \cup {t}
  BY NowIsWorld DEF FuncSucceeds, now, Worlds, TypeInv, RestOK
<1>5. Grows(now, now')
  BY <1>4 DEF Grows, Worlds
<1>6. \A i \in DOMAIN stack : FrameInv(stack[i], now')
  <2>1. ASSUME NEW i \in DOMAIN stack
        PROVE  FrameInv(stack[i], now')
    <3>1. /\ stack[i] \in Calls
          /\ stack[i].next \in 1 .. Len(Steps(stack[i].item)) + 1
          /\ FrameInv(stack[i], now)
      BY <1>1, TopIsCall, TopInv, ElementOfSeq DEF StackOK, NextOK
    <3> QED
      BY <1>4, <1>5, <3>1, FrameGrows
  <2> QED
    BY <2>1
<1>7. FrameInv(top, now') /\ \A i \in 1 .. Len(stack) - 1 : FrameInv(stack[i], now')
  BY <1>1, <1>6, TopIsCall DEF top
<1>8. Ran(t, now')
  BY <1>4 DEF Ran
<1>9. FrameInv(f, now')
  <2>1. FrameLocal(f)
    BY <1>1, <1>3 DEF FrameLocal
  <2>2. Visited(f, now')
    <3>1. \A k \in 1 .. f.next - 1 : k \in 1 .. top.next - 1 \/ k = Len(Steps(top.item))
      BY <1>2, <1>3
    <3>2. Steps(top.item)[Len(Steps(top.item))] = t
      BY <1>1, <1>2, StepsOfWalk DEF AtOwnTask
    <3> QED
      BY <1>3, <1>7, <3>1, <3>2 DEF FrameInv, Visited
  <2>3. Cached(f, now') /\ Stale(f, now')
    BY <1>3, <1>7, <1>8 DEF FrameInv, Cached, Stale
  <2> QED
    BY <2>1, <2>2, <2>3 DEF FrameInv
<1>10. WalkInv'
  BY <1>1, <1>3, <1>7, <1>9, TopInv, TopKeepsWalk
<1>11. StampsOK'
  <2>1. clock <= clock' /\ clock \in Nat /\ clock' \in Nat /\ stamp' = stamp
        /\ stamp \in [Task -> Nat]
    BY DEF FuncSucceeds, TypeInv, RestOK
  <2> QED
    BY <1>4, <2>1 DEF PlainInv, DiskInv, StampsOK, HasStamp
<1>12. UndoneAreOutdated'
  <2>1. \A x \in Stamped \ done' : x \in Stamped \ done
    BY DEF FuncSucceeds
  <2>2. \A x \in Stamped \ done' : Outdated(x, now')
    BY <1>1, <1>4, <2>1 DEF PlainInv, DiskInv, UndoneAreOutdated, Outdated
  <2> QED
    BY <2>2 DEF UndoneAreOutdated
<1>13. /\ top' = f /\ command' = command /\ cache'[command.via] = f.cache
  BY <1>1, <1>3, TopChanges DEF FuncSucceeds, Remember, StackOK, TypeInv, RestOK
<1>14. ObjectOK'
  <2>1. AtOwnTask(f) /\ WalkOver(f)
    BY <1>2, <1>3 DEF AtOwnTask, WalkOver
  <2>2. \A x \in f.cache : x = t \/ Settled(x, now')
    BY <1>3, <1>7 DEF FrameInv, Cached
  <2> QED
    BY <1>3, <1>13, <2>1, <2>2 DEF ObjectOK
<1>15. CleanAlone'
  BY <1>1, <1>3, <1>13 DEF CleanAlone
<1>16. NothingForced'
  BY DEF PlainInv, NothingForced, FuncSucceeds
<1> QED
  BY <1>10, <1>11, <1>12, <1>14, <1>15, <1>16 DEF PlainInv, DiskInv

(* do_clean finds nothing but itself in memory; what holds of its frame    *)
(* holds in any world.                                                     *)
LEMMA CleanFrame ==
    ASSUME NEW f \in Calls, NEW w, FrameLocal(f), f.task = Cleaner,
           f.cache \subseteq {Cleaner}, f.next \in 1 .. Len(Steps(f.item)) + 1
    PROVE  FrameInv(f, w)
<1>1. f.item = Cleaner /\ Cleaner \in Task
  BY CleanerIsAlone, TaskExecAssumption DEF FrameLocal
<1>2. Visited(f, w)
  <2>1. Len(Parents[Cleaner]) = 0
    BY GraphAssumption
  <2>2. Len(Steps(Cleaner)) = 1
    <3>1. Len(Steps(Cleaner)) = Len(Parents[Cleaner]) + 1
      BY <1>1, StepsOfWalk
    <3> QED
      BY <2>1, <3>1
  <2>3. Steps(Cleaner)[1] = Cleaner
    BY <1>1, <2>2, StepsOfWalk
  <2>4. \A k \in 1 .. f.next - 1 : k = 1
    BY <1>1, <2>2
  <2> QED
    BY <1>1, <2>3, <2>4 DEF Visited
<1>3. Cached(f, w) /\ Stale(f, w)
  BY CleanerIsSettled, TaskExecAssumption DEF Cached, Stale, Stamped
<1> QED
  BY <1>2, <1>3 DEF FrameInv

(* The frame of do_clean is alone on the stack.                            *)
LEMMA CleanTopKeepsWalk ==
    ASSUME TypeInv, PlainInv, stack # <<>>, top.task = Cleaner,
           NEW f \in Calls, Top(f), f.item = top.item, f.task = top.task,
           FrameLocal(f), f.cache \subseteq {Cleaner},
           f.next \in 1 .. Len(Steps(f.item)) + 1
    PROVE  WalkInv' /\ top' = f /\ Len(stack') = 1 /\ stack' # <<>>
<1>1. StackOK /\ Len(stack) = 1 /\ LinksOK /\ ChainOK
  BY TopInv DEF TypeInv, PlainInv, CleanAlone
<1>2. FrameInv(f, now')
  BY CleanFrame
<1>3. \A i \in 1 .. Len(stack) - 1 : FrameInv(stack[i], now')
  BY <1>1
<1>4. WalkInv'
  BY <1>1, <1>2, <1>3, TopKeepsWalk
<1> QED
  BY <1>1, <1>4, TopChanges DEF StackOK

LEMMA CleanWorkdirInv ==
    ASSUME TypeInv, PlainInv, CleanWorkdir
    PROVE  PlainInv'
<1> DEFINE f == [top EXCEPT !.pc = "wiped"]
<1>1. /\ stack # <<>> /\ top \in Calls /\ Top(f)
      /\ FrameLocal(top) /\ top.pc = "func" /\ top.task = Cleaner
      /\ top.next \in 1 .. Len(Steps(top.item)) + 1
      /\ top.cache \subseteq {Cleaner} /\ cache[command.via] \subseteq {Cleaner}
  BY TopIsCall, TopInv DEF CleanWorkdir, Running, TypeInv, PlainInv, CleanAlone
<1>2. /\ f \in Calls /\ f.next = top.next /\ f.task = top.task /\ f.item = top.item
      /\ f.cache = top.cache /\ f.pc = "wiped"
  BY <1>1 DEF Calls
<1> HIDE DEF f
<1>3. FrameLocal(f)
  BY <1>1, <1>2 DEF FrameLocal, AtOwnTask, WalkOver
<1>4. WalkInv' /\ top' = f /\ Len(stack') = 1 /\ stack' # <<>>
  BY <1>1, <1>2, <1>3, CleanTopKeepsWalk
<1>5. UNCHANGED <<session, stamp, clock, ranNow, cache, forced, command>>
  BY DEF CleanWorkdir, object
<1>6. StampsOK'
  BY <1>5 DEF PlainInv, DiskInv, StampsOK, HasStamp, now
<1>7. UndoneAreOutdated'
  BY <1>2, <1>4 DEF UndoneAreOutdated, Cleaning
<1>8. ObjectOK' /\ CleanAlone' /\ NothingForced'
  BY <1>1, <1>2, <1>4, <1>5, CleanerIsSettled
     DEF ObjectOK, CleanAlone, PlainInv, NothingForced
<1> QED
  BY <1>4, <1>6, <1>7, <1>8 DEF PlainInv, DiskInv

LEMMA CleanStampsInv ==
    ASSUME TypeInv, PlainInv, CleanStamps
    PROVE  PlainInv'
<1> DEFINE f == [Advanced(top) EXCEPT !.cache = @ \cup {top.task}, !.pc = "walk"]
<1>1. /\ stack # <<>> /\ top \in Calls /\ Top(f)
      /\ FrameLocal(top) /\ top.pc = "wiped" /\ top.task = Cleaner
      /\ top.next \in 1 .. Len(Steps(top.item))
      /\ top.cache \subseteq {Cleaner}
  BY TopIsCall, TopInv
     DEF CleanStamps, Remember, TypeInv, PlainInv, CleanAlone, FrameLocal, WalkOver
<1>2. /\ f \in Calls /\ f.next = top.next + 1 /\ f.task = top.task /\ f.item = top.item
      /\ f.cache = top.cache \cup {top.task} /\ f.pc = "walk"
  BY <1>1, AdvancedIsCall DEF Calls
<1> HIDE DEF f
<1>3. FrameLocal(f) /\ f.next \in 1 .. Len(Steps(f.item)) + 1
  BY <1>1, <1>2 DEF FrameLocal, AtOwnTask, WalkOver
<1>4. WalkInv' /\ top' = f /\ Len(stack') = 1 /\ stack' # <<>>
  BY <1>1, <1>2, <1>3, CleanTopKeepsWalk
<1>5. /\ cache'[command.via] = top.cache \cup {top.task}
      /\ UNCHANGED <<session, clock, done, forced, command>>
      /\ stamp' = [t \in Task |-> 0]
      /\ clock \in Nat
  BY DEF CleanStamps, Remember, TypeInv, RestOK
<1>6. StampsOK'
  BY <1>5 DEF StampsOK
<1>7. UndoneAreOutdated'
  <2>1. \A t \in Stamped : Outdated(t, now')
    BY <1>5, TaskExecAssumption DEF Outdated, now, Stamped
  <2> QED
    BY <2>1 DEF UndoneAreOutdated
<1>8. ObjectOK' /\ CleanAlone' /\ NothingForced'
  BY <1>1, <1>2, <1>4, <1>5, CleanerIsSettled
     DEF ObjectOK, CleanAlone, PlainInv, NothingForced
<1> QED
  BY <1>4, <1>6, <1>7, <1>8 DEF PlainInv, DiskInv
-----------------------------------------------------------------------------
(* The steps that leave calls.                                             *)

(* An exception or a signal leaves them all; the task that was running is  *)
(* outdated.                                                               *)
LEMMA UnwoundInv ==
    ASSUME TypeInv, PlainInv, stack # <<>>, stack' = <<>>, ~Cleaning,
           UNCHANGED <<stamp, clock>>,
           done' = done \/ done' = done \ {top.task},
           NothingForced'
    PROVE  PlainInv'
<1>1. now'.stamp = stamp /\ now.stamp = stamp
  BY DEF now
<1>2. StampsOK'
  BY <1>1 DEF PlainInv, DiskInv, StampsOK, HasStamp
<1>3. UndoneAreOutdated'
  <2>1. \A x \in Stamped \ done' : Outdated(x, now)
    BY TopInv DEF PlainInv, DiskInv, UndoneAreOutdated, FrameInv, Stale
  <2> QED
    BY <1>1, <2>1 DEF UndoneAreOutdated, Outdated
<1>4. WalkInv'
  BY DEF WalkInv, FramesOK, LinksOK, ChainOK
<1>5. ObjectOK' /\ CleanAlone'
  BY DEF ObjectOK, CleanAlone
<1> QED
  BY <1>2, <1>3, <1>4, <1>5 DEF PlainInv, DiskInv

LEMMA FuncFailsInv ==
    ASSUME TypeInv, PlainInv, FuncFails
    PROVE  PlainInv'
<1>1. stack # <<>> /\ stack' = <<>> /\ ~Cleaning /\ done' = done \ {top.task}
  BY DEF FuncFails, Running, Unwind, Cleaning
<1>2. UNCHANGED <<stamp, clock>> /\ NothingForced'
  BY DEF FuncFails, PlainInv, NothingForced, object
<1> QED
  BY <1>1, <1>2, UnwoundInv

LEMMA KilledInv ==
    ASSUME TypeInv, Plain, PlainInv, Killed
    PROVE  PlainInv'
<1>1. stack # <<>> /\ stack' = <<>> /\ ~Cleaning
  BY DEF Killed, Plain, Unwind, Cleaning
<1>2. UNCHANGED <<stamp, clock>> /\ NothingForced'
  BY DEF Killed, NothingForced
<1>3. done' = done \/ done' = done \ {top.task}
  BY DEF Killed
<1> QED
  BY <1>1, <1>2, <1>3, UnwoundInv

(* The frame below the top, and what the top frame owes it.                *)
LEMMA CallerOfTop ==
    ASSUME TypeInv, PlainInv, stack # <<>>, Len(stack) # 1
    PROVE  LET n == Len(stack) - 1
           IN  /\ n \in DOMAIN stack /\ n < Len(stack)
               /\ stack[n] \in Calls
               /\ Link(stack[n], top)
               /\ stack[n].pc = "walk"
               /\ stack[n].next \in 1 .. Len(Steps(stack[n].item))
               /\ top.task \in Ancestors[stack[n].task] \cup {stack[n].task}
               /\ FrameInv(stack[n], now)
               /\ top.task # Cleaner /\ stack[n].task # Cleaner
<1> DEFINE n == Len(stack) - 1
<1>1. /\ StackOK /\ n \in Nat \ {0} /\ n + 1 = Len(stack)
      /\ DOMAIN stack = 1 .. n + 1
  BY TopIsCall DEF TypeInv
<1>2. n \in DOMAIN stack /\ n < Len(stack) /\ stack[n] \in Calls
  BY <1>1, ElementOfSeq DEF StackOK
<1>3. stack[n].item \in Task /\ stack[n].task \in Task
  BY <1>2, CallTypes
<1>4. /\ stack[n].pc = "walk"
      /\ stack[n].next \in 1 .. Len(Steps(stack[n].item))
  BY SMTT(30), <1>1, <1>2, <1>3, StepsOfWalk DEF StackOK, NextOK, WalkOver
<1>5. Link(stack[n], top) /\ FrameInv(stack[n], now)
  <2>1. n + 1 \in DOMAIN stack /\ n + 1 > 1 /\ (n + 1) - 1 = n /\ top = stack[n + 1]
    BY <1>1 DEF top
  <2>2. LinksOK /\ FrameInv(stack[n], now)
    BY <1>2, TopInv
  <2> HIDE DEF n
  <2> QED
    BY <2>1, <2>2 DEF LinksOK
<1>6. top.task \in Ancestors[stack[n].task] \cup {stack[n].task}
  BY <1>1, <1>2, TopInv, ChainTo
<1>7. top.task # Cleaner
  BY DEF PlainInv, CleanAlone
<1>8. stack[n].task # Cleaner
  BY <1>6, <1>7, CleanerIsAlone
<1> QED
  BY <1>2, <1>4, <1>5, <1>6, <1>7, <1>8

LEMMA WalkReturnsInv ==
    ASSUME TypeInv, PlainInv, WalkReturns
    PROVE  PlainInv'
<1> DEFINE n == Len(stack) - 1
<1>1. /\ stack # <<>> /\ StackOK /\ top \in Calls /\ Pop
      /\ FrameInv(top, now) /\ top.pc = "walk" /\ ~AtOwnTask(top)
      /\ Len(stack) # 1
      /\ top.item \in Task /\ top.next = Len(Steps(top.item)) + 1
      /\ top.item # top.task
      /\ now' = now
  BY TopIsCall, TopInv DEF WalkReturns, TypeInv, AtOwnTask, now, disk
<1>2. Settled(top.item, now)
  <2>1. Len(Steps(top.item)) \in 1 .. top.next - 1
    BY <1>1, StepsOfWalk
  <2> QED
    BY <1>1, <2>1, StepsOfWalk DEF FrameInv, Visited
<1>3. /\ n \in DOMAIN stack /\ n < Len(stack) /\ stack[n] \in Calls
      /\ FrameInv(Advanced(stack[n]), now)
      /\ stack[n].task # Cleaner
  BY <1>1, <1>2, CallerOfTop, CallerInv
<1>4. WalkInv'
  BY <1>1, <1>3, TopInv, PopKeepsWalk
<1>5. CleanAlone'
  BY <1>1, <1>3, FramePopped, AdvancedIsCall DEF CleanAlone, StackOK
<1>6. \A x \in cache[command.via] : Settled(x, now)
  BY <1>1 DEF PlainInv, ObjectOK
<1> QED
  BY <1>1, <1>4, <1>5, <1>6, QuietStep DEF WalkReturns
(* exec_task returns: its task ran, so that it is settled with its stamp.  *)
LEMMA StampMade ==
    ASSUME TypeInv, TypeInv', PlainInv, ExecReturns
    PROVE  /\ now \in Worlds /\ now' \in Worlds /\ Grows(now, now')
           /\ Settled(top.task, now') /\ Ran(top.task, now)
           /\ \A x \in Task : x # top.task => now'.stamp[x] = now.stamp[x]
           /\ now.stamp = stamp /\ now'.stamp = stamp' /\ done' = done
           /\ stamp'[top.task] # stamp[top.task] =>
                  top.task \in Stamped /\ stamp'[top.task] = clock
<1> DEFINE t == top.task
<1>1. /\ stack # <<>> /\ top \in Calls /\ t \in Task /\ t \in Flagged
      /\ FrameInv(top, now) /\ top.item = t /\ t \in top.cache
      /\ top.next >= Len(Steps(top.item))
  BY TopIsCall, TopInv
     DEF ExecReturns, TypeInv, AtOwnTask, FrameInv, FrameLocal, WalkOver
<1>2. /\ now \in Worlds /\ now' \in Worlds
      /\ now.stamp = stamp /\ now.done = done /\ now.ran = ranNow
      /\ now'.stamp = stamp' /\ now'.done = done /\ now'.ran = ranNow
      /\ done' = done
      /\ stamp \in [Task -> Nat] /\ clock \in Nat \ {0} /\ stamp[t] <= clock
  BY <1>1, NowIsWorld
     DEF ExecReturns, now, Worlds, TypeInv, RestOK, PlainInv, DiskInv, StampsOK
<1>3. stamp' = IF t \in NoStamp THEN stamp ELSE [stamp EXCEPT ![t] = clock]
  BY DEF ExecReturns, MkStamp
<1>4. \A x \in Task : x # t => stamp'[x] = stamp[x]
  BY <1>2, <1>3
<1>5. t \in Stamped => stamp'[t] = clock
  BY <1>1, <1>2, <1>3 DEF Stamped
<1>6. t \in NoStamp => stamp' = stamp
  BY <1>3
<1>7. \A a \in Task : stamp[a] <= stamp'[a]
  BY <1>1, <1>2, <1>4, <1>5, <1>6 DEF Stamped
<1>8. Grows(now, now')
  BY <1>2, <1>7 DEF Grows
<1>9. Ran(t, now)
  BY <1>1 DEF FrameInv, Cached
<1>10. Settled(t, now')
  <2>1. BeforeSettled(t, now)
    BY <1>1, WalkAtItem
  <2>2. BeforeSettled(t, now')
    <3>1. \A a \in Ancestors[t] : a \in Task /\ a # t
      BY <1>1, AncestorsAreTasks
    <3> QED
      BY <1>2, <1>4, <2>1, <3>1 DEF BeforeSettled, Ran, HasStamp
  <2> QED
    BY <1>2, <1>5, <1>9, <2>2 DEF Settled, Ran, HasStamp
<1> QED
  BY <1>1, <1>2, <1>4, <1>5, <1>6, <1>8, <1>9, <1>10 DEF Stamped

LEMMA ExecReturnsDisk ==
    ASSUME TypeInv, TypeInv', PlainInv, ExecReturns
    PROVE  DiskInv'
<1> DEFINE t == top.task
<1>1. /\ stack # <<>> /\ ~Cleaning /\ t \in Task /\ clock' = clock
  BY TopIsCall DEF ExecReturns, Cleaning, TypeInv
<1>2. StampsOK'
  <2>1. ASSUME NEW x \in Task, stamp'[x] # stamp[x]
        PROVE  /\ x = t /\ x \in Stamped /\ stamp'[x] <= clock'
               /\ \A a \in Ancestors[x] : HasStamp(a, now')
    <3>1. x = t /\ x \in Stamped /\ stamp'[x] = clock
      BY <2>1, StampMade
    <3>2. clock' \in Nat
      BY DEF TypeInv, RestOK
    <3>3. \A a \in Ancestors[t] : HasStamp(a, now')
      BY StampMade DEF Settled, BeforeSettled
    <3> QED
      BY <1>1, <3>1, <3>2, <3>3
  <2>2. ASSUME NEW x \in Task, stamp'[x] = stamp[x]
        PROVE  /\ stamp'[x] <= clock'
               /\ stamp'[x] # 0 =>
                    x \in Stamped /\ \A a \in Ancestors[x] : HasStamp(a, now')
    <3>1. /\ stamp[x] <= clock
          /\ stamp[x] # 0 => x \in Stamped /\ \A a \in Ancestors[x] : HasStamp(a, now)
      BY DEF PlainInv, DiskInv, StampsOK
    <3>2. \A a \in Task : HasStamp(a, now) => HasStamp(a, now')
      BY StampMade DEF Settled, HasStamp
    <3> QED
      BY <1>1, <2>2, <3>1, <3>2, AncestorsAreTasks
  <2> QED
    BY <2>1, <2>2 DEF StampsOK
<1>3. UndoneAreOutdated'
  <2>1. ASSUME NEW x \in Stamped \ done'
        PROVE  Outdated(x, now')
    <3>1. x \in Task /\ Outdated(x, now)
      BY <1>1, <2>1, StampMade, TaskExecAssumption
         DEF PlainInv, DiskInv, UndoneAreOutdated, Stamped
    <3>2. x # t
      BY <2>1, StampMade, TaskExecAssumption, NowIsWorld DEF Ran, Stamped
    <3> QED
      BY <3>1, <3>2, StampMade, OutdatedGrows
  <2> QED
    BY <2>1 DEF UndoneAreOutdated
<1> QED
  BY <1>2, <1>3 DEF DiskInv

LEMMA ExecReturnsInv ==
    ASSUME TypeInv, TypeInv', PlainInv, ExecReturns
    PROVE  PlainInv'
<1> DEFINE n == Len(stack) - 1
           t == top.task
<1>1. /\ stack # <<>> /\ StackOK /\ top \in Calls /\ t \in Task
      /\ top.item = t
      /\ UNCHANGED <<cache, forced, command>>
      /\ cache[command.via] \in SUBSET Task
  BY TopIsCall DEF ExecReturns, TypeInv, AtOwnTask, object, RestOK
<1>2. DiskInv' /\ NothingForced'
  BY <1>1, ExecReturnsDisk DEF PlainInv, NothingForced
<1>3. CASE stack' = <<>>
  <2>1. WalkInv'
    BY <1>3 DEF WalkInv, FramesOK, LinksOK, ChainOK
  <2>2. ObjectOK' /\ CleanAlone'
    BY <1>3 DEF ObjectOK, CleanAlone
  <2> QED
    BY <1>2, <2>1, <2>2 DEF PlainInv
<1>4. CASE Len(stack) # 1 /\ Pop
  <2>1. /\ n \in DOMAIN stack /\ n < Len(stack)
        /\ stack[n] \in Calls /\ stack[n].task \in Task /\ stack[n].item \in Task
        /\ Link(stack[n], top)
        /\ stack[n].pc = "walk"
        /\ stack[n].next \in 1 .. Len(Steps(stack[n].item))
        /\ FrameInv(stack[n], now)
        /\ stack[n].task # Cleaner
    BY <1>1, <1>4, CallerOfTop, CallTypes
  <2>2. t \in Ancestors[stack[n].task]
    <3>1. top.item = stack[n].item \/ top.item \in Ancestors[stack[n].item]
      BY <2>1, StepsAreTasks DEF Link
    <3>2. stack[n].item \in Ancestors[stack[n].task] \cup {stack[n].task}
      BY <2>1 DEF FrameInv, FrameLocal
    <3>3. t = stack[n].task => stack[n].item # t
      BY <1>1, <2>1 DEF Link
    <3> QED
      BY <1>1, <2>1, <3>1, <3>2, <3>3, BeforeIsTransitive, AncestorsAreTasks
  <2>3. ASSUME NEW i \in DOMAIN stack, i < Len(stack)
        PROVE  FrameInv(stack[i], now')
    <3>1. /\ stack[i] \in Calls /\ stack[i].task \in Task
          /\ stack[i].next \in 1 .. Len(Steps(stack[i].item)) + 1
          /\ FrameInv(stack[i], now)
      BY <1>1, TopIsCall, TopInv, ElementOfSeq, CallTypes DEF StackOK, NextOK
    <3>2. stack[n].task \in Ancestors[stack[i].task] \cup {stack[i].task}
      <4>1. i <= n
        BY <1>1, <2>3, TopIsCall
      <4> QED
        BY <2>1, <4>1 DEF PlainInv, WalkInv, ChainOK
    <3>3. t # stack[i].task
      BY <2>2, <3>1, <3>2, BeforeIsTransitive, AncestorsAreTasks
    <3> QED
      BY <3>1, <3>3, StampMade, FrameGrows
  <2>4. FrameInv(stack[n], now') /\ \A i \in DOMAIN stack : i < n => FrameInv(stack[i], now')
    BY <1>1, <2>1, <2>3, TopIsCall
  <2>5. FrameInv(Advanced(stack[n]), now')
    BY <1>1, <2>1, <2>4, StampMade, CallerInv
  <2>6. WalkInv'
    BY <1>1, <1>4, <2>4, <2>5, TopInv, PopKeepsWalk
  <2>7. CleanAlone'
    BY <1>1, <1>4, <2>1, FramePopped, AdvancedIsCall DEF CleanAlone, StackOK
  <2>8. ObjectOK'
    <3>1. \A x \in cache[command.via] : x = t \/ Settled(x, now)
      BY <1>1 DEF PlainInv, ObjectOK
    <3>2. \A x \in cache[command.via] : Settled(x, now')
      BY <1>1, <3>1, StampMade, SettledGrows
    <3> QED
      BY <1>1, <3>2 DEF ObjectOK
  <2> QED
    BY <1>2, <2>6, <2>7, <2>8 DEF PlainInv
<1> QED
  BY <1>3, <1>4 DEF ExecReturns, Unwind
-----------------------------------------------------------------------------
(* The commands.                                                           *)
LEMMA CommandInv ==
    ASSUME CommandsNameTasks, TypeInv, TypeInv', Plain, PlainInv, NEW t \in Targets,
           BuildFile(t, FALSE) \/ BuildTarget(t, FALSE)
    PROVE  PlainInv'
<1>1. PICK via \in Via :
        /\ Command(t, FALSE, via)
        /\ \/ TryBuildPackage(t, FALSE, via)
           \/ forced' = Fresh(forced) /\ stack' = stack
  BY DEF BuildFile, BuildTarget, Via
<1>2. \A objects : Fresh(objects) = [v \in Via |-> {}]
  BY DEF Fresh, Plain
<1>3. /\ stack = <<>> /\ ~Cleaning
      /\ UNCHANGED <<stamp, done, clock>>
      /\ cache' = [v \in Via |-> {}] /\ command'.via = via
      /\ now'.stamp = stamp /\ now.stamp = stamp
  BY <1>1, <1>2 DEF Command, Cleaning, disk, now
<1>4. cache'[command'.via] = {} /\ Fresh(cache)[via] = {} /\ Fresh(forced)[via] = {}
  BY <1>2, <1>3
<1>5. StampsOK'
  BY <1>3 DEF PlainInv, DiskInv, StampsOK, HasStamp
<1>6. \A x \in Stamped \ done' : Outdated(x, now')
  BY <1>3 DEF PlainInv, DiskInv, UndoneAreOutdated, Outdated
<1>7. NothingForced'
  BY <1>1, <1>2, <1>4 DEF TryBuildPackage, NothingForced
<1>8. ObjectOK'
  BY <1>4 DEF ObjectOK
<1>9. CASE stack' = <<>>
  BY <1>5, <1>6, <1>7, <1>8, <1>9
     DEF PlainInv, DiskInv, UndoneAreOutdated, WalkInv, FramesOK, LinksOK, ChainOK, CleanAlone
<1>10. CASE stack' # <<>>
  <2> DEFINE f == Frame(t, t, {})
  <2>1. t \in Task /\ t \in Flagged /\ ~StampIsCurrent(t) /\ Push(f)
    BY <1>1, <1>3, <1>4, <1>10 DEF TryBuildPackage, CommandsNameTasks
  <2>2. /\ f \in Calls /\ f.task = t /\ f.item = t /\ f.next = 1
        /\ f.cache = {} /\ f.pc = "walk"
    BY <2>1 DEF Frame, Calls
  <2> HIDE DEF f
  <2>3. /\ DOMAIN stack' = {1} /\ stack'[1] = f /\ top' = f /\ Len(stack') = 1
    <3>1. Len(stack) = 0 /\ stack \in Seq(Calls)
      BY <1>3, EmptySeq
    <3>2. stack' \in Seq(Calls) /\ Len(stack') = 1 /\ top' = f
      BY <2>1, <2>2, <3>1, FramePushed
    <3> QED
      BY <3>2, LenProperties DEF top
  <2>4. FrameInv(f, now')
    <3>1. ~WalkOver(f)
      BY <2>1, <2>2, StepsOfWalk DEF WalkOver
    <3>2. FrameLocal(f)
      BY <2>1, <2>2, <3>1 DEF FrameLocal
    <3>3. Stale(f, now')
      BY <1>3, <2>1, <2>2, CurrentOrOutdated DEF Stale, Outdated, PlainInv, DiskInv
    <3> QED
      BY <2>2, <3>2, <3>3 DEF FrameInv, Visited, Cached
  <2>5. WalkInv'
    BY <2>3, <2>4 DEF WalkInv, FramesOK, LinksOK, ChainOK
  <2>6. CleanAlone'
    BY <1>4, <2>2, <2>3 DEF CleanAlone
  <2> QED
    BY <1>5, <1>6, <1>7, <1>8, <2>5, <2>6 DEF PlainInv, DiskInv, UndoneAreOutdated
<1> QED
  BY <1>9, <1>10

LEMMA SessionNeverChanges == [Next]_vars => session' = session
  BY DEF vars, Next, Step, Descend, SkipItem, ExecNested, StartFunc, FuncSucceeds,
         CleanWorkdir, CleanStamps, FuncFails, WalkReturns, ExecReturns, Killed,
         BuildFile, BuildTarget, Command

LEMMA NextKeepsIInv ==
    ASSUME CommandsNameTasks
    PROVE  IInv /\ [Next]_vars => IInv'
<1> SUFFICES ASSUME IInv, [Next]_vars PROVE IInv'
  OBVIOUS
<1>1. TypeInv /\ TypeInv'
  BY NextKeepsTypes DEF IInv
<1>2. SUFFICES ASSUME Plain PROVE PlainInv'
  BY <1>1, SessionNeverChanges DEF IInv, Plain
<1>3. PlainInv
  BY <1>2 DEF IInv
<1>4. CASE Step
  BY <1>1, <1>3, <1>4, DescendInv, SkipItemInv, ExecNestedInv, StartFuncInv,
     FuncSucceedsInv, CleanWorkdirInv, CleanStampsInv, FuncFailsInv, WalkReturnsInv,
     ExecReturnsInv DEF Step
<1>5. CASE Killed
  BY <1>1, <1>2, <1>3, <1>5, KilledInv
<1>6. ASSUME NEW t \in Targets, NEW force \in MayForce,
             BuildFile(t, force) \/ BuildTarget(t, force)
      PROVE  PlainInv'
  <2>1. force = FALSE
    <3>1. session.mayForce = FALSE
      BY <1>1, <1>2, TaskExecAssumption DEF Plain, TypeInv, RestOK, SessionType
    <3> QED
      BY <3>1 DEF MayForce
  <2> QED
    BY <1>1, <1>2, <1>3, <1>6, <2>1, CommandInv
<1>7. CASE UNCHANGED vars
  <2>1. now' = now /\ top' = top /\ Cleaning' = Cleaning
    BY <1>7 DEF vars, now, top, Cleaning
  <2> QED
    BY <1>3, <1>7, <2>1
       DEF vars, PlainInv, DiskInv, StampsOK, UndoneAreOutdated, NothingForced, WalkInv,
           FramesOK, LinksOK, ChainOK, ObjectOK, CleanAlone
<1> QED
  BY <1>4, <1>5, <1>6, <1>7 DEF Next

LEMMA InitIInv == Init => IInv
<1> SUFFICES ASSUME Init PROVE IInv
  OBVIOUS
<1>1. DiskInv
  BY TaskExecAssumption
     DEF Init, DiskInv, StampsOK, UndoneAreOutdated, Outdated, now, Stamped
<1>2. WalkInv /\ ObjectOK /\ CleanAlone
  BY DEF Init, WalkInv, FramesOK, LinksOK, ChainOK, ObjectOK, CleanAlone
<1> QED
  BY <1>1, <1>2, InitTypes DEF IInv, PlainInv, NothingForced, Init

LEMMA IInvIsInvariant ==
    ASSUME CommandsNameTasks
    PROVE  Spec => []IInv
<1>1. IInv /\ [Next]_vars => IInv'
  BY NextKeepsIInv
<1> QED
  BY InitIInv, <1>1, PTL DEF Spec

(* In a plain session, whatever failed, was killed or cleaned, what        *)
(* stamp_is_current accepts is a task whose last execution completed and   *)
(* whose output was not removed since.                                     *)
THEOREM StampsTellTruthInPlainSessions ==
    ASSUME CommandsNameTasks
    PROVE  Spec => []CurrentIsDone
<1>1. IInv => CurrentIsDone
  <2> SUFFICES ASSUME IInv, Plain, ~Cleaning, NEW t \in Stamped, StampIsCurrent(t)
               PROVE  t \in done
    BY DEF CurrentIsDone, StampsTellTruth
  <2> QED
    BY CurrentOrOutdated, TaskExecAssumption
       DEF IInv, PlainInv, DiskInv, UndoneAreOutdated, Stamped
<1> QED
  BY IInvIsInvariant, <1>1, PTL

(* In a plain session a function starts when every task before it has      *)
(* completed, in this very command if it leaves no stamp.                  *)
THEOREM DependenciesFirst ==
    ASSUME CommandsNameTasks
    PROVE  Spec => []DepsDoneFirst
<1>1. IInv => DepsDoneFirst
  <2> SUFFICES ASSUME IInv, Plain, Running, NEW a \in Ancestors[top.task] \cap Flagged
               PROVE  a \in done /\ (a \in NoStamp => a \in ranNow)
    BY DEF DepsDoneFirst
  <2>1. /\ TypeInv /\ PlainInv /\ stack # <<>> /\ top.pc = "func"
        /\ top \in Calls /\ top.task \in Task
    BY TopIsCall DEF IInv, Running, TypeInv
  <2>2. FrameInv(top, now) /\ top.item = top.task /\ top.next = Len(Steps(top.item))
    BY <2>1, TopInv DEF FrameLocal, AtOwnTask
  <2>3. BeforeSettled(top.task, now)
    BY <2>1, <2>2, StepsOfWalk, WalkAtItem
  <2>4. a # Cleaner
    BY <2>1, CleanerIsAlone
  <2> QED
    BY <2>1, <2>3, <2>4, NowIsWorld DEF BeforeSettled, Ran
<1> QED
  BY IInvIsInvariant, <1>1, PTL

-----------------------------------------------------------------------------
(* The order of executions.  Commands read their own metadata, and with -f *)
(* functions take time and stamps follow them.                             *)
Ordered ==
    /\ ~session.keepsData
    /\ session.mayForce => ~session.instant /\ "walk" \notin session.killedIn

(* Before x is a name without `task` flag: x is asked for a stamp that     *)
(* nothing makes.                                                          *)
Stuck(x) == \E b \in Ancestors[x] \ NoStamp : b \notin Flagged

(* Stamps are made from the first task on, and what is before a current    *)
(* task is current.                                                        *)
Layers ==
    /\ \A x \in Task : stamp[x] # 0 => x \in Stamped
    /\ \A x \in Task : stamp[x] # 0 /\ ~Stuck(x) =>
            \A a \in Ancestors[x] \cap Stamped : stamp[a] # 0
    /\ \A x \in Stamped : StampIsCurrent(x) =>
            \A p \in Ancestors[x] \cap Stamped : StampIsCurrent(p)

(* p ran again after q, which is before the current task x or is x.        *)
OutOfOrder(x, p, q) ==
    /\ x \in Stamped /\ StampIsCurrent(x)
    /\ q \in (Ancestors[x] \cup {x}) \cap Stamped
    /\ p \in Ancestors[q] \cap Stamped
    /\ <<p, q>> \in newer

(* A forced task has run, and its stamp is still to be made.               *)
Redone(p) == stack # <<>> /\ ~Going /\ p = command.target /\ session.mayForce

InOrder == \A x, p, q \in Task : OutOfOrder(x, p, q) => Redone(p)

(* What exec_task walks for is not current, or has the `force` flag.       *)
NeedsRun ==
    stack # <<>> =>
        /\ command.target \in forced[command.via] \/ ~StampIsCurrent(command.target)
        /\ top.task # command.target => ~StampIsCurrent(top.task)

OrderInv == Layers /\ InOrder /\ NeedsRun

LEMMA StampedAreTasks == Stamped \subseteq Task /\ Stamped \subseteq Flagged
  BY TaskExecAssumption DEF Stamped

LEMMA StuckSpreads ==
    ASSUME NEW t \in Task, NEW a \in Ancestors[t], Stuck(a)
    PROVE  Stuck(t)
  BY BeforeIsTransitive DEF Stuck

LEMMA SameCurrent ==
    ASSUME stamp' = stamp
    PROVE  \A x : StampIsCurrent(x)' <=> StampIsCurrent(x)
  BY DEF StampIsCurrent

(* The stamp of t is made.                                                 *)
LEMMA StampOf ==
    ASSUME TypeInv, StampsArePast, NEW t \in Task, t \notin NoStamp, MkStamp(t)
    PROVE  /\ stamp'[t] = clock /\ clock \in Nat \ {0}
           /\ \A x \in Task : x # t => stamp'[x] = stamp[x]
           /\ \A x \in Task : stamp[x] \in Nat /\ stamp[x] <= clock
  BY DEF MkStamp, TypeInv, RestOK, StampsArePast

(* It changes nothing for tasks that t is not before.                      *)
LEMMA OthersStay ==
    ASSUME TypeInv, StampsArePast, NEW t \in Task, t \notin NoStamp, MkStamp(t),
           NEW x \in Task, x # t, t \notin Ancestors[x]
    PROVE  StampIsCurrent(x)' <=> StampIsCurrent(x)
<1>1. \A a \in Ancestors[x] \cup {x} : stamp'[a] = stamp[a]
  BY StampOf, AncestorsAreTasks
<1> QED
  BY <1>1 DEF StampIsCurrent

(* It makes no other task current.                                         *)
LEMMA OthersStayOutdated ==
    ASSUME TypeInv, StampsArePast, Layers, NEW t \in Task, t \in Flagged, t \notin NoStamp,
           MkStamp(t), NEW x \in Task, x # t, ~StampIsCurrent(x)
    PROVE  ~StampIsCurrent(x)'
<1>1. CASE stamp[x] = 0
  BY <1>1, StampOf DEF StampIsCurrent
<1>2. CASE stamp[x] # 0
  <2>1. PICK a \in Ancestors[x] \cup {x} :
            a \notin NoStamp /\ (stamp[a] = 0 \/ ~(stamp[a] <= stamp[x]))
    BY <1>2 DEF StampIsCurrent
  <2>2. /\ a \in Task /\ a \in Ancestors[x]
        /\ stamp[a] \in Nat /\ stamp[x] \in Nat /\ stamp'[x] = stamp[x]
    BY <1>2, <2>1, StampOf, AncestorsAreTasks
  <2>3. CASE stamp[a] # 0
    <3>1. stamp'[a] > stamp[x] /\ stamp'[a] \in Nat
      BY <2>1, <2>2, <2>3, StampOf
    <3> QED
      BY <2>1, <2>2, <3>1 DEF StampIsCurrent
  <2>4. CASE stamp[a] = 0
    <3>1. PICK b \in Ancestors[x] : b \notin NoStamp /\ b \notin Flagged
      <4>1. CASE a \in Flagged
        BY <1>2, <2>1, <2>2, <2>4, <4>1 DEF Layers, Stuck, Stamped
      <4>2. CASE a \notin Flagged
        BY <2>1, <2>2, <4>2
      <4> QED
        BY <4>1, <4>2
    <3>2. b \in Task /\ b # t /\ stamp[b] = 0
      BY <3>1, AncestorsAreTasks DEF Layers, Stamped
    <3>3. stamp'[b] = 0
      BY <3>2, StampOf
    <3> QED
      BY <3>1, <3>3 DEF StampIsCurrent
  <2> QED
    BY <2>3, <2>4
<1> QED
  BY <1>1, <1>2

(* What a task must find before its stamp is made.                         *)
Ready(t) ==
    /\ \A a \in Ancestors[t] \cap Stamped : StampIsCurrent(a) \/ Stuck(a)
    /\ \A q \in (Ancestors[t] \cup {t}) \cap Stamped : q \in ranNow \/ (q # t /\ StampIsCurrent(q))
    /\ \A q \in ranNow : \A p \in Ancestors[q] : <<p, q>> \notin newer

(* The tasks after t that are current will be older than it.               *)
Renews(t) == \A x \in Stamped : t \in Ancestors[x] /\ StampIsCurrent(x) => stamp[x] < clock

LEMMA StampKeepsLayers ==
    ASSUME TypeInv, StampsArePast, Layers, NEW t \in Task, t \in Flagged, t \notin NoStamp,
           MkStamp(t), Ready(t), Renews(t)
    PROVE  Layers'
<1>1. /\ stamp'[t] = clock /\ clock \in Nat \ {0}
      /\ \A x \in Task : x # t => stamp'[x] = stamp[x]
      /\ \A x \in Task : stamp[x] \in Nat /\ stamp[x] <= clock
  BY StampOf
<1>2. \A x \in Task : stamp'[x] # 0 => x \in Stamped
  BY <1>1 DEF Layers, Stamped
<1>3. ASSUME NEW x \in Task, stamp'[x] # 0, ~Stuck(x), NEW a \in Ancestors[x] \cap Stamped
      PROVE  stamp'[a] # 0
  <2>1. a \in Task /\ a # x
    BY <1>3, AncestorsAreTasks
  <2>2. CASE x = t
    <3>1. ~Stuck(a)
      BY <1>3, <2>2, StuckSpreads
    <3>2. StampIsCurrent(a)
      BY <1>3, <2>2, <3>1 DEF Ready
    <3> QED
      BY <1>1, <2>1, <2>2, <3>2 DEF StampIsCurrent
  <2>3. CASE x # t
    <3>1. stamp[a] # 0
      BY <1>1, <1>3, <2>3 DEF Layers
    <3> QED
      BY <1>1, <2>1, <3>1
  <2> QED
    BY <2>2, <2>3
<1>4. ASSUME NEW x \in Stamped, StampIsCurrent(x)', NEW p \in Ancestors[x] \cap Stamped
      PROVE  StampIsCurrent(p)'
  <2>1. x \in Task /\ p \in Task /\ Ancestors[p] \subseteq Ancestors[x] /\ p # x
    BY <1>4, StampedAreTasks, BeforeIsTransitive, AncestorsAreTasks
  <2>2. CASE x = t
    <3>1. ~Stuck(p)
      <4>1. ASSUME Stuck(p)
            PROVE  FALSE
        <5>1. PICK b \in Ancestors[p] : b \notin NoStamp /\ b \notin Flagged
          BY <4>1 DEF Stuck
        <5>2. b \in Ancestors[x] /\ b \in Task
          BY <2>1, <5>1, AncestorsAreTasks
        <5>3. stamp'[b] = 0
          BY <1>2, <5>1, <5>2 DEF Stamped
        <5> QED
          BY <1>4, <5>1, <5>2, <5>3 DEF StampIsCurrent
      <4> QED
        BY <4>1
    <3>2. StampIsCurrent(p)
      BY <1>4, <2>2, <3>1 DEF Ready
    <3>3. t \notin Ancestors[p] /\ p # t
      BY <2>1, <2>2, AncestorsAreTasks
    <3> QED
      BY <2>1, <3>2, <3>3, OthersStay
  <2>3. CASE x # t
    <3>1. StampIsCurrent(x)
      BY <1>4, <2>1, <2>3, OthersStayOutdated
    <3>2. t \notin Ancestors[x]
      <4>1. ASSUME t \in Ancestors[x]
            PROVE  FALSE
        <5>1. stamp[x] < clock /\ stamp'[x] = stamp[x] /\ stamp[x] \in Nat
          BY <1>1, <1>4, <2>1, <2>3, <3>1, <4>1 DEF Renews
        <5>2. stamp'[t] <= stamp'[x]
          BY <1>4, <4>1 DEF StampIsCurrent
        <5> QED
          BY <1>1, <5>1, <5>2
      <4> QED
        BY <4>1
    <3>3. StampIsCurrent(p) /\ p # t /\ t \notin Ancestors[p]
      BY <1>4, <2>1, <3>1, <3>2 DEF Layers
    <3> QED
      BY <2>1, <3>3, OthersStay
  <2> QED
    BY <2>2, <2>3
<1> QED
  BY <1>2, <1>3, <1>4 DEF Layers

(* Nothing is out of order once the stamp of t, the only task that was run *)
(* again, is made.                                                         *)
LEMMA StampKeepsOrder ==
    ASSUME TypeInv, StampsArePast, Layers, NEW t \in Task, t \in Flagged, t \notin NoStamp,
           MkStamp(t), Ready(t), Renews(t), newer' = newer,
           \A x, p, q \in Task : OutOfOrder(x, p, q) => p = t
    PROVE  \A x, p, q \in Task : ~OutOfOrder(x, p, q)'
<1>1. /\ stamp'[t] = clock /\ clock \in Nat \ {0}
      /\ \A x \in Task : x # t => stamp'[x] = stamp[x]
      /\ \A x \in Task : stamp[x] \in Nat /\ stamp[x] <= clock
  BY StampOf
<1>2. SUFFICES ASSUME NEW x \in Task, NEW p \in Task, NEW q \in Task,
                      x \in Stamped, StampIsCurrent(x)',
                      q \in (Ancestors[x] \cup {x}) \cap Stamped,
                      p \in Ancestors[q] \cap Stamped,
                      <<p, q>> \in newer
               PROVE  FALSE
  BY DEF OutOfOrder
<1>3. p \in Ancestors[x] /\ p # q
  BY <1>2, BeforeIsTransitive, AncestorsAreTasks
<1>4. CASE x = t
  <2>1. q \notin ranNow
    BY <1>2 DEF Ready
  <2>2. q \in Ancestors[t] /\ StampIsCurrent(q)
    BY <1>2, <1>4, <2>1 DEF Ready
  <2>3. OutOfOrder(q, p, q)
    BY <1>2, <2>2 DEF OutOfOrder
  <2>4. p = t
    BY <2>3
  <2> QED
    BY <1>3, <1>4, <2>4, AncestorsAreTasks
<1>5. CASE x # t
  <2>1. StampIsCurrent(x)
    BY <1>2, <1>5, OthersStayOutdated
  <2>2. p = t
    BY <1>2, <2>1 DEF OutOfOrder
  <2>3. stamp[x] < clock /\ stamp'[x] = stamp[x] /\ stamp[x] \in Nat
    BY <1>1, <1>2, <1>3, <1>5, <2>1, <2>2 DEF Renews
  <2>4. stamp'[t] <= stamp'[x]
    BY <1>2, <1>3, <2>2 DEF StampIsCurrent
  <2> QED
    BY <1>1, <2>3, <2>4
<1> QED
  BY <1>4, <1>5

-----------------------------------------------------------------------------
(* What is known in the state that a step starts from.                     *)
OrderFrom(S) ==
    /\ WalksFrom(S) /\ StampsArePast /\ NoFlags
    /\ Ordered /\ Layers /\ InOrder /\ NeedsRun

LEMMA OrderSetting ==
    ASSUME NEW S, OrderFrom(S)
    PROVE  /\ WalksFrom(S) /\ TypeInv /\ stack # <<>>
           /\ top.task \in Task /\ command.target \in Task
           /\ "unforced" \in Rules
           /\ here.copy = {} /\ forced[command.via] \subseteq {command.target}
           /\ \A x, p, q \in Task : ~OutOfOrder(x, p, q)
<1>1. WalksFrom(S) /\ TypeInv /\ Going /\ OwnData /\ Shape /\ stack # <<>> /\ ~session.keepsData
  BY DEF OrderFrom, WalksFrom, Going, Ordered
<1>2. here.copy = {}
  BY <1>1 DEF OwnData, here
<1>3. "unforced" \in Rules
  BY <1>1 DEF Rules
<1>4. here.rules = Rules /\ here.forced = forced[command.via] /\ here.target = command.target
  BY DEF here
<1>5. forced[command.via] \subseteq {command.target}
  BY <1>1, <1>3, <1>4, Setting DEF Orderly, Unforced
<1>6. \A x, p, q \in Task : ~OutOfOrder(x, p, q)
  BY <1>1 DEF OrderFrom, InOrder, Redone
<1>7. top.task \in Task /\ here \in Scenes
  BY <1>1, Setting
<1>8. command.target \in Task
  BY <1>4, <1>7, SceneFields
<1> QED
  BY <1>1, <1>2, <1>3, <1>5, <1>6, <1>7, <1>8

(* Steps that neither make stamps nor complete a function.                 *)
LEMMA OrderStays ==
    ASSUME Layers, NEW U \in SUBSET (Task \X Task), stamp' = stamp, newer' = U, U \subseteq newer,
           \A x, p, q \in Task : ~OutOfOrder(x, p, q)
    PROVE  Layers' /\ InOrder'
<1>1. \A x : StampIsCurrent(x)' <=> StampIsCurrent(x)
  BY SameCurrent
<1>2. Layers'
  BY <1>1 DEF Layers
<1>3. \A x, p, q \in Task : ~OutOfOrder(x, p, q)'
  BY <1>1 DEF OutOfOrder
<1> QED
  BY <1>2, <1>3 DEF InOrder

(* The frames that a step leaves on top.                                   *)
LEMMA TopTask ==
    ASSUME NEW S, WalksFrom(S), Step, stack' # <<>>
    PROVE  \/ top'.task = top.task
           \/ ExecNested /\ top'.task = top.item /\ top.item # command.target
              /\ (top.item \in forced[command.via] \/ ~StampIsCurrent(top.item))
           \/ ExecReturns /\ top'.task = command.target
<1>1. /\ StackOK /\ stack # <<>> /\ stack \in Seq(Calls) /\ top \in Calls
      /\ top.task \in Task /\ top.item \in Task /\ top.cache \in SUBSET Task
      /\ TypeInv /\ Shape /\ LinksOK
  BY Setting DEF WalksFrom
<1>2. CASE Descend
  <2>1. reached \in Task
    BY <1>2, Here DEF Descend
  <2>2. PICK f : f = Frame(top.task, reached, top.cache)
    OBVIOUS
  <2>3. f \in Calls /\ f.task = top.task
    BY <1>1, <2>1, <2>2 DEF Frame, Calls
  <2>4. Push(f)
    BY <1>2, <2>2 DEF Descend
  <2> QED
    BY <1>1, <2>3, <2>4, FramePushed
<1>3. CASE SkipItem \/ (ExecNested /\ Top(Advanced(top)))
  <2>1. Top(Advanced(top))
    BY <1>3 DEF SkipItem
  <2> QED
    BY <1>1, <2>1, AdvancedIsCall, TopChanges
<1>4. CASE ExecNested /\ ~Top(Advanced(top))
  <2>1. /\ Push(Frame(top.item, top.item, cache[command.via]))
        /\ top.item # top.task
        /\ top.item \in forced[command.via] \/ ~StampIsCurrent(top.item)
    BY <1>4 DEF ExecNested
  <2>2. PICK f : f = Frame(top.item, top.item, cache[command.via])
    OBVIOUS
  <2>3. cache[command.via] \in SUBSET Task
    BY <1>1 DEF TypeInv, RestOK
  <2>4. f \in Calls /\ f.task = top.item
    BY <1>1, <2>2, <2>3 DEF Frame, Calls
  <2>5. top'.task = top.item
    BY <1>1, <2>1, <2>2, <2>4, FramePushed
  <2>6. top.item # command.target
    BY <2>1, AtTarget
  <2> QED
    BY <1>4, <2>1, <2>5, <2>6
<1>5. CASE StartFunc \/ CleanWorkdir
  <2>1. PICK pc \in {"func", "wiped"} : Top([top EXCEPT !.pc = pc])
    BY <1>5 DEF StartFunc, CleanWorkdir
  <2>2. [top EXCEPT !.pc = pc] \in Calls /\ [top EXCEPT !.pc = pc].task = top.task
    BY <1>1 DEF Calls
  <2> QED
    BY <1>1, <2>1, <2>2, TopChanges
<1>6. CASE FuncSucceeds \/ CleanStamps
  <2>1. PICK t \in Task : t = top.task
    BY <1>1
  <2> DEFINE f == [Advanced(top) EXCEPT !.cache = @ \cup {t}, !.pc = "walk"]
  <2>2. Top(f)
    BY <1>6, <2>1 DEF FuncSucceeds, CleanStamps, Remember
  <2>3. f \in Calls /\ f.task = t
    BY <1>1, <2>1, Remembering
  <2> HIDE DEF f
  <2> QED
    BY <1>1, <2>1, <2>2, <2>3, TopChanges
<1>7. CASE FuncFails
  BY <1>7 DEF FuncFails, Unwind
<1>8. CASE WalkReturns
  <2>1. Pop /\ ~AtOwnTask(top)
    BY <1>8 DEF WalkReturns, AtOwnTask
  <2>2. Len(stack) # 1
    BY <1>1, <2>1, TopIsCall
  <2>3. /\ stack[Len(stack) - 1] \in Calls /\ Link(stack[Len(stack) - 1], top)
    BY <1>1, <2>2, Below
  <2>4. top' = Advanced(stack[Len(stack) - 1])
    BY <1>1, <2>1, <2>2, FramePopped
  <2> QED
    BY <2>1, <2>3, <2>4, AdvancedIsCall DEF Link, AtOwnTask
<1>9. CASE ExecReturns
  <2>1. AtOwnTask(top) /\ Len(stack) # 1 /\ Pop
    BY <1>9, <1>1 DEF ExecReturns, AtOwnTask, Unwind
  <2>2. \A i \in DOMAIN stack : i < Len(stack) => stack[i].task = command.target
    BY <1>1, <2>1, OwnFrames DEF WalksFrom, Walks
  <2>3. /\ stack[Len(stack) - 1] \in Calls
        /\ Len(stack) - 1 \in DOMAIN stack /\ Len(stack) - 1 < Len(stack)
    BY <1>1, <2>1, Below
  <2>4. top' = Advanced(stack[Len(stack) - 1])
    BY <1>1, <2>1, FramePopped
  <2> QED
    BY <1>9, <2>2, <2>3, <2>4, AdvancedIsCall
<1> QED
  BY <1>2, <1>3, <1>4, <1>5, <1>6, <1>7, <1>8, <1>9 DEF Step

(* A nested exec_task is ready to make its stamp.                          *)
LEMMA NestedIsReady ==
    ASSUME NEW S, OrderFrom(S), ExecReturns
    PROVE  /\ top.task # command.target /\ top.task \in Flagged /\ Len(stack) # 1
           /\ Ready(top.task) /\ (top.task \notin NoStamp => Renews(top.task))
           /\ ~StampIsCurrent(top.task)
<1>1. PICK t \in Task : t = top.task
  BY OrderSetting
<1>2. WalksFrom(S) /\ TypeInv /\ here.copy = {} /\ here.rules = Rules /\ "unforced" \in Rules
  BY OrderSetting DEF here
<1>3. AtOwnTask(top) /\ WalkOver(top)
  BY DEF ExecReturns, AtOwnTask, WalkOver
<1>4. Len(stack) # 1 /\ t # command.target
  <2>1. top.task = command.target => Len(stack) = 1
    BY <1>2, <1>3, Setting, OwnFrames DEF WalksFrom, Walks
  <2>2. Len(stack) # 1
    BY <1>2, <1>3, Setting DEF WalksFrom, Going
  <2> QED
    BY <1>1, <2>1, <2>2
<1>5. PICK w \in Scenes : w = here
  BY <1>2, Setting
<1>6. Orderly(S, w, {t}) /\ FrameFits(top, w, S)
  BY <1>1, <1>2, <1>4, <1>5, Setting
<1>7. /\ w.copy = {} /\ w.mem = w.ran /\ w.ran = ranNow /\ w.newer = newer
      /\ w.target = command.target /\ "unforced" \in w.rules
  BY <1>2, <1>5, <1>6 DEF here, Orderly, CacheKnows
<1>8. t \in Flagged /\ t \in ranNow
  BY <1>1, <1>3, <1>4, <1>6, <1>7 DEF FrameFits, Orderly, NestedOK
<1>9. \A x \in Task : StampIsCurrent(x) <=> CurrentIn(x, w)
  BY <1>2, <1>5, CurrentHere
<1>10. Ancestors[t] \subseteq Task /\ t \notin Ancestors[t] /\ Ancestors[t] \subseteq S
  BY <1>1, <1>6, AncestorsAreTasks DEF Orderly, NestedOK
<1>11. ASSUME NEW q \in Ancestors[t] \cap Stamped
       PROVE  q \in ranNow \/ (q # t /\ StampIsCurrent(q))
  <2>1. Quiet(q, w)
    BY <1>6, <1>10 DEF Orderly, PassedIsQuiet
  <2> QED
    BY <1>7, <1>9, <1>10, <2>1 DEF Quiet, Stamped
<1>12. ASSUME NEW a \in Ancestors[t] \cap Stamped
       PROVE  StampIsCurrent(a) \/ Stuck(a)
  <2>1. CASE a \in ranNow
    <3>1. CurrentIn(a, w) \/ Hopeless(a, w)
      BY <1>6, <1>7, <1>10, <2>1 DEF Orderly, Unforced
    <3> QED
      BY <1>7, <1>9, <1>10, <3>1 DEF Hopeless, Stuck
  <2> QED
    BY <1>11, <2>1
<1>13. \A q \in ranNow : \A p \in Ancestors[q] : <<p, q>> \notin newer
  BY <1>6, <1>7 DEF Orderly, RanInOrder
<1>14. Ready(t)
  BY <1>8, <1>11, <1>12, <1>13 DEF Ready
<1>15. ~StampIsCurrent(t)
  BY <1>1, <1>2, <1>4, Setting DEF OrderFrom, NeedsRun
<1>16. t \notin NoStamp => Renews(t)
  BY <1>8, <1>15, StampedAreTasks DEF Renews, OrderFrom, Layers, Stamped
<1> QED
  BY <1>1, <1>4, <1>8, <1>14, <1>15, <1>16

(* Making a stamp, if the task has one, keeps the layers and the order.    *)
LEMMA StampMadeInOrder ==
    ASSUME TypeInv, StampsArePast, Layers, NEW t \in Task, t \in Flagged, MkStamp(t),
           Ready(t), t \notin NoStamp => Renews(t), newer' = newer,
           \A x, p, q \in Task : OutOfOrder(x, p, q) => p = t
    PROVE  /\ Layers' /\ InOrder'
           /\ \A x \in Task : x # t /\ ~StampIsCurrent(x) => ~StampIsCurrent(x)'
<1>1. CASE t \notin NoStamp
  <2>1. Layers'
    BY <1>1, StampKeepsLayers
  <2>2. InOrder'
    BY <1>1, StampKeepsOrder DEF InOrder
  <2>3. \A x \in Task : x # t /\ ~StampIsCurrent(x) => ~StampIsCurrent(x)'
    BY <1>1, OthersStayOutdated
  <2> QED
    BY <2>1, <2>2, <2>3
<1>2. CASE t \in NoStamp
  <2>1. stamp' = stamp
    BY <1>2 DEF MkStamp
  <2>2. \A x, p, q \in Task : ~OutOfOrder(x, p, q)
    BY <1>2 DEF OutOfOrder, Stamped
  <2>3. newer \in SUBSET (Task \X Task)
    BY DEF TypeInv, RestOK
  <2> QED
    BY <2>1, <2>2, <2>3, OrderStays, SameCurrent
<1> QED
  BY <1>1, <1>2

LEMMA NestedReturnsInOrder ==
    ASSUME NEW S, OrderFrom(S), ExecReturns
    PROVE  OrderInv'
<1>1. PICK t \in Task : t = top.task
  BY OrderSetting
<1>2. /\ t # command.target /\ t \in Flagged /\ Len(stack) # 1
      /\ Ready(t) /\ (t \notin NoStamp => Renews(t))
  BY <1>1, NestedIsReady
<1>3. /\ MkStamp(t) /\ UNCHANGED <<newer, forced, command>> /\ Pop /\ stack # <<>>
  BY <1>1, <1>2 DEF ExecReturns, object
<1>4. /\ WalksFrom(S) /\ TypeInv /\ StampsArePast /\ Layers /\ command.target \in Task
      /\ \A x, p, q \in Task : ~OutOfOrder(x, p, q)
  BY OrderSetting DEF OrderFrom
<1>5. /\ Layers' /\ InOrder'
      /\ \A x \in Task : x # t /\ ~StampIsCurrent(x) => ~StampIsCurrent(x)'
  BY <1>2, <1>3, <1>4, StampMadeInOrder
<1>6. NeedsRun'
  <2>1. StampIsCurrent(command.target)' => StampIsCurrent(command.target)
    <3>1. StampIsCurrent(command.target)' <=>
              \E x \in Task : x = command.target /\ StampIsCurrent(x)'
      BY <1>3, <1>4 DEF StampIsCurrent
    <3> QED
      BY <1>2, <1>5, <3>1
  <2>2. stack' # <<>> => top'.task = command.target
    <3>1. AtOwnTask(top)
      BY DEF ExecReturns, AtOwnTask
    <3>2. /\ StackOK /\ stack[Len(stack) - 1] \in Calls
          /\ stack[Len(stack) - 1].task = command.target
      BY <1>2, <1>3, <1>4, <3>1, Setting, OwnFrames, Below DEF WalksFrom, Walks
    <3>3. top' = Advanced(stack[Len(stack) - 1])
      BY <1>2, <1>3, <3>2, FramePopped DEF StackOK
    <3> QED
      BY <3>2, <3>3, AdvancedIsCall
  <2>3. command.target \in forced[command.via] \/ ~StampIsCurrent(command.target)
    BY <1>3 DEF OrderFrom, NeedsRun
  <2> QED
    BY <1>3, <2>1, <2>2, <2>3 DEF NeedsRun
<1> QED
  BY <1>5, <1>6 DEF OrderInv

(* A function that completes makes newer pairs only with its own task,     *)
(* which is not current, or was forced and is the command's.               *)
LEMMA FuncSucceedsInOrder ==
    ASSUME NEW S, OrderFrom(S), TypeInv', FuncSucceeds
    PROVE  OrderInv'
<1>1. PICK t \in Task : t = top.task
  BY OrderSetting
<1>2. /\ WalksFrom(S) /\ TypeInv /\ NoFlags /\ Layers /\ NeedsRun
      /\ command.target \in Task /\ stack # <<>>
      /\ \A x, p, q \in Task : ~OutOfOrder(x, p, q)
  BY OrderSetting DEF OrderFrom
<1>3. /\ UNCHANGED <<session, stamp, forced, command>>
      /\ newer' = (newer \ (Task \X {t})) \cup ({t} \X (done \ {t}))
  BY <1>1 DEF FuncSucceeds
<1>4. \A x : StampIsCurrent(x)' <=> StampIsCurrent(x)
  BY <1>3, SameCurrent
<1>5. Layers'
  BY <1>2, <1>3, <1>4 DEF Layers
<1>6. stack' # <<>>
  <2>1. Len(stack) \in 1 .. Len(stack) /\ stack \in Seq(Calls)
    BY <1>2, Setting
  <2>2. top \in Calls
    BY <1>2, Setting
  <2> DEFINE f == [Advanced(top) EXCEPT !.cache = @ \cup {t}, !.pc = "walk"]
  <2>3. f \in Calls
    BY <1>1, <2>2, Remembering
  <2>4. Top(f)
    BY <1>1 DEF FuncSucceeds, Remember
  <2> HIDE DEF f
  <2> QED
    BY <1>2, <2>1, <2>3, <2>4, TopChanges
<1>7. NeedsRun'
  <2>1. top'.task = top.task
    <3>1. Step /\ ~ExecNested /\ ~ExecReturns
      <4>1. top.pc = "func"
        BY DEF FuncSucceeds, Running
      <4> QED
        BY <4>1 DEF Step, ExecNested, ExecReturns, Walking
    <3> QED
      BY <1>2, <1>6, <3>1, TopTask
  <2>2. /\ command.target \in forced[command.via] \/ ~StampIsCurrent(command.target)
        /\ top.task # command.target => ~StampIsCurrent(top.task)
    BY <1>2 DEF NeedsRun
  <2>3. StampIsCurrent(command.target)' <=> StampIsCurrent(command.target)
    BY <1>3 DEF StampIsCurrent
  <2>4. (StampIsCurrent(top.task))' <=> StampIsCurrent(t)
    BY <1>1, <1>3, <2>1 DEF StampIsCurrent
  <2> QED
    BY <1>1, <1>3, <2>1, <2>2, <2>3, <2>4 DEF NeedsRun
<1>8. ASSUME NEW x \in Task, NEW p \in Task, NEW q \in Task, OutOfOrder(x, p, q)'
      PROVE  Redone(p)'
  <2>1. /\ x \in Stamped /\ StampIsCurrent(x)
        /\ q \in (Ancestors[x] \cup {x}) \cap Stamped /\ p \in Ancestors[q] \cap Stamped
        /\ <<p, q>> \in newer'
    BY <1>4, <1>8 DEF OutOfOrder
  <2>2. p = t
    BY <1>2, <1>3, <2>1 DEF OutOfOrder
  <2>3. p \in Ancestors[x]
    BY <2>1, BeforeIsTransitive
  <2>4. StampIsCurrent(t)
    BY <1>2, <2>1, <2>2, <2>3 DEF Layers
  <2>5. t = command.target /\ t \in forced[command.via]
    BY <1>1, <1>2, <2>4 DEF NeedsRun
  <2>6. session.mayForce
    <3>1. command.via \in Via
      BY <1>2 DEF TypeInv, RestOK
    <3> QED
      BY <1>2, <2>5, <3>1 DEF NoFlags
  <2>7. ~Going'
    BY <1>1, <1>2, <2>5, FuncSucceedsOwn DEF Ends
  <2> QED
    BY <1>3, <1>6, <2>2, <2>5, <2>6, <2>7 DEF Redone
<1>9. InOrder'
  BY <1>8 DEF InOrder
<1> QED
  BY <1>5, <1>7, <1>9 DEF OrderInv

(* The command's own task makes its stamp, the walk being over.            *)
LEMMA TargetReturnsInOrder ==
    ASSUME CommandsNameTasks, WInv, Ordered, OrderInv, ExecReturns, Len(stack) = 1, ~Going
    PROVE  OrderInv'
<1>1. /\ TypeInv /\ StampsArePast /\ NoFlags /\ WalksOK /\ Layers /\ InOrder /\ NeedsRun
      /\ stack # <<>> /\ ~session.keepsData /\ top = stack[1]
  BY DEF WInv, OrderInv, ExecReturns, Ordered, top
<1>2. "unforced" \in Rules /\ (session.mayForce => "slow" \in Rules)
  BY <1>1 DEF Rules, Ordered
<1>3. Shape /\ EndsWell(here) /\ stack[1].task = command.target
  BY <1>1, <1>2 DEF WalksOK, Shape
<1>4. PICK t \in Task : t = command.target
  BY <1>1, <1>3, HereIsScene
<1>5. PICK w \in Scenes : w = here
  BY <1>1, <1>3, HereIsScene
<1>6. /\ w.ran = ranNow /\ w.newer = newer /\ w.target = t /\ w.stamp = stamp /\ w.clock = clock
      /\ w.rules = Rules /\ EndsWell(w)
  BY <1>3, <1>4, <1>5 DEF here
<1>7. t \in Flagged
  <2>1. command.target \in Targets \cup {Cleaner}
    BY <1>1 DEF TypeInv, RestOK
  <2> QED
    BY <1>4, <2>1, TaskExecAssumption DEF CommandsNameTasks
<1>8. t \in ranNow /\ ranNow \subseteq Ancestors[t] \cup {t}
  BY <1>6, <1>7 DEF EndsWell
<1>9. \A x \in Task : StampIsCurrent(x) <=> CurrentIn(x, w)
  BY <1>1, <1>5, CurrentHere
<1>10. Ancestors[t] \subseteq Task /\ t \notin Ancestors[t]
  BY <1>4, AncestorsAreTasks
<1>11. Ready(t)
  <2>1. \A a \in Ancestors[t] \cap Stamped : StampIsCurrent(a) \/ Stuck(a)
    BY <1>6, <1>9, <1>10 DEF EndsWell, Stuck
  <2>2. \A q \in Ancestors[t] \cap Stamped : q \in ranNow \/ (q # t /\ StampIsCurrent(q))
    BY <1>6, <1>9, <1>10 DEF EndsWell, Stamped
  <2>3. \A q \in ranNow : \A p \in Ancestors[q] : <<p, q>> \notin newer
    BY <1>6 DEF EndsWell, RanInOrder
  <2> QED
    BY <1>8, <2>1, <2>2, <2>3 DEF Ready
<1>12. ASSUME NEW x \in Stamped, t \in Ancestors[x], StampIsCurrent(x), t \notin NoStamp
       PROVE  stamp[x] < clock
  <2>1. x \in Task
    BY StampedAreTasks
  <2>2. CASE session.mayForce
    <3>1. x \notin ranNow
      BY <1>8, <1>10, <1>12, <2>1, BeforeIsTransitive, AncestorsAreTasks
    <3> QED
      BY <1>2, <1>6, <1>8, <2>1, <2>2, <3>1 DEF EndsWell
  <2>3. CASE ~session.mayForce
    <3>1. forced[command.via] = {}
      BY <1>1, <2>3 DEF NoFlags, TypeInv, RestOK
    <3>2. ~StampIsCurrent(t)
      BY <1>1, <1>4, <3>1 DEF NeedsRun
    <3> QED
      BY <1>1, <1>7, <1>12, <3>2 DEF Layers, Stamped
  <2> QED
    BY <2>2, <2>3
<1>13. /\ MkStamp(t) /\ newer' = newer /\ stack' = <<>>
  BY <1>1, <1>3, <1>4 DEF ExecReturns, Unwind
<1>14. \A x, p, q \in Task : OutOfOrder(x, p, q) => p = t
  BY <1>1, <1>4 DEF InOrder, Redone
<1>15. t \notin NoStamp => Renews(t)
  BY <1>12 DEF Renews
<1>16. Layers' /\ InOrder'
  BY <1>1, <1>7, <1>11, <1>13, <1>14, <1>15, StampMadeInOrder
<1> QED
  BY <1>13, <1>16 DEF OrderInv, NeedsRun

(* do_clean removes every stamp.                                           *)
LEMMA CleanStampsInOrder ==
    ASSUME NEW S, OrderFrom(S), CleanStamps
    PROVE  OrderInv'
<1>1. stamp' = [x \in Task |-> 0] /\ command' = command
  BY DEF CleanStamps
<1>2. \A x \in Task : ~StampIsCurrent(x)'
  BY <1>1 DEF StampIsCurrent
<1>3. Layers' /\ InOrder'
  BY <1>1, <1>2, StampedAreTasks DEF Layers, InOrder, OutOfOrder
<1>4. command.target \in Task /\ top.task \in Task
  BY OrderSetting
<1>5. ~StampIsCurrent(command.target)'
  BY <1>1, <1>4 DEF StampIsCurrent
<1>6. stack' # <<>> => top'.task = top.task
  <2>1. Step /\ ~ExecNested /\ ~ExecReturns
    <3>1. top.pc = "wiped"
      BY DEF CleanStamps
    <3> QED
      BY <3>1 DEF Step, ExecNested, ExecReturns, Walking
  <2> QED
    BY <2>1, OrderSetting, TopTask
<1>7. NeedsRun'
  <2>1. stack' # <<>> => ~StampIsCurrent(top.task)'
    BY <1>1, <1>4, <1>6 DEF StampIsCurrent
  <2> QED
    BY <1>5, <2>1 DEF NeedsRun
<1> QED
  BY <1>3, <1>7 DEF OrderInv

(* Every other step of the interpreter.                                    *)
LEMMA OtherStepInOrder ==
    ASSUME NEW S, OrderFrom(S), Step, ~FuncSucceeds, ~CleanStamps, ~ExecReturns
    PROVE  OrderInv'
<1>1. /\ WalksFrom(S) /\ TypeInv /\ NeedsRun /\ Layers /\ stack # <<>>
      /\ top.task \in Task /\ command.target \in Task
      /\ forced[command.via] \subseteq {command.target}
      /\ \A x, p, q \in Task : ~OutOfOrder(x, p, q)
  BY OrderSetting DEF OrderFrom
<1>2. UNCHANGED <<stamp, forced, command>> /\ (newer' = newer \/ newer' = {})
  BY DEF Step, Descend, SkipItem, ExecNested, StartFunc, CleanWorkdir, FuncFails, WalkReturns,
         disk, object
<1>3. newer \in SUBSET (Task \X Task)
  BY <1>1 DEF TypeInv, RestOK
<1>4. Layers' /\ InOrder'
  BY <1>1, <1>2, <1>3, OrderStays
<1>5. NeedsRun'
  <2>1. SUFFICES ASSUME stack' # <<>> PROVE NeedsRun'
    BY DEF NeedsRun
  <2>2. \/ top'.task = top.task
        \/ top'.task = top.item /\ top.item # command.target
           /\ (top.item \in forced[command.via] \/ ~StampIsCurrent(top.item))
    BY <1>1, <2>1, TopTask
  <2>3. \/ top'.task = top.task
        \/ top'.task = top.item /\ ~StampIsCurrent(top.item)
    BY <1>1, <2>2
  <2>4. PICK u : u = top'.task
    OBVIOUS
  <2>5. u # command.target => ~StampIsCurrent(u)
    BY <1>1, <2>3, <2>4 DEF NeedsRun
  <2>6. (StampIsCurrent(top.task))' <=> StampIsCurrent(u)
    BY <1>2, <2>4 DEF StampIsCurrent
  <2>7. StampIsCurrent(command.target)' <=> StampIsCurrent(command.target)
    BY <1>2 DEF StampIsCurrent
  <2>8. command.target \in forced[command.via] \/ ~StampIsCurrent(command.target)
    BY <1>1 DEF NeedsRun
  <2> QED
    BY <1>2, <2>4, <2>5, <2>6, <2>7, <2>8 DEF NeedsRun
<1> QED
  BY <1>4, <1>5 DEF OrderInv

LEMMA StepInOrder ==
    ASSUME CommandsNameTasks, WInv, TypeInv', Ordered, OrderInv, Step
    PROVE  OrderInv'
<1>1. /\ TypeInv /\ StampsArePast /\ NoFlags /\ WalksOK /\ Layers /\ InOrder /\ NeedsRun
      /\ ~session.keepsData
  BY DEF WInv, OrderInv, Ordered
<1>2. stack # <<>>
  BY DEF Step, Descend, SkipItem, ExecNested, StartFunc, FuncSucceeds, CleanWorkdir, CleanStamps,
         FuncFails, WalkReturns, ExecReturns, Walking, Running
<1>3. CASE ~Going
  BY <1>1, <1>2, <1>3, OverOnlyReturns, TargetReturnsInOrder
<1>4. CASE Going
  <2>1. "unforced" \in Rules
    BY <1>1 DEF Rules
  <2>2. PICK S \in SUBSET Task : WalksFrom(S)
    BY <1>1, <1>4, <2>1 DEF WalksOK, WalksFrom
  <2>3. OrderFrom(S)
    BY <1>1, <2>2 DEF OrderFrom
  <2> QED
    BY <2>3, NestedReturnsInOrder, FuncSucceedsInOrder, CleanStampsInOrder, OtherStepInOrder
<1> QED
  BY <1>3, <1>4

(* exec_task is called for a task that needs it.                           *)
LEMMA CommandNeedsRun ==
    ASSUME TypeInv, NEW t \in Targets, NEW force \in MayForce,
           BuildFile(t, force) \/ BuildTarget(t, force)
    PROVE  NeedsRun'
<1>1. CASE stack' = <<>>
  BY <1>1 DEF NeedsRun
<1>2. CASE stack' # <<>>
  <2>1. PICK via \in Via : Command(t, force, via) /\ TryBuildPackage(t, force, via)
    BY <1>2 DEF BuildFile, BuildTarget, Command, Via
  <2> DEFINE flags == Fresh(forced)[via] \cup (IF force THEN {t} \cap Task ELSE {})
  <2>2. /\ t \in flags \/ ~StampIsCurrent(t)
        /\ forced' = [Fresh(forced) EXCEPT ![via] = flags]
        /\ Push(Frame(t, t, Fresh(cache)[via]))
        /\ stack = <<>> /\ stamp' = stamp /\ command'.target = t /\ command'.via = via
    BY <1>2, <2>1 DEF TryBuildPackage, Command, disk
  <2>3. forced'[via] = flags
    <3>1. Via = DOMAIN Fresh(forced)
      BY DEF Fresh
    <3> HIDE DEF flags
    <3> QED
      BY <2>2, <3>1
  <2>4. top'.task = t
    <3>1. PICK f : f = Frame(t, t, Fresh(cache)[via])
      OBVIOUS
    <3>2. stack' = <<f>> /\ f.task = t
      BY <2>2, <3>1 DEF Push, Frame
    <3>3. Len(stack') = 1 /\ stack'[1] = f
      BY <3>2
    <3> QED
      BY <3>2, <3>3 DEF top
  <2>5. StampIsCurrent(command.target)' <=> StampIsCurrent(t)
    BY <2>2 DEF StampIsCurrent
  <2> QED
    BY <2>2, <2>3, <2>4, <2>5 DEF NeedsRun
<1> QED
  BY <1>1, <1>2

WalkOrderInv == WInv /\ (Ordered => OrderInv)

LEMMA NextKeepsOrder ==
    ASSUME CommandsNameTasks
    PROVE  WalkOrderInv /\ [Next]_vars => WalkOrderInv'
<1> SUFFICES ASSUME WalkOrderInv, [Next]_vars PROVE WalkOrderInv'
  OBVIOUS
<1>1. WInv /\ WInv' /\ TypeInv /\ TypeInv'
  BY NextKeepsWInv DEF WalkOrderInv, WInv
<1>2. session' = session
  BY SessionNeverChanges
<1>3. SUFFICES ASSUME Ordered PROVE OrderInv'
  BY <1>1, <1>2 DEF WalkOrderInv, Ordered
<1>4. OrderInv /\ Layers /\ InOrder /\ newer \in SUBSET (Task \X Task)
  BY <1>1, <1>3 DEF WalkOrderInv, OrderInv, TypeInv, RestOK
<1>5. CASE Step
  BY <1>1, <1>3, <1>4, <1>5, StepInOrder
<1>6. CASE Killed
  <2>1. stack # <<>> /\ stack' = <<>> /\ UNCHANGED <<stamp, newer>> /\ top.pc \in session.killedIn
    BY <1>6 DEF Killed, Unwind
  <2>2. ~Going => ~session.mayForce
    BY <1>1, <1>3, <2>1, OverOnlyReturns DEF Ordered
  <2>3. \A x, p, q \in Task : ~OutOfOrder(x, p, q)
    BY <1>4, <2>2 DEF InOrder, Redone
  <2> QED
    BY <1>4, <2>1, <2>3, OrderStays DEF OrderInv, NeedsRun
<1>7. ASSUME NEW t \in Targets, NEW force \in MayForce,
             BuildFile(t, force) \/ BuildTarget(t, force)
      PROVE  OrderInv'
  <2>1. stack = <<>> /\ UNCHANGED <<stamp, newer>>
    BY <1>7 DEF BuildFile, BuildTarget, Command, disk
  <2>2. \A x, p, q \in Task : ~OutOfOrder(x, p, q)
    BY <1>4, <2>1 DEF InOrder, Redone
  <2>3. NeedsRun'
    BY <1>1, <1>7, CommandNeedsRun
  <2> QED
    BY <1>4, <2>1, <2>2, <2>3, OrderStays DEF OrderInv
<1>8. CASE UNCHANGED vars
  <2>1. top' = top /\ (Going' <=> Going)
    BY <1>8 DEF vars, top, Going
  <2>2. \A x : StampIsCurrent(x)' <=> StampIsCurrent(x)
    BY <1>8, SameCurrent DEF vars
  <2>3. Layers' /\ InOrder'
    BY <1>4, <1>8, <2>1, <2>2 DEF vars, Layers, InOrder, OutOfOrder, Redone
  <2>4. NeedsRun'
    BY <1>4, <1>8, <2>1 DEF vars, OrderInv, NeedsRun, StampIsCurrent
  <2> QED
    BY <2>3, <2>4 DEF OrderInv
<1> QED
  BY <1>5, <1>6, <1>7, <1>8 DEF Next

LEMMA InitOrder == Init => WalkOrderInv
<1> SUFFICES ASSUME Init PROVE WalkOrderInv
  OBVIOUS
<1>1. Layers /\ InOrder /\ NeedsRun
  BY StampedAreTasks DEF Init, Layers, InOrder, OutOfOrder, NeedsRun, StampIsCurrent
<1> QED
  BY <1>1, InitWInv DEF WalkOrderInv, OrderInv

(* What is current once a command is over was built in order: among a      *)
(* current task and the tasks before it, none ran again after one that     *)
(* used its output.                                                        *)
THEOREM CurrentWasBuiltInOrder ==
    ASSUME CommandsNameTasks
    PROVE  Spec => []CurrentIsInOrder
<1>1. WalkOrderInv => CurrentIsInOrder
  <2> SUFFICES ASSUME WalkOrderInv, outcome # "busy", Ordered,
                      NEW t \in Stamped, StampIsCurrent(t),
                      NEW q \in (Ancestors[t] \cup {t}) \cap Stamped,
                      NEW p \in Ancestors[q] \cap Stamped
               PROVE  <<p, q>> \notin newer
    BY DEF CurrentIsInOrder, Ordered
  <2>1. stack = <<>> /\ InOrder
    BY DEF WalkOrderInv, WInv, BusyIsBusy, OrderInv
  <2> QED
    BY <2>1, StampedAreTasks DEF InOrder, OutOfOrder, Redone
<1>2. WalkOrderInv /\ [Next]_vars => WalkOrderInv'
  BY NextKeepsOrder
<1> QED
  BY InitOrder, <1>1, <1>2, PTL DEF Spec
=============================================================================
