-------------------------- MODULE TaskDependencies --------------------------
(***************************************************************************)
(* What bb.build promises about the tasks of one recipe, without the       *)
(* digraph it keeps them in: a set of tasks, and the pairs <<t, d>> that   *)
(* say task t runs after task d.  add_task declares a task and what it     *)
(* runs after; remove_task withdraws a task and, with kill, every task     *)
(* that depends on it.  Each operation is one step here.  TaskGraph does   *)
(* the same with reference counts, one node at a time.                     *)
(***************************************************************************)
CONSTANT Task                   \* the names of tasks

VARIABLES
    tasks,                      \* the tasks the recipe has
    after                       \* pairs <<t, d>>: t runs after d

vars == <<tasks, after>>

(* The members of K, and every task that runs after one of them, directly  *)
(* or not: what is in every set that has K's members and, with a task, all *)
(* that run after it.                                                      *)
Dependents(K, edges) ==
    LET closed == {S \in SUBSET Task : \A e \in edges : e[2] \in S => e[1] \in S}
    IN  {t \in Task : \A S \in closed : K \subseteq S => t \in S}

Withdraw(K) ==
    /\ tasks' = tasks \ K
    /\ after' = {e \in after : e[1] \notin K /\ e[2] \notin K}

Init == tasks = {} /\ after = {}

AddTask(t, D) ==
    /\ tasks' = tasks \cup {t} \cup D
    /\ after' = after \cup ({t} \X D)

RemoveTask(t) ==
    /\ t \in tasks
    /\ Withdraw({t})

KillTask(t) ==
    /\ t \in tasks
    /\ LET K == Dependents({t}, after) IN Withdraw(K)

Next ==
    \/ \E t \in Task, D \in SUBSET Task : AddTask(t, D)
    \/ \E t \in Task : RemoveTask(t) \/ KillTask(t)

Spec == Init /\ [][Next]_vars
=============================================================================
