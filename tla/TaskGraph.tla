----------------------------- MODULE TaskGraph ------------------------------
(***************************************************************************)
(* The task graph of one recipe: class digraph of lib/bb/__init__.py and   *)
(* the operations of lib/bb/build.py that change it, add_task and          *)
(* remove_task.                                                            *)
(*                                                                         *)
(* digraph.dict maps a node to [reference count, list of parents].  The    *)
(* count is kept by hand in addnode and delnode, and firstzero, allzeros   *)
(* and hasallzeros answer from it without looking at the parents.  A       *)
(* parent of t is a task that t runs after.                                *)
(*                                                                         *)
(* Python runs the loop of add_task and the recursion of delnode a node at *)
(* a time, so does the model: `adding` is what is left of add_task's loop, *)
(* `pending` the nodes that delnode still has to call itself for.  The     *)
(* order of a node's parents and of okeys is not kept: nothing here        *)
(* depends on it, and `pending` may be taken in any order.                 *)
(***************************************************************************)
EXTENDS Naturals, FiniteSets

CONSTANTS
    Task,                       \* the names of tasks
    None                        \* Python's None

(* The arguments of a call of add_task.                                    *)
AddCall == [task : Task, deps : SUBSET Task]

ASSUME TaskAssumption == IsFiniteSet(Task) /\ None \notin AddCall

VARIABLES
    nodes,                      \* the keys of digraph.dict
    parents,                    \* dict[x][1] as a set; {} for a name that is no key
    refs,                       \* dict[x][0]; 0 for a name that is no key
    flagged,                    \* the names whose `task` flag is set in the data
    adding,                     \* [task, deps] of the add_task in progress, or None
    pending                     \* nodes a delnode(.., 2) in progress has yet to delete

graph == <<nodes, parents, refs>>
vars == <<nodes, parents, refs, flagged, adding, pending>>

Idle == adding = None /\ pending = {}

(* digraph.getchildren: the nodes that have x among their parents.         *)
Children(x) == {y \in nodes : x \in parents[y]}

(* digraph.allzeros: answered from the counts alone.                       *)
AllZeros == {x \in nodes : refs[x] = 0}

-----------------------------------------------------------------------------
Init ==
    /\ nodes = {}
    /\ parents = [x \in Task |-> {}]
    /\ refs = [x \in Task |-> 0]
    /\ flagged = {}
    /\ adding = None
    /\ pending = {}

(* digraph.addnode(key, None): a new key starts with no parents and no     *)
(* references; a known one is left alone.                                  *)
AddBareNode(K) ==
    nodes' = nodes \cup K

(* Mutant of LinkParent: the reference is counted also when the parent was *)
(* there already.                                                          *)
LinkParentRecounts(key, parent) ==
    /\ parents' = [parents EXCEPT ![key] = @ \cup {parent}]
    /\ refs' = [refs EXCEPT ![parent] = @ + 1]

(* digraph.addnode(key, parent) for a key that exists, as in add_task: the *)
(* parent is counted only when it was not a parent already.                *)
LinkParent(key, parent) ==
    IF parent \in parents[key]
    THEN UNCHANGED <<parents, refs>>
    ELSE /\ parents' = [parents EXCEPT ![key] = @ \cup {parent}]
         /\ refs' = [refs EXCEPT ![parent] = @ + 1]

(* add_task up to its loop: flag the task and make its node.               *)
AddTask(t, deps) ==
    /\ Idle
    /\ flagged' = flagged \cup {t}
    /\ AddBareNode({t})
    /\ adding' = [task |-> t, deps |-> deps]
    /\ UNCHANGED <<parents, refs, pending>>

(* One turn of add_task's loop: make the dependency's node if it has none, *)
(* then link it.                                                           *)
AddDep ==
    /\ adding # None
    /\ \E dep \in adding.deps :
        /\ AddBareNode({dep})
        /\ LinkParent(adding.task, dep)
        /\ adding' = [adding EXCEPT !.deps = @ \ {dep}]
    /\ UNCHANGED <<flagged, pending>>

AddTaskReturns ==
    /\ adding # None
    /\ adding.deps = {}
    /\ adding' = None
    /\ UNCHANGED <<nodes, parents, refs, flagged, pending>>

(* Mutants of DelNode: every count goes down, not only the parents'; the   *)
(* children keep the deleted key as a parent; a kill deletes the named     *)
(* node only.                                                              *)
DelNodeUncountsAll(key, kill) ==
    /\ nodes' = nodes \ {key}
    /\ refs' = [x \in Task |-> IF x = key THEN 0 ELSE refs[x] - 1]
    /\ parents' = [x \in Task |-> IF x = key THEN {} ELSE parents[x] \ {key}]
    /\ pending' = (pending \ {key}) \cup (IF kill THEN Children(key) \ {key} ELSE {})

DelNodeKeepsEdges(key, kill) ==
    /\ nodes' = nodes \ {key}
    /\ refs' = [x \in Task |->
                  IF x \in parents[key] /\ refs[x] > 0 THEN refs[x] - 1 ELSE refs[x]]
    /\ parents' = [parents EXCEPT ![key] = {}]
    /\ pending' = (pending \ {key}) \cup (IF kill THEN Children(key) \ {key} ELSE {})

DelNodeNoRecursion(key, kill) ==
    /\ nodes' = nodes \ {key}
    /\ refs' = [x \in Task |->
                  IF x = key THEN 0
                  ELSE IF x \in parents[key] THEN refs[x] - 1 ELSE refs[x]]
    /\ parents' = [x \in Task |-> IF x = key THEN {} ELSE parents[x] \ {key}]
    /\ pending' = pending \ {key}

(* digraph.delnode(key, ref): give back the references key holds, drop the *)
(* key, then drop it from its children's parents; with ref 2 (`kill`) the  *)
(* children are to be deleted in turn.                                     *)
DelNode(key, kill) ==
    /\ nodes' = nodes \ {key}
    /\ refs' = [x \in Task |->
                  IF x = key THEN 0
                  ELSE IF x \in parents[key] THEN refs[x] - 1 ELSE refs[x]]
    /\ parents' = [x \in Task |->
                  IF x = key THEN {} ELSE parents[x] \ {key}]
    /\ pending' = (pending \ {key}) \cup (IF kill THEN Children(key) \ {key} ELSE {})

(* remove_task: clear the flag of the task and delete its node; only the   *)
(* named task loses its flag.                                              *)
RemoveTask(t, kill) ==
    /\ Idle
    /\ t \in nodes
    /\ flagged' = flagged \ {t}
    /\ DelNode(t, kill)
    /\ UNCHANGED adding

(* delnode calling itself for a child it collected, which an earlier call  *)
(* of the same recursion may have deleted already.                         *)
KillChild ==
    \E l \in pending :
        /\ IF l \in nodes
           THEN DelNode(l, TRUE)
           ELSE pending' = pending \ {l} /\ UNCHANGED graph
        /\ UNCHANGED <<flagged, adding>>

Next ==
    \/ \E t \in Task, deps \in SUBSET Task : AddTask(t, deps)
    \/ AddDep
    \/ AddTaskReturns
    \/ \E t \in Task, kill \in BOOLEAN : RemoveTask(t, kill)
    \/ KillChild

Spec == Init /\ [][Next]_vars

-----------------------------------------------------------------------------
(* The variables keep their types: the data structure is never in a shape  *)
(* on which addnode or delnode would fail.                                 *)
TypeOK ==
    /\ nodes \subseteq Task
    /\ parents \in [Task -> SUBSET Task]
    /\ refs \in [Task -> Nat]
    /\ flagged \subseteq Task
    /\ adding \in AddCall \cup {None}
    /\ pending \subseteq Task

(* Every parent a node has is itself a node: delnode's walk over           *)
(* dict[key][1] never meets a missing key, however tasks were added,       *)
(* linked in a cycle, removed and killed before.                           *)
ParentsKnown ==
    \A x \in Task : parents[x] # {} => x \in nodes /\ parents[x] \subseteq nodes

(* The hand-kept reference count of a node is the number of nodes that     *)
(* have it as a parent, also between two steps of a killing recursion, so  *)
(* firstzero, allzeros and hasallzeros answer what the edges say.          *)
RefsExact ==
    \A x \in Task : refs[x] = Cardinality(Children(x))

-----------------------------------------------------------------------------
(* The abstract view: what is left of the operation in progress counts as  *)
(* done already.                                                           *)
edges == {e \in nodes \X Task : e[2] \in parents[e[1]]}
soonNodes == nodes \cup (IF adding = None THEN {} ELSE adding.deps)
soonEdges == edges \cup (IF adding = None THEN {} ELSE {adding.task} \X adding.deps)
Deps == INSTANCE TaskDependencies WITH tasks <- nodes, after <- edges
doomed == Deps!Dependents(pending, edges)

viewNodes == IF pending = {} THEN soonNodes ELSE nodes \ doomed
viewEdges == IF pending = {} THEN soonEdges
             ELSE {e \in edges : e[1] \notin doomed /\ e[2] \notin doomed}

View == INSTANCE TaskDependencies WITH tasks <- viewNodes, after <- viewEdges

(* Each call does, at the moment it is made and as a whole, what           *)
(* TaskDependencies says of it, and the steps that follow change nothing.  *)
EachOperation ==
    /\ \A t \in Task, deps \in SUBSET Task : AddTask(t, deps) => View!AddTask(t, deps)
    /\ \A t \in Task : /\ RemoveTask(t, FALSE) => View!RemoveTask(t)
                       /\ RemoveTask(t, TRUE) => View!KillTask(t)
    /\ AddDep \/ AddTaskReturns \/ KillChild => UNCHANGED View!vars

(* Seen from outside, add_task and remove_task are atomic and do exactly   *)
(* what TaskDependencies says: a kill takes the dependents, all of them,   *)
(* and nothing else, whatever the order and the cycles the recursion meets.*)
RefinesTaskDependencies == View!Spec /\ [][EachOperation]_vars
=============================================================================
