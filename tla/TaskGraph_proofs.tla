-------------------------- MODULE TaskGraph_proofs --------------------------
(***************************************************************************)
(* TaskGraph keeps its reference counts exact and its edges inside the     *)
(* graph, for any set of task names and any sequence of operations, and    *)
(* its operations do what TaskDependencies says they do.                   *)
(***************************************************************************)
EXTENDS TaskGraph, FiniteSetTheorems, TLAPS

(* What the invariants lean on besides each other: add_task and remove_task*)
(* do not overlap, and the task being added has its node.                  *)
OneOperation ==
    /\ adding # None => pending = {} /\ adding.task \in nodes
    /\ nodes \subseteq Task

IInv == TypeOK /\ ParentsKnown /\ RefsExact /\ OneOperation

-----------------------------------------------------------------------------
(* A node's children are finite in number: counting them makes sense.      *)
LEMMA ChildrenFinite ==
    ASSUME TypeOK, NEW x \in Task
    PROVE  /\ IsFiniteSet(Children(x))
           /\ Cardinality(Children(x)) \in Nat
<1>1. IsFiniteSet(nodes)
  BY TaskAssumption, FS_Subset DEF TypeOK
<1>2. Children(x) \subseteq nodes
  BY DEF Children
<1> QED
  BY <1>1, <1>2, FS_Subset, FS_CardinalityType

(* addnode(key, None) changes nobody's children: a new key has no parents. *)
LEMMA BareNodeKeepsChildren ==
    ASSUME TypeOK, ParentsKnown, NEW K \in SUBSET Task, AddBareNode(K),
           UNCHANGED parents, NEW x \in Task
    PROVE  Children(x)' = Children(x)
  BY DEF TypeOK, ParentsKnown, AddBareNode, Children

(* The initial graph is empty.                                             *)
LEMMA InitIInv == Init => IInv
<1> SUFFICES ASSUME Init PROVE IInv
  OBVIOUS
<1>1. TypeOK /\ ParentsKnown /\ OneOperation
  BY DEF Init, TypeOK, ParentsKnown, OneOperation
<1>2. RefsExact
  <2>1. \A x \in Task : Children(x) = {} /\ refs[x] = 0
    BY DEF Init, Children
  <2> QED
    BY <2>1, FS_EmptySet DEF RefsExact
<1> QED
  BY <1>1, <1>2 DEF IInv

(* add_task's flagging and its bare node.                                  *)
LEMMA AddTaskIInv ==
    ASSUME IInv, NEW t \in Task, NEW deps \in SUBSET Task, AddTask(t, deps)
    PROVE  IInv'
<1> USE DEF IInv
<1>1. TypeOK'
  BY DEF AddTask, AddBareNode, TypeOK, AddCall
<1>2. ParentsKnown'
  BY DEF AddTask, AddBareNode, TypeOK, ParentsKnown
<1>3. OneOperation'
  BY DEF AddTask, AddBareNode, OneOperation, Idle
<1>4. RefsExact'
  BY BareNodeKeepsChildren DEF AddTask, RefsExact
<1> QED
  BY <1>1, <1>2, <1>3, <1>4

(* One turn of add_task's loop: the dependency gets its node, and one more *)
(* child exactly when its count goes up.                                   *)
LEMMA AddDepIInv ==
    ASSUME IInv, AddDep
    PROVE  IInv'
<1> USE DEF IInv
<1> PICK dep \in adding.deps :
        /\ AddBareNode({dep})
        /\ LinkParent(adding.task, dep)
        /\ adding' = [adding EXCEPT !.deps = @ \ {dep}]
  BY DEF AddDep
<1> DEFINE t == adding.task
<1>1. adding \in AddCall /\ UNCHANGED <<flagged, pending>>
  BY DEF AddDep, TypeOK
<1>2. t \in Task /\ dep \in Task /\ t \in nodes /\ pending = {}
  BY <1>1 DEF AddDep, AddCall, OneOperation
<1>3. adding' \in AddCall /\ adding'.task = t /\ adding' # None
  <2>1. adding' = [task |-> t, deps |-> adding.deps \ {dep}]
    BY <1>1, TaskAssumption DEF AddCall, AddDep
  <2> QED
    BY <2>1, <1>1, <1>2, TaskAssumption DEF AddCall, AddDep
<1>4. nodes' = nodes \cup {dep}
  BY DEF AddBareNode
<1>5. CASE dep \in parents[t]
  <2>1. UNCHANGED <<parents, refs>> /\ dep \in nodes
    BY <1>2, <1>5 DEF LinkParent, ParentsKnown
  <2>2. nodes' = nodes
    BY <1>4, <2>1
  <2> QED
    BY <1>1, <1>2, <1>3, <2>1, <2>2
       DEF TypeOK, ParentsKnown, RefsExact, OneOperation, Children
<1>6. CASE dep \notin parents[t]
  <2>1. /\ parents' = [parents EXCEPT ![t] = @ \cup {dep}]
        /\ refs' = [refs EXCEPT ![dep] = @ + 1]
    BY <1>6 DEF LinkParent
  <2>2. TypeOK'
    BY <1>1, <1>2, <1>3, <1>4, <2>1 DEF TypeOK
  <2>3. ParentsKnown'
    BY <1>2, <1>4, <2>1 DEF TypeOK, ParentsKnown
  <2>4. OneOperation'
    BY <1>1, <1>2, <1>3, <1>4 DEF OneOperation
  <2>5. ASSUME NEW x \in Task PROVE refs'[x] = Cardinality(Children(x)')
    <3>1. CASE x = dep
      <4>1. Children(dep)' = Children(dep) \cup {t} /\ t \notin Children(dep)
        BY <1>2, <1>4, <1>6, <2>1 DEF Children, TypeOK, ParentsKnown
      <4>2. Cardinality(Children(dep) \cup {t}) = Cardinality(Children(dep)) + 1
        BY <1>2, <4>1, ChildrenFinite, FS_AddElement
      <4>3. refs'[dep] = refs[dep] + 1
        BY <1>2, <2>1 DEF TypeOK
      <4> QED
        BY <1>2, <3>1, <4>1, <4>2, <4>3 DEF RefsExact
    <3>2. CASE x # dep
      <4>1. Children(x)' = Children(x)
        BY <1>2, <1>4, <2>1, <3>2 DEF Children, TypeOK, ParentsKnown
      <4>2. refs'[x] = refs[x]
        BY <2>1, <3>2 DEF TypeOK
      <4> QED
        BY <4>1, <4>2 DEF RefsExact
    <3> QED
      BY <3>1, <3>2
  <2>6. RefsExact'
    BY <2>5 DEF RefsExact
  <2> QED
    BY <2>2, <2>3, <2>4, <2>6
<1> QED
  BY <1>5, <1>6

(* delnode: the deleted key leaves every parent's children and nothing     *)
(* else does, and exactly those parents lose a reference.                  *)
LEMMA DelNodeIInv ==
    ASSUME IInv, NEW key \in nodes, NEW kill \in BOOLEAN, DelNode(key, kill),
           flagged' \subseteq Task, adding = None, adding' = None
    PROVE  IInv'
<1> USE DEF IInv
<1>1. key \in Task /\ Children(key) \subseteq Task
  BY DEF TypeOK, Children
<1>2. nodes' = nodes \ {key}
  BY DEF DelNode
<1>3. parents' = [x \in Task |-> IF x = key THEN {} ELSE parents[x] \ {key}]
  BY DEF DelNode
<1>4. refs' = [x \in Task |->
                 IF x = key THEN 0
                 ELSE IF x \in parents[key] THEN refs[x] - 1 ELSE refs[x]]
  BY DEF DelNode
<1>5. ASSUME NEW x \in Task
      PROVE  /\ refs'[x] \in Nat
             /\ refs'[x] = Cardinality(Children(x)')
  <2>1. CASE x = key
    <3>1. Children(key)' = {}
      BY <1>2, <1>3 DEF Children, TypeOK
    <3> QED
      BY <1>4, <2>1, <3>1, FS_EmptySet
  <2>2. CASE x # key /\ x \in parents[key]
    <3>1. key \in Children(x) /\ Children(x)' = Children(x) \ {key}
      BY <1>2, <1>3, <2>2 DEF Children, TypeOK
    <3>2. /\ Cardinality(Children(x) \ {key}) = Cardinality(Children(x)) - 1
          /\ IsFiniteSet(Children(x) \ {key})
      BY <3>1, ChildrenFinite, FS_RemoveElement
    <3>3. Cardinality(Children(x) \ {key}) \in Nat
      BY <3>2, FS_CardinalityType
    <3>4. refs'[x] = refs[x] - 1
      BY <1>4, <2>2
    <3> QED
      BY <3>1, <3>2, <3>3, <3>4 DEF RefsExact
  <2>3. CASE x # key /\ x \notin parents[key]
    <3>1. Children(x)' = Children(x)
      BY <1>2, <1>3, <2>3 DEF Children, TypeOK
    <3>2. refs'[x] = refs[x]
      BY <1>4, <2>3
    <3> QED
      BY <3>1, <3>2 DEF RefsExact, TypeOK
  <2> QED
    BY <2>1, <2>2, <2>3
<1>6. TypeOK'
  <2>1. refs' \in [Task -> Nat]
    BY <1>4, <1>5
  <2>2. parents' \in [Task -> SUBSET Task]
    BY <1>3 DEF TypeOK
  <2>3. pending' \subseteq Task
    BY <1>1 DEF DelNode, TypeOK
  <2> QED
    BY <1>2, <2>1, <2>2, <2>3 DEF TypeOK
<1>7. ParentsKnown'
  BY <1>2, <1>3 DEF TypeOK, ParentsKnown
<1>8. RefsExact'
  BY <1>5 DEF RefsExact
<1>9. OneOperation'
  BY <1>2 DEF OneOperation
<1> QED
  BY <1>6, <1>7, <1>8, <1>9

(* Every step keeps the invariant: one step of the proof per action.       *)
LEMMA NextIInv == IInv /\ [Next]_vars => IInv'
<1> SUFFICES ASSUME IInv, [Next]_vars PROVE IInv'
  OBVIOUS
<1>1. ASSUME NEW t \in Task, NEW deps \in SUBSET Task, AddTask(t, deps)
      PROVE  IInv'
  BY <1>1, AddTaskIInv
<1>2. CASE AddDep
  BY <1>2, AddDepIInv
<1>3. CASE AddTaskReturns
  BY <1>3 DEF AddTaskReturns, IInv, TypeOK, ParentsKnown, RefsExact, OneOperation, Children
<1>4. ASSUME NEW t \in Task, NEW kill \in BOOLEAN, RemoveTask(t, kill)
      PROVE  IInv'
  <2>1. /\ t \in nodes /\ DelNode(t, kill)
        /\ flagged' \subseteq Task /\ adding = None /\ adding' = None
    BY <1>4 DEF RemoveTask, Idle, IInv, TypeOK
  <2> QED
    BY <2>1, DelNodeIInv
<1>5. CASE KillChild
  <2> PICK l \in pending :
        /\ IF l \in nodes
           THEN DelNode(l, TRUE)
           ELSE pending' = pending \ {l} /\ UNCHANGED graph
        /\ UNCHANGED <<flagged, adding>>
    BY <1>5 DEF KillChild
  <2>1. adding = None /\ adding' = None /\ flagged' \subseteq Task
    BY DEF IInv, OneOperation, TypeOK
  <2>2. CASE l \in nodes
    BY <2>1, <2>2, DelNodeIInv
  <2>3. CASE l \notin nodes
    BY <2>1, <2>3
       DEF IInv, TypeOK, ParentsKnown, RefsExact, OneOperation, Children, graph
  <2> QED
    BY <2>2, <2>3
<1>6. CASE UNCHANGED vars
  BY <1>6 DEF vars, IInv, TypeOK, ParentsKnown, RefsExact, OneOperation, Children
<1> QED
  BY <1>1, <1>2, <1>3, <1>4, <1>5, <1>6 DEF Next

(* IInv holds throughout: the inductive invariant of all four theorems.    *)
LEMMA IInvAlways == Spec => []IInv
  BY InitIInv, NextIInv, PTL DEF Spec

-----------------------------------------------------------------------------
(* The digraph keeps its shape.                                            *)
THEOREM TaskGraphTypes == Spec => []TypeOK
  BY IInvAlways, PTL DEF IInv

(* A parent of a node is a node: delnode never meets a missing key.        *)
THEOREM TaskGraphParentsKnown == Spec => []ParentsKnown
  BY IInvAlways, PTL DEF IInv

(* The reference count kept by addnode and delnode is the number of nodes  *)
(* that have the node as a parent.                                         *)
THEOREM TaskGraphRefsExact == Spec => []RefsExact
  BY IInvAlways, PTL DEF IInv

-----------------------------------------------------------------------------
(* From here on: what is seen from outside, each operation done at once.   *)

(* Dependents is the least set that has its first argument's members and,  *)
(* with a task, all that run after it.                                     *)
LEMMA DependentsLeast ==
    ASSUME NEW K, NEW E, NEW S \in SUBSET Task,
           K \subseteq S, \A e \in E : e[2] \in S => e[1] \in S
    PROVE  Deps!Dependents(K, E) \subseteq S
  BY DEF Deps!Dependents

(* Nothing depends on nothing.                                             *)
LEMMA DependentsOfNone ==
    ASSUME NEW E
    PROVE  Deps!Dependents({}, E) = {}
  BY DependentsLeast, {} \in SUBSET Task

(* One step of the recursion: what is doomed with l is l itself, and what  *)
(* is doomed, l and its edges gone, with its children in its place.        *)
LEMMA DependentsStep ==
    ASSUME NEW E \in SUBSET (Task \X Task), NEW P \in SUBSET Task, NEW l \in P,
           NEW F \in SUBSET E, NEW Q \in SUBSET Task,
           \A e \in E : e \in F <=> e[1] # l /\ e[2] # l,
           \A y \in Task : y \in Q <=> (y \in P \/ <<y, l>> \in E) /\ y # l
    PROVE  Deps!Dependents(P, E) = Deps!Dependents(Q, F) \cup {l}
<1>1. PICK before \in SUBSET Task :
        /\ before = Deps!Dependents(P, E)
        /\ P \subseteq before
        /\ \A e \in E : e[2] \in before => e[1] \in before
  <2>1. /\ P \subseteq Deps!Dependents(P, E)
        /\ Deps!Dependents(P, E) \subseteq Task
    BY DEF Deps!Dependents
  <2>2. \A e \in E : e[2] \in Deps!Dependents(P, E) => e[1] \in Deps!Dependents(P, E)
    BY DEF Deps!Dependents
  <2> QED
    BY <2>1, <2>2
<1>2. PICK later \in SUBSET Task :
        /\ later = Deps!Dependents(Q, F)
        /\ Q \subseteq later
        /\ \A e \in F : e[2] \in later => e[1] \in later
  <2>1. /\ Q \subseteq Deps!Dependents(Q, F)
        /\ Deps!Dependents(Q, F) \subseteq Task
    BY DEF Deps!Dependents
  <2>2. \A e \in F : e[2] \in Deps!Dependents(Q, F) => e[1] \in Deps!Dependents(Q, F)
    BY DEF Deps!Dependents
  <2> QED
    BY <2>1, <2>2
<1>3. ASSUME NEW S \in SUBSET Task, Q \subseteq S, \A e \in F : e[2] \in S => e[1] \in S
      PROVE  later \subseteq S
  BY <1>2, <1>3, DependentsLeast
<1>4. ASSUME NEW S \in SUBSET Task, P \subseteq S, \A e \in E : e[2] \in S => e[1] \in S
      PROVE  before \subseteq S
  BY <1>1, <1>4, DependentsLeast
<1>5. later \cup {l} \subseteq before
  <2>1. Q \subseteq before
    BY <1>1
  <2>2. \A e \in F : e[2] \in before => e[1] \in before
    BY <1>1
  <2> QED
    BY <1>1, <1>3, <2>1, <2>2
<1>6. before \subseteq later \cup {l}
  <2>1. P \subseteq later \cup {l}
    BY <1>2
  <2>2. ASSUME NEW e \in E, e[2] \in later \cup {l}
        PROVE  e[1] \in later \cup {l}
    <3>1. CASE e[1] = l
      BY <3>1
    <3>2. CASE e[1] # l /\ e[2] = l
      <4>1. e = <<e[1], l>> /\ e[1] \in Task
        BY <3>2
      <4> QED
        BY <1>2, <3>2, <4>1
    <3>3. CASE e[1] # l /\ e[2] # l
      BY <1>2, <2>2, <3>3
    <3> QED
      BY <3>1, <3>2, <3>3
  <2>3. later \cup {l} \in SUBSET Task
    OBVIOUS
  <2> QED
    BY <1>4, <2>1, <2>2, <2>3
<1> QED
  BY <1>1, <1>2, <1>5, <1>6

(* The edges are pairs of nodes.                                           *)
LEMMA EdgesOfNodes ==
    ASSUME TypeOK, ParentsKnown
    PROVE  /\ edges \in SUBSET (Task \X Task)
           /\ edges \in SUBSET (nodes \X nodes)
           /\ \A x, y \in Task : <<x, y>> \in edges <=> x \in nodes /\ y \in parents[x]
  BY DEF TypeOK, ParentsKnown, edges

(* With no add_task in progress, the view is what is not doomed.           *)
Remains ==
    /\ viewNodes = nodes \ doomed
    /\ viewEdges = {e \in edges : e[1] \notin doomed /\ e[2] \notin doomed}

LEMMA QuietRemains == adding = None => Remains
<1> SUFFICES ASSUME adding = None PROVE Remains
  OBVIOUS
<1>1. CASE pending = {}
  <2>1. doomed = {}
    BY <1>1, DependentsOfNone DEF doomed
  <2>2. soonNodes = nodes /\ soonEdges = edges
    BY DEF soonNodes, soonEdges
  <2> QED
    BY <1>1, <2>1, <2>2 DEF Remains, viewNodes, viewEdges
<1>2. CASE pending # {}
  BY <1>2 DEF Remains, viewNodes, viewEdges
<1> QED
  BY <1>1, <1>2

(* The same after a step.                                                  *)
LEMMA QuietRemainsNext == (adding = None => Remains)'
  BY QuietRemains, PTL

(* delnode on one node: its edges go with it.                              *)
LEMMA DelNodeEdges ==
    ASSUME IInv, NEW key \in nodes, NEW kill \in BOOLEAN, DelNode(key, kill)
    PROVE  /\ nodes' = nodes \ {key}
           /\ edges' = {e \in edges : e[1] # key /\ e[2] # key}
           /\ Children(key) = {y \in Task : <<y, key>> \in edges}
<1>1. nodes' = nodes \ {key} /\ key \in Task
  BY DEF DelNode, IInv, TypeOK
<1>2. parents' = [x \in Task |-> IF x = key THEN {} ELSE parents[x] \ {key}]
  BY DEF DelNode
<1>3. edges' = {e \in nodes' \X Task : e[2] \in parents'[e[1]]}
  BY DEF edges
<1>4. ASSUME NEW e \in edges', TRUE PROVE e \in edges /\ e[1] # key /\ e[2] # key
  BY <1>1, <1>2, <1>3 DEF edges, IInv, TypeOK
<1>5. ASSUME NEW e \in edges, e[1] # key, e[2] # key PROVE e \in edges'
  BY <1>1, <1>2, <1>3, <1>5 DEF edges, IInv, TypeOK
<1>6. edges' = {e \in edges : e[1] # key /\ e[2] # key}
  BY <1>4, <1>5
<1>7. Children(key) = {y \in Task : <<y, key>> \in edges}
  BY <1>1, EdgesOfNodes DEF Children, IInv, TypeOK
<1> QED
  BY <1>1, <1>6, <1>7

(* A deletion within a killing recursion, of a node that is there or of    *)
(* one an earlier call took: what is doomed stays so.                      *)
LEMMA DoomedStep ==
    ASSUME IInv, NEW P \in SUBSET Task, NEW l \in P, pending' \in SUBSET Task,
           \/ /\ l \in nodes
              /\ DelNode(l, TRUE)
              /\ pending' = (P \ {l}) \cup (Children(l) \ {l})
           \/ /\ l \notin nodes
              /\ UNCHANGED graph
              /\ pending' = P \ {l}
    PROVE  /\ Deps!Dependents(P, edges) = doomed' \cup {l}
           /\ nodes' = nodes \ {l}
           /\ edges' = {e \in edges : e[1] # l /\ e[2] # l}
<1>1. /\ nodes' = nodes \ {l}
      /\ edges' = {e \in edges : e[1] # l /\ e[2] # l}
      /\ pending' = (P \ {l}) \cup ({y \in Task : <<y, l>> \in edges} \ {l})
  <2>1. CASE l \in nodes
    BY <2>1, DelNodeEdges
  <2>2. CASE l \notin nodes
    <3>1. UNCHANGED <<nodes, edges>>
      BY <2>2 DEF graph, edges
    <3>2. edges \in SUBSET (nodes \X nodes)
      BY EdgesOfNodes DEF IInv
    <3>3. {y \in Task : <<y, l>> \in edges} = {}
      BY <2>2, <3>2
    <3>4. edges = {e \in edges : e[1] # l /\ e[2] # l}
      BY <2>2, <3>2
    <3>5. pending' = P \ {l}
      BY <2>2
    <3> QED
      BY <2>2, <3>1, <3>3, <3>4, <3>5
  <2> QED
    BY <2>1, <2>2
<1>2. edges \in SUBSET (Task \X Task)
  BY EdgesOfNodes DEF IInv
<1>3. PICK Q \in SUBSET Task : Q = pending'
  OBVIOUS
<1>4. PICK F : F = edges'
  OBVIOUS
<1>5. Deps!Dependents(P, edges) = Deps!Dependents(Q, F) \cup {l}
  <2>1. /\ Q = (P \ {l}) \cup ({y \in Task : <<y, l>> \in edges} \ {l})
        /\ F = {e \in edges : e[1] # l /\ e[2] # l}
    BY <1>1, <1>3, <1>4
  <2>2. PICK E \in SUBSET (Task \X Task) : E = edges /\ F \in SUBSET (Task \X Task)
    BY <1>2, <2>1
  <2>3. /\ \A e \in E : e \in F <=> e[1] # l /\ e[2] # l
        /\ \A y \in Task : y \in Q <=> (y \in P \/ <<y, l>> \in E) /\ y # l
        /\ F \in SUBSET E
    BY <2>1, <2>2
  <2>4. Deps!Dependents(P, E) = Deps!Dependents(Q, F) \cup {l}
    BY <2>3, DependentsStep
  <2> QED
    BY <2>2, <2>4
<1>6. doomed' = Deps!Dependents(Q, F)
  BY <1>3, <1>4 DEF doomed, Deps!Dependents
<1> QED
  BY <1>1, <1>5, <1>6

(* Before and after such a deletion the view is the same.                  *)
LEMMA RemainsStep ==
    ASSUME NEW N, NEW M, NEW E, NEW F, NEW l, NEW D, NEW C, D = C \cup {l},
           M = N \ {l}, F = {e \in E : e[1] # l /\ e[2] # l}
    PROVE  /\ N \ D = M \ C
           /\ {e \in E : e[1] \notin D /\ e[2] \notin D}
                = {e \in F : e[1] \notin C /\ e[2] \notin C}
  OBVIOUS

(* A call of delnode for a child shows nothing to the outside.             *)
LEMMA KillChildStutters ==
    ASSUME IInv, KillChild
    PROVE  UNCHANGED View!vars
<1> PICK l \in pending :
        /\ IF l \in nodes
           THEN DelNode(l, TRUE)
           ELSE pending' = pending \ {l} /\ UNCHANGED graph
        /\ UNCHANGED <<flagged, adding>>
  BY DEF KillChild
<1>1. adding = None /\ adding' = None /\ pending \in SUBSET Task
  BY DEF IInv, OneOperation, TypeOK
<1>2. Children(l) \subseteq Task
  BY DEF IInv, TypeOK, Children
<1>3. /\ Deps!Dependents(pending, edges) = doomed' \cup {l}
      /\ nodes' = nodes \ {l}
      /\ edges' = {e \in edges : e[1] # l /\ e[2] # l}
  <2>1. CASE l \in nodes
    <3>1. DelNode(l, TRUE) /\ pending' = (pending \ {l}) \cup (Children(l) \ {l})
      BY <2>1 DEF DelNode
    <3> QED
      BY <1>1, <1>2, <2>1, <3>1, DoomedStep
  <2>2. CASE l \notin nodes
    BY <1>1, <2>2, DoomedStep
  <2> QED
    BY <2>1, <2>2
<1>4. /\ nodes \ doomed = nodes' \ doomed'
      /\ {e \in edges : e[1] \notin doomed /\ e[2] \notin doomed}
           = {e \in edges' : e[1] \notin doomed' /\ e[2] \notin doomed'}
  BY <1>3, RemainsStep DEF doomed
<1>5. Remains
  BY <1>1, QuietRemains
<1>6. Remains'
  BY <1>1, QuietRemainsNext
<1> QED
  BY <1>4, <1>5, <1>6 DEF Remains, View!vars

(* remove_task without kill takes the task and its edges.                  *)
LEMMA RemoveTaskIsOne ==
    ASSUME IInv, NEW t \in Task, RemoveTask(t, FALSE)
    PROVE  View!RemoveTask(t)
<1>1. /\ adding = None /\ adding' = None /\ pending = {} /\ pending' = {}
      /\ t \in nodes /\ DelNode(t, FALSE)
  BY DEF RemoveTask, Idle, DelNode
<1>2. /\ nodes' = nodes \ {t}
      /\ edges' = {e \in edges : e[1] # t /\ e[2] # t}
  BY <1>1, DelNodeEdges
<1>3. viewNodes = nodes /\ viewEdges = edges
  BY <1>1 DEF viewNodes, viewEdges, soonNodes, soonEdges
<1>4. viewNodes' = nodes' /\ viewEdges' = edges'
  BY <1>1 DEF viewNodes, viewEdges, soonNodes, soonEdges
<1> QED
  BY <1>1, <1>2, <1>3, <1>4 DEF View!RemoveTask, View!Withdraw

(* remove_task with kill, which also starts the recursion, takes at once   *)
(* all that depends on the task.                                           *)
LEMMA KillTaskIsOne ==
    ASSUME IInv, NEW t \in Task, RemoveTask(t, TRUE)
    PROVE  View!KillTask(t)
<1>1. /\ adding = None /\ adding' = None /\ pending = {}
      /\ t \in nodes /\ DelNode(t, TRUE)
      /\ pending' = ({t} \ {t}) \cup (Children(t) \ {t})
  BY DEF RemoveTask, Idle, DelNode
<1>2. pending' \in SUBSET Task
  BY <1>1 DEF IInv, TypeOK, Children
<1>3. /\ Deps!Dependents({t}, edges) = doomed' \cup {t}
      /\ nodes' = nodes \ {t}
      /\ edges' = {e \in edges : e[1] # t /\ e[2] # t}
  <2>1. {t} \in SUBSET Task /\ t \in {t}
    OBVIOUS
  <2>2. t \in nodes /\ DelNode(t, TRUE) /\ pending' = ({t} \ {t}) \cup (Children(t) \ {t})
    BY <1>1
  <2>3. PICK P \in SUBSET Task : P = {t} /\ t \in P
    BY <2>1
  <2>4. pending' = (P \ {t}) \cup (Children(t) \ {t})
    BY <2>2, <2>3
  <2>5. Deps!Dependents(P, edges) = doomed' \cup {t}
    BY <1>2, <2>2, <2>3, <2>4, DoomedStep
  <2> QED
    BY <1>1, <2>3, <2>5, DelNodeEdges
<1>4. viewNodes = nodes /\ viewEdges = edges
  BY <1>1 DEF viewNodes, viewEdges, soonNodes, soonEdges
<1>5. Remains'
  BY <1>1, QuietRemainsNext
<1> DEFINE K == Deps!Dependents({t}, edges)
<1>6. /\ viewNodes' = nodes \ K
      /\ viewEdges' = {e \in edges : e[1] \notin K /\ e[2] \notin K}
  BY <1>3, <1>5, RemainsStep DEF Remains
<1>7. View!Dependents({t}, viewEdges) = K
  BY <1>4 DEF View!Dependents, Deps!Dependents
<1> QED
  BY <1>1, <1>4, <1>6, <1>7 DEF View!KillTask, View!Withdraw

(* add_task's first step adds all that its loop will.                      *)
LEMMA AddTaskIsOne ==
    ASSUME IInv, NEW t \in Task, NEW deps \in SUBSET Task, AddTask(t, deps)
    PROVE  View!AddTask(t, deps)
<1>1. /\ adding = None /\ pending = {} /\ pending' = {}
      /\ adding' = [task |-> t, deps |-> deps] /\ nodes' = nodes \cup {t}
      /\ parents' = parents
  BY DEF AddTask, Idle, AddBareNode
<1>2. adding' # None
  BY <1>1, TaskAssumption DEF AddCall
<1>3. edges' = edges
  BY <1>1 DEF edges, IInv, TypeOK, ParentsKnown
<1>4. viewNodes = nodes /\ viewEdges = edges
  BY <1>1 DEF viewNodes, viewEdges, soonNodes, soonEdges
<1>5. viewNodes' = soonNodes' /\ viewEdges' = soonEdges'
  BY <1>1 DEF viewNodes, viewEdges
<1>6. soonNodes' = nodes' \cup deps /\ soonEdges' = edges' \cup ({t} \X deps)
  BY <1>1, <1>2 DEF soonNodes, soonEdges
<1> QED
  BY <1>1, <1>3, <1>4, <1>5, <1>6 DEF View!AddTask

(* A turn of the loop then shows nothing.                                  *)
LEMMA AddDepStutters ==
    ASSUME IInv, AddDep
    PROVE  UNCHANGED View!vars
<1> PICK dep \in adding.deps :
        /\ AddBareNode({dep})
        /\ LinkParent(adding.task, dep)
        /\ adding' = [adding EXCEPT !.deps = @ \ {dep}]
  BY DEF AddDep
<1> DEFINE t == adding.task
<1>1. /\ adding \in AddCall /\ adding # None /\ pending = {} /\ pending' = {}
      /\ t \in nodes
  BY DEF AddDep, IInv, TypeOK, OneOperation
<1>2. adding' = [task |-> t, deps |-> adding.deps \ {dep}] /\ adding' # None
  BY <1>1, TaskAssumption DEF AddCall
<1>3. nodes' = nodes \cup {dep} /\ dep \in Task /\ t \in Task
  BY <1>1 DEF AddBareNode, AddCall
<1>4. edges' = edges \cup {<<t, dep>>}
  <2>1. parents' = [parents EXCEPT ![t] = @ \cup {dep}]
    BY <1>3 DEF LinkParent, IInv, TypeOK
  <2>2. ASSUME NEW x \in Task, NEW y \in Task
        PROVE  <<x, y>> \in edges' <=> <<x, y>> \in edges \/ (x = t /\ y = dep)
    BY <1>1, <1>3, <2>1 DEF edges, IInv, TypeOK, ParentsKnown
  <2>3. edges' \subseteq Task \X Task /\ edges \subseteq Task \X Task
    BY <1>3 DEF edges, IInv, TypeOK
  <2> QED
    BY <1>3, <2>2, <2>3
<1>5. soonNodes' = soonNodes /\ soonEdges' = soonEdges
  <2>1. soonNodes' = nodes' \cup (adding.deps \ {dep})
    BY <1>2 DEF soonNodes
  <2>2. soonEdges' = edges' \cup ({t} \X (adding.deps \ {dep}))
    BY <1>2 DEF soonEdges
  <2>3. /\ soonNodes = nodes \cup adding.deps
        /\ soonEdges = edges \cup ({t} \X adding.deps)
    BY <1>1 DEF soonNodes, soonEdges
  <2> QED
    BY <1>3, <1>4, <2>1, <2>2, <2>3
<1> QED
  BY <1>1, <1>5 DEF viewNodes, viewEdges, View!vars

(* Nor does its end.                                                       *)
LEMMA AddTaskReturnsStutters ==
    ASSUME IInv, AddTaskReturns
    PROVE  UNCHANGED View!vars
<1>1. /\ adding # None /\ adding' = None /\ adding.deps = {}
      /\ pending = {} /\ pending' = {} /\ nodes' = nodes /\ parents' = parents
  BY DEF AddTaskReturns, IInv, OneOperation
<1>2. edges' = edges
  BY <1>1 DEF edges
<1>3. soonNodes' = soonNodes /\ soonEdges' = soonEdges
  BY <1>1, <1>2 DEF soonNodes, soonEdges
<1> QED
  BY <1>1, <1>3 DEF viewNodes, viewEdges, View!vars

(* The view depends on the variables alone.                                *)
LEMMA StutterStutters ==
    ASSUME UNCHANGED vars
    PROVE  UNCHANGED View!vars
<1>1. UNCHANGED <<nodes, parents, adding, pending>>
  BY DEF vars
<1>2. UNCHANGED <<edges, soonNodes, soonEdges>>
  BY <1>1 DEF edges, soonNodes, soonEdges
<1>3. UNCHANGED doomed
  BY <1>1, <1>2 DEF doomed, Deps!Dependents
<1> QED
  BY <1>1, <1>2, <1>3 DEF viewNodes, viewEdges, View!vars

(* Each call is one step of the abstract specification, and what follows   *)
(* it shows nothing.                                                       *)
LEMMA StepEachOperation == IInv /\ [Next]_vars => [EachOperation]_vars
  BY AddTaskIsOne, RemoveTaskIsOne, KillTaskIsOne, AddDepStutters,
     AddTaskReturnsStutters, KillChildStutters DEF EachOperation

(* Every step maps to a step of TaskDependencies or to none.               *)
LEMMA StepRefines == IInv /\ [Next]_vars => [View!Next]_View!vars
<1> SUFFICES ASSUME IInv, [Next]_vars PROVE [View!Next]_View!vars
  OBVIOUS
<1>1. ASSUME NEW t \in Task, NEW deps \in SUBSET Task, AddTask(t, deps)
      PROVE  View!Next
  BY <1>1, AddTaskIsOne DEF View!Next
<1>2. ASSUME NEW t \in Task, NEW kill \in BOOLEAN, RemoveTask(t, kill)
      PROVE  View!Next
  <2>1. CASE kill = TRUE
    BY <1>2, <2>1, KillTaskIsOne DEF View!Next
  <2>2. CASE kill = FALSE
    BY <1>2, <2>2, RemoveTaskIsOne DEF View!Next
  <2> QED
    BY <2>1, <2>2
<1>3. CASE AddDep \/ AddTaskReturns \/ KillChild
  BY <1>3, AddDepStutters, AddTaskReturnsStutters, KillChildStutters
<1>4. CASE UNCHANGED vars
  BY <1>4, StutterStutters
<1> QED
  BY <1>1, <1>2, <1>3, <1>4 DEF Next

(* Both begin without a task.                                              *)
LEMMA InitRefines == Init => View!Init
<1> SUFFICES ASSUME Init PROVE View!Init
  OBVIOUS
<1>1. nodes = {} /\ pending = {} /\ adding = None /\ edges = {}
  BY DEF Init, edges
<1> QED
  BY <1>1 DEF View!Init, viewNodes, viewEdges, soonNodes, soonEdges

(* add_task and remove_task, done a node at a time, implement the          *)
(* operations of TaskDependencies, each whole and at the moment it is      *)
(* called: a kill takes the dependents, all of them, and nothing else.     *)
THEOREM TaskGraphImplementsTaskDependencies == Spec => RefinesTaskDependencies
<1>1. Spec => View!Init /\ [][View!Next]_View!vars
  BY IInvAlways, InitRefines, StepRefines, PTL DEF Spec
<1>2. Spec => [][EachOperation]_vars
  BY IInvAlways, StepEachOperation, PTL DEF Spec
<1> QED
  BY <1>1, <1>2 DEF RefinesTaskDependencies, View!Spec
=============================================================================
