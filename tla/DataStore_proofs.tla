------------------------- MODULE DataStore_proofs ---------------------------
(***************************************************************************)
(* Copies of a store are independent of it, when the metadata has no       *)
(* conditional versions; the types are right, sharing of objects included; *)
(* no piece is applied twice; and what has the flag matchesenv is as the   *)
(* environment has the variable or a conditional version of it.  All for   *)
(* any variables, environment, expansions and number of stores.            *)
(***************************************************************************)
EXTENDS DataStore, WellFoundedInduction, TLAPS

Unconditional == \A n \in usage.names : Base[n] = None

(* A dictionary of dictionaries, whatever the objects are.                 *)
MemType(m) ==
    /\ m = [layer |-> m.layer, shared |-> m.shared]
    /\ m.layer = [s \in Store |-> m.layer[s]]
    /\ \A s \in Store : m.layer[s] = [n \in Name |-> m.layer[s][n]]

(* No object has two places, and every key is a name in use.               *)
NothingShared ==
    /\ MemType(mem)
    /\ mem.shared = {}
    /\ \A s \in Store, n \in Name : mem.layer[s][n] # None => n \in usage.names

IInv ==
    /\ usage \in Usages
    /\ chain \in [Store -> SUBSET Store]
    /\ loop.store \in Store
    /\ Unconditional => NothingShared /\ loop.todo \subseteq usage.names

(* m2 differs from m in store s alone, and there only at names in use.     *)
OnlyIn(s, m, m2) ==
    /\ MemType(m2)
    /\ m2.shared = {}
    /\ \A t \in Store, n \in Name : t # s => m2.layer[t][n] = m.layer[t][n]
    /\ \A n \in Name : m2.layer[s][n] # m.layer[s][n] => n \in usage.names

-----------------------------------------------------------------------------
(* A new object under a name in use stays in its store.                    *)
LEMMA PutOnlyIn ==
    ASSUME NEW m, MemType(m), m.shared = {},
           NEW s \in Store, NEW n \in usage.names, n \in Name, NEW v
    PROVE  OnlyIn(s, m, Put(m, s, n, v))
<1> DEFINE p == Put(m, s, n, v)
<1>1. p.shared = {}
  BY DEF Put, Detached
<1>2. p.layer = [m.layer EXCEPT ![s][n] = v]
  BY DEF Put
<1>3. p = [layer |-> p.layer, shared |-> p.shared]
  BY DEF Put
<1>4. ASSUME NEW t \in Store PROVE p.layer[t] = [k \in Name |-> p.layer[t][k]]
  <2>1. m.layer[t] = [k \in Name |-> m.layer[t][k]]
    BY DEF MemType
  <2>2. p.layer[t] = IF t = s THEN [m.layer[t] EXCEPT ![n] = v] ELSE m.layer[t]
    BY <1>2 DEF MemType
  <2> QED
    BY <2>1, <2>2
<1>5. ASSUME NEW t \in Store, NEW k \in Name, <<t, k>> # <<s, n>>
      PROVE  p.layer[t][k] = m.layer[t][k]
  <2>1. m.layer[t] = [j \in Name |-> m.layer[t][j]]
    BY DEF MemType
  <2>2. p.layer[t] = IF t = s THEN [m.layer[t] EXCEPT ![n] = v] ELSE m.layer[t]
    BY <1>2 DEF MemType
  <2> QED
    BY <2>1, <2>2, <1>5
<1>6. p.layer = [t \in Store |-> p.layer[t]]
  BY <1>2 DEF MemType
<1> HIDE DEF p
<1> QED
  BY <1>1, <1>3, <1>4, <1>5, <1>6 DEF OnlyIn, MemType, p

(* So does a change in place: the entry is the only one with its object.   *)
LEMMA ChangeOnlyIn ==
    ASSUME NEW m, MemType(m), m.shared = {},
           NEW s \in Store, NEW n \in usage.names, n \in Name, NEW v
    PROVE  OnlyIn(s, m, Change(m, s, n, v))
<1> DEFINE own == Shadow(m, s, n)
<1>1. OnlyIn(s, m, own)
  <2>1. CASE m.layer[s][n] # None
    BY <2>1 DEF Shadow, OnlyIn
  <2>2. CASE m.layer[s][n] = None
    BY <2>2, PutOnlyIn DEF Shadow
  <2> QED
    BY <2>1, <2>2
<1>2. Same(own, <<s, n>>) = {<<s, n>>}
  BY <1>1 DEF Same, OnlyIn
<1> HIDE DEF own
<1> DEFINE c == Change(m, s, n, v)
<1>5. /\ c = [layer |-> c.layer, shared |-> c.shared]
      /\ c.shared = {}
      /\ c.layer = [t \in Store |-> [k \in Name |->
              IF <<t, k>> \in {<<s, n>>} THEN v ELSE own.layer[t][k]]]
  BY <1>1, <1>2 DEF Change, own, OnlyIn
<1> HIDE DEF c
<1>6. MemType(c)
  BY <1>5 DEF MemType
<1>7. ASSUME NEW t \in Store, NEW k \in Name, <<t, k>> # <<s, n>>
      PROVE  c.layer[t][k] = own.layer[t][k]
  BY <1>5, <1>7
<1> QED
  BY <1>1, <1>5, <1>6, <1>7 DEF OnlyIn, c

(* Two changes of one store are a change of that store.                    *)
LEMMA OnlyInTwice ==
    ASSUME NEW m, NEW m1, NEW m2, NEW s \in Store, OnlyIn(s, m, m1), OnlyIn(s, m1, m2)
    PROVE  OnlyIn(s, m, m2)
<1>1. ASSUME NEW n \in Name, m2.layer[s][n] # m.layer[s][n] PROVE n \in usage.names
  <2>1. m2.layer[s][n] # m1.layer[s][n] \/ m1.layer[s][n] # m.layer[s][n]
    BY <1>1
  <2> QED
    BY <2>1 DEF OnlyIn
<1> QED
  BY <1>1 DEF OnlyIn

LEMMA SetContentOnlyIn ==
    ASSUME NEW m, MemType(m), m.shared = {},
           NEW s \in Store, NEW n \in usage.names, n \in Name, NEW content
    PROVE  OnlyIn(s, m, SetContent(m, s, n, content))
  BY ChangeOnlyIn DEF SetContent

(* The turns of the three loops.                                           *)
LEMMA InheritedOnlyIn ==
    ASSUME NEW m, MemType(m), m.shared = {},
           NEW s \in Store, NEW n \in usage.names, n \in Name
    PROVE  OnlyIn(s, m, InheritedKey(m, s, n))
<1> DEFINE set == SetContent(m, s, n, <<n>>)
<1>1. OnlyIn(s, m, set)
  BY SetContentOnlyIn
<1>2. MemType(set) /\ set.shared = {}
  BY <1>1 DEF OnlyIn
<1> HIDE DEF set
<1>3. OnlyIn(s, set, Change(set, s, n, [Found(set, s, n) EXCEPT !.flags = @ \cup {"matchesenv"}]))
  BY <1>2, ChangeOnlyIn
<1> QED
  BY <1>1, <1>3, OnlyInTwice DEF InheritedKey, set

LEMMA ExpandedOnlyIn ==
    ASSUME NEW m, MemType(m), m.shared = {}, NEW s \in Store,
           NEW n \in usage.names, n \in Name, Expanded[n] \in usage.names, Expanded[n] \in Name
    PROVE  OnlyIn(s, m, ExpandedKey(m, s, n))
<1> DEFINE from == Found(m, s, n)
           to == Expanded[n]
           set == SetContent(m, s, to, from.content)
           moved == Change(set, s, to, [Found(set, s, to) EXCEPT !.append = @ \o from.append,
                                                                 !.prepend = @ \o from.prepend])
<1>1. OnlyIn(s, m, set)
  BY SetContentOnlyIn
<1>2. MemType(set) /\ set.shared = {}
  BY <1>1 DEF OnlyIn
<1> HIDE DEF set
<1>3. OnlyIn(s, set, moved)
  BY <1>2, ChangeOnlyIn
<1>4. MemType(moved) /\ moved.shared = {}
  BY <1>3 DEF OnlyIn
<1> HIDE DEF moved
<1>5. OnlyIn(s, moved, Emptied(moved, s, n))
  BY <1>4, PutOnlyIn DEF Emptied
<1>6. OnlyIn(s, m, Emptied(moved, s, n))
  BY <1>1, <1>3, <1>5, OnlyInTwice
<1>7. OnlyIn(s, m, m)
  BY DEF OnlyIn
<1> QED
  BY <1>6, <1>7 DEF ExpandedKey, moved, set

LEMMA UpdatedOnlyIn ==
    ASSUME NEW m, MemType(m), m.shared = {}, NEW s \in Store,
           NEW n \in usage.names, n \in Name, Base[n] = None
    PROVE  OnlyIn(s, m, UpdatedKey(m, s, n))
<1>1. ApplyOverrides(m, s, n) = m
  BY DEF ApplyOverrides
<1>2. OnlyIn(s, m, m)
  BY DEF OnlyIn
<1>3. OnlyIn(s, m, Change(m, s, n, WithPending(Found(m, s, n), Active(s))))
  BY ChangeOnlyIn
<1> QED
  BY <1>1, <1>2, <1>3 DEF UpdatedKey

-----------------------------------------------------------------------------
(* What OnlyIn gives for the state: the invariant again, and one layer.    *)
LEMMA OneStore ==
    ASSUME IInv, Unconditional, UNCHANGED usage, NEW s \in Store, OnlyIn(s, mem, mem')
    PROVE  NothingShared' /\ ChangesOneLayer
<1>1. ASSUME NEW t \in Store \ {s} PROVE mem'.layer[t] = mem.layer[t]
  <2>1. \A n \in Name : mem'.layer[t][n] = mem.layer[t][n]
    BY DEF OnlyIn
  <2>2. /\ mem'.layer[t] = [n \in Name |-> mem'.layer[t][n]]
        /\ mem.layer[t] = [n \in Name |-> mem.layer[t][n]]
    BY DEF OnlyIn, IInv, NothingShared, MemType
  <2> QED
    BY <2>1, <2>2
<1>2. ASSUME NEW t \in Store, NEW n \in Name, mem'.layer[t][n] # None
      PROVE  n \in usage.names
  <2>1. mem.layer[t][n] # None => n \in usage.names
    BY DEF IInv, NothingShared
  <2> QED
    BY <2>1, <1>2 DEF OnlyIn
<1> QED
  BY <1>1, <1>2 DEF NothingShared, ChangesOneLayer, OnlyIn

LEMMA InitIInv == Init => IInv
<1> SUFFICES ASSUME Init PROVE IInv
  OBVIOUS
<1>1. 1 \in Store
  BY DataStoreAssumption DEF Store
<1>2. MemType(mem)
  BY DEF Init, MemType
<1> QED
  BY <1>1, <1>2 DEF Init, IInv, NothingShared, Idle

(* What a loop takes up are keys, or names of the environment: in use.     *)
LEMMA StartLoopIInv ==
    ASSUME IInv, NEW op, NEW s \in Store, NEW todo, StartLoop(op, s, todo),
           Unconditional => todo \subseteq usage.names
    PROVE  IInv'
<1>1. 1 \in Store
  BY DataStoreAssumption DEF Store
<1>2. loop'.store \in Store /\ (Unconditional => loop'.todo \subseteq usage.names)
  BY <1>1 DEF StartLoop, Idle
<1> QED
  BY <1>2 DEF StartLoop, IInv, Unconditional, NothingShared

LEMMA KeysInUse ==
    ASSUME IInv, Unconditional, NEW s \in Store
    PROVE  Keys(mem, s) \subseteq usage.names
  BY DEF IInv, NothingShared, Keys, Holders

-----------------------------------------------------------------------------
(* Every step keeps the invariant and, unconditionally used, the layers.   *)
StepGoal == IInv' /\ (Unconditional => ChangesOneLayer)

LEMMA SameMem ==
    ASSUME IInv, UNCHANGED <<mem, usage, loop>>, chain' \in [Store -> SUBSET Store]
    PROVE  StepGoal
<1>1. 1 \in Store
  BY DataStoreAssumption DEF Store
<1>2. IInv'
  BY DEF IInv, Unconditional, NothingShared
<1> QED
  BY <1>1, <1>2 DEF StepGoal, ChangesOneLayer

LEMMA ChangeOfOneStore ==
    ASSUME IInv, UNCHANGED <<chain, usage>>, NEW s \in Store, Unconditional => OnlyIn(s, mem, mem'),
           loop'.store \in Store, loop'.todo \subseteq loop.todo
    PROVE  StepGoal
<1>1. Unconditional => NothingShared' /\ ChangesOneLayer
  BY OneStore
<1>2. Unconditional' <=> Unconditional
  BY DEF Unconditional
<1> QED
  BY <1>1, <1>2 DEF StepGoal, IInv

(* StartLoop changes no data.                                              *)
LEMMA LoopStarts ==
    ASSUME IInv, NEW op, NEW s \in Store, NEW todo, StartLoop(op, s, todo),
           Unconditional => todo \subseteq usage.names
    PROVE  StepGoal
<1>1. IInv'
  BY StartLoopIInv
<1>2. 1 \in Store /\ UNCHANGED mem
  BY DataStoreAssumption DEF Store, StartLoop
<1> QED
  BY <1>1, <1>2 DEF StepGoal, ChangesOneLayer

LEMMA NextStep ==
    ASSUME IInv, [Next]_vars
    PROVE  StepGoal
<1>1. CASE UNCHANGED vars
  BY <1>1, SameMem DEF vars, IInv
<1>2. CASE InheritFromOS
  <2>1. usage.env \subseteq usage.names
    BY DataStoreAssumption DEF IInv
  <2>2. 1 \in Store
    BY DataStoreAssumption DEF Store
  <2> QED
    BY <1>2, <2>1, <2>2, LoopStarts DEF InheritFromOS
<1>3. ASSUME NEW s \in Store, NEW new \in Store, Linked(s, new) PROVE StepGoal
  <2>1. chain' \in [Store -> SUBSET Store]
    BY <1>3 DEF Linked, IInv
  <2> QED
    BY <1>3, <2>1, SameMem DEF Linked
<1>4. CASE LoadRecipe
  <2>1. 1 \in Store
    BY DataStoreAssumption DEF Store
  <2> QED
    BY <1>3, <1>4, <2>1 DEF LoadRecipe
<1>5. CASE LoopKey
  <2> PICK n \in loop.todo :
        /\ mem' = CASE loop.op = "inherit" -> InheritedKey(mem, loop.store, n)
                    [] loop.op = "expand" -> ExpandedKey(mem, loop.store, n)
                    [] OTHER -> UpdatedKey(mem, loop.store, n)
        /\ loop' = IF loop.todo = {n} THEN Idle ELSE [loop EXCEPT !.todo = @ \ {n}]
    BY <1>5 DEF LoopKey
  <2>1. loop'.store \in Store /\ loop'.todo \subseteq loop.todo
    <3>1. CASE loop.todo = {n}
      BY <3>1, DataStoreAssumption DEF Idle, Store
    <3>2. CASE loop.todo # {n}
      BY <3>2 DEF IInv
    <3> QED
      BY <3>1, <3>2
  <2>2. ASSUME Unconditional PROVE OnlyIn(loop.store, mem, mem')
    <3>1. MemType(mem) /\ mem.shared = {} /\ n \in usage.names /\ loop.store \in Store
      BY <2>2 DEF IInv, NothingShared
    <3>2. /\ n \in Name /\ Base[n] = None
          /\ Expanded[n] \in usage.names /\ Expanded[n] \in Name
      BY <2>2, <3>1, DataStoreAssumption DEF IInv, Unconditional, Usage
    <3> QED
      BY <3>1, <3>2, InheritedOnlyIn, ExpandedOnlyIn, UpdatedOnlyIn
  <2> QED
    BY <1>5, <2>1, <2>2, ChangeOfOneStore DEF LoopKey, IInv
<1>6. ASSUME NEW s \in Store, CreateCopy(s) PROVE StepGoal
  BY <1>3, <1>6 DEF CreateCopy
<1>7. ASSUME NEW s \in Store, ExpandKeys(s) PROVE StepGoal
  BY <1>7, KeysInUse, LoopStarts DEF ExpandKeys
<1>8. ASSUME NEW s \in Store, UpdateData(s) PROVE StepGoal
  BY <1>8, KeysInUse, LoopStarts DEF UpdateData
<1>9. ASSUME NEW s \in Store, NEW os, SetOverrides(s, os) PROVE StepGoal
  BY <1>9, SameMem DEF SetOverrides, IInv
<1>10. ASSUME NEW s \in Store, NEW n \in Name, NewPiece(s, n), NEW v,
              mem' = Change(mem, s, n, v)
       PROVE  StepGoal
  <2>1. Unconditional => OnlyIn(s, mem, mem')
    BY <1>10, ChangeOnlyIn DEF IInv, NothingShared, NewPiece
  <2> QED
    BY <1>10, <2>1, ChangeOfOneStore DEF NewPiece, IInv
<1>11. ASSUME NEW s \in Store, NEW n \in Name, SetVar(s, n) PROVE StepGoal
  BY <1>10, <1>11 DEF SetVar, SetContent
<1>12. ASSUME NEW s \in Store, NEW n \in Name, NEW o, SetAppend(s, n, o) PROVE StepGoal
  BY <1>10, <1>12 DEF SetAppend
<1>13. ASSUME NEW s \in Store, NEW n \in Name, NEW o, SetPrepend(s, n, o) PROVE StepGoal
  BY <1>10, <1>13 DEF SetPrepend
<1>14. ASSUME NEW s \in Store, NEW n \in Name, DelVar(s, n) PROVE StepGoal
  <2>1. Unconditional => OnlyIn(s, mem, mem')
    BY <1>14, PutOnlyIn DEF DelVar, Emptied, IInv, NothingShared
  <2> QED
    BY <1>14, <2>1, ChangeOfOneStore DEF DelVar, IInv
<1> QED
  BY <1>1, <1>2, <1>4, <1>5, <1>6, <1>7, <1>8, <1>9, <1>11, <1>12, <1>13, <1>14 DEF Next

(* The configuration survives the recipes, a recipe its tasks' copies:     *)
(* setVar, setVarFlag, delVar, update_data and expandKeys on a store write *)
(* to that store alone, unless names have conditional versions.            *)
THEOREM CopiesAreIndependent == Spec => CopyOnWriteUnlessConditional
<1>1. IInv /\ [Next]_vars => [(\A n \in usage.names : Base[n] = None) => ChangesOneLayer]_vars
  BY NextStep DEF StepGoal, Unconditional
<1>2. IInv /\ [Next]_vars => IInv'
  BY NextStep DEF StepGoal
<1> QED
  BY <1>1, <1>2, InitIInv, PTL DEF Spec, CopyOnWriteUnlessConditional

-----------------------------------------------------------------------------
(* From here on: the types, and pieces that are applied once.              *)

(* A set of natural numbers has a least one, ...                           *)
LEMMA NaturalOrder == \E R : IsWellFoundedOn(R, Nat) /\ \A i, j \in Nat : j < i => <<j, i>> \in R
<1>1. \A i, j \in Nat : j < i => <<j, i>> \in OpToRel(<, Nat)
  BY DEF OpToRel
<1> QED
  BY <1>1, NatLessThanWellFounded, Zenon

LEMMA LeastExists ==
    ASSUME NEW T \in SUBSET Nat, T # {}
    PROVE  \E i \in T : \A j \in T : i <= j
<1>1. PICK R : IsWellFoundedOn(R, Nat) /\ \A i, j \in Nat : j < i => <<j, i>> \in R
  BY NaturalOrder
<1>2. PICK i \in T : \A j \in T : ~ (<<j, i>> \in R)
  BY <1>1, WFMin, Zenon
<1>3. \A j \in T : ~ (j < i)
  BY <1>1, <1>2, Zenon
<1> QED
  BY <1>3

(* ... and a set of stores a highest one.                                  *)
LEMMA HighestExists ==
    ASSUME NEW T \in SUBSET Store, T # {}
    PROVE  \E t \in T : \A u \in T : u <= t
<1>1. MaxStore \in Nat /\ \A t \in T : t \in 1 .. MaxStore
  BY DataStoreAssumption DEF Store
<1> DEFINE Above == {MaxStore - t : t \in T}
<1>2. Above \in SUBSET Nat /\ Above # {}
  BY <1>1
<1>3. PICK i \in Above : \A j \in Above : i <= j
  BY <1>2, LeastExists
<1>4. PICK t \in T : i = MaxStore - t
  OBVIOUS
<1>5. ASSUME NEW u \in T PROVE u <= t
  <2>1. i <= MaxStore - u
    BY <1>3
  <2> QED
    BY <1>1, <1>4, <2>1
<1> QED
  BY <1>5

(* An object as it should be: its pending lists are lists.                 *)
Faithful(v) ==
    /\ v = [content |-> v.content, append |-> v.append, prepend |-> v.prepend,
            flags |-> v.flags]
    /\ v.append \in Seq(Pending) /\ v.prepend \in Seq(Pending)
    /\ v.flags \in SUBSET Flag

FaithfulMem(m) ==
    /\ MemType(m)
    /\ \A s \in Store, n \in Name : m.layer[s][n] # None => Faithful(m.layer[s][n])

(* The links: stores are numbered as they are made, and linked down.       *)
Chains ==
    /\ chain \in [Store -> SUBSET Store]
    /\ \A s \in Store : \A t \in chain[s] : t <= s /\ s \in chain[s]
    /\ \A s, t \in Store : t <= s /\ chain[s] # {} => chain[t] # {}

(* A loop has a store that exists, and names to go over.                   *)
LoopOK ==
    /\ loop.store \in Store
    /\ loop.todo \subseteq Name
    /\ loop.todo # {} => chain[loop.store] # {}

EnvInv ==
    /\ FaithfulMem(mem)
    /\ Chains
    /\ LoopOK
    /\ usage \in Usages
    /\ pieces \in Nat /\ pieces <= usage.pieces

-----------------------------------------------------------------------------
(* The operations on objects.                                              *)
LEMMA NoVarFaithful == Faithful(NoVar) /\ NoVar # None
<1>1. NoVar \in Var
  BY DEF NoVar, Var
<1>2. NoVar # None
  BY <1>1, NoneIsNoVar
<1> QED
  BY <1>2 DEF NoVar, Faithful

(* setVar takes the flag away.                                             *)
LEMMA ExportedHasNoMatch ==
    ASSUME NEW flags \in SUBSET Flag
    PROVE  Exported(flags) \in SUBSET Flag /\ "matchesenv" \notin Exported(flags)
  BY DEF Exported, Flag

(* The fields of an object whose content is set,                           *)
LEMMA WithContentIs ==
    ASSUME NEW v, Faithful(v), NEW content
    PROVE  [v EXCEPT !.content = content, !.flags = Exported(@)] =
           [content |-> content, append |-> v.append, prepend |-> v.prepend,
            flags |-> Exported(v.flags)]
<1>0. PICK c, a, p, f : v = [content |-> c, append |-> a, prepend |-> p, flags |-> f]
  BY DEF Faithful
<1> DEFINE w == [v EXCEPT !.content = content, !.flags = Exported(@)]
           u == [v EXCEPT !.content = content]
<1>1. u = [content |-> content, append |-> a, prepend |-> p, flags |-> f]
  BY <1>0
<1>2. w = [u EXCEPT !.flags = Exported(f)] /\ v.append = a /\ v.prepend = p /\ v.flags = f
  BY <1>0
<1> HIDE DEF u, w
<1>3. w = [content |-> content, append |-> v.append, prepend |-> v.prepend,
           flags |-> Exported(v.flags)]
  BY <1>1, <1>2
<1> QED
  BY <1>3 DEF w

(* and of one whose pending lists are.                                     *)
LEMMA WithListsIs ==
    ASSUME NEW v, Faithful(v), NEW append, NEW prepend
    PROVE  [v EXCEPT !.append = append, !.prepend = prepend] =
           [content |-> v.content, append |-> append, prepend |-> prepend, flags |-> v.flags]
<1>0. PICK c, a, p, f : v = [content |-> c, append |-> a, prepend |-> p, flags |-> f]
  BY DEF Faithful
<1> DEFINE w == [v EXCEPT !.append = append, !.prepend = prepend]
           u == [v EXCEPT !.append = append]
<1>1. u = [content |-> c, append |-> append, prepend |-> p, flags |-> f]
  BY <1>0
<1>2. w = [u EXCEPT !.prepend = prepend] /\ v.content = c /\ v.flags = f
  BY <1>0
<1> HIDE DEF u, w
<1>3. w = [content |-> v.content, append |-> append, prepend |-> prepend, flags |-> v.flags]
  BY <1>1, <1>2
<1> QED
  BY <1>3 DEF w

(* Content that was set is the content of an object without the flag.      *)
LEMMA WithContentFaithful ==
    ASSUME NEW v, Faithful(v), NEW content
    PROVE  Faithful([v EXCEPT !.content = content, !.flags = Exported(@)])
<1> DEFINE w == [v EXCEPT !.content = content, !.flags = Exported(@)]
<1>1. w = [content |-> content, append |-> v.append, prepend |-> v.prepend,
           flags |-> Exported(v.flags)]
  BY WithContentIs
<1>2. Exported(v.flags) \in SUBSET Flag /\ "matchesenv" \notin Exported(v.flags)
  BY ExportedHasNoMatch DEF Faithful
<1> HIDE DEF w
<1>3. Faithful(w)
  BY <1>1, <1>2 DEF Faithful
<1> QED
  BY <1>3 DEF w

(* Pending pieces, changed, leave content and flags alone.                 *)
LEMMA WithListsFaithful ==
    ASSUME NEW v, Faithful(v), NEW append \in Seq(Pending), NEW prepend \in Seq(Pending)
    PROVE  Faithful([v EXCEPT !.append = append, !.prepend = prepend])
<1> DEFINE w == [v EXCEPT !.append = append, !.prepend = prepend]
<1>1. w = [content |-> v.content, append |-> append, prepend |-> prepend, flags |-> v.flags]
  BY WithListsIs
<1> HIDE DEF w
<1>2. Faithful(w)
  BY <1>1 DEF Faithful
<1> QED
  BY <1>2 DEF w

(* The pending pieces that are due, once in the content, take it as well.  *)
LEMMA WithPendingFaithful ==
    ASSUME NEW v, Faithful(v), NEW active
    PROVE  Faithful(WithPending(v, active))
<1> DEFINE w == WithPending(v, active)
<1>1. \/ w = v
      \/ \E content : \E append, prepend \in Seq(Pending) :
            w = [content |-> content, append |-> append, prepend |-> prepend,
                 flags |-> Exported(v.flags)]
  <2>1. <<>> \in Seq(Pending) /\ v.append \in Seq(Pending) /\ v.prepend \in Seq(Pending)
    BY DEF Faithful
  <2> QED
    BY <2>1 DEF WithPending
<1>2. Exported(v.flags) \in SUBSET Flag /\ "matchesenv" \notin Exported(v.flags)
  BY ExportedHasNoMatch DEF Faithful
<1> HIDE DEF w
<1>3. Faithful(w)
  BY <1>1, <1>2 DEF Faithful
<1> QED
  BY <1>3 DEF w

-----------------------------------------------------------------------------
(* The operations on the memory.  One entry gets a faithful object.        *)
LEMMA LayerPut ==
    ASSUME NEW m, FaithfulMem(m), NEW s \in Store, NEW n \in Name, NEW v, Faithful(v),
           NEW shared, NEW p,
           p = [layer |-> [m.layer EXCEPT ![s][n] = v], shared |-> shared]
    PROVE  FaithfulMem(p)
<1>1. p.layer = [m.layer EXCEPT ![s][n] = v] /\ p = [layer |-> p.layer, shared |-> p.shared]
  OBVIOUS
<1>2. ASSUME NEW t \in Store
      PROVE  /\ p.layer[t] = [k \in Name |-> p.layer[t][k]]
             /\ \A k \in Name : p.layer[t][k] = IF <<t, k>> = <<s, n>> THEN v ELSE m.layer[t][k]
  <2>1. m.layer[t] = [k \in Name |-> m.layer[t][k]] /\ t \in DOMAIN m.layer
    BY DEF FaithfulMem, MemType
  <2>2. p.layer[t] = IF t = s THEN [m.layer[t] EXCEPT ![n] = v] ELSE m.layer[t]
    BY <1>1, <2>1
  <2> QED
    BY <2>1, <2>2
<1>3. DOMAIN p.layer = Store
  BY <1>1 DEF FaithfulMem, MemType
<1>4. MemType(p)
  BY <1>1, <1>2, <1>3 DEF MemType
<1>5. ASSUME NEW t \in Store, NEW k \in Name, p.layer[t][k] # None
      PROVE  Faithful(p.layer[t][k])
  BY <1>2, <1>5 DEF FaithfulMem
<1> QED
  BY <1>4, <1>5 DEF FaithfulMem

(* A new object under a name.                                              *)
LEMMA PutFaithful ==
    ASSUME NEW m, FaithfulMem(m), NEW s \in Store, NEW n \in Name, NEW v, Faithful(v)
    PROVE  FaithfulMem(Put(m, s, n, v))
  BY LayerPut DEF Put

(* What is found is faithful, wherever it is.                              *)
LEMMA FoundFaithful ==
    ASSUME NEW m, FaithfulMem(m), Chains, NEW s \in Store, NEW n \in Name
    PROVE  Faithful(Found(m, s, n))
<1>1. CASE Holders(m, s, n) = {}
  BY <1>1, NoVarFaithful DEF Found
<1>2. CASE Holders(m, s, n) # {}
  <2>1. Holders(m, s, n) \in SUBSET Store
    BY DEF Holders, Chains
  <2>2. Home(m, s, n) \in Holders(m, s, n)
    BY <1>2, <2>1, HighestExists DEF Home
  <2>3. Home(m, s, n) \in Store /\ m.layer[Home(m, s, n)][n] # None
    BY <2>1, <2>2 DEF Holders
  <2> QED
    BY <1>2, <2>3 DEF Found, FaithfulMem
<1> QED
  BY <1>1, <1>2

(* An object that is found, under another name.                            *)
LEMMA LinkFaithful ==
    ASSUME NEW m, FaithfulMem(m), Chains, NEW s \in Store, NEW n \in Name, NEW from \in Name
    PROVE  FaithfulMem(Link(m, s, n, from))
<1>1. Faithful(Found(m, s, from))
  BY FoundFaithful
<1> QED
  BY <1>1, LayerPut DEF Link

(* A change in place reaches every entry of the object, its own included.  *)
LEMMA ChangeFaithful ==
    ASSUME NEW m, FaithfulMem(m), Chains, NEW s \in Store, NEW n \in Name, NEW v, Faithful(v)
    PROVE  /\ FaithfulMem(Change(m, s, n, v))
           /\ Change(m, s, n, v).layer[s][n] = v
<1> DEFINE own == Shadow(m, s, n)
           same == Same(own, <<s, n>>)
           c == Change(m, s, n, v)
<1>1. FaithfulMem(own)
  BY FoundFaithful, PutFaithful DEF Shadow
<1>2. <<s, n>> \in same
  BY DEF Same
<1>3. c = [layer |-> [t \in Store |-> [k \in Name |->
                       IF <<t, k>> \in same THEN v ELSE own.layer[t][k]]],
           shared |-> own.shared]
  BY DEF Change
<1> HIDE DEF own, same, c
<1>4. \A t \in Store : c.layer[t] = [k \in Name |->
                       IF <<t, k>> \in same THEN v ELSE own.layer[t][k]]
  BY <1>3
<1>5. \A t \in Store, k \in Name :
        c.layer[t][k] = IF <<t, k>> \in same THEN v ELSE own.layer[t][k]
  BY <1>4
<1>6. MemType(c)
  BY <1>3, <1>4, <1>5 DEF MemType
<1>7. FaithfulMem(c) /\ c.layer[s][n] = v
  BY <1>1, <1>2, <1>5, <1>6 DEF FaithfulMem
<1> QED
  BY <1>7 DEF c

(* In a store that exists, what was changed is what is found next.         *)
LEMMA FoundAfterChange ==
    ASSUME NEW m, FaithfulMem(m), Chains, NEW s \in Store, chain[s] # {}, NEW n \in Name,
           NEW v, Faithful(v), v # None
    PROVE  Found(Change(m, s, n, v), s, n) = v
<1> DEFINE c == Change(m, s, n, v)
<1>1. c.layer[s][n] = v
  BY ChangeFaithful
<1> HIDE DEF c
<1>2. Holders(c, s, n) \in SUBSET Store /\ s \in Holders(c, s, n)
  BY <1>1 DEF Holders, Chains
<1>3. \A u \in Holders(c, s, n) : u <= s
  BY DEF Holders, Chains
<1>4. ASSUME NEW t \in Holders(c, s, n), \A u \in Holders(c, s, n) : u <= t
      PROVE  t = s
  <2>1. s <= t /\ t <= s
    BY <1>2, <1>3, <1>4
  <2> QED
    BY <1>2, <2>1, DataStoreAssumption DEF Store
<1>5. Home(c, s, n) = s
  BY <1>2, <1>3, <1>4 DEF Home
<1>6. Found(c, s, n) = v
  BY <1>1, <1>2, <1>5 DEF Found
<1> QED
  BY <1>6 DEF c

(* setVar.                                                                 *)
LEMMA SetContentFaithful ==
    ASSUME NEW m, FaithfulMem(m), Chains, NEW s \in Store, NEW n \in Name, NEW content
    PROVE  FaithfulMem(SetContent(m, s, n, content))
<1>1. Faithful([Found(m, s, n) EXCEPT !.content = content, !.flags = Exported(@)])
  BY FoundFaithful, WithContentFaithful
<1> QED
  BY <1>1, ChangeFaithful DEF SetContent

(* inheritFromOS gives the flag to what it has just set.                   *)
LEMMA InheritedFaithful ==
    ASSUME NEW m, FaithfulMem(m), Chains, NEW s \in Store, chain[s] # {}, NEW n \in Name
    PROVE  FaithfulMem(InheritedKey(m, s, n))
<1> DEFINE old == Found(m, s, n)
           w == [old EXCEPT !.content = <<n>>, !.flags = Exported(@)]
           set == SetContent(m, s, n, <<n>>)
           v == Found(set, s, n)
           x == [v EXCEPT !.flags = @ \cup {"matchesenv"}]
<1>1. Faithful(old)
  BY FoundFaithful
<1>2. Faithful(w) /\ w.content = <<n>>
  <2>1. w.content = <<n>>
    BY <1>1 DEF Faithful
  <2> QED
    BY <1>1, <2>1, WithContentFaithful
<1>3. w # None
  <2>1. <<n>> \in Seq(Piece)
    BY DEF Piece
  <2>2. w.content \in Seq(Piece) \cup {None}
    BY <1>2, <2>1
  <2> HIDE DEF w
  <2>3. w \in Var
    BY <1>2, <2>2 DEF Faithful, Var
  <2> QED
    BY <2>3, NoneIsNoVar
<1>4. set = Change(m, s, n, w)
  BY DEF SetContent
<1> HIDE DEF w, set
<1>5. FaithfulMem(set)
  BY <1>2, <1>4, ChangeFaithful
<1>6. v = w
  BY <1>2, <1>3, <1>4, FoundAfterChange
<1> HIDE DEF v
<1>7. x = [content |-> <<n>>, append |-> v.append, prepend |-> v.prepend,
           flags |-> v.flags \cup {"matchesenv"}]
  <2>1. PICK c, a, p, f : v = [content |-> c, append |-> a, prepend |-> p, flags |-> f]
    BY <1>2, <1>6 DEF Faithful
  <2>2. c = <<n>>
    BY <1>2, <1>6, <2>1
  <2> QED
    BY <2>1, <2>2
<1> HIDE DEF x
<1>8. Faithful(x)
  BY <1>2, <1>6, <1>7 DEF Faithful, Flag
<1>9. FaithfulMem(Change(set, s, n, x))
  BY <1>5, <1>8, ChangeFaithful
<1> QED
  BY <1>9 DEF InheritedKey, x, v, set

(* expandKeys sets what the old name had under the new one.                *)
LEMMA ExpandedFaithful ==
    ASSUME NEW m, FaithfulMem(m), Chains, NEW s \in Store, NEW n \in Name
    PROVE  FaithfulMem(ExpandedKey(m, s, n))
<1> DEFINE from == Found(m, s, n)
           to == Expanded[n]
           set == SetContent(m, s, to, from.content)
           v == Found(set, s, to)
           moved == Change(set, s, to, [v EXCEPT !.append = @ \o from.append,
                                                 !.prepend = @ \o from.prepend])
<1>1. to \in Name /\ Faithful(from)
  BY FoundFaithful, DataStoreAssumption
<1>2. FaithfulMem(set)
  BY <1>1, SetContentFaithful
<1> HIDE DEF set
<1>3. Faithful(v)
  BY <1>1, <1>2, FoundFaithful
<1> HIDE DEF v, from
<1>4. v.append \o from.append \in Seq(Pending) /\ v.prepend \o from.prepend \in Seq(Pending)
  BY <1>1, <1>3 DEF Faithful
<1>5. Faithful([v EXCEPT !.append = v.append \o from.append,
                         !.prepend = v.prepend \o from.prepend])
  BY <1>3, <1>4, WithListsFaithful
<1>6. FaithfulMem(moved)
  BY <1>1, <1>2, <1>5, ChangeFaithful
<1> HIDE DEF moved
<1>7. FaithfulMem(Emptied(moved, s, n))
  BY <1>6, NoVarFaithful, PutFaithful DEF Emptied
<1> QED
  BY <1>7 DEF ExpandedKey, moved, v, set, from

(* update_data puts an object under another name and adds what is due.     *)
LEMMA UpdatedFaithful ==
    ASSUME NEW m, FaithfulMem(m), Chains, NEW s \in Store, NEW n \in Name
    PROVE  FaithfulMem(UpdatedKey(m, s, n))
<1> DEFINE named == ApplyOverrides(m, s, n)
           v == Found(named, s, n)
<1>1. FaithfulMem(named)
  <2>1. CASE Base[n] # None /\ Cond[n] \in Active(s)
    <3>1. Base[n] \in Name
      BY <2>1, DataStoreAssumption
    <3> QED
      BY <2>1, <3>1, LinkFaithful DEF ApplyOverrides
  <2>2. CASE ~(Base[n] # None /\ Cond[n] \in Active(s))
    BY <2>2 DEF ApplyOverrides
  <2> QED
    BY <2>1, <2>2
<1> HIDE DEF named
<1>2. Faithful(WithPending(v, Active(s)))
  BY <1>1, FoundFaithful, WithPendingFaithful
<1>3. FaithfulMem(Change(named, s, n, WithPending(v, Active(s))))
  BY <1>1, <1>2, ChangeFaithful
<1> QED
  BY <1>1, <1>3 DEF UpdatedKey, named

-----------------------------------------------------------------------------
(* The steps.                                                              *)

(* There is nothing in the configuration yet.                              *)
LEMMA InitEnvInv == Init => EnvInv
<1> SUFFICES ASSUME Init PROVE EnvInv
  OBVIOUS
<1>1. 1 \in Store
  BY DataStoreAssumption DEF Store
<1>2. FaithfulMem(mem)
  BY DEF Init, FaithfulMem, MemType
<1>3. Chains
  BY <1>1, DataStoreAssumption DEF Init, Chains, Store
<1>4. LoopOK
  BY <1>1 DEF Init, LoopOK, Idle
<1>5. usage \in Usages /\ pieces \in Nat /\ pieces <= usage.pieces
  BY DataStoreAssumption DEF Init, Usage
<1> QED
  BY <1>2, <1>3, <1>4, <1>5 DEF EnvInv

(* A new store is above all others.                                        *)
LEMMA LinkedChains ==
    ASSUME EnvInv, NEW s \in Store, NEW new \in Store, Linked(s, new)
    PROVE  EnvInv'
<1>1. /\ chain[s] # {} /\ chain[new] = {}
      /\ \A t \in Store : t < new => chain[t] # {}
      /\ chain' = [chain EXCEPT ![new] = chain[s] \cup {new}]
      /\ UNCHANGED <<mem, usage, pieces, loop>>
  BY DEF Linked, Called
<1>2. s < new
  <2>1. ~ (new <= s)
    BY <1>1 DEF EnvInv, Chains
  <2> QED
    BY <2>1, DataStoreAssumption DEF Store
<1>3. /\ chain'[new] = chain[s] \cup {new}
      /\ \A t \in Store : t # new => chain'[t] = chain[t]
      /\ chain' \in [Store -> SUBSET Store]
  BY <1>1 DEF EnvInv, Chains
<1>4. ASSUME NEW x \in Store, NEW t \in chain'[x] PROVE t <= x /\ x \in chain'[x]
  <2>1. CASE x = new
    <3>1. t = new \/ (t \in chain[s] /\ t \in Store /\ t <= s)
      BY <1>3, <1>4, <2>1 DEF EnvInv, Chains
    <3> QED
      BY <1>2, <1>3, <2>1, <3>1, DataStoreAssumption DEF Store
  <2>2. CASE x # new
    BY <1>3, <1>4, <2>2 DEF EnvInv, Chains
  <2> QED
    BY <2>1, <2>2
<1>5. ASSUME NEW x \in Store, NEW t \in Store, t <= x, chain'[x] # {}
      PROVE  chain'[t] # {}
  <2>1. CASE t = new
    BY <1>3, <2>1
  <2>2. CASE t # new /\ x = new
    <3>1. t < new
      BY <1>5, <2>2, DataStoreAssumption DEF Store
    <3> QED
      BY <1>1, <1>3, <2>2, <3>1
  <2>3. CASE t # new /\ x # new
    BY <1>3, <1>5, <2>3 DEF EnvInv, Chains
  <2> QED
    BY <2>1, <2>2, <2>3
<1>6. Chains'
  BY <1>3, <1>4, <1>5 DEF Chains
<1>7. LoopOK'
  <2>1. \A x \in Store : chain[x] # {} => chain'[x] # {}
    BY <1>3
  <2> QED
    BY <1>1, <2>1 DEF EnvInv, LoopOK
<1> QED
  BY <1>1, <1>6, <1>7 DEF EnvInv

(* A loop begins.                                                          *)
LEMMA StartLoopEnvInv ==
    ASSUME EnvInv, NEW op, NEW s \in Store, NEW todo \in SUBSET Name, StartLoop(op, s, todo)
    PROVE  EnvInv'
<1>1. 1 \in Store
  BY DataStoreAssumption DEF Store
<1>2. chain[s] # {} /\ UNCHANGED <<mem, chain, usage, pieces>>
  BY DEF StartLoop, Called
<1>3. LoopOK'
  <2>1. CASE todo = {}
    BY <1>1, <2>1 DEF StartLoop, LoopOK, Idle
  <2>2. CASE todo # {}
    BY <1>2, <2>2 DEF StartLoop, LoopOK
  <2> QED
    BY <2>1, <2>2
<1> QED
  BY <1>2, <1>3 DEF EnvInv, Chains

(* A call that changes no more than the memory.                            *)
LEMMA MemEnvInv ==
    ASSUME EnvInv, UNCHANGED <<chain, usage, loop>>, FaithfulMem(mem'),
           pieces' \in Nat, pieces' <= usage.pieces
    PROVE  EnvInv'
<1>1. FaithfulMem(mem)'
  BY DEF FaithfulMem, MemType
<1> QED
  BY <1>1 DEF EnvInv, Chains, LoopOK

(* A setVar with keyword: a pending piece more.                            *)
LEMMA PieceIsPending ==
    ASSUME EnvInv, NEW s \in Store, NEW n \in Name, NewPiece(s, n),
           NEW o \in Override \cup {None}
    PROVE  /\ pieces' \in Nat /\ pieces' <= usage.pieces
           /\ [piece |-> pieces', for |-> o] \in Pending
           /\ UNCHANGED <<chain, usage, loop>>
<1>1. usage.pieces \in 0 .. MaxPieces /\ MaxPieces \in Nat
  BY DataStoreAssumption DEF EnvInv, Usage
<1>2. pieces' = pieces + 1 /\ pieces < usage.pieces /\ pieces \in Nat
  BY DEF NewPiece, EnvInv
<1>3. pieces' \in Nat /\ pieces' <= usage.pieces /\ pieces' \in Piece
  BY <1>1, <1>2 DEF Piece
<1> QED
  BY <1>3 DEF Pending, NewPiece

(* The calls of setVar.                                                    *)
LEMMA SetVarEnvInv ==
    ASSUME EnvInv, NEW s \in Store, NEW n \in Name, SetVar(s, n)
    PROVE  EnvInv'
<1>1. FaithfulMem(mem) /\ Chains
  BY DEF EnvInv
<1>2. FaithfulMem(SetContent(mem, s, n, <<pieces'>>))
  BY <1>1, SetContentFaithful
<1>3. mem' = SetContent(mem, s, n, <<pieces'>>) /\ NewPiece(s, n)
  BY DEF SetVar
<1> QED
  BY <1>2, <1>3, PieceIsPending, MemEnvInv

LEMMA SetAppendEnvInv ==
    ASSUME EnvInv, NEW s \in Store, NEW n \in Name, NEW o \in Override \cup {None},
           SetAppend(s, n, o) \/ SetPrepend(s, n, o)
    PROVE  EnvInv'
<1> DEFINE v == Found(mem, s, n)
           p == [piece |-> pieces', for |-> o]
<1>1. FaithfulMem(mem) /\ Chains
  BY DEF EnvInv
<1>2. Faithful(v)
  BY <1>1, FoundFaithful
<1>3. NewPiece(s, n)
  BY DEF SetAppend, SetPrepend
<1>4. p \in Pending
  BY <1>3, PieceIsPending
<1>5. \E append, prepend \in Seq(Pending) :
        mem' = Change(mem, s, n, [v EXCEPT !.append = append, !.prepend = prepend])
  <2>1. v = [content |-> v.content, append |-> v.append, prepend |-> v.prepend,
             flags |-> v.flags]
    BY <1>2 DEF Faithful
  <2>2. CASE SetAppend(s, n, o)
    <3>1. mem' = Change(mem, s, n, [v EXCEPT !.append = Append(@, p)])
      BY <2>2 DEF SetAppend
    <3> HIDE DEF v, p
    <3>2. Append(v.append, p) \in Seq(Pending) /\ v.prepend \in Seq(Pending)
      BY <1>2, <1>4 DEF Faithful
    <3>3. [v EXCEPT !.append = Append(@, p)]
            = [v EXCEPT !.append = Append(v.append, p), !.prepend = v.prepend]
      BY <2>1
    <3> QED
      BY <3>1, <3>2, <3>3
  <2>3. CASE SetPrepend(s, n, o)
    <3>1. mem' = Change(mem, s, n, [v EXCEPT !.prepend = Append(@, p)])
      BY <2>3 DEF SetPrepend
    <3> HIDE DEF v, p
    <3>2. Append(v.prepend, p) \in Seq(Pending) /\ v.append \in Seq(Pending)
      BY <1>2, <1>4 DEF Faithful
    <3>3. [v EXCEPT !.prepend = Append(@, p)]
            = [v EXCEPT !.append = v.append, !.prepend = Append(v.prepend, p)]
      BY <2>1
    <3> QED
      BY <3>1, <3>2, <3>3
  <2> QED
    BY <2>2, <2>3
<1> HIDE DEF v
<1>6. FaithfulMem(mem')
  <2>1. PICK append \in Seq(Pending), prepend \in Seq(Pending) :
          mem' = Change(mem, s, n, [v EXCEPT !.append = append, !.prepend = prepend])
    BY <1>5
  <2>2. Faithful([v EXCEPT !.append = append, !.prepend = prepend])
    BY <1>2, WithListsFaithful
  <2> QED
    BY <1>1, <2>1, <2>2, ChangeFaithful
<1> QED
  BY <1>3, <1>6, PieceIsPending, MemEnvInv

(* A turn of a loop.                                                       *)
LEMMA LoopKeyEnvInv ==
    ASSUME EnvInv, LoopKey
    PROVE  EnvInv'
<1> PICK n \in loop.todo :
        /\ mem' = CASE loop.op = "inherit" -> InheritedKey(mem, loop.store, n)
                    [] loop.op = "expand" -> ExpandedKey(mem, loop.store, n)
                    [] OTHER -> UpdatedKey(mem, loop.store, n)
        /\ loop' = IF loop.todo = {n} THEN Idle ELSE [loop EXCEPT !.todo = @ \ {n}]
  BY DEF LoopKey
<1>1. /\ FaithfulMem(mem) /\ Chains /\ n \in Name /\ loop.store \in Store
      /\ chain[loop.store] # {} /\ 1 \in Store
      /\ UNCHANGED <<chain, usage, pieces>>
  BY DataStoreAssumption DEF EnvInv, LoopOK, LoopKey, Store
<1>2. FaithfulMem(mem')
  BY <1>1, InheritedFaithful, ExpandedFaithful, UpdatedFaithful
<1>3. FaithfulMem(mem)'
  BY <1>2 DEF FaithfulMem, MemType
<1>4. LoopOK'
  <2>1. CASE loop.todo = {n}
    BY <1>1, <2>1 DEF LoopOK, Idle
  <2>2. CASE loop.todo # {n}
    BY <1>1, <2>2 DEF LoopOK, EnvInv
  <2> QED
    BY <2>1, <2>2
<1> QED
  BY <1>1, <1>3, <1>4 DEF EnvInv, Chains

(* A loop of inheritFromOS is over names.                                  *)
LEMMA NamesOfUsage == \A u \in Usages : u.env \in SUBSET Name
  BY DataStoreAssumption DEF Usage

(* Every step keeps the invariant.                                         *)
LEMMA NextEnvInv == EnvInv /\ [Next]_vars => EnvInv'
<1> SUFFICES ASSUME EnvInv, [Next]_vars PROVE EnvInv'
  OBVIOUS
<1>1. 1 \in Store /\ usage.env \in SUBSET Name
  BY DataStoreAssumption, NamesOfUsage DEF Store, EnvInv
<1>2. \A s \in Store : Keys(mem, s) \in SUBSET Name
  BY DEF Keys
<1>3. CASE InheritFromOS
  BY <1>1, <1>3, StartLoopEnvInv DEF InheritFromOS
<1>4. CASE LoadRecipe
  BY <1>1, <1>4, LinkedChains DEF LoadRecipe
<1>5. CASE LoopKey
  BY <1>5, LoopKeyEnvInv
<1>6. ASSUME NEW s \in Store, CreateCopy(s) PROVE EnvInv'
  BY <1>6, LinkedChains DEF CreateCopy
<1>7. ASSUME NEW s \in Store, ExpandKeys(s) PROVE EnvInv'
  <2>1. {n \in Keys(mem, s) : Expanded[n] # n} \in SUBSET Name
    BY <1>2
  <2> QED
    BY <1>7, <2>1, StartLoopEnvInv DEF ExpandKeys
<1>8. ASSUME NEW s \in Store, UpdateData(s) PROVE EnvInv'
  BY <1>2, <1>8, StartLoopEnvInv DEF UpdateData
<1>9. ASSUME NEW s \in Store, NEW os, SetOverrides(s, os) PROVE EnvInv'
  BY <1>9, MemEnvInv DEF SetOverrides, EnvInv
<1>10. ASSUME NEW s \in Store, NEW n \in Name, DelVar(s, n) PROVE EnvInv'
  <2>1. FaithfulMem(mem')
    BY <1>10, NoVarFaithful, PutFaithful DEF DelVar, Emptied, EnvInv
  <2> QED
    BY <1>10, <2>1, MemEnvInv DEF DelVar, EnvInv
<1>11. CASE UNCHANGED vars
  BY <1>11, MemEnvInv DEF vars, EnvInv
<1> QED
  BY <1>3, <1>4, <1>5, <1>6, <1>7, <1>8, <1>9, <1>10, <1>11, SetVarEnvInv, SetAppendEnvInv
     DEF Next

-----------------------------------------------------------------------------
(* A loop that starts from x and has n iterations: what it holds after     *)
(* each of them is defined.                                                *)
IsLoop(f, S, x, n, step) ==
    /\ f \in [0 .. n -> S]
    /\ f[0] = x
    /\ \A i \in 1 .. n : f[i] = step[i][f[i - 1]]

(* One turn after the other: by well-founded induction on their number.    *)
LEMMA LoopIsDefined ==
    ASSUME NEW S, NEW x \in S, NEW n \in Nat, NEW step \in [1 .. n -> [S -> S]]
    PROVE  \E f : IsLoop(f, S, x, n, step)
<1> DEFINE Loop(m, f) == IsLoop(f, S, x, m, step)
           undefined == {m \in 0 .. n : \A f : ~Loop(m, f)}
<1>1. SUFFICES ASSUME \A f : ~Loop(n, f) PROVE FALSE
  OBVIOUS
<1>2. PICK m \in undefined : \A k \in undefined : m <= k
  <2>1. undefined \in SUBSET Nat /\ n \in undefined
    BY <1>1
  <2> HIDE DEF undefined
  <2> QED
    BY <2>1, LeastExists
<1>3. m \in 0 .. n /\ m # 0
  <2> DEFINE g == [i \in 0 .. 0 |-> x]
  <2>1. g \in [0 .. 0 -> S] /\ g[0] = x /\ 1 .. 0 = {}
    OBVIOUS
  <2>2. Loop(0, g)
    BY <2>1 DEF IsLoop
  <2>3. m \in 0 .. n /\ \A f : ~Loop(m, f)
    BY <1>2
  <2> QED
    BY <2>2, <2>3
<1>4. m - 1 \in 0 .. n /\ m - 1 \notin undefined
  <2> HIDE DEF undefined
  <2> QED
    BY <1>2, <1>3
<1>5. PICK f : Loop(m - 1, f)
  BY <1>4
<1> DEFINE g == [i \in 0 .. m |-> IF i = m THEN step[m][f[m - 1]] ELSE f[i]]
<1>6. f \in [0 .. m - 1 -> S] /\ f[0] = x /\ \A i \in 1 .. m - 1 : f[i] = step[i][f[i - 1]]
  BY <1>5 DEF IsLoop
<1>7. g \in [0 .. m -> S]
  <2>1. f[m - 1] \in S /\ step[m] \in [S -> S]
    BY <1>3, <1>6
  <2> QED
    BY <1>3, <1>6, <2>1
<1>8. g[0] = x
  BY <1>3, <1>6
<1>9. ASSUME NEW i \in 1 .. m PROVE g[i] = step[i][g[i - 1]]
  <2>1. g[i - 1] = f[i - 1]
    BY <1>3
  <2>2. CASE i = m
    BY <2>1, <2>2
  <2>3. CASE i # m
    <3>1. f[i] = step[i][f[i - 1]]
      BY <1>3, <1>6, <2>3
    <3>2. g[i] = f[i]
      BY <2>3
    <3> QED
      BY <2>1, <3>1, <3>2
  <2> QED
    BY <2>2, <2>3
<1> HIDE DEF g
<1>10. Loop(m, g)
  BY <1>7, <1>8, <1>9 DEF IsLoop
<1>11. m \in undefined
  BY <1>2
<1> QED
  BY <1>10, <1>11

(* What holds at first and after every turn holds at the end.              *)
LEMMA Induction ==
    ASSUME NEW n \in Nat, NEW T, 0 \in T, \A i \in 1 .. n : i - 1 \in T => i \in T
    PROVE  n \in T
<1> DEFINE out == {i \in 0 .. n : i \notin T}
<1>1. SUFFICES ASSUME n \notin T PROVE FALSE
  OBVIOUS
<1>2. PICK m \in out : \A k \in out : m <= k
  <2>1. out \in SUBSET Nat /\ n \in out
    BY <1>1
  <2> HIDE DEF out
  <2> QED
    BY <2>1, LeastExists
<1>3. m \in 1 .. n /\ m \notin T
  BY <1>2
<1>4. m - 1 \in T
  BY <1>2, <1>3
<1> QED
  BY <1>3, <1>4

-----------------------------------------------------------------------------
(* An object holds a piece in one place at most: in its content or in one  *)
(* of its pending lists.                                                   *)
Text(content) == IF content = None THEN <<>> ELSE content

(* The pieces that are pending.                                            *)
PiecesOf(pending) == [i \in 1 .. Len(pending) |-> pending[i].piece]

(* The pieces of a content: those of the environment and those up to high. *)
Texts(high) == Name \cup 1 .. high

(* A list of some of the pieces, each of them once.                        *)
Distinct(list, S) == list \in Seq(S) /\ IsInjective(list)

(* Two lists without a piece in common.                                    *)
Apart(list, other) == ToSet(list) \cap ToSet(other) = {}

(* High is the number of the newest piece.                                 *)
OnceParts(content, append, prepend, high) ==
    /\ Distinct(Text(content), Texts(high))
    /\ append \in Seq(Pending) /\ Distinct(PiecesOf(append), 1 .. high)
    /\ prepend \in Seq(Pending) /\ Distinct(PiecesOf(prepend), 1 .. high)
    /\ Apart(Text(content), PiecesOf(append))
    /\ Apart(Text(content), PiecesOf(prepend))
    /\ Apart(PiecesOf(append), PiecesOf(prepend))

(* The object v has every piece once.                                      *)
Once(v, high) == OnceParts(v.content, v.append, v.prepend, high)

(* The pieces of an object, but for the environment's.                     *)
Held(v) ==
    (ToSet(Text(v.content)) \cup ToSet(PiecesOf(v.append)) \cup ToSet(PiecesOf(v.prepend)))
        \ Name

(* Two lists that are apart, one after the other.                          *)
LEMMA DistinctCat ==
    ASSUME NEW S, NEW a, Distinct(a, S), NEW b, Distinct(b, S), Apart(a, b)
    PROVE  Distinct(a \o b, S) /\ ToSet(a \o b) = ToSet(a) \cup ToSet(b)
<1> DEFINE c == a \o b
<1>1. a \in Seq(S) /\ b \in Seq(S) /\ c \in Seq(S)
  BY DEF Distinct
<1>2. /\ DOMAIN a = 1 .. Len(a) /\ DOMAIN b = 1 .. Len(b) /\ DOMAIN c = 1 .. Len(a) + Len(b)
      /\ Len(a) \in Nat /\ Len(b) \in Nat
  BY <1>1
<1>3. \A i \in 1 .. Len(a) + Len(b) : c[i] = IF i <= Len(a) THEN a[i] ELSE b[i - Len(a)]
  BY <1>1
<1> HIDE DEF c
<1>4. \A i \in DOMAIN a, j \in DOMAIN b : a[i] # b[j]
  BY DEF Apart, ToSet
<1>5. IsInjective(c)
  <2> SUFFICES ASSUME NEW i \in DOMAIN c, NEW j \in DOMAIN c, c[i] = c[j] PROVE i = j
    BY DEF IsInjective
  <2>1. CASE i <= Len(a) /\ j <= Len(a)
    <3>1. i \in DOMAIN a /\ j \in DOMAIN a /\ a[i] = a[j]
      BY <1>2, <1>3, <2>1
    <3> QED
      BY <3>1 DEF Distinct, IsInjective
  <2>2. CASE ~(i <= Len(a)) /\ ~(j <= Len(a))
    <3>1. i - Len(a) \in DOMAIN b /\ j - Len(a) \in DOMAIN b /\ b[i - Len(a)] = b[j - Len(a)]
      BY <1>2, <1>3, <2>2
    <3>2. i - Len(a) = j - Len(a)
      BY <3>1 DEF Distinct, IsInjective
    <3> QED
      BY <1>2, <3>2
  <2>3. CASE i <= Len(a) /\ ~(j <= Len(a))
    <3>1. i \in DOMAIN a /\ j - Len(a) \in DOMAIN b /\ a[i] = b[j - Len(a)]
      BY <1>2, <1>3, <2>3
    <3> QED
      BY <1>4, <3>1
  <2>4. CASE ~(i <= Len(a)) /\ j <= Len(a)
    <3>1. j \in DOMAIN a /\ i - Len(a) \in DOMAIN b /\ a[j] = b[i - Len(a)]
      BY <1>2, <1>3, <2>4
    <3> QED
      BY <1>4, <3>1
  <2> QED
    BY <2>1, <2>2, <2>3, <2>4
<1>6. ToSet(c) = ToSet(a) \cup ToSet(b)
  <2>1. ASSUME NEW x \in ToSet(c) PROVE x \in ToSet(a) \cup ToSet(b)
    <3>1. PICK i \in DOMAIN c : x = c[i]
      BY DEF ToSet
    <3>2. CASE i <= Len(a)
      BY <1>2, <1>3, <3>1, <3>2 DEF ToSet
    <3>3. CASE ~(i <= Len(a))
      <4>1. i - Len(a) \in DOMAIN b /\ x = b[i - Len(a)]
        BY <1>2, <1>3, <3>1, <3>3
      <4> QED
        BY <4>1 DEF ToSet
    <3> QED
      BY <3>2, <3>3
  <2>2. ASSUME NEW i \in DOMAIN a PROVE a[i] \in ToSet(c)
    <3>1. i \in DOMAIN c /\ c[i] = a[i]
      BY <1>2, <1>3
    <3> QED
      BY <3>1 DEF ToSet
  <2>3. ASSUME NEW i \in DOMAIN b PROVE b[i] \in ToSet(c)
    <3>1. i + Len(a) \in DOMAIN c /\ c[i + Len(a)] = b[i]
      BY <1>2, <1>3
    <3> QED
      BY <3>1 DEF ToSet
  <2> QED
    BY <2>1, <2>2, <2>3 DEF ToSet
<1> QED
  BY <1>1, <1>5, <1>6 DEF Distinct, c

(* Backwards a list is as distinct as before.                              *)
LEMMA DistinctReverse ==
    ASSUME NEW S, NEW a, Distinct(a, S)
    PROVE  Distinct(Reverse(a), S) /\ ToSet(Reverse(a)) = ToSet(a)
<1> DEFINE n == Len(a)
           r == Reverse(a)
<1>1. a \in Seq(S) /\ n \in Nat /\ DOMAIN a = 1 .. n
  BY DEF Distinct
<1>2. r = [i \in 1 .. n |-> a[(n - i) + 1]]
  BY DEF Reverse
<1> HIDE DEF r, n
<1>3. r \in Seq(S)
  BY <1>1, <1>2
<1>4. DOMAIN r = 1 .. n /\ \A i \in 1 .. n : r[i] = a[(n - i) + 1] /\ (n - i) + 1 \in DOMAIN a
  BY <1>1, <1>2
<1>5. IsInjective(r)
  <2> SUFFICES ASSUME NEW i \in 1 .. n, NEW j \in 1 .. n, r[i] = r[j] PROVE i = j
    BY <1>4 DEF IsInjective
  <2>1. (n - i) + 1 = (n - j) + 1
    BY <1>4 DEF Distinct, IsInjective
  <2> QED
    BY <1>1, <2>1
<1>6. ToSet(r) = ToSet(a)
  <2>1. ASSUME NEW i \in DOMAIN a PROVE a[i] \in ToSet(r)
    <3>1. (n - i) + 1 \in DOMAIN r /\ r[(n - i) + 1] = a[i]
      BY <1>1, <1>4
    <3> QED
      BY <3>1 DEF ToSet
  <2> QED
    BY <1>4, <2>1 DEF ToSet
<1> QED
  BY <1>3, <1>5, <1>6 DEF Distinct, r

(* One more piece at the end.                                              *)
LEMMA DistinctAppend ==
    ASSUME NEW S, NEW a, Distinct(a, S), NEW p \in S, p \notin ToSet(a)
    PROVE  Distinct(Append(a, p), S) /\ ToSet(Append(a, p)) = ToSet(a) \cup {p}
<1> DEFINE b == Append(a, p)
           n == Len(a)
<1>1. a \in Seq(S) /\ n \in Nat /\ DOMAIN a = 1 .. n
  BY DEF Distinct
<1>2. /\ b \in Seq(S) /\ DOMAIN b = 1 .. n + 1
      /\ b[n + 1] = p /\ \A i \in 1 .. n : b[i] = a[i]
  BY <1>1
<1> HIDE DEF b, n
<1>3. IsInjective(b)
  <2> SUFFICES ASSUME NEW i \in 1 .. n + 1, NEW j \in 1 .. n + 1, b[i] = b[j] PROVE i = j
    BY <1>2 DEF IsInjective
  <2>1. \A k \in 1 .. n : a[k] # p
    BY <1>1 DEF ToSet
  <2>2. CASE i \in 1 .. n /\ j \in 1 .. n
    BY <1>1, <1>2, <2>2 DEF Distinct, IsInjective
  <2>3. CASE i = n + 1 \/ j = n + 1
    BY <1>1, <1>2, <2>1, <2>3
  <2> QED
    BY <1>1, <2>2, <2>3
<1>4. ToSet(b) = ToSet(a) \cup {p}
  <2>1. n + 1 \in DOMAIN b /\ \A i \in 1 .. n : i \in DOMAIN b
    BY <1>1, <1>2
  <2>2. \A i \in DOMAIN b : i = n + 1 \/ i \in 1 .. n
    BY <1>1, <1>2
  <2> QED
    BY <1>1, <1>2, <2>1, <2>2 DEF ToSet
<1> QED
  BY <1>2, <1>3, <1>4 DEF Distinct, b

(* The pieces that are due are pieces of the list, each of them once.      *)
IsDue(f, pending, active, n) ==
    f = [i \in 0 .. n |-> IF i = 0 THEN <<>> ELSE DueOne(f[i - 1], pending[i], active)]

(* The recursive function of Due is the loop it says.                      *)
LEMMA DueIsDefined ==
    ASSUME NEW pending \in Seq(Pending), NEW active
    PROVE  \E f : /\ IsDue(f, pending, active, Len(pending))
                  /\ Due(pending, active) = f[Len(pending)]
<1> DEFINE n == Len(pending)
           step == [i \in 1 .. n |-> [s \in Seq(Piece) |-> DueOne(s, pending[i], active)]]
           r == CHOOSE f : IsDue(f, pending, active, n)
<1>1. n \in Nat /\ \A i \in 1 .. n : pending[i] \in Pending
  OBVIOUS
<1>2. ASSUME NEW i \in 1 .. n, NEW s \in Seq(Piece)
      PROVE  DueOne(s, pending[i], active) \in Seq(Piece)
  BY <1>1, <1>2 DEF DueOne, Pending
<1>3. step \in [1 .. n -> [Seq(Piece) -> Seq(Piece)]]
  <2> HIDE DEF n
  <2> QED
    BY <1>2
<1>4. PICK f : IsLoop(f, Seq(Piece), <<>>, n, step)
  <2> HIDE DEF step, n
  <2>1. <<>> \in Seq(Piece)
    OBVIOUS
  <2> QED
    BY <1>1, <1>3, <2>1, LoopIsDefined
<1>5. f \in [0 .. n -> Seq(Piece)] /\ f[0] = <<>> /\ \A i \in 1 .. n : f[i] = step[i][f[i - 1]]
  <2> HIDE DEF step, n
  <2> QED
    BY <1>4 DEF IsLoop
<1>6. ASSUME NEW i \in 1 .. n PROVE f[i] = DueOne(f[i - 1], pending[i], active)
  <2> HIDE DEF n
  <2>1. f[i - 1] \in Seq(Piece)
    <3> HIDE DEF step
    <3> QED
      BY <1>1, <1>5
  <2> QED
    BY <1>5, <2>1
<1>7. IsDue(f, pending, active, n)
  <2> HIDE DEF step, n
  <2> QED
    BY <1>1, <1>5, <1>6 DEF IsDue
<1>8. IsDue(r, pending, active, n)
  BY <1>7
<1>9. Due(pending, active) = r[n]
  BY DEF Due, IsDue
<1> QED
  BY <1>8, <1>9

(* What is due after the first i of the list.                              *)
DueSoFar(list, pending, high, i) ==
    /\ Distinct(list, 1 .. high)
    /\ \A p \in ToSet(list) : \E j \in 1 .. i : p = pending[j].piece

(* By induction on the turns of that loop.                                 *)
LEMMA DueDistinct ==
    ASSUME NEW pending \in Seq(Pending), NEW active, NEW high \in Nat,
           Distinct(PiecesOf(pending), 1 .. high)
    PROVE  /\ Distinct(Due(pending, active), 1 .. high)
           /\ ToSet(Due(pending, active)) \subseteq ToSet(PiecesOf(pending))
<1> DEFINE n == Len(pending)
<1>1. PICK f : IsDue(f, pending, active, n) /\ Due(pending, active) = f[n]
  BY DueIsDefined
<1>2. /\ n \in Nat
      /\ \A i \in 1 .. n : pending[i].piece \in 1 .. high
      /\ \A i, j \in 1 .. n : pending[i].piece = pending[j].piece => i = j
      /\ ToSet(PiecesOf(pending)) = {pending[i].piece : i \in 1 .. n}
  <2> DEFINE l == PiecesOf(pending)
  <2>1. n \in Nat /\ l = [i \in 1 .. n |-> pending[i].piece]
    BY DEF PiecesOf
  <2>2. l \in Seq(1 .. high) /\ IsInjective(l)
    BY DEF Distinct
  <2> HIDE DEF l, n
  <2>3. DOMAIN l = 1 .. n /\ \A i \in 1 .. n : l[i] = pending[i].piece
    BY <2>1
  <2>4. ToSet(l) = {pending[i].piece : i \in 1 .. n}
    BY <2>3 DEF ToSet
  <2>5. \A i \in 1 .. n : l[i] \in 1 .. high
    <3>1. \A i \in DOMAIN l : l[i] \in 1 .. high
      BY <2>2
    <3> QED
      BY <2>3, <3>1
  <2> QED
    BY <2>1, <2>2, <2>3, <2>4, <2>5 DEF IsInjective, l
<1> HIDE DEF n
<1>3. f[0] = <<>> /\ \A i \in 1 .. n : f[i] = DueOne(f[i - 1], pending[i], active)
  BY <1>1, <1>2 DEF IsDue
<1> DEFINE T == {i \in 0 .. n : DueSoFar(f[i], pending, high, i)}
<1>4. 0 \in T
  <2>1. Distinct(<<>>, 1 .. high) /\ ToSet(<<>>) = {}
    BY DEF Distinct, IsInjective, ToSet
  <2>2. DueSoFar(f[0], pending, high, 0)
    BY <1>3, <2>1 DEF DueSoFar
  <2> QED
    BY <1>2, <2>2
<1>5. ASSUME NEW i \in 1 .. n, i - 1 \in T PROVE i \in T
  <2> DEFINE old == f[i - 1]
             new == f[i]
             p == pending[i].piece
  <2>1. DueSoFar(old, pending, high, i - 1)
    BY <1>5
  <2>2. new = old \/ new = Append(old, p)
    BY <1>2, <1>3 DEF DueOne
  <2>3. p \in 1 .. high
    BY <1>2
  <2>4. p \notin ToSet(old)
    BY <1>2, <2>1 DEF DueSoFar
  <2> HIDE DEF old, new
  <2>5. CASE new = old
    BY <1>2, <2>1, <2>5 DEF DueSoFar, new
  <2>6. CASE new = Append(old, p)
    <3>1. Distinct(new, 1 .. high) /\ ToSet(new) = ToSet(old) \cup {p}
      <4> HIDE DEF p
      <4> QED
        BY <2>1, <2>3, <2>4, <2>6, DistinctAppend DEF DueSoFar
    <3>2. DueSoFar(new, pending, high, i)
      BY <1>2, <2>1, <3>1 DEF DueSoFar
    <3> QED
      BY <1>2, <3>2 DEF new
  <2> QED
    BY <2>2, <2>5, <2>6
<1>6. n \in T
  <2> HIDE DEF T
  <2> QED
    BY <1>2, <1>4, <1>5, Induction
<1>7. DueSoFar(f[n], pending, high, n)
  BY <1>6
<1> QED
  BY <1>1, <1>2, <1>7 DEF DueSoFar

(* The operations on objects keep the pieces apart.                        *)
LEMMA NoneDistinct ==
    ASSUME NEW S
    PROVE  Distinct(<<>>, S) /\ ToSet(<<>>) = {} /\ PiecesOf(<<>>) = <<>>
<1>1. PiecesOf(<<>>) = <<>>
  BY DEF PiecesOf
<1> QED
  BY <1>1 DEF Distinct, IsInjective, ToSet

(* A list of one piece.                                                    *)
LEMMA OneDistinct ==
    ASSUME NEW S, NEW p \in S
    PROVE  Distinct(<<p>>, S) /\ ToSet(<<p>>) = {p}
<1>1. DOMAIN <<p>> = {1} /\ <<p>>[1] = p /\ <<p>> \in Seq(S)
  OBVIOUS
<1> QED
  BY <1>1 DEF Distinct, IsInjective, ToSet

(* An object without content has no piece.                                 *)
LEMMA NoVarOnce ==
    ASSUME NEW high
    PROVE  Once(NoVar, high) /\ Held(NoVar) = {}
<1>1. Text(NoVar.content) = <<>> /\ NoVar.append = <<>> /\ NoVar.prepend = <<>>
  BY DEF NoVar, Text
<1>2. <<>> \in Seq(Pending)
  OBVIOUS
<1>3. Apart(<<>>, <<>>)
  BY NoneDistinct DEF Apart
<1>4. Once(NoVar, high)
  BY <1>1, <1>2, <1>3, NoneDistinct DEF Once, OnceParts
<1> QED
  BY <1>1, <1>4, NoneDistinct DEF Held

(* A sequence of few things is one of more things.                         *)
LEMMA SeqOfMore ==
    ASSUME NEW S, NEW T, S \subseteq T, NEW l \in Seq(S)
    PROVE  l \in Seq(T)
  OBVIOUS

(* And what was distinct stays so.                                         *)
LEMMA DistinctOfMore ==
    ASSUME NEW S, NEW T, S \subseteq T, NEW l, Distinct(l, S)
    PROVE  Distinct(l, T)
  BY SeqOfMore DEF Distinct

(* A name is no number,                                                    *)
LEMMA NamesAreNoNumbers == \A i \in Nat : i \notin Name
  BY DataStoreAssumption

(* and the numbered pieces are pieces, more and more of them.              *)
LEMMA TextsGrow ==
    ASSUME NEW high \in Nat, NEW higher \in Nat, high <= higher
    PROVE  /\ 1 .. high \subseteq Texts(high) /\ 1 .. high \subseteq 1 .. higher
           /\ Texts(high) \subseteq Texts(higher)
<1>1. 1 .. high \subseteq 1 .. higher
  OBVIOUS
<1> QED
  BY <1>1 DEF Texts

LEMMA OnceLater ==
    ASSUME NEW high \in Nat, NEW higher \in Nat, high <= higher, NEW v, Once(v, high)
    PROVE  Once(v, higher)
<1>1. ASSUME NEW l, Distinct(l, 1 .. high) PROVE Distinct(l, 1 .. higher)
  BY <1>1, TextsGrow, DistinctOfMore
<1>2. ASSUME NEW l, Distinct(l, Texts(high)) PROVE Distinct(l, Texts(higher))
  BY <1>2, TextsGrow, DistinctOfMore
<1> QED
  BY <1>1, <1>2 DEF Once, OnceParts

(* Due pieces move from the pending lists to the content.                  *)
LEMMA WithPendingOnce ==
    ASSUME NEW v, Faithful(v), NEW high \in Nat, Once(v, high), NEW active
    PROVE  /\ Once(WithPending(v, active), high)
           /\ Held(WithPending(v, active)) \subseteq Held(v)
<1> DEFINE front == Due(v.prepend, active)
           back == Due(v.append, active)
           content == Text(v.content)
           w == WithPending(v, active)
           append == IF back = <<>> THEN v.append ELSE <<>>
           prepend == IF front = <<>> THEN v.prepend ELSE <<>>
           text == Reverse(front) \o content \o back
<1>1. w = v \/ w = [content |-> text, append |-> append, prepend |-> prepend,
                    flags |-> Exported(v.flags)]
  BY DEF WithPending, Text
<1> HIDE DEF w
<1>2. CASE w = v
  BY <1>2 DEF w
<1>3. CASE w = [content |-> text, append |-> append, prepend |-> prepend,
                flags |-> Exported(v.flags)]
  <2>1. /\ Distinct(front, 1 .. high) /\ ToSet(front) \subseteq ToSet(PiecesOf(v.prepend))
        /\ Distinct(back, 1 .. high) /\ ToSet(back) \subseteq ToSet(PiecesOf(v.append))
    BY DueDistinct DEF Once, OnceParts
  <2>2. /\ Distinct(content, Texts(high))
        /\ Apart(content, PiecesOf(v.append)) /\ Apart(content, PiecesOf(v.prepend))
        /\ Apart(PiecesOf(v.append), PiecesOf(v.prepend))
    BY DEF Once, OnceParts
  <2> HIDE DEF front, back, content
  <2>3. Distinct(front, Texts(high)) /\ Distinct(back, Texts(high))
    BY <2>1, TextsGrow, DistinctOfMore
  <2>4. Distinct(Reverse(front), Texts(high)) /\ ToSet(Reverse(front)) = ToSet(front)
    BY <2>3, DistinctReverse
  <2> DEFINE some == Reverse(front) \o content
  <2>5. Distinct(some, Texts(high)) /\ ToSet(some) = ToSet(front) \cup ToSet(content)
    <3>1. Apart(Reverse(front), content)
      BY <2>1, <2>2, <2>4 DEF Apart
    <3> QED
      BY <2>2, <2>4, <3>1, DistinctCat
  <2> HIDE DEF some
  <2>6. Distinct(text, Texts(high)) /\ ToSet(text) = ToSet(front) \cup ToSet(content) \cup ToSet(back)
    <3>1. Apart(some, back)
      BY <2>1, <2>2, <2>5 DEF Apart
    <3>2. text = some \o back
      BY DEF some
    <3> HIDE DEF text
    <3> QED
      BY <2>3, <2>5, <3>1, <3>2, DistinctCat
  <2> HIDE DEF text
  <2>7. /\ append \in Seq(Pending) /\ Distinct(PiecesOf(append), 1 .. high)
        /\ ToSet(PiecesOf(append)) \subseteq ToSet(PiecesOf(v.append)) \ ToSet(back)
    <3>1. v.append \in Seq(Pending) /\ Distinct(PiecesOf(v.append), 1 .. high)
      BY DEF Once, OnceParts
    <3>2. CASE back = <<>>
      BY <3>1, <3>2, NoneDistinct
    <3>3. CASE back # <<>>
      BY <3>3, NoneDistinct
    <3> QED
      BY <3>2, <3>3
  <2>8. /\ prepend \in Seq(Pending) /\ Distinct(PiecesOf(prepend), 1 .. high)
        /\ ToSet(PiecesOf(prepend)) \subseteq ToSet(PiecesOf(v.prepend)) \ ToSet(front)
    <3>1. v.prepend \in Seq(Pending) /\ Distinct(PiecesOf(v.prepend), 1 .. high)
      BY DEF Once, OnceParts
    <3>2. CASE front = <<>>
      BY <3>1, <3>2, NoneDistinct
    <3>3. CASE front # <<>>
      BY <3>3, NoneDistinct
    <3> QED
      BY <3>2, <3>3
  <2> HIDE DEF append, prepend
  <2>9. Apart(text, PiecesOf(append)) /\ Apart(text, PiecesOf(prepend))
        /\ Apart(PiecesOf(append), PiecesOf(prepend))
    BY <2>1, <2>2, <2>6, <2>7, <2>8 DEF Apart
  <2>10. Text(text) = text \/ (Text(text) = <<>> /\ ToSet(Text(text)) = {})
    BY NoneDistinct DEF Text
  <2>11. /\ Distinct(Text(text), Texts(high)) /\ ToSet(Text(text)) \subseteq ToSet(text)
         /\ Apart(Text(text), PiecesOf(append)) /\ Apart(Text(text), PiecesOf(prepend))
    <3>1. CASE Text(text) = text
      BY <2>6, <2>9, <3>1
    <3>2. CASE Text(text) = <<>> /\ ToSet(Text(text)) = {}
      BY <3>2, NoneDistinct DEF Apart
    <3> QED
      BY <2>10, <3>1, <3>2
  <2>12. w.content = text /\ w.append = append /\ w.prepend = prepend
    BY <1>3
  <2>13. Once(w, high)
    BY <2>7, <2>8, <2>9, <2>11, <2>12 DEF Once, OnceParts
  <2>14. Held(w) \subseteq Held(v)
    <3>1. ToSet(Text(w.content)) \subseteq ToSet(PiecesOf(v.prepend)) \cup ToSet(Text(v.content))
              \cup ToSet(PiecesOf(v.append))
      BY <2>1, <2>6, <2>11, <2>12 DEF content
    <3> QED
      BY <2>7, <2>8, <2>12, <3>1 DEF Held
  <2> QED
    BY <2>13, <2>14 DEF w
<1> QED
  BY <1>1, <1>2, <1>3

-----------------------------------------------------------------------------
(* The memory as it should be: objects with each piece once; classes of    *)
(* sharing as in TypeOK, of names that are all bases of one; and nothing   *)
(* in a store that does not exist.                                         *)
OnceMem(m, high) ==
    \A s \in Store, n \in Name : m.layer[s][n] # None => Once(m.layer[s][n], high)

(* What the entry e reads.                                                 *)
At(m, e) == m.layer[e[1]][e[2]]

(* Classes of sharing are apart and read the same throughout.              *)
Shared(m) ==
    \A g \in m.shared :
        /\ g \subseteq Entry /\ Several(g)
        /\ \A e, f \in g : At(m, e) = At(m, f)
        /\ \A h \in m.shared : g = h \/ g \cap h = {}

(* They are made by update_data: all names are bases of one.               *)
SharedByBases(m) == \A g \in m.shared : \E n \in Name : \A e \in g : e[2] \in Bases(n)

(* No object of s has another place.                                       *)
Unshared(m, s) == \A g \in m.shared : \A e \in g : e[1] # s

(* A store that does not exist is empty.                                   *)
Born(m) == \A s \in Store : chain[s] = {} => Unshared(m, s) /\ \A n \in Name : m.layer[s][n] = None

(* All of it.                                                              *)
Sound(m, high) ==
    FaithfulMem(m) /\ OnceMem(m, high) /\ Shared(m) /\ SharedByBases(m) /\ Born(m)

(* No name is lost.                                                        *)
Keeps(m, m2) == \A s \in Store, n \in Name : m.layer[s][n] # None => m2.layer[s][n] # None

(* A name is the first of its bases.                                       *)
LEMMA BasesOfName ==
    ASSUME NEW n \in Name
    PROVE  n \in Bases(n)
  BY DEF Bases

(* The base of one of them is one of them.                                 *)
LEMMA BasesGoOn ==
    ASSUME NEW o \in Name, NEW n \in Bases(o), Base[n] # None
    PROVE  Base[n] \in Bases(o)
<1>1. n \in Name /\ Base[n] \in Name
  BY DataStoreAssumption DEF Bases
<1>2. ASSUME NEW S \in SUBSET Name, o \in S, \A i \in S : Base[i] \in S \cup {None}
      PROVE  Base[n] \in S
  <2>1. n \in S
    BY <1>2 DEF Bases
  <2> QED
    BY <1>2, <2>1
<1> QED
  BY <1>1, <1>2 DEF Bases

(* What is in memory is an object.                                         *)
LEMMA OnceIsVar ==
    ASSUME NEW v, Faithful(v), NEW high \in Nat, high <= MaxPieces, Once(v, high)
    PROVE  v \in Var /\ v # None
<1>1. Text(v.content) \in Seq(Texts(high))
  BY DEF Once, OnceParts, Distinct
<1>2. Texts(high) \subseteq Piece
  BY DataStoreAssumption DEF Texts, Piece
<1>3. v.content = None \/ v.content \in Seq(Piece)
  <2>1. Text(v.content) \in Seq(Piece)
    BY <1>1, <1>2, SeqOfMore, Zenon
  <2> QED
    BY <2>1 DEF Text
<1>4. v \in Var
  BY <1>3 DEF Faithful, Var
<1> QED
  BY <1>4, NoneIsNoVar

(* Where a name is found.                                                  *)
LEMMA FoundAtHome ==
    ASSUME NEW m, Chains, NEW s \in Store, NEW n \in Name, n \in Keys(m, s)
    PROVE  /\ Home(m, s, n) \in chain[s] /\ Home(m, s, n) \in Store
           /\ m.layer[Home(m, s, n)][n] # None
           /\ Found(m, s, n) = m.layer[Home(m, s, n)][n]
<1>1. Holders(m, s, n) \in SUBSET Store /\ Holders(m, s, n) # {}
  BY DEF Holders, Chains, Keys
<1>2. Home(m, s, n) \in Holders(m, s, n)
  BY <1>1, HighestExists DEF Home
<1> QED
  BY <1>1, <1>2 DEF Holders, Found

(* What s has itself is what is found.                                     *)
LEMMA FoundOwn ==
    ASSUME NEW m, Chains, NEW s \in Store, chain[s] # {}, NEW n \in Name, m.layer[s][n] # None
    PROVE  n \in Keys(m, s) /\ Home(m, s, n) = s /\ Found(m, s, n) = m.layer[s][n]
<1>1. Holders(m, s, n) \in SUBSET Store /\ s \in Holders(m, s, n)
  BY DEF Holders, Chains
<1>2. \A u \in Holders(m, s, n) : u <= s
  BY DEF Holders, Chains
<1>3. ASSUME NEW t \in Holders(m, s, n), \A u \in Holders(m, s, n) : u <= t
      PROVE  t = s
  <2>1. s <= t /\ t <= s
    BY <1>1, <1>2, <1>3
  <2> QED
    BY <1>1, <2>1, DataStoreAssumption DEF Store
<1>4. Home(m, s, n) = s
  BY <1>1, <1>2, <1>3 DEF Home
<1> QED
  BY <1>1, <1>4 DEF Found, Keys

(* What is found has every piece once.                                     *)
LEMMA FoundOnce ==
    ASSUME NEW high \in Nat, NEW m, Sound(m, high), Chains, NEW s \in Store, NEW n \in Name
    PROVE  Faithful(Found(m, s, n)) /\ Once(Found(m, s, n), high)
<1>1. Faithful(Found(m, s, n))
  BY FoundFaithful DEF Sound
<1>2. CASE n \in Keys(m, s)
  BY <1>1, <1>2, FoundAtHome DEF Sound, OnceMem
<1>3. CASE n \notin Keys(m, s)
  BY <1>1, <1>3, NoVarOnce DEF Found, Keys
<1> QED
  BY <1>2, <1>3

-----------------------------------------------------------------------------
(* A new object under a name.                                              *)
LEMMA PutWhere ==
    ASSUME NEW m, MemType(m), NEW s \in Store, NEW n \in Name, NEW v
    PROVE  \A t \in Store, k \in Name :
              Put(m, s, n, v).layer[t][k] = IF t = s /\ k = n THEN v ELSE m.layer[t][k]
<1> DEFINE p == Put(m, s, n, v)
<1>1. p.layer = [m.layer EXCEPT ![s][n] = v]
  BY DEF Put
<1> HIDE DEF p
<1>2. ASSUME NEW t \in Store, NEW k \in Name
      PROVE  p.layer[t][k] = IF t = s /\ k = n THEN v ELSE m.layer[t][k]
  <2>1. m.layer[t] = [j \in Name |-> m.layer[t][j]] /\ t \in DOMAIN m.layer
    BY DEF MemType
  <2>2. p.layer[t] = IF t = s THEN [m.layer[t] EXCEPT ![n] = v] ELSE m.layer[t]
    BY <1>1, <2>1
  <2> QED
    BY <2>1, <2>2
<1> QED
  BY <1>2 DEF p

(* It leaves the class it was in.                                          *)
LEMMA PutShared ==
    ASSUME NEW m, MemType(m), Shared(m), SharedByBases(m), NEW s \in Store, NEW n \in Name, NEW v
    PROVE  /\ Shared(Put(m, s, n, v)) /\ SharedByBases(Put(m, s, n, v))
           /\ \A g \in Put(m, s, n, v).shared : \E h \in m.shared : g = h \ {<<s, n>>}
<1> DEFINE p == Put(m, s, n, v)
           e0 == <<s, n>>
<1>1. p.shared = {g \in {h \ {e0} : h \in m.shared} : Several(g)}
  BY DEF Put, Detached
<1>2. \A t \in Store, k \in Name : p.layer[t][k] = IF t = s /\ k = n THEN v ELSE m.layer[t][k]
  BY PutWhere
<1> HIDE DEF p
<1>3. ASSUME NEW e \in Entry, e # e0 PROVE At(p, e) = At(m, e)
  <2>1. PICK t \in Store, k \in Name : e = <<t, k>>
    BY DEF Entry
  <2> QED
    BY <1>2, <1>3, <2>1 DEF At
<1>4. ASSUME NEW g \in p.shared
      PROVE  \E h \in m.shared : g = h \ {e0} /\ Several(g)
  BY <1>1
<1>5. ASSUME NEW g \in p.shared
      PROVE  /\ g \subseteq Entry /\ Several(g)
             /\ \A e, f \in g : At(p, e) = At(p, f)
             /\ \A g2 \in p.shared : g = g2 \/ g \cap g2 = {}
  <2>1. PICK h \in m.shared : g = h \ {e0} /\ Several(g)
    BY <1>4
  <2>2. h \subseteq Entry /\ \A e, f \in h : At(m, e) = At(m, f)
    BY DEF Shared
  <2>3. ASSUME NEW e \in g, NEW f \in g PROVE At(p, e) = At(p, f)
    <3>1. e \in Entry /\ f \in Entry /\ e # e0 /\ f # e0 /\ At(m, e) = At(m, f)
      BY <2>1, <2>2
    <3> QED
      BY <1>3, <3>1
  <2>4. ASSUME NEW g2 \in p.shared PROVE g = g2 \/ g \cap g2 = {}
    <3>1. PICK h2 \in m.shared : g2 = h2 \ {e0}
      BY <1>4
    <3>2. h = h2 \/ h \cap h2 = {}
      BY DEF Shared
    <3> QED
      BY <2>1, <3>1, <3>2
  <2> QED
    BY <2>1, <2>2, <2>3, <2>4
<1>6. Shared(p)
  BY <1>5 DEF Shared
<1>7. SharedByBases(p)
  <2> SUFFICES ASSUME NEW g \in p.shared PROVE \E k \in Name : \A e \in g : e[2] \in Bases(k)
    BY DEF SharedByBases
  <2>1. PICK h \in m.shared : g = h \ {e0}
    BY <1>4
  <2>2. PICK k \in Name : \A e \in h : e[2] \in Bases(k)
    BY DEF SharedByBases
  <2> QED
    BY <2>1, <2>2
<1> QED
  BY <1>4, <1>6, <1>7 DEF p

(* A new object with every piece once keeps the memory sound.              *)
LEMMA PutSound ==
    ASSUME NEW high \in Nat, high <= MaxPieces, NEW m, Sound(m, high), NEW s \in Store, chain[s] # {},
           NEW n \in Name, NEW v, Faithful(v), Once(v, high)
    PROVE  Sound(Put(m, s, n, v), high) /\ Keeps(m, Put(m, s, n, v))
<1> DEFINE p == Put(m, s, n, v)
<1>0. MemType(m)
  BY DEF Sound, FaithfulMem
<1>1. FaithfulMem(p)
  BY PutFaithful DEF Sound
<1>2. \A t \in Store, k \in Name : p.layer[t][k] = IF t = s /\ k = n THEN v ELSE m.layer[t][k]
  BY <1>0, PutWhere
<1>3. /\ Shared(p) /\ SharedByBases(p)
      /\ \A g \in p.shared : \E h \in m.shared : g = h \ {<<s, n>>}
  BY <1>0, PutShared DEF Sound
<1> HIDE DEF p
<1>4. OnceMem(p, high)
  BY <1>2 DEF Sound, OnceMem
<1>5. Born(p)
  BY <1>2, <1>3 DEF Sound, Born, Unshared
<1>6. Keeps(m, p)
  BY <1>2, OnceIsVar DEF Keeps
<1> QED
  BY <1>1, <1>3, <1>4, <1>5, <1>6 DEF Sound, p

-----------------------------------------------------------------------------
(* A change in place.  First where it is seen: in the entries that hold    *)
(* the object, all of which read the same before.                          *)
LEMMA ShadowSound ==
    ASSUME NEW high \in Nat, high <= MaxPieces, NEW m, Sound(m, high), Chains,
           NEW s \in Store, chain[s] # {}, NEW n \in Name
    PROVE  /\ Sound(Shadow(m, s, n), high) /\ Keeps(m, Shadow(m, s, n))
           /\ \A t \in Store, k \in Name :
                ~(t = s /\ k = n) => Shadow(m, s, n).layer[t][k] = m.layer[t][k]
           /\ Shadow(m, s, n).layer[s][n] = Found(m, s, n)
           /\ m.layer[s][n] # None => Shadow(m, s, n) = m
           /\ m.layer[s][n] = None => Same(Shadow(m, s, n), <<s, n>>) = {<<s, n>>}
           /\ Unshared(m, s) => Unshared(Shadow(m, s, n), s)
<1> DEFINE own == Shadow(m, s, n)
           v == Found(m, s, n)
<1>1. CASE m.layer[s][n] # None
  <2>1. own = m
    BY <1>1 DEF Shadow
  <2>2. v = m.layer[s][n]
    BY <1>1, FoundOwn
  <2>3. Keeps(m, m)
    BY DEF Keeps
  <2> HIDE DEF own, v
  <2> QED
    BY <1>1, <2>1, <2>2, <2>3 DEF own, v
<1>2. CASE m.layer[s][n] = None
  <2>1. own = Put(m, s, n, v)
    BY <1>2 DEF Shadow
  <2>2. Faithful(v) /\ Once(v, high) /\ MemType(m)
    BY FoundOnce DEF Sound, FaithfulMem
  <2> HIDE DEF v
  <2>3. Sound(own, high) /\ Keeps(m, own)
    BY <2>1, <2>2, PutSound
  <2>4. \A t \in Store, k \in Name : own.layer[t][k] = IF t = s /\ k = n THEN v ELSE m.layer[t][k]
    BY <2>1, <2>2, PutWhere
  <2>5. \A g \in own.shared : \E h \in m.shared : g = h \ {<<s, n>>}
    BY <2>1, <2>2, PutShared DEF Sound
  <2> HIDE DEF own
  <2>6. Same(own, <<s, n>>) = {<<s, n>>}
    <3>1. \A g \in own.shared : <<s, n>> \notin g
      BY <2>5
    <3> QED
      BY <3>1 DEF Same
  <2>7. Unshared(m, s) => Unshared(own, s)
    BY <2>5 DEF Unshared
  <2> QED
    BY <1>2, <2>3, <2>4, <2>6, <2>7 DEF own, v
<1> QED
  BY <1>1, <1>2

(* Those entries, if the name was in s; else s has a copy of its own.      *)
LEMMA ChangeWhere ==
    ASSUME NEW high \in Nat, high <= MaxPieces, NEW m, Sound(m, high), Chains,
           NEW s \in Store, chain[s] # {}, NEW n \in Name, NEW v
    PROVE  \E same \in SUBSET Entry :
             /\ same = Same(Shadow(m, s, n), <<s, n>>) /\ <<s, n>> \in same
             /\ \A t \in Store, k \in Name : Change(m, s, n, v).layer[t][k] =
                    IF <<t, k>> \in same THEN v ELSE m.layer[t][k]
             /\ \A e \in same : e # <<s, n>> =>
                    /\ At(m, e) = Found(m, s, n) /\ m.layer[s][n] # None
                    /\ \E g \in m.shared : e \in g /\ <<s, n>> \in g
             /\ Unshared(m, s) => same = {<<s, n>>}
             /\ \E o \in Name : \A e \in same : e[2] \in Bases(o)
<1> DEFINE own == Shadow(m, s, n)
           same == Same(own, <<s, n>>)
           c == Change(m, s, n, v)
<1>1. /\ Sound(own, high)
      /\ \A t \in Store, k \in Name : ~(t = s /\ k = n) => own.layer[t][k] = m.layer[t][k]
      /\ own.layer[s][n] = Found(m, s, n)
      /\ m.layer[s][n] # None => own = m
      /\ m.layer[s][n] = None => same = {<<s, n>>}
      /\ Unshared(m, s) => Unshared(own, s)
  BY ShadowSound
<1>2. c.layer = [t \in Store |-> [k \in Name |-> IF <<t, k>> \in same THEN v ELSE own.layer[t][k]]]
  BY DEF Change
<1> HIDE DEF own, c
<1>3. same = {<<s, n>>} \cup UNION {g \in own.shared : <<s, n>> \in g}
  BY DEF Same
<1> HIDE DEF same
<1>4. same \in SUBSET Entry
  BY <1>1, <1>3 DEF Sound, Shared, Entry
<1>5. ASSUME NEW t \in Store, NEW k \in Name
      PROVE  c.layer[t][k] = IF <<t, k>> \in same THEN v ELSE m.layer[t][k]
  <2>1. c.layer[t][k] = IF <<t, k>> \in same THEN v ELSE own.layer[t][k]
    BY <1>2
  <2>2. <<t, k>> \notin same => own.layer[t][k] = m.layer[t][k]
    BY <1>1, <1>3
  <2> QED
    BY <2>1, <2>2
<1>6. ASSUME NEW e \in same, e # <<s, n>>
      PROVE  /\ At(m, e) = Found(m, s, n) /\ m.layer[s][n] # None
             /\ \E g \in m.shared : e \in g /\ <<s, n>> \in g
  <2>1. m.layer[s][n] # None /\ own = m
    BY <1>1, <1>6
  <2>2. PICK g \in m.shared : e \in g /\ <<s, n>> \in g
    BY <1>3, <1>6, <2>1
  <2>3. At(m, e) = At(m, <<s, n>>)
    BY <2>2 DEF Sound, Shared
  <2>4. At(m, <<s, n>>) = m.layer[s][n]
    BY DEF At
  <2> QED
    BY <1>1, <2>1, <2>2, <2>3, <2>4
<1>7. Unshared(m, s) => same = {<<s, n>>}
  <2>1. ASSUME Unshared(m, s), NEW g \in own.shared, <<s, n>> \in g PROVE FALSE
    BY <1>1, <2>1 DEF Unshared
  <2> QED
    BY <1>3, <2>1
<1>8. \E o \in Name : \A e \in same : e[2] \in Bases(o)
  <2>1. CASE \E g \in own.shared : <<s, n>> \in g
    <3>1. PICK g \in own.shared : <<s, n>> \in g
      BY <2>1
    <3>2. PICK o \in Name : \A e \in g : e[2] \in Bases(o)
      BY <1>1 DEF Sound, SharedByBases
    <3>3. same \subseteq g
      <4>1. \A h \in own.shared : <<s, n>> \in h => h = g
        BY <1>1, <3>1 DEF Sound, Shared
      <4> QED
        BY <1>3, <3>1, <4>1
    <3> QED
      BY <3>2, <3>3
  <2>2. CASE ~ \E g \in own.shared : <<s, n>> \in g
    <3>1. same = {<<s, n>>}
      BY <1>3, <2>2
    <3> QED
      BY <3>1, BasesOfName
  <2> QED
    BY <2>1, <2>2
<1>9. <<s, n>> \in same
  BY <1>3
<1> QED
  BY <1>4, <1>5, <1>6, <1>7, <1>8, <1>9 DEF same, own, c

(* A change in place keeps the memory sound.                               *)
LEMMA ChangeSound ==
    ASSUME NEW high \in Nat, high <= MaxPieces, NEW m, Sound(m, high), Chains,
           NEW s \in Store, chain[s] # {}, NEW n \in Name, NEW v, Faithful(v), Once(v, high)
    PROVE  Sound(Change(m, s, n, v), high) /\ Keeps(m, Change(m, s, n, v))
<1> DEFINE own == Shadow(m, s, n)
           c == Change(m, s, n, v)
<1>1. PICK same \in SUBSET Entry :
        /\ same = Same(own, <<s, n>>) /\ <<s, n>> \in same
        /\ \A t \in Store, k \in Name : c.layer[t][k] =
                IF <<t, k>> \in same THEN v ELSE m.layer[t][k]
        /\ \A e \in same : e # <<s, n>> =>
                /\ At(m, e) = Found(m, s, n) /\ m.layer[s][n] # None
                /\ \E g \in m.shared : e \in g /\ <<s, n>> \in g
  BY ChangeWhere
<1>2. Sound(own, high)
  BY ShadowSound
<1>3. FaithfulMem(c)
  BY ChangeFaithful DEF Sound
<1>4. c.shared = own.shared
  BY DEF Change
<1>0. c.layer = [t \in Store |-> [k \in Name |->
                    IF <<t, k>> \in Same(own, <<s, n>>) THEN v ELSE own.layer[t][k]]]
  BY DEF Change
<1> HIDE DEF own, c
<1>5. \A t \in Store, k \in Name : <<t, k>> \notin same => c.layer[t][k] = own.layer[t][k]
  BY <1>0, <1>1
<1>6. v # None
  BY OnceIsVar
<1>7. OnceMem(c, high) /\ Keeps(m, c)
  <2>1. \A t \in Store, k \in Name : c.layer[t][k] \in {v, m.layer[t][k]}
    BY <1>1
  <2>2. \A t \in Store, k \in Name : m.layer[t][k] # None => Once(m.layer[t][k], high)
    BY DEF Sound, OnceMem
  <2>3. \A t \in Store, k \in Name : c.layer[t][k] # None => Once(c.layer[t][k], high)
    BY <2>1, <2>2
  <2>4. \A t \in Store, k \in Name : m.layer[t][k] # None => c.layer[t][k] # None
    BY <1>6, <2>1
  <2> QED
    BY <2>3, <2>4 DEF OnceMem, Keeps
<1>8. ASSUME NEW e \in same PROVE At(c, e) = v
  <2>1. e \in Entry
    BY <1>1
  <2>2. PICK t \in Store, k \in Name : e = <<t, k>>
    BY <2>1 DEF Entry
  <2> QED
    BY <1>1, <2>2 DEF At
<1>9. ASSUME NEW e \in Entry, e \notin same PROVE At(c, e) = At(own, e)
  <2>1. PICK t \in Store, k \in Name : e = <<t, k>>
    BY DEF Entry
  <2> QED
    BY <1>5, <1>9, <2>1 DEF At
<1>10. Shared(c)
  <2> SUFFICES ASSUME NEW g \in own.shared
               PROVE  \A e, f \in g : At(c, e) = At(c, f)
    BY <1>2, <1>4 DEF Sound, Shared
  <2>1. g \subseteq Entry /\ \A e, f \in g : At(own, e) = At(own, f)
    BY <1>2 DEF Sound, Shared
  <2>2. CASE <<s, n>> \in g
    <3>1. g \subseteq same
      BY <1>1, <2>2 DEF Same
    <3> QED
      BY <1>8, <3>1
  <2>3. CASE <<s, n>> \notin g
    <3>1. \A h \in own.shared : <<s, n>> \in h => g \cap h = {}
      BY <1>2, <2>3 DEF Sound, Shared
    <3>2. g \cap same = {}
      BY <1>1, <2>3, <3>1 DEF Same
    <3> QED
      BY <1>9, <2>1, <3>2
  <2> QED
    BY <2>2, <2>3
<1>11. SharedByBases(c)
  BY <1>2, <1>4 DEF Sound, SharedByBases
<1>12. Born(c)
  <2>1. ASSUME NEW t \in Store, chain[t] = {}, NEW k \in Name PROVE c.layer[t][k] = None
    <3>1. m.layer[t][k] = None
      BY <2>1 DEF Sound, Born
    <3>2. CASE <<t, k>> \in same
      <4>1. At(m, <<t, k>>) = Found(m, s, n) /\ m.layer[s][n] # None
        BY <1>1, <2>1, <3>2
      <4>2. m.layer[t][k] = m.layer[s][n]
        BY <4>1, FoundOwn DEF At
      <4> QED
        BY <3>1, <4>1, <4>2
    <3>3. CASE <<t, k>> \notin same
      BY <1>1, <3>1, <3>3
    <3> QED
      BY <3>2, <3>3
  <2>2. \A t \in Store : chain[t] = {} => Unshared(c, t)
    BY <1>2, <1>4 DEF Sound, Born, Unshared
  <2> QED
    BY <2>1, <2>2 DEF Born
<1> QED
  BY <1>3, <1>7, <1>10, <1>11, <1>12 DEF Sound, c

(* An object under the name it is a conditional version of.                *)
LEMMA LinkWhere ==
    ASSUME NEW m, MemType(m), NEW s \in Store, NEW n \in Name, NEW from \in Name
    PROVE  \A t \in Store, k \in Name :
              Link(m, s, n, from).layer[t][k] =
                  IF t = s /\ k = n THEN Found(m, s, from) ELSE m.layer[t][k]
<1> DEFINE v == Found(m, s, from)
<1>1. Link(m, s, n, from).layer = Put(m, s, n, v).layer
  BY DEF Link, Put
<1> HIDE DEF v
<1>2. \A t \in Store, k \in Name :
        Put(m, s, n, v).layer[t][k] = IF t = s /\ k = n THEN v ELSE m.layer[t][k]
  BY PutWhere
<1> QED
  BY <1>1, <1>2 DEF v

(* The object is in one class then, with all names it had and the new one. *)
LEMMA LinkSound ==
    ASSUME NEW high \in Nat, high <= MaxPieces, NEW m, Sound(m, high), Chains,
           NEW s \in Store, chain[s] # {}, NEW from \in Keys(m, s), Base[from] # None
    PROVE  /\ Sound(Link(m, s, Base[from], from), high)
           /\ Keeps(m, Link(m, s, Base[from], from))
<1> DEFINE n == Base[from]
           e0 == <<s, n>>
           home == <<Home(m, s, from), from>>
           v == Found(m, s, from)
           l == Link(m, s, n, from)
           others == Same(m, home) \ {e0}
           new == others \cup {e0}
<1>1. from \in Name /\ n \in Name /\ n # from
  BY DataStoreAssumption DEF Keys
<1>2. MemType(m)
  BY DEF Sound, FaithfulMem
<1>3. \A t \in Store, k \in Name : l.layer[t][k] = IF t = s /\ k = n THEN v ELSE m.layer[t][k]
  BY <1>1, <1>2, LinkWhere
<1>4. l.shared = (Detached(m, e0) \ {others}) \cup {new}
  BY DEF Link
<1>5. /\ Home(m, s, from) \in chain[s] /\ Home(m, s, from) \in Store
      /\ At(m, home) = v
  <2>1. v = m.layer[Home(m, s, from)][from] /\ Home(m, s, from) \in chain[s]
        /\ Home(m, s, from) \in Store
    BY <1>1, FoundAtHome
  <2> HIDE DEF v
  <2> QED
    BY <2>1 DEF At
<1>6. Faithful(v) /\ Once(v, high)
  BY <1>1, FoundOnce
<1>7. v # None
  BY <1>6, OnceIsVar
<1>8. FaithfulMem(l)
  BY <1>1, LinkFaithful DEF Sound
<1>9. home \in Entry /\ home # e0 /\ e0 \in Entry /\ home[2] = from /\ e0[2] = n
  BY <1>1, <1>5 DEF Entry
<1> HIDE DEF n, v, l, home, e0
<1>10. OnceMem(l, high) /\ Keeps(m, l)
  BY <1>3, <1>6, <1>7 DEF Sound, OnceMem, Keeps
<1>11. ASSUME NEW e \in Entry, e # e0 PROVE At(l, e) = At(m, e)
  <2>1. PICK t \in Store, k \in Name : e = <<t, k>>
    BY DEF Entry
  <2> QED
    BY <1>3, <1>11, <2>1 DEF At, e0
<1>12. At(l, e0) = v
  BY <1>1, <1>3 DEF At, e0
<1>13. \/ others = {home} /\ \A h \in m.shared : home \notin h
       \/ \E h \in m.shared : home \in h /\ others = h \ {e0}
  <2>1. CASE \A h \in m.shared : home \notin h
    <3>1. Same(m, home) = {home}
      BY <2>1 DEF Same
    <3> QED
      BY <1>9, <2>1, <3>1
  <2>2. ASSUME NEW h \in m.shared, home \in h PROVE Same(m, home) = h
    <3>1. \A g \in m.shared : home \in g => g = h
      BY <2>2 DEF Sound, Shared
    <3> QED
      BY <2>2, <3>1 DEF Same
  <2> QED
    BY <2>1, <2>2
<1>14. home \in others /\ e0 \notin others /\ new = others \cup {e0}
  BY <1>9, <1>13
<1> HIDE DEF others, new
<1>15. \A e \in others : e \in Entry /\ e # e0 /\ At(m, e) = v
  <2>1. CASE others = {home}
    BY <1>5, <1>9, <2>1
  <2>2. CASE \E h \in m.shared : home \in h /\ others = h \ {e0}
    <3>1. PICK h \in m.shared : home \in h /\ others = h \ {e0}
      BY <2>2
    <3>2. h \subseteq Entry /\ \A e \in h : At(m, e) = At(m, home)
      BY <3>1 DEF Sound, Shared
    <3> QED
      BY <1>5, <3>1, <3>2
  <2> QED
    BY <1>13, <2>1, <2>2
<1>16. ASSUME NEW g \in l.shared, g # new
       PROVE  \E h \in m.shared : g = h \ {e0} /\ Several(g) /\ g # others
  BY <1>4, <1>16 DEF Detached
<1>17. Several(new) /\ new \subseteq Entry /\ \A e \in new : At(l, e) = v
  <2>1. Several(new)
    BY <1>9, <1>14 DEF Several
  <2>2. \A e \in others : At(l, e) = v
    BY <1>11, <1>15
  <2> QED
    BY <1>9, <1>12, <1>14, <1>15, <2>1, <2>2
<1>18. ASSUME NEW g \in l.shared, g # new PROVE g \cap new = {}
  <2>1. PICK h \in m.shared : g = h \ {e0} /\ g # others
    BY <1>16, <1>18
  <2>2. CASE others = {home} /\ home \notin h
    BY <1>14, <2>1, <2>2
  <2>3. CASE \E h2 \in m.shared : home \in h2 /\ others = h2 \ {e0}
    <3>1. PICK h2 \in m.shared : others = h2 \ {e0}
      BY <2>3
    <3>2. h # h2
      BY <2>1, <3>1
    <3>3. h \cap h2 = {}
      BY <3>2 DEF Sound, Shared
    <3> QED
      BY <1>14, <2>1, <3>1, <3>3
  <2> QED
    BY <1>13, <2>2, <2>3
<1>19. ASSUME NEW g \in l.shared, g # new
       PROVE  /\ g \subseteq Entry /\ Several(g)
              /\ \A e, f \in g : At(l, e) = At(l, f)
              /\ \A g2 \in l.shared : g = g2 \/ g \cap g2 = {}
  <2>1. PICK h \in m.shared : g = h \ {e0} /\ Several(g)
    BY <1>16, <1>19
  <2>2. h \subseteq Entry /\ \A e, f \in h : At(m, e) = At(m, f)
    BY DEF Sound, Shared
  <2>3. ASSUME NEW e \in g, NEW f \in g PROVE At(l, e) = At(l, f)
    <3>1. e \in Entry /\ f \in Entry /\ e # e0 /\ f # e0 /\ At(m, e) = At(m, f)
      BY <2>1, <2>2
    <3> QED
      BY <1>11, <3>1
  <2>4. ASSUME NEW g2 \in l.shared PROVE g = g2 \/ g \cap g2 = {}
    <3>1. CASE g2 = new
      BY <1>18, <1>19, <3>1
    <3>2. CASE g2 # new
      <4>1. PICK h2 \in m.shared : g2 = h2 \ {e0}
        BY <1>16, <3>2
      <4>2. h = h2 \/ h \cap h2 = {}
        BY DEF Sound, Shared
      <4> QED
        BY <2>1, <4>1, <4>2
    <3> QED
      BY <3>1, <3>2
  <2> QED
    BY <2>1, <2>2, <2>3, <2>4
<1>20. Shared(l)
  <2>1. ASSUME NEW g2 \in l.shared PROVE new = g2 \/ new \cap g2 = {}
    BY <1>18
  <2> QED
    BY <1>17, <1>19, <2>1 DEF Shared
<1>21. SharedByBases(l)
  <2>1. \E o \in Name : \A e \in new : e[2] \in Bases(o)
    <3>1. CASE others = {home}
      <4>1. from \in Bases(from)
        BY <1>1, BasesOfName
      <4>2. n \in Bases(from)
        BY <1>1, <4>1, BasesGoOn DEF n
      <4> QED
        BY <1>1, <1>9, <1>14, <3>1, <4>1, <4>2
    <3>2. CASE \E h \in m.shared : home \in h /\ others = h \ {e0}
      <4>1. PICK h \in m.shared : home \in h /\ others = h \ {e0}
        BY <3>2
      <4>2. PICK o \in Name : \A e \in h : e[2] \in Bases(o)
        BY DEF Sound, SharedByBases
      <4>3. from \in Bases(o)
        BY <1>9, <4>1, <4>2
      <4>4. n \in Bases(o)
        BY <4>3, BasesGoOn DEF n
      <4> QED
        BY <1>9, <1>14, <4>1, <4>2, <4>4
    <3> QED
      BY <1>13, <3>1, <3>2
  <2>2. ASSUME NEW g \in l.shared, g # new PROVE \E o \in Name : \A e \in g : e[2] \in Bases(o)
    <3>1. PICK h \in m.shared : g = h \ {e0}
      BY <1>16, <2>2
    <3>2. PICK o \in Name : \A e \in h : e[2] \in Bases(o)
      BY DEF Sound, SharedByBases
    <3> QED
      BY <3>1, <3>2
  <2> QED
    BY <2>1, <2>2 DEF SharedByBases
<1>22. Born(l)
  <2>1. ASSUME NEW t \in Store, chain[t] = {}
        PROVE  Unshared(l, t) /\ \A k \in Name : l.layer[t][k] = None
    <3>1. Unshared(m, t) /\ \A k \in Name : m.layer[t][k] = None
      BY <2>1 DEF Sound, Born
    <3>2. t # s
      BY <2>1
    <3>3. t # Home(m, s, from)
      BY <1>5, <2>1 DEF Chains
    <3>4. \A e \in others : e[1] # t
      <4>1. home[1] # t
        BY <3>3 DEF home
      <4> QED
        BY <1>13, <3>1, <4>1 DEF Unshared
    <3>5. e0[1] # t
      BY <3>2 DEF e0
    <3>6. \A e \in new : e[1] # t
      BY <1>14, <3>4, <3>5
    <3>7. \A g \in l.shared : g # new => \A e \in g : e[1] # t
      BY <1>16, <3>1 DEF Unshared
    <3>8. Unshared(l, t)
      BY <3>6, <3>7 DEF Unshared
    <3> QED
      BY <1>3, <3>1, <3>2, <3>8
  <2> QED
    BY <2>1 DEF Born
<1> QED
  BY <1>8, <1>10, <1>20, <1>21, <1>22 DEF Sound, l, n

(* What is in a list,                                                      *)
LEMMA DistinctBound ==
    ASSUME NEW S, NEW l, Distinct(l, S)
    PROVE  ToSet(l) \subseteq S
<1>1. \A i \in DOMAIN l : l[i] \in S
  BY DEF Distinct
<1> QED
  BY <1>1 DEF ToSet

(* and of an object.                                                       *)
LEMMA HeldBound ==
    ASSUME NEW high \in Nat, NEW v, Once(v, high)
    PROVE  Held(v) \subseteq 1 .. high
<1>1. /\ ToSet(Text(v.content)) \subseteq Texts(high)
      /\ ToSet(PiecesOf(v.append)) \subseteq 1 .. high
      /\ ToSet(PiecesOf(v.prepend)) \subseteq 1 .. high
  BY DistinctBound DEF Once, OnceParts
<1> QED
  BY <1>1 DEF Held, Texts

(* New content, of pieces that are not pending.                            *)
LEMMA ContentOnce ==
    ASSUME NEW high \in Nat, NEW v, Faithful(v), Once(v, high), NEW content, NEW w,
           w = [content |-> content, append |-> v.append, prepend |-> v.prepend,
                flags |-> Exported(v.flags)],
           Distinct(Text(content), Texts(high)),
           Apart(Text(content), PiecesOf(v.append)), Apart(Text(content), PiecesOf(v.prepend))
    PROVE  /\ Faithful(w) /\ Once(w, high)
           /\ w.content = content /\ w.append = v.append /\ w.prepend = v.prepend
           /\ Held(w) \subseteq Held(v) \cup (ToSet(Text(content)) \ Name)
<1>1. Faithful(w)
  <2>1. Exported(v.flags) \in SUBSET Flag /\ "matchesenv" \notin Exported(v.flags)
    BY ExportedHasNoMatch DEF Faithful
  <2> QED
    BY <2>1 DEF Faithful
<1>2. w.content = content /\ w.append = v.append /\ w.prepend = v.prepend
  OBVIOUS
<1>3. Once(w, high)
  BY <1>2 DEF Once, OnceParts
<1>4. Held(w) \subseteq Held(v) \cup (ToSet(Text(content)) \ Name)
  BY <1>2 DEF Held
<1> QED
  BY <1>1, <1>2, <1>3, <1>4

(* The content that a setVar gives.                                        *)
LEMMA TextOfOne ==
    ASSUME NEW high, NEW p \in Texts(high)
    PROVE  Distinct(Text(<<p>>), Texts(high)) /\ ToSet(Text(<<p>>)) \subseteq {p}
<1>1. CASE <<p>> = None
  <2>1. Text(<<p>>) = <<>>
    BY <1>1 DEF Text
  <2> QED
    BY <2>1, NoneDistinct
<1>2. CASE <<p>> # None
  <2>1. Text(<<p>>) = <<p>>
    BY <1>2 DEF Text
  <2> QED
    BY <2>1, OneDistinct
<1> QED
  BY <1>1, <1>2

(* Sequences as functions.                                                 *)
LEMMA SeqIs ==
    ASSUME NEW S, NEW l \in Seq(S)
    PROVE  l = [i \in 1 .. Len(l) |-> l[i]]
  OBVIOUS

(* The function that Append gives,                                         *)
LEMMA AppendIs ==
    ASSUME NEW S, NEW l \in Seq(S), NEW q \in S
    PROVE  Append(l, q) = [i \in 1 .. Len(l) + 1 |-> IF i = Len(l) + 1 THEN q ELSE l[i]]
<1> DEFINE b == Append(l, q)
<1>1. /\ b \in Seq(S) /\ Len(b) = Len(l) + 1 /\ Len(l) \in Nat
      /\ b[Len(l) + 1] = q /\ \A i \in 1 .. Len(l) : b[i] = l[i]
  OBVIOUS
<1> HIDE DEF b
<1>2. b = [i \in 1 .. Len(b) |-> b[i]]
  BY <1>1, SeqIs, Zenon
<1>3. \A i \in 1 .. Len(b) : b[i] = IF i = Len(l) + 1 THEN q ELSE l[i]
  BY <1>1
<1>4. b = [i \in 1 .. Len(l) + 1 |-> IF i = Len(l) + 1 THEN q ELSE l[i]]
  BY <1>1, <1>2, <1>3
<1> QED
  BY <1>4 DEF b

(* and the one that \o gives.                                              *)
LEMMA CatIs ==
    ASSUME NEW S, NEW a \in Seq(S), NEW b \in Seq(S)
    PROVE  a \o b = [i \in 1 .. Len(a) + Len(b) |-> IF i <= Len(a) THEN a[i] ELSE b[i - Len(a)]]
<1> DEFINE c == a \o b
<1>1. /\ c \in Seq(S) /\ Len(c) = Len(a) + Len(b)
      /\ \A i \in 1 .. Len(a) + Len(b) : c[i] = IF i <= Len(a) THEN a[i] ELSE b[i - Len(a)]
  OBVIOUS
<1> HIDE DEF c
<1>2. c = [i \in 1 .. Len(c) |-> c[i]]
  BY <1>1, SeqIs, Zenon
<1>3. c = [i \in 1 .. Len(a) + Len(b) |-> IF i <= Len(a) THEN a[i] ELSE b[i - Len(a)]]
  BY <1>1, <1>2
<1> QED
  BY <1>3 DEF c

(* The pieces of a list are a list of pieces.                              *)
LEMMA PiecesOfPending ==
    ASSUME NEW list \in Seq(Pending)
    PROVE  PiecesOf(list) \in Seq(Piece)
<1>1. \A i \in 1 .. Len(list) : list[i] \in Pending
  OBVIOUS
<1>2. \A p \in Pending : p.piece \in Piece
  BY DEF Pending
<1>3. \A i \in 1 .. Len(list) : list[i].piece \in Piece
  BY <1>1, <1>2
<1> QED
  BY <1>3 DEF PiecesOf

(* One piece more is pending.                                              *)
LEMMA PendingOnce ==
    ASSUME NEW high \in Nat, NEW list \in Seq(Pending), Distinct(PiecesOf(list), 1 .. high),
           NEW p \in Pending, p.piece \in 1 .. high, p.piece \notin ToSet(PiecesOf(list))
    PROVE  /\ Append(list, p) \in Seq(Pending)
           /\ Distinct(PiecesOf(Append(list, p)), 1 .. high)
           /\ ToSet(PiecesOf(Append(list, p))) = ToSet(PiecesOf(list)) \cup {p.piece}
<1> DEFINE l == PiecesOf(list)
           q == p.piece
<1>1. PiecesOf(Append(list, p)) = Append(l, q)
  <2> DEFINE b == Append(list, p)
             n == Len(list)
  <2>1. n \in Nat /\ Len(b) = n + 1 /\ b[n + 1] = p /\ \A i \in 1 .. n : b[i] = list[i]
    OBVIOUS
  <2>2. l = [i \in 1 .. n |-> list[i].piece]
    BY DEF PiecesOf
  <2>3. PiecesOf(b) = [i \in 1 .. n + 1 |-> b[i].piece]
    BY <2>1 DEF PiecesOf
  <2> HIDE DEF b, n
  <2>4. l \in Seq(1 .. high)
    BY DEF Distinct
  <2> HIDE DEF l
  <2>5. Len(l) = n /\ \A i \in 1 .. n : l[i] = list[i].piece
    BY <2>1, <2>2
  <2>6. Append(l, q) = [i \in 1 .. n + 1 |-> IF i = n + 1 THEN q ELSE l[i]]
    <3> DEFINE S == 1 .. high
    <3>1. q \in S /\ l \in Seq(S)
      BY <2>4
    <3> HIDE DEF q, S
    <3>2. Append(l, q) = [i \in 1 .. Len(l) + 1 |-> IF i = Len(l) + 1 THEN q ELSE l[i]]
      BY <3>1, AppendIs
    <3> QED
      BY <2>5, <3>2
  <2>7. \A i \in 1 .. n + 1 : b[i].piece = IF i = n + 1 THEN q ELSE l[i]
    BY <2>1, <2>5
  <2>8. PiecesOf(b) = Append(l, q)
    BY <2>3, <2>6, <2>7
  <2> QED
    BY <2>8 DEF b
<1>2. Append(list, p) \in Seq(Pending)
  OBVIOUS
<1>3. Distinct(Append(l, q), 1 .. high) /\ ToSet(Append(l, q)) = ToSet(l) \cup {q}
  <2> HIDE DEF l, q
  <2> QED
    BY DistinctAppend DEF l, q
<1> QED
  BY <1>1, <1>2, <1>3

(* The pieces of two lists, one after the other.                           *)
LEMMA PiecesOfCat ==
    ASSUME NEW a \in Seq(Pending), NEW b \in Seq(Pending)
    PROVE  PiecesOf(a \o b) = PiecesOf(a) \o PiecesOf(b)
<1> DEFINE n == Len(a)
           k == Len(b)
           c == a \o b
           pa == PiecesOf(a)
           pb == PiecesOf(b)
<1>1. /\ n \in Nat /\ k \in Nat /\ Len(c) = n + k
      /\ \A i \in 1 .. n + k : c[i] = IF i <= n THEN a[i] ELSE b[i - n]
  OBVIOUS
<1>2. pa = [i \in 1 .. n |-> a[i].piece] /\ pb = [i \in 1 .. k |-> b[i].piece]
  BY DEF PiecesOf
<1>3. PiecesOf(c) = [i \in 1 .. n + k |-> c[i].piece]
  BY <1>1 DEF PiecesOf
<1>4. pa \in Seq(Piece) /\ pb \in Seq(Piece)
  BY PiecesOfPending
<1> HIDE DEF n, k, c, pa, pb
<1>5. Len(pa) = n /\ Len(pb) = k
  BY <1>1, <1>2
<1>6. pa \o pb = [i \in 1 .. Len(pa) + Len(pb) |->
                    IF i <= Len(pa) THEN pa[i] ELSE pb[i - Len(pa)]]
  BY <1>4, CatIs, Zenon
<1>7. pa \o pb = [i \in 1 .. n + k |-> IF i <= n THEN pa[i] ELSE pb[i - n]]
  BY <1>5, <1>6
<1>8. \A i \in 1 .. n + k : c[i].piece = (IF i <= n THEN pa[i] ELSE pb[i - n])
  <2> SUFFICES ASSUME NEW i \in 1 .. n + k PROVE c[i].piece = (IF i <= n THEN pa[i] ELSE pb[i - n])
    OBVIOUS
  <2>1. CASE i <= n
    BY <1>1, <1>2, <2>1
  <2>2. CASE ~(i <= n)
    <3>1. i - n \in 1 .. k
      BY <1>1, <2>2
    <3> QED
      BY <1>1, <1>2, <2>2, <3>1
  <2> QED
    BY <2>1, <2>2
<1> QED
  BY <1>3, <1>7, <1>8 DEF c, pa, pb

-----------------------------------------------------------------------------
(* Where pieces come from.  A piece is set under one name, origin[p], and  *)
(* update_data brings it to the bases of that name; expandKeys, which runs *)
(* once in a store, to what one of these expands to.                       *)
FromVersion(m, origin, s, n) ==
    m.layer[s][n] # None =>
        \A p \in Held(m.layer[s][n]) : origin[p] \in Name /\ n \in Bases(origin[p])

(* After the turn for a name: from the name, or expanded from it.          *)
FromExpanded(m, origin, s, n, todo) ==
    m.layer[s][n] # None =>
        \A p \in Held(m.layer[s][n]) :
            origin[p] \in Name /\ \E k \in Bases(origin[p]) \ todo : n \in {k, Expanded[k]}

(* A store in which nothing was expanded,                                  *)
Unexpanded(m, origin, s) == \A n \in Name : FromVersion(m, origin, s, n)

(* and one in which the names in todo were not.                            *)
Expanding(m, origin, s, todo) ==
    \A n \in Name : IF n \in todo THEN FromVersion(m, origin, s, n)
                    ELSE FromExpanded(m, origin, s, n, todo)

(* What is found comes from where it is found.                             *)
LEMMA FoundUnexpanded ==
    ASSUME NEW m, Chains, NEW s \in Store, NEW n \in Name, NEW origin,
           \A u \in chain[s] : Unexpanded(m, origin, u), NEW p \in Held(Found(m, s, n))
    PROVE  origin[p] \in Name /\ n \in Bases(origin[p])
<1>1. CASE n \in Keys(m, s)
  <2>1. PICK u \in chain[s] : m.layer[u][n] # None /\ Found(m, s, n) = m.layer[u][n]
    BY <1>1, FoundAtHome
  <2> QED
    BY <2>1 DEF Unexpanded, FromVersion
<1>2. CASE n \notin Keys(m, s)
  BY <1>2, NoVarOnce DEF Found, Keys
<1> QED
  BY <1>1, <1>2

(* A change brings pieces from the object it changes, or new ones.         *)
LEMMA ChangeUnexpanded ==
    ASSUME NEW high \in Nat, high <= MaxPieces, NEW m, Sound(m, high), Chains,
           NEW s \in Store, chain[s] # {}, NEW n \in Name, NEW v, NEW origin,
           NEW t \in Store, Unexpanded(m, origin, t),
           t = s => \A u \in chain[s] : Unexpanded(m, origin, u),
           \A p \in Held(v) : \/ p \in Held(Found(m, s, n))
                              \/ /\ origin[p] \in Name
                                 /\ \A e \in Same(Shadow(m, s, n), <<s, n>>) : e[2] \in Bases(origin[p])
    PROVE  Unexpanded(Change(m, s, n, v), origin, t)
<1> DEFINE c == Change(m, s, n, v)
<1>1. PICK same \in SUBSET Entry :
        /\ same = Same(Shadow(m, s, n), <<s, n>>)
        /\ \A x \in Store, k \in Name : c.layer[x][k] =
                IF <<x, k>> \in same THEN v ELSE m.layer[x][k]
        /\ \A e \in same : e # <<s, n>> => At(m, e) = Found(m, s, n) /\ m.layer[s][n] # None
  BY ChangeWhere
<1> HIDE DEF c
<1> SUFFICES ASSUME NEW k \in Name, c.layer[t][k] # None, NEW p \in Held(c.layer[t][k])
             PROVE  origin[p] \in Name /\ k \in Bases(origin[p])
  BY DEF Unexpanded, FromVersion, c
<1>2. CASE <<t, k>> \notin same
  <2>1. c.layer[t][k] = m.layer[t][k]
    BY <1>1, <1>2
  <2> QED
    BY <2>1 DEF Unexpanded, FromVersion
<1>3. CASE <<t, k>> \in same
  <2>1. p \in Held(v)
    BY <1>1, <1>3
  <2>2. CASE origin[p] \in Name /\ \A e \in same : e[2] \in Bases(origin[p])
    BY <1>3, <2>2
  <2>3. CASE p \in Held(Found(m, s, n)) /\ <<t, k>> # <<s, n>>
    <3>1. At(m, <<t, k>>) = Found(m, s, n) /\ m.layer[s][n] # None
      BY <1>1, <1>3, <2>3
    <3>2. Found(m, s, n) = m.layer[s][n]
      BY <3>1, FoundOwn
    <3>3. m.layer[t][k] # None /\ p \in Held(m.layer[t][k])
      BY <2>3, <3>1, <3>2 DEF At
    <3> QED
      BY <3>3 DEF Unexpanded, FromVersion
  <2>4. CASE p \in Held(Found(m, s, n)) /\ <<t, k>> = <<s, n>>
    <3>1. t = s /\ k = n
      BY <2>4
    <3> QED
      BY <2>4, <3>1, FoundUnexpanded
  <2> QED
    BY <1>1, <2>1, <2>2, <2>3, <2>4
<1> QED
  BY <1>2, <1>3

(* Sharing does not come to a store by a change of one of its names.       *)
LEMMA ChangeUnshared ==
    ASSUME NEW high \in Nat, high <= MaxPieces, NEW m, Sound(m, high), Chains,
           NEW s \in Store, chain[s] # {}, NEW n \in Name, NEW v, Unshared(m, s)
    PROVE  Unshared(Change(m, s, n, v), s)
<1>1. Unshared(Shadow(m, s, n), s)
  BY ShadowSound
<1>2. Change(m, s, n, v).shared = Shadow(m, s, n).shared
  BY DEF Change
<1> QED
  BY <1>1, <1>2 DEF Unshared

(* In a store that shares nothing a change is seen under one name.         *)
LEMMA ChangeAlone ==
    ASSUME NEW high \in Nat, high <= MaxPieces, NEW m, Sound(m, high), Chains,
           NEW s \in Store, chain[s] # {}, NEW n \in Name, NEW v, Unshared(m, s)
    PROVE  \A t \in Store, k \in Name :
              Change(m, s, n, v).layer[t][k] = IF t = s /\ k = n THEN v ELSE m.layer[t][k]
<1> DEFINE c == Change(m, s, n, v)
<1>1. PICK same \in SUBSET Entry :
        /\ same = Same(Shadow(m, s, n), <<s, n>>) /\ <<s, n>> \in same
        /\ \A t \in Store, k \in Name : c.layer[t][k] =
                IF <<t, k>> \in same THEN v ELSE m.layer[t][k]
        /\ Unshared(m, s) => same = {<<s, n>>}
  BY ChangeWhere
<1> HIDE DEF c
<1>2. \A t \in Store, k \in Name :
        c.layer[t][k] = IF t = s /\ k = n THEN v ELSE m.layer[t][k]
  BY <1>1
<1> QED
  BY <1>2 DEF c

(* Neither does it come by a new object.                                   *)
LEMMA PutUnshared ==
    ASSUME NEW high \in Nat, NEW m, Sound(m, high), NEW s \in Store, NEW n \in Name, NEW v,
           Unshared(m, s)
    PROVE  Unshared(Put(m, s, n, v), s)
<1>1. \A g \in Put(m, s, n, v).shared : \E h \in m.shared : g = h \ {<<s, n>>}
  BY PutShared DEF Sound, FaithfulMem
<1> QED
  BY <1>1 DEF Unshared

-----------------------------------------------------------------------------
(* A turn of expandKeys: what the two names hold has no piece in common.   *)
LEMMA ExpandedIs ==
    ASSUME NEW high \in Nat, high <= MaxPieces, NEW m, Sound(m, high), Chains,
           NEW s \in Store, chain[s] # {}, Unshared(m, s), NEW n \in Name, Expanded[n] # n,
           Held(Found(m, s, n)) \cap Held(Found(m, s, Expanded[n])) = {}
    PROVE  \/ ExpandedKey(m, s, n) = m
           \/ \E w : LET r == ExpandedKey(m, s, n)
                     IN  /\ Sound(r, high) /\ Keeps(m, r) /\ Unshared(r, s)
                         /\ \A t \in Store, k \in Name : r.layer[t][k] =
                                IF t = s /\ k = n THEN NoVar
                                ELSE IF t = s /\ k = Expanded[n] THEN w
                                ELSE m.layer[t][k]
                         /\ Held(w) \subseteq Held(Found(m, s, n)) \cup Held(Found(m, s, Expanded[n]))
<1> DEFINE from == Found(m, s, n)
           to == Expanded[n]
           old == Found(m, s, to)
           w1 == [old EXCEPT !.content = from.content, !.flags = Exported(@)]
           set == SetContent(m, s, to, from.content)
           v == Found(set, s, to)
           append == w1.append \o from.append
           prepend == w1.prepend \o from.prepend
           w2 == [w1 EXCEPT !.append = append, !.prepend = prepend]
           moved == Change(set, s, to, w2)
           r == Put(moved, s, n, NoVar)
<1>1. to \in Name /\ to # n
  BY DataStoreAssumption
<1>2. Faithful(from) /\ Once(from, high) /\ Faithful(old) /\ Once(old, high)
  BY <1>1, FoundOnce
<1>3. /\ ToSet(PiecesOf(old.append)) \subseteq Held(old)
      /\ ToSet(PiecesOf(old.prepend)) \subseteq Held(old)
      /\ ToSet(PiecesOf(from.append)) \subseteq Held(from)
      /\ ToSet(PiecesOf(from.prepend)) \subseteq Held(from)
      /\ ToSet(Text(from.content)) \subseteq Held(from) \cup Name
      /\ Held(old) \cap Name = {}
  <2>1. ASSUME NEW x, Once(x, high)
        PROVE  /\ ToSet(PiecesOf(x.append)) \subseteq Held(x)
               /\ ToSet(PiecesOf(x.prepend)) \subseteq Held(x)
               /\ ToSet(Text(x.content)) \subseteq Held(x) \cup Name
               /\ Held(x) \cap Name = {}
    <3>1. /\ ToSet(PiecesOf(x.append)) \subseteq 1 .. high
          /\ ToSet(PiecesOf(x.prepend)) \subseteq 1 .. high
      BY <2>1, DistinctBound DEF Once, OnceParts
    <3> QED
      BY <3>1, NamesAreNoNumbers DEF Held
  <2> HIDE DEF from, old
  <2> QED
    BY <1>2, <2>1
<1>4. Held(from) \cap Held(old) = {}
  OBVIOUS
<1> HIDE DEF from, old, to
<1>5. /\ Faithful(w1) /\ Once(w1, high)
      /\ w1.content = from.content /\ w1.append = old.append /\ w1.prepend = old.prepend
  <2>1. Distinct(Text(from.content), Texts(high))
    BY <1>2 DEF Once, OnceParts
  <2>2. /\ Apart(Text(from.content), PiecesOf(old.append))
        /\ Apart(Text(from.content), PiecesOf(old.prepend))
    BY <1>3, <1>4 DEF Apart
  <2>3. w1 = [content |-> from.content, append |-> old.append, prepend |-> old.prepend,
              flags |-> Exported(old.flags)]
    BY <1>2, WithContentIs
  <2> HIDE DEF w1
  <2> QED
    BY <1>2, <2>1, <2>2, <2>3, ContentOnce
<1>6. set = Change(m, s, to, w1)
  BY DEF SetContent, old
<1> HIDE DEF set, w1
<1>7. Sound(set, high) /\ Keeps(m, set) /\ Unshared(set, s)
  BY <1>1, <1>5, <1>6, ChangeSound, ChangeUnshared
<1>9. \A t \in Store, k \in Name :
        set.layer[t][k] = IF t = s /\ k = to THEN w1 ELSE m.layer[t][k]
  BY <1>1, <1>6, ChangeAlone
<1>10. v = w1
  <2>1. set.layer[s][to] = w1 /\ w1 # None
    BY <1>1, <1>5, <1>9, OnceIsVar
  <2> QED
    BY <1>1, <2>1, FoundOwn
<1>11. /\ append \in Seq(Pending) /\ Distinct(PiecesOf(append), 1 .. high)
       /\ ToSet(PiecesOf(append)) = ToSet(PiecesOf(old.append)) \cup ToSet(PiecesOf(from.append))
       /\ prepend \in Seq(Pending) /\ Distinct(PiecesOf(prepend), 1 .. high)
       /\ ToSet(PiecesOf(prepend)) = ToSet(PiecesOf(old.prepend)) \cup ToSet(PiecesOf(from.prepend))
  <2>1. ASSUME NEW a \in Seq(Pending), NEW b \in Seq(Pending),
               Distinct(PiecesOf(a), 1 .. high), Distinct(PiecesOf(b), 1 .. high),
               Apart(PiecesOf(a), PiecesOf(b))
        PROVE  /\ a \o b \in Seq(Pending) /\ Distinct(PiecesOf(a \o b), 1 .. high)
               /\ ToSet(PiecesOf(a \o b)) = ToSet(PiecesOf(a)) \cup ToSet(PiecesOf(b))
    <3>1. PiecesOf(a \o b) = PiecesOf(a) \o PiecesOf(b)
      BY PiecesOfCat
    <3>2. a \o b \in Seq(Pending)
      OBVIOUS
    <3> QED
      BY <2>1, <3>1, <3>2, DistinctCat
  <2>2. Apart(PiecesOf(old.append), PiecesOf(from.append))
    BY <1>3, <1>4 DEF Apart
  <2>3. Apart(PiecesOf(old.prepend), PiecesOf(from.prepend))
    BY <1>3, <1>4 DEF Apart
  <2>4. append = old.append \o from.append /\ prepend = old.prepend \o from.prepend
    BY <1>5
  <2> HIDE DEF append, prepend
  <2> QED
    BY <1>2, <2>1, <2>2, <2>3, <2>4 DEF Once, OnceParts
<1> HIDE DEF append, prepend
<1>12. /\ Faithful(w2)
       /\ w2.content = from.content /\ w2.append = append /\ w2.prepend = prepend
  <2>1. Faithful(w2)
    BY <1>5, <1>11, WithListsFaithful
  <2>2. w2 = [content |-> w1.content, append |-> append, prepend |-> prepend, flags |-> w1.flags]
    <3>1. Faithful(w1)
      BY <1>5
    <3> QED
      BY <3>1, WithListsIs
  <2> HIDE DEF w2
  <2> QED
    BY <1>5, <2>1, <2>2
<1> HIDE DEF w2
<1>13. Once(w2, high)
  <2>1. Distinct(Text(from.content), Texts(high))
    BY <1>2 DEF Once, OnceParts
  <2>2. /\ Apart(Text(from.content), PiecesOf(from.append))
        /\ Apart(Text(from.content), PiecesOf(from.prepend))
        /\ Apart(PiecesOf(from.append), PiecesOf(from.prepend))
        /\ Apart(PiecesOf(old.append), PiecesOf(old.prepend))
    BY <1>2 DEF Once, OnceParts
  <2>3. Apart(Text(from.content), PiecesOf(append)) /\ Apart(Text(from.content), PiecesOf(prepend))
    BY <1>3, <1>4, <1>11, <2>2 DEF Apart
  <2>4. Apart(PiecesOf(append), PiecesOf(prepend))
    BY <1>3, <1>4, <1>11, <2>2 DEF Apart
  <2> QED
    BY <1>11, <1>12, <2>1, <2>3, <2>4 DEF Once, OnceParts
<1>14. Held(w2) \subseteq Held(from) \cup Held(old)
  BY <1>3, <1>11, <1>12 DEF Held
<1>15. Sound(moved, high) /\ Keeps(set, moved) /\ Unshared(moved, s)
  BY <1>1, <1>7, <1>12, <1>13, ChangeSound, ChangeUnshared
<1>16. \A t \in Store, k \in Name :
         moved.layer[t][k] = IF t = s /\ k = to THEN w2 ELSE set.layer[t][k]
  BY <1>1, <1>7, ChangeAlone
<1> HIDE DEF moved
<1>17. Sound(r, high) /\ Keeps(moved, r) /\ Unshared(r, s)
  BY <1>15, NoVarFaithful, NoVarOnce, PutSound, PutUnshared
<1>18. \A t \in Store, k \in Name :
         r.layer[t][k] = IF t = s /\ k = n THEN NoVar ELSE moved.layer[t][k]
  BY <1>15, PutWhere DEF Sound, FaithfulMem
<1>19. ExpandedKey(m, s, n) = m \/ ExpandedKey(m, s, n) = r
  <2>1. [v EXCEPT !.append = @ \o from.append, !.prepend = @ \o from.prepend] = w2
    <3>1. [v EXCEPT !.append = @ \o from.append, !.prepend = @ \o from.prepend]
            = [v EXCEPT !.append = v.append \o from.append, !.prepend = v.prepend \o from.prepend]
      <4>1. PICK c, a, p, f : v = [content |-> c, append |-> a, prepend |-> p, flags |-> f]
        BY <1>5, <1>10 DEF Faithful
      <4> HIDE DEF v
      <4> QED
        BY <4>1
    <3> HIDE DEF v
    <3> QED
      BY <1>10, <3>1 DEF w2, append, prepend
  <2> QED
    BY <2>1 DEF ExpandedKey, Emptied, r, moved, set, from, to, v
<1> HIDE DEF r
<1>20. \A t \in Store, k \in Name : r.layer[t][k] =
            IF t = s /\ k = n THEN NoVar
            ELSE IF t = s /\ k = to THEN w2 ELSE m.layer[t][k]
  BY <1>9, <1>16, <1>18
<1>21. Keeps(m, r)
  BY <1>7, <1>15, <1>17 DEF Keeps
<1> QED
  BY <1>14, <1>17, <1>19, <1>20, <1>21 DEF to, from, old

(* A turn of inheritFromOS, on the configuration.                          *)
LEMMA InheritedSound ==
    ASSUME NEW high \in Nat, high <= MaxPieces, NEW m, Sound(m, high), Chains,
           NEW s \in Store, chain[s] = {s}, NEW n \in Name, NEW origin, Unexpanded(m, origin, s)
    PROVE  /\ Sound(InheritedKey(m, s, n), high) /\ Keeps(m, InheritedKey(m, s, n))
           /\ Unexpanded(InheritedKey(m, s, n), origin, s)
<1> DEFINE old == Found(m, s, n)
           w == [old EXCEPT !.content = <<n>>, !.flags = Exported(@)]
           set == SetContent(m, s, n, <<n>>)
           v == Found(set, s, n)
           x == [v EXCEPT !.flags = @ \cup {"matchesenv"}]
           r == Change(set, s, n, x)
<1>1. chain[s] # {} /\ Faithful(old) /\ Once(old, high)
  BY FoundOnce
<1>2. /\ Faithful(w) /\ Once(w, high) /\ Held(w) \subseteq Held(old)
      /\ w.content = <<n>> /\ w.append = old.append /\ w.prepend = old.prepend
  <2>1. Distinct(Text(<<n>>), Texts(high)) /\ ToSet(Text(<<n>>)) \subseteq {n}
    BY TextOfOne DEF Texts
  <2>2. ToSet(PiecesOf(old.append)) \subseteq 1 .. high /\ ToSet(PiecesOf(old.prepend)) \subseteq 1 .. high
    BY <1>1, DistinctBound DEF Once, OnceParts
  <2>3. /\ Apart(Text(<<n>>), PiecesOf(old.append))
        /\ Apart(Text(<<n>>), PiecesOf(old.prepend))
    BY <2>1, <2>2, NamesAreNoNumbers DEF Apart
  <2>4. w = [content |-> <<n>>, append |-> old.append, prepend |-> old.prepend,
             flags |-> Exported(old.flags)]
    BY <1>1, WithContentIs
  <2> HIDE DEF w, old
  <2>5. Held(w) \subseteq Held(old) \cup (ToSet(Text(<<n>>)) \ Name)
    BY <1>1, <2>1, <2>3, <2>4, ContentOnce
  <2>6. Held(w) \subseteq Held(old)
    BY <2>1, <2>5
  <2> QED
    BY <1>1, <2>1, <2>3, <2>4, <2>6, ContentOnce
<1>3. set = Change(m, s, n, w)
  BY DEF SetContent
<1> HIDE DEF w, set
<1>4. Sound(set, high) /\ Keeps(m, set)
  BY <1>1, <1>2, <1>3, ChangeSound
<1>5. Unexpanded(set, origin, s)
  BY <1>1, <1>2, <1>3, ChangeUnexpanded
<1>6. w # None
  BY <1>2, OnceIsVar
<1>7. v = w
  BY <1>1, <1>2, <1>3, <1>6, FoundAfterChange DEF Sound
<1> HIDE DEF v, old
<1>8. x = [content |-> <<n>>, append |-> v.append, prepend |-> v.prepend,
           flags |-> v.flags \cup {"matchesenv"}]
  <2>1. PICK c, a, p, f : v = [content |-> c, append |-> a, prepend |-> p, flags |-> f]
    BY <1>2, <1>7 DEF Faithful
  <2>2. c = <<n>>
    BY <1>2, <1>7, <2>1
  <2> QED
    BY <2>1, <2>2
<1> HIDE DEF x
<1>9. Faithful(x)
  BY <1>2, <1>7, <1>8 DEF Faithful, Flag
<1>10. x.content = v.content /\ x.append = v.append /\ x.prepend = v.prepend
  BY <1>2, <1>7, <1>8
<1>11. Once(x, high) /\ Held(x) = Held(v)
  BY <1>2, <1>7, <1>10 DEF Once, Held
<1>12. Sound(r, high) /\ Keeps(set, r)
  BY <1>1, <1>4, <1>9, <1>11, ChangeSound
<1>13. Unexpanded(r, origin, s)
  <2>1. v = Found(set, s, n)
    BY DEF v
  <2> QED
    BY <1>1, <1>4, <1>5, <1>11, <2>1, ChangeUnexpanded
<1>14. InheritedKey(m, s, n) = r
  BY DEF InheritedKey, r, x, v, set
<1> HIDE DEF r
<1>15. Keeps(m, r)
  BY <1>4, <1>12 DEF Keeps
<1> QED
  BY <1>12, <1>13, <1>14, <1>15

(* A turn of update_data.                                                  *)
LEMMA UpdatedSound ==
    ASSUME NEW high \in Nat, high <= MaxPieces, NEW m, Sound(m, high), Chains, 1 \in Store, chain[1] = {1},
           NEW s \in Store, chain[s] # {}, NEW n \in Keys(m, s), NEW origin, Unexpanded(m, origin, 1)
    PROVE  /\ Sound(UpdatedKey(m, s, n), high) /\ Keeps(m, UpdatedKey(m, s, n))
           /\ Unexpanded(UpdatedKey(m, s, n), origin, 1)
<1> DEFINE named == ApplyOverrides(m, s, n)
           v == Found(named, s, n)
           new == WithPending(v, Active(s))
           r == Change(named, s, n, new)
<1>1. n \in Name /\ MemType(m) /\ Keeps(m, m)
  BY DEF Keys, Sound, FaithfulMem, Keeps
<1>2. Sound(named, high) /\ Keeps(m, named) /\ Unexpanded(named, origin, 1)
  <2>1. CASE Base[n] # None /\ Cond[n] \in Active(s)
    <3>1. named = Link(m, s, Base[n], n) /\ Base[n] \in Name
      BY <1>1, <2>1, DataStoreAssumption DEF ApplyOverrides
    <3> HIDE DEF named
    <3>2. Sound(named, high) /\ Keeps(m, named)
      BY <2>1, <3>1, LinkSound
    <3>3. \A t \in Store, k \in Name : named.layer[t][k] =
              IF t = s /\ k = Base[n] THEN Found(m, s, n) ELSE m.layer[t][k]
      BY <1>1, <3>1, LinkWhere
    <3>4. ASSUME NEW k \in Name, named.layer[1][k] # None, NEW p \in Held(named.layer[1][k])
          PROVE  origin[p] \in Name /\ k \in Bases(origin[p])
      <4>1. CASE ~(1 = s /\ k = Base[n])
        <5>1. named.layer[1][k] = m.layer[1][k]
          BY <3>3, <4>1
        <5> QED
          BY <3>4, <5>1 DEF Unexpanded, FromVersion
      <4>2. CASE 1 = s /\ k = Base[n]
        <5>1. p \in Held(Found(m, s, n)) /\ chain[s] = {1}
          BY <3>3, <3>4, <4>2
        <5>2. origin[p] \in Name /\ n \in Bases(origin[p])
          BY <1>1, <5>1, FoundUnexpanded
        <5> QED
          BY <2>1, <4>2, <5>2, BasesGoOn
      <4> QED
        BY <4>1, <4>2
    <3> QED
      BY <3>2, <3>4 DEF Unexpanded, FromVersion
  <2>2. CASE ~(Base[n] # None /\ Cond[n] \in Active(s))
    <3>1. named = m
      BY <2>2 DEF ApplyOverrides
    <3> QED
      BY <1>1, <3>1
  <2> QED
    BY <2>1, <2>2
<1> HIDE DEF named
<1>3. Faithful(v) /\ Once(v, high)
  BY <1>1, <1>2, FoundOnce
<1>4. Faithful(new) /\ Once(new, high) /\ Held(new) \subseteq Held(v)
  <2> HIDE DEF v
  <2> QED
    BY <1>3, WithPendingFaithful, WithPendingOnce
<1> HIDE DEF new
<1>5. Sound(r, high) /\ Keeps(named, r)
  BY <1>1, <1>2, <1>4, ChangeSound
<1>6. Unexpanded(r, origin, 1)
  <2>1. 1 = s => \A u \in chain[s] : Unexpanded(named, origin, u)
    BY <1>2
  <2> QED
    BY <1>1, <1>2, <1>4, <2>1, ChangeUnexpanded
<1>7. UpdatedKey(m, s, n) = named \/ UpdatedKey(m, s, n) = r
  BY DEF UpdatedKey, named, new, v, r
<1> HIDE DEF r
<1>8. Keeps(m, r)
  BY <1>2, <1>5 DEF Keeps
<1> QED
  BY <1>2, <1>5, <1>6, <1>7, <1>8

(* A turn of expandKeys, on a store just parsed.                           *)
LEMMA ExpandedSound ==
    ASSUME NEW high \in Nat, high <= MaxPieces, NEW m, Sound(m, high), Chains, 1 \in Store,
           NEW s \in Store, s # 1, chain[s] = {1, s}, Unshared(m, s),
           NEW todo, todo \subseteq {n \in Keys(m, s) : Expanded[n] # n}, NEW n \in todo,
           NEW origin, Unexpanded(m, origin, 1), Expanding(m, origin, s, todo)
    PROVE  LET r == ExpandedKey(m, s, n)
           IN  /\ Sound(r, high) /\ Keeps(m, r) /\ Unshared(r, s)
               /\ Unexpanded(r, origin, 1) /\ Expanding(r, origin, s, todo \ {n})
<1> DEFINE to == Expanded[n]
           from == Found(m, s, n)
           old == Found(m, s, to)
           r == ExpandedKey(m, s, n)
           rest == todo \ {n}
<1>1. /\ n \in Name /\ to \in Name /\ to # n /\ to \notin todo /\ n \in Keys(m, s)
      /\ Expanded[to] = to /\ chain[s] # {}
  BY DataStoreAssumption, ExpansionAssumption DEF Keys
<1>2. ASSUME NEW k \in Name, NEW p \in Held(Found(m, s, k))
      PROVE  /\ origin[p] \in Name
             /\ k \in todo => k \in Bases(origin[p])
             /\ k \notin todo => \E j \in Bases(origin[p]) \ todo : k \in {j, Expanded[j]}
  <2>1. CASE k \in Keys(m, s)
    <3>1. PICK u \in {1, s} : m.layer[u][k] # None /\ Found(m, s, k) = m.layer[u][k]
      BY <2>1, FoundAtHome
    <3>2. p \in Held(m.layer[u][k])
      BY <1>2, <3>1
    <3>3. CASE u = 1
      BY <3>1, <3>2, <3>3 DEF Unexpanded, FromVersion
    <3>4. CASE u = s /\ k \in todo
      BY <3>1, <3>2, <3>4 DEF Expanding, FromVersion
    <3>5. CASE u = s /\ k \notin todo
      BY <3>1, <3>2, <3>5 DEF Expanding, FromExpanded
    <3> QED
      BY <3>3, <3>4, <3>5
  <2>2. CASE k \notin Keys(m, s)
    BY <1>2, <2>2, NoVarOnce DEF Found, Keys
  <2> QED
    BY <2>1, <2>2
<1>3. Held(from) \cap Held(old) = {}
  <2> SUFFICES ASSUME NEW p \in Held(from), p \in Held(old) PROVE FALSE
    OBVIOUS
  <2>1. origin[p] \in Name /\ n \in Bases(origin[p])
    BY <1>1, <1>2
  <2>2. PICK j \in Bases(origin[p]) \ todo : to \in {j, Expanded[j]}
    BY <1>1, <1>2
  <2>3. Expanded[j] = Expanded[n]
    BY <1>1, <2>2
  <2>4. j = n
    BY <2>1, <2>2, <2>3, ExpansionAssumption
  <2> QED
    BY <2>2, <2>4
<1>4. \/ r = m
      \/ \E w : /\ Sound(r, high) /\ Keeps(m, r) /\ Unshared(r, s)
                /\ \A t \in Store, k \in Name : r.layer[t][k] =
                       IF t = s /\ k = n THEN NoVar
                       ELSE IF t = s /\ k = to THEN w
                       ELSE m.layer[t][k]
                /\ Held(w) \subseteq Held(from) \cup Held(old)
  BY <1>1, <1>3, ExpandedIs
<1> HIDE DEF r, from, old
(* A name whose turn it is not stays as it was.                            *)
<1>5. ASSUME NEW k \in Name, r.layer[s][k] = m.layer[s][k]
      PROVE  IF k \in rest THEN FromVersion(r, origin, s, k)
             ELSE FromExpanded(r, origin, s, k, rest)
  <2>1. CASE k \in rest
    BY <1>5, <2>1 DEF Expanding, FromVersion
  <2>2. CASE k = n
    BY <1>5, <2>2 DEF Expanding, FromVersion, FromExpanded
  <2>3. CASE k \notin todo
    <3>1. FromExpanded(m, origin, s, k, todo)
      BY <2>3 DEF Expanding
    <3> QED
      BY <1>5, <2>3, <3>1 DEF FromExpanded
  <2> QED
    BY <2>1, <2>2, <2>3
<1>6. CASE r = m
  <2>1. Keeps(m, m)
    BY DEF Keeps
  <2>2. Expanding(m, origin, s, rest)
    BY <1>5, <1>6 DEF Expanding
  <2> QED
    BY <1>6, <2>1, <2>2 DEF r
<1>7. CASE \E w : /\ Sound(r, high) /\ Keeps(m, r) /\ Unshared(r, s)
                  /\ \A t \in Store, k \in Name : r.layer[t][k] =
                         IF t = s /\ k = n THEN NoVar
                         ELSE IF t = s /\ k = to THEN w
                         ELSE m.layer[t][k]
                  /\ Held(w) \subseteq Held(from) \cup Held(old)
  <2> PICK w : /\ Sound(r, high) /\ Keeps(m, r) /\ Unshared(r, s)
               /\ \A t \in Store, k \in Name : r.layer[t][k] =
                      IF t = s /\ k = n THEN NoVar
                      ELSE IF t = s /\ k = to THEN w
                      ELSE m.layer[t][k]
               /\ Held(w) \subseteq Held(from) \cup Held(old)
    BY <1>7
  <2>1. Unexpanded(r, origin, 1)
    <3>1. \A k \in Name : r.layer[1][k] = m.layer[1][k]
      OBVIOUS
    <3> QED
      BY <3>1 DEF Unexpanded, FromVersion
  <2>2. ASSUME NEW k \in Name
        PROVE  IF k \in rest THEN FromVersion(r, origin, s, k)
               ELSE FromExpanded(r, origin, s, k, rest)
    <3>1. CASE k # n /\ k # to
      <4>1. r.layer[s][k] = m.layer[s][k]
        BY <3>1
      <4> QED
        BY <1>5, <4>1
    <3>2. CASE k = n
      <4>1. r.layer[s][k] = NoVar
        BY <3>2
      <4> QED
        BY <3>2, <4>1, NoVarOnce DEF FromExpanded
    <3>3. CASE k = to
      <4>1. r.layer[s][k] = w /\ k \notin rest
        BY <1>1, <3>3
      <4>2. ASSUME NEW p \in Held(w)
            PROVE  /\ origin[p] \in Name
                   /\ \E j \in Bases(origin[p]) \ rest : k \in {j, Expanded[j]}
        <5>1. CASE p \in Held(from)
          <6>1. origin[p] \in Name /\ n \in Bases(origin[p])
            BY <1>1, <1>2, <5>1 DEF from
          <6> QED
            BY <3>3, <6>1
        <5>2. CASE p \in Held(old)
          <6>1. /\ origin[p] \in Name
                /\ \E j \in Bases(origin[p]) \ todo : to \in {j, Expanded[j]}
            BY <1>1, <1>2, <5>2 DEF old
          <6> QED
            BY <3>3, <6>1
        <5> QED
          BY <4>2, <5>1, <5>2
      <4> QED
        BY <4>1, <4>2 DEF FromExpanded
    <3> QED
      BY <3>1, <3>2, <3>3
  <2>3. Expanding(r, origin, s, rest)
    BY <2>2 DEF Expanding
  <2> QED
    BY <2>1, <2>3 DEF r
<1> QED
  BY <1>4, <1>6, <1>7

-----------------------------------------------------------------------------
(* The invariant.                                                          *)
Nested == chain[1] = {1} /\ \A s \in Store : \A t \in chain[s] : chain[t] \subseteq chain[s]

(* A store that a recipe is parsed into is right above the configuration   *)
(* and shares nothing.                                                     *)
FreshStore(s) == s \in Store \ {1} /\ chain[s] = {1, s} /\ Unshared(mem, s)

(* A loop that is on: over which names, of which store.                    *)
LoopTurns ==
    /\ parsing = None /\ loop.todo # {}
    /\ loop = [op |-> loop.op, store |-> loop.store, todo |-> loop.todo, before |-> loop.before]
    /\ \/ loop.op = "inherit" /\ loop.store = 1 /\ loop.todo \subseteq usage.env
       \/ loop.op = "update" /\ loop.todo \subseteq Keys(mem, loop.store)
       \/ /\ loop.op = "expand" /\ FreshStore(loop.store)
          /\ loop.todo \subseteq {n \in Keys(mem, loop.store) : Expanded[n] # n}

(* Where the pieces come from that can still be moved.                     *)
Origins(origin) ==
    /\ Unexpanded(mem, origin, 1)
    /\ parsing # None => Unexpanded(mem, origin, parsing)
    /\ loop.op = "expand" => Expanding(mem, origin, loop.store, loop.todo)

(* The whole of it.                                                        *)
DataInv ==
    /\ EnvInv
    /\ Sound(mem, pieces)
    /\ Nested
    /\ parsing # None => FreshStore(parsing) /\ loop = Idle
    /\ loop = Idle \/ LoopTurns
    /\ overrides \in [Store -> (SUBSET Override) \cup {None}]
    /\ \E origin : Origins(origin)

(* There are as many pieces as the run allows, at most.                    *)
LEMMA PiecesBounded ==
    ASSUME EnvInv
    PROVE  pieces \in Nat /\ pieces <= MaxPieces
<1>1. usage.pieces \in 0 .. MaxPieces
  BY DataStoreAssumption DEF EnvInv, Usage
<1> QED
  BY <1>1, DataStoreAssumption DEF EnvInv

(* Soundness speaks of no variable but the memory and the links.           *)
LEMMA SoundNext ==
    ASSUME UNCHANGED chain, Sound(mem', pieces')
    PROVE  Sound(mem, pieces)'
  BY DEF Sound, Born, OnceMem, Shared, SharedByBases, FaithfulMem, MemType, Unshared

(* Later numbers are not those of the pieces there are.                    *)
LEMMA SoundLater ==
    ASSUME NEW high \in Nat, NEW m, Sound(m, high)
    PROVE  Sound(m, high + 1)
<1>1. \A v : Once(v, high) => Once(v, high + 1)
  BY OnceLater
<1> QED
  BY <1>1 DEF Sound, OnceMem

(* A call, while no loop is running.                                       *)
LEMMA CallDataInv ==
    ASSUME DataInv, EnvInv', NEW s \in Store, Called(s),
           UNCHANGED <<chain, usage, parsing, loop>>,
           overrides' \in [Store -> (SUBSET Override) \cup {None}],
           Sound(mem', pieces'), Unshared(mem, s) => Unshared(mem', s),
           \E origin : /\ Unexpanded(mem', origin, 1)
                       /\ parsing # None => Unexpanded(mem', origin, parsing)
    PROVE  DataInv'
<1>1. loop = Idle /\ parsing \in {None, s}
  BY DEF Called
<1>2. Sound(mem, pieces)'
  BY SoundNext
<1>3. Nested'
  BY DEF DataInv, Nested
<1>4. parsing' # None => FreshStore(parsing)' /\ loop' = Idle
  BY <1>1 DEF DataInv, FreshStore, Unshared
<1>5. PICK origin : /\ Unexpanded(mem', origin, 1)
                    /\ parsing # None => Unexpanded(mem', origin, parsing)
  OBVIOUS
<1>6. Origins(origin)'
  BY <1>1, <1>5 DEF Origins, Idle, Unexpanded, FromVersion
<1>7. (\E o : Origins(o))'
  BY <1>6
<1> QED
  BY <1>1, <1>2, <1>3, <1>4, <1>7 DEF DataInv

(* A setVar: the object it makes holds the new piece and old ones.         *)
LEMMA PieceDataInv ==
    ASSUME DataInv, EnvInv', NEW s \in Store, NEW n \in Name, NewPiece(s, n), NEW w,
           mem' = Change(mem, s, n, w), Faithful(w), Once(w, pieces'),
           Held(w) \subseteq Held(Found(mem, s, n)) \cup {pieces'},
           overrides' = overrides
    PROVE  DataInv'
<1> DEFINE q == pieces'
           own == Shadow(mem, s, n)
<1>1. /\ Called(s) /\ chain[s] # {} /\ q = pieces + 1 /\ pieces \in Nat /\ q \in Nat
      /\ UNCHANGED <<chain, usage, parsing, loop>>
  BY DEF NewPiece, Called, DataInv, EnvInv
<1>2. q <= MaxPieces
  <2>1. usage.pieces \in 0 .. MaxPieces /\ pieces < usage.pieces
    BY DataStoreAssumption DEF NewPiece, DataInv, EnvInv, Usage
  <2> QED
    BY <1>1, <2>1, DataStoreAssumption
<1>3. Sound(mem, q) /\ Chains
  BY <1>1, SoundLater DEF DataInv, EnvInv
<1>4. PICK o \in Name : \A e \in Same(own, <<s, n>>) : e[2] \in Bases(o)
  <2>1. PICK same \in SUBSET Entry :
          /\ same = Same(Shadow(mem, s, n), <<s, n>>) /\ <<s, n>> \in same
          /\ \E o \in Name : \A e \in same : e[2] \in Bases(o)
    BY <1>1, <1>2, <1>3, ChangeWhere
  <2> QED
    BY <2>1
<1>5. PICK origin : Origins(origin)
  BY DEF DataInv
<1> DEFINE new == [p \in Nat |-> IF p = q THEN o ELSE origin[p]]
<1>6. ASSUME NEW u \in Store, Unexpanded(mem, origin, u) PROVE Unexpanded(mem, new, u)
  <2> SUFFICES ASSUME NEW k \in Name, mem.layer[u][k] # None, NEW p \in Held(mem.layer[u][k])
               PROVE  new[p] \in Name /\ k \in Bases(new[p])
    BY DEF Unexpanded, FromVersion
  <2>1. Once(mem.layer[u][k], pieces)
    BY DEF DataInv, Sound, OnceMem
  <2>2. p \in 1 .. pieces
    BY <1>1, <2>1, HeldBound
  <2>3. new[p] = origin[p]
    BY <1>1, <2>2
  <2> HIDE DEF new
  <2> QED
    BY <1>6, <2>3 DEF Unexpanded, FromVersion
<1>7. new[q] = o
  BY <1>1
<1> HIDE DEF new, q, own
<1>8. 1 \in Store /\ Unexpanded(mem, new, 1)
  <2>1. 1 \in Store
    BY DataStoreAssumption DEF Store
  <2> QED
    BY <1>5, <1>6, <2>1 DEF Origins
<1>9. ASSUME parsing # None
      PROVE  /\ parsing = s /\ parsing \in Store /\ chain[s] = {1, s}
             /\ Unexpanded(mem, new, parsing)
  <2>1. parsing = s /\ FreshStore(parsing)
    BY <1>1, <1>9 DEF Called, DataInv
  <2> QED
    BY <1>5, <1>6, <1>9, <2>1 DEF FreshStore, Origins
<1>10. ASSUME NEW p \in Held(w)
       PROVE  \/ p \in Held(Found(mem, s, n))
              \/ new[p] \in Name /\ \A e \in Same(Shadow(mem, s, n), <<s, n>>) : e[2] \in Bases(new[p])
  BY <1>4, <1>7 DEF own, q
<1>11. Unexpanded(mem', new, 1)
  <2>1. 1 = s => \A u \in chain[s] : Unexpanded(mem, new, u)
    BY <1>8 DEF DataInv, Nested
  <2> QED
    BY <1>1, <1>2, <1>3, <1>8, <1>10, <2>1, ChangeUnexpanded
<1>12. ASSUME parsing # None PROVE Unexpanded(mem', new, parsing)
  <2>1. \A u \in chain[s] : Unexpanded(mem, new, u)
    BY <1>8, <1>9, <1>12
  <2>2. parsing \in Store /\ Unexpanded(mem, new, parsing)
    BY <1>9, <1>12
  <2> QED
    BY <1>1, <1>2, <1>3, <1>10, <2>1, <2>2, ChangeUnexpanded
<1>13. Sound(mem', pieces')
  BY <1>1, <1>2, <1>3, ChangeSound DEF q
<1>14. Unshared(mem, s) => Unshared(mem', s)
  BY <1>1, <1>2, <1>3, ChangeUnshared
<1>15. overrides' \in [Store -> (SUBSET Override) \cup {None}]
  BY DEF DataInv
<1> QED
  BY <1>1, <1>11, <1>12, <1>13, <1>14, <1>15, CallDataInv

-----------------------------------------------------------------------------
(* The calls.                                                              *)

(* What the new piece of a setVar is not: held.                            *)
LEMMA NewPieceIsNew ==
    ASSUME DataInv, NEW s \in Store, NEW n \in Name, NewPiece(s, n)
    PROVE  /\ pieces' \in Nat /\ pieces' \in 1 .. pieces'
           /\ pieces' \in Piece
           /\ Faithful(Found(mem, s, n)) /\ Once(Found(mem, s, n), pieces')
           /\ pieces' \notin Held(Found(mem, s, n))
<1>1. /\ pieces \in Nat /\ pieces' = pieces + 1 /\ pieces < usage.pieces
      /\ Sound(mem, pieces) /\ Chains
  BY DEF NewPiece, DataInv, EnvInv
<1>2. Faithful(Found(mem, s, n)) /\ Once(Found(mem, s, n), pieces)
  BY <1>1, FoundOnce
<1>3. Held(Found(mem, s, n)) \subseteq 1 .. pieces
  BY <1>1, <1>2, HeldBound
<1>4. Once(Found(mem, s, n), pieces')
  BY <1>1, <1>2, OnceLater
<1>5. usage.pieces \in 0 .. MaxPieces /\ MaxPieces \in Nat
  BY DataStoreAssumption DEF DataInv, EnvInv, Usage
<1> QED
  BY <1>1, <1>2, <1>3, <1>4, <1>5 DEF Piece

(* setVar of a name: new content.                                          *)
LEMMA SetVarDataInv ==
    ASSUME DataInv, NEW s \in Store, NEW n \in Name, SetVar(s, n)
    PROVE  DataInv'
<1> DEFINE v == Found(mem, s, n)
           w == [v EXCEPT !.content = <<pieces'>>, !.flags = Exported(@)]
<1>1. /\ NewPiece(s, n) /\ UNCHANGED overrides
      /\ mem' = Change(mem, s, n, w)
  BY DEF SetVar, NewPiece, SetContent
<1>2. /\ pieces' \in Nat /\ pieces' \in 1 .. pieces' /\ pieces' \in Texts(pieces')
      /\ Faithful(v) /\ Once(v, pieces') /\ pieces' \notin Held(v)
  BY <1>1, NewPieceIsNew DEF Texts
<1>3. EnvInv'
  BY SetVarEnvInv DEF DataInv
<1>4. w = [content |-> <<pieces'>>, append |-> v.append, prepend |-> v.prepend,
           flags |-> Exported(v.flags)]
  BY <1>2, WithContentIs
<1> HIDE DEF w, v
<1>5. Distinct(Text(<<pieces'>>), Texts(pieces')) /\ ToSet(Text(<<pieces'>>)) \subseteq {pieces'}
  BY <1>2, TextOfOne
<1>6. pieces' \notin ToSet(PiecesOf(v.append)) /\ pieces' \notin ToSet(PiecesOf(v.prepend))
  BY <1>2, NamesAreNoNumbers DEF Held
<1>7. Apart(Text(<<pieces'>>), PiecesOf(v.append)) /\ Apart(Text(<<pieces'>>), PiecesOf(v.prepend))
  BY <1>5, <1>6 DEF Apart
<1>8. /\ Faithful(w) /\ Once(w, pieces')
      /\ Held(w) \subseteq Held(v) \cup (ToSet(Text(<<pieces'>>)) \ Name)
  BY <1>2, <1>4, <1>5, <1>7, ContentOnce
<1>9. Held(w) \subseteq Held(Found(mem, s, n)) \cup {pieces'}
  BY <1>5, <1>8 DEF v
<1> QED
  BY <1>1, <1>3, <1>8, <1>9, PieceDataInv

(* A piece more in a list of pending ones.                                 *)
LEMMA WithListOnce ==
    ASSUME NEW high \in Nat, NEW v, Faithful(v), Once(v, high),
           NEW p \in Pending, p.piece \in 1 .. high, p.piece \notin Held(v), NEW w,
           \/ w = [content |-> v.content, append |-> Append(v.append, p),
                   prepend |-> v.prepend, flags |-> v.flags]
           \/ w = [content |-> v.content, append |-> v.append,
                   prepend |-> Append(v.prepend, p), flags |-> v.flags]
    PROVE  Faithful(w) /\ Once(w, high) /\ Held(w) \subseteq Held(v) \cup {p.piece}
<1>1. /\ v.append \in Seq(Pending) /\ v.prepend \in Seq(Pending)
      /\ v.flags \in SUBSET Flag
  BY DEF Faithful
<1>2. OnceParts(v.content, v.append, v.prepend, high)
  BY DEF Once
<1>3. p.piece \notin Name /\ p.piece \notin ToSet(Text(v.content))
      /\ p.piece \notin ToSet(PiecesOf(v.append)) /\ p.piece \notin ToSet(PiecesOf(v.prepend))
  BY NamesAreNoNumbers DEF Held
<1>4. CASE w = [content |-> v.content, append |-> Append(v.append, p),
                prepend |-> v.prepend, flags |-> v.flags]
  <2>1. /\ Append(v.append, p) \in Seq(Pending)
        /\ Distinct(PiecesOf(Append(v.append, p)), 1 .. high)
        /\ ToSet(PiecesOf(Append(v.append, p))) = ToSet(PiecesOf(v.append)) \cup {p.piece}
    BY <1>1, <1>2, <1>3, PendingOnce DEF OnceParts
  <2> DEFINE list == Append(v.append, p)
  <2>2. /\ w = [content |-> v.content, append |-> list, prepend |-> v.prepend, flags |-> v.flags]
        /\ w.content = v.content /\ w.append = list /\ w.prepend = v.prepend /\ w.flags = v.flags
    BY <1>4
  <2> HIDE DEF list
  <2>3. Faithful(w)
    BY <1>1, <2>1, <2>2 DEF Faithful, list
  <2>4. OnceParts(v.content, list, v.prepend, high)
    BY <1>2, <1>3, <2>1 DEF OnceParts, Apart, list
  <2>5. Held(w) \subseteq Held(v) \cup {p.piece}
    BY <2>1, <2>2 DEF Held, list
  <2> QED
    BY <2>2, <2>3, <2>4, <2>5 DEF Once
<1>5. CASE w = [content |-> v.content, append |-> v.append,
                prepend |-> Append(v.prepend, p), flags |-> v.flags]
  <2>1. /\ Append(v.prepend, p) \in Seq(Pending)
        /\ Distinct(PiecesOf(Append(v.prepend, p)), 1 .. high)
        /\ ToSet(PiecesOf(Append(v.prepend, p))) = ToSet(PiecesOf(v.prepend)) \cup {p.piece}
    BY <1>1, <1>2, <1>3, PendingOnce DEF OnceParts
  <2> DEFINE list == Append(v.prepend, p)
  <2>2. /\ w = [content |-> v.content, append |-> v.append, prepend |-> list, flags |-> v.flags]
        /\ w.content = v.content /\ w.append = v.append /\ w.prepend = list /\ w.flags = v.flags
    BY <1>5
  <2> HIDE DEF list
  <2>3. Faithful(w)
    BY <1>1, <2>1, <2>2 DEF Faithful, list
  <2>4. OnceParts(v.content, v.append, list, high)
    BY <1>2, <1>3, <2>1 DEF OnceParts, Apart, list
  <2>5. Held(w) \subseteq Held(v) \cup {p.piece}
    BY <2>1, <2>2 DEF Held, list
  <2> QED
    BY <2>2, <2>3, <2>4, <2>5 DEF Once
<1> QED
  BY <1>4, <1>5

(* setVar of a name with a keyword: one more pending piece.                *)
LEMMA SetAppendDataInv ==
    ASSUME DataInv, NEW s \in Store, NEW n \in Name, NEW o \in Override \cup {None},
           SetAppend(s, n, o) \/ SetPrepend(s, n, o)
    PROVE  DataInv'
<1> DEFINE v == Found(mem, s, n)
           p == [piece |-> pieces', for |-> o]
           w == IF SetAppend(s, n, o) THEN [v EXCEPT !.append = Append(@, p)]
                ELSE [v EXCEPT !.prepend = Append(@, p)]
<1>1. NewPiece(s, n) /\ UNCHANGED overrides /\ mem' = Change(mem, s, n, w)
  BY DEF SetAppend, SetPrepend, NewPiece
<1>2. /\ pieces' \in Nat /\ pieces' \in 1 .. pieces' /\ pieces' \in Piece
      /\ Faithful(v) /\ Once(v, pieces') /\ pieces' \notin Held(v)
  BY <1>1, NewPieceIsNew
<1>3. EnvInv'
  BY SetAppendEnvInv DEF DataInv
<1>4. p \in Pending /\ p.piece = pieces'
  BY <1>2 DEF Pending
<1>5. \/ w = [content |-> v.content, append |-> Append(v.append, p),
              prepend |-> v.prepend, flags |-> v.flags]
      \/ w = [content |-> v.content, append |-> v.append,
              prepend |-> Append(v.prepend, p), flags |-> v.flags]
  <2>1. PICK c, a, b, f : v = [content |-> c, append |-> a, prepend |-> b, flags |-> f]
    BY <1>2 DEF Faithful
  <2> HIDE DEF v, p
  <2> QED
    BY <2>1
<1> HIDE DEF w, v, p
<1>6. Faithful(w) /\ Once(w, pieces') /\ Held(w) \subseteq Held(v) \cup {p.piece}
  BY <1>2, <1>4, <1>5, WithListOnce
<1>7. Held(w) \subseteq Held(Found(mem, s, n)) \cup {pieces'}
  BY <1>4, <1>6 DEF v
<1> QED
  BY <1>1, <1>3, <1>6, <1>7, PieceDataInv

(* delVar: an empty object.                                                *)
LEMMA DelVarDataInv ==
    ASSUME DataInv, EnvInv', NEW s \in Store, NEW n \in Name, DelVar(s, n)
    PROVE  DataInv'
<1>1. /\ Called(s) /\ chain[s] # {} /\ mem' = Put(mem, s, n, NoVar)
      /\ UNCHANGED <<chain, overrides, usage, parsing, pieces, loop>>
  BY DEF DelVar, Called, Emptied
<1>2. /\ pieces \in Nat /\ pieces <= MaxPieces /\ Sound(mem, pieces)
      /\ MemType(mem)
  BY PiecesBounded DEF DataInv, EnvInv, FaithfulMem
<1>3. Sound(mem', pieces')
  BY <1>1, <1>2, PutSound, NoVarOnce, NoVarFaithful
<1>4. Unshared(mem, s) => Unshared(mem', s)
  BY <1>1, <1>2, PutUnshared
<1>5. PICK origin : Origins(origin)
  BY DEF DataInv
<1>6. ASSUME NEW u \in Store, Unexpanded(mem, origin, u) PROVE Unexpanded(mem', origin, u)
  <2> SUFFICES ASSUME NEW k \in Name, mem'.layer[u][k] # None, NEW p \in Held(mem'.layer[u][k])
               PROVE  origin[p] \in Name /\ k \in Bases(origin[p])
    BY DEF Unexpanded, FromVersion
  <2>1. mem'.layer[u][k] = IF u = s /\ k = n THEN NoVar ELSE mem.layer[u][k]
    BY <1>1, <1>2, PutWhere
  <2> QED
    BY <1>6, <2>1, NoVarOnce DEF Unexpanded, FromVersion
<1>7. 1 \in Store /\ (parsing # None => parsing \in Store)
  BY DataStoreAssumption DEF Store, DataInv, FreshStore
<1>8. \E r : Unexpanded(mem', r, 1) /\ (parsing # None => Unexpanded(mem', r, parsing))
  BY <1>5, <1>6, <1>7 DEF Origins
<1>9. overrides' \in [Store -> (SUBSET Override) \cup {None}]
  BY <1>1 DEF DataInv
<1> QED
  BY <1>1, <1>3, <1>4, <1>8, <1>9, CallDataInv

(* setVar of OVERRIDES.                                                    *)
LEMMA SetOverridesDataInv ==
    ASSUME DataInv, EnvInv', NEW s \in Store, NEW os \in SUBSET Override, SetOverrides(s, os)
    PROVE  DataInv'
<1>1. /\ Called(s) /\ UNCHANGED <<mem, chain, usage, parsing, pieces, loop>>
      /\ overrides' \in [Store -> (SUBSET Override) \cup {None}]
  BY DEF SetOverrides, DataInv
<1>2. \E r : Unexpanded(mem', r, 1) /\ (parsing # None => Unexpanded(mem', r, parsing))
  BY <1>1 DEF DataInv, Origins
<1>3. Sound(mem', pieces')
  BY <1>1 DEF DataInv
<1> QED
  BY <1>1, <1>2, <1>3, CallDataInv

(* A new store: empty, sharing nothing, above a store that exists.         *)
LEMMA LinkedDataInv ==
    ASSUME DataInv, NEW s \in Store, NEW new \in Store, Linked(s, new),
           \/ parsing' = parsing /\ parsing = None
           \/ parsing' = new /\ s = 1
    PROVE  DataInv'
<1>1. /\ loop = Idle /\ chain[s] # {} /\ chain[new] = {}
      /\ chain' = [chain EXCEPT ![new] = chain[s] \cup {new}]
      /\ UNCHANGED <<mem, overrides, usage, pieces, loop>>
  BY DEF Linked, Called
<1>2. Chains /\ Sound(mem, pieces) /\ Nested /\ EnvInv /\ s \in chain[s]
  <2>1. Chains /\ Sound(mem, pieces) /\ Nested /\ EnvInv
    BY DEF DataInv, EnvInv
  <2> QED
    BY <1>1, <2>1 DEF Chains
<1>3. EnvInv'
  BY <1>2, LinkedChains
<1>4. 1 \in Store /\ new # 1
  <2>1. 1 \in Store
    BY DataStoreAssumption DEF Store
  <2> QED
    BY <1>1, <1>2, <2>1 DEF Nested
<1>5. /\ chain'[new] = chain[s] \cup {new}
      /\ \A t \in Store : t # new => chain'[t] = chain[t]
  BY <1>1, <1>2 DEF Chains
<1>6. Nested'
  <2>1. chain'[1] = {1}
    BY <1>2, <1>4, <1>5 DEF Nested
  <2>2. ASSUME NEW x \in Store, NEW t \in chain'[x] PROVE chain'[t] \subseteq chain'[x]
    <3>1. \A u \in Store : new \notin chain[u]
      BY <1>1, <1>2 DEF Chains
    <3>2. CASE x = new
      <4>1. CASE t = new
        BY <3>2, <4>1
      <4>2. CASE t # new
        <5>1. t \in chain[s] /\ t \in Store
          BY <1>2, <1>5, <2>2, <3>2, <4>2 DEF Chains
        <5>2. chain[t] \subseteq chain[s]
          BY <1>2, <5>1 DEF Nested
        <5> QED
          BY <1>5, <3>2, <4>2, <5>1, <5>2
      <4> QED
        BY <4>1, <4>2
    <3>3. CASE x # new
      <4>1. t \in chain[x] /\ t \in Store /\ t # new
        BY <1>2, <1>5, <2>2, <3>1, <3>3 DEF Chains
      <4>2. chain[t] \subseteq chain[x]
        BY <1>2, <4>1 DEF Nested
      <4> QED
        BY <1>5, <3>3, <4>1, <4>2
    <3> QED
      BY <3>2, <3>3
  <2> QED
    BY <2>1, <2>2 DEF Nested
<1>7. Sound(mem, pieces)'
  <2>1. Born(mem)'
    <3>1. \A t \in Store : chain'[t] = {} => chain[t] = {}
      BY <1>5
    <3>2. \A t \in Store : chain[t] = {} => Unshared(mem, t) /\ \A n \in Name : mem.layer[t][n] = None
      BY <1>2 DEF Sound, Born
    <3> QED
      BY <1>1, <3>1, <3>2 DEF Born, Unshared
  <2> QED
    BY <1>1, <1>2, <2>1 DEF Sound, OnceMem, Shared, SharedByBases, FaithfulMem, MemType
<1>8. Unshared(mem, new) /\ \A n \in Name : mem.layer[new][n] = None
  BY <1>1, <1>2 DEF Sound, Born
<1>9. parsing' # None => FreshStore(parsing)' /\ loop' = Idle
  <2> SUFFICES ASSUME parsing' # None PROVE FreshStore(parsing)' /\ loop' = Idle
    OBVIOUS
  <2>1. parsing' = new /\ s = 1
    OBVIOUS
  <2>2. chain'[new] = {1, new}
    BY <1>2, <1>5, <2>1 DEF Nested
  <2> QED
    BY <1>1, <1>4, <1>8, <2>1, <2>2 DEF FreshStore, Unshared
<1>10. (\E origin : Origins(origin))'
  <2>1. PICK origin : Origins(origin)
    BY DEF DataInv
  <2>2. Unexpanded(mem, origin, new)
    BY <1>8 DEF Unexpanded, FromVersion
  <2>3. Origins(origin)'
    BY <1>1, <2>1, <2>2 DEF Origins, Idle, Unexpanded, FromVersion
  <2> QED
    BY <2>3
<1>11. overrides' \in [Store -> (SUBSET Override) \cup {None}]
  BY <1>1 DEF DataInv
<1> QED
  BY <1>1, <1>3, <1>6, <1>7, <1>9, <1>10, <1>11 DEF DataInv

(* A loop begins, outside of a parse or with the end of one.               *)
LEMMA StartLoopDataInv ==
    ASSUME DataInv, NEW op, NEW s \in Store, NEW todo \in SUBSET Name, StartLoop(op, s, todo),
           parsing' = None,
           \/ op = "inherit" /\ s = 1 /\ todo \subseteq usage.env
           \/ op = "update" /\ todo \subseteq Keys(mem, s)
           \/ /\ op = "expand" /\ parsing = s
              /\ todo \subseteq {n \in Keys(mem, s) : Expanded[n] # n}
              /\ \A n \in Keys(mem, s) : Expanded[n] # n => n \in todo
    PROVE  DataInv'
<1>1. /\ loop = Idle /\ chain[s] # {} /\ parsing \in {None, s}
      /\ loop' = IF todo = {} THEN Idle
                 ELSE [op |-> op, store |-> s, todo |-> todo, before |-> mem]
      /\ UNCHANGED <<mem, chain, overrides, usage, pieces>>
  BY DEF StartLoop, Called
<1>2. EnvInv'
  BY StartLoopEnvInv DEF DataInv
<1>3. Sound(mem, pieces)'
  BY <1>1, SoundNext DEF DataInv
<1>4. Nested'
  BY <1>1 DEF DataInv, Nested
<1>5. None \notin Store
  BY NoneIsNoVar
<1>6. op = "expand" => FreshStore(s)'
  <2>1. op = "expand" => FreshStore(s)
    BY <1>5 DEF DataInv
  <2> QED
    BY <1>1, <2>1 DEF FreshStore, Unshared
<1>7. Keys(mem, s)' = Keys(mem, s)
  BY <1>1 DEF Keys, Holders
<1>8. loop' = Idle \/ LoopTurns'
  <2>1. CASE todo = {}
    BY <1>1, <2>1
  <2>2. CASE todo # {}
    <3>1. /\ loop'.op = op /\ loop'.store = s /\ loop'.todo = todo
          /\ loop' = [op |-> loop'.op, store |-> loop'.store, todo |-> loop'.todo,
                      before |-> loop'.before]
      BY <1>1, <2>2
    <3>2. /\ op = "update" => todo \subseteq Keys(mem, s)'
          /\ op = "expand" => todo \subseteq {n \in Keys(mem, s)' : Expanded[n] # n}
      BY <1>7
    <3> QED
      BY <1>1, <1>6, <2>2, <3>1, <3>2 DEF LoopTurns, FreshStore, Keys, Holders, Unshared
  <2> QED
    BY <2>1, <2>2
<1>9. (\E origin : Origins(origin))'
  <2>1. PICK origin : Origins(origin)
    BY DEF DataInv
  <2>2. ASSUME loop'.op = "expand" PROVE Expanding(mem, origin, s, todo) /\ loop'.store = s /\ loop'.todo = todo
    <3>1. op = "expand" /\ todo # {} /\ loop'.store = s /\ loop'.todo = todo
      BY <1>1, <2>2 DEF Idle
    <3>2. parsing = s /\ Unexpanded(mem, origin, s) /\ FreshStore(s)
      BY <1>5, <2>1, <3>1 DEF Origins, DataInv
    <3>3. ASSUME NEW n \in Name, n \notin todo PROVE FromExpanded(mem, origin, s, n, todo)
      <4> SUFFICES ASSUME mem.layer[s][n] # None, NEW p \in Held(mem.layer[s][n])
                   PROVE  origin[p] \in Name /\ \E k \in Bases(origin[p]) \ todo : n \in {k, Expanded[k]}
        BY DEF FromExpanded
      <4>1. origin[p] \in Name /\ n \in Bases(origin[p])
        BY <3>2 DEF Unexpanded, FromVersion
      <4> QED
        BY <3>3, <4>1
    <3>4. Expanding(mem, origin, s, todo)
      BY <3>2, <3>3 DEF Expanding, Unexpanded
    <3> QED
      BY <3>1, <3>4
  <2>3. Unexpanded(mem', origin, 1)
    BY <1>1, <2>1 DEF Origins
  <2>4. loop'.op = "expand" => Expanding(mem', origin, loop'.store, loop'.todo)
    BY <1>1, <2>2
  <2>5. Origins(origin)'
    BY <2>3, <2>4 DEF Origins, Unexpanded, FromVersion, Expanding, FromExpanded
  <2> QED
    BY <2>5
<1>10. overrides' \in [Store -> (SUBSET Override) \cup {None}]
  BY <1>1 DEF DataInv
<1> QED
  BY <1>2, <1>3, <1>4, <1>8, <1>9, <1>10 DEF DataInv

(* What a turn of a loop does to the memory.                               *)
LEMMA TurnSound ==
    ASSUME DataInv, LoopTurns, NEW n \in loop.todo, NEW origin, Origins(origin), NEW r,
           r = CASE loop.op = "inherit" -> InheritedKey(mem, loop.store, n)
                 [] loop.op = "expand" -> ExpandedKey(mem, loop.store, n)
                 [] OTHER -> UpdatedKey(mem, loop.store, n)
    PROVE  /\ Sound(r, pieces) /\ Keeps(mem, r)
           /\ Unexpanded(r, origin, 1)
           /\ loop.op = "expand" => /\ Unshared(r, loop.store)
                                    /\ Expanding(r, origin, loop.store, loop.todo \ {n})
<1> DEFINE s == loop.store
<1>1. /\ pieces \in Nat /\ pieces <= MaxPieces /\ Sound(mem, pieces) /\ Chains
      /\ s \in Store /\ n \in Name /\ chain[s] # {} /\ chain[1] = {1} /\ 1 \in Store
  BY PiecesBounded, DataStoreAssumption DEF DataInv, EnvInv, LoopOK, Nested, Store
<1>2. Unexpanded(mem, origin, 1)
  BY DEF Origins
<1>3. CASE loop.op = "inherit"
  <2>1. s = 1 /\ r = InheritedKey(mem, s, n) /\ loop.op # "expand"
    BY <1>3 DEF LoopTurns
  <2> HIDE DEF s
  <2>2. chain[s] = {s} /\ Unexpanded(mem, origin, s)
    BY <1>1, <1>2, <2>1
  <2>3. Sound(r, pieces) /\ Keeps(mem, r) /\ Unexpanded(r, origin, s)
    BY <1>1, <2>1, <2>2, InheritedSound
  <2> QED
    BY <2>1, <2>3
<1>4. CASE loop.op = "expand"
  <2>1. /\ FreshStore(s) /\ loop.todo \subseteq {k \in Keys(mem, s) : Expanded[k] # k}
        /\ Expanding(mem, origin, s, loop.todo) /\ r = ExpandedKey(mem, s, n)
    BY <1>4 DEF LoopTurns, Origins
  <2>2. s # 1 /\ chain[s] = {1, s} /\ Unshared(mem, s)
    BY <2>1 DEF FreshStore
  <2> DEFINE todo == loop.todo
  <2>3. todo \subseteq {k \in Keys(mem, s) : Expanded[k] # k} /\ n \in todo
        /\ Expanding(mem, origin, s, todo)
    BY <2>1
  <2> HIDE DEF s, todo
  <2>4. /\ Sound(r, pieces) /\ Keeps(mem, r) /\ Unshared(r, s)
        /\ Unexpanded(r, origin, 1) /\ Expanding(r, origin, s, todo \ {n})
    BY <1>1, <1>2, <2>1, <2>2, <2>3, ExpandedSound
  <2> QED
    BY <2>4 DEF s, todo
<1>5. CASE loop.op # "inherit" /\ loop.op # "expand"
  <2>1. n \in Keys(mem, s) /\ r = UpdatedKey(mem, s, n)
    BY <1>5 DEF LoopTurns
  <2> HIDE DEF s
  <2>2. Sound(r, pieces) /\ Keeps(mem, r) /\ Unexpanded(r, origin, 1)
    BY <1>1, <1>2, <2>1, UpdatedSound
  <2> QED
    BY <1>5, <2>2
<1> QED
  BY <1>3, <1>4, <1>5

(* A turn, and the rest of the loop.                                       *)
LEMMA LoopKeyDataInv ==
    ASSUME DataInv, EnvInv', LoopKey
    PROVE  DataInv'
<1> PICK n \in loop.todo :
        /\ mem' = CASE loop.op = "inherit" -> InheritedKey(mem, loop.store, n)
                    [] loop.op = "expand" -> ExpandedKey(mem, loop.store, n)
                    [] OTHER -> UpdatedKey(mem, loop.store, n)
        /\ loop' = IF loop.todo = {n} THEN Idle ELSE [loop EXCEPT !.todo = @ \ {n}]
        /\ UNCHANGED <<chain, overrides, usage, parsing, pieces>>
  BY DEF LoopKey
<1>1. loop # Idle /\ LoopTurns /\ loop.store \in Store
  BY DEF Idle, DataInv, EnvInv, LoopOK
<1>2. PICK origin : Origins(origin)
  BY DEF DataInv
<1>3. /\ Sound(mem', pieces) /\ Keeps(mem, mem')
      /\ Unexpanded(mem', origin, 1)
      /\ loop.op = "expand" => /\ Unshared(mem', loop.store)
                               /\ Expanding(mem', origin, loop.store, loop.todo \ {n})
  BY <1>1, <1>2, TurnSound
<1>4. Sound(mem, pieces)'
  BY <1>3, SoundNext
<1>5. Nested'
  BY DEF DataInv, Nested
<1>6. parsing' = None
  BY <1>1 DEF LoopTurns
<1>7. \A s \in Store : Keys(mem, s) \subseteq Keys(mem, s)'
  BY <1>3 DEF Keeps, Keys, Holders, DataInv, EnvInv, Chains
<1>8. \/ loop' = Idle
      \/ /\ loop.todo \ {n} # {} /\ loop'.op = loop.op /\ loop'.store = loop.store
         /\ loop'.todo = loop.todo \ {n}
         /\ loop' = [op |-> loop'.op, store |-> loop'.store, todo |-> loop'.todo,
                     before |-> loop'.before]
  <2>1. CASE loop.todo = {n}
    BY <2>1
  <2>2. CASE loop.todo # {n}
    <3>1. loop' = [loop EXCEPT !.todo = @ \ {n}]
      BY <2>2
    <3>2. loop.todo \ {n} # {}
      BY <2>2
    <3>3. loop = [op |-> loop.op, store |-> loop.store, todo |-> loop.todo, before |-> loop.before]
      BY <1>1 DEF LoopTurns
    <3> QED
      BY <3>1, <3>2, <3>3
  <2> QED
    BY <2>1, <2>2
<1>9. loop' = Idle \/ LoopTurns'
  <2> SUFFICES ASSUME loop' # Idle PROVE LoopTurns'
    OBVIOUS
  <2>1. loop'.todo # {} /\ loop'.todo \subseteq loop.todo /\ loop'.op = loop.op /\ loop'.store = loop.store
    BY <1>8
  <2>2. loop' = [op |-> loop'.op, store |-> loop'.store, todo |-> loop'.todo,
                 before |-> loop'.before]
    BY <1>8
  <2>3. CASE loop.op = "inherit"
    BY <1>1, <1>6, <2>1, <2>3, <2>2 DEF LoopTurns
  <2>4. CASE loop.op = "update"
    <3>1. loop'.todo \subseteq Keys(mem, loop.store)'
      BY <1>1, <1>7, <2>1, <2>4 DEF LoopTurns
    <3> QED
      BY <1>6, <2>1, <2>4, <2>2, <3>1 DEF LoopTurns, Keys, Holders
  <2>5. CASE loop.op = "expand"
    <3>1. FreshStore(loop.store) /\ loop.todo \subseteq {k \in Keys(mem, loop.store) : Expanded[k] # k}
      BY <1>1, <2>5 DEF LoopTurns
    <3>2. loop'.todo \subseteq {k \in Keys(mem, loop.store)' : Expanded[k] # k}
      BY <1>1, <1>7, <2>1, <3>1
    <3> QED
      BY <1>3, <1>6, <2>1, <2>5, <2>2, <3>1, <3>2 DEF LoopTurns, Keys, Holders, FreshStore, Unshared
  <2> QED
    BY <1>1, <2>3, <2>4, <2>5 DEF LoopTurns
<1>10. (\E o : Origins(o))'
  <2>1. loop'.op = "expand" => Expanding(mem', origin, loop'.store, loop'.todo)
    BY SMTT(30), <1>3, <1>8 DEF Idle
  <2>2. Origins(origin)'
    BY <1>3, <1>6, <2>1 DEF Origins, Unexpanded, FromVersion, Expanding, FromExpanded
  <2> QED
    BY <2>2
<1>11. overrides' \in [Store -> (SUBSET Override) \cup {None}]
  BY DEF DataInv
<1> QED
  BY <1>4, <1>5, <1>6, <1>9, <1>10, <1>11 DEF DataInv

(* At first there is the configuration, empty.                             *)
LEMMA InitDataInv == Init => DataInv
<1> SUFFICES ASSUME Init PROVE DataInv
  OBVIOUS
<1>1. EnvInv /\ 1 \in Store
  BY InitEnvInv, DataStoreAssumption DEF Store
<1>2. /\ \A s \in Store, n \in Name : mem.layer[s][n] = None
      /\ mem.shared = {}
      /\ chain = [s \in Store |-> IF s = 1 THEN {1} ELSE {}]
      /\ overrides = [s \in Store |-> None] /\ parsing = None /\ loop = Idle
  BY DEF Init
<1>3. Sound(mem, pieces)
  BY <1>1, <1>2 DEF Sound, EnvInv, OnceMem, Shared, SharedByBases, Born, Unshared
<1>4. Nested
  BY <1>1, <1>2 DEF Nested
<1>5. Origins([p \in Nat |-> None])
  BY <1>1, <1>2 DEF Origins, Unexpanded, FromVersion, Idle
<1>6. \E origin : Origins(origin)
  BY <1>5
<1> QED
  BY <1>1, <1>2, <1>3, <1>4, <1>6 DEF DataInv

(* A step that changes nothing.                                            *)
LEMMA StutterDataInv ==
    ASSUME DataInv, EnvInv', UNCHANGED vars
    PROVE  DataInv'
<1>1. UNCHANGED <<mem, chain, overrides, usage, parsing, pieces, loop>>
  BY DEF vars
<1>2. Sound(mem, pieces)'
  BY <1>1, SoundNext DEF DataInv
<1>3. Nested' /\ overrides' \in [Store -> (SUBSET Override) \cup {None}]
  BY <1>1 DEF DataInv, Nested
<1>4. parsing' # None => FreshStore(parsing)' /\ loop' = Idle
  BY <1>1 DEF DataInv, FreshStore, Unshared
<1>5. loop' = Idle \/ LoopTurns'
  BY <1>1 DEF DataInv, LoopTurns, FreshStore, Unshared, Keys, Holders
<1>6. (\E origin : Origins(origin))'
  <2>1. PICK origin : Origins(origin)
    BY DEF DataInv
  <2>2. Origins(origin)'
    BY <1>1, <2>1 DEF Origins, Unexpanded, FromVersion, Expanding, FromExpanded
  <2> QED
    BY <2>2
<1> QED
  BY <1>2, <1>3, <1>4, <1>5, <1>6 DEF DataInv

(* Every step keeps the invariant.                                         *)
LEMMA NextDataInv == DataInv /\ [Next]_vars => DataInv'
<1> SUFFICES ASSUME DataInv, [Next]_vars PROVE DataInv'
  OBVIOUS
<1>1. 1 \in Store /\ usage.env \in SUBSET Name /\ \A s \in Store : Keys(mem, s) \in SUBSET Name
  BY DataStoreAssumption, NamesOfUsage DEF Store, Keys, DataInv, EnvInv
<1>2. EnvInv'
  BY NextEnvInv DEF DataInv
<1>3. CASE InheritFromOS
  <2>1. parsing = None
    BY <1>3 DEF InheritFromOS, DataInv, FreshStore
  <2> QED
    BY <1>1, <1>3, <2>1, StartLoopDataInv DEF InheritFromOS
<1>4. CASE LoadRecipe
  BY <1>1, <1>4, LinkedDataInv DEF LoadRecipe
<1>5. CASE LoopKey
  BY <1>2, <1>5, LoopKeyDataInv
<1>6. ASSUME NEW s \in Store, CreateCopy(s) PROVE DataInv'
  BY <1>6, LinkedDataInv DEF CreateCopy
<1>7. ASSUME NEW s \in Store, ExpandKeys(s) PROVE DataInv'
  <2> DEFINE todo == {n \in Keys(mem, s) : Expanded[n] # n}
  <2>1. todo \in SUBSET Name /\ \A n \in Keys(mem, s) : Expanded[n] # n => n \in todo
    BY <1>1
  <2>2. StartLoop("expand", s, todo) /\ parsing = s /\ parsing' = None
        /\ todo \subseteq {n \in Keys(mem, s) : Expanded[n] # n}
    BY <1>7 DEF ExpandKeys
  <2> HIDE DEF todo
  <2> QED
    BY <2>1, <2>2, StartLoopDataInv
<1>8. ASSUME NEW s \in Store, UpdateData(s) PROVE DataInv'
  BY <1>1, <1>8, StartLoopDataInv DEF UpdateData
<1>9. ASSUME NEW s \in Store, NEW os \in SUBSET Override, SetOverrides(s, os) PROVE DataInv'
  BY <1>2, <1>9, SetOverridesDataInv
<1>10. ASSUME NEW s \in Store, NEW n \in Name, DelVar(s, n) PROVE DataInv'
  BY <1>2, <1>10, DelVarDataInv
<1>11. CASE UNCHANGED vars
  BY <1>2, <1>11, StutterDataInv
<1> QED
  BY <1>3, <1>4, <1>5, <1>6, <1>7, <1>8, <1>9, <1>10, <1>11, SetVarDataInv, SetAppendDataInv
     DEF Next

(* So it holds throughout.                                                 *)
LEMMA DataInvAlways == Spec => []DataInv
  BY InitDataInv, NextDataInv, PTL DEF Spec

-----------------------------------------------------------------------------
(* What the invariant gives.                                               *)
LEMMA DataInvTypes ==
    ASSUME DataInv
    PROVE  TypeOK
<1>1. EnvInv /\ Chains /\ Sound(mem, pieces) /\ pieces \in Nat /\ pieces <= MaxPieces
  BY PiecesBounded DEF DataInv, EnvInv
<1>2. mem.layer \in [Store -> [Name -> Var \cup {None}]]
  <2>1. FaithfulMem(mem) /\ OnceMem(mem, pieces)
    BY <1>1 DEF Sound
  <2>2. ASSUME NEW s \in Store, NEW n \in Name PROVE mem.layer[s][n] \in Var \cup {None}
    <3>1. mem.layer[s][n] # None => Faithful(mem.layer[s][n]) /\ Once(mem.layer[s][n], pieces)
      BY <2>1 DEF FaithfulMem, OnceMem
    <3>2. mem.layer[s][n] # None => mem.layer[s][n] \in Var
      BY <1>1, <3>1, OnceIsVar
    <3> QED
      BY <3>2
  <2>3. \A s \in Store : mem.layer[s] = [n \in Name |-> mem.layer[s][n]]
    BY <2>1 DEF FaithfulMem, MemType
  <2>4. \A s \in Store : mem.layer[s] \in [Name -> Var \cup {None}]
    BY <2>2, <2>3
  <2>5. mem.layer = [s \in Store |-> mem.layer[s]]
    BY <2>1 DEF FaithfulMem, MemType
  <2> QED
    BY <2>4, <2>5
<1>3. \A g \in mem.shared :
        /\ g \subseteq Entry /\ Several(g)
        /\ \A e, f \in g : mem.layer[e[1]][e[2]] = mem.layer[f[1]][f[2]]
        /\ \A h \in mem.shared : g = h \/ g \cap h = {}
  BY <1>1 DEF Sound, Shared, At
<1>4. /\ chain \in [Store -> SUBSET Store]
      /\ \A s \in Store : \A t \in chain[s] : t <= s /\ s \in chain[s] /\ chain[t] \subseteq chain[s]
  BY <1>1 DEF Chains, DataInv, Nested
<1>5. parsing \in Store \cup {None}
  BY DEF DataInv, FreshStore
<1>6. loop = Idle \/ /\ loop.op \in {"inherit", "expand", "update"}
                     /\ loop.store \in Store /\ chain[loop.store] # {}
                     /\ loop.todo \in (SUBSET (Keys(mem, loop.store) \cup usage.env)) \ {{}}
  BY DEF DataInv, LoopTurns, EnvInv, LoopOK
<1>7. usage \in Usages /\ overrides \in [Store -> (SUBSET Override) \cup {None}]
  BY <1>1 DEF EnvInv, DataInv
<1>8. pieces \in 0 .. MaxPieces
  BY <1>1, DataStoreAssumption
<1> QED
  BY <1>2, <1>3, <1>4, <1>5, <1>6, <1>7, <1>8 DEF TypeOK

(* No piece is in a content twice.                                         *)
LEMMA DataInvOnce ==
    ASSUME DataInv
    PROVE  AppendedOnce
<1> SUFFICES ASSUME NEW s \in Store, NEW n \in Name,
                    mem.layer[s][n] # None, mem.layer[s][n].content # None,
                    NEW i \in DOMAIN mem.layer[s][n].content, NEW j \in DOMAIN mem.layer[s][n].content,
                    mem.layer[s][n].content[i] = mem.layer[s][n].content[j]
             PROVE  i = j
  BY DEF AppendedOnce
<1> DEFINE content == mem.layer[s][n].content
<1>1. Distinct(Text(content), Texts(pieces))
  BY DEF DataInv, Sound, OnceMem, Once, OnceParts
<1>2. IsInjective(content)
  BY <1>1 DEF Distinct, Text
<1> QED
  BY <1>2 DEF IsInjective

(* Objects, sharing, links and loops are what they should be: an object    *)
(* that is under several names reads the same under all of them, every     *)
(* store is linked to all below it, and a loop over keys ends with its     *)
(* last key.                                                               *)
THEOREM DataTypesAreRight == Spec => []TypeOK
  BY DataInvAlways, DataInvTypes, PTL

(* No append or prepend is applied twice to a variable, whatever copies    *)
(* are made while it is pending, whatever objects are shared, in whatever  *)
(* order update_data and expandKeys take the keys and however often they   *)
(* are called.                                                             *)
THEOREM NothingAppendedTwice == Spec => []AppendedOnce
  BY DataInvAlways, DataInvOnce, PTL
-----------------------------------------------------------------------------
(* From here on: what has the flag matchesenv.                             *)

(* If v has the flag it is, for n, as the environment has it.              *)
Right(v, n) ==
    "matchesenv" \in v.flags => \E k \in usage.env : n \in Bases(k) /\ v.content = <<k>>

RightMem(m) == \A s \in Store, n \in Name : m.layer[s][n] # None => Right(m.layer[s][n], n)

(* The environment is read before any name shares an object.               *)
EnvTrue ==
    /\ RightMem(mem)
    /\ loop.op = "inherit" => mem.shared = {}

(* What is found is right,                                                 *)
LEMMA FoundRight ==
    ASSUME NEW m, RightMem(m), Chains, NEW s \in Store, NEW n \in Name
    PROVE  Right(Found(m, s, n), n)
<1>1. CASE n \in Keys(m, s)
  BY <1>1, FoundAtHome DEF RightMem
<1>2. CASE n \notin Keys(m, s)
  BY <1>2 DEF Found, Keys, Right, NoVar
<1> QED
  BY <1>1, <1>2

(* the copy that is made of it,                                            *)
LEMMA PutRight ==
    ASSUME NEW m, MemType(m), RightMem(m), NEW s \in Store, NEW n \in Name, NEW v, Right(v, n)
    PROVE  RightMem(Put(m, s, n, v))
  BY PutWhere DEF RightMem

LEMMA ShadowRight ==
    ASSUME NEW m, MemType(m), RightMem(m), Chains, NEW s \in Store, NEW n \in Name
    PROVE  RightMem(Shadow(m, s, n))
  BY FoundRight, PutRight DEF Shadow

(* and, under the name it is a conditional version of, the object itself.  *)
LEMMA LinkRight ==
    ASSUME NEW m, MemType(m), RightMem(m), Chains, usage.env \subseteq Name,
           NEW s \in Store, NEW n \in Name, Base[n] # None
    PROVE  RightMem(Link(m, s, Base[n], n))
<1> DEFINE v == Found(m, s, n)
<1>1. Base[n] \in Name
  BY DataStoreAssumption
<1>2. Right(v, Base[n])
  <2> SUFFICES ASSUME "matchesenv" \in v.flags
               PROVE  \E k \in usage.env : Base[n] \in Bases(k) /\ v.content = <<k>>
    BY DEF Right
  <2>1. PICK k \in usage.env : n \in Bases(k) /\ v.content = <<k>>
    BY FoundRight DEF Right
  <2>2. k \in Name
    OBVIOUS
  <2>3. Base[n] \in Bases(k)
    BY <2>1, <2>2, BasesGoOn
  <2> QED
    BY <2>1, <2>3
<1> HIDE DEF v
<1>3. \A t \in Store, k \in Name :
        Link(m, s, Base[n], n).layer[t][k] = IF t = s /\ k = Base[n] THEN v ELSE m.layer[t][k]
  BY <1>1, LinkWhere DEF v
<1> QED
  BY <1>2, <1>3 DEF RightMem

(* The entries in same get v, the others are as they were.                 *)
Reaches(m, c, same, v) ==
    \A t \in Store, k \in Name :
        c.layer[t][k] = IF <<t, k>> \in same THEN v ELSE m.layer[t][k]

(* That is a change, once the store has its own copy.                      *)
LEMMA ChangeReaches ==
    ASSUME NEW m, NEW s \in Store, NEW n \in Name, NEW v,
           NEW own, own = Shadow(m, s, n), NEW same, same = Same(own, <<s, n>>),
           NEW c, c = Change(m, s, n, v)
    PROVE  Reaches(own, c, same, v)
<1>1. c.layer = [t \in Store |-> [k \in Name |-> IF <<t, k>> \in same THEN v ELSE own.layer[t][k]]]
  BY DEF Change
<1>2. \A t \in Store : c.layer[t] = [k \in Name |->
          IF <<t, k>> \in same THEN v ELSE own.layer[t][k]]
  BY <1>1
<1> QED
  BY ZenonT(60), <1>2 DEF Reaches

(* A change that takes the flag away, all names of the object included;    *)
LEMMA UnflaggedRight ==
    ASSUME NEW m, MemType(m), RightMem(m), Chains, NEW s \in Store, NEW n \in Name, NEW v,
           "matchesenv" \notin v.flags
    PROVE  RightMem(Change(m, s, n, v))
<1> DEFINE own == Shadow(m, s, n)
           same == Same(own, <<s, n>>)
           c == Change(m, s, n, v)
<1>1. RightMem(own)
  BY ShadowRight
<1>2. own = Shadow(m, s, n) /\ same = Same(own, <<s, n>>) /\ c = Change(m, s, n, v)
  OBVIOUS
<1> HIDE DEF own, same, c
<1>3. Reaches(own, c, same, v)
  BY <1>2, ChangeReaches
<1>4. ASSUME NEW t \in Store, NEW k \in Name, c.layer[t][k] # None PROVE Right(c.layer[t][k], k)
  <2>1. CASE <<t, k>> \in same
    BY <1>3, <2>1 DEF Right, Reaches
  <2>2. CASE <<t, k>> \notin same
    <3>1. c.layer[t][k] = own.layer[t][k]
      BY <1>3, <2>2 DEF Reaches
    <3> QED
      BY <1>1, <1>4, <3>1 DEF RightMem
  <2> QED
    BY <2>1, <2>2
<1>5. RightMem(c)
  BY <1>4 DEF RightMem
<1> QED
  BY <1>5 DEF c

(* one that leaves flags and content as they are, all its names being      *)
(* right already;                                                          *)
LEMMA SameContentRight ==
    ASSUME NEW high \in Nat, high <= MaxPieces, NEW m, Sound(m, high), RightMem(m), Chains,
           NEW s \in Store, chain[s] # {}, NEW n \in Name, NEW v,
           v.content = Found(m, s, n).content, v.flags = Found(m, s, n).flags
    PROVE  RightMem(Change(m, s, n, v))
<1> DEFINE c == Change(m, s, n, v)
<1>1. PICK same \in SUBSET Entry :
        /\ <<s, n>> \in same
        /\ \A t \in Store, k \in Name :
              c.layer[t][k] = IF <<t, k>> \in same THEN v ELSE m.layer[t][k]
        /\ \A e \in same : e # <<s, n>> =>
              At(m, e) = Found(m, s, n) /\ \E g \in m.shared : e \in g /\ <<s, n>> \in g
  BY ChangeWhere
<1>2. Faithful(Found(m, s, n)) /\ Once(Found(m, s, n), high)
  BY FoundOnce
<1>3. Found(m, s, n) # None
  BY <1>2, OnceIsVar
<1> HIDE DEF c
<1>4. ASSUME NEW t \in Store, NEW k \in Name, <<t, k>> \in same PROVE Right(v, k)
  <2>1. CASE <<t, k>> = <<s, n>>
    BY <2>1, FoundRight DEF Right
  <2>2. CASE <<t, k>> # <<s, n>>
    <3>1. m.layer[t][k] = Found(m, s, n)
      BY <1>1, <1>4, <2>2 DEF At
    <3> QED
      BY <1>3, <3>1 DEF RightMem, Right
  <2> QED
    BY <2>1, <2>2
<1>5. RightMem(c)
  BY <1>1, <1>4 DEF RightMem
<1> QED
  BY <1>5 DEF c

(* one of an object that has one name, for which it is right.              *)
LEMMA UnsharedRight ==
    ASSUME NEW m, MemType(m), RightMem(m), m.shared = {}, Chains, NEW s \in Store, NEW n \in Name,
           NEW v, Right(v, n)
    PROVE  RightMem(Change(m, s, n, v)) /\ Change(m, s, n, v).shared = {}
<1> DEFINE own == Shadow(m, s, n)
<1>1. RightMem(own)
  BY ShadowRight
<1>2. own.shared = {}
  BY DEF Shadow, Put, Detached
<1>3. Change(m, s, n, v).shared = own.shared
  BY DEF Change
<1> DEFINE same == Same(own, <<s, n>>)
           c == Change(m, s, n, v)
<1>4. same = {<<s, n>>}
  BY <1>2 DEF Same
<1>5. same = Same(own, <<s, n>>) /\ own = Shadow(m, s, n) /\ c = Change(m, s, n, v)
  OBVIOUS
<1> HIDE DEF own, same, c
<1>6. Reaches(own, c, same, v)
  BY <1>5, ChangeReaches
<1>7. RightMem(c)
  BY <1>1, <1>4, <1>6 DEF RightMem, Reaches
<1> QED
  BY <1>2, <1>3, <1>7 DEF c

(* setVar.                                                                 *)
LEMMA SetContentRight ==
    ASSUME NEW m, FaithfulMem(m), RightMem(m), Chains, NEW s \in Store, NEW n \in Name, NEW content
    PROVE  /\ RightMem(SetContent(m, s, n, content))
           /\ m.shared = {} => SetContent(m, s, n, content).shared = {}
<1> DEFINE v == Found(m, s, n)
           w == [v EXCEPT !.content = content, !.flags = Exported(@)]
<1>1. Faithful(v) /\ MemType(m)
  BY FoundFaithful DEF FaithfulMem
<1>2. w = [content |-> content, append |-> v.append, prepend |-> v.prepend,
           flags |-> Exported(v.flags)]
  BY <1>1, WithContentIs
<1>3. "matchesenv" \notin Exported(v.flags)
  BY <1>1, ExportedHasNoMatch DEF Faithful
<1>4. SetContent(m, s, n, content) = Change(m, s, n, w)
  BY DEF SetContent
<1> HIDE DEF w, v
<1>5. "matchesenv" \notin w.flags
  BY <1>2, <1>3
<1>6. Right(w, n)
  BY <1>5 DEF Right
<1> QED
  BY <1>1, <1>4, <1>5, <1>6, UnflaggedRight, UnsharedRight

(* inheritFromOS: a name of the environment, set and flagged.              *)
LEMMA InheritedRight ==
    ASSUME NEW m, FaithfulMem(m), RightMem(m), m.shared = {}, Chains,
           NEW s \in Store, chain[s] # {}, NEW n \in Name, n \in usage.env
    PROVE  RightMem(InheritedKey(m, s, n)) /\ InheritedKey(m, s, n).shared = {}
<1> DEFINE old == Found(m, s, n)
           w == [old EXCEPT !.content = <<n>>, !.flags = Exported(@)]
           set == SetContent(m, s, n, <<n>>)
           v == Found(set, s, n)
           x == [v EXCEPT !.flags = @ \cup {"matchesenv"}]
<1>1. Faithful(old)
  BY FoundFaithful
<1>2. Faithful(w) /\ w.content = <<n>>
  <2>1. w.content = <<n>>
    BY <1>1 DEF Faithful
  <2> QED
    BY <1>1, <2>1, WithContentFaithful
<1>3. w # None
  <2>1. w.content \in Seq(Piece) \cup {None}
    BY <1>2 DEF Piece
  <2> HIDE DEF w
  <2>2. w \in Var
    BY <1>2, <2>1 DEF Faithful, Var
  <2> QED
    BY <2>2, NoneIsNoVar
<1>4. set = Change(m, s, n, w)
  BY DEF SetContent
<1>5. FaithfulMem(set) /\ RightMem(set) /\ set.shared = {}
  BY SetContentFaithful, SetContentRight
<1> HIDE DEF w, set
<1>6. v = w
  BY <1>2, <1>3, <1>4, FoundAfterChange
<1>7. x.content = <<n>>
  <2>1. x.content = v.content
    <3>1. PICK c, a, p, f : v = [content |-> c, append |-> a, prepend |-> p, flags |-> f]
      BY <1>2, <1>6 DEF Faithful
    <3> HIDE DEF v
    <3> QED
      BY <3>1
  <2> QED
    BY <1>2, <1>6, <2>1
<1> HIDE DEF x, v
<1>8. Right(x, n)
  BY <1>7, BasesOfName DEF Right
<1>9. InheritedKey(m, s, n) = Change(set, s, n, x)
  BY DEF InheritedKey, x, v, set
<1> QED
  BY <1>5, <1>8, <1>9, UnsharedRight DEF FaithfulMem

(* expandKeys: a setVar of the new name, lists that move, a delVar.        *)
LEMMA ExpandedRight ==
    ASSUME NEW high \in Nat, high <= MaxPieces, NEW m, Sound(m, high), RightMem(m), Chains,
           NEW s \in Store, chain[s] # {}, NEW n \in Name
    PROVE  RightMem(ExpandedKey(m, s, n))
<1> DEFINE from == Found(m, s, n)
           to == Expanded[n]
           old == Found(m, s, to)
           w == [old EXCEPT !.content = from.content, !.flags = Exported(@)]
           set == SetContent(m, s, to, from.content)
           v == Found(set, s, to)
           append == v.append \o from.append
           prepend == v.prepend \o from.prepend
           x == [v EXCEPT !.append = append, !.prepend = prepend]
           moved == Change(set, s, to, x)
<1>1. /\ to \in Name /\ FaithfulMem(m) /\ Faithful(from) /\ Faithful(old)
      /\ Once(from, high)
  BY FoundOnce, DataStoreAssumption DEF Sound
<1>2. w = [content |-> from.content, append |-> old.append, prepend |-> old.prepend,
           flags |-> Exported(old.flags)]
  BY <1>1, WithContentIs
<1>3. Exported(old.flags) \in SUBSET Flag /\ "matchesenv" \notin Exported(old.flags)
  BY <1>1, ExportedHasNoMatch DEF Faithful
<1>4. from.content \in Seq(Piece) \cup {None}
  BY <1>1, OnceIsVar DEF Var
<1>5. set = Change(m, s, to, w)
  BY DEF SetContent
<1>6. FaithfulMem(set) /\ RightMem(set)
  BY <1>1, SetContentFaithful, SetContentRight
<1> HIDE DEF w, set, from, old, to
<1>7. Faithful(w) /\ w # None /\ "matchesenv" \notin w.flags
  <2>1. w \in Var
    BY <1>1, <1>2, <1>3, <1>4 DEF Faithful, Var
  <2> QED
    BY <1>1, <1>2, <1>3, <2>1, NoneIsNoVar DEF Faithful
<1>8. v = w
  BY <1>1, <1>5, <1>7, FoundAfterChange
<1> HIDE DEF v, append, prepend
<1>9. x = [content |-> v.content, append |-> append, prepend |-> prepend, flags |-> v.flags]
  BY <1>7, <1>8, WithListsIs
<1>10. "matchesenv" \notin x.flags
  BY <1>7, <1>8, <1>9
<1> HIDE DEF x
<1>11. Faithful(x)
  <2>1. append \in Seq(Pending) /\ prepend \in Seq(Pending)
    BY <1>1, <1>7, <1>8 DEF Faithful, append, prepend
  <2> QED
    BY <1>7, <1>8, <1>9, <2>1 DEF Faithful
<1>12. FaithfulMem(moved) /\ RightMem(moved)
  BY <1>1, <1>6, <1>10, <1>11, ChangeFaithful, UnflaggedRight DEF FaithfulMem
<1> HIDE DEF moved
<1>13. RightMem(Emptied(moved, s, n))
  <2>1. Right(NoVar, n)
    BY DEF Right, NoVar
  <2> QED
    BY <1>12, <2>1, PutRight DEF Emptied, FaithfulMem
<1>14. ExpandedKey(m, s, n) \in {m, Emptied(moved, s, n)}
  BY DEF ExpandedKey, moved, x, append, prepend, v, set, from, to
<1> QED
  BY <1>13, <1>14

(* update_data: an object under its base's name, and pieces that are due.  *)
LEMMA UpdatedRight ==
    ASSUME NEW m, FaithfulMem(m), RightMem(m), Chains, usage.env \subseteq Name,
           NEW s \in Store, NEW n \in Name
    PROVE  RightMem(UpdatedKey(m, s, n))
<1> DEFINE named == ApplyOverrides(m, s, n)
           v == Found(named, s, n)
           new == WithPending(v, Active(s))
<1>1. FaithfulMem(named) /\ RightMem(named)
  <2>1. CASE Base[n] # None /\ Cond[n] \in Active(s)
    <3>1. Base[n] \in Name
      BY <2>1, DataStoreAssumption
    <3> QED
      BY <2>1, <3>1, LinkFaithful, LinkRight DEF ApplyOverrides, FaithfulMem
  <2>2. CASE ~(Base[n] # None /\ Cond[n] \in Active(s))
    BY <2>2 DEF ApplyOverrides
  <2> QED
    BY <2>1, <2>2
<1> HIDE DEF named
<1>2. Faithful(v)
  BY <1>1, FoundFaithful
<1> HIDE DEF v
<1>3. new = v \/ \E content, append, prepend :
                    new = [content |-> content, append |-> append, prepend |-> prepend,
                           flags |-> Exported(v.flags)]
  BY DEF WithPending
<1>4. "matchesenv" \notin Exported(v.flags)
  BY <1>2, ExportedHasNoMatch DEF Faithful
<1>5. UpdatedKey(m, s, n) = IF new = v THEN named ELSE Change(named, s, n, new)
  BY DEF UpdatedKey, named, v, new
<1> HIDE DEF new
<1>6. new = v \/ "matchesenv" \notin new.flags
  BY <1>3, <1>4
<1> QED
  BY <1>1, <1>5, <1>6, UnflaggedRight DEF FaithfulMem

(* Every step keeps what has the flag right.                               *)
LEMMA NextEnvTrue == DataInv /\ EnvTrue /\ [Next]_vars => EnvTrue'
<1> SUFFICES ASSUME DataInv, EnvTrue, [Next]_vars PROVE EnvTrue'
  OBVIOUS
<1>1. /\ Sound(mem, pieces) /\ Chains /\ FaithfulMem(mem) /\ MemType(mem)
      /\ pieces \in Nat /\ pieces <= MaxPieces /\ usage.env \subseteq Name
  BY PiecesBounded, NamesOfUsage DEF DataInv, EnvInv, FaithfulMem
<1>2. usage' = usage
  BY DEF Next, InheritFromOS, LoadRecipe, LoopKey, CreateCopy, ExpandKeys, UpdateData, StartLoop,
         Linked, SetOverrides, SetVar, DelVar, SetAppend, SetPrepend, NewPiece, vars
<1>3. ASSUME RightMem(mem'), loop' = loop, loop.op # "inherit" PROVE EnvTrue'
  BY <1>2, <1>3 DEF EnvTrue, RightMem, Right
<1>4. ASSUME mem' = mem, loop'.op = "inherit" => mem.shared = {} PROVE EnvTrue'
  BY <1>2, <1>4 DEF EnvTrue, RightMem, Right
<1>5. Idle.op # "inherit"
  BY DEF Idle
<1>6. ASSUME NEW op, NEW s, NEW todo, StartLoop(op, s, todo), op = "inherit" => mem.shared = {}
      PROVE  EnvTrue'
  <2>1. mem' = mem /\ (loop' = Idle \/ loop'.op = op)
    BY <1>6 DEF StartLoop
  <2> QED
    BY <1>4, <1>5, <1>6, <2>1
<1>7. CASE InheritFromOS
  BY <1>6, <1>7 DEF InheritFromOS
<1>8. CASE LoadRecipe
  BY <1>4, <1>8 DEF LoadRecipe, Linked, EnvTrue
<1>9. CASE LoopKey
  <2> DEFINE s == loop.store
  <2>1. LoopTurns /\ s \in Store /\ chain[s] # {} /\ loop.todo \subseteq Name
    BY <1>9 DEF DataInv, LoopKey, Idle, EnvInv, LoopOK
  <2> PICK n \in loop.todo :
        /\ mem' = CASE loop.op = "inherit" -> InheritedKey(mem, s, n)
                    [] loop.op = "expand" -> ExpandedKey(mem, s, n)
                    [] OTHER -> UpdatedKey(mem, s, n)
        /\ loop' = IF loop.todo = {n} THEN Idle ELSE [loop EXCEPT !.todo = @ \ {n}]
    BY <1>9 DEF LoopKey
  <2>2. n \in Name
    BY <2>1
  <2>3. loop' = Idle \/ loop'.op = loop.op
    <3>1. loop = [op |-> loop.op, store |-> loop.store, todo |-> loop.todo, before |-> loop.before]
      BY <2>1 DEF LoopTurns
    <3>2. [loop EXCEPT !.todo = @ \ {n}].op = loop.op
      BY <3>1
    <3> QED
      BY <3>2
  <2>4. CASE loop.op = "inherit"
    <3>1. n \in usage.env /\ mem.shared = {} /\ mem' = InheritedKey(mem, s, n)
      BY <2>1, <2>4 DEF LoopTurns, EnvTrue
    <3> HIDE DEF s
    <3>2. RightMem(mem') /\ mem'.shared = {}
      BY <1>1, <2>1, <2>2, <3>1, InheritedRight DEF EnvTrue
    <3> QED
      BY <1>2, <3>2 DEF EnvTrue, RightMem, Right
  <2>5. CASE loop.op = "expand"
    <3>1. mem' = ExpandedKey(mem, s, n)
      BY <2>5
    <3> HIDE DEF s
    <3>2. RightMem(mem')
      BY <1>1, <2>1, <2>2, <3>1, ExpandedRight DEF EnvTrue
    <3> QED
      BY <1>2, <1>5, <2>3, <2>5, <3>2 DEF EnvTrue, RightMem, Right
  <2>6. CASE loop.op = "update"
    <3>1. mem' = UpdatedKey(mem, s, n)
      BY <2>6
    <3> HIDE DEF s
    <3>2. RightMem(mem')
      BY <1>1, <2>1, <2>2, <3>1, UpdatedRight DEF EnvTrue
    <3> QED
      BY <1>2, <1>5, <2>3, <2>6, <3>2 DEF EnvTrue, RightMem, Right
  <2> QED
    BY <2>1, <2>4, <2>5, <2>6 DEF LoopTurns
<1>10. ASSUME NEW s \in Store, CreateCopy(s) PROVE EnvTrue'
  BY <1>4, <1>10 DEF CreateCopy, Linked, EnvTrue
<1>11. ASSUME NEW s \in Store, ExpandKeys(s) PROVE EnvTrue'
  BY <1>6, <1>11 DEF ExpandKeys
<1>12. ASSUME NEW s \in Store, UpdateData(s) PROVE EnvTrue'
  BY <1>6, <1>12 DEF UpdateData
<1>13. ASSUME NEW s \in Store, NEW os, SetOverrides(s, os) PROVE EnvTrue'
  BY <1>4, <1>13 DEF SetOverrides, EnvTrue
<1>14. ASSUME NEW s \in Store, Called(s), loop' = loop, RightMem(mem') PROVE EnvTrue'
  BY <1>3, <1>5, <1>14 DEF Called
<1>15. ASSUME NEW s \in Store, NEW n \in Name, SetVar(s, n) PROVE EnvTrue'
  BY <1>1, <1>14, <1>15, SetContentRight DEF SetVar, NewPiece, EnvTrue
<1>16. ASSUME NEW s \in Store, NEW n \in Name, DelVar(s, n) PROVE EnvTrue'
  <2>1. Right(NoVar, n)
    BY DEF Right, NoVar
  <2> QED
    BY <1>1, <1>14, <1>16, <2>1, PutRight DEF DelVar, Emptied, EnvTrue
<1>17. ASSUME NEW s \in Store, NEW n \in Name, NEW o, SetAppend(s, n, o) \/ SetPrepend(s, n, o)
       PROVE  EnvTrue'
  <2> DEFINE v == Found(mem, s, n)
             p == [piece |-> pieces', for |-> o]
             w == IF SetAppend(s, n, o) THEN [v EXCEPT !.append = Append(@, p)]
                  ELSE [v EXCEPT !.prepend = Append(@, p)]
  <2>1. NewPiece(s, n) /\ mem' = Change(mem, s, n, w)
    BY <1>17 DEF SetAppend, SetPrepend
  <2>2. Called(s) /\ chain[s] # {} /\ loop' = loop
    BY <2>1 DEF NewPiece, Called
  <2>3. Faithful(v)
    BY <1>1, FoundFaithful
  <2>4. w.content = v.content /\ w.flags = v.flags
    <3>1. PICK c, a, b, f : v = [content |-> c, append |-> a, prepend |-> b, flags |-> f]
      BY <2>3 DEF Faithful
    <3> HIDE DEF v, p
    <3> QED
      BY <3>1
  <2> HIDE DEF w
  <2>5. RightMem(mem')
    BY <1>1, <2>1, <2>2, <2>4, SameContentRight DEF EnvTrue
  <2> QED
    BY <1>14, <2>2, <2>5
<1>18. CASE UNCHANGED vars
  BY <1>4, <1>18 DEF vars, EnvTrue
<1> QED
  BY <1>7, <1>8, <1>9, <1>10, <1>11, <1>12, <1>13, <1>15, <1>16, <1>17, <1>18 DEF Next

(* At first nothing has the flag.                                          *)
LEMMA InitEnvTrue == Init => EnvTrue
  BY DEF Init, EnvTrue, RightMem, Idle

(* A variable that is kept from a task's shell, having the flag, is as the *)
(* environment has it, be it under the variable's name or under that of a  *)
(* conditional version: no assignment, piece added, expansion or copy in   *)
(* any order leaves the flag on content that a file gave, to the variable  *)
(* or to any other that shares its object.                                 *)
THEOREM MatchesEnvIsTrue == Spec => []MatchesEnv
<1>1. Init => EnvTrue
  BY InitEnvTrue
<1>2. DataInv /\ EnvTrue /\ [Next]_vars => EnvTrue'
  BY NextEnvTrue
<1>3. EnvTrue => MatchesEnv
  BY DEF EnvTrue, RightMem, Right, MatchesEnv
<1> QED
  BY <1>1, <1>2, <1>3, DataInvAlways, PTL DEF Spec
=============================================================================
