----------------------------- MODULE DataStore ------------------------------
(***************************************************************************)
(* The metadata: class DataSmart of lib/bb/data_smart.py with expandKeys,  *)
(* update_data and inheritFromOS of lib/bb/data.py.                        *)
(*                                                                         *)
(* A store is a dictionary from names to objects, linked to the store it   *)
(* was copied from; a name is looked up along the links.  An object, the   *)
(* dictionary of a variable's flags, holds its content and the pending     *)
(* appends and prepends.  The code copies an object before it changes it   *)
(* in a store that had it from below (_makeShadowCopy), but `d[name] =     *)
(* d[var]` in update_data puts one object under two names, possibly of two *)
(* stores.  So the model keeps which entries hold the same object          *)
(* (`mem.shared`), and a change of an object is seen in all of them.       *)
(*                                                                         *)
(* Contents are sequences of pieces, one piece per setVar, and one for     *)
(* what the environment has under each name.  A name that ends in "_o" is a*)
(* conditional version of its base for the override o; one with "${...}" in*)
(* it is spelt out by expandKeys.  The order of a dictionary's keys is     *)
(* Python's: any.                                                          *)
(***************************************************************************)
EXTENDS Naturals, Sequences, SequencesExt

CONSTANTS
    Name,                       \* the names of variables, conditional ones included
    Override,                   \* the overrides names and appends may be for
    None,                       \* Python's None
    Base,                       \* Base[n]: the name without "_o", None if it has none
    Cond,                       \* Cond[n]: that o, None if it has none
    Expanded,                   \* Expanded[n]: the name with ${...} expanded
    Usages,                     \* what a run's metadata is made of, see Usage
    MaxPieces,                  \* bound: calls of setVar in a behaviour
    MaxStore                    \* bound: stores in a behaviour

(* The names in use and those of them in the process environment, the calls*)
(* made on them, what pending pieces are for, what OVERRIDES may have, and *)
(* bounds.                                                                 *)
Usage == [names : SUBSET Name, env : SUBSET Name, calls : SUBSET {"set", "append", "prepend", "del"},
          for : SUBSET (Override \cup {None}), overrides : SUBSET Override,
          stores : 1 .. MaxStore, pieces : 0 .. MaxPieces]

ASSUME DataStoreAssumption ==
    /\ None \notin Name \cup Override
    /\ Base \in [Name -> Name \cup {None}]
    /\ Cond \in [Name -> Override \cup {None}]
    /\ \A n \in Name : Base[n] # n /\ (Base[n] = None <=> Cond[n] = None)
    /\ Expanded \in [Name -> Name]
    /\ \A n \in Name : n \notin Nat
    /\ Usages \subseteq Usage
    /\ \A u \in Usages : u.env \subseteq u.names /\ \A n \in u.names : Expanded[n] \in u.names
    /\ MaxPieces \in Nat
    /\ MaxStore \in Nat \ {0}

Store == 1 .. MaxStore          \* 1 is the configuration, the others are copies
Piece == Name \cup 1 .. MaxPieces   \* what the environment has under a name, and a setVar's
Flag == {"matchesenv", "export"}
Entry == Store \X Name

Pending == [piece : Piece, for : Override \cup {None}]

(* The objects: a variable's flags.                                        *)
Var == [content : Seq(Piece) \cup {None}, append : Seq(Pending), prepend : Seq(Pending),
        flags : SUBSET Flag]

ASSUME NoneIsNoVar == None \notin Var /\ None \notin Store

(* n, the name that n is a conditional version of, and so on.              *)
Bases(n) ==
    {k \in Name : \A S \in SUBSET Name :
        (n \in S /\ \A i \in S : Base[i] \in S \cup {None}) => k \in S}

(* The text a name expands to has nothing left to expand, and that of      *)
(* "x_o" is one "_o" longer than that of "x".                              *)
ASSUME ExpansionAssumption ==
    /\ \A n \in Name : Expanded[Expanded[n]] = Expanded[n]
    /\ \A n \in Name : \A i, j \in Bases(n) : Expanded[i] = Expanded[j] => i = j

VARIABLES
    mem,                        \* .layer[s][n]: what s.dict has under n, None if no key;
                                \* .shared: the sets of entries that hold one object
    chain,                      \* chain[s]: s and the stores below it; {} before it exists
    overrides,                  \* overrides[s]: OVERRIDES as set in s, None if not set there
    usage,                      \* the one of Usages that this behaviour keeps to
    parsing,                    \* the recipe being parsed, None if none is
    pieces,                     \* calls of setVar so far
    loop                        \* the loop over keys in progress: [op, store, todo, before]

vars == <<mem, chain, overrides, usage, parsing, pieces, loop>>

NoVar == [content |-> None, append |-> <<>>, prepend |-> <<>>, flags |-> {}]

Idle == [op |-> "idle", store |-> 1, todo |-> {}, before |-> None]

-----------------------------------------------------------------------------
(* DataSmart._findVar: the nearest store that has the name.  Stores are    *)
(* numbered as they are made, so the nearest one has the highest number.   *)
Holders(m, s, n) == {t \in chain[s] : m.layer[t][n] # None}

Home(m, s, n) == CHOOSE t \in Holders(m, s, n) : \A u \in Holders(m, s, n) : u <= t

Found(m, s, n) ==
    IF Holders(m, s, n) = {} THEN NoVar ELSE m.layer[Home(m, s, n)][n]

(* DataSmart.keys                                                          *)
Keys(m, s) == {n \in Name : Holders(m, s, n) # {}}

(* OVERRIDES is a variable like any other.  The loop of update_data is over*)
(* the keys, so that the order of the overrides in it plays no part, though*)
(* the docstring of update_data has the last one win.                      *)
Active(s) ==
    LET having == {t \in chain[s] : overrides[t] # None}
    IN  IF having = {} THEN {}
        ELSE overrides[CHOOSE t \in having : \A u \in having : u <= t]

(* The entries that hold the object that e holds.                          *)
Same(m, e) == {e} \cup UNION {g \in m.shared : e \in g}

Several(g) == \E e, f \in g : e # f

(* The sharing that is left when e gets another object.                    *)
Detached(m, e) == {g \in {h \ {e} : h \in m.shared} : Several(g)}

(* Mutant of Put: the entry stays with the object it had.                  *)
PutKeepsSharing(m, s, n, v) == [m EXCEPT !.layer[s][n] = v]

(* dict[n] = a new object                                                  *)
Put(m, s, n, v) ==
    [layer |-> [m.layer EXCEPT ![s][n] = v], shared |-> Detached(m, <<s, n>>)]

(* dict[n] = dict[from], the object itself, from wherever it is            *)
Link(m, s, n, from) ==
    LET rest == Detached(m, <<s, n>>)
        others == Same(m, <<Home(m, s, from), from>>) \ {<<s, n>>}
    IN  [layer |-> [m.layer EXCEPT ![s][n] = Found(m, s, from)],
         shared |-> (rest \ {others}) \cup {others \cup {<<s, n>>}}]

(* Mutant of Shadow: the object is taken over, not copied.                 *)
ShadowLinks(m, s, n) ==
    IF n \notin Keys(m, s) THEN Put(m, s, n, NoVar)
    ELSE IF m.layer[s][n] # None THEN m
    ELSE Link(m, s, n, n)

(* DataSmart._makeShadowCopy                                               *)
Shadow(m, s, n) ==
    IF m.layer[s][n] # None THEN m ELSE Put(m, s, n, Found(m, s, n))

(* A change of n in s: copy the object if it is from below, then change it *)
(* in place.                                                               *)
Change(m, s, n, v) ==
    LET own == Shadow(m, s, n)
        same == Same(own, <<s, n>>)
    IN  [layer |-> [t \in Store |-> [k \in Name |->
                       IF <<t, k>> \in same THEN v ELSE own.layer[t][k]]],
         shared |-> own.shared]

(* Mutant of Exported: the flag survives the change of the content.        *)
ExportedAsIs(flags) == flags

(* setVar: a variable that differs from the environment is exported.       *)
Exported(flags) ==
    IF "matchesenv" \in flags THEN (flags \ {"matchesenv"}) \cup {"export"} ELSE flags

(* DataSmart.setVar for a name without a keyword                           *)
SetContent(m, s, n, content) ==
    LET v == Found(m, s, n)
    IN  Change(m, s, n, [v EXCEPT !.content = content, !.flags = Exported(@)])

(* DataSmart.delVar: an empty object, which hides what is below.           *)
Emptied(m, s, n) == Put(m, s, n, NoVar)

-----------------------------------------------------------------------------
Init ==
    /\ mem = [layer |-> [s \in Store |-> [n \in Name |-> None]], shared |-> {}]
    /\ chain = [s \in Store |-> IF s = 1 THEN {1} ELSE {}]
    /\ overrides = [s \in Store |-> None]
    /\ usage \in Usages
    /\ parsing = None
    /\ pieces = 0
    /\ loop = Idle

(* A call of the interface on store s: not within a loop over keys, and    *)
(* only the parser's while a recipe is parsed.                             *)
Called(s) == loop = Idle /\ chain[s] # {} /\ parsing \in {None, s}

(* A new store, empty and linked to s.                                     *)
Linked(s, new) ==
    /\ Called(s)
    /\ chain[new] = {} /\ new <= usage.stores
    /\ \A t \in Store : t < new => chain[t] # {}
    /\ chain' = [chain EXCEPT ![new] = chain[s] \cup {new}]
    /\ UNCHANGED <<mem, overrides, usage, pieces, loop>>

(* createCopy: the data of one task, of one download.                      *)
CreateCopy(s) ==
    /\ parsing = None
    /\ \E new \in Store : Linked(s, new)
    /\ UNCHANGED parsing

(* load_bbfile: the data of a recipe, over the configuration.              *)
LoadRecipe ==
    \E new \in Store : Linked(1, new) /\ parsing' = new

(* A setVar brings a new piece.                                            *)
NewPiece(s, n) ==
    /\ Called(s)
    /\ n \in usage.names
    /\ pieces < usage.pieces
    /\ pieces' = pieces + 1
    /\ UNCHANGED <<chain, overrides, usage, parsing, loop>>

(* setVar("n", ...)                                                        *)
SetVar(s, n) ==
    /\ "set" \in usage.calls
    /\ NewPiece(s, n)
    /\ mem' = SetContent(mem, s, n, <<pieces'>>)

(* setVar("n_append", ...) or, with an override o, setVar("n_append_o",    *)
(* ...): a flag of n.  getVarFlag gave a copy of the list.                 *)
SetAppend(s, n, o) ==
    /\ "append" \in usage.calls
    /\ o \in usage.for
    /\ NewPiece(s, n)
    /\ LET v == Found(mem, s, n)
       IN  mem' = Change(mem, s, n,
               [v EXCEPT !.append = Append(@, [piece |-> pieces', for |-> o])])

(* setVar("n_prepend", ...), setVar("n_prepend_o", ...)                    *)
SetPrepend(s, n, o) ==
    /\ "prepend" \in usage.calls
    /\ o \in usage.for
    /\ NewPiece(s, n)
    /\ LET v == Found(mem, s, n)
       IN  mem' = Change(mem, s, n,
               [v EXCEPT !.prepend = Append(@, [piece |-> pieces', for |-> o])])

DelVar(s, n) ==
    /\ Called(s)
    /\ "del" \in usage.calls
    /\ n \in usage.names
    /\ mem' = Emptied(mem, s, n)
    /\ UNCHANGED <<chain, overrides, usage, parsing, pieces, loop>>

(* setVar("OVERRIDES", ...)                                                *)
SetOverrides(s, os) ==
    /\ Called(s)
    /\ usage.overrides # {} /\ os \subseteq usage.overrides
    /\ overrides' = [overrides EXCEPT ![s] = os]
    /\ UNCHANGED <<mem, chain, usage, parsing, pieces, loop>>

-----------------------------------------------------------------------------
(* Three operations are loops; a turn of a loop is a step, LoopKey.        *)
StartLoop(op, s, todo) ==
    /\ Called(s)
    /\ loop' = IF todo = {} THEN Idle
               ELSE [op |-> op, store |-> s, todo |-> todo, before |-> mem]
    /\ UNCHANGED <<mem, chain, overrides, usage, pieces>>

(* inheritFromOS, which begins the reading of a configuration file: before *)
(* there are recipes and, that being done, an update_data that links names.*)
InheritFromOS ==
    /\ \A s \in Store \ {1} : chain[s] = {}
    /\ mem.shared = {}
    /\ StartLoop("inherit", 1, usage.env)
    /\ UNCHANGED parsing

(* expandKeys, the end of a recipe's parse: over the keys there are then,  *)
(* those with nothing to expand being left alone.                          *)
ExpandKeys(s) ==
    /\ parsing = s
    /\ StartLoop("expand", s, {n \in Keys(mem, s) : Expanded[n] # n})
    /\ parsing' = None

UpdateData(s) ==
    /\ parsing = None
    /\ StartLoop("update", s, Keys(mem, s))
    /\ UNCHANGED parsing

(* One turn of the loop of inheritFromOS: setVar, setVarFlag.              *)
InheritedKey(m, s, n) ==
    LET set == SetContent(m, s, n, <<n>>)
        v == Found(set, s, n)
    IN  Change(set, s, n, [v EXCEPT !.flags = @ \cup {"matchesenv"}])

(* One turn of the loop of expandKeys: content and pending lists move to   *)
(* the expanded name; a name without content stays as it is.               *)
ExpandedKey(m, s, n) ==
    LET to == Expanded[n]
        from == Found(m, s, n)
        set == SetContent(m, s, to, from.content)
        v == Found(set, s, to)
        moved == Change(set, s, to, [v EXCEPT !.append = @ \o from.append,
                                              !.prepend = @ \o from.prepend])
    IN  IF from.content = None THEN m ELSE Emptied(moved, s, n)

(* applyOverrides in update_data: `d[name] = d[var]`, the object itself.   *)
ApplyOverrides(m, s, n) ==
    IF Base[n] # None /\ Cond[n] \in Active(s)
    THEN Link(m, s, Base[n], n)
    ELSE m

(* Pieces of a pending list that are for no override or for an active one. *)
DueOne(sofar, p, active) ==
    IF p.for \in active \cup {None} THEN Append(sofar, p.piece) ELSE sofar

Due(pending, active) ==
    LET due[i \in 0 .. Len(pending)] ==
            IF i = 0 THEN <<>> ELSE DueOne(due[i - 1], pending[i], active)
    IN  due[Len(pending)]

(* Mutants of WithPending: the lists are kept; prepends in the order given.*)
WithPendingKept(v, active) ==
    LET front == Due(v.prepend, active)
        back == Due(v.append, active)
        content == IF v.content = None THEN <<>> ELSE v.content
    IN  IF front = <<>> /\ back = <<>> THEN v
        ELSE [v EXCEPT !.content = Reverse(front) \o content \o back]

WithPendingInOrder(v, active) ==
    LET front == Due(v.prepend, active)
        back == Due(v.append, active)
        content == IF v.content = None THEN <<>> ELSE v.content
    IN  IF front = <<>> /\ back = <<>> THEN v
        ELSE [content |-> front \o content \o back,
              append |-> IF back = <<>> THEN v.append ELSE <<>>,
              prepend |-> IF front = <<>> THEN v.prepend ELSE <<>>,
              flags |-> Exported(v.flags)]

(* What a variable is after its pending lists: the due pieces are added,   *)
(* the last prepend first; a list with a due piece is dropped whole, the   *)
(* pieces that are for overrides not yet active too, for all that a comment*)
(* in update_data has it keep them.                                        *)
WithPending(v, active) ==
    LET front == Due(v.prepend, active)
        back == Due(v.append, active)
        content == IF v.content = None THEN <<>> ELSE v.content
    IN  IF front = <<>> /\ back = <<>> THEN v
        ELSE [content |-> Reverse(front) \o content \o back,
              append |-> IF back = <<>> THEN v.append ELSE <<>>,
              prepend |-> IF front = <<>> THEN v.prepend ELSE <<>>,
              flags |-> Exported(v.flags)]

(* One turn of the loop of update_data.                                    *)
UpdatedKey(m, s, n) ==
    LET named == ApplyOverrides(m, s, n)
        v == Found(named, s, n)
        new == WithPending(v, Active(s))
    IN  IF new = v THEN named ELSE Change(named, s, n, new)

LoopKey ==
    \E n \in loop.todo :
        /\ mem' = CASE loop.op = "inherit" -> InheritedKey(mem, loop.store, n)
                    [] loop.op = "expand" -> ExpandedKey(mem, loop.store, n)
                    [] OTHER -> UpdatedKey(mem, loop.store, n)
        /\ loop' = IF loop.todo = {n} THEN Idle ELSE [loop EXCEPT !.todo = @ \ {n}]
        /\ UNCHANGED <<chain, overrides, usage, parsing, pieces>>

Next ==
    \/ InheritFromOS
    \/ LoadRecipe
    \/ LoopKey
    \/ \E s \in Store :
        \/ CreateCopy(s)
        \/ ExpandKeys(s)
        \/ UpdateData(s)
        \/ \E os \in SUBSET Override : SetOverrides(s, os)
        \/ \E n \in Name :
            \/ SetVar(s, n)
            \/ DelVar(s, n)
            \/ \E o \in Override \cup {None} : SetAppend(s, n, o) \/ SetPrepend(s, n, o)

Spec == Init /\ [][Next]_vars

-----------------------------------------------------------------------------
(* Types; a loop ends with its last key.  Entries that share an object     *)
(* read the same, and no entry is in two classes of sharing.               *)
TypeOK ==
    /\ mem.layer \in [Store -> [Name -> Var \cup {None}]]
    /\ \A g \in mem.shared :
        /\ g \subseteq Entry /\ Several(g)
        /\ \A e, f \in g : mem.layer[e[1]][e[2]] = mem.layer[f[1]][f[2]]
        /\ \A h \in mem.shared : g = h \/ g \cap h = {}
    /\ chain \in [Store -> SUBSET Store]
    /\ \A s \in Store : \A t \in chain[s] : t <= s /\ s \in chain[s] /\ chain[t] \subseteq chain[s]
    /\ overrides \in [Store -> (SUBSET Override) \cup {None}]
    /\ usage \in Usages
    /\ parsing \in Store \cup {None}
    /\ pieces \in 0 .. MaxPieces
    /\ loop = Idle \/ /\ loop.op \in {"inherit", "expand", "update"}
                      /\ loop.store \in Store /\ chain[loop.store] # {}
                      /\ loop.todo \in (SUBSET (Keys(mem, loop.store) \cup usage.env)) \ {{}}

(* A step on one store: no other store's own entries change.  "any try to  *)
(* modify one of them will end up putting the modified value in the        *)
(* destination set" (data.createCopy).                                     *)
ChangesOneLayer ==
    \E s \in Store : \A t \in Store \ {s} : mem'.layer[t] = mem.layer[t]

CopyOnWrite == [][ChangesOneLayer]_vars

(* Copies are independent when the metadata has no conditional versions,   *)
(* the one case in which update_data shares no object.                     *)
CopyOnWriteUnlessConditional ==
    [][(\A n \in usage.names : Base[n] = None) => ChangesOneLayer]_vars

(* A piece is in a variable once at most: no append or prepend is applied  *)
(* twice, through copies made while it was pending, shared objects,        *)
(* repeated update_data or expandKeys.                                     *)
AppendedOnce ==
    \A s \in Store, n \in Name : mem.layer[s][n] # None /\ mem.layer[s][n].content # None =>
        \A i, j \in DOMAIN mem.layer[s][n].content :
            mem.layer[s][n].content[i] = mem.layer[s][n].content[j] => i = j

(* A variable with its due pieces, one after the other as the docstring of *)
(* update_data shows it, and without the lists that had one.               *)
Applied(v, active) ==
    LET due(p) == p.for \in active \cup {None}
        text(c) == IF c = None THEN <<>> ELSE c
        appended(c, p) == Append(text(c), p.piece)
        prepended(c, p) == <<p.piece>> \o text(c)
        left(list) == IF SelectSeq(list, due) = <<>> THEN list ELSE <<>>
    IN  [content |-> FoldLeft(prepended,
                              FoldLeft(appended, v.content, SelectSeq(v.append, due)),
                              SelectSeq(v.prepend, due)),
         append |-> left(v.append), prepend |-> left(v.prepend)]

(* Whatever the order of the keys, update_data leaves a variable wholly as *)
(* one of its conditional versions for the active overrides, else as it    *)
(* was, content and pending lists with the due pieces applied once.  Of    *)
(* several active versions the last one in the order of the keys wins, be  *)
(* it that of the last override, as the docstring promises, or not.        *)
(* Versions that come from below and have pieces due are left out: there   *)
(* the order of the keys decides; and so are versions of versions.         *)
UpdateTakesOneVersion ==
    [][loop.op = "update" /\ loop' = Idle =>
        LET s == loop.store
            active == Active(s)
            before(n) == Found(loop.before, s, n)
            versions(n) == {k \in Keys(loop.before, s) : Base[k] = n /\ Cond[k] \in active}
            plain(k) == /\ loop.before.layer[s][k] # None
                           \/ Applied(before(k), active).content = before(k).content
                        /\ versions(k) = {}
        IN  \A n \in Keys(mem', s) : (\A k \in versions(n) : plain(k)) =>
                LET after == Found(mem', s, n)
                IN  \E k \in IF versions(n) = {} THEN {n} ELSE versions(n) :
                        [content |-> after.content, append |-> after.append,
                         prepend |-> after.prepend] = Applied(before(k), active)]_vars

(* matchesenv keeps a variable from being exported to a task's shell.  What*)
(* has the flag is as the environment has it, or a conditional version of  *)
(* it: update_data puts that version's object under the variable, flag and *)
(* all.  It is never as any file has set it.                               *)
MatchesEnv ==
    \A s \in Store, n \in Name :
        mem.layer[s][n] # None /\ "matchesenv" \in mem.layer[s][n].flags =>
            \E k \in usage.env : n \in Bases(k) /\ mem.layer[s][n].content = <<k>>
=============================================================================
