--------------------------- MODULE Builds_proofs ---------------------------
(***************************************************************************)
(* For any sessions, times and numbers of faults: Builds keeps its types,  *)
(* a file that has its .md5 is verified, whatever is edited, killed,       *)
(* broken or fetched before or after it, and a do_fetch that succeeds      *)
(* leaves what it was for.                                                 *)
(*                                                                         *)
(* And what a process takes from the recipe cache is as new as what it     *)
(* could see, what is cached is used as long as nothing changed, and       *)
(* loading fails for a reason.  First, what every step does to the         *)
(* processes, field by field.  Then the invariants, each from the ones     *)
(* before it: TimesInv (noted times are past), NotesInv (what a recipe     *)
(* notes while it is parsed), FreshInv (a time that is not past says what  *)
(* the content is), CurrentInv (nothing changes during a load), DatedInv (a*)
(* process's own mtimes against the cache's), and, for a process that is   *)
(* alone, FailInv and ChangedInv.                                          *)
(***************************************************************************)
EXTENDS Builds, WellFoundedInduction, TLAPS

(* A set of natural numbers has a least one.                               *)
LEMMA NaturalOrder == \E R : IsWellFoundedOn(R, Nat) /\ \A i, j \in Nat : j < i => <<j, i>> \in R
<1>1. \A i, j \in Nat : j < i => <<j, i>> \in OpToRel(<, Nat)
  BY DEF OpToRel
<1>2. QED BY <1>1, NatLessThanWellFounded, Zenon

LEMMA LeastExists ==
  ASSUME NEW T \in SUBSET Nat, T # {}
  PROVE  \E i \in T : \A j \in T : i <= j
<1>1. PICK R : IsWellFoundedOn(R, Nat) /\ \A i, j \in Nat : j < i => <<j, i>> \in R
  BY NaturalOrder
<1>2. PICK i \in T : \A j \in T : ~ (<<j, i>> \in R)
  BY <1>1, WFMin, Zenon
<1>3. \A j \in T : ~ (j < i)
  BY <1>1, <1>2, Zenon
<1>4. \A j \in T : i <= j
  BY <1>3
<1>5. QED BY <1>4

---------------------------------------------------------------------------
(* The recipe cache.                                                       *)

LoadPC == {"idle", "stat", "unpickle", "deps", "mark class", "read class", "read bb",
           "mark inc", "read inc", "open", "dump", "loaded", "using", "failed"}

Proc == [pc : LoadPC, i : Nat, mt : [File -> 0..now], cfg : Metadata, d : Metadata,
         seen : [File -> 0..MaxVersion]]

(* Where there is a cached recipe, and where a recipe was read.            *)
HasCache == {"unpickle", "deps", "loaded", "using"}
HasRead == {"mark inc", "read inc", "open", "dump"}

ProcOK(p, proc) ==
    /\ proc \in Proc
    /\ proc.pc = "deps" => proc.i \in DOMAIN Depends
    /\ proc.pc \in HasCache => cache.data # None
    /\ proc.pc \in HasRead => proc.d.ver["bb"] # 0
    /\ p \notin session.procs => proc.pc = "idle"

WorldOK ==
    /\ now \in 1..MaxTime
    /\ files \in [File -> [at : 0..now, ver : 0..MaxVersion]]
    /\ files["bb"].at # 0 /\ files["bb"].ver # 0
    /\ cache \in [at : 0..now, data : Metadata \union {None, Torn}]
    /\ cache.data = None <=> cache.at = 0
    /\ cache.data \notin {None, Torn} => cache.data.ver["bb"] # 0

CacheInv ==
    /\ WorldOK
    /\ ps = [p \in Process |-> ps[p]]
    /\ \A p \in Process : ProcOK(p, ps[p])

USE SessionsAssumption, TimeAssumption, FaultsAssumption, CacheAssumption, FetchAssumption

LEMMA CacheInitOK == ASSUME CacheInit PROVE CacheInv
<1>1. Idle \in Proc
  BY DEF CacheInit, Idle, Proc, LoadPC, Metadata, Never
<1>2. WorldOK
  BY DEF CacheInit, WorldOK, File
<1>3. \A p \in Process : ProcOK(p, ps[p])
  BY <1>1 DEF CacheInit, ProcOK, Idle, HasCache, HasRead
<1>4. QED BY <1>2, <1>3 DEF CacheInv, CacheInit

(* A process moves, and nothing else.                                      *)
LEMMA ProcMoves ==
  ASSUME CacheInv, NEW p \in Process, NEW proc, ProcOK(p, proc), Becomes(p, proc),
         UNCHANGED <<session, now, files, cache>>
  PROVE  CacheInv'
<1>1. WorldOK'
  BY DEF CacheInv, WorldOK
<1>2. \A q \in Process : ProcOK(q, ps[q])'
  BY DEF CacheInv, ProcOK, Becomes, Proc
<1>3. QED BY <1>1, <1>2 DEF CacheInv, Becomes

(* mtimes are those of files, or were.                                     *)
LEMMA MtimeType ==
  ASSUME CacheInv, NEW p \in Process, NEW f \in File
  PROVE  /\ Mtime(p, f) \in 0..now
         /\ f = "bb" => Mtime(p, f) # 0
         /\ Asked(p, f) = [ps[p] EXCEPT !.mt = [@ EXCEPT ![f] = Mtime(p, f)]]
         /\ Asked(p, f) \in Proc
<1>1. ps[p] \in Proc /\ files[f] \in [at : 0..now, ver : 0..MaxVersion]
  BY DEF CacheInv, WorldOK, ProcOK
<1>2. Mtime(p, f) \in 0..now /\ (f = "bb" => Mtime(p, f) # 0)
  BY <1>1 DEF Mtime, Proc, CacheInv, WorldOK
<1>3. Asked(p, f) = [ps[p] EXCEPT !.mt = [@ EXCEPT ![f] = Mtime(p, f)]]
  BY <1>1 DEF Asked, Proc
<1>4. QED BY <1>1, <1>2, <1>3 DEF Proc

LEMMA StartOK ==
  ASSUME CacheInv, NEW p \in Process, Start(p), UNCHANGED session PROVE CacheInv'
<1> DEFINE cfg == [ver |-> [Never EXCEPT !["conf"] = files["conf"].ver,
                                         !["local"] = files["local"].ver],
                   deps |-> [Never EXCEPT !["local"] = files["local"].at]]
           proc == [Idle EXCEPT !.pc = "stat", !.mt = cfg.deps, !.cfg = cfg, !.seen = Versions]
<1>1. \A f \in File : files[f].at \in 0..now /\ files[f].ver \in 0..MaxVersion /\ now \in 1..MaxTime
  BY DEF CacheInv, WorldOK
<1>2. cfg \in Metadata /\ cfg.deps \in [File -> 0..now]
  BY <1>1 DEF Metadata, Never, File
<1>3. Versions \in [File -> 0..MaxVersion]
  BY <1>1 DEF Versions
<1>4. Idle \in Proc
  BY <1>1 DEF Idle, Metadata, Never, File, Proc, LoadPC
<1> HIDE DEF cfg
<1>5. proc \in Proc /\ proc.pc = "stat"
  BY <1>2, <1>3, <1>4 DEF Proc, LoadPC
<1> HIDE DEF proc
<1>6. ProcOK(p, proc)
  BY <1>5 DEF ProcOK, HasCache, HasRead, Start
<1>7. Becomes(p, proc) /\ UNCHANGED <<session, now, files, cache>>
  BY DEF Start, cfg, proc
<1>8. QED BY <1>6, <1>7, ProcMoves

(* A process that does something is one of the session's.                  *)
LEMMA Active ==
  ASSUME CacheInv, NEW p \in Process, ps[p].pc # "idle"
  PROVE  p \in session.procs /\ ps[p] \in Proc
BY DEF CacheInv, ProcOK

LEMMA ParsingOK ==
  ASSUME NEW p \in session.procs, NEW proc \in Proc PROVE ProcOK(p, Parsing(proc))
BY DEF Parsing, ProcOK, Proc, LoadPC, HasCache, HasRead

LEMMA StatCacheOK ==
  ASSUME CacheInv, NEW p \in Process, StatCache(p), UNCHANGED session PROVE CacheInv'
<1> DEFINE asked == Asked(p, "bb")
<1>1. asked \in Proc /\ Mtime(p, "bb") \in 0..now /\ Mtime(p, "bb") # 0 /\ p \in session.procs
  BY MtimeType, Active DEF File, StatCache, At
<1>2. CASE Mtime(p, "bb") > cache.at
  BY <1>1, <1>2, ParsingOK, ProcMoves DEF StatCache
<1>3. CASE ~ (Mtime(p, "bb") > cache.at)
  <2>1. cache.data # None
    BY <1>1, <1>3 DEF CacheInv, WorldOK
  <2>2. ProcOK(p, [asked EXCEPT !.pc = "unpickle"])
    BY <1>1, <2>1 DEF ProcOK, Proc, LoadPC, HasCache, HasRead
  <2>3. QED BY <1>3, <2>2, ProcMoves DEF StatCache
<1>4. QED BY <1>2, <1>3

(* To fail and to unpickle are possible from wherever there is a recipe.   *)
LEMMA FailedOK ==
  ASSUME CacheInv, NEW p \in Process, ps[p].pc # "idle"
  PROVE  ProcOK(p, [ps[p] EXCEPT !.pc = "failed"])
BY Active DEF ProcOK, Proc, LoadPC, HasCache, HasRead

LEMMA UnpickledOK ==
  ASSUME CacheInv, NEW p \in Process, NEW pc \in {"deps", "using"}, ps[p].pc \in HasCache
  PROVE  /\ ProcOK(p, Unpickled(p, pc))
         /\ Unpickled(p, pc).pc = pc => Unpickled(p, pc).d.ver["bb"] \in 1..MaxVersion
<1>1. p \in session.procs /\ ps[p] \in Proc /\ cache.data # None
  BY Active DEF CacheInv, ProcOK, HasCache
<1>2. CASE cache.data = Torn
  <2>1. Unpickled(p, pc) = [ps[p] EXCEPT !.pc = "failed"]
    BY <1>2 DEF Unpickled
  <2>2. [ps[p] EXCEPT !.pc = "failed"].pc = "failed"
    BY <1>1 DEF Proc
  <2>3. QED BY <1>1, <2>1, <2>2, FailedOK DEF HasCache
<1>3. CASE cache.data # Torn
  <2>1. cache.data \in Metadata /\ cache.data.ver["bb"] \in 1..MaxVersion
    BY <1>1, <1>3 DEF CacheInv, WorldOK, Metadata, File
  <2> DEFINE proc == ps[p]
             d == cache.data
             x == [proc EXCEPT !.pc = pc, !.d = d, !.i = 1]
  <2>2. Unpickled(p, pc) = x
    BY <1>3 DEF Unpickled
  <2>3. pc \in LoadPC /\ 1 \in DOMAIN Depends
    <3>1. pc \in LoadPC         BY DEF LoadPC
    <3>2. 1 \in DOMAIN Depends  BY DEF Depends
    <3>3. QED BY <3>1, <3>2
  <2>4. x \in Proc /\ x.pc = pc /\ x.i = 1 /\ x.d = d
    <3>1. proc \in Proc /\ d \in Metadata
      BY <1>1, <2>1
    <3> HIDE DEF proc, d
    <3>2. QED BY <2>3, <3>1 DEF Proc
  <2> HIDE DEF x
  <2>5. ProcOK(p, x)
    BY <1>1, <2>3, <2>4 DEF ProcOK, HasCache, HasRead
  <2>6. QED BY <2>1, <2>2, <2>4, <2>5
<1>4. QED BY <1>2, <1>3

LEMMA UnpickleOK ==
  ASSUME CacheInv, NEW p \in Process, Unpickle(p) \/ Use(p), UNCHANGED session PROVE CacheInv'
BY UnpickledOK, ProcMoves DEF Unpickle, Use, At, HasCache

LEMMA CheckDepOK ==
  ASSUME CacheInv, NEW p \in Process, CheckDep(p), UNCHANGED session PROVE CacheInv'
<1> DEFINE f == Depends[ps[p].i]
           next == [Asked(p, f) EXCEPT !.i = @ + 1,
                      !.pc = IF ps[p].i = Len(Depends) THEN "loaded" ELSE "deps"]
           same == [next EXCEPT !.mt = ps[p].mt]
<1>1. /\ p \in session.procs /\ ps[p] \in Proc /\ ps[p].i \in 1..3 /\ cache.data # None
      /\ At(p, "deps")
  BY Active DEF CheckDep, At, CacheInv, ProcOK, Depends, HasCache
<1>2. f \in File
  BY <1>1 DEF Depends, File
<1>3. /\ Asked(p, f) \in Proc /\ Asked(p, f).i = ps[p].i
  BY <1>1, <1>2, MtimeType DEF Proc
<1>4. \/ Becomes(p, same)
      \/ Becomes(p, [ps[p] EXCEPT !.pc = "failed"])
      \/ Becomes(p, Parsing(Asked(p, f)))
      \/ Becomes(p, next)
  BY DEF CheckDep
<1>5. UNCHANGED <<session, now, files, cache>>
  BY DEF CheckDep
<1> HIDE DEF f
<1> DEFINE pc == IF ps[p].i = Len(Depends) THEN "loaded" ELSE "deps"
           asked == Asked(p, f)
<1>6. /\ next \in Proc /\ next.i = ps[p].i + 1
      /\ next.pc = IF ps[p].i = 3 THEN "loaded" ELSE "deps"
  <2>1. pc = (IF ps[p].i = 3 THEN "loaded" ELSE "deps") /\ pc \in LoadPC
    BY DEF Depends, LoadPC
  <2>2. asked \in Proc /\ asked.i = ps[p].i /\ ps[p].i \in Nat
    BY <1>1, <1>3
  <2> HIDE DEF pc, asked
  <2>3. [asked EXCEPT !.i = @ + 1, !.pc = pc] = [asked EXCEPT !.i = asked.i + 1, !.pc = pc]
    BY <2>2 DEF Proc
  <2>4. asked.i + 1 \in Nat
    BY <2>2
  <2>5. LET x == [asked EXCEPT !.i = asked.i + 1, !.pc = pc]
        IN  x \in Proc /\ x.i = asked.i + 1 /\ x.pc = pc
    BY <2>1, <2>2, <2>4 DEF Proc
  <2>6. QED BY <2>1, <2>2, <2>3, <2>5 DEF asked, pc
<1> HIDE DEF next
<1>7. same \in Proc /\ same.i = next.i /\ same.pc = next.pc
  BY <1>1, <1>6 DEF Proc
<1> HIDE DEF same
<1>8. ProcOK(p, next) /\ ProcOK(p, same)
  BY <1>1, <1>6, <1>7 DEF ProcOK, Depends, HasCache, HasRead
<1>9. ProcOK(p, [ps[p] EXCEPT !.pc = "failed"]) /\ ProcOK(p, Parsing(Asked(p, f)))
  BY <1>1, <1>3, FailedOK, ParsingOK DEF At
<1>10. QED BY SMTT(30), <1>4, <1>5, <1>8, <1>9, ProcMoves

(* The parser's places, file by file.                                      *)
LEMMA PlacesOf ==
  ASSUME NEW f
  PROVE  /\ f = "class" => /\ Marking[f] = "mark class" /\ Reading[f] = "read class"
                           /\ AfterRead(f) = "read bb"
         /\ f = "bb"    => Reading[f] = "read bb" /\ AfterRead(f) = "mark inc"
         /\ f = "inc"   => /\ Marking[f] = "mark inc" /\ Reading[f] = "read inc"
                           /\ AfterRead(f) = "open"
<1>1. /\ Marking["class"] = "mark class" /\ Marking["inc"] = "mark inc"
      /\ Reading["class"] = "read class" /\ Reading["bb"] = "read bb" /\ Reading["inc"] = "read inc"
  BY DEF Marking, Reading
<1>2. AfterRead("class") = "read bb" /\ AfterRead("bb") = "mark inc" /\ AfterRead("inc") = "open"
  BY DEF AfterRead
<1>3. CASE f = "class"  BY <1>1, <1>2, <1>3
<1>4. CASE f = "bb"     BY <1>1, <1>2, <1>4
<1>5. CASE f = "inc"    BY <1>1, <1>2, <1>5
<1>6. QED BY <1>3, <1>4, <1>5

LEMMA MarkOK ==
  ASSUME CacheInv, NEW p \in Process, NEW f \in {"class", "inc"}, Mark(p, f), UNCHANGED session
  PROVE  CacheInv'
<1> DEFINE asked == Asked(p, f)
           proc == [asked EXCEPT !.pc = Reading[f], !.d.deps[f] = Mtime(p, f)]
<1>1. ps[p].pc = (IF f = "class" THEN "mark class" ELSE "mark inc")
  BY PlacesOf DEF Mark, At
<1>2. /\ Reading[f] = (IF f = "class" THEN "read class" ELSE "read inc") /\ f \in File
      /\ Reading[f] \in LoadPC
  BY PlacesOf DEF File, LoadPC
<1>3. p \in session.procs /\ ps[p] \in Proc
  BY <1>1, Active
<1>4. asked \in Proc /\ asked.d = ps[p].d /\ Mtime(p, f) \in 0..MaxTime
  <2>1. Mtime(p, f) \in 0..now /\ now \in 1..MaxTime
    BY <1>2, MtimeType DEF CacheInv, WorldOK
  <2>2. asked \in Proc /\ asked = [ps[p] EXCEPT !.mt = [@ EXCEPT ![f] = Mtime(p, f)]]
    BY <1>2, MtimeType
  <2>3. QED BY <1>3, <2>1, <2>2 DEF Proc
<1>5. f = "inc" => ps[p].d.ver["bb"] # 0
  BY <1>1 DEF CacheInv, ProcOK, HasRead
<1> HIDE DEF asked
<1>6. proc \in Proc /\ proc.pc = Reading[f] /\ proc.d.ver = ps[p].d.ver
  <2> DEFINE pc == Reading[f]
             t == Mtime(p, f)
             d == [asked.d EXCEPT !.deps[f] = t]
  <2>1. pc \in LoadPC /\ t \in 0..MaxTime /\ f \in File /\ asked \in Proc
    BY <1>2, <1>4
  <2> HIDE DEF pc, t
  <2>2. d \in Metadata /\ d.ver = asked.d.ver
    BY <2>1 DEF Proc, Metadata
  <2>3. [asked EXCEPT !.pc = pc, !.d.deps[f] = t] = [asked EXCEPT !.pc = pc, !.d = d]
    BY <2>1 DEF Proc
  <2> HIDE DEF d
  <2>4. LET x == [asked EXCEPT !.pc = pc, !.d = d] IN x \in Proc /\ x.pc = pc /\ x.d = d
    BY <2>1, <2>2 DEF Proc
  <2>5. QED BY <1>4, <2>2, <2>3, <2>4 DEF pc, t
<1> HIDE DEF proc
<1>7. ProcOK(p, proc)
  BY <1>2, <1>3, <1>5, <1>6 DEF ProcOK, HasCache, HasRead
<1>8. Becomes(p, proc) /\ UNCHANGED <<session, now, files, cache>>
  BY DEF Mark, proc, asked
<1>9. QED BY <1>7, <1>8, ProcMoves

LEMMA SkipIncludeOK ==
  ASSUME CacheInv, NEW p \in Process, SkipInclude(p), UNCHANGED session PROVE CacheInv'
<1>1. ProcOK(p, [ps[p] EXCEPT !.pc = "open"])
  BY DEF SkipInclude, At, CacheInv, ProcOK, Proc, LoadPC, HasCache, HasRead
<1>2. QED BY <1>1, ProcMoves DEF SkipInclude

LEMMA ReadOK ==
  ASSUME CacheInv, NEW p \in Process, NEW f \in {"class", "bb", "inc"}, Read(p, f),
         UNCHANGED session
  PROVE  CacheInv'
<1> DEFINE proc == [ps[p] EXCEPT !.pc = AfterRead(f), !.d.ver[f] = files[f].ver]
<1>1. /\ ps[p].pc \in {"read class", "read bb", "read inc"}
      /\ f = "inc" => ps[p].pc = "read inc"
  BY PlacesOf DEF Read, At
<1>2. /\ AfterRead(f) = (IF f = "class" THEN "read bb" ELSE IF f = "bb" THEN "mark inc" ELSE "open")
      /\ f \in File /\ "bb" \in File /\ AfterRead(f) \in LoadPC
  BY PlacesOf DEF File, LoadPC
<1>3. p \in session.procs /\ ps[p] \in Proc /\ files[f].ver \in 0..MaxVersion /\ files["bb"].ver # 0
  BY <1>1, <1>2, Active DEF CacheInv, WorldOK
<1>4. f = "inc" => ps[p].d.ver["bb"] # 0
  BY <1>1 DEF CacheInv, ProcOK, HasRead
<1>5. ps[p].d.ver \in [File -> 0..MaxVersion]
  BY <1>3 DEF Proc, Metadata
<1>6. proc \in Proc /\ proc.pc = AfterRead(f) /\ proc.d.ver = [ps[p].d.ver EXCEPT ![f] = files[f].ver]
  <2> DEFINE was == ps[p]
             pc == AfterRead(f)
             v == files[f].ver
             d == [was.d EXCEPT !.ver[f] = v]
  <2>1. pc \in LoadPC /\ v \in 0..MaxVersion /\ f \in File /\ was \in Proc
    BY <1>2, <1>3
  <2> HIDE DEF was, pc, v
  <2>2. d \in Metadata /\ d.ver = [was.d.ver EXCEPT ![f] = v]
    BY <2>1 DEF Proc, Metadata
  <2>3. [was EXCEPT !.pc = pc, !.d.ver[f] = v] = [was EXCEPT !.pc = pc, !.d = d]
    BY <2>1 DEF Proc
  <2> HIDE DEF d
  <2>4. LET x == [was EXCEPT !.pc = pc, !.d = d] IN x \in Proc /\ x.pc = pc /\ x.d = d
    BY <2>1, <2>2 DEF Proc
  <2>5. QED BY <2>2, <2>3, <2>4 DEF was, pc, v
<1> HIDE DEF proc
<1>7. f # "class" => proc.d.ver["bb"] # 0
  BY <1>2, <1>3, <1>4, <1>5, <1>6
<1>8. ProcOK(p, proc)
  BY <1>2, <1>3, <1>6, <1>7 DEF ProcOK, HasCache, HasRead
<1>9. ProcOK(p, [ps[p] EXCEPT !.pc = "failed"])
  BY <1>1, FailedOK
<1>10. /\ Becomes(p, proc) \/ Becomes(p, [ps[p] EXCEPT !.pc = "failed"])
       /\ UNCHANGED <<session, now, files, cache>>
  BY DEF Read, proc
<1>11. QED BY <1>8, <1>9, <1>10, ProcMoves

(* The cache file is written.                                              *)
LEMMA CacheWritten ==
  ASSUME CacheInv, NEW p \in session.procs, NEW proc \in Proc, proc.pc \in {"dump", "loaded"},
         proc.d.ver["bb"] # 0, p \in Process, Becomes(p, proc),
         NEW data \in Metadata \union {Torn}, data # Torn => data.ver["bb"] # 0,
         cache' = [at |-> now, data |-> data], UNCHANGED <<session, now, files>>
  PROVE  CacheInv'
<1>1. data # None /\ cache'.at = now /\ cache'.data = data /\ now \in 1..MaxTime
  BY DEF CacheInv, WorldOK
<1>2. WorldOK'
  BY <1>1 DEF CacheInv, WorldOK
<1>3. Proc' = Proc
  BY DEF Proc
<1>4. ProcOK(p, proc)'
  BY <1>1, <1>3 DEF ProcOK, HasCache, HasRead
<1>5. \A q \in Process : ProcOK(q, ps[q])'
  BY <1>1, <1>3, <1>4 DEF CacheInv, ProcOK, Becomes
<1>6. QED BY <1>2, <1>5 DEF CacheInv, Becomes

LEMMA OpenCacheOK ==
  ASSUME CacheInv, NEW p \in Process, OpenCache(p), UNCHANGED session PROVE CacheInv'
<1> DEFINE was == ps[p]
           proc == [was EXCEPT !.pc = "dump"]
<1>1. was \in Proc /\ was.d.ver["bb"] # 0 /\ p \in session.procs
  BY DEF CacheInv, ProcOK, HasRead, OpenCache, At
<1>2. Becomes(p, proc) /\ cache' = [at |-> now, data |-> Torn] /\ UNCHANGED <<session, now, files>>
  BY DEF OpenCache
<1> HIDE DEF was
<1>3. proc \in Proc /\ proc.pc = "dump" /\ proc.d = was.d
  BY <1>1 DEF Proc, LoadPC
<1> HIDE DEF proc
<1>4. QED BY <1>1, <1>2, <1>3, CacheWritten

LEMMA DumpOK ==
  ASSUME CacheInv, NEW p \in Process, Dump(p), UNCHANGED session PROVE CacheInv'
<1> DEFINE was == ps[p]
           proc == [was EXCEPT !.pc = "loaded"]
<1>1. was \in Proc /\ was.d.ver["bb"] # 0 /\ p \in session.procs
  BY DEF CacheInv, ProcOK, HasRead, Dump, At
<1>2. Becomes(p, proc) /\ cache' = [at |-> now, data |-> was.d] /\ UNCHANGED <<session, now, files>>
  BY DEF Dump
<1> HIDE DEF was
<1>3. proc \in Proc /\ proc.pc = "loaded" /\ proc.d = was.d /\ was.d \in Metadata
  BY <1>1 DEF Proc, LoadPC
<1> HIDE DEF proc
<1>4. QED BY <1>1, <1>2, <1>3, CacheWritten

LEMMA DumpFailsOK ==
  ASSUME CacheInv, NEW p \in Process, DumpFails(p), UNCHANGED session PROVE CacheInv'
BY FailedOK, ProcMoves DEF DumpFails, At

LEMMA ReparseOK ==
  ASSUME CacheInv, NEW p \in Process, Reparse(p), UNCHANGED session PROVE CacheInv'
<1> DEFINE was == ps[p]
           at == files["bb"].at
           ver == files["bb"].ver
           mt == [was.mt EXCEPT !["bb"] = at]
           seen == [was.seen EXCEPT !["bb"] = ver]
           proc == [was EXCEPT !.pc = "stat", !.mt["bb"] = at, !.seen["bb"] = ver]
<1>1. was \in Proc /\ p \in session.procs
  BY DEF CacheInv, ProcOK, Reparse
<1>2. at \in 0..now /\ ver \in 0..MaxVersion
  BY DEF CacheInv, WorldOK, File
<1>3. Becomes(p, proc) /\ UNCHANGED <<session, now, files, cache>>
  BY DEF Reparse
<1> HIDE DEF was, at, ver
<1>4. mt \in [File -> 0..now] /\ seen \in [File -> 0..MaxVersion]
  BY <1>1, <1>2 DEF Proc, File
<1>5. proc = [was EXCEPT !.pc = "stat", !.mt = mt, !.seen = seen]
  BY <1>1 DEF Proc
<1> HIDE DEF mt, seen
<1>6. LET x == [was EXCEPT !.pc = "stat", !.mt = mt, !.seen = seen]
      IN  x \in Proc /\ x.pc = "stat"
  BY <1>1, <1>4 DEF Proc, LoadPC
<1>7. proc \in Proc /\ proc.pc = "stat"
  BY <1>5, <1>6
<1> HIDE DEF proc
<1>8. ProcOK(p, proc)
  BY <1>1, <1>7 DEF ProcOK, HasCache, HasRead
<1>9. QED BY <1>3, <1>8, ProcMoves

LEMMA EndsOK ==
  ASSUME CacheInv, NEW p \in Process, Ends(p), UNCHANGED session PROVE CacheInv'
<1>1. Idle \in Proc /\ Idle.pc = "idle"
  BY DEF CacheInv, WorldOK, Idle, Proc, LoadPC, Metadata, Never
<1>2. ProcOK(p, Idle)
  BY <1>1 DEF ProcOK, HasCache, HasRead
<1>3. QED BY <1>2, ProcMoves DEF Ends

(* Files are edited and removed, and time passes.                          *)
LEMMA WorldMoves ==
  ASSUME CacheInv, UNCHANGED <<session, cache, ps>>, now' \in now..MaxTime,
         files' \in [File -> [at : 0..now', ver : 0..MaxVersion]],
         files'["bb"].at # 0, files'["bb"].ver # 0
  PROVE  CacheInv'
<1>1. now \in 1..MaxTime /\ now' \in 1..MaxTime
  BY DEF CacheInv, WorldOK
<1>2. WorldOK'
  BY <1>1 DEF CacheInv, WorldOK
<1>3. \A proc : proc \in Proc => proc \in Proc'
  BY <1>1 DEF Proc
<1>4. \A q \in Process : ProcOK(q, ps[q])'
  BY <1>3 DEF CacheInv, ProcOK
<1>5. QED BY <1>2, <1>4 DEF CacheInv

LEMMA EditOK ==
  ASSUME CacheInv, NEW f \in File, Edit(f), UNCHANGED session PROVE CacheInv'
<1>1. files[f].ver \in 0..MaxVersion /\ files[f].ver < MaxVersion /\ now \in 1..MaxTime
  BY DEF CacheInv, WorldOK, Edit
<1>2. [at |-> now, ver |-> files[f].ver + 1] \in [at : 0..now, ver : 0..MaxVersion]
  BY <1>1
<1>3. files' = [files EXCEPT ![f] = [at |-> now, ver |-> files[f].ver + 1]]
  BY DEF Edit
<1>4. files' \in [File -> [at : 0..now, ver : 0..MaxVersion]]
  BY <1>2, <1>3 DEF CacheInv, WorldOK
<1>5. files'["bb"].at # 0 /\ files'["bb"].ver # 0
  BY <1>1, <1>3 DEF CacheInv, WorldOK, File
<1>6. QED BY <1>1, <1>4, <1>5, WorldMoves DEF Edit

LEMMA RemoveIncludeOK ==
  ASSUME CacheInv, RemoveInclude, UNCHANGED session PROVE CacheInv'
<1> DEFINE was == files["inc"]
           gone == [was EXCEPT !.ver = 0]
<1>1. was \in [at : 0..now, ver : 0..MaxVersion] /\ now \in 1..MaxTime
  BY DEF CacheInv, WorldOK, File
<1>2. files' = [files EXCEPT !["inc"] = gone] /\ UNCHANGED <<now, cache, ps>>
  BY DEF RemoveInclude
<1> HIDE DEF was
<1>3. gone \in [at : 0..now, ver : 0..MaxVersion]
  BY <1>1
<1> HIDE DEF gone
<1>4. files' \in [File -> [at : 0..now, ver : 0..MaxVersion]] /\ files'["bb"] = files["bb"]
  BY <1>2, <1>3 DEF CacheInv, WorldOK, File
<1>5. QED BY <1>1, <1>2, <1>4, WorldMoves DEF CacheInv, WorldOK

LEMMA TickOK ==
  ASSUME CacheInv, Tick, UNCHANGED session PROVE CacheInv'
<1>1. now \in 1..MaxTime /\ now' = now + 1 /\ now' \in 1..MaxTime /\ now' \in now..MaxTime
  BY DEF CacheInv, WorldOK, Tick
<1>2. files' \in [File -> [at : 0..now', ver : 0..MaxVersion]]
  BY <1>1 DEF CacheInv, WorldOK, Tick
<1>3. QED BY <1>1, <1>2, WorldMoves DEF Tick, CacheInv, WorldOK

LEMMA CacheStep ==
  ASSUME CacheInv, [Next]_vars PROVE CacheInv'
<1>1. CASE UNCHANGED vars
  BY <1>1 DEF vars, CacheInv, WorldOK, ProcOK, Proc
<1>2. CASE Next
  <2>1. UNCHANGED session
    BY <1>2 DEF Next
  <2>2. ASSUME NEW p \in Process, Command(p) PROVE CacheInv'
    <3>1. CASE StartCommand(p)
      BY <3>1, <2>1, StartOK DEF StartCommand
    <3>2. CASE LoadRecipe(p)
      BY <3>2, <2>1, StatCacheOK, UnpickleOK, CheckDepOK, MarkOK, SkipIncludeOK, ReadOK,
         OpenCacheOK, DumpOK DEF LoadRecipe, Load
    <3>3. CASE Build(p)
      BY <3>3, <2>1, UnpickleOK DEF Build
    <3>4. CASE DoFetch(p)
      BY <3>4, <2>1 DEF DoFetch, cacheVars, CacheInv, WorldOK, ProcOK, Proc
    <3>5. CASE EndCommand(p)
      BY <3>5, <2>1, EndsOK DEF EndCommand
    <3>6. QED BY <2>2, <3>1, <3>2, <3>3, <3>4, <3>5 DEF Command
  <2>3. ASSUME NEW p \in Process, ReparseRecipe(p) PROVE CacheInv'
    BY <2>3, <2>1, ReparseOK DEF ReparseRecipe
  <2>4. CASE People
    BY <2>4, <2>1, EditOK, RemoveIncludeOK, TickOK DEF People
  <2>5. ASSUME NEW p \in Process, Breaks(p) PROVE CacheInv'
    <3>1. CASE Kill(p)
      BY <3>1, <2>1, EndsOK DEF Kill
    <3>2. CASE UNCHANGED cacheVars
      BY <3>2, <2>1 DEF cacheVars, CacheInv, WorldOK, ProcOK, Proc
    <3>3. CASE DumpFails(p)
      BY <3>3, <2>1, DumpFailsOK
    <3>4. QED BY <2>5, <3>1, <3>2, <3>3 DEF Breaks
  <2>6. QED BY <1>2, <2>2, <2>3, <2>4, <2>5 DEF Next
<1>3. QED BY <1>1, <1>2
---------------------------------------------------------------------------
(* The fetchers.                                                           *)

(* What a process is at.                                                   *)
JobPC == {"none", "source", "try", "wget", "get", "check", "checkout", "repository", "pack",
          "tar", "ok", "failed", "crashed"}
Busy == {"try", "wget", "get", "check", "checkout", "repository", "pack", "tar"}

Job == [pc : JobPC, uris : Seq(Sources), todo : SUBSET Nat, place : 1..3, resume : BOOLEAN]

BaseOf(s) == session.src[s].base
AtSource(j) == j.uris[First(j.uris, j.todo)]
FromWhere(j) ==
    session.src[AtSource(j)].has[IF session.src[AtSource(j)].kind = "wget" THEN Places[j.place]
                                 ELSE "stash"]

(* A job by itself.                                                        *)
JobShape(p, j) ==
    /\ j \in Job /\ j.todo \subseteq DOMAIN j.uris
    /\ j.pc \notin {"none", "ok"} => j.todo # {}
    /\ j.todo # {} => session.procs = {p}
    /\ j.pc # "none" => ps[p].pc = "using"

(* A job and the file it is at: no marker is there, wget resumes and gets  *)
(* what is there, and what wget got from honest servers is the file.       *)
JobHolds(j) ==
    LET s == AtSource(j)
    IN  /\ j.pc \in Busy => ~md5[BaseOf(s)]
        /\ j.pc = "wget" /\ j.resume => dl[BaseOf(s)] # Nothing
        /\ j.pc = "get" => dl[BaseOf(s)] # Nothing /\ FromWhere(j) \in {"file", "other"}
        /\ j.pc = "check" /\ s \in WgetSources /\ Plain(s) => dl[BaseOf(s)] = Whole(s)

(* A plain file is made of nothing but what it should be.                  *)
PlainFiles ==
    \A s \in WgetSources : Plain(s) => dl[BaseOf(s)] \in {Nothing, Begun(s), Whole(s)}

DiskInv ==
    /\ dl \in [Base -> Content \union {Nothing}]
    /\ md5 \in [Base -> BOOLEAN]
    /\ repo \in [Base -> {"none", "torn", "whole"}]
    /\ \A b \in Base : md5[b] => dl[b] # Nothing
    /\ PlainFiles
    /\ MarkedIsVerified

FetchInv ==
    /\ session \in Sessions
    /\ DiskInv
    /\ job = [p \in Process |-> job[p]]
    /\ \A p \in Process : JobShape(p, job[p]) /\ JobHolds(job[p])

LEMMA SourceType ==
  ASSUME session \in Sessions, NEW s \in Sources
  PROVE  /\ s \in Source /\ BaseOf(s) \in Base
         /\ session.src[s].kind \in {"cvs", "git", "svn", "wget"}
         /\ session.src[s].sum \in BOOLEAN
         /\ session.src[s].has \in [{"premirror", "own", "mirror", "stash"}
                                     -> {"file", "nothing", "other", "page"}]
<1>1. SessionType(session)
  OBVIOUS
<1>2. PICK src \in SUBSET Source :
        session.src \in [src -> [kind : {"cvs", "git", "svn", "wget"}, sum : BOOLEAN, base : Base,
                           has : [{"premirror", "own", "mirror", "stash"}
                                    -> {"file", "nothing", "other", "page"}]]]
  BY <1>1 DEF SessionType
<1>3. s \in src
  BY <1>2 DEF Sources
<1>4. QED BY <1>2, <1>3 DEF BaseOf

---------------------------------------------------------------------------
(* The source a job is at is one it has left.                              *)

LEMMA FirstIsLeft ==
  ASSUME session \in Sessions, NEW uris \in Seq(Sources), NEW todo \in SUBSET Nat,
         todo \subseteq DOMAIN uris, todo # {}
  PROVE  First(uris, todo) \in todo /\ uris[First(uris, todo)] \in Sources
<1>1. \A i \in todo : uris[i] \in Sources
  OBVIOUS
<1>2. \A i \in todo : MethodAt(uris, i) \in Nat
  <2>1. \A k \in {"cvs", "git", "svn", "wget"} : Method[k] \in Nat
    BY DEF Method
  <2>2. QED BY <1>1, <2>1, SourceType DEF MethodAt
<1> DEFINE ranks == {MethodAt(uris, i) : i \in todo}
<1>3. PICK r \in ranks : \A m \in ranks : r <= m
  <2>1. ranks \in SUBSET Nat /\ ranks # {}
    BY <1>2
  <2> HIDE DEF ranks
  <2>2. QED BY <2>1, LeastExists
<1> DEFINE firsts == {i \in todo : MethodAt(uris, i) = r}
<1>4. PICK i \in firsts : \A j \in firsts : i <= j
  <2>1. firsts \in SUBSET Nat /\ firsts # {}
    OBVIOUS
  <2> HIDE DEF firsts
  <2>2. QED BY <2>1, LeastExists
<1>5. i \in todo /\ \A j \in todo : \/ MethodAt(uris, i) < MethodAt(uris, j)
                                    \/ MethodAt(uris, i) = MethodAt(uris, j) /\ i <= j
  <2>1. \A j \in todo : MethodAt(uris, i) <= MethodAt(uris, j)
    BY <1>3, <1>4
  <2>2. \A j \in todo : MethodAt(uris, j) = MethodAt(uris, i) => i <= j
    BY <1>4
  <2>3. QED BY <1>2, <1>4, <2>1, <2>2
<1>6. First(uris, todo) \in todo
  BY <1>5 DEF First
<1>7. QED BY <1>1, <1>6

LEMMA AtType ==
  ASSUME session \in Sessions, NEW p, NEW j, JobShape(p, j), j.todo # {}
  PROVE  /\ AtSource(j) \in Sources /\ First(j.uris, j.todo) \in j.todo
         /\ FromWhere(j) \in {"file", "nothing", "other", "page"}
         /\ session.procs = {p}
<1>1. /\ j.uris \in Seq(Sources) /\ j.todo \in SUBSET Nat
      /\ j.todo \subseteq DOMAIN j.uris /\ j.place \in 1..3
  BY DEF JobShape, Job
<1>2. AtSource(j) \in Sources /\ First(j.uris, j.todo) \in j.todo
  BY <1>1, FirstIsLeft DEF AtSource
<1>3. Places[j.place] \in {"premirror", "own", "mirror", "stash"}
  BY <1>1 DEF Places
<1>4. FromWhere(j) \in {"file", "nothing", "other", "page"}
  BY <1>2, <1>3, SourceType DEF FromWhere
<1>5. QED BY <1>2, <1>4 DEF JobShape

(* The source a job is at depends on the session, which never changes.     *)
LEMMA SameSession ==
  ASSUME UNCHANGED session, NEW j
  PROVE  AtSource(j)' = AtSource(j) /\ FromWhere(j)' = FromWhere(j)
<1>1. \A u, i : MethodAt(u, i)' = MethodAt(u, i)
  BY DEF MethodAt
<1>2. \A u, t : First(u, t)' = First(u, t)
  BY DEF First, MethodAt
<1>3. AtSource(j)' = AtSource(j)
  BY <1>2 DEF AtSource
<1>4. QED BY <1>3 DEF FromWhere

LEMMA JobMoves ==
  ASSUME FetchInv, NEW p \in Process, job[p].todo # {}, NEW j,
         job' = [job EXCEPT ![p] = j], JobShape(p, j), JobHolds(j)', DiskInv',
         UNCHANGED <<session, ps>>
  PROVE  FetchInv'
<1>1. session.procs = {p}
  BY DEF FetchInv, JobShape
<1>2. ASSUME NEW q \in Process PROVE (JobShape(q, job[q]) /\ JobHolds(job[q]))'
  <2>1. CASE q = p
    <3>1. job'[p] = j
      BY DEF FetchInv
    <3>2. JobShape(p, job[p])'
      BY <3>1 DEF JobShape, Job, Sources
    <3>3. JobHolds(job[p])'
      BY <3>1
    <3>4. QED BY <2>1, <3>2, <3>3
  <2>2. CASE q # p
    <3>1. job'[q] = job[q] /\ JobShape(q, job[q])
      BY <2>2 DEF FetchInv
    <3>2. job[q].pc \in {"none", "ok"}
      BY <1>1, <2>2, <3>1 DEF JobShape
    <3>3. JobShape(q, job[q])'
      BY <3>1 DEF JobShape, Job, Sources
    <3>4. JobHolds(job[q])'
      BY <3>1, <3>2 DEF JobHolds, Busy
    <3>5. QED BY <3>3, <3>4
  <2>3. QED BY <2>1, <2>2
<1>3. QED BY <1>2 DEF FetchInv

---------------------------------------------------------------------------
(* The disk.                                                               *)

LEMMA DiskStays ==
  ASSUME DiskInv, UNCHANGED <<session, dl, md5>>, repo' \in [Base -> {"none", "torn", "whole"}]
  PROVE  DiskInv'
BY DEF DiskInv, PlainFiles, MarkedIsVerified, WgetSources, Sharing, Verified, Plain, Honest,
       Sources, BaseOf

(* The file of a source changes while it has no marker.                    *)
LEMMA NewFile ==
  ASSUME session \in Sessions, DiskInv, NEW s \in Sources, ~md5[BaseOf(s)], NEW n \in Content,
         s \in WgetSources /\ Plain(s) => n \in {Begun(s), Whole(s)},
         dl' = [dl EXCEPT ![BaseOf(s)] = n], UNCHANGED <<session, md5, repo>>
  PROVE  DiskInv'
<1>1. BaseOf(s) \in Base
  BY SourceType
<1>2. dl' \in [Base -> Content \union {Nothing}] /\ n # Nothing
  BY <1>1 DEF DiskInv
<1>3. \A b \in Base : md5'[b] => dl'[b] # Nothing
  BY <1>1, <1>2 DEF DiskInv
<1>4. ASSUME NEW t \in WgetSources, Plain(t) PROVE dl'[BaseOf(t)] \in {Nothing, Begun(t), Whole(t)}
  <2>1. t \in Sources /\ BaseOf(t) \in Base
    BY SourceType DEF WgetSources
  <2>2. CASE BaseOf(t) = BaseOf(s)
    <3>1. s = t
      BY <1>4, <2>2 DEF Plain, Sharing, BaseOf
    <3>2. QED BY <1>1, <1>4, <3>1 DEF DiskInv
  <2>3. CASE BaseOf(t) # BaseOf(s)
    BY <1>4, <2>1, <2>3 DEF DiskInv, PlainFiles
  <2>4. QED BY <2>2, <2>3
<1>5. PlainFiles'
  BY <1>4 DEF PlainFiles, WgetSources, Plain, Honest, Sharing, Sources, BaseOf
<1>6. ASSUME NEW t \in WgetSources, md5[BaseOf(t)], \A u \in Sharing(t) : Verified(u)
      PROVE  \E u \in Sharing(t) : dl'[BaseOf(t)] = Whole(u)
  <2>1. BaseOf(t) \in Base /\ BaseOf(t) # BaseOf(s)
    BY <1>6, SourceType DEF WgetSources
  <2>2. dl'[BaseOf(t)] = dl[BaseOf(t)]
    BY <2>1 DEF DiskInv
  <2>3. QED BY <1>6, <2>2 DEF DiskInv, MarkedIsVerified, BaseOf
<1>7. MarkedIsVerified'
  BY <1>6 DEF MarkedIsVerified, WgetSources, Sharing, Verified, Plain, Honest, Sources, BaseOf
<1>8. QED BY <1>2, <1>3, <1>5, <1>7 DEF DiskInv

---------------------------------------------------------------------------
(* The steps of a job.                                                     *)

LEMMA AtThis ==
  ASSUME FetchInv, NEW p \in Process, job[p].pc \notin {"none", "ok"}
  PROVE  /\ This(p) = AtSource(job[p]) /\ Name(p) = BaseOf(This(p))
         /\ Has(p) = FromWhere(job[p]) /\ Kind(p) = session.src[This(p)].kind
         /\ This(p) \in Sources /\ Name(p) \in Base
         /\ Kind(p) \in {"cvs", "git", "svn", "wget"}
         /\ Kind(p) = "wget" <=> This(p) \in WgetSources
         /\ Has(p) \in {"file", "nothing", "other", "page"}
         /\ job[p] \in Job /\ job[p].todo # {} /\ Current(p) \in job[p].todo
         /\ session.procs = {p} /\ session \in Sessions
<1>1. JobShape(p, job[p]) /\ session \in Sessions /\ job[p].todo # {}
  BY DEF FetchInv, JobShape
<1>2. This(p) = AtSource(job[p]) /\ Name(p) = BaseOf(This(p)) /\ Kind(p) = session.src[This(p)].kind
  BY DEF This, Current, AtSource, Name, Kind, BaseOf
<1>3. This(p) \in Sources /\ Current(p) \in job[p].todo
  BY <1>1, <1>2, AtType DEF Current
<1>4. Has(p) = FromWhere(job[p])
  BY <1>2 DEF Has, FromWhere, Place
<1>5. Has(p) \in {"file", "nothing", "other", "page"} /\ session.procs = {p}
  BY <1>1, <1>4, AtType
<1>6. QED BY <1>1, <1>2, <1>3, <1>4, <1>5, SourceType DEF JobShape, WgetSources

LEMMA Held ==
  ASSUME FetchInv, NEW p \in Process, job[p].pc \notin {"none", "ok"}
  PROVE  /\ job[p].pc \in Busy => ~md5[Name(p)]
         /\ job[p].pc = "wget" /\ job[p].resume => dl[Name(p)] # Nothing
         /\ job[p].pc = "get" => dl[Name(p)] # Nothing /\ Has(p) \in {"file", "other"}
         /\ job[p].pc = "check" /\ This(p) \in WgetSources /\ Plain(This(p))
              => dl[Name(p)] = Whole(This(p))
BY SMTT(30), AtThis DEF FetchInv, JobHolds

(* A job that stays at its source.                                         *)
LEMMA SameSource ==
  ASSUME FetchInv, NEW p \in Process, job[p].pc \notin {"none", "ok"},
         NEW j \in Job, j.pc # "none", j.uris = job[p].uris, j.todo = job[p].todo
  PROVE  /\ JobShape(p, j) /\ AtSource(j) = This(p)
         /\ j.place = job[p].place => FromWhere(j) = Has(p)
<1>1. JobShape(p, j)
  BY DEF FetchInv, JobShape
<1>2. AtSource(j) = This(p)
  BY AtThis DEF AtSource
<1>3. QED BY <1>1, <1>2, AtThis DEF FromWhere, AtSource

LEMMA GoesOK ==
  ASSUME FetchInv, NEW p \in Process, job[p].pc \notin {"none", "ok"},
         NEW pc \in JobPC \ {"none", "wget"}, Goes(p, pc), DiskInv', UNCHANGED <<session, ps>>,
         pc \in Busy => ~md5'[Name(p)],
         pc = "get" => dl'[Name(p)] # Nothing /\ Has(p) \in {"file", "other"},
         pc = "check" /\ This(p) \in WgetSources /\ Plain(This(p)) => dl'[Name(p)] = Whole(This(p))
  PROVE  FetchInv'
<1> DEFINE was == job[p]
           next == [was EXCEPT !.pc = pc]
<1>1. was \in Job /\ was.todo # {}
  BY AtThis
<1>2. job' = [job EXCEPT ![p] = next]
  BY DEF Goes
<1>3. PICK j \in Job : /\ job' = [job EXCEPT ![p] = j] /\ j.pc = pc /\ j.uris = job[p].uris
                       /\ j.todo = job[p].todo /\ j.place = job[p].place
  <2>1. next \in Job /\ next.pc = pc /\ next.uris = was.uris /\ next.todo = was.todo
        /\ next.place = was.place
    <3> HIDE DEF was
    <3>1. QED BY <1>1 DEF Job
  <2> HIDE DEF next
  <2>2. QED BY <1>2, <2>1 DEF was
<1>4. JobShape(p, j) /\ AtSource(j) = This(p) /\ FromWhere(j) = Has(p)
  BY <1>3, SameSource
<1>5. PICK s : s = This(p) /\ BaseOf(s) = Name(p)
  BY AtThis
<1>6. AtSource(j)' = s /\ FromWhere(j)' = Has(p) /\ BaseOf(s)' = Name(p)
  BY <1>4, <1>5, SameSession DEF BaseOf
<1>7. (s \in WgetSources /\ Plain(s))' <=> s \in WgetSources /\ Plain(s)
  BY DEF WgetSources, Plain, Honest, Sharing, Sources
<1>8. JobHolds(j)'
  BY <1>3, <1>5, <1>6, <1>7 DEF JobHolds, Whole, BaseOf
<1>9. QED BY <1>1, <1>3, <1>4, <1>8, JobMoves

LEMMA DoneOK ==
  ASSUME FetchInv, NEW p \in Process, job[p].pc \notin {"none", "ok"}, Done(p), DiskInv',
         UNCHANGED <<session, ps>>
  PROVE  FetchInv'
<1> DEFINE was == job[p]
           todo == was.todo \ {Current(p)}
           pc == IF todo = {} THEN "ok" ELSE "source"
           next == [was EXCEPT !.pc = pc, !.todo = todo, !.place = 1]
<1>1. was \in Job /\ was.todo # {} /\ JobShape(p, was)
  BY AtThis DEF FetchInv
<1>2. job' = [job EXCEPT ![p] = next]
  BY DEF Done, Continue
<1>3. PICK j \in Job : /\ job' = [job EXCEPT ![p] = j] /\ j.pc \in {"ok", "source"}
                       /\ j.pc = "source" => j.todo # {}
                       /\ j.uris = job[p].uris /\ j.todo \subseteq job[p].todo
  <2>1. todo \subseteq was.todo /\ todo \in SUBSET Nat /\ pc \in {"ok", "source"}
        /\ (pc = "source" => todo # {})
    BY <1>1 DEF Job
  <2>2. next \in Job /\ next.pc = pc /\ next.uris = was.uris /\ next.todo = todo
    <3>1. pc \in JobPC
      BY DEF JobPC
    <3>2. was \in Job /\ todo \in SUBSET Nat /\ 1 \in 1..3
      BY <1>1, <2>1
    <3> HIDE DEF was, todo, pc
    <3>3. next \in Job
      BY <3>1, <3>2 DEF Job
    <3>4. next.pc = pc /\ next.uris = was.uris /\ next.todo = todo
      BY <3>1, <3>2 DEF Job
    <3>5. QED BY <3>3, <3>4
  <2> HIDE DEF next
  <2>3. QED BY <1>2, <2>1, <2>2 DEF was
<1>4. JobShape(p, j)
  BY <1>1, <1>3 DEF JobShape
<1>5. JobHolds(j)'
  BY <1>3 DEF JobHolds, Busy
<1>6. QED BY <1>1, <1>3, <1>4, <1>5, JobMoves

LEMMA TryNextOK ==
  ASSUME FetchInv, NEW p \in Process, job[p].pc \notin {"none", "ok"}, TryNext(p), DiskInv',
         ~md5'[Name(p)], UNCHANGED <<session, ps>>
  PROVE  FetchInv'
<1> DEFINE was == job[p]
           onward == [was EXCEPT !.pc = "try", !.place = was.place + 1]
<1>1. was \in Job /\ was.todo # {}
  BY AtThis
<1>2. CASE Kind(p) # "wget"
  BY <1>2, GoesOK, <1>1 DEF TryNext, JobPC, Busy
<1>3. CASE Kind(p) = "wget" /\ was.place = Len(Places)
  BY <1>3, GoesOK, <1>1 DEF TryNext, JobPC, Busy
<1>4. CASE Kind(p) = "wget" /\ was.place # Len(Places)
  <2>1. job' = [job EXCEPT ![p] = onward]
    BY <1>1, <1>4 DEF TryNext, Job, FetchInv
  <2>2. PICK j \in Job : /\ job' = [job EXCEPT ![p] = j] /\ j.pc = "try" /\ j.uris = job[p].uris
                         /\ j.todo = job[p].todo
    <3>1. was.place + 1 \in 1..3
      BY <1>1, <1>4 DEF Job, Places
    <3>2. onward \in Job /\ onward.pc = "try" /\ onward.uris = was.uris /\ onward.todo = was.todo
      <4> HIDE DEF was
      <4>1. QED BY <1>1, <3>1 DEF Job, JobPC
    <3> HIDE DEF onward
    <3>3. QED BY <2>1, <3>2 DEF was
  <2>3. JobShape(p, j) /\ AtSource(j) = This(p)
    BY <2>2, SameSource
  <2>4. PICK s : s = This(p) /\ BaseOf(s) = Name(p)
    BY AtThis
  <2>5. AtSource(j)' = s /\ BaseOf(s)' = Name(p)
    BY <2>3, <2>4, SameSession DEF BaseOf
  <2>6. JobHolds(j)'
    BY <2>2, <2>5 DEF JobHolds, BaseOf
  <2>7. QED BY <1>1, <2>2, <2>3, <2>6, JobMoves
<1>5. QED BY <1>2, <1>3, <1>4

LEMMA TryOK ==
  ASSUME FetchInv, NEW p \in Process, Try(p), UNCHANGED <<session, ps>>
  PROVE  FetchInv'
<1> DEFINE was == job[p]
           resume == Kind(p) = "wget" /\ dl[Name(p)] # Nothing
           next == [was EXCEPT !.pc = "wget", !.resume = resume]
<1>1. was \in Job /\ was.todo # {} /\ was.pc = "try" /\ ~md5[Name(p)] /\ DiskInv'
  BY AtThis, Held, DiskStays DEF Try, JobAt, Busy, FetchInv, DiskInv
<1>2. job' = [job EXCEPT ![p] = next] /\ UNCHANGED <<dl, md5>>
  BY DEF Try
<1>3. PICK j \in Job : /\ job' = [job EXCEPT ![p] = j] /\ j.pc = "wget" /\ j.uris = job[p].uris
                       /\ j.todo = job[p].todo
                       /\ j.resume => dl[Name(p)] # Nothing
  <2>1. resume \in BOOLEAN /\ (resume => dl[Name(p)] # Nothing)
    OBVIOUS
  <2>2. next \in Job /\ next.pc = "wget" /\ next.uris = was.uris /\ next.todo = was.todo
        /\ next.resume = resume
    <3> HIDE DEF was, resume
    <3>1. QED BY <1>1, <2>1 DEF Job, JobPC
  <2> HIDE DEF next
  <2>3. QED BY <1>2, <2>1, <2>2 DEF was
<1>4. JobShape(p, j) /\ AtSource(j) = This(p)
  BY <1>1, <1>3, SameSource
<1>5. PICK s : s = This(p) /\ BaseOf(s) = Name(p)
  BY <1>1, AtThis
<1>6. AtSource(j)' = s /\ BaseOf(s)' = Name(p)
  BY <1>4, <1>5, SameSession DEF BaseOf
<1>7. JobHolds(j)'
  BY <1>1, <1>2, <1>3, <1>6 DEF JobHolds, BaseOf
<1>8. QED BY <1>1, <1>3, <1>4, <1>7, JobMoves

LEMMA ConsiderOK ==
  ASSUME FetchInv, NEW p \in Process, Consider(p), UNCHANGED <<session, ps>>
  PROVE  FetchInv'
<1>1. job[p].pc = "source" /\ DiskInv' /\ UNCHANGED <<dl, md5>>
  BY DiskStays DEF Consider, JobAt, FetchInv, DiskInv
<1>2. CASE IsComplete(p)
  BY <1>1, <1>2, DoneOK DEF Consider
<1>3. CASE ~IsComplete(p)
  <2>1. ~md5[Name(p)] /\ Name(p) \in Base
    BY <1>1, <1>3, AtThis DEF IsComplete, FetchInv, DiskInv
  <2>2. Goes(p, "checkout") \/ Goes(p, "try")
    BY <1>3 DEF Consider
  <2>3. QED BY <1>1, <2>1, <2>2, GoesOK DEF JobPC
<1>4. QED BY <1>2, <1>3

LEMMA WgetMissesOK ==
  ASSUME FetchInv, NEW p \in Process, WgetMisses(p), UNCHANGED <<session, ps>>
  PROVE  FetchInv'
<1>1. job[p].pc = "wget" /\ ~md5[Name(p)] /\ DiskInv' /\ UNCHANGED <<dl, md5>>
  BY Held, DiskStays DEF WgetMisses, JobAt, Busy, FetchInv, DiskInv
<1>2. CASE Has(p) = "page"
  <2>1. This(p) \in WgetSources => ~Plain(This(p))
    <3>1. Has(p) = session.src[This(p)].has[Place(p)] /\ Place(p) \in DOMAIN session.src[This(p)].has
      <4>1. Place(p) \in {"premirror", "own", "mirror", "stash"}
        BY <1>1, AtThis DEF Place, Job, Places
      <4>2. QED BY <1>1, <4>1, AtThis, SourceType DEF Has
    <3>2. QED BY <1>2, <3>1 DEF Plain, Honest
  <2>2. QED BY <1>1, <1>2, <2>1, GoesOK DEF WgetMisses, JobPC
<1>3. CASE Has(p) # "page"
  BY <1>1, <1>3, TryNextOK DEF WgetMisses
<1>4. QED BY <1>2, <1>3

(* What is served is known to be the file where all servers are honest.    *)
LEMMA ServedType ==
  ASSUME FetchInv, NEW p \in Process, job[p].pc \in {"wget", "get"}, Has(p) \in {"file", "other"}
  PROVE  /\ Served(p) \in Source \union {Another}
         /\ Plain(This(p)) => Served(p) = This(p)
<1>1. This(p) \in Source
  BY AtThis, SourceType
<1>2. Has(p) = session.src[This(p)].has[Place(p)] /\ Place(p) \in DOMAIN session.src[This(p)].has
  <2>1. Place(p) \in {"premirror", "own", "mirror", "stash"}
    BY AtThis DEF Place, Job, Places
  <2>2. QED BY <2>1, AtThis, SourceType DEF Has
<1>3. QED BY <1>1, <1>2 DEF Served, Plain, Honest

LEMMA ContentType ==
  ASSUME NEW x \in Source \union {Another}
  PROVE  /\ Whole(x) \in Content /\ Begun(x) \in Content
         /\ \A c \in Content, whole \in BOOLEAN : With(c, x, whole) \in Content
         /\ With(Begun(x), x, FALSE) = Begun(x) /\ With(Begun(x), x, TRUE) = Whole(x)
         /\ Whole(x).whole /\ ~Begun(x).whole
BY DEF Whole, Begun, With, Content

LEMMA WgetBeginsOK ==
  ASSUME FetchInv, NEW p \in Process, WgetBegins(p), UNCHANGED <<session, ps>>
  PROVE  FetchInv'
<1> DEFINE c == dl[Name(p)]
           x == Served(p)
<1>1. /\ job[p].pc = "wget" /\ ~md5[Name(p)] /\ Has(p) \in {"file", "other"}
      /\ job[p].resume => c # Nothing
      /\ Goes(p, "get") /\ UNCHANGED <<md5, repo>>
  BY Held DEF WgetBegins, JobAt, Busy
<1>2. This(p) \in Sources /\ Name(p) = BaseOf(This(p)) /\ Name(p) \in Base
  BY <1>1, AtThis
<1>3. x \in Source \union {Another} /\ (Plain(This(p)) => x = This(p))
  BY <1>1, ServedType
<1>4. c \in Content \union {Nothing}
  BY <1>2 DEF FetchInv, DiskInv
<1>5. PICK n : /\ dl' = [dl EXCEPT ![Name(p)] = n]
               /\ \/ n = Begun(x)
                  \/ job[p].resume /\ n = c
                  \/ job[p].resume /\ n = With(c, x, FALSE) /\ c # Whole(x)
  BY DEF WgetBegins
<1>6. n \in Content
  BY <1>1, <1>3, <1>4, <1>5, ContentType
<1>7. This(p) \in WgetSources /\ Plain(This(p)) => n \in {Begun(This(p)), Whole(This(p))}
  <2>1. SUFFICES ASSUME This(p) \in WgetSources, Plain(This(p))
                 PROVE  n \in {Begun(x), Whole(x)}
    BY <1>3
  <2>2. c \in {Nothing, Begun(x), Whole(x)}
    BY <1>2, <1>3, <2>1 DEF FetchInv, DiskInv, PlainFiles
  <2>3. CASE c = Whole(x)
    BY <1>5, <2>3
  <2>4. CASE c # Whole(x)
    BY <1>1, <1>3, <1>5, <2>2, <2>4, ContentType
  <2>5. QED BY <2>3, <2>4
<1>8. DiskInv'
  BY <1>1, <1>2, <1>5, <1>6, <1>7, NewFile DEF FetchInv
<1>9. dl'[Name(p)] # Nothing
  BY <1>2, <1>5, <1>6 DEF FetchInv, DiskInv
<1>10. QED BY <1>1, <1>8, <1>9, GoesOK DEF JobPC

LEMMA WgetSucceedsOK ==
  ASSUME FetchInv, NEW p \in Process, WgetSucceeds(p), UNCHANGED <<session, ps>>
  PROVE  FetchInv'
<1> DEFINE c == dl[Name(p)]
           x == Served(p)
           n == IF c.whole THEN c ELSE With(c, x, TRUE)
<1>1. /\ job[p].pc = "get" /\ ~md5[Name(p)] /\ Has(p) \in {"file", "other"} /\ c # Nothing
      /\ Goes(p, "check") /\ UNCHANGED <<md5, repo>>
  BY Held DEF WgetSucceeds, JobAt, Busy
<1>2. This(p) \in Sources /\ Name(p) = BaseOf(This(p)) /\ Name(p) \in Base
  BY <1>1, AtThis
<1>3. x \in Source \union {Another} /\ (Plain(This(p)) => x = This(p))
  BY <1>1, ServedType
<1>4. c \in Content
  BY <1>1, <1>2 DEF FetchInv, DiskInv
<1>5. n \in Content
  BY <1>3, <1>4, ContentType
<1>6. dl' = [dl EXCEPT ![Name(p)] = n]
  BY DEF WgetSucceeds
<1>7. This(p) \in WgetSources /\ Plain(This(p)) => n = Whole(This(p))
  <2>1. SUFFICES ASSUME This(p) \in WgetSources, Plain(This(p)) PROVE n = Whole(x)
    BY <1>3
  <2>2. c \in {Begun(x), Whole(x)}
    BY <1>1, <1>2, <1>3, <2>1 DEF FetchInv, DiskInv, PlainFiles
  <2>3. QED BY <1>3, <2>2, ContentType
<1> HIDE DEF n
<1>8. DiskInv'
  BY <1>1, <1>2, <1>5, <1>6, <1>7, NewFile DEF FetchInv
<1>9. dl'[Name(p)] = n
  BY <1>2, <1>6 DEF FetchInv, DiskInv
<1>10. QED BY <1>1, <1>7, <1>8, <1>9, GoesOK DEF JobPC

LEMMA WgetBreaksOK ==
  ASSUME FetchInv, NEW p \in Process, WgetBreaks(p), UNCHANGED <<session, ps>>
  PROVE  FetchInv'
<1>1. job[p].pc = "get" /\ ~md5[Name(p)] /\ DiskInv' /\ UNCHANGED <<dl, md5>>
  BY Held, DiskStays DEF WgetBreaks, JobAt, Busy, FetchInv, DiskInv
<1>2. QED BY <1>1, TryNextOK DEF WgetBreaks

(* Files that `rm` removes, and their markers.                             *)
LEMMA FilesRemoved ==
  ASSUME session \in Sessions, DiskInv, NEW gone \in SUBSET Base,
         dl' = [b \in Base |-> IF b \in gone THEN Nothing ELSE dl[b]],
         md5' = [b \in Base |-> md5[b] /\ b \notin gone], UNCHANGED <<session, repo>>
  PROVE  DiskInv'
<1>1. dl' \in [Base -> Content \union {Nothing}] /\ md5' \in [Base -> BOOLEAN]
  BY DEF DiskInv
<1>2. \A b \in Base : md5'[b] => md5[b] /\ dl'[b] = dl[b]
  OBVIOUS
<1>3. \A b \in Base : dl'[b] \in {Nothing, dl[b]}
  OBVIOUS
<1>4. \A t \in WgetSources : BaseOf(t) \in Base
  BY SourceType DEF WgetSources
<1>5. PlainFiles'
  <2>1. \A t \in WgetSources : Plain(t) => dl'[BaseOf(t)] \in {Nothing, Begun(t), Whole(t)}
    BY <1>3, <1>4 DEF DiskInv, PlainFiles
  <2>2. QED BY <2>1 DEF PlainFiles, WgetSources, Plain, Honest, Sharing, Sources, BaseOf
<1>6. MarkedIsVerified'
  <2>1. ASSUME NEW t \in WgetSources, md5'[BaseOf(t)], \A u \in Sharing(t) : Verified(u)
        PROVE  \E u \in Sharing(t) : dl'[BaseOf(t)] = Whole(u)
    BY <2>1, <1>2, <1>4 DEF DiskInv, MarkedIsVerified, BaseOf
  <2>2. QED BY <2>1 DEF MarkedIsVerified, WgetSources, Sharing, Verified, Plain, Honest, Sources, BaseOf
<1>7. \A b \in Base : md5'[b] => dl'[b] # Nothing
  BY <1>2 DEF DiskInv
<1>8. QED BY <1>1, <1>5, <1>6, <1>7 DEF DiskInv

(* A file gets its marker.                                                 *)
LEMMA FileMarked ==
  ASSUME session \in Sessions, DiskInv, NEW s \in Sources, dl[BaseOf(s)] # Nothing,
         Verified(s) => dl[BaseOf(s)] = Whole(s),
         md5' = [md5 EXCEPT ![BaseOf(s)] = TRUE], UNCHANGED <<session, dl, repo>>
  PROVE  DiskInv'
<1>1. BaseOf(s) \in Base
  BY SourceType
<1>2. md5' \in [Base -> BOOLEAN]
  BY <1>1 DEF DiskInv
<1>3. \A b \in Base : md5'[b] => md5[b] \/ b = BaseOf(s)
  BY <1>1 DEF DiskInv
<1>4. PlainFiles'
  BY DEF DiskInv, PlainFiles, WgetSources, Plain, Honest, Sharing, Sources, BaseOf
<1>5. MarkedIsVerified'
  <2>1. ASSUME NEW t \in WgetSources, md5'[BaseOf(t)], \A u \in Sharing(t) : Verified(u)
        PROVE  \E u \in Sharing(t) : dl[BaseOf(t)] = Whole(u)
    <3>1. BaseOf(t) \in Base
      BY SourceType DEF WgetSources
    <3>2. CASE md5[BaseOf(t)]
      BY <2>1, <3>2 DEF DiskInv, MarkedIsVerified, BaseOf
    <3>3. CASE BaseOf(t) = BaseOf(s)
      <4>1. s \in Sharing(t)
        BY <3>3 DEF Sharing, BaseOf
      <4>2. QED BY <2>1, <3>3, <4>1
    <3>4. QED BY <2>1, <1>3, <3>1, <3>2, <3>3
  <2>2. QED BY <2>1 DEF MarkedIsVerified, WgetSources, Sharing, Verified, Plain, Honest, Sources, BaseOf
<1>6. QED BY <1>2, <1>3, <1>4, <1>5 DEF DiskInv

LEMMA CheckOK ==
  ASSUME FetchInv, NEW p \in Process, Check(p), UNCHANGED <<session, ps>>
  PROVE  FetchInv'
<1> DEFINE s == This(p)
           wrong == session.src[s].sum /\ dl[Name(p)] # Whole(s)
<1>1. /\ job[p].pc = "check" /\ ~md5[Name(p)] /\ UNCHANGED repo
      /\ This(p) \in WgetSources /\ Plain(This(p)) => dl[Name(p)] = Whole(This(p))
  BY Held DEF Check, JobAt, Busy
<1>2. /\ This(p) \in Sources /\ Name(p) = BaseOf(This(p)) /\ Name(p) \in Base
      /\ Kind(p) = "wget" <=> This(p) \in WgetSources
      /\ session \in Sessions /\ DiskInv
  BY <1>1, AtThis DEF FetchInv
<1>3. CASE UNCHANGED <<dl, md5>>
  <2>1. DiskInv'
    BY <1>1, <1>2, <1>3, DiskStays DEF DiskInv
  <2>2. CASE Done(p)
    BY <1>1, <2>1, <2>2, DoneOK
  <2>3. CASE Goes(p, "crashed")
    BY <1>1, <2>1, <2>3, GoesOK DEF JobPC, Busy
  <2>4. CASE TryNext(p)
    BY <1>1, <1>3, <2>1, <2>4, TryNextOK
  <2>5. QED BY <1>3, <2>2, <2>3, <2>4 DEF Check
<1>4. CASE Kind(p) # "wget"
  BY <1>3, <1>4 DEF Check
<1>5. CASE Kind(p) = "wget" /\ dl[Name(p)] = Nothing
  <2> DEFINE gone == session.below[Name(p)]
  <2>1. gone \in SUBSET Base /\ Name(p) \in gone
    <3>1. SessionType(session)
      BY <1>2
    <3>2. QED BY <1>2, <3>1 DEF SessionType
  <2>2. /\ dl' = [b \in Base |-> IF b \in gone THEN Nothing ELSE dl[b]]
        /\ md5' = [b \in Base |-> md5[b] /\ b \notin gone]
        /\ TryNext(p)
    BY <1>5 DEF Check
  <2> HIDE DEF gone
  <2>3. DiskInv'
    BY <1>1, <1>2, <2>1, <2>2, FilesRemoved
  <2>4. ~md5'[Name(p)]
    BY <1>2, <2>1, <2>2
  <2>5. QED BY <1>1, <2>2, <2>3, <2>4, TryNextOK
<1>6. CASE Kind(p) = "wget" /\ dl[Name(p)] # Nothing /\ wrong
  BY <1>3, <1>6 DEF Check
<1>7. CASE Kind(p) = "wget" /\ dl[Name(p)] # Nothing /\ ~wrong
  <2>1. Done(p) /\ md5' = [md5 EXCEPT ![Name(p)] = TRUE] /\ UNCHANGED dl
    BY <1>7 DEF Check
  <2>2. Verified(s) => dl[BaseOf(s)] = Whole(s)
    BY <1>1, <1>2, <1>7 DEF Verified
  <2>3. DiskInv'
    BY <1>1, <1>2, <1>7, <2>1, <2>2, FileMarked
  <2>4. QED BY <1>1, <2>1, <2>3, DoneOK
<1>8. QED BY <1>4, <1>5, <1>6, <1>7

LEMMA CheckoutOK ==
  ASSUME FetchInv, NEW p \in Process, UNCHANGED <<session, ps>>,
         Checkout(p) \/ CheckoutFails(p) \/ RepositoryPacked(p)
  PROVE  FetchInv'
<1>1. /\ job[p].pc \in {"checkout", "repository"} /\ ~md5[Name(p)] /\ Name(p) \in Base
      /\ UNCHANGED <<dl, md5>>
  BY AtThis, Held DEF Checkout, CheckoutFails, RepositoryPacked, JobAt, Busy
<1>2. repo' \in [Base -> {"none", "torn", "whole"}]
  BY <1>1 DEF FetchInv, DiskInv, Checkout, CheckoutFails, RepositoryPacked
<1>3. DiskInv'
  BY <1>1, <1>2, DiskStays DEF FetchInv
<1>4. Goes(p, "failed") \/ Goes(p, "repository") \/ Goes(p, "pack")
  BY DEF Checkout, CheckoutFails, RepositoryPacked
<1>5. QED BY <1>1, <1>3, <1>4, GoesOK DEF JobPC

LEMMA PackOK ==
  ASSUME FetchInv, NEW p \in Process, Pack(p) \/ TarSucceeds(p), UNCHANGED <<session, ps>>
  PROVE  FetchInv'
<1>1. job[p].pc \in {"pack", "tar"} /\ ~md5[Name(p)] /\ UNCHANGED <<md5, repo>>
  BY Held DEF Pack, TarSucceeds, JobAt, Busy
<1>2. This(p) \in Sources /\ This(p) \in Source /\ Name(p) = BaseOf(This(p)) /\ session \in Sessions
  BY <1>1, AtThis, SourceType
<1>3. PICK n \in {Begun(This(p)), Whole(This(p))} : dl' = [dl EXCEPT ![Name(p)] = n]
  BY DEF Pack, TarSucceeds
<1>4. n \in Content
  BY <1>2, ContentType
<1>5. DiskInv'
  BY <1>1, <1>2, <1>3, <1>4, NewFile DEF FetchInv
<1>6. Goes(p, "tar") \/ Done(p)
  BY DEF Pack, TarSucceeds
<1>7. QED BY <1>1, <1>5, <1>6, GoesOK, DoneOK DEF JobPC

LEMMA TarFailsOK ==
  ASSUME FetchInv, NEW p \in Process, TarFails(p), UNCHANGED <<session, ps>>
  PROVE  FetchInv'
<1>1. job[p].pc \in {"repository", "tar"} /\ DiskInv'
  BY DiskStays DEF TarFails, JobAt, FetchInv, DiskInv
<1>2. Goes(p, "failed") \/ Done(p)
  BY DEF TarFails
<1>3. QED BY <1>1, <1>2, GoesOK, DoneOK DEF JobPC, Busy

LEMMA FetchStepOK ==
  ASSUME FetchInv, NEW p \in Process, FetchStep(p) \/ FetchBreaks(p) \/ TarFails(p),
         UNCHANGED <<session, ps>>
  PROVE  FetchInv'
BY ConsiderOK, TryOK, WgetMissesOK, WgetBeginsOK, WgetSucceedsOK, WgetBreaksOK, CheckOK,
   CheckoutOK, PackOK, TarFailsOK DEF FetchStep, FetchBreaks

---------------------------------------------------------------------------
(* Jobs begin and are forgotten.                                           *)

(* Nothing happens to a job.                                               *)
LEMMA JobStays ==
  ASSUME FetchInv, NEW q \in Process, job'[q] = job[q], ps'[q] = ps[q],
         UNCHANGED <<session, dl, md5>>
  PROVE  (JobShape(q, job[q]) /\ JobHolds(job[q]))'
<1>1. JobShape(q, job[q]) /\ JobHolds(job[q])
  BY DEF FetchInv
<1>2. JobShape(q, job[q])'
  BY <1>1 DEF JobShape, Job, Sources
<1>3. PICK k : k = job[q] /\ k = job'[q]
  OBVIOUS
<1>4. JobHolds(k)'
  <2>1. AtSource(k)' = AtSource(k) /\ FromWhere(k)' = FromWhere(k)
    BY SameSession
  <2>2. \A s : (s \in WgetSources /\ Plain(s))' <=> s \in WgetSources /\ Plain(s)
    BY DEF WgetSources, Plain, Honest, Sharing, Sources
  <2>3. QED BY <1>1, <1>3, <2>1, <2>2 DEF JobHolds, Whole, BaseOf
<1>5. JobHolds(job[q])'
  BY <1>3, <1>4
<1>6. QED BY <1>2, <1>5

LEMMA NothingHappens ==
  ASSUME FetchInv, UNCHANGED session, UNCHANGED ps, UNCHANGED fetchVars
  PROVE  FetchInv'
<1>1. DiskInv'
  BY DiskStays DEF FetchInv, DiskInv, fetchVars
<1>2. \A q \in Process : (JobShape(q, job[q]) /\ JobHolds(job[q]))'
  BY JobStays DEF fetchVars
<1>3. QED BY <1>1, <1>2 DEF FetchInv, fetchVars

(* One job changes, or none, with its process; and nothing on the disk.    *)
LEMMA ProcessMoves ==
  ASSUME FetchInv, NEW p \in Process, NEW j, job' = [job EXCEPT ![p] = j],
         UNCHANGED <<session, dl, md5, repo>>, \A q \in Process : q # p => ps'[q] = ps[q],
         j.pc \in {"none", "ok", "source"}, JobShape(p, j)'
  PROVE  FetchInv'
<1>1. DiskInv'
  BY DiskStays DEF FetchInv, DiskInv
<1>2. ASSUME NEW q \in Process PROVE (JobShape(q, job[q]) /\ JobHolds(job[q]))'
  <2>1. CASE q = p
    <3>1. job'[p] = j
      BY DEF FetchInv
    <3>2. JobShape(p, job[p])'
      BY <3>1
    <3>3. JobHolds(job[p])'
      BY <3>1 DEF JobHolds, Busy
    <3>4. QED BY <2>1, <3>2, <3>3
  <2>2. CASE q # p
    <3>1. job'[q] = job[q] /\ ps'[q] = ps[q]
      BY <2>2 DEF FetchInv
    <3>2. QED BY <3>1, JobStays
  <2>3. QED BY <2>1, <2>2
<1>3. QED BY <1>1, <1>2 DEF FetchInv

LEMMA ForgetOK ==
  ASSUME FetchInv, NEW p \in Process, Forget(p), UNCHANGED session,
         \A q \in Process : q # p => ps'[q] = ps[q]
  PROVE  FetchInv'
<1>1. NoJob.pc = "none" /\ JobShape(p, NoJob)'
  BY DEF NoJob, JobShape, Job, JobPC
<1>2. QED BY <1>1, ProcessMoves DEF Forget

(* A process that is loading its recipe has no job.                        *)
LEMMA NoJobYet ==
  ASSUME FetchInv, NEW p \in Process, ps[p].pc # "using", UNCHANGED session, UNCHANGED fetchVars,
         \A q \in Process : q # p => ps'[q] = ps[q]
  PROVE  FetchInv'
<1>1. PICK j : j = job[p]
  OBVIOUS
<1>2. j.pc = "none" /\ JobShape(p, j)
  BY <1>1 DEF FetchInv, JobShape
<1>3. JobShape(p, j)'
  BY <1>2 DEF JobShape, Job, Sources
<1>4. job' = [job EXCEPT ![p] = j]
  BY <1>1 DEF fetchVars, FetchInv
<1>5. QED BY <1>2, <1>3, <1>4, ProcessMoves DEF fetchVars

(* do_fetch begins with what the version of the recipe that was unpickled  *)
(* asks for.                                                               *)
LEMMA BeginFetchOK ==
  ASSUME FetchInv, NEW p \in Process, NEW uris \in Seq(Sources), uris # <<>> => session.procs = {p},
         BeginFetch(p, uris), ps'[p].pc = "using", UNCHANGED session,
         \A q \in Process : q # p => ps'[q] = ps[q]
  PROVE  FetchInv'
<1> DEFINE was == job[p]
           todo == DOMAIN uris
           pc == IF todo = {} THEN "ok" ELSE "source"
           next == [[was EXCEPT !.pc = pc, !.todo = todo, !.place = 1] EXCEPT !.uris = uris]
<1>1. todo \in SUBSET Nat /\ (todo # {} => session.procs = {p})
  OBVIOUS
<1>2. job' = [job EXCEPT ![p] = next] /\ UNCHANGED <<dl, md5, repo>>
  BY DEF BeginFetch, Continue
<1>3. PICK j \in Job : /\ job' = [job EXCEPT ![p] = j] /\ j.pc \in {"ok", "source"}
                       /\ j.pc = "source" => j.todo # {}
                       /\ j.uris = uris /\ j.todo = DOMAIN uris
  <2>1. was \in Job /\ pc \in JobPC /\ pc \in {"ok", "source"} /\ (pc = "source" => todo # {})
    BY DEF FetchInv, JobShape, JobPC
  <2>2. next \in Job /\ next.pc = pc /\ next.uris = uris /\ next.todo = todo
    <3>1. was \in Job /\ pc \in JobPC /\ todo \in SUBSET Nat /\ 1 \in 1..3
      BY <1>1, <2>1
    <3> HIDE DEF was, todo, pc
    <3>2. next \in Job
      BY <3>1 DEF Job
    <3>3. next.pc = pc /\ next.uris = uris /\ next.todo = todo
      BY <3>1 DEF Job
    <3>4. QED BY <3>2, <3>3
  <2> HIDE DEF next
  <2>3. QED BY <1>2, <2>1, <2>2
<1>4. JobShape(p, j)'
  BY <1>1, <1>3 DEF JobShape, Job, Sources
<1>5. QED BY <1>2, <1>3, <1>4, ProcessMoves

LEMMA BuildOK ==
  ASSUME CacheInv, FetchInv, NEW p \in Process, Build(p), UNCHANGED session
  PROVE  FetchInv'
<1>1. ps[p].pc = "loaded" /\ p \in session.procs
  BY Active DEF Build, Use, At
<1>2. ps'[p] = Unpickled(p, "using") /\ \A q \in Process : q # p => ps'[q] = ps[q]
  BY DEF Build, Use, Becomes, CacheInv
<1>3. CASE ps'[p].pc = "using"
  <2>1. PICK v \in 1..MaxVersion : BeginFetch(p, session.uris[v])
    BY <1>1, <1>2, <1>3, UnpickledOK DEF HasCache, Build
  <2>2. SessionType(session)
    BY DEF FetchInv
  <2>3. session.uris[v] \in Seq(Sources) /\ (session.uris[v] # <<>> => session.procs = {p})
    BY <1>1, <2>2 DEF SessionType, Sources
  <2>4. QED BY <1>2, <1>3, <2>1, <2>3, BeginFetchOK
<1>4. CASE ps'[p].pc # "using"
  BY <1>1, <1>2, <1>4, NoJobYet DEF Build
<1>5. QED BY <1>3, <1>4

---------------------------------------------------------------------------
(* The two together.                                                       *)

IInv == CacheInv /\ FetchInv /\ faults \in 0..MaxFaults

LEMMA InitOK == Init => IInv
<1> SUFFICES ASSUME Init PROVE IInv
  OBVIOUS
<1>1. CacheInv
  BY CacheInitOK DEF Init
<1>2. DiskInv
  <2>1. \A t \in WgetSources : BaseOf(t) \in Base
    BY SourceType DEF WgetSources, Init
  <2>2. QED BY <2>1 DEF Init, FetchInit, DiskInv, PlainFiles, MarkedIsVerified, BaseOf
<1>3. \A p : JobShape(p, NoJob) /\ JobHolds(NoJob)
  BY DEF NoJob, JobShape, JobHolds, Job, JobPC, Busy
<1>4. FetchInv
  BY <1>2, <1>3 DEF FetchInv, Init, FetchInit
<1>5. QED BY <1>1, <1>4 DEF IInv, Init

LEMMA FetchStays ==
  ASSUME CacheInv, FetchInv, [Next]_vars PROVE FetchInv'
<1>1. CASE UNCHANGED vars
  BY <1>1, NothingHappens DEF vars, fetchVars
<1>2. CASE Next
  <2>1. UNCHANGED session
    BY <1>2 DEF Next
  <2>2. ASSUME NEW p \in Process, NEW proc, Becomes(p, proc)
        PROVE  \A q \in Process : q # p => ps'[q] = ps[q]
    BY <2>2 DEF Becomes, CacheInv
  <2>3. ASSUME NEW p \in Process, Command(p) PROVE FetchInv'
    <3>1. CASE StartCommand(p)
      BY <3>1, <2>1, <2>2, NoJobYet DEF StartCommand, Start, At
    <3>2. CASE LoadRecipe(p)
      <4>1. ps[p].pc # "using"
        BY <3>2, PlacesOf DEF LoadRecipe, Load, StatCache, Unpickle, CheckDep, Mark, SkipInclude, Read,
           OpenCache, Dump, At
      <4>2. \E proc : Becomes(p, proc)
        BY <3>2 DEF LoadRecipe, Load, StatCache, Unpickle, CheckDep, Mark, SkipInclude, Read,
           OpenCache, Dump
      <4>3. QED BY <3>2, <4>1, <4>2, <2>1, <2>2, NoJobYet DEF LoadRecipe
    <3>3. CASE Build(p)
      BY <3>3, <2>1, BuildOK
    <3>4. CASE DoFetch(p)
      BY <3>4, <2>1, FetchStepOK DEF DoFetch, cacheVars
    <3>5. CASE EndCommand(p)
      BY <3>5, <2>1, <2>2, ForgetOK DEF EndCommand, Ends
    <3>6. QED BY <2>3, <3>1, <3>2, <3>3, <3>4, <3>5 DEF Command
  <2>4. ASSUME NEW p \in Process, ReparseRecipe(p) PROVE FetchInv'
    BY <2>4, <2>1, <2>2, ForgetOK DEF ReparseRecipe, Reparse
  <2>5. CASE People
    BY <2>5, <2>1, NothingHappens DEF People, Tick, RemoveInclude, Edit
  <2>6. ASSUME NEW p \in Process, Breaks(p) PROVE FetchInv'
    <3>1. CASE Kill(p)
      BY <3>1, <2>1, <2>2, ForgetOK DEF Kill, Ends
    <3>2. CASE (FetchBreaks(p) \/ TarFails(p)) /\ UNCHANGED cacheVars
      BY <3>2, <2>1, FetchStepOK DEF cacheVars
    <3>3. CASE DumpFails(p) /\ UNCHANGED fetchVars
      BY <3>3, <2>1, <2>2, NoJobYet DEF DumpFails, At
    <3>4. QED BY <2>6, <3>1, <3>2, <3>3 DEF Breaks
  <2>7. QED BY <1>2, <2>3, <2>4, <2>5, <2>6 DEF Next
<1>3. QED BY <1>1, <1>2

LEMMA StepOK == IInv /\ [Next]_vars => IInv'
<1> SUFFICES ASSUME IInv, [Next]_vars PROVE IInv'
  OBVIOUS
<1>1. CacheInv' /\ FetchInv'
  BY CacheStep, FetchStays DEF IInv
<1>2. faults' \in 0..MaxFaults
  BY DEF IInv, Next, Breaks, Fault, vars
<1>3. QED BY <1>1, <1>2 DEF IInv

LEMMA TypesHold == IInv => TypeOK
<1> SUFFICES ASSUME IInv PROVE TypeOK
  OBVIOUS
<1>1. ASSUME NEW p \in Process
      PROVE  /\ ps[p].mt \in [File -> 0..now] /\ ps[p].seen \in [File -> 0..MaxVersion]
             /\ ps[p].cfg \in Metadata /\ ps[p].d \in Metadata
             /\ ps[p].pc = "deps" => ps[p].i \in DOMAIN Depends
  BY DEF IInv, CacheInv, ProcOK, Proc
<1>2. ASSUME NEW p \in Process
      PROVE  /\ job[p].pc # "none" => ps[p].pc = "using"
             /\ job[p].pc \notin {"none", "ok"} => job[p].todo # {}
             /\ job[p].uris \in Seq(Sources) /\ job[p].todo \subseteq DOMAIN job[p].uris
  BY DEF IInv, FetchInv, JobShape, Job
<1>3. cache.at \in 0..now /\ cache.data \in Metadata \union {None, Torn}
  BY DEF IInv, CacheInv, WorldOK
<1>4. QED BY <1>1, <1>2, <1>3 DEF IInv, CacheInv, WorldOK, FetchInv, DiskInv, TypeOK

---------------------------------------------------------------------------
(* What do_fetch leaves when it succeeds.  A tarball nobody but its source *)
(* names is made in one go, since its fetcher is neither killed nor short  *)
(* of a disk; a file of wget's has its marker.                             *)

(* What do_fetch takes as complete.                                        *)
Tarball(s) == Dependable(s) /\ s \notin WgetSources
Right(s) == IF s \in WgetSources THEN md5[BaseOf(s)] ELSE dl[BaseOf(s)] = Whole(s)

(* What a job is done with is right; a download from honest servers is     *)
(* there when it is checked; and a tarball that is depended on is not there*)
(* before it is made, and in one go.                                       *)
JobDone(j) == \A i \in DOMAIN j.uris \ j.todo : Dependable(j.uris[i]) => Right(j.uris[i])
JobMakes(j) ==
    LET s == AtSource(j)
    IN  /\ j.pc = "check" /\ Honest(s) => dl[BaseOf(s)] # Nothing
        /\ j.pc \in {"checkout", "repository", "pack", "tar"} => s \notin WgetSources
        /\ Tarball(s) =>
             /\ j.pc \in {"try", "wget", "checkout", "repository", "pack"} => dl[BaseOf(s)] = Nothing
             /\ j.pc = "wget" => ~j.resume
             /\ j.pc = "get" => dl[BaseOf(s)] = Begun(s)
             /\ j.pc = "check" => dl[BaseOf(s)] = Whole(s)

Making(j, s) == j.pc \in {"get", "tar"} /\ AtSource(j) = s

TarInv ==
    \A s \in Sources : Tarball(s) =>
        dl[BaseOf(s)] \in {Nothing, Whole(s)} \/ \E p \in Process : Making(job[p], s)

RightInv ==
    /\ TarInv
    /\ \A p \in Process : /\ JobDone(job[p]) /\ JobMakes(job[p])
                          /\ job[p].pc = "ok" => job[p].todo = {}

LEMMA SameDepends ==
  ASSUME UNCHANGED session
  PROVE  /\ \A s : /\ Dependable(s)' <=> Dependable(s)
                   /\ Tarball(s)' <=> Tarball(s)
                   /\ Honest(s)' <=> Honest(s)
                   /\ (s \in WgetSources)' <=> s \in WgetSources
                   /\ BaseOf(s)' = BaseOf(s)
         /\ Sources' = Sources
         /\ \A j, s : Making(j, s)' <=> Making(j, s)
<1>1. Sources' = Sources /\ WgetSources' = WgetSources
  BY DEF Sources, WgetSources
<1>2. \A s : (Honest(s)' <=> Honest(s)) /\ BaseOf(s)' = BaseOf(s)
  BY DEF Honest, BaseOf
<1>3. \A s : Sharing(s)' = Sharing(s)
  BY DEF Sharing, Sources
<1>4. \A s : Verified(s)' <=> Verified(s)
  BY <1>2, <1>3 DEF Verified, Plain
<1>5. \A s : Dependable(s)' <=> Dependable(s)
  BY <1>1, <1>2, <1>3, <1>4 DEF Dependable, May
<1>6. \A s : Tarball(s)' <=> Tarball(s)
  BY <1>1, <1>5 DEF Tarball
<1>7. \A j, s : Making(j, s)' <=> Making(j, s)
  BY SameSession DEF Making
<1>8. QED BY <1>1, <1>2, <1>5, <1>6, <1>7

(* What JobMakes says after a step of a job at s.                          *)
LEMMA MakesNext ==
  ASSUME UNCHANGED session, NEW s, NEW j, AtSource(j) = s,
         j.pc = "check" /\ Honest(s) => dl'[BaseOf(s)] # Nothing,
         j.pc \in {"checkout", "repository", "pack", "tar"} => s \notin WgetSources,
         Tarball(s) =>
             /\ j.pc \in {"try", "wget", "checkout", "repository", "pack"} => dl'[BaseOf(s)] = Nothing
             /\ j.pc = "wget" => ~j.resume
             /\ j.pc = "get" => dl'[BaseOf(s)] = Begun(s)
             /\ j.pc = "check" => dl'[BaseOf(s)] = Whole(s)
  PROVE  JobMakes(j)'
<1>1. AtSource(j)' = s
  BY SameSession
<1>2. (Honest(s)' <=> Honest(s)) /\ (Tarball(s)' <=> Tarball(s)) /\ BaseOf(s)' = BaseOf(s)
      /\ ((s \in WgetSources)' <=> s \in WgetSources)
  BY SameDepends
<1>3. QED BY <1>1, <1>2 DEF JobMakes, Begun, Whole

(* A step of the job that is at a source: what was right stays so, other   *)
(* tarballs stay as they are.                                              *)
Spoils == \E s \in Sources : Dependable(s) /\ Right(s) /\ ~Right(s)'
OthersStay(p) == \A s \in Sources : Tarball(s) /\ s # This(p) => dl'[BaseOf(s)] = dl[BaseOf(s)]

LEMMA RightMoves ==
  ASSUME FetchInv, RightInv, NEW p \in Process, job[p].pc \notin {"none", "ok"}, NEW j,
         job' = [job EXCEPT ![p] = j], UNCHANGED session, NEW s, s = This(p),
         ~Spoils, OthersStay(p), JobMakes(j)', j.uris = job[p].uris,
         Tarball(This(p)) => dl'[Name(p)] \in {Nothing, Whole(This(p))} \/ Making(j, This(p)),
         \/ j.todo = job[p].todo
         \/ j.todo = job[p].todo \ {Current(p)} /\ (Dependable(s) => Right(s)'),
         j.pc = "ok" => j.todo = {}
  PROVE  RightInv'
<1>1. /\ session.procs = {p} /\ This(p) \in Sources /\ Name(p) = BaseOf(This(p))
      /\ This(p) = AtSource(job[p])
  BY AtThis
<1>2. job'[p] = j /\ \A q \in Process : q # p => job'[q] = job[q] /\ job[q].pc \in {"none", "ok"}
  <2>1. job'[p] = j /\ \A q \in Process : q # p => job'[q] = job[q]
    BY DEF FetchInv
  <2>2. \A q \in Process : q # p => job[q].pc \in {"none", "ok"}
    BY <1>1 DEF FetchInv, JobShape
  <2>3. QED BY <2>1, <2>2
<1>3. ASSUME NEW k, JobDone(k), k.uris \in Seq(Sources)
      PROVE  JobDone(k)'
  <2>1. ASSUME NEW i \in DOMAIN k.uris \ k.todo, Dependable(k.uris[i]) PROVE Right(k.uris[i])'
    <3>1. PICK t : t = k.uris[i]
      OBVIOUS
    <3>2. t \in Sources /\ Dependable(t) /\ Right(t)
      BY <1>3, <2>1, <3>1 DEF JobDone
    <3>3. Right(t)'
      BY <3>2 DEF Spoils
    <3>4. QED BY <3>1, <3>3
  <2>2. QED BY <2>1, SameDepends DEF JobDone
<1>4. \A q \in Process : job[q].uris \in Seq(Sources)
  BY DEF FetchInv, JobShape, Job
<1>5. TarInv'
  <2>1. ASSUME NEW t \in Sources, Tarball(t)
        PROVE  dl'[BaseOf(t)] \in {Nothing, Whole(t)} \/ Making(j, t)
    <3>1. CASE t = This(p)
      BY <1>1, <2>1, <3>1
    <3>2. CASE t # This(p)
      <4>1. dl'[BaseOf(t)] = dl[BaseOf(t)]
        BY <2>1, <3>2 DEF OthersStay
      <4>2. \A q \in Process : ~Making(job[q], t)
        BY <1>1, <1>2, <3>2 DEF Making
      <4>3. QED BY <2>1, <4>1, <4>2 DEF RightInv, TarInv
    <3>3. QED BY <3>1, <3>2
  <2>2. \A t \in Sources : Making(j, t) => \E q \in Process : Making(job'[q], t)
    BY <1>2
  <2>3. ASSUME NEW t \in Sources', Tarball(t)'
        PROVE  dl'[BaseOf(t)'] \in {Nothing, Whole(t)} \/ \E q \in Process : Making(job[q], t)'
    <3>1. t \in Sources /\ Tarball(t) /\ BaseOf(t)' = BaseOf(t)
      BY <2>3, SameDepends
    <3>2. \A q \in Process : Making(job'[q], t) => Making(job[q], t)'
      BY SameSession DEF Making
    <3>3. QED BY <2>1, <2>2, <3>1, <3>2
  <2>4. QED BY <2>3 DEF TarInv, Whole
<1>6. JobDone(j)'
  <2>1. CASE j.todo = job[p].todo
    <3>1. JobDone(j) /\ j.uris \in Seq(Sources)
      BY <1>4, <2>1 DEF RightInv, JobDone
    <3>2. QED BY <1>3, <3>1
  <2>2. CASE j.todo = job[p].todo \ {Current(p)} /\ (Dependable(s) => Right(s)')
    <3>1. ASSUME NEW i \in DOMAIN j.uris \ j.todo, Dependable(j.uris[i]) PROVE Right(j.uris[i])'
      <4>1. CASE i = Current(p)
        <5>1. s = j.uris[i] /\ Right(s)'
          BY <2>2, <3>1, <4>1 DEF This
        <5>2. QED BY <5>1
      <4>2. CASE i # Current(p)
        <5>1. PICK t : t = j.uris[i]
          OBVIOUS
        <5>2. t \in Sources /\ Dependable(t) /\ Right(t)
          BY <1>4, <2>2, <3>1, <4>2, <5>1 DEF RightInv, JobDone
        <5>3. Right(t)'
          BY <5>2 DEF Spoils
        <5>4. QED BY <5>1, <5>3
      <4>3. QED BY <4>1, <4>2
    <3>2. QED BY <3>1, SameDepends DEF JobDone
  <2>3. QED BY <2>1, <2>2
<1>7. ASSUME NEW q \in Process
      PROVE  (JobDone(job[q]) /\ JobMakes(job[q]))' /\ (job'[q].pc = "ok" => job'[q].todo = {})
  <2>1. CASE q = p
    BY <1>2, <1>6, <2>1
  <2>2. CASE q # p
    <3>1. PICK k : k = job[q] /\ k = job'[q]
      BY <1>2, <2>2
    <3>2. JobDone(k) /\ k.uris \in Seq(Sources) /\ k.pc \in {"none", "ok"} /\ (k.pc = "ok" => k.todo = {})
      BY <1>2, <1>4, <2>2, <3>1 DEF RightInv
    <3>3. JobDone(k)'
      BY <1>3, <3>2
    <3>4. JobMakes(k)'
      BY <3>2 DEF JobMakes
    <3>5. QED BY <3>1, <3>2, <3>3, <3>4
  <2>3. QED BY <2>1, <2>2
<1>8. QED BY <1>5, <1>7 DEF RightInv

(* Nobody depends on a source of whose file name there is another one.     *)
LEMMA NamedOnce ==
  ASSUME NEW s \in Sources, NEW t \in Sources, Dependable(s), BaseOf(s) = BaseOf(t)
  PROVE  s = t
<1>1. t \in Sharing(s) /\ Sharing(s) = {s}
  BY DEF Dependable, Sharing, BaseOf
<1>2. QED BY <1>1

LEMMA OneFile ==
  ASSUME FetchInv, NEW p \in Process, job[p].pc \notin {"none", "ok"}, UNCHANGED session, NEW n,
         dl' = [dl EXCEPT ![Name(p)] = n], \A b \in Base : md5[b] => md5'[b],
         Tarball(This(p)) /\ Right(This(p)) => n = Whole(This(p))
  PROVE  ~Spoils /\ OthersStay(p)
<1>1. This(p) \in Sources /\ Name(p) = BaseOf(This(p)) /\ session \in Sessions
  BY AtThis
<1>2. ASSUME NEW s \in Sources, Dependable(s), s # This(p)
      PROVE  dl'[BaseOf(s)] = dl[BaseOf(s)]
  <2>1. BaseOf(s) # Name(p) /\ BaseOf(s) \in Base
    BY <1>1, <1>2, NamedOnce, SourceType
  <2>2. QED BY <2>1 DEF FetchInv, DiskInv
<1>3. OthersStay(p)
  BY <1>2 DEF OthersStay, Tarball
<1>4. ASSUME NEW s \in Sources, Dependable(s), Right(s) PROVE Right(s)'
  <2>1. BaseOf(s)' = BaseOf(s) /\ ((s \in WgetSources)' <=> s \in WgetSources) /\ BaseOf(s) \in Base
    BY <1>1, SameDepends, SourceType
  <2>2. CASE s \in WgetSources
    BY <1>4, <2>1, <2>2 DEF Right
  <2>3. CASE s \notin WgetSources /\ s = This(p)
    <3>1. n = Whole(s)
      BY <1>4, <2>3 DEF Tarball
    <3>2. dl'[BaseOf(s)] = Whole(s)
      BY <1>1, <2>1, <2>3, <3>1 DEF FetchInv, DiskInv
    <3>3. QED BY <2>1, <2>3, <3>2 DEF Right, Whole
  <2>4. CASE s \notin WgetSources /\ s # This(p)
    BY <1>2, <1>4, <2>1, <2>4 DEF Right, Whole
  <2>5. QED BY <2>2, <2>3, <2>4
<1>5. QED BY <1>3, <1>4 DEF Spoils

LEMMA NoFile ==
  ASSUME FetchInv, NEW p \in Process, job[p].pc \notin {"none", "ok"}, UNCHANGED <<session, dl>>,
         \A b \in Base : md5[b] => md5'[b]
  PROVE  ~Spoils /\ OthersStay(p)
<1>1. dl' = [dl EXCEPT ![Name(p)] = dl[Name(p)]]
  BY DEF FetchInv, DiskInv
<1>2. Tarball(This(p)) /\ Right(This(p)) => dl[Name(p)] = Whole(This(p))
  BY AtThis DEF Tarball, Right
<1>3. QED BY <1>1, <1>2, OneFile

(* rm after a redirected download, which leaves what is depended on.       *)
LEMMA RmSpares ==
  ASSUME FetchInv, NEW p \in Process, job[p].pc = "check", UNCHANGED session,
         This(p) \in WgetSources, ~Honest(This(p)),
         dl' = [b \in Base |-> IF b \in session.below[Name(p)] THEN Nothing ELSE dl[b]],
         md5' = [b \in Base |-> md5[b] /\ b \notin session.below[Name(p)]]
  PROVE  ~Spoils /\ OthersStay(p)
<1>1. This(p) \in Sources /\ Name(p) = BaseOf(This(p)) /\ session \in Sessions /\ ~md5[Name(p)]
  BY AtThis, Held DEF Busy
<1>2. ASSUME NEW s \in Sources, Dependable(s), s # This(p)
      PROVE  dl'[BaseOf(s)] = dl[BaseOf(s)] /\ md5'[BaseOf(s)] = md5[BaseOf(s)]
  <2>1. BaseOf(s) \notin session.below[Name(p)]
    BY <1>1, <1>2 DEF Dependable, BaseOf
  <2>2. BaseOf(s) \in Base
    BY <1>1, SourceType
  <2>3. md5[BaseOf(s)] \in BOOLEAN
    BY <2>2 DEF FetchInv, DiskInv
  <2>4. QED BY <2>1, <2>2, <2>3
<1>3. OthersStay(p)
  BY <1>2 DEF OthersStay, Tarball
<1>4. ASSUME NEW s \in Sources, Dependable(s), Right(s) PROVE Right(s)'
  <2>1. BaseOf(s)' = BaseOf(s) /\ ((s \in WgetSources)' <=> s \in WgetSources)
    BY <1>1, SameDepends
  <2>2. s # This(p)
    BY <1>1, <1>4 DEF Right
  <2>3. QED BY <1>2, <1>4, <2>1, <2>2 DEF Right, Whole
<1>5. QED BY <1>3, <1>4 DEF Spoils

---------------------------------------------------------------------------
(* The job goes on at its source, or to the next one.                      *)

LEMMA GoesRight ==
  ASSUME FetchInv, RightInv, NEW p \in Process, job[p].pc \notin {"none", "ok"}, UNCHANGED session,
         NEW pc \in JobPC \ {"ok", "wget"}, Goes(p, pc), ~Spoils, OthersStay(p),
         pc = "check" /\ Honest(This(p)) => dl'[Name(p)] # Nothing,
         pc \in {"checkout", "repository", "pack", "tar"} => Kind(p) # "wget",
         Tarball(This(p)) =>
             /\ pc \in {"try", "checkout", "repository", "pack"} => dl'[Name(p)] = Nothing
             /\ pc = "get" => dl'[Name(p)] = Begun(This(p))
             /\ pc = "check" => dl'[Name(p)] = Whole(This(p))
             /\ pc \in {"get", "tar"} \/ dl'[Name(p)] \in {Nothing, Whole(This(p))}
  PROVE  RightInv'
<1> DEFINE next == [job[p] EXCEPT !.pc = pc]
<1>1. PICK s : s = This(p) /\ BaseOf(s) = Name(p)
  BY AtThis
<1>2. PICK j : /\ job' = [job EXCEPT ![p] = j] /\ j.pc = pc /\ j.uris = job[p].uris
               /\ j.todo = job[p].todo
  <2>1. job[p] \in Job /\ job' = [job EXCEPT ![p] = next]
    BY AtThis DEF Goes
  <2>2. next.pc = pc /\ next.uris = job[p].uris /\ next.todo = job[p].todo
    BY <2>1 DEF Job
  <2> HIDE DEF next
  <2>3. QED BY <2>1, <2>2
<1>3. AtSource(j) = s
  BY <1>1, <1>2, AtThis DEF AtSource
<1>4. JobMakes(j)'
  BY <1>1, <1>2, <1>3, AtThis, MakesNext
<1>5. Tarball(s) => dl'[Name(p)] \in {Nothing, Whole(s)} \/ Making(j, s)
  BY <1>1, <1>2, <1>3 DEF Making
<1>6. QED BY <1>1, <1>2, <1>4, <1>5, RightMoves

LEMMA DoneRight ==
  ASSUME FetchInv, RightInv, NEW p \in Process, job[p].pc \notin {"none", "ok"}, UNCHANGED session,
         Done(p), ~Spoils, OthersStay(p), NEW s, s = This(p), Dependable(s) => Right(s)'
  PROVE  RightInv'
<1> DEFINE todo == job[p].todo \ {Current(p)}
           pc == IF todo = {} THEN "ok" ELSE "source"
           next == [job[p] EXCEPT !.pc = pc, !.todo = todo, !.place = 1]
<1>1. PICK j : /\ job' = [job EXCEPT ![p] = j] /\ j.uris = job[p].uris
               /\ j.todo = job[p].todo \ {Current(p)}
               /\ j.pc = IF j.todo = {} THEN "ok" ELSE "source"
  <2>1. job[p] \in Job /\ job' = [job EXCEPT ![p] = next]
    BY AtThis DEF Done, Continue
  <2>2. next.pc = pc /\ next.uris = job[p].uris /\ next.todo = todo
    BY <2>1 DEF Job
  <2> HIDE DEF next
  <2>3. QED BY <2>1, <2>2
<1>2. JobMakes(j)'
  BY <1>1 DEF JobMakes
<1>3. Tarball(s) => dl'[Name(p)] = Whole(s)
  <2>1. BaseOf(s)' = Name(p) /\ ((s \in WgetSources)' <=> s \in WgetSources)
    BY AtThis, SameDepends
  <2>2. QED BY <2>1 DEF Tarball, Right, Whole
<1>4. QED BY <1>1, <1>2, <1>3, RightMoves

LEMMA TryNextRight ==
  ASSUME FetchInv, RightInv, NEW p \in Process, job[p].pc \notin {"none", "ok"}, UNCHANGED session,
         TryNext(p), ~Spoils, OthersStay(p), Tarball(This(p)) => dl'[Name(p)] = Nothing
  PROVE  RightInv'
<1>1. CASE (Goes(p, "checkout") /\ Kind(p) # "wget") \/ Goes(p, "failed")
  BY <1>1, GoesRight DEF JobPC
<1>2. CASE ~ ((Goes(p, "checkout") /\ Kind(p) # "wget") \/ Goes(p, "failed"))
  <2> DEFINE next == [job[p] EXCEPT !.pc = "try", !.place = @ + 1]
  <2>1. PICK s : s = This(p) /\ BaseOf(s) = Name(p)
    BY AtThis
  <2>2. PICK j : /\ job' = [job EXCEPT ![p] = j] /\ j.pc = "try" /\ j.uris = job[p].uris
                 /\ j.todo = job[p].todo
    <3>1. job[p] \in Job /\ job' = [job EXCEPT ![p] = next]
      BY <1>2, AtThis DEF TryNext, Job, FetchInv
    <3>2. next.pc = "try" /\ next.uris = job[p].uris /\ next.todo = job[p].todo
      BY <3>1 DEF Job
    <3> HIDE DEF next
    <3>3. QED BY <3>1, <3>2
  <2>3. AtSource(j) = s
    BY <2>1, <2>2, AtThis DEF AtSource
  <2>4. JobMakes(j)'
    BY <2>1, <2>2, <2>3, MakesNext
  <2>5. QED BY <2>1, <2>2, <2>4, RightMoves
<1>3. QED BY <1>1, <1>2

(* What the invariant says of the job that is at a source.                 *)
LEMMA Makes ==
  ASSUME FetchInv, RightInv, NEW p \in Process, job[p].pc \notin {"none", "ok"}
  PROVE  /\ job[p].pc = "check" /\ Honest(This(p)) => dl[Name(p)] # Nothing
         /\ job[p].pc \in {"checkout", "repository", "pack", "tar"} => Kind(p) # "wget"
         /\ Tarball(This(p)) =>
             /\ Kind(p) # "wget"
             /\ job[p].pc \in {"try", "wget", "checkout", "repository", "pack"} => dl[Name(p)] = Nothing
             /\ job[p].pc = "wget" => ~job[p].resume
             /\ job[p].pc = "get" => dl[Name(p)] = Begun(This(p))
             /\ job[p].pc = "check" => dl[Name(p)] = Whole(This(p))
             /\ job[p].pc \notin {"get", "tar"} => dl[Name(p)] \in {Nothing, Whole(This(p))}
<1>1. /\ session.procs = {p} /\ This(p) \in Sources /\ Name(p) = BaseOf(This(p))
      /\ This(p) = AtSource(job[p]) /\ (Kind(p) = "wget" <=> This(p) \in WgetSources)
  BY AtThis
<1>2. \A q \in Process : q # p => job[q].pc \in {"none", "ok"}
  BY <1>1 DEF FetchInv, JobShape
<1>3. JobMakes(job[p])
  BY DEF RightInv
<1>4. ASSUME Tarball(This(p)), job[p].pc \notin {"get", "tar"}
      PROVE  dl[Name(p)] \in {Nothing, Whole(This(p))}
  <2>1. \A q \in Process : ~Making(job[q], This(p))
    BY <1>2, <1>4 DEF Making
  <2>2. QED BY <1>1, <1>4, <2>1 DEF RightInv, TarInv
<1>5. QED BY <1>1, <1>3, <1>4 DEF JobMakes, Tarball

LEMMA HonestServers ==
  ASSUME FetchInv, NEW p \in Process, job[p].pc \notin {"none", "ok"}, Honest(This(p))
  PROVE  Has(p) \in {"file", "nothing"} /\ (Has(p) = "file" => Served(p) = This(p))
<1>1. Place(p) \in {"premirror", "own", "mirror", "stash"}
  BY AtThis DEF Place, Job, Places
<1>2. Has(p) = session.src[This(p)].has[Place(p)] /\ Place(p) \in DOMAIN session.src[This(p)].has
  BY <1>1, AtThis, SourceType DEF Has
<1>3. QED BY <1>2 DEF Honest, Served

LEMMA TarballHonest == \A s : Tarball(s) => Honest(s) /\ ~May("kill") /\ ~May("disk")
BY DEF Tarball, Dependable

LEMMA ConsiderRight ==
  ASSUME FetchInv, RightInv, NEW p \in Process, Consider(p), UNCHANGED session PROVE RightInv'
<1>1. /\ job[p].pc = "source" /\ ~Spoils /\ OthersStay(p) /\ UNCHANGED <<dl, md5>>
  BY NoFile DEF Consider, JobAt
<1>2. PICK s : s = This(p) /\ BaseOf(s) = Name(p) /\ (s \in WgetSources <=> Kind(p) = "wget")
  BY <1>1, AtThis
<1>3. Tarball(s) => dl[Name(p)] \in {Nothing, Whole(s)}
  BY <1>1, <1>2, Makes
<1>4. CASE IsComplete(p)
  <2>1. Dependable(s) => Right(s)
    BY <1>2, <1>3, <1>4 DEF IsComplete, Right, Tarball
  <2>2. Dependable(s) => Right(s)'
    BY <1>1, <2>1, SameDepends DEF Right, Whole
  <2>3. QED BY <1>1, <1>2, <1>4, <2>2, DoneRight DEF Consider
<1>5. CASE ~IsComplete(p)
  <2>1. Tarball(s) => dl[Name(p)] = Nothing
    BY <1>2, <1>5 DEF IsComplete, Tarball
  <2>2. (Goes(p, "checkout") /\ Kind(p) # "wget") \/ Goes(p, "try")
    BY <1>5 DEF Consider
  <2>3. QED BY <1>1, <1>2, <2>1, <2>2, GoesRight DEF JobPC
<1>6. QED BY <1>4, <1>5

LEMMA TryRight ==
  ASSUME FetchInv, RightInv, NEW p \in Process, Try(p), UNCHANGED session PROVE RightInv'
<1> DEFINE resume == Kind(p) = "wget" /\ dl[Name(p)] # Nothing
           next == [job[p] EXCEPT !.pc = "wget", !.resume = resume]
<1>1. /\ job[p].pc = "try" /\ ~Spoils /\ OthersStay(p) /\ UNCHANGED <<dl, md5>>
  BY NoFile DEF Try, JobAt
<1>2. PICK s : s = This(p) /\ BaseOf(s) = Name(p)
  BY <1>1, AtThis
<1>3. Tarball(s) => dl[Name(p)] = Nothing /\ Kind(p) # "wget"
  BY <1>1, <1>2, Makes
<1>4. PICK j : /\ job' = [job EXCEPT ![p] = j] /\ j.pc = "wget" /\ j.uris = job[p].uris
               /\ j.todo = job[p].todo /\ (j.resume => Kind(p) = "wget")
  <2>1. job[p] \in Job /\ job' = [job EXCEPT ![p] = next]
    BY <1>1, AtThis DEF Try
  <2>2. /\ next.pc = "wget" /\ next.uris = job[p].uris /\ next.todo = job[p].todo
        /\ next.resume = resume
    BY <2>1 DEF Job
  <2> HIDE DEF next
  <2>3. QED BY <2>1, <2>2
<1>5. AtSource(j) = s
  BY <1>1, <1>2, <1>4, AtThis DEF AtSource
<1>6. JobMakes(j)'
  BY <1>1, <1>2, <1>3, <1>4, <1>5, MakesNext
<1>7. QED BY <1>1, <1>2, <1>3, <1>4, <1>6, RightMoves

LEMMA WgetMissesRight ==
  ASSUME FetchInv, RightInv, NEW p \in Process, WgetMisses(p), UNCHANGED session PROVE RightInv'
<1>1. /\ job[p].pc = "wget" /\ ~Spoils /\ OthersStay(p) /\ UNCHANGED <<dl, md5>>
  BY NoFile DEF WgetMisses, JobAt
<1>2. CASE Has(p) = "page"
  <2>1. ~Honest(This(p)) /\ ~Tarball(This(p))
    BY <1>1, <1>2, HonestServers, TarballHonest
  <2>2. QED BY <1>1, <1>2, <2>1, GoesRight DEF WgetMisses, JobPC
<1>3. CASE Has(p) # "page"
  BY <1>1, <1>3, Makes, TryNextRight DEF WgetMisses
<1>4. QED BY <1>2, <1>3

LEMMA WgetBeginsRight ==
  ASSUME FetchInv, RightInv, NEW p \in Process, WgetBegins(p), UNCHANGED session PROVE RightInv'
<1>1. /\ job[p].pc = "wget" /\ Has(p) \in {"file", "other"} /\ Goes(p, "get") /\ UNCHANGED md5
  BY DEF WgetBegins, JobAt
<1>2. Name(p) \in Base /\ This(p) \in Sources /\ This(p) \in Source /\ Name(p) = BaseOf(This(p))
  BY <1>1, AtThis, SourceType
<1>3. PICK n : dl' = [dl EXCEPT ![Name(p)] = n] /\ (~job[p].resume => n = Begun(Served(p)))
  BY DEF WgetBegins
<1>4. Tarball(This(p)) => n = Begun(This(p)) /\ dl[Name(p)] = Nothing
  BY <1>1, <1>3, Makes, HonestServers, TarballHonest
<1>5. Tarball(This(p)) => ~Right(This(p))
  <2>1. Whole(This(p)) # Nothing
    BY <1>2, ContentType
  <2>2. QED BY <1>2, <1>4, <2>1 DEF Right, Tarball
<1>6. ~Spoils /\ OthersStay(p)
  BY <1>1, <1>3, <1>5, OneFile
<1>7. dl'[Name(p)] = n
  BY <1>2, <1>3 DEF FetchInv, DiskInv
<1>8. QED BY <1>1, <1>4, <1>6, <1>7, GoesRight DEF JobPC

LEMMA WgetSucceedsRight ==
  ASSUME FetchInv, RightInv, NEW p \in Process, WgetSucceeds(p), UNCHANGED session PROVE RightInv'
<1> DEFINE c == dl[Name(p)]
           n == IF c.whole THEN c ELSE With(c, Served(p), TRUE)
<1>1. /\ job[p].pc = "get" /\ Has(p) \in {"file", "other"} /\ c # Nothing
      /\ Goes(p, "check") /\ UNCHANGED md5
  BY Held DEF WgetSucceeds, JobAt
<1>2. Name(p) \in Base /\ This(p) \in Sources /\ This(p) \in Source /\ Name(p) = BaseOf(This(p))
  BY <1>1, AtThis, SourceType
<1>3. dl' = [dl EXCEPT ![Name(p)] = n]
  BY DEF WgetSucceeds
<1>4. Tarball(This(p)) => n = Whole(This(p))
  <2>1. Tarball(This(p)) => c = Begun(This(p)) /\ Served(p) = This(p)
    BY <1>1, Makes, HonestServers, TarballHonest
  <2>2. QED BY <1>2, <2>1, ContentType
<1>5. n # Nothing
  <2>1. c \in Content
    BY <1>1, <1>2 DEF FetchInv, DiskInv
  <2>2. n \in Content
    BY <1>1, <2>1, ServedType, ContentType
  <2>3. QED BY <2>2
<1> HIDE DEF n
<1>6. ~Spoils /\ OthersStay(p)
  BY <1>1, <1>3, <1>4, OneFile
<1>7. dl'[Name(p)] = n
  BY <1>2, <1>3 DEF FetchInv, DiskInv
<1>8. QED BY <1>1, <1>4, <1>5, <1>6, <1>7, GoesRight DEF JobPC

(* A stash that a connection to may break is not used.                     *)
LEMMA WgetBreaksRight ==
  ASSUME FetchInv, RightInv, NEW p \in Process, WgetBreaks(p), May("net"), UNCHANGED session
  PROVE  RightInv'
<1>1. /\ job[p].pc = "get" /\ ~Spoils /\ OthersStay(p) /\ Has(p) \in {"file", "other"}
  BY NoFile, Held DEF WgetBreaks, JobAt
<1>2. ~Tarball(This(p))
  <2>1. SUFFICES ASSUME Tarball(This(p)) PROVE FALSE
    OBVIOUS
  <2>2. Kind(p) # "wget"
    BY <1>1, <2>1, Makes
  <2>3. Has(p) = session.src[This(p)].has["stash"]
    BY <2>2 DEF Has, Place
  <2>4. session.src[This(p)].has["stash"] = "nothing"
    BY <2>1 DEF Tarball, Dependable
  <2>5. QED BY <1>1, <2>3, <2>4
<1>3. QED BY <1>1, <1>2, TryNextRight DEF WgetBreaks

LEMMA CheckRight ==
  ASSUME FetchInv, RightInv, NEW p \in Process, Check(p), UNCHANGED session PROVE RightInv'
<1> DEFINE wrong == session.src[This(p)].sum /\ dl[Name(p)] # Whole(This(p))
<1>1. job[p].pc = "check"
  BY DEF Check, JobAt
<1>2. PICK s : /\ s = This(p) /\ BaseOf(s) = Name(p) /\ (s \in WgetSources <=> Kind(p) = "wget")
               /\ Name(p) \in Base
  BY <1>1, AtThis
<1>3. BaseOf(s)' = Name(p) /\ ((s \in WgetSources)' <=> s \in WgetSources)
  BY <1>2, SameDepends
<1>4. CASE Kind(p) # "wget"
  <2>1. Done(p) /\ UNCHANGED <<dl, md5>>
    BY <1>4 DEF Check
  <2>2. Dependable(s) => dl[Name(p)] = Whole(s)
    BY <1>1, <1>2, <1>4, Makes DEF Tarball
  <2>3. Dependable(s) => Right(s)'
    BY <1>2, <1>3, <1>4, <2>1, <2>2 DEF Right, Whole
  <2>4. QED BY <1>1, <1>2, <2>1, <2>3, NoFile, DoneRight
<1>5. CASE Kind(p) = "wget" /\ dl[Name(p)] = Nothing
  <2>1. /\ dl' = [b \in Base |-> IF b \in session.below[Name(p)] THEN Nothing ELSE dl[b]]
        /\ md5' = [b \in Base |-> md5[b] /\ b \notin session.below[Name(p)]]
        /\ TryNext(p)
    BY <1>5 DEF Check
  <2>2. ~Honest(s) /\ ~Tarball(s)
    BY <1>1, <1>2, <1>5, Makes DEF Tarball
  <2>3. ~Spoils /\ OthersStay(p)
    BY <1>1, <1>2, <1>5, <2>1, <2>2, RmSpares
  <2>4. QED BY <1>1, <1>2, <2>1, <2>2, <2>3, TryNextRight
<1>6. CASE Kind(p) = "wget" /\ dl[Name(p)] # Nothing /\ wrong
  <2>1. Goes(p, "crashed") /\ UNCHANGED <<dl, md5>>
    BY <1>6 DEF Check
  <2>2. QED BY <1>1, <1>2, <1>6, <2>1, NoFile, GoesRight DEF Tarball, JobPC
<1>7. CASE Kind(p) = "wget" /\ dl[Name(p)] # Nothing /\ ~wrong
  <2>1. Done(p) /\ md5' = [md5 EXCEPT ![Name(p)] = TRUE] /\ UNCHANGED dl
    BY <1>7 DEF Check
  <2>2. md5'[Name(p)] /\ \A b \in Base : md5[b] => md5'[b]
    BY <1>2, <2>1 DEF FetchInv, DiskInv
  <2>3. Right(s)'
    BY <1>2, <1>3, <1>7, <2>2 DEF Right
  <2>4. QED BY <1>1, <1>2, <2>1, <2>2, <2>3, NoFile, DoneRight
<1>8. QED BY <1>4, <1>5, <1>6, <1>7

LEMMA CheckoutRight ==
  ASSUME FetchInv, RightInv, NEW p \in Process, UNCHANGED session,
         Checkout(p) \/ CheckoutFails(p) \/ RepositoryPacked(p)
  PROVE  RightInv'
<1>1. job[p].pc \in {"checkout", "repository"} /\ ~Spoils /\ OthersStay(p) /\ UNCHANGED <<dl, md5>>
  BY NoFile DEF Checkout, CheckoutFails, RepositoryPacked, JobAt
<1>2. Kind(p) # "wget" /\ (Tarball(This(p)) => dl[Name(p)] = Nothing)
  BY <1>1, Makes
<1>3. Goes(p, "failed") \/ Goes(p, "repository") \/ Goes(p, "pack")
  BY DEF Checkout, CheckoutFails, RepositoryPacked
<1>4. QED BY <1>1, <1>2, <1>3, GoesRight DEF JobPC

LEMMA PackRight ==
  ASSUME FetchInv, RightInv, NEW p \in Process, Pack(p), UNCHANGED session PROVE RightInv'
<1>1. job[p].pc = "pack" /\ dl' = [dl EXCEPT ![Name(p)] = Begun(This(p))] /\ Goes(p, "tar")
      /\ UNCHANGED md5
  BY DEF Pack, JobAt
<1>2. This(p) \in Source /\ Name(p) = BaseOf(This(p))
  BY <1>1, AtThis, SourceType
<1>3. Kind(p) # "wget" /\ (Tarball(This(p)) => dl[Name(p)] = Nothing)
  BY <1>1, Makes
<1>4. Tarball(This(p)) => ~Right(This(p))
  <2>1. Whole(This(p)) # Nothing
    BY <1>2, ContentType
  <2>2. QED BY <1>2, <1>3, <2>1 DEF Right, Tarball
<1>5. ~Spoils /\ OthersStay(p)
  BY <1>1, <1>4, OneFile
<1>6. QED BY <1>1, <1>3, <1>5, GoesRight DEF JobPC

LEMMA TarSucceedsRight ==
  ASSUME FetchInv, RightInv, NEW p \in Process, TarSucceeds(p), UNCHANGED session PROVE RightInv'
<1>1. job[p].pc = "tar" /\ dl' = [dl EXCEPT ![Name(p)] = Whole(This(p))] /\ Done(p)
      /\ UNCHANGED md5
  BY DEF TarSucceeds, JobAt
<1>2. PICK s : /\ s = This(p) /\ BaseOf(s) = Name(p) /\ (s \in WgetSources <=> Kind(p) = "wget")
               /\ Name(p) \in Base
  BY <1>1, AtThis
<1>3. s \notin WgetSources /\ BaseOf(s)' = Name(p) /\ ((s \in WgetSources)' <=> s \in WgetSources)
  BY <1>1, <1>2, Makes, SameDepends
<1>4. dl'[Name(p)] = Whole(s)
  BY <1>1, <1>2 DEF FetchInv, DiskInv
<1>5. Right(s)'
  BY <1>3, <1>4 DEF Right, Whole
<1>6. QED BY <1>1, <1>2, <1>5, OneFile, DoneRight

LEMMA TarFailsRight ==
  ASSUME FetchInv, RightInv, NEW p \in Process, TarFails(p), May("disk"), UNCHANGED session
  PROVE  RightInv'
<1>1. job[p].pc \in {"repository", "tar"} /\ ~Spoils /\ OthersStay(p)
  BY NoFile DEF TarFails, JobAt
<1>2. Kind(p) # "wget" /\ ~Tarball(This(p))
  BY <1>1, Makes, TarballHonest
<1>3. ~Dependable(This(p))
  BY <1>1, <1>2, AtThis DEF Tarball
<1>4. Goes(p, "failed") \/ Done(p)
  BY DEF TarFails
<1>5. QED BY <1>1, <1>2, <1>3, <1>4, GoesRight, DoneRight DEF JobPC

LEMMA FetchStepRight ==
  ASSUME FetchInv, RightInv, NEW p \in Process, UNCHANGED session,
         \/ FetchStep(p)
         \/ FetchBreaks(p) /\ May("net")
         \/ TarFails(p) /\ May("disk")
  PROVE  RightInv'
BY ConsiderRight, TryRight, WgetMissesRight, WgetBeginsRight, WgetSucceedsRight, WgetBreaksRight,
   CheckRight, CheckoutRight, PackRight, TarSucceedsRight, TarFailsRight DEF FetchStep, FetchBreaks

---------------------------------------------------------------------------
(* Jobs begin and are forgotten: only a kill forgets one that makes a file.*)

LEMMA JobReplaced ==
  ASSUME FetchInv, RightInv, NEW p \in Process, NEW j, job' = [job EXCEPT ![p] = j],
         UNCHANGED <<session, dl, md5>>, j.pc \in {"none", "ok", "source"}, JobDone(j),
         j.pc = "ok" => j.todo = {}, \A s : Tarball(s) => ~Making(job[p], s)
  PROVE  RightInv'
<1>1. job'[p] = j /\ \A q \in Process : q # p => job'[q] = job[q]
  BY DEF FetchInv
<1>2. ASSUME NEW k, JobDone(k) PROVE JobDone(k)'
  <2>1. \A s : Right(s)' <=> Right(s)
    BY SameDepends DEF Right, Whole
  <2>2. QED BY <1>2, <2>1, SameDepends DEF JobDone
<1>3. ASSUME NEW k, JobMakes(k) PROVE JobMakes(k)'
  <2>1. PICK s : s = AtSource(k)
    OBVIOUS
  <2>2. QED BY <1>3, <2>1, MakesNext DEF JobMakes
<1>4. ASSUME NEW s \in Sources', Tarball(s)'
      PROVE  dl'[BaseOf(s)'] \in {Nothing, Whole(s)} \/ \E q \in Process : Making(job[q], s)'
  <2>1. s \in Sources /\ Tarball(s) /\ BaseOf(s)' = BaseOf(s)
    BY <1>4, SameDepends
  <2>2. \A q \in Process : Making(job'[q], s) => Making(job[q], s)'
    BY SameSession DEF Making
  <2>3. \A q \in Process : Making(job[q], s) => Making(job'[q], s)
    BY <1>1, <2>1
  <2>4. QED BY <2>1, <2>2, <2>3 DEF RightInv, TarInv
<1>5. TarInv'
  BY <1>4 DEF TarInv, Whole
<1>6. ASSUME NEW q \in Process
      PROVE  (JobDone(job[q]) /\ JobMakes(job[q]))' /\ (job'[q].pc = "ok" => job'[q].todo = {})
  <2>1. PICK k : k = job'[q]
    OBVIOUS
  <2>2. CASE q = p
    <3>1. JobMakes(j)
      BY DEF JobMakes
    <3>2. QED BY <1>1, <1>2, <1>3, <2>1, <2>2, <3>1
  <2>3. CASE q # p
    <3>1. k = job[q] /\ JobDone(k) /\ JobMakes(k) /\ (k.pc = "ok" => k.todo = {})
      BY <1>1, <2>1, <2>3 DEF RightInv
    <3>2. QED BY <1>2, <1>3, <2>1, <3>1
  <2>4. QED BY <2>2, <2>3
<1>7. QED BY <1>5, <1>6 DEF RightInv

LEMMA NothingSpoilt ==
  ASSUME FetchInv, RightInv, UNCHANGED session, UNCHANGED fetchVars PROVE RightInv'
<1>1. \A s : Right(s)' <=> Right(s)
  BY SameDepends DEF Right, Whole, fetchVars
<1>2. \A k : JobDone(k)' <=> JobDone(k)
  BY <1>1, SameDepends DEF JobDone
<1>3. \A k : JobMakes(k)' <=> JobMakes(k)
  BY SameDepends, SameSession DEF JobMakes, Whole, Begun, fetchVars
<1>4. TarInv'
  BY SameDepends DEF RightInv, TarInv, Whole, fetchVars
<1>5. ASSUME NEW q \in Process
      PROVE  (JobDone(job[q]) /\ JobMakes(job[q]))' /\ (job'[q].pc = "ok" => job'[q].todo = {})
  <2>1. PICK k : k = job[q] /\ k = job'[q]
    BY DEF fetchVars
  <2>2. QED BY <1>2, <1>3, <2>1 DEF RightInv
<1>6. QED BY <1>4, <1>5 DEF RightInv

LEMMA ForgetRight ==
  ASSUME FetchInv, RightInv, NEW p \in Process, Forget(p), UNCHANGED session,
         job[p].pc \notin {"get", "tar"} \/ May("kill")
  PROVE  RightInv'
<1>1. NoJob.pc = "none" /\ JobDone(NoJob)
  BY DEF NoJob, JobDone
<1>2. \A s : Tarball(s) => ~Making(job[p], s)
  BY TarballHonest DEF Making
<1>3. QED BY <1>1, <1>2, JobReplaced DEF Forget

LEMMA BuildRight ==
  ASSUME CacheInv, FetchInv, RightInv, NEW p \in Process, Build(p), UNCHANGED session
  PROVE  RightInv'
<1>1. ps[p].pc = "loaded"
  BY DEF Build, Use, At
<1>2. job[p].pc = "none" /\ job[p] \in Job
  BY <1>1 DEF FetchInv, JobShape
<1>3. ASSUME NEW uris, BeginFetch(p, uris) PROVE RightInv'
  <2> DEFINE todo == DOMAIN uris
             pc == IF todo = {} THEN "ok" ELSE "source"
             next == [[job[p] EXCEPT !.pc = pc, !.todo = todo, !.place = 1] EXCEPT !.uris = uris]
  <2>1. job' = [job EXCEPT ![p] = next] /\ UNCHANGED <<dl, md5>>
    BY <1>3 DEF BeginFetch, Continue
  <2>2. next.pc = pc /\ next.uris = uris /\ next.todo = todo
    BY <1>2 DEF Job
  <2> HIDE DEF next
  <2>3. next.pc \in {"ok", "source"} /\ (next.pc = "ok" => next.todo = {}) /\ JobDone(next)
    BY <2>2 DEF JobDone
  <2>4. \A s : ~Making(job[p], s)
    BY <1>2 DEF Making
  <2>5. QED BY <2>1, <2>3, <2>4, JobReplaced
<1>4. QED BY <1>3, NothingSpoilt DEF Build

LEMMA RightInit == Init => RightInv
<1> SUFFICES ASSUME Init PROVE RightInv
  OBVIOUS
<1>1. \A p \in Process : job[p] = NoJob
  BY DEF Init, FetchInit
<1>2. JobDone(NoJob) /\ JobMakes(NoJob) /\ NoJob.pc # "ok"
  BY DEF NoJob, JobDone, JobMakes
<1>3. TarInv
  <2>1. \A s \in Sources : BaseOf(s) \in Base
    BY SourceType DEF Init
  <2>2. QED BY <2>1 DEF Init, FetchInit, TarInv
<1>4. QED BY <1>1, <1>2, <1>3 DEF RightInv

LEMMA RightStep == IInv /\ RightInv /\ [Next]_vars => RightInv'
<1> SUFFICES ASSUME CacheInv, FetchInv, RightInv, [Next]_vars PROVE RightInv'
  BY DEF IInv
<1>1. CASE UNCHANGED vars
  BY <1>1, NothingSpoilt DEF vars, fetchVars
<1>2. CASE Next
  <2>1. UNCHANGED session
    BY <1>2 DEF Next
  <2>2. ASSUME NEW p \in Process, ps[p].pc # "using" PROVE job[p].pc = "none"
    BY <2>2 DEF FetchInv, JobShape
  <2>3. ASSUME NEW p \in Process, Command(p) PROVE RightInv'
    <3>1. CASE StartCommand(p) \/ LoadRecipe(p)
      BY <3>1, <2>1, NothingSpoilt DEF StartCommand, LoadRecipe
    <3>2. CASE Build(p)
      BY <3>2, <2>1, BuildRight
    <3>3. CASE DoFetch(p)
      BY <3>3, <2>1, FetchStepRight DEF DoFetch
    <3>4. CASE EndCommand(p)
      BY <3>4, <2>1, <2>2, ForgetRight DEF EndCommand
    <3>5. QED BY <2>3, <3>1, <3>2, <3>3, <3>4 DEF Command
  <2>4. ASSUME NEW p \in Process, ReparseRecipe(p) PROVE RightInv'
    BY <2>4, <2>1, ForgetRight DEF ReparseRecipe
  <2>5. CASE People
    BY <2>5, <2>1, NothingSpoilt DEF People
  <2>6. ASSUME NEW p \in Process, Breaks(p) PROVE RightInv'
    BY <2>6, <2>1, ForgetRight, FetchStepRight, NothingSpoilt DEF Breaks, Fault, Kill
  <2>7. QED BY <1>2, <2>3, <2>4, <2>5, <2>6 DEF Next
<1>3. QED BY <1>1, <1>2

LEMMA RightHolds == IInv /\ RightInv => OkMeansRight
<1> SUFFICES ASSUME FetchInv, RightInv, NEW p \in Process, job[p].pc = "ok",
                    NEW s \in Range(job[p].uris), Dependable(s)
             PROVE  dl[session.src[s].base] = Whole(s)
  BY DEF IInv, OkMeansRight
<1>1. PICK i \in DOMAIN job[p].uris : s = job[p].uris[i]
  BY DEF Range
<1>2. s \in Sources /\ Right(s)
  BY <1>1 DEF FetchInv, JobShape, Job, RightInv, JobDone
<1>3. CASE s \in WgetSources
  <2>1. Sharing(s) = {s} /\ Verified(s)
    BY <1>3 DEF Dependable
  <2>2. QED BY <1>2, <1>3, <2>1 DEF Right, FetchInv, DiskInv, MarkedIsVerified, BaseOf
<1>4. CASE s \notin WgetSources
  BY <1>2, <1>4 DEF Right, BaseOf
<1>5. QED BY <1>3, <1>4

---------------------------------------------------------------------------

(* Types: among them that a recipe is only fetched for by a process that   *)
(* has it, that deps_clean stays in its list, and that whoever is fetching *)
(* has a source left.                                                      *)
THEOREM BuildsTypes == Spec => []TypeOK
<1>1. Spec => []IInv
  BY InitOK, StepOK, PTL DEF Spec
<1>2. QED BY <1>1, TypesHold, PTL

(* A file that has its .md5 is the file that was asked for, if it has a sum*)
(* or nobody else a file of its name: whoever is killed, whatever is       *)
(* edited, and however often a download breaks and is resumed.             *)
THEOREM MarkersAreTrue == Spec => []MarkedIsVerified
<1>1. Spec => []IInv
  BY InitOK, StepOK, PTL DEF Spec
<1>2. IInv => MarkedIsVerified
  BY DEF IInv, FetchInv, DiskInv
<1>3. QED BY <1>1, <1>2, PTL

(* When do_fetch succeeds, every file it is for is there, whole and the one*)
(* asked for, if what Dependable says of its source holds.                 *)
THEOREM FetchedIsRight == Spec => []OkMeansRight
<1>1. Spec => [](IInv /\ RightInv)
  BY InitOK, StepOK, RightInit, RightStep, PTL DEF Spec
<1>2. QED BY <1>1, RightHolds, PTL

---------------------------------------------------------------------------
(* What a step of a process does to its record, field by field: w is what  *)
(* it was and n what it becomes.                                           *)
TimeOf(w, f) == IF w.mt[f] # 0 THEN w.mt[f] ELSE files[f].at
Asks(w, n, f) == n.mt = [w.mt EXCEPT ![f] = TimeOf(w, f)]
Keeps(w, n) == n.cfg = w.cfg /\ n.seen = w.seen
GoesOn(w, n) == Keeps(w, n) /\ n.mt = w.mt

Empty(d) == \A f \in File : d.ver[f] = 0 /\ d.deps[f] = 0

Started(w, n) ==
    /\ w.pc = "idle" /\ n.pc = "stat"
    /\ n.seen = Versions
    /\ \A f \in File : n.cfg.ver[f] = IF f \in {"conf", "local"} THEN files[f].ver ELSE 0
    /\ \A f \in File : n.cfg.deps[f] = IF f = "local" THEN files[f].at ELSE 0
    /\ n.mt = n.cfg.deps
    /\ Empty(n.d)

Ended(w, n) == n = Idle

ParseBegins(w, n) == Keeps(w, n) /\ n.pc = "mark class" /\ n.d = w.cfg

StatParses(w, n) ==
    /\ w.pc = "stat" /\ ParseBegins(w, n)
    /\ TimeOf(w, "bb") > cache.at /\ Asks(w, n, "bb")

StatTakes(w, n) ==
    /\ w.pc = "stat" /\ n.pc = "unpickle" /\ Keeps(w, n) /\ n.d = w.d
    /\ TimeOf(w, "bb") <= cache.at /\ Asks(w, n, "bb")

Proper == cache.data \notin {None, Torn}

Took(w, n) ==
    /\ (w.pc = "unpickle" /\ n.pc = "deps") \/ (w.pc = "loaded" /\ n.pc = "using")
    /\ GoesOn(w, n) /\ Proper /\ n.d = cache.data /\ n.i = 1

FoundTorn(w, n) ==
    /\ w.pc \in {"unpickle", "loaded"} /\ n.pc = "failed"
    /\ GoesOn(w, n) /\ n.d = w.d /\ cache.data = Torn

DepChecked(w, n) ==
    /\ w.pc = "deps" /\ w.i \in 1..3 /\ n.i = w.i + 1 /\ n.pc = IF w.i = 3 THEN "loaded" ELSE "deps"
    /\ Keeps(w, n) /\ n.d = w.d
    /\ LET f == Depends[w.i]
       IN  \/ w.d.deps[f] = 0 /\ n.mt = w.mt
           \/ /\ w.mt[f] # 0 \/ files[f].ver # 0
              /\ TimeOf(w, f) <= w.d.deps[f] /\ Asks(w, n, f)

DepGone(w, n) ==
    /\ w.pc = "deps" /\ w.i \in 1..3 /\ n.pc = "failed" /\ GoesOn(w, n) /\ n.d = w.d
    /\ LET f == Depends[w.i] IN w.d.deps[f] # 0 /\ files[f].ver = 0

DepParses(w, n) ==
    /\ w.pc = "deps" /\ w.i \in 1..3 /\ ParseBegins(w, n)
    /\ LET f == Depends[w.i]
       IN  /\ w.d.deps[f] # 0
           /\ w.mt[f] # 0 \/ files[f].ver # 0
           /\ TimeOf(w, f) > w.d.deps[f] /\ Asks(w, n, f)

Marked(w, n, f) ==
    /\ \/ f = "class" /\ w.pc = "mark class" /\ n.pc = "read class"
       \/ f = "inc" /\ w.pc = "mark inc" /\ n.pc = "read inc"
    /\ files[f].ver # 0
    /\ Keeps(w, n) /\ Asks(w, n, f)
    /\ n.d.ver = w.d.ver /\ n.d.deps = [w.d.deps EXCEPT ![f] = TimeOf(w, f)]

Skipped(w, n) ==
    /\ w.pc = "mark inc" /\ n.pc = "open" /\ files["inc"].ver = 0
    /\ GoesOn(w, n) /\ n.d = w.d

ReadIn(w, n, f) ==
    /\ \/ f = "class" /\ w.pc = "read class" /\ n.pc = "read bb"
       \/ f = "bb" /\ w.pc = "read bb" /\ n.pc = "mark inc"
       \/ f = "inc" /\ w.pc = "read inc" /\ n.pc = "open"
    /\ GoesOn(w, n)
    /\ n.d.deps = w.d.deps /\ n.d.ver = [w.d.ver EXCEPT ![f] = files[f].ver]

ReadFails(w, n) ==
    /\ w.pc = "read bb" /\ n.pc = "failed" /\ files["bb"].ver \in session.broken
    /\ GoesOn(w, n) /\ n.d = w.d

Opened(w, n) ==
    /\ w.pc = "open" /\ n.pc = "dump" /\ GoesOn(w, n) /\ n.d = w.d
    /\ cache' = [at |-> now, data |-> Torn]

Dumped(w, n) ==
    /\ w.pc = "dump" /\ n.pc = "loaded" /\ GoesOn(w, n) /\ n.d = w.d
    /\ cache' = [at |-> now, data |-> w.d]

NotDumped(w, n) ==
    /\ w.pc = "dump" /\ n.pc = "failed" /\ GoesOn(w, n) /\ n.d = w.d

Reparsed(w, n) ==
    /\ w.pc \in {"loaded", "using"} /\ May("shell") /\ n.pc = "stat"
    /\ n.mt = [w.mt EXCEPT !["bb"] = files["bb"].at]
    /\ n.seen = [w.seen EXCEPT !["bb"] = files["bb"].ver]
    /\ n.cfg = w.cfg /\ n.d = w.d

Turn(w, n) ==
    \/ Started(w, n) \/ Ended(w, n) \/ StatParses(w, n) \/ StatTakes(w, n) \/ Took(w, n)
    \/ FoundTorn(w, n) \/ DepChecked(w, n) \/ DepGone(w, n) \/ DepParses(w, n)
    \/ Marked(w, n, "class") \/ Marked(w, n, "inc") \/ Skipped(w, n)
    \/ ReadIn(w, n, "class") \/ ReadIn(w, n, "bb") \/ ReadIn(w, n, "inc") \/ ReadFails(w, n)
    \/ NotDumped(w, n) \/ Reparsed(w, n)

(* A step of the recipe cache is a turn of one process, the writing of the *)
(* cache, or a change of the world.                                        *)
OneMoves(p, w, n) == p \in session.procs /\ w = ps[p] /\ n = ps'[p] /\ \A q \in Process : q # p => ps'[q] = ps[q]

LEMMA AskedFields ==
  ASSUME NEW p \in Process, NEW f \in File, NEW w \in Proc, w = ps[p]
  PROVE  /\ Mtime(p, f) = TimeOf(w, f)
         /\ Asked(p, f) = [w EXCEPT !.mt = [w.mt EXCEPT ![f] = TimeOf(w, f)]]
BY DEF Asked, Mtime, TimeOf, Proc

LEMMA MovedTo ==
  ASSUME CacheInv, NEW p \in Process, NEW n, Becomes(p, n)
  PROVE  ps'[p] = n /\ \A q \in Process : q # p => ps'[q] = ps[q]
BY DEF CacheInv, Becomes

LEMMA StartFields ==
  ASSUME CacheInv, NEW p \in Process, Start(p)
  PROVE  Started(ps[p], ps'[p])
<1> DEFINE cfg == [ver |-> [Never EXCEPT !["conf"] = files["conf"].ver,
                                         !["local"] = files["local"].ver],
                   deps |-> [Never EXCEPT !["local"] = files["local"].at]]
           proc == [Idle EXCEPT !.pc = "stat", !.mt = cfg.deps, !.cfg = cfg, !.seen = Versions]
<1>1. ps'[p] = proc
  BY MovedTo DEF Start
<1>2. /\ \A f \in File : cfg.ver[f] = IF f \in {"conf", "local"} THEN files[f].ver ELSE 0
      /\ \A f \in File : cfg.deps[f] = IF f = "local" THEN files[f].at ELSE 0
  BY DEF Never, File
<1> HIDE DEF cfg
<1>3. /\ proc.pc = "stat" /\ proc.cfg = cfg /\ proc.mt = cfg.deps /\ proc.seen = Versions
      /\ Empty(proc.d)
  BY DEF Idle, Never, Empty
<1> HIDE DEF proc
<1>4. ps[p].pc = "idle"
  BY DEF Start, At
<1>5. QED BY <1>1, <1>2, <1>3, <1>4 DEF Started

LEMMA StatFields ==
  ASSUME CacheInv, NEW p \in Process, StatCache(p)
  PROVE  StatParses(ps[p], ps'[p]) \/ StatTakes(ps[p], ps'[p])
<1>1. PICK w \in Proc : w = ps[p]
  BY DEF CacheInv, ProcOK
<1>2. PICK m : m = [w.mt EXCEPT !["bb"] = TimeOf(w, "bb")]
  OBVIOUS
<1>3. Mtime(p, "bb") = TimeOf(w, "bb") /\ Asked(p, "bb") = [w EXCEPT !.mt = m]
  BY <1>1, <1>2, AskedFields DEF File
<1>4. CASE Mtime(p, "bb") > cache.at
  <2>1. ps'[p] = [[w EXCEPT !.mt = m] EXCEPT !.pc = "mark class", !.d = [w EXCEPT !.mt = m].cfg]
    BY <1>3, <1>4, MovedTo DEF StatCache, Parsing
  <2>2. LET n == ps'[p] IN n.pc = "mark class" /\ n.d = w.cfg /\ n.mt = m /\ n.cfg = w.cfg /\ n.seen = w.seen
    BY <2>1 DEF Proc
  <2>3. QED BY <1>1, <1>2, <1>3, <1>4, <2>2 DEF StatParses, ParseBegins, Keeps, Asks, StatCache, At
<1>5. CASE ~(Mtime(p, "bb") > cache.at)
  <2>1. ps'[p] = [[w EXCEPT !.mt = m] EXCEPT !.pc = "unpickle"]
    BY <1>3, <1>5, MovedTo DEF StatCache
  <2>2. LET n == ps'[p] IN n.pc = "unpickle" /\ n.d = w.d /\ n.mt = m /\ n.cfg = w.cfg /\ n.seen = w.seen
    BY <2>1 DEF Proc
  <2>3. TimeOf(w, "bb") <= cache.at
    BY <1>1, <1>3, <1>5, MtimeType DEF CacheInv, WorldOK, File
  <2>4. QED BY <1>1, <1>2, <2>2, <2>3 DEF StatTakes, Keeps, Asks, StatCache, At
<1>6. QED BY <1>4, <1>5

LEMMA FailedFields ==
  ASSUME CacheInv, NEW p \in Process, Becomes(p, [ps[p] EXCEPT !.pc = "failed"])
  PROVE  ps'[p].pc = "failed" /\ GoesOn(ps[p], ps'[p]) /\ ps'[p].d = ps[p].d
<1>1. ps[p] \in Proc /\ ps'[p] = [ps[p] EXCEPT !.pc = "failed"]
  BY MovedTo DEF CacheInv, ProcOK
<1>2. QED BY <1>1 DEF Proc, GoesOn, Keeps

LEMMA UnpickleFields ==
  ASSUME CacheInv, NEW p \in Process, Unpickle(p) \/ Use(p)
  PROVE  Took(ps[p], ps'[p]) \/ FoundTorn(ps[p], ps'[p])
<1>1. PICK w \in Proc : w = ps[p]
  BY DEF CacheInv, ProcOK
<1>2. cache.data # None
  BY DEF CacheInv, ProcOK, HasCache, Unpickle, Use, At
<1>3. CASE cache.data = Torn
  BY <1>1, <1>3, FailedFields DEF Unpickle, Use, At, Unpickled, FoundTorn
<1>4. CASE cache.data # Torn
  <2>1. PICK pc : /\ ps'[p] = [w EXCEPT !.pc = pc, !.d = cache.data, !.i = 1]
                  /\ \/ w.pc = "unpickle" /\ pc = "deps"
                     \/ w.pc = "loaded" /\ pc = "using"
    BY <1>1, <1>4, MovedTo DEF Unpickle, Use, At, Unpickled
  <2>2. LET n == ps'[p] IN n.pc = pc /\ n.d = cache.data /\ n.i = 1 /\ n.mt = w.mt /\ n.cfg = w.cfg /\ n.seen = w.seen
    BY <2>1 DEF Proc
  <2>3. QED BY <1>1, <1>2, <1>4, <2>1, <2>2 DEF Took, GoesOn, Keeps, Proper
<1>5. QED BY <1>3, <1>4

LEMMA CheckFields ==
  ASSUME CacheInv, NEW p \in Process, CheckDep(p)
  PROVE  DepChecked(ps[p], ps'[p]) \/ DepGone(ps[p], ps'[p]) \/ DepParses(ps[p], ps'[p])
<1>1. PICK w \in Proc : w = ps[p]
  BY DEF CacheInv, ProcOK
<1>2. w.pc = "deps" /\ w.i \in 1..3
  BY <1>1 DEF CheckDep, At, CacheInv, ProcOK, Depends
<1>3. PICK f \in File : f = Depends[w.i]
  BY <1>2 DEF Depends, File
<1>4. PICK m : m = [w.mt EXCEPT ![f] = TimeOf(w, f)]
  OBVIOUS
<1>5. Mtime(p, f) = TimeOf(w, f) /\ Asked(p, f) = [w EXCEPT !.mt = m]
  BY <1>1, <1>4, AskedFields
<1>6. PICK pc : pc = IF w.i = 3 THEN "loaded" ELSE "deps"
  OBVIOUS
<1>7. PICK x : x = [[w EXCEPT !.mt = m] EXCEPT !.i = w.i + 1, !.pc = pc]
  OBVIOUS
<1>8. /\ x = [Asked(p, f) EXCEPT !.i = @ + 1, !.pc = IF ps[p].i = Len(Depends) THEN "loaded" ELSE "deps"]
      /\ x.pc = pc /\ x.i = w.i + 1 /\ x.mt = m /\ x.d = w.d /\ x.cfg = w.cfg /\ x.seen = w.seen
  <2>1. Len(Depends) = 3
    BY DEF Depends
  <2>2. [w EXCEPT !.mt = m].i = w.i
    BY SMTT(30) DEF Proc
  <2>3. QED BY <1>1, <1>5, <1>6, <1>7, <2>1, <2>2 DEF Proc
<1>9. Becomes(p, IF w.d.deps[f] = 0 THEN [x EXCEPT !.mt = w.mt]
                 ELSE IF w.mt[f] = 0 /\ files[f].ver = 0
                 THEN [w EXCEPT !.pc = "failed"]
                 ELSE IF Mtime(p, f) > w.d.deps[f] THEN Parsing(Asked(p, f))
                 ELSE x)
  BY <1>1, <1>3, <1>8 DEF CheckDep
<1>10. CASE w.d.deps[f] = 0
  <2>1. ps'[p] = [x EXCEPT !.mt = w.mt]
    BY <1>9, <1>10, MovedTo
  <2>2. LET n == ps'[p] IN n.pc = pc /\ n.d = w.d /\ n.i = w.i + 1 /\ n.mt = w.mt /\ n.cfg = w.cfg /\ n.seen = w.seen
    BY <1>7, <1>8, <2>1 DEF Proc
  <2>3. QED BY <1>1, <1>2, <1>3, <1>6, <1>10, <2>2 DEF DepChecked, Keeps
<1>11. CASE w.d.deps[f] # 0 /\ w.mt[f] = 0 /\ files[f].ver = 0
  BY <1>1, <1>2, <1>3, <1>9, <1>11, FailedFields DEF DepGone
<1>12. CASE w.d.deps[f] # 0 /\ ~(w.mt[f] = 0 /\ files[f].ver = 0) /\ Mtime(p, f) > w.d.deps[f]
  <2>1. ps'[p] = [[w EXCEPT !.mt = m] EXCEPT !.pc = "mark class", !.d = [w EXCEPT !.mt = m].cfg]
    BY <1>5, <1>9, <1>12, MovedTo DEF Parsing
  <2>2. LET n == ps'[p] IN n.pc = "mark class" /\ n.d = w.cfg /\ n.mt = m /\ n.cfg = w.cfg /\ n.seen = w.seen
    BY SMTT(30), <2>1 DEF Proc
  <2>3. QED BY <1>1, <1>2, <1>3, <1>4, <1>5, <1>12, <2>2 DEF DepParses, ParseBegins, Keeps, Asks
<1>13. CASE w.d.deps[f] # 0 /\ ~(w.mt[f] = 0 /\ files[f].ver = 0) /\ ~(Mtime(p, f) > w.d.deps[f])
  <2>1. ps'[p] = x
    BY <1>9, <1>13, MovedTo
  <2>2. TimeOf(w, f) <= w.d.deps[f]
    <3>1. w.d.deps[f] \in 0..MaxTime
      BY DEF Proc, Metadata
    <3>2. TimeOf(w, f) \in 0..now /\ now \in 1..MaxTime
      BY <1>1, <1>5, MtimeType DEF CacheInv, WorldOK
    <3>3. QED BY <1>5, <1>13, <3>1, <3>2
  <2>3. QED BY <1>1, <1>2, <1>3, <1>4, <1>6, <1>8, <1>13, <2>1, <2>2 DEF DepChecked, Keeps, Asks
<1>14. QED BY <1>10, <1>11, <1>12, <1>13

LEMMA MarkFields ==
  ASSUME CacheInv, NEW p \in Process, NEW f \in {"class", "inc"}, Mark(p, f)
  PROVE  Marked(ps[p], ps'[p], f)
<1>1. PICK w \in Proc : w = ps[p]
  BY DEF CacheInv, ProcOK
<1>2. f \in File
  BY DEF File
<1>3. PICK m : m = [w.mt EXCEPT ![f] = TimeOf(w, f)]
  OBVIOUS
<1>4. Mtime(p, f) = TimeOf(w, f) /\ Asked(p, f) = [w EXCEPT !.mt = m]
  BY <1>1, <1>2, <1>3, AskedFields
<1>5. PICK pc : pc = Reading[f]
  OBVIOUS
<1>6. ps'[p] = [[w EXCEPT !.mt = m] EXCEPT !.pc = pc, !.d.deps[f] = TimeOf(w, f)]
  BY <1>4, <1>5, MovedTo DEF Mark
<1>7. LET n == ps'[p]
      IN  /\ n.pc = pc /\ n.mt = m /\ n.cfg = w.cfg /\ n.seen = w.seen
          /\ n.d.ver = w.d.ver /\ n.d.deps = [w.d.deps EXCEPT ![f] = TimeOf(w, f)]
  <2>1. w.d \in Metadata
    BY DEF Proc
  <2>2. PICK t : t = TimeOf(w, f)
    OBVIOUS
  <2>3. PICK d : d = [w.d EXCEPT !.deps[f] = t]
    OBVIOUS
  <2>4. d.ver = w.d.ver /\ d.deps = [w.d.deps EXCEPT ![f] = t]
    BY <2>1, <2>3 DEF Metadata
  <2>5. ps'[p] = [[w EXCEPT !.mt = m] EXCEPT !.pc = pc, !.d = d]
    BY <1>6, <2>2, <2>3 DEF Proc
  <2>6. LET n == ps'[p] IN n.pc = pc /\ n.mt = m /\ n.cfg = w.cfg /\ n.seen = w.seen /\ n.d = d
    BY <2>5 DEF Proc
  <2>7. QED BY <2>2, <2>4, <2>6
<1>8. /\ \/ f = "class" /\ w.pc = "mark class" /\ pc = "read class"
         \/ f = "inc" /\ w.pc = "mark inc" /\ pc = "read inc"
      /\ files[f].ver # 0
  BY <1>1, <1>5, PlacesOf DEF Mark, At
<1>9. QED BY <1>1, <1>3, <1>7, <1>8 DEF Marked, Keeps, Asks

LEMMA SkipFields ==
  ASSUME CacheInv, NEW p \in Process, SkipInclude(p)
  PROVE  Skipped(ps[p], ps'[p])
<1>1. ps[p] \in Proc /\ ps'[p] = [ps[p] EXCEPT !.pc = "open"]
  BY MovedTo DEF CacheInv, ProcOK, SkipInclude
<1>2. LET n == ps'[p] IN n.pc = "open" /\ n.d = ps[p].d /\ GoesOn(ps[p], n)
  BY <1>1 DEF Proc, GoesOn, Keeps
<1>3. QED BY <1>2 DEF Skipped, SkipInclude, At

LEMMA ReadFields ==
  ASSUME CacheInv, NEW p \in Process, NEW f \in {"class", "bb", "inc"}, Read(p, f)
  PROVE  ReadIn(ps[p], ps'[p], f) \/ ReadFails(ps[p], ps'[p])
<1>1. PICK w \in Proc : w = ps[p]
  BY DEF CacheInv, ProcOK
<1>2. w.pc = Reading[f]
  BY <1>1 DEF Read, At
<1>3. CASE f = "bb" /\ files[f].ver \in session.broken
  <2>1. w.pc = "read bb"
    BY <1>2, <1>3, PlacesOf
  <2>2. QED BY <1>1, <1>3, <2>1, FailedFields DEF Read, ReadFails
<1>4. CASE ~(f = "bb" /\ files[f].ver \in session.broken)
  <2>1. PICK pc : pc = AfterRead(f)
    OBVIOUS
  <2>2. PICK v : v = files[f].ver
    OBVIOUS
  <2>3. ps'[p] = [w EXCEPT !.pc = pc, !.d.ver[f] = v]
    BY <1>1, <1>4, <2>1, <2>2, MovedTo DEF Read
  <2>4. PICK d : d = [w.d EXCEPT !.ver[f] = v]
    OBVIOUS
  <2>5. d.deps = w.d.deps /\ d.ver = [w.d.ver EXCEPT ![f] = v]
    BY <2>4 DEF Proc, Metadata
  <2>6. ps'[p] = [w EXCEPT !.pc = pc, !.d = d]
    BY <2>3, <2>4 DEF Proc
  <2>7. LET n == ps'[p] IN n.pc = pc /\ n.mt = w.mt /\ n.cfg = w.cfg /\ n.seen = w.seen /\ n.d = d
    BY <2>6 DEF Proc
  <2>8. \/ f = "class" /\ w.pc = "read class" /\ pc = "read bb"
        \/ f = "bb" /\ w.pc = "read bb" /\ pc = "mark inc"
        \/ f = "inc" /\ w.pc = "read inc" /\ pc = "open"
    BY <1>2, <2>1, PlacesOf
  <2>9. QED BY <1>1, <2>2, <2>5, <2>7, <2>8 DEF ReadIn, GoesOn, Keeps
<1>5. QED BY <1>3, <1>4

LEMMA WriteFields ==
  ASSUME CacheInv, NEW p \in Process, OpenCache(p) \/ Dump(p)
  PROVE  Opened(ps[p], ps'[p]) \/ Dumped(ps[p], ps'[p])
<1>1. PICK w \in Proc : w = ps[p]
  BY DEF CacheInv, ProcOK
<1>2. PICK pc : /\ ps'[p] = [w EXCEPT !.pc = pc]
                /\ \/ /\ w.pc = "open" /\ pc = "dump" /\ cache' = [at |-> now, data |-> Torn]
                   \/ /\ w.pc = "dump" /\ pc = "loaded" /\ cache' = [at |-> now, data |-> w.d]
  BY <1>1, MovedTo DEF OpenCache, Dump, At
<1>3. LET n == ps'[p] IN n.pc = pc /\ n.d = w.d /\ GoesOn(w, n)
  BY <1>2 DEF Proc, GoesOn, Keeps
<1>4. QED BY <1>1, <1>2, <1>3 DEF Opened, Dumped

LEMMA ReparseFields ==
  ASSUME CacheInv, NEW p \in Process, Reparse(p)
  PROVE  Reparsed(ps[p], ps'[p])
<1>1. PICK w \in Proc : w = ps[p]
  BY DEF CacheInv, ProcOK
<1>2. PICK t, v : t = files["bb"].at /\ v = files["bb"].ver
  OBVIOUS
<1>3. ps'[p] = [w EXCEPT !.pc = "stat", !.mt["bb"] = t, !.seen["bb"] = v]
  BY <1>1, <1>2, MovedTo DEF Reparse
<1>4. PICK m, s : m = [w.mt EXCEPT !["bb"] = t] /\ s = [w.seen EXCEPT !["bb"] = v]
  OBVIOUS
<1>5. ps'[p] = [w EXCEPT !.pc = "stat", !.mt = m, !.seen = s]
  BY <1>3, <1>4 DEF Proc
<1>6. LET n == ps'[p] IN n.pc = "stat" /\ n.mt = m /\ n.seen = s /\ n.cfg = w.cfg /\ n.d = w.d
  BY <1>5 DEF Proc
<1>7. QED BY <1>1, <1>2, <1>4, <1>6 DEF Reparsed, Reparse

(* The world changes.                                                      *)
Edited(f) ==
    /\ files'[f].at = now /\ files'[f].ver = files[f].ver + 1
    /\ \A g \in File : g # f => files'[g] = files[g]
    /\ May("during") \/ Quiet
    /\ May("quick") \/ OwnSecond
    /\ files[f].ver # 0 \/ files[f].at = 0

Removed ==
    /\ files'["inc"].at = files["inc"].at /\ files'["inc"].ver = 0
    /\ \A g \in File : g # "inc" => files'[g] = files[g]
    /\ session.removes /\ Quiet /\ files["inc"].ver # 0

ATurn(p) ==
    /\ Turn(ps[p], ps'[p]) /\ UNCHANGED <<now, files, cache>>
    /\ p \in session.procs /\ \A q \in Process : q # p => ps'[q] = ps[q]
    /\ ps[p].pc = "dump" => faults' > 0

AWrite(p) ==
    /\ Opened(ps[p], ps'[p]) \/ Dumped(ps[p], ps'[p])
    /\ UNCHANGED <<now, files>>
    /\ p \in session.procs /\ \A q \in Process : q # p => ps'[q] = ps[q]

WorldStep ==
    /\ (\E f \in File : Edited(f)) \/ Removed \/ UNCHANGED files
    /\ UNCHANGED <<cache, ps>>

CacheStepIs ==
    /\ UNCHANGED session /\ faults' \in Nat /\ (faults > 0 => faults' > 0)
    /\ \/ \E p \in Process : ATurn(p) \/ AWrite(p)
       \/ WorldStep

LEMMA LoadTurns ==
  ASSUME CacheInv, NEW p \in Process, Load(p) \/ Use(p) \/ Start(p), p \in session.procs
  PROVE  \/ Turn(ps[p], ps'[p]) /\ UNCHANGED <<now, files, cache>> /\ ps[p].pc # "dump"
         \/ (Opened(ps[p], ps'[p]) \/ Dumped(ps[p], ps'[p])) /\ UNCHANGED <<now, files>>
<1>1. CASE Start(p)
  BY <1>1, StartFields DEF Turn, Started, Start
<1>2. CASE StatCache(p)
  BY <1>2, StatFields DEF Turn, StatParses, StatTakes, StatCache
<1>3. CASE Unpickle(p) \/ Use(p)
  BY SMTT(30), <1>3, UnpickleFields DEF Turn, Took, FoundTorn, Unpickle, Use
<1>4. CASE CheckDep(p)
  BY <1>4, CheckFields DEF Turn, DepChecked, DepGone, DepParses, CheckDep
<1>5. ASSUME NEW f \in {"class", "inc"}, Mark(p, f)
      PROVE  Turn(ps[p], ps'[p]) /\ UNCHANGED <<now, files, cache>> /\ ps[p].pc # "dump"
  <2>1. Marked(ps[p], ps'[p], f)
    BY <1>5, MarkFields
  <2>2. QED BY <1>5, <2>1 DEF Turn, Marked, Mark
<1>6. CASE SkipInclude(p)
  BY <1>6, SkipFields DEF Turn, Skipped, SkipInclude
<1>7. ASSUME NEW f \in {"class", "bb", "inc"}, Read(p, f)
      PROVE  Turn(ps[p], ps'[p]) /\ UNCHANGED <<now, files, cache>> /\ ps[p].pc # "dump"
  <2>1. ReadIn(ps[p], ps'[p], f) \/ ReadFails(ps[p], ps'[p])
    BY <1>7, ReadFields
  <2>2. QED BY <1>7, <2>1 DEF Turn, ReadIn, ReadFails, Read
<1>8. CASE OpenCache(p) \/ Dump(p)
  BY <1>8, WriteFields DEF OpenCache, Dump
<1>9. QED BY <1>1, <1>2, <1>3, <1>4, <1>5, <1>6, <1>7, <1>8 DEF Load

LEMMA EditFields ==
  ASSUME CacheInv, NEW f \in File, Edit(f)
  PROVE  Edited(f) /\ UNCHANGED <<cache, ps>>
<1>1. files' = [files EXCEPT ![f] = [at |-> now, ver |-> files[f].ver + 1]]
  BY DEF Edit
<1>2. files'[f].at = now /\ files'[f].ver = files[f].ver + 1 /\ \A g \in File : g # f => files'[g] = files[g]
  BY <1>1 DEF CacheInv, WorldOK
<1>3. QED BY <1>2 DEF Edited, Edit

LEMMA RemoveFields ==
  ASSUME CacheInv, RemoveInclude
  PROVE  Removed /\ UNCHANGED <<cache, ps>>
<1> DEFINE was == files["inc"]
           gone == [was EXCEPT !.ver = 0]
<1>1. was \in [at : 0..now, ver : 0..MaxVersion] /\ "inc" \in File
  BY DEF CacheInv, WorldOK, File
<1>2. files' = [files EXCEPT !["inc"] = gone]
  BY DEF RemoveInclude
<1>3. gone.at = was.at /\ gone.ver = 0
  BY <1>1
<1> HIDE DEF gone, was
<1>4. files'["inc"] = gone /\ \A g \in File : g # "inc" => files'[g] = files[g]
  BY <1>1, <1>2 DEF CacheInv, WorldOK
<1>5. QED BY <1>3, <1>4 DEF Removed, RemoveInclude, was

LEMMA StepFields ==
  ASSUME IInv, [Next]_vars PROVE CacheStepIs
<1>1. CASE UNCHANGED vars
  BY <1>1 DEF vars, CacheStepIs, WorldStep, IInv
<1>2. CASE Next
  <2>1. UNCHANGED session /\ CacheInv
    BY <1>2 DEF Next, IInv
  <2>2. faults' \in Nat /\ (faults > 0 => faults' > 0)
    BY <1>2 DEF Next, IInv, Breaks, Fault
  <2>3. ASSUME NEW p \in Process, NEW n, Becomes(p, n)
        PROVE  \A q \in Process : q # p => ps'[q] = ps[q]
    BY <2>1, <2>3, MovedTo
  <2>4. ASSUME NEW p \in Process, ps[p].pc # "idle" PROVE p \in session.procs
    BY <2>1, <2>4, Active
  <2>5. ASSUME NEW p \in Process, Ends(p), ps[p].pc # "idle", ps[p].pc = "dump" => faults' > 0
        PROVE  ATurn(p)
    <3>1. ps'[p] = Idle
      BY <2>1, <2>5, MovedTo DEF Ends
    <3>2. QED BY <2>3, <2>4, <2>5, <3>1 DEF Ends, ATurn, Turn, Ended
  <2>6. ASSUME NEW p \in Process, Load(p) \/ Use(p) \/ Start(p) PROVE ATurn(p) \/ AWrite(p)
    <3>1. \E n : Becomes(p, n)
      BY <2>6 DEF Load, Use, Start, StatCache, Unpickle, CheckDep, Mark, SkipInclude, Read, OpenCache, Dump
    <3>2. p \in session.procs
      <4>1. CASE Start(p)
        BY <4>1 DEF Start
      <4>2. CASE Load(p) \/ Use(p)
        <5>1. ps[p].pc # "idle"
          BY <4>2, PlacesOf DEF Load, Use, StatCache, Unpickle, CheckDep, Mark, SkipInclude, Read,
             OpenCache, Dump, At
        <5>2. QED BY <2>4, <5>1
      <4>3. QED BY <2>6, <4>1, <4>2
    <3>3. QED BY <2>1, <2>3, <2>6, <3>1, <3>2, LoadTurns DEF ATurn, AWrite
  <2>7. ASSUME NEW p \in Process, Command(p) PROVE CacheStepIs
    <3>1. CASE StartCommand(p)
      BY <2>1, <2>2, <2>6, <3>1 DEF StartCommand, CacheStepIs
    <3>2. CASE LoadRecipe(p)
      BY <2>1, <2>2, <2>6, <3>2 DEF LoadRecipe, CacheStepIs
    <3>3. CASE Build(p)
      BY <2>1, <2>2, <2>6, <3>3 DEF Build, CacheStepIs
    <3>4. CASE DoFetch(p)
      BY <2>1, <2>2, <3>4 DEF DoFetch, cacheVars, CacheStepIs, WorldStep
    <3>5. CASE EndCommand(p)
      <4>1. ps[p].pc \in {"failed", "using"}
        BY <3>5 DEF EndCommand, IInv, FetchInv, JobShape
      <4>2. QED BY <2>1, <2>2, <2>5, <3>5, <4>1 DEF EndCommand, CacheStepIs
    <3>6. QED BY <2>7, <3>1, <3>2, <3>3, <3>4, <3>5 DEF Command
  <2>8. ASSUME NEW p \in Process, ReparseRecipe(p) PROVE CacheStepIs
    <3>1. Reparsed(ps[p], ps'[p]) /\ UNCHANGED <<now, files, cache>> /\ ps[p].pc \in {"loaded", "using"}
      BY <2>1, <2>8, ReparseFields DEF ReparseRecipe, Reparse
    <3>2. \E n : Becomes(p, n)
      BY <2>8 DEF ReparseRecipe, Reparse
    <3>3. QED BY <2>1, <2>2, <2>3, <2>4, <3>1, <3>2 DEF CacheStepIs, ATurn, Turn
  <2>9. CASE People
    <3>1. CASE Tick
      BY <2>1, <2>2, <3>1 DEF Tick, CacheStepIs, WorldStep
    <3>2. CASE RemoveInclude
      BY <2>1, <2>2, <3>2, RemoveFields DEF CacheStepIs, WorldStep
    <3>3. CASE \E f \in File : Edit(f)
      BY <2>1, <2>2, <3>3, EditFields DEF CacheStepIs, WorldStep
    <3>4. QED BY <2>9, <3>1, <3>2, <3>3 DEF People
  <2>10. ASSUME NEW p \in Process, Breaks(p) PROVE CacheStepIs
    <3>1. faults' > 0
      BY <2>10 DEF Breaks, Fault, IInv
    <3>2. CASE Kill(p)
      BY <2>1, <2>2, <2>5, <3>1, <3>2 DEF Kill, CacheStepIs
    <3>3. CASE UNCHANGED cacheVars
      BY <2>1, <2>2, <3>3 DEF cacheVars, CacheStepIs, WorldStep
    <3>4. CASE DumpFails(p)
      <4>1. NotDumped(ps[p], ps'[p])
        BY <2>1, <3>4, FailedFields DEF DumpFails, NotDumped, At
      <4>2. QED BY <2>1, <2>2, <2>3, <2>4, <3>1, <3>4, <4>1 DEF CacheStepIs, ATurn, Turn, DumpFails, At
    <3>5. QED BY <2>10, <3>2, <3>3, <3>4 DEF Breaks
  <2>11. QED BY <1>2, <2>7, <2>8, <2>9, <2>10 DEF Next
<1>3. QED BY <1>1, <1>2

---------------------------------------------------------------------------
(* Times and versions go up: whatever was noted of a file is of the past.  *)
FilesOK ==
    /\ \A f \in File : files[f].ver = 0 \/ files[f].at = 0 => f = "inc"
    /\ files["inc"].at = 0 => files["inc"].ver = 0
    /\ files["inc"].ver = 0 /\ files["inc"].at # 0 => session.removes

PastTimes(d) == \A f \in File : d.deps[f] <= files[f].at

Gone(f) == files[f].ver = 0 /\ files[f].at # 0
Seen(pr) == \A f \in File : pr.seen[f] <= files[f].ver \/ Gone(f)

ProcPast(pr) ==
    /\ PastTimes(pr.d) /\ PastTimes(pr.cfg)
    /\ \A f \in File : pr.mt[f] <= files[f].at
    /\ Seen(pr)
    /\ pr.pc = "read inc" => files["inc"].ver # 0

TimesInv ==
    /\ FilesOK
    /\ Proper => PastTimes(cache.data)
    /\ \A p \in Process : ProcPast(ps[p])

LEMMA Typed ==
  ASSUME CacheInv
  PROVE  /\ now \in Nat /\ cache.at \in Nat /\ cache.at <= now
         /\ \A f \in File : files[f].at \in Nat /\ files[f].ver \in Nat /\ files[f].at <= now
         /\ Proper => cache.data \in Metadata
BY DEF CacheInv, WorldOK, Proper

LEMMA MetadataTyped ==
  ASSUME NEW d \in Metadata, NEW f \in File
  PROVE  d.ver[f] \in Nat /\ d.deps[f] \in Nat
BY DEF Metadata

LEMMA ProcTyped ==
  ASSUME NEW w \in Proc, NEW f \in File
  PROVE  /\ w.cfg \in Metadata /\ w.d \in Metadata /\ w.mt \in [File -> Nat] /\ w.seen \in [File -> Nat]
         /\ w.mt[f] \in Nat /\ w.seen[f] \in Nat
         /\ w.d.ver \in [File -> Nat] /\ w.d.deps \in [File -> Nat]
BY DEF Proc, Metadata

LEMMA IdleFields ==
  /\ Idle.pc = "idle"
  /\ \A f \in File : Idle.mt[f] = 0 /\ Idle.seen[f] = 0
  /\ \A f \in File : Idle.d.ver[f] = 0 /\ Idle.d.deps[f] = 0
  /\ \A f \in File : Idle.cfg.ver[f] = 0 /\ Idle.cfg.deps[f] = 0
BY DEF Idle, Never

LEMMA TimeOfPast ==
  ASSUME CacheInv, FilesOK, NEW w \in Proc, ProcPast(w), NEW f \in File
  PROVE  /\ TimeOf(w, f) \in Nat /\ TimeOf(w, f) <= files[f].at
         /\ f # "inc" => TimeOf(w, f) # 0
         /\ files[f].ver # 0 => TimeOf(w, f) # 0
         /\ w.mt[f] # 0 => TimeOf(w, f) = w.mt[f]
         /\ w.mt[f] = 0 => TimeOf(w, f) = files[f].at
<1>1. w.mt[f] \in Nat /\ files[f].at \in Nat /\ w.mt[f] <= files[f].at
  BY Typed, ProcTyped DEF ProcPast
<1>2. files[f].ver # 0 \/ f # "inc" => files[f].at # 0
  BY DEF FilesOK
<1>3. QED BY <1>1, <1>2 DEF TimeOf

(* The mtimes of a process after it asked for one.                         *)
LEMMA AskedTimes ==
  ASSUME CacheInv, FilesOK, NEW w \in Proc, ProcPast(w), NEW f \in File, NEW n, Asks(w, n, f)
  PROVE  /\ n.mt[f] = TimeOf(w, f)
         /\ \A g \in File : g # f => n.mt[g] = w.mt[g]
         /\ \A g \in File : n.mt[g] <= files[g].at
<1>1. w.mt \in [File -> Nat]
  BY ProcTyped
<1>2. n.mt = [w.mt EXCEPT ![f] = TimeOf(w, f)]
  BY DEF Asks
<1>3. TimeOf(w, f) <= files[f].at
  BY TimeOfPast
<1>4. QED BY <1>1, <1>2, <1>3 DEF ProcPast

LEMMA TurnPast ==
  ASSUME CacheInv, FilesOK, Proper => PastTimes(cache.data),
         NEW w \in Proc, ProcPast(w), NEW n, Turn(w, n)
  PROVE  ProcPast(n)
<1>1. CASE Started(w, n)
  <2>1. \A f \in File : n.mt[f] <= files[f].at /\ n.cfg.deps[f] <= files[f].at
                       /\ n.d.deps[f] <= files[f].at /\ n.seen[f] <= files[f].ver
    BY <1>1, Typed DEF Started, Empty, Versions
  <2>2. n.pc = "stat"
    BY <1>1 DEF Started
  <2>3. QED BY <2>1, <2>2 DEF ProcPast, PastTimes, Seen
<1>2. CASE Ended(w, n)
  <2>1. /\ n.pc = "idle"
        /\ \A f \in File : n.mt[f] = 0 /\ n.seen[f] = 0 /\ n.d.deps[f] = 0 /\ n.cfg.deps[f] = 0
    BY <1>2, IdleFields DEF Ended
  <2>2. \A f \in File : files[f].at \in Nat /\ files[f].ver \in Nat
    BY Typed
  <2>3. PastTimes(n.d) /\ PastTimes(n.cfg) /\ \A f \in File : n.mt[f] <= files[f].at
    BY <2>1, <2>2 DEF PastTimes
  <2>4. Seen(n)
    <3>1. \A f \in File : n.seen[f] <= files[f].ver
      BY <2>1, <2>2
    <3>2. QED BY <3>1 DEF Seen
  <2>5. QED BY <2>1, <2>3, <2>4 DEF ProcPast
<1>3. CASE StatParses(w, n)
  BY <1>3, AskedTimes DEF StatParses, ParseBegins, Keeps, ProcPast, Seen, File
<1>4. CASE StatTakes(w, n)
  BY <1>4, AskedTimes DEF StatTakes, Keeps, ProcPast, Seen, File
<1>5. CASE Took(w, n)
  <2>1. n.pc # "read inc"
    BY <1>5 DEF Took
  <2>2. QED BY <1>5, <2>1 DEF Took, GoesOn, Keeps, ProcPast, Seen
<1>6. CASE FoundTorn(w, n) \/ DepGone(w, n) \/ ReadFails(w, n) \/ NotDumped(w, n) \/ Skipped(w, n)
  <2>1. n.pc # "read inc" /\ GoesOn(w, n) /\ n.d = w.d
    BY <1>6 DEF FoundTorn, DepGone, ReadFails, NotDumped, Skipped
  <2>2. QED BY <2>1 DEF GoesOn, Keeps, ProcPast, Seen
<1>7. CASE DepChecked(w, n)
  <2>1. PICK f \in File : n.mt = w.mt \/ Asks(w, n, f)
    <3>1. w.i \in 1..3
      BY <1>7 DEF DepChecked
    <3>2. Depends[w.i] \in File
      BY <3>1 DEF Depends, File
    <3>3. QED BY <1>7, <3>2 DEF DepChecked
  <2>2. Keeps(w, n) /\ n.d = w.d /\ n.pc # "read inc"
    BY <1>7 DEF DepChecked
  <2>3. \A g \in File : n.mt[g] <= files[g].at
    BY <2>1, AskedTimes DEF ProcPast
  <2>4. QED BY <2>2, <2>3 DEF Keeps, ProcPast, Seen
<1>8. CASE DepParses(w, n)
  <2>1. PICK f \in File : Asks(w, n, f)
    <3>1. w.i \in 1..3
      BY <1>8 DEF DepParses
    <3>2. Depends[w.i] \in File
      BY <3>1 DEF Depends, File
    <3>3. QED BY <1>8, <3>2 DEF DepParses
  <2>2. Keeps(w, n) /\ n.d = w.cfg /\ n.pc # "read inc"
    BY <1>8 DEF DepParses, ParseBegins
  <2>3. \A g \in File : n.mt[g] <= files[g].at
    BY <2>1, AskedTimes
  <2>4. QED BY <2>2, <2>3 DEF Keeps, ProcPast, Seen
<1>9. ASSUME NEW f \in {"class", "inc"}, Marked(w, n, f) PROVE ProcPast(n)
  <2>1. f \in File /\ Asks(w, n, f) /\ Keeps(w, n) /\ (n.pc = "read inc" => files["inc"].ver # 0)
    BY <1>9 DEF Marked, File
  <2>2. TimeOf(w, f) <= files[f].at /\ \A g \in File : n.mt[g] <= files[g].at
    BY <2>1, TimeOfPast, AskedTimes
  <2>3. n.d.deps = [w.d.deps EXCEPT ![f] = TimeOf(w, f)] /\ w.d.deps \in [File -> Nat]
    BY <1>9, <2>1, ProcTyped DEF Marked
  <2>4. \A g \in File : n.d.deps[g] <= files[g].at
    BY <2>2, <2>3 DEF ProcPast, PastTimes
  <2>5. QED BY <2>1, <2>2, <2>4 DEF Keeps, ProcPast, PastTimes, Seen
<1>10. ASSUME NEW f, ReadIn(w, n, f) PROVE ProcPast(n)
  <2>1. n.pc # "read inc" /\ GoesOn(w, n) /\ n.d.deps = w.d.deps
    BY <1>10 DEF ReadIn
  <2>2. QED BY <2>1 DEF GoesOn, Keeps, ProcPast, PastTimes, Seen
<1>11. CASE Reparsed(w, n)
  <2>1. n.pc # "read inc" /\ n.cfg = w.cfg /\ n.d = w.d
    BY <1>11 DEF Reparsed
  <2>2. w.mt \in [File -> Nat] /\ w.seen \in [File -> Nat] /\ "bb" \in File
    BY ProcTyped DEF File
  <2>3. \A f \in File : files[f].at \in Nat /\ files[f].ver \in Nat
    BY Typed
  <2>4. ASSUME NEW f \in File PROVE n.mt[f] <= files[f].at /\ (n.seen[f] <= files[f].ver \/ Gone(f))
    <3>1. n.mt = [w.mt EXCEPT !["bb"] = files["bb"].at] /\ n.seen = [w.seen EXCEPT !["bb"] = files["bb"].ver]
      BY <1>11 DEF Reparsed
    <3>2. CASE f = "bb"
      BY <2>2, <2>3, <3>1, <3>2
    <3>3. CASE f # "bb"
      <4>1. n.mt[f] = w.mt[f] /\ n.seen[f] = w.seen[f]
        BY <2>2, <3>1, <3>3
      <4>2. QED BY <4>1 DEF ProcPast, Seen
    <3>4. QED BY <3>2, <3>3
  <2>5. n.pc # "read inc"
    BY <2>1
  <2>6. QED BY <2>1, <2>4, <2>5 DEF ProcPast, Seen
<1>12. QED BY <1>1, <1>2, <1>3, <1>4, <1>5, <1>6, <1>7, <1>8, <1>9, <1>10, <1>11 DEF Turn

(* Files change.                                                           *)
LEMMA FilesGoUp ==
  ASSUME CacheInv, FilesOK, UNCHANGED session, (\E f \in File : Edited(f)) \/ Removed \/ UNCHANGED files
  PROVE  /\ FilesOK'
         /\ \A f \in File : /\ files[f].at <= files'[f].at
                            /\ files[f].ver <= files'[f].ver \/ Gone(f)'
                            /\ Gone(f) => Gone(f)'
<1>1. \A f \in File : files[f].at \in Nat /\ files[f].ver \in Nat /\ files[f].at <= now
  BY Typed
<1>2. now \in 1..MaxTime
  BY DEF CacheInv, WorldOK
<1>3. CASE UNCHANGED files
  BY <1>1, <1>3 DEF FilesOK, Gone
<1>4. CASE Removed
  <2>1. "inc" \in File /\ \A g \in File : g # "inc" => files'[g] = files[g]
    BY <1>4 DEF Removed, File
  <2>2. FilesOK'
    BY <1>4, <2>1 DEF Removed, FilesOK
  <2>3. files'["inc"].at = files["inc"].at /\ files'["inc"].ver = 0 /\ files["inc"].at # 0
    BY <1>4 DEF Removed, FilesOK
  <2>4. QED BY <1>1, <2>1, <2>2, <2>3 DEF Gone
<1>5. ASSUME NEW f \in File, Edited(f)
      PROVE  /\ FilesOK'
             /\ \A g \in File : /\ files[g].at <= files'[g].at
                                /\ files[g].ver <= files'[g].ver \/ Gone(g)'
                                /\ Gone(g) => Gone(g)'
  <2>1. files'[f].at = now /\ files'[f].ver = files[f].ver + 1 /\ \A g \in File : g # f => files'[g] = files[g]
    BY <1>5 DEF Edited
  <2>2. files'[f].at # 0 /\ files'[f].ver # 0 /\ files[f].at <= files'[f].at /\ files[f].ver <= files'[f].ver
    BY <1>1, <1>2, <2>1
  <2>3. FilesOK'
    BY <2>1, <2>2 DEF FilesOK, File
  <2>4. ~Gone(f)
    BY <1>5 DEF Edited, Gone
  <2>5. QED BY <1>1, <2>1, <2>2, <2>3, <2>4 DEF Gone
<1>6. QED BY <1>3, <1>4, <1>5

LEMMA TimesInit == Init => TimesInv
<1> SUFFICES ASSUME Init PROVE TimesInv
  OBVIOUS
<1>1. FilesOK
  <2>1. \A f \in File : files[f] = IF f = "inc" /\ session.absent THEN [at |-> 0, ver |-> 0]
                                   ELSE [at |-> 1, ver |-> 1]
    BY DEF Init, CacheInit
  <2>2. \A f \in File : files[f].at = files[f].ver /\ (files[f].at # 1 => f = "inc" /\ files[f].at = 0)
    BY <2>1
  <2>3. "inc" \in File
    BY DEF File
  <2>4. QED BY <2>2, <2>3 DEF FilesOK
<1>2. ~Proper
  BY DEF Init, CacheInit, Proper
<1>3. \A f \in File : files[f].at \in Nat /\ files[f].ver \in Nat
  BY DEF Init, CacheInit
<1>4. ASSUME NEW p \in Process PROVE ProcPast(ps[p])
  <2>1. ps[p] = Idle
    BY DEF Init, CacheInit
  <2>2. QED BY <1>3, <2>1, IdleFields DEF ProcPast, PastTimes, Seen
<1>5. QED BY <1>1, <1>2, <1>4 DEF TimesInv

LEMMA TimesStep ==
  ASSUME CacheInv, TimesInv, CacheStepIs, CacheInv'
  PROVE  TimesInv'
<1>1. UNCHANGED session
  BY DEF CacheStepIs
<1>2. ASSUME NEW pr, UNCHANGED files, ProcPast(pr) PROVE ProcPast(pr)'
  BY <1>2 DEF ProcPast, PastTimes, Seen, Gone
<1>3. ASSUME NEW p \in Process, ATurn(p) PROVE TimesInv'
  <2>1. FilesOK' /\ (Proper => PastTimes(cache.data))'
    BY <1>1, <1>3 DEF ATurn, TimesInv, FilesOK, Proper, PastTimes
  <2>2. PICK w \in Proc : w = ps[p] /\ ProcPast(w)
    BY DEF CacheInv, ProcOK, TimesInv
  <2>3. PICK n : n = ps'[p] /\ Turn(w, n) /\ UNCHANGED files
    BY <1>3, <2>2 DEF ATurn
  <2>4. ProcPast(n)
    BY <2>2, <2>3, TurnPast DEF TimesInv
  <2>5. ASSUME NEW q \in Process PROVE ProcPast(ps[q])'
    <3>1. CASE q = p
      <4>1. ProcPast(n)'
        BY <1>2, <2>3, <2>4
      <4>2. QED BY <2>3, <3>1, <4>1
    <3>2. CASE q # p
      <4>1. PICK x : x = ps[q] /\ x = ps'[q]
        BY <1>3, <3>2 DEF ATurn
      <4>2. ProcPast(x)'
        BY <1>2, <2>3, <4>1 DEF TimesInv
      <4>3. QED BY <4>1, <4>2
    <3>3. QED BY <3>1, <3>2
  <2>6. QED BY <2>1, <2>5 DEF TimesInv
<1>4. ASSUME NEW p \in Process, AWrite(p) PROVE TimesInv'
  <2>1. PICK w : w = ps[p] /\ ProcPast(w)
    BY DEF TimesInv
  <2>2. PICK n : n = ps'[p] /\ (Opened(w, n) \/ Dumped(w, n)) /\ UNCHANGED files
    BY <1>4, <2>1 DEF AWrite
  <2>3. n.pc # "read inc" /\ n.d = w.d /\ n.cfg = w.cfg /\ n.mt = w.mt /\ n.seen = w.seen
    BY <2>2 DEF Opened, Dumped, GoesOn, Keeps
  <2>4. ProcPast(n)
    BY <2>1, <2>3 DEF ProcPast, Seen
  <2>5. FilesOK'
    BY <1>1, <2>2 DEF TimesInv, FilesOK
  <2>6. cache' = [at |-> now, data |-> Torn] \/ cache' = [at |-> now, data |-> w.d]
    BY <2>2 DEF Opened, Dumped
  <2>7. (Proper => PastTimes(cache.data))'
    <3>1. cache'.data \in {Torn, w.d}
      BY <2>6
    <3>2. PastTimes(w.d)'
      BY <2>1, <2>2 DEF PastTimes, ProcPast
    <3>3. PICK c : c = cache'.data
      OBVIOUS
    <3>4. c # Torn => PastTimes(c)'
      BY <3>1, <3>2, <3>3
    <3>5. QED BY <3>3, <3>4 DEF Proper, PastTimes
  <2>8. ASSUME NEW q \in Process PROVE ProcPast(ps[q])'
    <3>1. CASE q = p
      <4>1. ProcPast(n)'
        BY <1>2, <2>2, <2>4
      <4>2. QED BY <2>2, <3>1, <4>1
    <3>2. CASE q # p
      <4>1. PICK x : x = ps[q] /\ x = ps'[q]
        BY <1>4, <3>2 DEF AWrite
      <4>2. ProcPast(x)'
        BY <1>2, <2>2, <4>1 DEF TimesInv
      <4>3. QED BY <4>1, <4>2
    <3>3. QED BY <3>1, <3>2
  <2>9. QED BY <2>5, <2>7, <2>8 DEF TimesInv
<1>5. CASE WorldStep
  <2>1. /\ FilesOK'
        /\ \A f \in File : /\ files[f].at <= files'[f].at
                           /\ files[f].ver <= files'[f].ver \/ Gone(f)'
                           /\ Gone(f) => Gone(f)'
    BY <1>1, <1>5, FilesGoUp DEF TimesInv, WorldStep
  <2>2. \A f \in File : /\ files[f].at \in Nat /\ files[f].ver \in Nat
                       /\ files'[f].at \in Nat /\ files'[f].ver \in Nat
    BY Typed DEF CacheInv, WorldOK
  <2>3. ASSUME NEW d \in Metadata, PastTimes(d) PROVE PastTimes(d)'
    BY <2>1, <2>2, <2>3, MetadataTyped DEF PastTimes
  <2>4. (Proper => PastTimes(cache.data))'
    BY <1>5, <2>3, Typed DEF WorldStep, TimesInv, Proper
  <2>5. ASSUME NEW q \in Process PROVE ProcPast(ps[q])'
    <3>1. PICK x \in Proc : x = ps[q] /\ x = ps'[q] /\ ProcPast(x)
      BY <1>5 DEF WorldStep, CacheInv, ProcOK, TimesInv
    <3>2. x.d \in Metadata /\ x.cfg \in Metadata
      BY <3>1 DEF Proc
    <3>3. PastTimes(x.d)' /\ PastTimes(x.cfg)'
      BY <2>3, <3>1, <3>2 DEF ProcPast
    <3>4. ASSUME NEW f \in File
          PROVE  /\ x.mt[f] <= files'[f].at
                 /\ x.seen[f] <= files'[f].ver \/ Gone(f)'
      <4>1. x.mt[f] \in Nat /\ x.seen[f] \in Nat
        BY <3>1, ProcTyped
      <4>2. x.mt[f] <= files[f].at /\ (x.seen[f] <= files[f].ver \/ Gone(f))
        BY <3>1 DEF ProcPast, Seen
      <4>3. QED BY <2>1, <2>2, <4>1, <4>2
    <3>5. x.pc = "read inc" => files'["inc"].ver # 0
      <4>1. SUFFICES ASSUME x.pc = "read inc" PROVE files'["inc"].ver # 0
        OBVIOUS
      <4>2. ~Quiet
        BY <3>1, <4>1 DEF Quiet
      <4>3. ~Removed
        BY <4>2 DEF Removed
      <4>4. files["inc"].ver # 0 /\ files["inc"].ver \in Nat /\ "inc" \in File
        BY <3>1, <4>1, Typed DEF ProcPast, File
      <4>5. QED BY <1>5, <4>3, <4>4 DEF WorldStep, Edited
    <3>6. QED BY <3>1, <3>3, <3>4, <3>5 DEF ProcPast, Seen
  <2>6. QED BY <2>1, <2>4, <2>5 DEF TimesInv
<1>6. QED BY <1>3, <1>4, <1>5 DEF CacheStepIs

---------------------------------------------------------------------------
(* What has been read of a recipe, and what is noted of it.                *)
Noted == {"local", "class", "inc"}
Parses == {"mark class", "read class", "read bb", "mark inc", "read inc", "open", "dump"}

Got(pr, f) ==
    \/ f = "local" /\ pr.pc \in Parses
    \/ f = "class" /\ pr.pc \in Parses \ {"mark class", "read class"}
    \/ f = "bb" /\ pr.pc \in {"mark inc", "read inc", "open", "dump"}
    \/ f = "inc" /\ pr.pc \in {"open", "dump"} /\ pr.d.ver["inc"] # 0

Complete(d) ==
    /\ d.deps["local"] # 0 /\ d.deps["class"] # 0
    /\ d.ver["inc"] # 0 <=> d.deps["inc"] # 0

Notes(pr) ==
    /\ pr.pc # "idle" =>
        /\ pr.cfg.deps["local"] # 0 /\ pr.cfg.ver["local"] >= pr.seen["local"]
        /\ pr.cfg.ver["inc"] = 0 /\ pr.cfg.deps["inc"] = 0
    /\ pr.pc \in Parses => pr.d.deps["local"] # 0
    /\ pr.pc \in Parses \ {"mark class"} => pr.d.deps["class"] # 0
    /\ pr.pc \in Parses \ {"read inc", "open", "dump"} => pr.d.ver["inc"] = 0 /\ pr.d.deps["inc"] = 0
    /\ pr.pc = "read inc" => pr.d.deps["inc"] # 0
    /\ pr.pc \in {"open", "dump", "deps"} => Complete(pr.d)
    /\ \A f \in File : Got(pr, f) => pr.d.ver[f] >= pr.seen[f]

NotesInv ==
    /\ Proper => Complete(cache.data)
    /\ \A p \in Process : Notes(ps[p])

LEMMA MarkedIs ==
  ASSUME NEW w \in Proc, NEW n, NEW f \in File, Marked(w, n, f)
  PROVE  /\ n.d.deps[f] = TimeOf(w, f)
         /\ \A g \in File : g # f => n.d.deps[g] = w.d.deps[g]
         /\ n.d.ver = w.d.ver
BY ZenonT(60), ProcTyped DEF Marked, Metadata

LEMMA ReadIs ==
  ASSUME NEW w \in Proc, NEW n, NEW f \in File, ReadIn(w, n, f)
  PROVE  /\ n.d.ver[f] = files[f].ver
         /\ \A g \in File : g # f => n.d.ver[g] = w.d.ver[g]
         /\ n.d.deps = w.d.deps
BY ProcTyped DEF ReadIn, Metadata

LEMMA AskedIs ==
  ASSUME NEW w \in Proc, NEW n, NEW f \in File, Asks(w, n, f)
  PROVE  /\ n.mt[f] = TimeOf(w, f)
         /\ \A g \in File : g # f => n.mt[g] = w.mt[g]
BY ProcTyped DEF Asks

LEMMA TurnNotes ==
  ASSUME CacheInv, FilesOK, Proper => Complete(cache.data),
         NEW w \in Proc, ProcPast(w), Notes(w), NEW n, Turn(w, n)
  PROVE  Notes(n)
<1>f. "local" \in File /\ "class" \in File /\ "inc" \in File /\ "bb" \in File
  BY DEF File
<1>t. \A f \in File : w.seen[f] \in Nat /\ w.d.ver[f] \in Nat /\ w.cfg.ver[f] \in Nat
  BY ProcTyped, MetadataTyped
<1>w. \A f \in File : files[f].at \in Nat /\ files[f].ver \in Nat
  BY Typed
<1>1. CASE Started(w, n)
  <2>1. n.cfg.deps["local"] = files["local"].at /\ n.cfg.ver["local"] = files["local"].ver
        /\ n.cfg.ver["inc"] = 0 /\ n.cfg.deps["inc"] = 0 /\ n.seen["local"] = files["local"].ver
    BY <1>1, <1>f DEF Started, Versions
  <2>2. files["local"].at # 0 /\ files["local"].ver \in Nat
    BY <1>f, <1>w DEF FilesOK
  <2>3. n.pc = "stat"
    BY <1>1 DEF Started
  <2>4. n.cfg.deps["local"] # 0 /\ n.cfg.ver["local"] >= n.seen["local"]
    BY <2>1, <2>2
  <2>5. \A f \in File : ~Got(n, f)
    BY <2>3 DEF Got, Parses
  <2>6. QED BY <2>1, <2>3, <2>4, <2>5 DEF Notes, Parses
<1>2. CASE Ended(w, n)
  BY <1>2, IdleFields DEF Ended, Notes, Got, Parses
<1>3. CASE ParseBegins(w, n) /\ w.pc # "idle"
  BY <1>3, <1>t, <1>f DEF ParseBegins, Keeps, Notes, Got, Parses
<1>4. CASE StatTakes(w, n)
  BY <1>4 DEF StatTakes, Keeps, Notes, Got, Parses
<1>5. CASE Took(w, n)
  BY <1>5 DEF Took, GoesOn, Keeps, Notes, Got, Parses
<1>6. CASE FoundTorn(w, n) \/ DepGone(w, n) \/ ReadFails(w, n) \/ NotDumped(w, n)
  <2>1. n.pc = "failed" /\ GoesOn(w, n) /\ w.pc # "idle"
    BY <1>6 DEF FoundTorn, DepGone, ReadFails, NotDumped
  <2>2. QED BY <2>1 DEF GoesOn, Keeps, Notes, Got, Parses
<1>7. CASE DepChecked(w, n)
  <2>1. n.pc \in {"deps", "loaded"} /\ Keeps(w, n) /\ n.d = w.d /\ w.pc = "deps"
    BY <1>7 DEF DepChecked
  <2>2. QED BY <2>1 DEF Keeps, Notes, Got, Parses
<1>8. CASE Marked(w, n, "class")
  <2>1. n.d.deps["class"] = TimeOf(w, "class") /\ n.d.ver = w.d.ver
        /\ n.d.deps["local"] = w.d.deps["local"] /\ n.d.deps["inc"] = w.d.deps["inc"]
    BY <1>8, <1>f, MarkedIs
  <2>2. TimeOf(w, "class") # 0
    BY <1>f, TimeOfPast
  <2>3. n.pc = "read class" /\ w.pc = "mark class" /\ Keeps(w, n)
    BY <1>8 DEF Marked
  <2>4. QED BY <2>1, <2>2, <2>3 DEF Keeps, Notes, Got, Parses
<1>9. CASE Marked(w, n, "inc")
  <2>1. n.d.deps["inc"] = TimeOf(w, "inc") /\ n.d.ver = w.d.ver
        /\ n.d.deps["local"] = w.d.deps["local"] /\ n.d.deps["class"] = w.d.deps["class"]
    BY <1>9, <1>f, MarkedIs
  <2>2. TimeOf(w, "inc") # 0
    BY <1>9, <1>f, TimeOfPast DEF Marked
  <2>3. n.pc = "read inc" /\ w.pc = "mark inc" /\ Keeps(w, n)
    BY <1>9 DEF Marked
  <2>4. QED BY <2>1, <2>2, <2>3 DEF Keeps, Notes, Got, Parses
<1>10. CASE Skipped(w, n)
  <2>1. n.pc = "open" /\ w.pc = "mark inc" /\ GoesOn(w, n) /\ n.d = w.d
    BY <1>10 DEF Skipped
  <2>2. QED BY <2>1 DEF GoesOn, Keeps, Notes, Got, Parses, Complete
<1>11. CASE ReadIn(w, n, "class")
  <2>1. n.d.ver["class"] = files["class"].ver /\ n.d.ver["local"] = w.d.ver["local"]
        /\ n.d.ver["inc"] = w.d.ver["inc"] /\ n.d.deps = w.d.deps
    BY <1>11, <1>f, ReadIs
  <2>2. n.pc = "read bb" /\ w.pc = "read class" /\ n.seen = w.seen /\ n.cfg = w.cfg
    BY <1>11 DEF ReadIn, GoesOn, Keeps
  <2>3. files["class"].ver >= w.seen["class"]
    BY <1>f, <1>w, <1>t DEF ProcPast, Seen, Gone, FilesOK
  <2>4. QED BY <2>1, <2>2, <2>3 DEF Notes, Got, Parses
<1>12. CASE ReadIn(w, n, "bb")
  <2>1. n.d.ver["bb"] = files["bb"].ver /\ n.d.ver["local"] = w.d.ver["local"] /\ n.d.ver["class"] = w.d.ver["class"]
        /\ n.d.ver["inc"] = w.d.ver["inc"] /\ n.d.deps = w.d.deps
    BY <1>12, <1>f, ReadIs
  <2>2. n.pc = "mark inc" /\ w.pc = "read bb" /\ n.seen = w.seen /\ n.cfg = w.cfg
    BY <1>12 DEF ReadIn, GoesOn, Keeps
  <2>3. files["bb"].ver >= w.seen["bb"]
    BY <1>f, <1>w, <1>t DEF ProcPast, Seen, Gone, FilesOK
  <2>4. QED BY <2>1, <2>2, <2>3 DEF Notes, Got, Parses
<1>13. CASE ReadIn(w, n, "inc")
  <2>1. n.d.ver["bb"] = w.d.ver["bb"] /\ n.d.ver["local"] = w.d.ver["local"] /\ n.d.ver["class"] = w.d.ver["class"]
        /\ n.d.ver["inc"] = files["inc"].ver /\ n.d.deps = w.d.deps
    BY <1>13, <1>f, ReadIs
  <2>2. n.pc = "open" /\ w.pc = "read inc" /\ n.seen = w.seen /\ n.cfg = w.cfg
    BY <1>13 DEF ReadIn, GoesOn, Keeps
  <2>3. files["inc"].ver # 0
    BY <2>2 DEF ProcPast
  <2>4. files["inc"].ver >= w.seen["inc"]
    BY <1>f, <1>w, <1>t, <2>3 DEF ProcPast, Seen, Gone
  <2>5. QED BY <2>1, <2>2, <2>3, <2>4 DEF Notes, Got, Parses, Complete
<1>14. CASE Reparsed(w, n)
  <2>1. n.pc = "stat" /\ w.pc \in {"loaded", "using"} /\ n.cfg = w.cfg
    BY <1>14 DEF Reparsed
  <2>2. n.seen["local"] = w.seen["local"]
    BY <1>14, <1>f, ProcTyped DEF Reparsed
  <2>3. QED BY <2>1, <2>2 DEF Notes, Got, Parses
<1>15. ASSUME StatParses(w, n) \/ DepParses(w, n) PROVE ParseBegins(w, n) /\ w.pc # "idle"
  BY <1>15 DEF StatParses, DepParses
<1>16. QED BY <1>1, <1>2, <1>3, <1>4, <1>5, <1>6, <1>7, <1>8, <1>9, <1>10, <1>11, <1>12, <1>13, <1>14, <1>15 DEF Turn

LEMMA NotesStep ==
  ASSUME CacheInv, TimesInv, NotesInv, CacheStepIs
  PROVE  NotesInv'
<1>1. ASSUME NEW p \in Process, ATurn(p) PROVE NotesInv'
  <2>1. (Proper => Complete(cache.data))'
    BY <1>1 DEF ATurn, NotesInv, Proper, Complete
  <2>2. ps[p] \in Proc /\ ProcPast(ps[p])
    BY DEF CacheInv, ProcOK, TimesInv
  <2>3. Notes(ps'[p])
    BY <1>1, <2>2, TurnNotes DEF ATurn, NotesInv, TimesInv
  <2>4. \A q \in Process : Notes(ps'[q])
    BY <1>1, <2>3, Zenon DEF ATurn, NotesInv
  <2>5. QED BY <2>1, <2>4 DEF NotesInv, Notes, Got, Complete
<1>2. ASSUME NEW p \in Process, AWrite(p) PROVE NotesInv'
  <2>1. PICK w : w = ps[p] /\ Notes(w)
    BY DEF NotesInv
  <2>2. PICK n : n = ps'[p] /\ (Opened(w, n) \/ Dumped(w, n))
    BY <1>2, <2>1 DEF AWrite
  <2>3. cache'.data \in {Torn, w.d} /\ Complete(w.d)
    <3>1. w.pc \in {"open", "dump"}
      BY <2>2 DEF Opened, Dumped
    <3>2. cache' = [at |-> now, data |-> Torn] \/ cache' = [at |-> now, data |-> w.d]
      BY <2>2 DEF Opened, Dumped
    <3>3. Complete(w.d)
      BY <2>1, <3>1 DEF Notes
    <3>4. cache'.data = Torn \/ cache'.data = w.d
      BY <3>2
    <3>5. QED BY <3>3, <3>4
  <2>4. Notes(n)
    BY <2>1, <2>2 DEF Opened, Dumped, GoesOn, Keeps, Notes, Got, Parses
  <2>5. \A q \in Process : Notes(ps'[q])
    BY <1>2, <2>2, <2>4, Zenon DEF AWrite, NotesInv
  <2>6. (Proper => Complete(cache.data))'
    <3>1. PICK c : c = cache'.data
      OBVIOUS
    <3>2. c # Torn => Complete(c)
      BY <2>3, <3>1
    <3>3. QED BY <3>1, <3>2 DEF Proper, Complete
  <2>7. QED BY <2>5, <2>6 DEF NotesInv, Notes, Got, Complete
<1>3. CASE WorldStep
  <2>1. (Proper => Complete(cache.data))'
    BY <1>3 DEF WorldStep, NotesInv, Proper, Complete
  <2>2. \A q \in Process : Notes(ps'[q])
    BY <1>3 DEF WorldStep, NotesInv
  <2>3. QED BY <2>1, <2>2 DEF NotesInv, Notes, Got, Complete
<1>4. QED BY <1>1, <1>2, <1>3 DEF CacheStepIs

LEMMA NotesInit == Init => NotesInv
<1> SUFFICES ASSUME Init PROVE NotesInv
  OBVIOUS
<1>1. ~Proper
  BY DEF Init, CacheInit, Proper
<1>2. ASSUME NEW p \in Process PROVE Notes(ps[p])
  <2>1. ps[p].pc = "idle"
    BY IdleFields DEF Init, CacheInit
  <2>2. QED BY <2>1 DEF Notes, Got, Parses
<1>3. QED BY <1>1, <1>2 DEF NotesInv

---------------------------------------------------------------------------
(* What is noted no earlier than the file's mtime is the file's content,   *)
(* unless people are quick.                                                *)
Fresh(d, f) == d.deps[f] >= files[f].at => d.ver[f] >= files[f].ver

ProcFresh(pr) ==
    /\ pr.pc # "idle" => Fresh(pr.cfg, "local")
    /\ \A f \in Noted : Got(pr, f) \/ pr.pc = "deps" => Fresh(pr.d, f)

FreshInv ==
    ~May("quick") =>
        /\ Proper => \A f \in Noted : Fresh(cache.data, f)
        /\ \A p \in Process : ProcFresh(ps[p])

LEMMA TurnFresh ==
  ASSUME CacheInv, FilesOK, Proper => \A f \in Noted : Fresh(cache.data, f),
         NEW w \in Proc, Notes(w), ProcFresh(w), NEW n, Turn(w, n)
  PROVE  ProcFresh(n)
<1>f. "local" \in File /\ "class" \in File /\ "inc" \in File /\ "bb" \in File /\ \A f \in Noted : f \in File
  BY DEF File, Noted
<1>w. \A f \in File : files[f].at \in Nat /\ files[f].ver \in Nat
  BY Typed
<1>1. CASE Started(w, n)
  <2>1. n.cfg.ver["local"] = files["local"].ver
    BY <1>1, <1>f DEF Started
  <2>2. Fresh(n.cfg, "local")
    BY <2>1, <1>f, <1>w DEF Fresh
  <2>3. n.pc = "stat"
    BY <1>1 DEF Started
  <2>4. QED BY <2>2, <2>3 DEF ProcFresh, Got, Parses
<1>2. CASE Ended(w, n)
  BY <1>2, IdleFields DEF Ended, ProcFresh, Got, Parses
<1>3. CASE ParseBegins(w, n) /\ w.pc # "idle"
  <2>1. n.pc = "mark class" /\ n.d = w.cfg /\ n.cfg = w.cfg /\ Fresh(w.cfg, "local")
    BY <1>3 DEF ParseBegins, Keeps, ProcFresh
  <2>2. \A f \in Noted : Got(n, f) => f = "local"
    BY <2>1 DEF Got, Parses
  <2>3. QED BY <2>1, <2>2 DEF ProcFresh
<1>4. CASE n.d = w.d /\ n.cfg = w.cfg /\ w.pc # "idle" /\ \A f \in Noted : Got(n, f) \/ n.pc = "deps" => Got(w, f) \/ w.pc = "deps"
  BY <1>4 DEF ProcFresh
<1>5. CASE Took(w, n)
  BY <1>5 DEF Took, GoesOn, Keeps, ProcFresh, Got, Parses
<1>6. ASSUME NEW f \in File, Marked(w, n, f) PROVE ProcFresh(n)
  <2>1. /\ \A g \in File : g # f => n.d.deps[g] = w.d.deps[g]
        /\ n.d.ver = w.d.ver
    BY <1>6, MarkedIs
  <2>2. n.cfg = w.cfg /\ w.pc # "idle" /\ n.pc # "deps"
    BY <1>6 DEF Marked, Keeps
  <2>3. \A g \in Noted : Got(n, g) => g # f /\ Got(w, g)
    BY <1>6, <2>1 DEF Marked, Got, Parses
  <2>4. \A g \in Noted : Got(n, g) => Fresh(n.d, g)
    BY <1>f, <2>1, <2>3 DEF ProcFresh, Fresh
  <2>5. QED BY <2>2, <2>4 DEF ProcFresh
<1>7. ASSUME NEW f \in File, ReadIn(w, n, f) PROVE ProcFresh(n)
  <2>1. /\ n.d.ver[f] = files[f].ver
        /\ \A g \in File : g # f => n.d.ver[g] = w.d.ver[g]
        /\ n.d.deps = w.d.deps
    BY <1>7, ReadIs
  <2>2. n.cfg = w.cfg /\ w.pc # "idle" /\ n.pc # "deps"
    BY <1>7 DEF ReadIn, GoesOn, Keeps
  <2>3. \A g \in Noted : Got(n, g) /\ g # f => Got(w, g)
    <3>1. CASE f = "class" /\ n.pc = "read bb" /\ w.pc = "read class"
      BY <3>1 DEF Got, Parses
    <3>2. CASE f = "bb" /\ n.pc = "mark inc" /\ w.pc = "read bb"
      BY <3>2 DEF Got, Parses
    <3>3. CASE f = "inc" /\ n.pc = "open" /\ w.pc = "read inc"
      BY <3>3 DEF Got, Parses
    <3>4. QED BY <1>7, <3>1, <3>2, <3>3 DEF ReadIn
  <2>4. ASSUME NEW g \in Noted, Got(n, g) PROVE Fresh(n.d, g)
    <3>1. CASE g = f
      BY <1>w, <2>1, <3>1 DEF Fresh
    <3>2. CASE g # f
      BY <1>f, <2>1, <2>3, <2>4, <3>2 DEF ProcFresh, Fresh
    <3>3. QED BY <3>1, <3>2
  <2>5. QED BY <2>2, <2>4 DEF ProcFresh
<1>8. ASSUME StatTakes(w, n) \/ FoundTorn(w, n) \/ DepChecked(w, n) \/ DepGone(w, n) \/ Skipped(w, n)
             \/ ReadFails(w, n) \/ NotDumped(w, n) \/ Reparsed(w, n)
      PROVE  n.d = w.d /\ n.cfg = w.cfg /\ w.pc # "idle" /\ \A f \in Noted : Got(n, f) \/ n.pc = "deps" => Got(w, f) \/ w.pc = "deps"
  <2>1. n.d = w.d /\ n.cfg = w.cfg /\ w.pc # "idle"
    BY <1>8 DEF StatTakes, FoundTorn, DepChecked, DepGone, Skipped, ReadFails, NotDumped, Reparsed, GoesOn, Keeps
  <2>2. CASE n.pc \notin Parses \union {"deps"}
    BY <2>1, <2>2 DEF Got, Parses
  <2>3. CASE w.pc = "deps"
    BY <2>1, <2>3
  <2>4. CASE Skipped(w, n)
    BY <2>1, <2>4 DEF Skipped, Got, Parses, Notes
  <2>5. QED BY <1>8, <2>1, <2>2, <2>3, <2>4 DEF StatTakes, FoundTorn, DepChecked, DepGone, ReadFails, NotDumped, Reparsed, Parses
<1>9. ASSUME StatParses(w, n) \/ DepParses(w, n) PROVE ParseBegins(w, n) /\ w.pc # "idle"
  BY <1>9 DEF StatParses, DepParses
<1>10. QED BY <1>1, <1>2, <1>3, <1>4, <1>5, <1>6, <1>7, <1>8, <1>9, <1>f DEF Turn

(* What a written recipe notes is fresh.                                   *)
LEMMA WrittenFresh ==
  ASSUME CacheInv, FilesOK, NEW w \in Proc, Notes(w), ProcFresh(w), w.pc = "dump", NEW f \in Noted
  PROVE  Fresh(w.d, f)
<1>1. CASE Got(w, f)
  BY <1>1 DEF ProcFresh
<1>2. CASE ~Got(w, f)
  <2>1. f = "inc" /\ w.d.ver["inc"] = 0
    BY <1>2 DEF Got, Noted, Parses
  <2>2. w.d.deps["inc"] = 0
    BY <2>1 DEF Notes, Complete
  <2>3. files["inc"].at \in Nat /\ files["inc"].ver \in Nat
    BY Typed DEF File
  <2>4. QED BY <2>1, <2>2, <2>3 DEF Fresh, FilesOK
<1>3. QED BY <1>1, <1>2

LEMMA FreshStep ==
  ASSUME CacheInv, TimesInv, NotesInv, FreshInv, CacheStepIs
  PROVE  FreshInv'
<1>1. SUFFICES ASSUME ~May("quick")' PROVE /\ (Proper => \A f \in Noted : Fresh(cache.data, f))'
                                           /\ \A q \in Process : ProcFresh(ps[q])'
  BY DEF FreshInv
<1>2. /\ ~May("quick")
      /\ Proper => \A f \in Noted : Fresh(cache.data, f)
      /\ \A p \in Process : ProcFresh(ps[p])
  BY <1>1 DEF CacheStepIs, May, FreshInv
<1>3. ASSUME NEW pr, UNCHANGED files, ProcFresh(pr) PROVE ProcFresh(pr)'
  BY <1>3 DEF ProcFresh, Fresh, Got
<1>4. \A p \in Process : ps[p] \in Proc /\ ProcPast(ps[p]) /\ Notes(ps[p])
  BY DEF CacheInv, ProcOK, TimesInv, NotesInv
<1>5. ASSUME NEW p \in Process, ATurn(p)
      PROVE  /\ (Proper => \A f \in Noted : Fresh(cache.data, f))'
             /\ \A q \in Process : ProcFresh(ps[q])'
  <2>1. (Proper => \A f \in Noted : Fresh(cache.data, f))'
    BY <1>2, <1>5 DEF ATurn, Proper, Fresh
  <2>2. UNCHANGED files
    BY <1>5 DEF ATurn
  <2>3. ProcFresh(ps'[p])
    BY <1>2, <1>4, <1>5, TurnFresh DEF ATurn, TimesInv
  <2>4. ASSUME NEW q \in Process PROVE ProcFresh(ps[q])'
    <3>1. PICK x : x = ps'[q] /\ ProcFresh(x)
      BY <1>2, <1>5, <2>3 DEF ATurn
    <3>2. ProcFresh(x)'
      BY <1>3, <2>2, <3>1
    <3>3. QED BY <3>1, <3>2
  <2>5. QED BY <2>1, <2>4
<1>6. ASSUME NEW p \in Process, AWrite(p)
      PROVE  /\ (Proper => \A f \in Noted : Fresh(cache.data, f))'
             /\ \A q \in Process : ProcFresh(ps[q])'
  <2>1. PICK w \in Proc : w = ps[p] /\ ProcFresh(w) /\ Notes(w)
    BY <1>2, <1>4
  <2>2. PICK n : n = ps'[p] /\ (Opened(w, n) \/ Dumped(w, n)) /\ UNCHANGED files
    BY <1>6, <2>1 DEF AWrite
  <2>3. ProcFresh(n)
    <3>1. n.d = w.d /\ n.cfg = w.cfg /\ w.pc # "idle" /\ n.pc # "deps" /\ \A f \in Noted : Got(n, f) => Got(w, f)
      BY <2>2 DEF Opened, Dumped, GoesOn, Keeps, Got, Parses
    <3>2. QED BY <2>1, <3>1 DEF ProcFresh
  <2>4. ASSUME NEW q \in Process PROVE ProcFresh(ps[q])'
    <3>1. PICK x : x = ps'[q] /\ ProcFresh(x)
      BY <1>2, <1>6, <2>2, <2>3 DEF AWrite
    <3>2. ProcFresh(x)'
      BY <1>3, <2>2, <3>1
    <3>3. QED BY <3>1, <3>2
  <2>5. (Proper => \A f \in Noted : Fresh(cache.data, f))'
    <3>1. PICK c : c = cache'.data
      OBVIOUS
    <3>2. c = Torn \/ (c = w.d /\ w.pc = "dump")
      BY <2>2, <3>1 DEF Opened, Dumped
    <3>3. c # Torn => \A f \in Noted : Fresh(c, f)
      BY <2>1, <3>2, WrittenFresh DEF TimesInv
    <3>4. c # Torn => \A f \in Noted : Fresh(c, f)'
      BY <2>2, <3>3 DEF Fresh
    <3>5. QED BY <3>1, <3>4 DEF Proper
  <2>6. QED BY <2>4, <2>5
<1>7. CASE WorldStep
  <2>1. ASSUME NEW d \in Metadata, PastTimes(d), NEW f \in File, Fresh(d, f) PROVE Fresh(d, f)'
    <3>1. d.ver[f] \in Nat /\ d.deps[f] \in Nat /\ d.deps[f] <= files[f].at
      BY <2>1, MetadataTyped DEF PastTimes
    <3>2. files[f].at \in Nat /\ now \in Nat
      BY Typed
    <3>3. CASE files'[f] = files[f]
      BY <2>1, <3>3 DEF Fresh
    <3>4. CASE files'[f].at = now /\ now > files[f].at
      BY <3>1, <3>2, <3>4 DEF Fresh
    <3>5. CASE files'[f].ver = 0
      BY <3>1, <3>5 DEF Fresh
    <3>6. \/ files'[f] = files[f]
          \/ files'[f].at = now /\ now > files[f].at
          \/ files'[f].ver = 0
      <4>1. ASSUME NEW g \in File, Edited(g)
            PROVE  files'[f] = files[f] \/ (files'[f].at = now /\ now > files[f].at)
        BY <1>2, <4>1 DEF Edited, OwnSecond
      <4>2. QED BY <1>7, <4>1 DEF WorldStep, Removed
    <3>7. QED BY <3>3, <3>4, <3>5, <3>6
  <2>2. "local" \in File /\ \A f \in Noted : f \in File
    BY DEF File, Noted
  <2>3. (Proper => \A f \in Noted : Fresh(cache.data, f))'
    <3>1. PICK c : c = cache.data
      OBVIOUS
    <3>2. cache'.data = c
      BY <1>7, <3>1 DEF WorldStep
    <3>3. c \notin {None, Torn} => c \in Metadata /\ PastTimes(c) /\ \A f \in Noted : Fresh(c, f)
      BY <1>2, <3>1, Typed DEF Proper, TimesInv
    <3>4. c \notin {None, Torn} => \A f \in Noted : Fresh(c, f)'
      BY <2>1, <2>2, <3>3
    <3>5. QED BY <3>2, <3>4 DEF Proper
  <2>4. ASSUME NEW q \in Process PROVE ProcFresh(ps[q])'
    <3>1. PICK x \in Proc : x = ps[q] /\ x = ps'[q] /\ ProcFresh(x) /\ ProcPast(x)
      BY <1>2, <1>4, <1>7 DEF WorldStep
    <3>2. x.d \in Metadata /\ x.cfg \in Metadata /\ PastTimes(x.d) /\ PastTimes(x.cfg)
      BY <3>1 DEF Proc, ProcPast
    <3>3. x.pc # "idle" => Fresh(x.cfg, "local")'
      BY <2>1, <2>2, <3>1, <3>2 DEF ProcFresh
    <3>4. \A f \in Noted : Got(x, f) \/ x.pc = "deps" => Fresh(x.d, f)'
      BY <2>1, <2>2, <3>1, <3>2 DEF ProcFresh
    <3>5. ProcFresh(x)'
      BY <3>3, <3>4 DEF ProcFresh, Got
    <3>6. QED BY <3>1, <3>5
  <2>5. QED BY <2>3, <2>4
<1>8. QED BY <1>5, <1>6, <1>7 DEF CacheStepIs

LEMMA FreshInit == Init => FreshInv
<1> SUFFICES ASSUME Init PROVE FreshInv
  OBVIOUS
<1>1. ~Proper
  BY DEF Init, CacheInit, Proper
<1>2. ASSUME NEW p \in Process PROVE ProcFresh(ps[p])
  <2>1. ps[p].pc = "idle"
    BY IdleFields DEF Init, CacheInit
  <2>2. QED BY <2>1 DEF ProcFresh, Got, Parses
<1>3. QED BY <1>1, <1>2 DEF FreshInv

---------------------------------------------------------------------------
(* Nothing changes while a process loads, unless people edit meanwhile.    *)
Loads == Parses \union {"stat", "unpickle", "deps"}

Dates(d) == \A f \in File : d.deps[f] \in {0, files[f].at}

ProcCurrent(pr) ==
    /\ \A f \in File \ {"local"} : Got(pr, f) => pr.d.ver[f] = files[f].ver
    /\ ~May("shell") /\ pr.pc \in Loads =>
        /\ pr.cfg.ver["local"] = files["local"].ver /\ Dates(pr.cfg)
        /\ \A f \in File : pr.mt[f] \in {0, files[f].at}
    /\ ~May("shell") /\ pr.pc \in Parses =>
        pr.d.ver["local"] = files["local"].ver /\ Dates(pr.d)

CurrentInv ==
    ~May("during") =>
        /\ ~May("quick") /\ Proper =>
            (cache.at >= files["bb"].at => cache.data.ver["bb"] >= files["bb"].ver)
        /\ \A p \in Process : ProcCurrent(ps[p])

LEMMA TurnCurrent ==
  ASSUME CacheInv, NEW w \in Proc, Notes(w), ProcCurrent(w), NEW n, Turn(w, n)
  PROVE  ProcCurrent(n)
<1>f. "local" \in File /\ "class" \in File /\ "inc" \in File /\ "bb" \in File
  BY DEF File
<1>1. CASE Started(w, n)
  <2>1. n.pc = "stat" /\ n.mt = n.cfg.deps
    BY <1>1 DEF Started
  <2>2. n.cfg.ver["local"] = files["local"].ver /\ \A f \in File : n.cfg.deps[f] \in {0, files[f].at}
    BY <1>1, <1>f DEF Started
  <2>3. QED BY <2>1, <2>2 DEF ProcCurrent, Got, Parses, Dates
<1>2. CASE n.pc \notin Loads
  BY <1>2 DEF ProcCurrent, Got, Parses, Loads
<1>3. CASE Reparsed(w, n)
  BY <1>3 DEF Reparsed, ProcCurrent, Got, Parses
<1>4. ASSUME w.pc \in Loads, NEW f \in File, Asks(w, n, f), ~May("shell")
      PROVE  \A g \in File : n.mt[g] \in {0, files[g].at}
  <2>1. \A g \in File : w.mt[g] \in {0, files[g].at}
    BY <1>4 DEF ProcCurrent
  <2>2. n.mt[f] = TimeOf(w, f) /\ \A g \in File : g # f => n.mt[g] = w.mt[g]
    BY <1>4, AskedIs
  <2>3. QED BY <2>1, <2>2 DEF TimeOf
<1>5. CASE StatTakes(w, n) \/ DepChecked(w, n)
  <2>1. w.pc \in Loads /\ n.cfg = w.cfg /\ n.pc \notin Parses
    BY <1>5 DEF StatTakes, DepChecked, Keeps, Loads, Parses
  <2>2. (\E f \in File : Asks(w, n, f)) \/ n.mt = w.mt
    <3>1. CASE StatTakes(w, n)
      BY <3>1, <1>f DEF StatTakes
    <3>2. CASE DepChecked(w, n)
      <4>1. w.i \in 1..3
        BY <3>2 DEF DepChecked
      <4>2. Depends[w.i] \in File
        BY <4>1 DEF Depends, File
      <4>3. QED BY <3>2, <4>2 DEF DepChecked
    <3>3. QED BY <1>5, <3>1, <3>2
  <2>3. ~May("shell") => \A g \in File : n.mt[g] \in {0, files[g].at}
    <3>1. CASE n.mt = w.mt
      BY <2>1, <3>1 DEF ProcCurrent
    <3>2. QED BY <1>4, <2>1, <2>2, <3>1
  <2>4. \A f \in File : ~Got(n, f)
    BY <2>1 DEF Got, Parses
  <2>5. QED BY <2>1, <2>3, <2>4 DEF ProcCurrent
<1>6. CASE StatParses(w, n) \/ DepParses(w, n)
  <2>1. w.pc \in Loads /\ ParseBegins(w, n)
    BY <1>6 DEF StatParses, DepParses, Loads
  <2>2. \E f \in File : Asks(w, n, f)
    <3>1. CASE StatParses(w, n)
      BY <3>1, <1>f DEF StatParses
    <3>2. CASE DepParses(w, n)
      <4>1. w.i \in 1..3
        BY <3>2 DEF DepParses
      <4>2. Depends[w.i] \in File
        BY <4>1 DEF Depends, File
      <4>3. QED BY <3>2, <4>2 DEF DepParses
    <3>3. QED BY <1>6, <3>1, <3>2
  <2>3. ~May("shell") => \A g \in File : n.mt[g] \in {0, files[g].at}
    BY <1>4, <2>1, <2>2
  <2>4. n.pc = "mark class" /\ n.d = w.cfg /\ n.cfg = w.cfg
    BY <2>1 DEF ParseBegins, Keeps
  <2>5. \A f \in File : Got(n, f) => f = "local"
    BY <2>4 DEF Got, Parses
  <2>6. QED BY <2>1, <2>3, <2>4, <2>5 DEF ProcCurrent
<1>7. CASE Took(w, n)
  BY <1>7 DEF Took, GoesOn, Keeps, ProcCurrent, Got, Parses, Loads
<1>8. ASSUME NEW f \in File, Marked(w, n, f) PROVE ProcCurrent(n)
  <2>1. /\ n.d.deps[f] = TimeOf(w, f)
        /\ \A g \in File : g # f => n.d.deps[g] = w.d.deps[g]
        /\ n.d.ver = w.d.ver
    BY <1>8, MarkedIs
  <2>2. w.pc \in Parses /\ w.pc \in Loads /\ n.cfg = w.cfg /\ Asks(w, n, f)
    BY <1>8 DEF Marked, Keeps, Parses, Loads
  <2>3. ~May("shell") => \A g \in File : n.mt[g] \in {0, files[g].at}
    BY <1>4, <2>2
  <2>4. n.mt[f] = TimeOf(w, f)
    BY <2>2, AskedIs
  <2>5. ~May("shell") => Dates(n.d)
    BY <2>1, <2>2, <2>3, <2>4 DEF ProcCurrent, Dates
  <2>6. \A g \in File : Got(n, g) => Got(w, g)
    BY <1>8, <2>1 DEF Marked, Got, Parses
  <2>7. QED BY <2>1, <2>2, <2>3, <2>5, <2>6 DEF ProcCurrent
<1>9. ASSUME NEW f \in File, ReadIn(w, n, f) PROVE ProcCurrent(n)
  <2>1. /\ n.d.ver[f] = files[f].ver
        /\ \A g \in File : g # f => n.d.ver[g] = w.d.ver[g]
        /\ n.d.deps = w.d.deps
    BY <1>9, ReadIs
  <2>2. w.pc \in Parses /\ w.pc \in Loads /\ n.cfg = w.cfg /\ n.mt = w.mt
    BY <1>9 DEF ReadIn, GoesOn, Keeps, Parses, Loads
  <2>3. \A g \in File : Got(n, g) /\ g # f => Got(w, g)
    <3>1. CASE f = "class" /\ n.pc = "read bb" /\ w.pc = "read class"
      BY <3>1 DEF Got, Parses
    <3>2. CASE f = "bb" /\ n.pc = "mark inc" /\ w.pc = "read bb"
      BY <3>2 DEF Got, Parses
    <3>3. CASE f = "inc" /\ n.pc = "open" /\ w.pc = "read inc"
      BY <3>3 DEF Got, Parses
    <3>4. QED BY <1>9, <3>1, <3>2, <3>3 DEF ReadIn
  <2>4. \A g \in File \ {"local"} : Got(n, g) => n.d.ver[g] = files[g].ver
    BY <2>1, <2>3 DEF ProcCurrent
  <2>5. f # "local"
    BY <1>9 DEF ReadIn
  <2>6. ~May("shell") => n.d.ver["local"] = files["local"].ver /\ Dates(n.d)
    BY <1>f, <2>1, <2>2, <2>5 DEF ProcCurrent, Dates
  <2>7. QED BY <2>2, <2>4, <2>6 DEF ProcCurrent
<1>10. CASE Skipped(w, n)
  <2>1. w.pc \in Parses /\ w.pc \in Loads /\ GoesOn(w, n) /\ n.d = w.d
    BY <1>10 DEF Skipped, Parses, Loads
  <2>2. \A g \in File : Got(n, g) => Got(w, g)
    BY <1>10, <2>1 DEF Skipped, Got, Parses, Notes
  <2>3. QED BY <2>1, <2>2 DEF ProcCurrent, GoesOn, Keeps
<1>11. ASSUME Ended(w, n) \/ FoundTorn(w, n) \/ DepGone(w, n) \/ ReadFails(w, n) \/ NotDumped(w, n)
       PROVE  n.pc \notin Loads
  BY <1>11, IdleFields DEF Ended, FoundTorn, DepGone, ReadFails, NotDumped, Loads, Parses
<1>12. QED BY <1>1, <1>2, <1>3, <1>5, <1>6, <1>7, <1>8, <1>9, <1>10, <1>11, <1>f DEF Turn

LEMMA CurrentStep ==
  ASSUME CacheInv, TimesInv, NotesInv, CurrentInv, CacheStepIs
  PROVE  CurrentInv'
<1> DEFINE CacheCurrent == ~May("quick") /\ Proper =>
               (cache.at >= files["bb"].at => cache.data.ver["bb"] >= files["bb"].ver)
<1>1. SUFFICES ASSUME ~May("during")' PROVE CacheCurrent' /\ \A q \in Process : ProcCurrent(ps[q])'
  BY DEF CurrentInv
<1>2. ~May("during") /\ CacheCurrent /\ \A p \in Process : ProcCurrent(ps[p])
  BY <1>1 DEF CacheStepIs, May, CurrentInv
<1>s. UNCHANGED session
  BY DEF CacheStepIs
<1>3. ASSUME NEW pr, UNCHANGED files, ProcCurrent(pr) PROVE ProcCurrent(pr)'
  BY <1>3, <1>s DEF ProcCurrent, Got, May, Dates
<1>4. \A p \in Process : ps[p] \in Proc /\ Notes(ps[p])
  BY DEF CacheInv, ProcOK, NotesInv
<1>5. ASSUME NEW p \in Process, ATurn(p)
      PROVE  CacheCurrent' /\ \A q \in Process : ProcCurrent(ps[q])'
  <2>1. UNCHANGED files /\ UNCHANGED cache
    BY <1>5 DEF ATurn
  <2>2. CacheCurrent'
    BY <1>2, <1>s, <2>1 DEF Proper, May
  <2>3. ProcCurrent(ps'[p])
    BY <1>2, <1>4, <1>5, TurnCurrent DEF ATurn
  <2>4. ASSUME NEW q \in Process PROVE ProcCurrent(ps[q])'
    <3>1. PICK x : x = ps'[q] /\ ProcCurrent(x)
      BY <1>2, <1>5, <2>3 DEF ATurn
    <3>2. ProcCurrent(x)'
      BY <1>3, <2>1, <3>1
    <3>3. QED BY <3>1, <3>2
  <2>5. QED BY <2>2, <2>4
<1>6. ASSUME NEW p \in Process, AWrite(p)
      PROVE  CacheCurrent' /\ \A q \in Process : ProcCurrent(ps[q])'
  <2>1. PICK w \in Proc : w = ps[p] /\ ProcCurrent(w)
    BY <1>2, <1>4
  <2>2. PICK n : n = ps'[p] /\ (Opened(w, n) \/ Dumped(w, n)) /\ UNCHANGED files
    BY <1>6, <2>1 DEF AWrite
  <2>3. ProcCurrent(n)
    <3>1. /\ n.d = w.d /\ n.cfg = w.cfg /\ n.mt = w.mt /\ w.pc \in Parses /\ w.pc \in Loads
          /\ \A f \in File : Got(n, f) => Got(w, f)
      BY <2>2 DEF Opened, Dumped, GoesOn, Keeps, Got, Parses, Loads
    <3>2. QED BY <2>1, <3>1 DEF ProcCurrent
  <2>4. ASSUME NEW q \in Process PROVE ProcCurrent(ps[q])'
    <3>1. PICK x : x = ps'[q] /\ ProcCurrent(x)
      BY <1>2, <1>6, <2>2, <2>3 DEF AWrite
    <3>2. ProcCurrent(x)'
      BY <1>3, <2>2, <3>1
    <3>3. QED BY <3>1, <3>2
  <2>5. CacheCurrent'
    <3>1. PICK c : c = cache'.data
      OBVIOUS
    <3>2. c = Torn \/ (c = w.d /\ w.pc = "dump")
      BY <2>2, <3>1 DEF Opened, Dumped
    <3>3. c # Torn => c.ver["bb"] = files["bb"].ver
      BY <2>1, <3>2 DEF ProcCurrent, Got, File
    <3>4. files["bb"].ver \in Nat
      BY Typed DEF File
    <3>5. c # Torn => c.ver["bb"] >= files["bb"].ver
      BY <3>3, <3>4
    <3>6. QED BY <2>2, <3>1, <3>5 DEF Proper
  <2>6. QED BY <2>4, <2>5
<1>7. CASE WorldStep
  <2>1. CASE UNCHANGED files
    <3>1. UNCHANGED <<cache, ps>>
      BY <1>7 DEF WorldStep
    <3>2. CacheCurrent'
      BY <1>2, <1>s, <2>1, <3>1 DEF Proper, May
    <3>3. ASSUME NEW q \in Process PROVE ProcCurrent(ps[q])'
      <4>1. PICK x : x = ps'[q] /\ ProcCurrent(x)
        BY <1>2, <3>1
      <4>2. ProcCurrent(x)'
        BY <1>3, <2>1, <4>1
      <4>3. QED BY <4>1, <4>2
    <3>4. QED BY <3>2, <3>3
  <2>2. CASE ~UNCHANGED files
    <3>1. UNCHANGED <<cache, ps>> /\ Quiet
      BY <1>2, <1>7, <2>2 DEF WorldStep, Edited, Removed
    <3>2. ASSUME NEW q \in Process PROVE ProcCurrent(ps[q])'
      <4>1. PICK x : x = ps'[q] /\ x.pc \in {"idle", "loaded", "using", "failed"}
        BY <3>1 DEF Quiet
      <4>2. ProcCurrent(x)'
        BY <4>1 DEF ProcCurrent, Got, Parses, Loads
      <4>3. QED BY <4>1, <4>2
    <3>3. CacheCurrent'
      <4>1. CASE UNCHANGED files["bb"]
        BY <1>2, <1>s, <3>1, <4>1 DEF Proper, May
      <4>2. CASE ~UNCHANGED files["bb"]
        <5>1. "bb" \in File /\ Edited("bb")
          BY <1>7, <2>2, <4>2 DEF WorldStep, Edited, Removed, File
        <5>2. May("quick") \/ (files'["bb"].at = now /\ now > cache.at)
          BY <5>1 DEF Edited, OwnSecond
        <5>3. cache.at \in Nat /\ now \in Nat /\ cache' = cache /\ (May("quick") <=> May("quick")')
          BY <1>s, <3>1, Typed DEF May
        <5>4. CASE May("quick")
          BY <5>3, <5>4
        <5>5. CASE files'["bb"].at = now /\ now > cache.at
          BY <5>3, <5>5
        <5>6. QED BY <5>2, <5>4, <5>5
      <4>3. QED BY <4>1, <4>2
    <3>4. QED BY <3>2, <3>3
  <2>3. QED BY <2>1, <2>2
<1>8. QED BY <1>5, <1>6, <1>7 DEF CacheStepIs

LEMMA CurrentInit == Init => CurrentInv
<1> SUFFICES ASSUME Init PROVE CurrentInv
  OBVIOUS
<1>1. ~Proper
  BY DEF Init, CacheInit, Proper
<1>2. ASSUME NEW p \in Process PROVE ProcCurrent(ps[p])
  <2>1. ps[p].pc = "idle"
    BY IdleFields DEF Init, CacheInit
  <2>2. QED BY <2>1 DEF ProcCurrent, Got, Parses, Loads
<1>3. QED BY <1>1, <1>2 DEF CurrentInv

---------------------------------------------------------------------------
(* Where times tell what changed, a cached recipe that is noted no earlier *)
(* than what a process has of a file is what that process could see.       *)
NotMissed(d, pr) ==
    \A f \in Noted : d.deps[f] # 0 /\ pr.mt[f] # 0 /\ d.deps[f] >= pr.mt[f] => d.ver[f] >= pr.seen[f]
UpToDate(d, pr) == \A f \in Watched(d) : d.ver[f] >= pr.seen[f]

CacheFor(pr) ==
    /\ NotMissed(cache.data, pr)
    /\ ~May("during") /\ pr.mt["bb"] # 0 /\ cache.at >= pr.mt["bb"] => cache.data.ver["bb"] >= pr.seen["bb"]

Checked(pr, f) == pr.d.deps[f] = 0 \/ (pr.mt[f] # 0 /\ pr.d.deps[f] >= pr.mt[f])

DepsDated(pr) ==
    /\ NotMissed(pr.d, pr)
    /\ ~May("during") => pr.d.ver["bb"] >= pr.seen["bb"]
    /\ pr.i \in {2, 3} => Checked(pr, "local")
    /\ pr.i = 3 => Checked(pr, "class")
    /\ Proper => cache.data = pr.d \/ UpToDate(cache.data, pr)

ProcDated(pr) ==
    /\ pr.pc # "idle" /\ Proper => CacheFor(pr)
    /\ pr.pc = "unpickle" => pr.mt["bb"] # 0 /\ cache.at >= pr.mt["bb"]
    /\ pr.pc = "deps" => DepsDated(pr)
    /\ pr.pc = "loaded" /\ Proper => UpToDate(cache.data, pr)
    /\ pr.pc = "using" => UpToDate(pr.d, pr)

DatedInv == Dated => \A p \in Process : ProcDated(ps[p])

(* What FreshInv and CurrentInv say of the cache.                          *)
CacheTrue ==
    Proper => /\ Complete(cache.data)
              /\ \A f \in Noted : Fresh(cache.data, f)
              /\ ~May("during") /\ cache.at >= files["bb"].at => cache.data.ver["bb"] >= files["bb"].ver

LEMMA AskNotMissed ==
  ASSUME CacheInv, FilesOK, NEW w \in Proc, ProcPast(w), NEW n, NEW f \in File, Asks(w, n, f),
         n.seen = w.seen, w.mt[f] # 0 \/ files[f].ver # 0,
         NEW d \in Metadata, NotMissed(d, w), f \in Noted => Fresh(d, f)
  PROVE  NotMissed(d, n)
<1> SUFFICES ASSUME NEW g \in Noted, d.deps[g] # 0, n.mt[g] # 0, d.deps[g] >= n.mt[g]
             PROVE  d.ver[g] >= n.seen[g]
  BY DEF NotMissed
<1>1. g \in File
  BY DEF Noted, File
<1>2. CASE n.mt[g] = w.mt[g]
  BY <1>2 DEF NotMissed
<1>3. CASE n.mt[g] # w.mt[g]
  <2>1. g = f
    BY <1>1, <1>3, AskedIs
  <2>2. n.mt[f] = files[f].at /\ w.mt[f] = 0
    BY <1>3, <2>1, AskedIs DEF TimeOf
  <2>3. files[f].ver # 0 /\ files[f].ver \in Nat /\ w.seen[f] \in Nat /\ d.ver[f] \in Nat
    BY <2>2, Typed, ProcTyped, MetadataTyped
  <2>4. d.ver[f] >= files[f].ver
    BY <2>1, <2>2 DEF Fresh
  <2>5. w.seen[f] <= files[f].ver
    BY <2>3 DEF ProcPast, Seen, Gone
  <2>6. QED BY <2>1, <2>3, <2>4, <2>5
<1>4. QED BY <1>2, <1>3

LEMMA AskCacheFor ==
  ASSUME CacheInv, FilesOK, CacheTrue, NEW w \in Proc, ProcPast(w), NEW n, NEW f \in File, Asks(w, n, f),
         n.seen = w.seen, w.mt[f] # 0 \/ files[f].ver # 0, Proper, CacheFor(w)
  PROVE  CacheFor(n)
<1>1. cache.data \in Metadata /\ f \in Noted => Fresh(cache.data, f)
  BY Typed DEF CacheTrue
<1>2. NotMissed(cache.data, n)
  BY <1>1, AskNotMissed, Typed DEF CacheFor, CacheTrue
<1>3. ASSUME ~May("during"), n.mt["bb"] # 0, cache.at >= n.mt["bb"]
      PROVE  cache.data.ver["bb"] >= n.seen["bb"]
  <2>1. "bb" \in File
    BY DEF File
  <2>2. CASE n.mt["bb"] = w.mt["bb"]
    BY <1>3, <2>2 DEF CacheFor
  <2>3. CASE n.mt["bb"] # w.mt["bb"]
    <3>1. n.mt["bb"] = files["bb"].at
      BY <2>1, <2>3, AskedIs DEF TimeOf
    <3>2. cache.data.ver["bb"] >= files["bb"].ver
      BY <1>3, <3>1 DEF CacheTrue
    <3>3. files["bb"].ver # 0
      BY <2>1 DEF FilesOK
    <3>4. w.seen["bb"] <= files["bb"].ver
      BY <2>1, <3>3 DEF ProcPast, Seen, Gone
    <3>5. cache.data.ver["bb"] \in Nat /\ files["bb"].ver \in Nat /\ w.seen["bb"] \in Nat
      BY <2>1, Typed, ProcTyped, MetadataTyped
    <3>6. QED BY <3>2, <3>4, <3>5
  <2>4. QED BY <2>2, <2>3
<1>4. QED BY <1>2, <1>3 DEF CacheFor

(* What holds of all that is read holds of what is noted and watched.      *)
LEMMA Covered ==
  ASSUME NEW d, Complete(d), NEW pr,
         \A f \in {"local", "class", "bb"} : d.ver[f] >= pr.seen[f],
         d.ver["inc"] # 0 => d.ver["inc"] >= pr.seen["inc"]
  PROVE  NotMissed(d, pr) /\ UpToDate(d, pr) /\ d.ver["bb"] >= pr.seen["bb"]
<1>1. \A f \in Noted : d.deps[f] # 0 => d.ver[f] >= pr.seen[f]
  BY DEF Complete, Noted
<1>2. \A f \in Watched(d) : f \in {"local", "class", "bb"} \/ (f = "inc" /\ d.ver["inc"] # 0)
  BY DEF Watched
<1>3. QED BY <1>1, <1>2 DEF NotMissed, UpToDate

(* A recipe that passed deps_clean.                                        *)
LEMMA CheckedUpToDate ==
  ASSUME NEW d, Complete(d), NEW pr, NotMissed(d, pr), ~May("during") => d.ver["bb"] >= pr.seen["bb"],
         \A f \in Noted : d.deps[f] = 0 \/ (pr.mt[f] # 0 /\ d.deps[f] >= pr.mt[f])
  PROVE  UpToDate(d, pr)
<1>1. ASSUME NEW f \in Noted, d.deps[f] # 0 PROVE d.ver[f] >= pr.seen[f]
  BY <1>1 DEF NotMissed
<1>2. \A f \in Watched(d) : (f \in Noted /\ d.deps[f] # 0) \/ (f = "bb" /\ ~May("during"))
  BY DEF Watched, Noted, Complete
<1>3. QED BY <1>1, <1>2 DEF UpToDate

(* A process that asks for no time, and does not get to take a recipe.     *)
LEMMA StaysDated ==
  ASSUME NEW w, ProcDated(w), w.pc # "idle", NEW n, n.mt = w.mt, n.seen = w.seen,
         n.pc \notin {"unpickle", "deps", "loaded", "using"}
  PROVE  ProcDated(n)
BY DEF ProcDated, CacheFor, NotMissed

LEMMA DepCheckedDated ==
  ASSUME CacheInv, FilesOK, ~May("quick"), CacheTrue,
         NEW w \in Proc, ProcPast(w), Notes(w), ProcFresh(w), ProcDated(w), NEW n, DepChecked(w, n)
  PROVE  ProcDated(n)
<1>1. PICK f \in Noted : f = Depends[w.i] /\ f \in File
  <2>1. w.i \in {1, 2, 3}
    BY DEF DepChecked
  <2>2. QED BY <2>1 DEF Depends, Noted, File
<1>2. w.pc = "deps" /\ n.seen = w.seen /\ n.d = w.d /\ w.d \in Metadata
  BY DEF DepChecked, Keeps, Proc
<1>3. DepsDated(w) /\ Complete(w.d) /\ \A g \in Noted : Fresh(w.d, g)
  BY <1>2 DEF ProcDated, Notes, ProcFresh
<1>4. \/ w.d.deps[f] = 0 /\ n.mt = w.mt
      \/ /\ w.mt[f] # 0 \/ files[f].ver # 0
         /\ TimeOf(w, f) <= w.d.deps[f] /\ Asks(w, n, f)
  BY <1>1 DEF DepChecked
<1>5. NotMissed(n.d, n) /\ (Proper => CacheFor(n))
  <2>1. CASE n.mt = w.mt
    BY <1>2, <1>3, <2>1 DEF ProcDated, DepsDated, CacheFor, NotMissed
  <2>2. CASE (w.mt[f] # 0 \/ files[f].ver # 0) /\ Asks(w, n, f)
    <3>1. NotMissed(w.d, w)
      BY <1>3 DEF DepsDated
    <3>2. NotMissed(w.d, n)
      BY <1>1, <1>2, <1>3, <2>2, <3>1, AskNotMissed
    <3>3. Proper => CacheFor(w)
      BY <1>2 DEF ProcDated
    <3>4. Proper => CacheFor(n)
      BY <1>1, <1>2, <2>2, <3>3, AskCacheFor
    <3>5. QED BY <1>2, <3>2, <3>4
  <2>3. QED BY <1>4, <2>1, <2>2
<1>6. Checked(n, f)
  <2>1. CASE w.d.deps[f] = 0
    BY <1>2, <2>1 DEF Checked
  <2>2. CASE (w.mt[f] # 0 \/ files[f].ver # 0) /\ TimeOf(w, f) <= w.d.deps[f] /\ Asks(w, n, f)
    <3>1. n.mt[f] = TimeOf(w, f)
      BY <1>1, <2>2, AskedIs
    <3>2. TimeOf(w, f) # 0 /\ TimeOf(w, f) \in Nat
      BY <1>1, <2>2, TimeOfPast
    <3>3. w.d.deps[f] \in Nat
      BY <1>1, <1>2, MetadataTyped
    <3>4. w.d.deps[f] >= TimeOf(w, f)
      BY <2>2, <3>2, <3>3
    <3>5. QED BY <1>2, <3>1, <3>2, <3>4 DEF Checked
  <2>3. QED BY <1>4, <2>1, <2>2
<1>7. \A g \in File : Checked(w, g) => Checked(n, g)
  <2>1. \A g \in File : w.mt[g] # 0 => n.mt[g] = w.mt[g]
    <3>1. CASE n.mt = w.mt
      BY <3>1
    <3>2. CASE Asks(w, n, f)
      BY <1>1, <3>2, AskedIs DEF TimeOf
    <3>3. QED BY <1>4, <3>1, <3>2
  <2>2. QED BY <1>2, <2>1 DEF Checked
<1>8. "local" \in File /\ "class" \in File
  BY DEF File
<1>9. Proper => cache.data = n.d \/ UpToDate(cache.data, n)
  BY <1>2, <1>3 DEF DepsDated, UpToDate
<1>10. ~May("during") => n.d.ver["bb"] >= n.seen["bb"]
  BY <1>2, <1>3 DEF DepsDated
<1>11. CASE w.i = 3
  <2>1. f = "inc" /\ n.pc = "loaded"
    BY <1>1, <1>11 DEF Depends, DepChecked
  <2>2. Checked(n, "local") /\ Checked(n, "class")
    BY <1>3, <1>7, <1>8, <1>11 DEF DepsDated
  <2>3. \A g \in Noted : Checked(n, g)
    BY <1>6, <2>1, <2>2 DEF Noted
  <2>4. UpToDate(n.d, n)
    BY <1>2, <1>3, <1>5, <1>10, <2>3, CheckedUpToDate DEF Checked
  <2>5. QED BY <1>5, <1>9, <2>1, <2>4 DEF ProcDated
<1>12. CASE w.i \in {1, 2}
  <2>1. n.pc = "deps" /\ n.i = w.i + 1
    BY <1>12 DEF DepChecked
  <2>2. Checked(n, "local")
    <3>1. CASE w.i = 1
      BY <1>1, <1>6, <3>1 DEF Depends
    <3>2. CASE w.i = 2
      BY <1>3, <1>7, <1>8, <3>2 DEF DepsDated
    <3>3. QED BY <1>12, <3>1, <3>2
  <2>3. n.i = 3 => Checked(n, "class")
    <3>1. n.i = 3 => w.i = 2
      BY <1>12, <2>1
    <3>2. w.i = 2 => f = "class"
      BY <1>1 DEF Depends
    <3>3. QED BY <1>6, <3>1, <3>2
  <2>4. DepsDated(n)
    BY <1>5, <1>9, <1>10, <2>2, <2>3 DEF DepsDated
  <2>5. QED BY <1>5, <2>1, <2>4 DEF ProcDated
<1>13. w.i \in {1, 2, 3}
  BY DEF DepChecked
<1>14. QED BY <1>11, <1>12, <1>13

LEMMA TurnDated ==
  ASSUME CacheInv, FilesOK, ~May("quick"), CacheTrue,
         NEW w \in Proc, ProcPast(w), Notes(w), ProcFresh(w), ProcDated(w), NEW n, Turn(w, n)
  PROVE  ProcDated(n)
<1>f. "local" \in File /\ "class" \in File /\ "inc" \in File /\ "bb" \in File
  BY DEF File
<1>1. CASE Started(w, n)
  <2>1. /\ n.pc = "stat" /\ n.seen["local"] = files["local"].ver
        /\ n.mt["local"] = files["local"].at /\ \A f \in File : f # "local" => n.mt[f] = 0
    BY <1>1, <1>f DEF Started, Versions
  <2>2. Proper => CacheFor(n)
    BY <2>1, <1>f DEF CacheTrue, CacheFor, NotMissed, Noted, Fresh, File
  <2>3. QED BY <2>1, <2>2 DEF ProcDated
<1>2. CASE Ended(w, n)
  BY <1>2, IdleFields DEF Ended, ProcDated
<1>3. CASE FoundTorn(w, n) \/ DepGone(w, n) \/ Skipped(w, n) \/ ReadFails(w, n) \/ NotDumped(w, n)
           \/ \E f \in File : ReadIn(w, n, f)
  <2>1. w.pc # "idle" /\ n.mt = w.mt /\ n.seen = w.seen /\ n.pc \notin {"unpickle", "deps", "loaded", "using"}
    BY <1>3 DEF FoundTorn, DepGone, Skipped, ReadFails, NotDumped, ReadIn, GoesOn, Keeps
  <2>2. QED BY <2>1, StaysDated
<1>4. ASSUME NEW f \in File, w.pc # "idle", Asks(w, n, f), Keeps(w, n), w.mt[f] # 0 \/ files[f].ver # 0,
             n.pc \notin {"unpickle", "deps", "loaded", "using"}
      PROVE  ProcDated(n)
  <2>1. Proper => CacheFor(n)
    BY <1>4, AskCacheFor DEF ProcDated, Keeps
  <2>2. QED BY <1>4, <2>1 DEF ProcDated
<1>5. CASE StatParses(w, n)
  <2>1. files["bb"].ver # 0
    BY <1>f DEF FilesOK
  <2>2. QED BY <1>4, <1>5, <1>f, <2>1 DEF StatParses, ParseBegins
<1>6. CASE DepParses(w, n)
  <2>1. w.i \in {1, 2, 3}
    BY <1>6 DEF DepParses
  <2>2. PICK f \in File : f = Depends[w.i]
    BY <2>1 DEF Depends, File
  <2>3. w.pc = "deps" /\ Keeps(w, n) /\ n.pc = "mark class" /\ Asks(w, n, f) /\ (w.mt[f] # 0 \/ files[f].ver # 0)
    BY <1>6, <2>2 DEF DepParses, ParseBegins
  <2>4. QED BY <1>4, <2>3
<1>7. ASSUME NEW f \in File, Marked(w, n, f) PROVE ProcDated(n)
  BY <1>4, <1>7 DEF Marked
<1>8. CASE StatTakes(w, n)
  <2>1. files["bb"].ver # 0
    BY <1>f DEF FilesOK
  <2>2. w.pc = "stat" /\ n.pc = "unpickle" /\ Asks(w, n, "bb") /\ n.seen = w.seen /\ TimeOf(w, "bb") <= cache.at
    BY <1>8 DEF StatTakes, Keeps
  <2>3. Proper => CacheFor(n)
    BY <1>f, <2>1, <2>2, AskCacheFor DEF ProcDated
  <2>4. n.mt["bb"] = TimeOf(w, "bb") /\ TimeOf(w, "bb") # 0 /\ TimeOf(w, "bb") \in Nat
    BY <1>f, <2>2, AskedIs, TimeOfPast
  <2>5. cache.at \in Nat
    BY Typed
  <2>6. n.mt["bb"] # 0 /\ cache.at >= n.mt["bb"]
    BY <2>2, <2>4, <2>5
  <2>7. QED BY <2>2, <2>3, <2>6 DEF ProcDated
<1>9. CASE Took(w, n)
  <2>1. n.mt = w.mt /\ n.seen = w.seen /\ Proper /\ n.d = cache.data /\ n.i = 1
    BY <1>9 DEF Took, GoesOn, Keeps
  <2>2. CASE w.pc = "unpickle" /\ n.pc = "deps"
    <3>1. CacheFor(w) /\ w.mt["bb"] # 0 /\ cache.at >= w.mt["bb"]
      BY <2>1, <2>2 DEF ProcDated
    <3>2. CacheFor(n) /\ NotMissed(n.d, n)
      BY <2>1, <3>1 DEF CacheFor, NotMissed
    <3>3. ~May("during") => n.d.ver["bb"] >= n.seen["bb"]
      BY <2>1, <3>1 DEF CacheFor
    <3>4. n.i \notin {2, 3}
      BY <2>1
    <3>5. DepsDated(n)
      BY <2>1, <3>2, <3>3, <3>4 DEF DepsDated
    <3>6. QED BY <2>2, <3>2, <3>5 DEF ProcDated
  <2>3. CASE w.pc = "loaded" /\ n.pc = "using"
    <3>1. CacheFor(w) /\ UpToDate(cache.data, w)
      BY <2>1, <2>3 DEF ProcDated
    <3>2. CacheFor(n) /\ UpToDate(n.d, n)
      BY <2>1, <3>1 DEF CacheFor, NotMissed, UpToDate
    <3>3. QED BY <2>3, <3>2 DEF ProcDated
  <2>4. QED BY <1>9, <2>2, <2>3 DEF Took
<1>10. CASE DepChecked(w, n)
  BY <1>10, DepCheckedDated
<1>11. CASE Reparsed(w, n)
  <2>1. w.pc # "idle" /\ n.pc = "stat"
    BY <1>11 DEF Reparsed
  <2>2. /\ n.mt["bb"] = files["bb"].at /\ n.seen["bb"] = files["bb"].ver
        /\ \A f \in Noted : n.mt[f] = w.mt[f] /\ n.seen[f] = w.seen[f]
    BY <1>11, <1>f, ProcTyped DEF Reparsed, Noted
  <2>3. Proper => CacheFor(n)
    BY <2>1, <2>2 DEF ProcDated, CacheFor, NotMissed, CacheTrue
  <2>4. QED BY <2>1, <2>3 DEF ProcDated
<1>12. QED BY <1>1, <1>2, <1>3, <1>5, <1>6, <1>7, <1>8, <1>9, <1>10, <1>11, <1>f DEF Turn

RecipeInv == TimesInv /\ NotesInv /\ FreshInv /\ CurrentInv

(* A process that writes, alone or while nobody edits, has read all that   *)
(* any process could see.                                                  *)
LEMMA WrittenForAll ==
  ASSUME CacheInv, RecipeInv, Dated, NEW p \in Process, ps[p].pc = "dump",
         NEW q \in Process, ps[q].pc # "idle", NEW w, w = ps[p], NEW x, x.seen = ps[q].seen
  PROVE  Complete(w.d) /\ NotMissed(w.d, x) /\ UpToDate(w.d, x) /\ w.d.ver["bb"] >= x.seen["bb"]
<1>f. "local" \in File /\ "class" \in File /\ "inc" \in File /\ "bb" \in File
  BY DEF File
<1>1. ps[p] \in Proc /\ ps[q] \in Proc /\ Notes(w) /\ ProcPast(ps[q])
  BY DEF CacheInv, ProcOK, RecipeInv, NotesInv, TimesInv
<1>2. Complete(w.d)
  BY <1>1 DEF Notes
<1>3. \A f \in {"local", "class", "bb"} : Got(w, f)
  BY DEF Got, Parses
<1>4. w.d.ver["inc"] # 0 => Got(w, "inc")
  BY DEF Got
<1>5. \A f \in File : Got(w, f) => w.d.ver[f] >= x.seen[f]
  <2>1. CASE p = q
    BY <1>1, <2>1 DEF Notes
  <2>2. CASE p # q
    <3>1. p \in session.procs /\ q \in session.procs
      BY Active
    <3>2. ~May("during") /\ ~May("shell")
      BY <2>2, <3>1 DEF Dated, Alone
    <3>3. ProcCurrent(w)
      BY <3>2 DEF RecipeInv, CurrentInv
    <3>4. \A f \in File : Got(w, f) => w.d.ver[f] = files[f].ver
      BY <3>2, <3>3 DEF ProcCurrent, Parses
    <3>5. ASSUME NEW f \in File, Got(w, f) PROVE w.d.ver[f] >= x.seen[f]
      <4>1. w.d.ver[f] # 0
        <5>1. CASE f = "inc"
          BY <3>5, <5>1 DEF Got
        <5>2. CASE f # "inc"
          BY <3>4, <3>5, <5>2 DEF RecipeInv, TimesInv, FilesOK
        <5>3. QED BY <5>1, <5>2
      <4>2. files[f].ver # 0 /\ w.d.ver[f] = files[f].ver
        BY <3>4, <3>5, <4>1
      <4>3. ps[q].seen[f] <= files[f].ver
        BY <1>1, <4>2 DEF ProcPast, Seen, Gone
      <4>4. files[f].ver \in Nat /\ ps[q].seen[f] \in Nat
        BY <1>1, Typed, ProcTyped
      <4>5. QED BY <4>2, <4>3, <4>4
    <3>6. QED BY <3>5
  <2>3. QED BY <2>1, <2>2
<1>6. QED BY <1>f, <1>2, <1>3, <1>4, <1>5, Covered

LEMMA DatedStep ==
  ASSUME CacheInv, RecipeInv, DatedInv, CacheStepIs, CacheInv'
  PROVE  DatedInv'
<1>s. UNCHANGED session
  BY DEF CacheStepIs
<1>1. SUFFICES ASSUME Dated' PROVE \A q \in Process : ProcDated(ps[q])'
  BY DEF DatedInv
<1>2. Dated /\ ~May("quick") /\ \A p \in Process : ProcDated(ps[p])
  BY <1>1, <1>s DEF DatedInv, Dated, May, Alone
<1>3. ASSUME NEW pr, UNCHANGED cache, ProcDated(pr) PROVE ProcDated(pr)'
  BY <1>s, <1>3 DEF ProcDated, CacheFor, DepsDated, UpToDate, Watched, May, Proper, NotMissed, Checked
<1>4. CacheTrue
  BY <1>2 DEF RecipeInv, NotesInv, FreshInv, CurrentInv, CacheTrue
<1>5. ASSUME NEW p \in Process, ATurn(p), NEW q \in Process PROVE ProcDated(ps[q])'
  <2>1. PICK w \in Proc : w = ps[p] /\ ProcPast(w) /\ Notes(w) /\ ProcFresh(w) /\ ProcDated(w)
    BY <1>2 DEF CacheInv, ProcOK, RecipeInv, NotesInv, FreshInv, TimesInv
  <2>2. ProcDated(ps'[p])
    BY <1>2, <1>4, <1>5, <2>1, TurnDated DEF ATurn, RecipeInv, TimesInv
  <2>3. PICK x : x = ps'[q] /\ ProcDated(x)
    BY <1>2, <1>5, <2>2 DEF ATurn
  <2>4. ProcDated(x)'
    BY <1>3, <1>5, <2>3 DEF ATurn
  <2>5. QED BY <2>3, <2>4
<1>6. ASSUME NEW p \in Process, AWrite(p), NEW q \in Process PROVE ProcDated(ps[q])'
  <2>1. PICK w \in Proc : w = ps[p] /\ Notes(w)
    BY DEF CacheInv, ProcOK, RecipeInv, NotesInv
  <2>2. PICK v : v = ps[q] /\ ProcDated(v)
    BY <1>2
  <2>3. PICK x : x = ps'[q]
    OBVIOUS
  <2>4. /\ x.mt = v.mt /\ x.seen = v.seen /\ (x.pc = "idle" <=> v.pc = "idle")
        /\ x.pc \in {"unpickle", "deps", "using"} => x = v
    <3>1. CASE q = p
      BY <1>6, <2>1, <2>2, <2>3, <3>1 DEF AWrite, Opened, Dumped, GoesOn, Keeps
    <3>2. CASE q # p
      BY <1>6, <2>2, <2>3, <3>2 DEF AWrite
    <3>3. QED BY <3>1, <3>2
  <2>5. (cache' = [at |-> now, data |-> Torn]) \/ (cache' = [at |-> now, data |-> w.d] /\ w.pc = "dump")
    BY <1>6, <2>1 DEF AWrite, Opened, Dumped
  <2>6. x.pc = "unpickle" => x.mt["bb"] # 0 /\ cache'.at >= x.mt["bb"]
    <3>1. SUFFICES ASSUME x.pc = "unpickle" PROVE x.mt["bb"] # 0 /\ cache'.at >= x.mt["bb"]
      OBVIOUS
    <3>2. x = v /\ v.mt["bb"] # 0 /\ ps[q] \in Proc /\ ProcPast(v)
      BY <2>2, <2>4, <3>1 DEF ProcDated, CacheInv, ProcOK, RecipeInv, TimesInv
    <3>3. v.mt["bb"] \in Nat /\ files["bb"].at \in Nat /\ now \in Nat /\ files["bb"].at <= now
          /\ v.mt["bb"] <= files["bb"].at
      BY <2>2, <3>2, Typed, ProcTyped DEF ProcPast, File
    <3>4. cache'.at = now
      BY <2>5
    <3>5. QED BY <3>2, <3>3, <3>4
  <2>7. CASE cache' = [at |-> now, data |-> Torn]
    <3>1. ~Proper'
      BY <2>7 DEF Proper
    <3>2. x.pc = "deps" => DepsDated(x)'
      <4>1. SUFFICES ASSUME x.pc = "deps" PROVE DepsDated(x)'
        OBVIOUS
      <4>2. DepsDated(x)
        BY <2>2, <2>4, <4>1 DEF ProcDated
      <4>3. QED BY <1>s, <3>1, <4>2 DEF DepsDated, May, NotMissed, Checked
    <3>3. x.pc = "using" => UpToDate(x.d, x)'
      BY <1>s, <2>2, <2>4 DEF ProcDated, UpToDate, Watched, May
    <3>4. ProcDated(x)'
      BY <2>6, <3>1, <3>2, <3>3 DEF ProcDated
    <3>5. QED BY <2>3, <3>4
  <2>8. CASE cache' = [at |-> now, data |-> w.d] /\ w.pc = "dump"
    <3>1. CASE x.pc = "idle"
      <4>1. ProcDated(x)'
        BY <3>1 DEF ProcDated
      <4>2. QED BY <2>3, <4>1
    <3>2. CASE x.pc # "idle"
      <4>1. NotMissed(w.d, x) /\ UpToDate(w.d, x) /\ w.d.ver["bb"] >= x.seen["bb"]
        BY <1>2, <2>1, <2>2, <2>4, <2>8, <3>2, WrittenForAll
      <4>2. PICK c : c = cache'.data /\ c = w.d
        BY <2>8
      <4>3. UpToDate(c, x)' /\ CacheFor(x)'
        BY <1>s, <4>1, <4>2 DEF UpToDate, Watched, May, CacheFor, NotMissed
      <4>4. x.pc = "deps" => DepsDated(x)'
        <5>1. SUFFICES ASSUME x.pc = "deps" PROVE DepsDated(x)'
          OBVIOUS
        <5>2. DepsDated(x)
          BY <2>2, <2>4, <5>1 DEF ProcDated
        <5>3. QED BY <1>s, <4>2, <4>3, <5>2 DEF DepsDated, May, NotMissed, Checked
      <4>5. x.pc = "using" => UpToDate(x.d, x)'
        BY <1>s, <2>2, <2>4 DEF ProcDated, UpToDate, Watched, May
      <4>6. ProcDated(x)'
        BY <2>6, <4>2, <4>3, <4>4, <4>5 DEF ProcDated
      <4>7. QED BY <2>3, <4>6
    <3>3. QED BY <3>1, <3>2
  <2>9. QED BY <2>5, <2>7, <2>8
<1>7. CASE WorldStep
  <2>1. ASSUME NEW q \in Process PROVE ProcDated(ps[q])'
    <3>1. PICK x : x = ps'[q] /\ ProcDated(x)
      BY <1>2, <1>7 DEF WorldStep
    <3>2. ProcDated(x)'
      BY <1>3, <1>7, <3>1 DEF WorldStep
    <3>3. QED BY <3>1, <3>2
  <2>2. QED BY <2>1
<1>8. QED BY <1>5, <1>6, <1>7 DEF CacheStepIs

LEMMA DatedInit == Init => DatedInv
<1> SUFFICES ASSUME Init PROVE DatedInv
  OBVIOUS
<1>1. ASSUME NEW p \in Process PROVE ProcDated(ps[p])
  <2>1. ps[p].pc = "idle"
    BY IdleFields DEF Init, CacheInit
  <2>2. QED BY <2>1 DEF ProcDated
<1>2. QED BY <1>1 DEF DatedInv

---------------------------------------------------------------------------
(* A process that is alone fails for a reason that stays.                  *)
Reason(pr) ==
    \/ \E v \in session.broken : v \in pr.seen["bb"]..files["bb"].ver
    \/ session.removes /\ Gone("inc")
    \/ cache.data = Torn /\ faults > 0

FailInv ==
    Alone =>
        /\ \A p \in Process : ps[p].pc = "dump" => cache.data = Torn
        /\ cache.data = Torn => faults > 0 \/ \E p \in Process : ps[p].pc = "dump"
        /\ \A p \in Process : ps[p].pc = "failed" => Reason(ps[p])

LEMMA OnlyOne ==
  ASSUME CacheInv, Alone, NEW p \in Process, ps[p].pc # "idle", NEW q \in Process, ps[q].pc # "idle"
  PROVE  p = q
BY Active DEF Alone

LEMMA TurnFails ==
  ASSUME CacheInv, TimesInv, FailInv, Alone, faults > 0 => faults' > 0,
         NEW p \in Process, ATurn(p), ps'[p].pc = "failed"
  PROVE  (\E v \in session.broken : v \in ps'[p].seen["bb"]..files["bb"].ver)
         \/ (session.removes /\ Gone("inc")) \/ (cache.data = Torn /\ faults' > 0)
<1>1. PICK w \in Proc : w = ps[p] /\ ProcPast(w)
  BY DEF CacheInv, ProcOK, TimesInv
<1>2. PICK n : n = ps'[p] /\ Turn(w, n)
  BY <1>1 DEF ATurn
<1>3. FoundTorn(w, n) \/ DepGone(w, n) \/ ReadFails(w, n) \/ NotDumped(w, n)
  BY <1>2, IdleFields DEF Turn, Started, Ended, StatParses, ParseBegins, StatTakes, Took, DepChecked, DepParses,
     Marked, Skipped, ReadIn, Reparsed
<1>4. CASE FoundTorn(w, n)
  <2>1. cache.data = Torn /\ w.pc \in {"unpickle", "loaded"}
    BY <1>4 DEF FoundTorn
  <2>2. ~ \E q \in Process : ps[q].pc = "dump"
    BY <1>1, <2>1, OnlyOne
  <2>3. QED BY <2>1, <2>2 DEF FailInv
<1>5. CASE DepGone(w, n)
  <2>1. w.i \in {1, 2, 3}
    BY <1>5 DEF DepGone
  <2>2. PICK f \in File : f = Depends[w.i]
    BY <2>1 DEF Depends, File
  <2>3. w.d.deps[f] # 0 /\ files[f].ver = 0
    BY <1>5, <2>2 DEF DepGone
  <2>4. f = "inc"
    BY <2>3 DEF TimesInv, FilesOK
  <2>5. w.d.deps[f] \in Nat /\ files[f].at \in Nat /\ w.d.deps[f] <= files[f].at
    BY <1>1, Typed, ProcTyped, MetadataTyped DEF ProcPast, PastTimes
  <2>6. files[f].at # 0
    BY <2>3, <2>5
  <2>7. QED BY <2>3, <2>4, <2>6 DEF TimesInv, FilesOK, Gone
<1>6. CASE ReadFails(w, n)
  <2>1. "bb" \in File
    BY DEF File
  <2>2. files["bb"].ver \in session.broken /\ n.seen = w.seen
    BY <1>6 DEF ReadFails, GoesOn, Keeps
  <2>3. w.seen["bb"] <= files["bb"].ver
    BY <1>1, <2>1 DEF ProcPast, Seen, Gone, TimesInv, FilesOK
  <2>4. w.seen["bb"] \in Nat /\ files["bb"].ver \in Nat
    BY <2>1, Typed, ProcTyped
  <2>5. files["bb"].ver \in n.seen["bb"]..files["bb"].ver
    BY <2>2, <2>3, <2>4
  <2>6. QED BY <1>2, <2>2, <2>5
<1>7. CASE NotDumped(w, n)
  BY <1>1, <1>7 DEF NotDumped, ATurn, FailInv
<1>8. QED BY <1>3, <1>4, <1>5, <1>6, <1>7

LEMMA FailStep ==
  ASSUME CacheInv, TimesInv, FailInv, CacheStepIs, CacheInv'
  PROVE  FailInv'
<1>s. UNCHANGED session /\ (faults > 0 => faults' > 0)
  BY DEF CacheStepIs
<1>1. SUFFICES ASSUME Alone'
      PROVE  /\ \A p \in Process : ps'[p].pc = "dump" => cache'.data = Torn
             /\ cache'.data = Torn => faults' > 0 \/ \E p \in Process : ps'[p].pc = "dump"
             /\ \A p \in Process : ps'[p].pc = "failed" => Reason(ps[p])'
  BY DEF FailInv
<1>2. /\ Alone
      /\ \A p \in Process : ps[p].pc = "dump" => cache.data = Torn
      /\ cache.data = Torn => faults > 0 \/ \E p \in Process : ps[p].pc = "dump"
      /\ \A p \in Process : ps[p].pc = "failed" => Reason(ps[p])
  BY <1>1, <1>s DEF FailInv, Alone
<1>3. ASSUME NEW pr, Reason(pr), UNCHANGED <<files, cache>> PROVE Reason(pr)'
  BY <1>s, <1>3 DEF Reason, Gone
<1>4. ASSUME NEW p \in Process, ATurn(p)
      PROVE  /\ \A q \in Process : ps'[q].pc = "dump" => cache'.data = Torn
             /\ cache'.data = Torn => faults' > 0 \/ \E q \in Process : ps'[q].pc = "dump"
             /\ \A q \in Process : ps'[q].pc = "failed" => Reason(ps[q])'
  <2>1. UNCHANGED <<files, cache>> /\ \A q \in Process : q # p => ps'[q] = ps[q]
    BY SMTT(30), <1>4 DEF ATurn
  <2>2. ps'[p].pc # "dump"
    BY <1>4, IdleFields DEF ATurn, Turn, Started, Ended, StatParses, ParseBegins, StatTakes, Took, FoundTorn,
       DepChecked, DepGone, DepParses, Marked, Skipped, ReadIn, ReadFails, NotDumped, Reparsed
  <2>3. \A q \in Process : ps'[q].pc = "dump" => cache'.data = Torn
    BY <1>2, <2>1, <2>2
  <2>4. cache'.data = Torn => faults' > 0 \/ \E q \in Process : ps'[q].pc = "dump"
    <3>1. SUFFICES ASSUME cache'.data = Torn, ~(faults' > 0) PROVE \E q \in Process : ps'[q].pc = "dump"
      OBVIOUS
    <3>2. PICK q \in Process : ps[q].pc = "dump"
      BY <1>2, <1>s, <2>1, <3>1
    <3>3. q # p
      BY <1>4, <3>1, <3>2 DEF ATurn
    <3>4. QED BY <2>1, <3>2, <3>3
  <2>5. ASSUME NEW q \in Process, ps'[q].pc = "failed" PROVE Reason(ps[q])'
    <3>1. CASE q = p
      <4>1. PICK n : n = ps'[p]
        OBVIOUS
      <4>2. (\E v \in session.broken : v \in n.seen["bb"]..files["bb"].ver)
            \/ (session.removes /\ Gone("inc")) \/ (cache.data = Torn /\ faults' > 0)
        BY <1>2, <1>4, <1>s, <2>5, <3>1, <4>1, TurnFails
      <4>3. Reason(n)'
        BY <1>s, <2>1, <4>2 DEF Reason, Gone
      <4>4. QED BY <3>1, <4>1, <4>3
    <3>2. CASE q # p
      <4>1. PICK x : x = ps'[q] /\ Reason(x)
        BY <1>2, <2>1, <2>5, <3>2
      <4>2. Reason(x)'
        BY <1>3, <2>1, <4>1
      <4>3. QED BY <4>1, <4>2
    <3>3. QED BY <3>1, <3>2
  <2>6. QED BY <2>3, <2>4, <2>5
<1>5. ASSUME NEW p \in Process, AWrite(p)
      PROVE  /\ \A q \in Process : ps'[q].pc = "dump" => cache'.data = Torn
             /\ cache'.data = Torn => faults' > 0 \/ \E q \in Process : ps'[q].pc = "dump"
             /\ \A q \in Process : ps'[q].pc = "failed" => Reason(ps[q])'
  <2>1. ps[p].pc # "idle" /\ ps'[p].pc \in {"dump", "loaded"}
    BY <1>5 DEF AWrite, Opened, Dumped
  <2>2. \A q \in Process : q # p => ps'[q].pc = "idle"
    BY <1>2, <1>5, <2>1, OnlyOne DEF AWrite
  <2>3. \/ ps'[p].pc = "dump" /\ cache'.data = Torn
        \/ ps'[p].pc = "loaded" /\ cache'.data # Torn
    <3>1. ps[p].d \in Metadata
      BY DEF CacheInv, ProcOK, Proc
    <3>2. CASE Opened(ps[p], ps'[p])
      BY <3>2 DEF Opened
    <3>3. CASE Dumped(ps[p], ps'[p])
      BY <3>1, <3>3, CacheAssumption DEF Dumped
    <3>4. QED BY <1>5, <3>2, <3>3 DEF AWrite
  <2>4. QED BY <2>1, <2>2, <2>3
<1>6. CASE WorldStep
  <2>1. /\ UNCHANGED <<cache, ps>>
        /\ \A f \in File : /\ files[f].ver <= files'[f].ver \/ Gone(f)'
                           /\ Gone(f) => Gone(f)'
    BY <1>6, <1>s, FilesGoUp DEF WorldStep, TimesInv
  <2>2. "bb" \in File /\ "inc" \in File
    BY DEF File
  <2>3. FilesOK'
    BY <1>6, <1>s, FilesGoUp DEF WorldStep, TimesInv
  <2>4. files["bb"].ver <= files'["bb"].ver
    BY <2>1, <2>2, <2>3 DEF Gone, FilesOK
  <2>5. files["bb"].ver \in Nat /\ files'["bb"].ver \in Nat
    BY <2>2, Typed DEF CacheInv, WorldOK
  <2>6. ASSUME NEW q \in Process, ps'[q].pc = "failed" PROVE Reason(ps[q])'
    <3>1. PICK x \in Proc : x = ps[q] /\ x = ps'[q] /\ Reason(x)
      BY <1>2, <2>1, <2>6 DEF CacheInv, ProcOK
    <3>2. Reason(x)'
      <4>1. CASE \E v \in session.broken : v \in x.seen["bb"]..files["bb"].ver
        <5>1. PICK v \in session.broken : v \in x.seen["bb"]..files["bb"].ver
          BY <4>1
        <5>2. x.seen["bb"] \in Nat
          BY <2>2, <3>1, ProcTyped
        <5>3. v \in x.seen["bb"]..files'["bb"].ver
          BY <2>4, <2>5, <5>1, <5>2
        <5>4. QED BY <1>s, <5>1, <5>3 DEF Reason
      <4>2. CASE session.removes /\ Gone("inc")
        BY <1>s, <2>1, <2>2, <4>2 DEF Reason
      <4>3. CASE cache.data = Torn /\ faults > 0
        BY <1>s, <2>1, <4>3 DEF Reason
      <4>4. QED BY <3>1, <4>1, <4>2, <4>3 DEF Reason
    <3>3. QED BY <3>1, <3>2
  <2>7. QED BY <1>2, <1>s, <2>1, <2>6
<1>7. QED BY <1>4, <1>5, <1>6 DEF CacheStepIs

LEMMA FailInit == Init => FailInv
<1> SUFFICES ASSUME Init PROVE FailInv
  OBVIOUS
<1>1. \A p \in Process : ps[p].pc = "idle"
  BY IdleFields DEF Init, CacheInit
<1>2. cache.data # Torn
  BY CacheAssumption DEF Init, CacheInit
<1>3. QED BY <1>1, <1>2 DEF FailInv

---------------------------------------------------------------------------
(* What was read of a file is a version it had.                            *)
Known(d) == \A f \in File : d.ver[f] <= files[f].ver \/ Gone(f)

KnownInv ==
    /\ Proper => Known(cache.data)
    /\ \A p \in Process : Known(ps[p].d) /\ Known(ps[p].cfg)

(* A process that is alone parses what is cached only if it changed.       *)
DateTells ==
    /\ files["bb"].at > cache.at => cache.data.ver["bb"] # files["bb"].ver
    /\ \A f \in File : cache.data.deps[f] # 0 /\ files[f].at > cache.data.deps[f]
                          => cache.data.ver[f] # files[f].ver

ChangedInv ==
    ~May("during") /\ ~May("shell") =>
        /\ Proper => DateTells
        /\ Alone => \A p \in Process :
            /\ ps[p].pc = "deps" => cache.data = ps[p].d
            /\ ps[p].pc = "mark class" /\ Proper => Outdated(cache.data)

LEMMA TurnKnown ==
  ASSUME CacheInv, Proper => Known(cache.data), NEW w \in Proc, Known(w.d), Known(w.cfg), NEW n, Turn(w, n)
  PROVE  Known(n.d) /\ Known(n.cfg)
<1>w. \A f \in File : files[f].ver \in Nat
  BY Typed
<1>1. CASE Started(w, n)
  <2>1. \A f \in File : n.d.ver[f] = 0 /\ n.cfg.ver[f] \in {0, files[f].ver}
    BY <1>1 DEF Started, Empty
  <2>2. QED BY <1>w, <2>1 DEF Known
<1>2. CASE Ended(w, n)
  <2>1. \A f \in File : n.d.ver[f] = 0 /\ n.cfg.ver[f] = 0
    BY <1>2, IdleFields DEF Ended
  <2>2. QED BY <1>w, <2>1 DEF Known
<1>3. CASE n.d.ver \in {w.d.ver, w.cfg.ver} /\ n.cfg = w.cfg
  BY <1>3 DEF Known
<1>4. CASE Took(w, n)
  BY <1>4 DEF Took, GoesOn, Keeps
<1>5. ASSUME NEW f \in File, ReadIn(w, n, f) PROVE Known(n.d) /\ Known(n.cfg)
  <2>1. n.cfg = w.cfg
    BY <1>5 DEF ReadIn, GoesOn, Keeps
  <2>2. n.d.ver[f] = files[f].ver /\ \A g \in File : g # f => n.d.ver[g] = w.d.ver[g]
    BY <1>5, ReadIs
  <2>3. QED BY <1>w, <2>1, <2>2 DEF Known
<1>6. ASSUME NEW f \in File, Marked(w, n, f) PROVE n.d.ver = w.d.ver /\ n.cfg = w.cfg
  BY <1>6 DEF Marked, Keeps
<1>7. ASSUME StatParses(w, n) \/ DepParses(w, n) PROVE n.d = w.cfg /\ n.cfg = w.cfg
  BY <1>7 DEF StatParses, DepParses, ParseBegins, Keeps
<1>8. ASSUME StatTakes(w, n) \/ FoundTorn(w, n) \/ DepChecked(w, n) \/ DepGone(w, n) \/ Skipped(w, n)
             \/ ReadFails(w, n) \/ NotDumped(w, n) \/ Reparsed(w, n)
      PROVE  n.d = w.d /\ n.cfg = w.cfg
  BY <1>8 DEF StatTakes, FoundTorn, DepChecked, DepGone, Skipped, ReadFails, NotDumped, Reparsed, GoesOn, Keeps
<1>9. "class" \in File /\ "inc" \in File /\ "bb" \in File
  BY DEF File
<1>10. QED BY <1>1, <1>2, <1>3, <1>4, <1>5, <1>6, <1>7, <1>8, <1>9 DEF Turn

LEMMA KnownStep ==
  ASSUME CacheInv, TimesInv, KnownInv, CacheStepIs, CacheInv'
  PROVE  KnownInv'
<1>s. UNCHANGED session
  BY DEF CacheStepIs
<1>1. ASSUME NEW p \in Process, ATurn(p) PROVE KnownInv'
  <2>1. UNCHANGED files /\ UNCHANGED cache
    BY <1>1 DEF ATurn
  <2>2. (Proper => Known(cache.data))'
    BY <2>1 DEF KnownInv, Proper, Known, Gone
  <2>3. ps[p] \in Proc
    BY DEF CacheInv, ProcOK
  <2>4. Known(ps'[p].d) /\ Known(ps'[p].cfg)
    BY <1>1, <2>3, TurnKnown DEF ATurn, KnownInv
  <2>5. \A q \in Process : Known(ps'[q].d) /\ Known(ps'[q].cfg)
    BY <1>1, <2>4, Zenon DEF ATurn, KnownInv
  <2>6. QED BY <2>1, <2>2, <2>5 DEF KnownInv, Known, Gone
<1>2. ASSUME NEW p \in Process, AWrite(p) PROVE KnownInv'
  <2>1. UNCHANGED files
    BY <1>2 DEF AWrite
  <2>2. cache'.data \in {Torn, ps[p].d} /\ ps'[p].d = ps[p].d /\ ps'[p].cfg = ps[p].cfg
    <3>1. cache' = [at |-> now, data |-> Torn] \/ cache' = [at |-> now, data |-> ps[p].d]
      BY <1>2 DEF AWrite, Opened, Dumped
    <3>2. cache'.data \in {Torn, ps[p].d}
      BY <3>1
    <3>3. QED BY <1>2, <3>2 DEF AWrite, Opened, Dumped, GoesOn, Keeps
  <2>3. \A q \in Process : Known(ps'[q].d) /\ Known(ps'[q].cfg)
    BY <1>2, <2>2, Zenon DEF AWrite, KnownInv
  <2>4. PICK c : c = cache'.data
    OBVIOUS
  <2>5. c # Torn => Known(c)
    BY <2>2, <2>4 DEF KnownInv
  <2>6. (Proper => Known(cache.data))'
    BY <2>1, <2>4, <2>5 DEF Proper, Known, Gone
  <2>7. QED BY <2>1, <2>3, <2>6 DEF KnownInv, Known, Gone
<1>3. CASE WorldStep
  <2>1. /\ UNCHANGED <<cache, ps>>
        /\ \A f \in File : /\ files[f].ver <= files'[f].ver \/ Gone(f)'
                           /\ Gone(f) => Gone(f)'
    BY <1>3, <1>s, FilesGoUp DEF WorldStep, TimesInv
  <2>2. \A f \in File : files[f].ver \in Nat /\ files'[f].ver \in Nat
    BY Typed DEF CacheInv, WorldOK
  <2>3. ASSUME NEW d \in Metadata, Known(d) PROVE Known(d)'
    BY <2>1, <2>2, <2>3, MetadataTyped DEF Known
  <2>4. ASSUME NEW q \in Process PROVE Known(ps[q].d)' /\ Known(ps[q].cfg)'
    <3>1. PICK x \in Proc : x = ps[q] /\ x = ps'[q]
      BY <2>1 DEF CacheInv, ProcOK
    <3>2. Known(x.d)' /\ Known(x.cfg)'
      BY <2>3, <3>1 DEF KnownInv, Proc
    <3>3. QED BY <3>1, <3>2
  <2>5. (Proper => Known(cache.data))'
    <3>1. PICK c : c = cache.data /\ c = cache'.data
      BY <2>1
    <3>2. c \notin {None, Torn} => Known(c)'
      BY <2>3, <3>1, Typed DEF KnownInv, Proper
    <3>3. QED BY <3>1, <3>2 DEF Proper
  <2>6. QED BY <2>4, <2>5 DEF KnownInv
<1>4. QED BY <1>1, <1>2, <1>3 DEF CacheStepIs

LEMMA KnownInit == Init => KnownInv
<1> SUFFICES ASSUME Init PROVE KnownInv
  OBVIOUS
<1>1. ~Proper
  BY DEF Init, CacheInit, Proper
<1>2. \A f \in File : files[f].ver \in Nat
  BY DEF Init, CacheInit
<1>3. ASSUME NEW p \in Process PROVE Known(ps[p].d) /\ Known(ps[p].cfg)
  <2>1. ps[p] = Idle
    BY DEF Init, CacheInit
  <2>2. QED BY <1>2, <2>1, IdleFields DEF Known
<1>4. QED BY <1>1, <1>3 DEF KnownInv

LEMMA TurnChanged ==
  ASSUME CacheInv, CurrentInv, ChangedInv, ~May("during"), ~May("shell"), Alone,
         NEW p \in Process, ATurn(p)
  PROVE  /\ ps'[p].pc = "deps" => cache.data = ps'[p].d
         /\ ps'[p].pc = "mark class" /\ Proper => Outdated(cache.data)
<1>1. PICK w \in Proc : w = ps[p] /\ ProcCurrent(w)
  BY DEF CacheInv, ProcOK, CurrentInv
<1>2. PICK n : n = ps'[p] /\ Turn(w, n)
  BY <1>1 DEF ATurn
<1>3. ASSUME w.pc \in Loads, NEW f \in File PROVE TimeOf(w, f) = files[f].at
  BY <1>1, <1>3 DEF ProcCurrent, TimeOf
<1>4. CASE StatParses(w, n)
  <2>1. "bb" \in File /\ w.pc \in Loads
    BY <1>4 DEF File, StatParses, Loads
  <2>2. Proper => cache.data.ver["bb"] # files["bb"].ver
    BY <1>3, <1>4, <2>1 DEF StatParses, ChangedInv, DateTells
  <2>3. n.pc = "mark class"
    BY <1>4 DEF StatParses, ParseBegins
  <2>4. QED BY <1>2, <2>1, <2>2, <2>3 DEF Outdated
<1>5. CASE DepParses(w, n)
  <2>i. w.i \in {1, 2, 3}
    BY <1>5 DEF DepParses
  <2>1. w.pc = "deps" /\ n.pc = "mark class" /\ w.pc \in Loads
    BY <1>5 DEF DepParses, ParseBegins, Loads
  <2>2. PICK f \in File : f = Depends[w.i]
    BY <2>i DEF Depends, File
  <2>3. w.d.deps[f] # 0 /\ TimeOf(w, f) > w.d.deps[f] /\ cache.data = w.d
    BY <1>1, <1>5, <2>1, <2>2 DEF DepParses, ChangedInv
  <2>4. Proper => cache.data.ver[f] # files[f].ver
    BY <1>3, <2>1, <2>3 DEF ChangedInv, DateTells
  <2>5. QED BY <1>2, <2>1, <2>4 DEF Outdated
<1>6. CASE Took(w, n)
  BY <1>2, <1>6 DEF Took
<1>7. CASE DepChecked(w, n)
  <2>1. w.pc = "deps" /\ n.pc \in {"deps", "loaded"} /\ n.d = w.d
    BY <1>7 DEF DepChecked
  <2>2. QED BY <1>1, <1>2, <2>1 DEF ChangedInv
<1>8. ASSUME Started(w, n) \/ Ended(w, n) \/ StatTakes(w, n) \/ FoundTorn(w, n) \/ DepGone(w, n)
             \/ Marked(w, n, "class") \/ Marked(w, n, "inc") \/ Skipped(w, n) \/ ReadIn(w, n, "class")
             \/ ReadIn(w, n, "bb") \/ ReadIn(w, n, "inc") \/ ReadFails(w, n) \/ NotDumped(w, n) \/ Reparsed(w, n)
      PROVE  n.pc \notin {"deps", "mark class"}
  BY <1>8, IdleFields DEF Started, Ended, StatTakes, FoundTorn, DepGone, Marked, Skipped, ReadIn, ReadFails,
     NotDumped, Reparsed
<1>9. QED BY <1>2, <1>4, <1>5, <1>6, <1>7, <1>8 DEF Turn

LEMMA WrittenTells ==
  ASSUME CacheInv, NEW w \in Proc, w.pc = "dump", ~May("shell"), ProcCurrent(w),
         UNCHANGED files, cache' = [at |-> now, data |-> w.d]
  PROVE  DateTells'
<1>1. \A f \in File : files[f].at \in Nat /\ files[f].at <= now /\ now \in Nat
  BY Typed
<1>2. Dates(w.d)
  BY DEF ProcCurrent, Parses
<1>3. cache'.at = now /\ cache'.data = w.d
  OBVIOUS
<1>4. ~(files["bb"].at > now)
  BY <1>1 DEF File
<1>5. ASSUME NEW f \in File, w.d.deps[f] # 0 PROVE ~(files[f].at > w.d.deps[f])
  <2>1. w.d.deps[f] = files[f].at
    BY <1>2, <1>5 DEF Dates
  <2>2. QED BY <1>1, <2>1
<1>6. QED BY <1>3, <1>4, <1>5 DEF DateTells

LEMMA WorldTells ==
  ASSUME CacheInv, TimesInv, NotesInv, KnownInv, WorldStep, Proper, DateTells
  PROVE  DateTells'
<1>1. UNCHANGED cache
  BY DEF WorldStep
<1>2. PICK d \in Metadata : d = cache.data /\ d = cache'.data /\ Known(d) /\ PastTimes(d) /\ Complete(d)
  BY <1>1, Typed DEF KnownInv, TimesInv, NotesInv
<1>3. PICK at : at = cache.at /\ at = cache'.at
  BY <1>1
<1>4. ASSUME NEW f \in File, files'[f].ver # files[f].ver \/ files'[f].at # files[f].at
      PROVE  \/ d.ver[f] # files'[f].ver
             \/ f = "inc" /\ d.deps[f] = 0
  <2>1. CASE Edited(f)
    <3>1. files'[f].ver = files[f].ver + 1 /\ ~Gone(f)
      BY <2>1 DEF Edited, Gone
    <3>2. d.ver[f] <= files[f].ver
      BY <1>2, <3>1 DEF Known
    <3>3. d.ver[f] \in Nat /\ files[f].ver \in Nat
      BY <1>2, Typed, MetadataTyped
    <3>4. QED BY <3>1, <3>2, <3>3
  <2>2. CASE f = "inc" /\ files'[f].ver = 0
    BY <1>2, <2>2 DEF Complete
  <2>3. QED BY <1>4, <2>1, <2>2 DEF WorldStep, Edited, Removed
<1>5. "bb" \in File
  BY DEF File
<1>6. files'["bb"].at > at => d.ver["bb"] # files'["bb"].ver
  <2>1. CASE files'["bb"].ver = files["bb"].ver /\ files'["bb"].at = files["bb"].at
    BY <1>2, <1>3, <2>1 DEF DateTells
  <2>2. CASE ~(files'["bb"].ver = files["bb"].ver /\ files'["bb"].at = files["bb"].at)
    BY <1>4, <1>5, <2>2
  <2>3. QED BY <2>1, <2>2
<1>7. ASSUME NEW f \in File, d.deps[f] # 0, files'[f].at > d.deps[f] PROVE d.ver[f] # files'[f].ver
  <2>1. CASE files'[f].ver = files[f].ver /\ files'[f].at = files[f].at
    BY <1>2, <1>7, <2>1 DEF DateTells
  <2>2. CASE ~(files'[f].ver = files[f].ver /\ files'[f].at = files[f].at)
    BY <1>4, <1>7, <2>2
  <2>3. QED BY <2>1, <2>2
<1>8. QED BY <1>2, <1>3, <1>6, <1>7 DEF DateTells

LEMMA ChangedStep ==
  ASSUME CacheInv, RecipeInv, KnownInv, ChangedInv, CacheStepIs
  PROVE  ChangedInv'
<1>s. UNCHANGED session
  BY DEF CacheStepIs
<1>1. SUFFICES ASSUME ~May("during")', ~May("shell")'
      PROVE  /\ (Proper => DateTells)'
             /\ Alone' => \A p \in Process :
                    /\ ps'[p].pc = "deps" => cache'.data = ps'[p].d
                    /\ ps'[p].pc = "mark class" /\ Proper' => Outdated(cache.data)'
  BY DEF ChangedInv
<1>2. /\ ~May("during") /\ ~May("shell") /\ (Alone' => Alone)
      /\ Proper => DateTells
      /\ Alone => \A p \in Process :
            /\ ps[p].pc = "deps" => cache.data = ps[p].d
            /\ ps[p].pc = "mark class" /\ Proper => Outdated(cache.data)
      /\ \A p \in Process : ProcCurrent(ps[p]) /\ ps[p] \in Proc
  BY <1>1, <1>s DEF ChangedInv, May, Alone, RecipeInv, CurrentInv, CacheInv, ProcOK
<1>3. ASSUME NEW p \in Process, ATurn(p)
      PROVE  /\ (Proper => DateTells)'
             /\ Alone' => \A q \in Process :
                    /\ ps'[q].pc = "deps" => cache'.data = ps'[q].d
                    /\ ps'[q].pc = "mark class" /\ Proper' => Outdated(cache.data)'
  <2>1. UNCHANGED files /\ UNCHANGED cache /\ \A q \in Process : q # p => ps'[q] = ps[q]
    BY <1>3 DEF ATurn
  <2>2. (Proper => DateTells)'
    BY <1>2, <2>1 DEF Proper, DateTells
  <2>3. Alone => /\ ps'[p].pc = "deps" => cache.data = ps'[p].d
                 /\ ps'[p].pc = "mark class" /\ Proper => Outdated(cache.data)
    BY <1>2, <1>3, TurnChanged DEF RecipeInv
  <2>4. (Proper <=> Proper') /\ (Outdated(cache.data) <=> Outdated(cache.data)')
    BY <2>1 DEF Proper, Outdated
  <2>5. QED BY <1>2, <2>1, <2>2, <2>3, <2>4
<1>4. ASSUME NEW p \in Process, AWrite(p)
      PROVE  /\ (Proper => DateTells)'
             /\ Alone' => \A q \in Process :
                    /\ ps'[q].pc = "deps" => cache'.data = ps'[q].d
                    /\ ps'[q].pc = "mark class" /\ Proper' => Outdated(cache.data)'
  <2>1. UNCHANGED files /\ ps[p].pc # "idle" /\ ps'[p].pc \in {"dump", "loaded"}
    BY <1>4 DEF AWrite, Opened, Dumped
  <2>2. Alone => \A q \in Process : ps'[q].pc \in {"idle", "dump", "loaded"}
    BY <1>4, <2>1, OnlyOne DEF AWrite
  <2>3. (Proper => DateTells)'
    <3>1. CASE Opened(ps[p], ps'[p])
      BY <3>1 DEF Opened, Proper
    <3>2. CASE Dumped(ps[p], ps'[p])
      <4>1. ps[p].pc = "dump" /\ cache' = [at |-> now, data |-> ps[p].d]
        BY <3>2 DEF Dumped
      <4>2. QED BY <1>2, <2>1, <4>1, WrittenTells
    <3>3. QED BY <1>4, <3>1, <3>2 DEF AWrite
  <2>4. QED BY <1>2, <2>2, <2>3
<1>5. CASE WorldStep
  <2>1. UNCHANGED <<cache, ps>>
    BY <1>5 DEF WorldStep
  <2>2. (Proper => DateTells)'
    BY <1>2, <1>5, <2>1, WorldTells DEF RecipeInv, Proper
  <2>3. ASSUME Alone', NEW q \in Process
        PROVE  /\ ps'[q].pc = "deps" => cache'.data = ps'[q].d
               /\ ps'[q].pc = "mark class" /\ Proper' => Outdated(cache.data)'
    <3>1. CASE UNCHANGED files
      BY <1>2, <2>1, <2>3, <3>1 DEF Proper, Outdated
    <3>2. CASE Quiet
      BY <2>1, <3>2 DEF Quiet
    <3>3. QED BY <1>2, <1>5, <3>1, <3>2 DEF WorldStep, Edited, Removed
  <2>4. QED BY <2>2, <2>3
<1>6. QED BY <1>3, <1>4, <1>5 DEF CacheStepIs

LEMMA ChangedInit == Init => ChangedInv
<1> SUFFICES ASSUME Init PROVE ChangedInv
  OBVIOUS
<1>1. \A p \in Process : ps[p].pc = "idle"
  BY IdleFields DEF Init, CacheInit
<1>2. ~Proper
  BY DEF Init, CacheInit, Proper
<1>3. QED BY <1>1, <1>2 DEF ChangedInv

---------------------------------------------------------------------------
(* All of it is kept.                                                      *)
CachedInv == RecipeInv /\ DatedInv /\ FailInv /\ KnownInv /\ ChangedInv

LEMMA CachedInit == Init => CachedInv
BY TimesInit, NotesInit, FreshInit, CurrentInit, DatedInit, FailInit, KnownInit, ChangedInit
   DEF CachedInv, RecipeInv

LEMMA CachedStep == IInv /\ CachedInv /\ [Next]_vars => CachedInv'
<1> SUFFICES ASSUME IInv, CachedInv, [Next]_vars PROVE CachedInv'
  OBVIOUS
<1>1. CacheStepIs /\ CacheInv /\ CacheInv'
  BY StepFields, StepOK DEF IInv
<1>2. RecipeInv'
  BY <1>1, TimesStep, NotesStep, FreshStep, CurrentStep DEF CachedInv, RecipeInv
<1>3. DatedInv'
  BY <1>1, DatedStep DEF CachedInv
<1>4. FailInv' /\ KnownInv'
  BY <1>1, FailStep, KnownStep DEF CachedInv, RecipeInv
<1>5. ChangedInv'
  BY <1>1, ChangedStep DEF CachedInv
<1>6. QED BY <1>2, <1>3, <1>4, <1>5 DEF CachedInv

LEMMA CachedHolds == Spec => [](IInv /\ CachedInv)
<1>1. Init => IInv /\ CachedInv
  BY InitOK, CachedInit
<1>2. IInv /\ CachedInv /\ [Next]_vars => (IInv /\ CachedInv)'
  BY StepOK, CachedStep
<1>3. QED BY <1>1, <1>2, PTL DEF Spec

(* A recipe that is built is as new as anything that the process could see *)
(* when it started, whoever else works on the cache: what is watched is    *)
(* compared, and times tell contents apart.                                *)
THEOREM BuiltRecipesAreNotStale == Spec => []NeverStale
<1>1. IInv /\ CachedInv => NeverStale
  BY DEF CachedInv, DatedInv, ProcDated, UpToDate, NeverStale
<1>2. QED BY <1>1, CachedHolds, PTL

(* Loading fails only for one of the reasons that LoadFailsForAReason has. *)
THEOREM LoadingFailsForAReason == Spec => []LoadFailsForAReason
<1>1. IInv /\ CachedInv => LoadFailsForAReason
  BY DEF CachedInv, FailInv, Reason, Gone, LoadFailsForAReason
<1>2. QED BY <1>1, CachedHolds, PTL

(* A cached recipe is parsed again only when something it depends on is    *)
(* another version than it was parsed from.                                *)
THEOREM CachedRecipesAreUsed == Spec => []ParsedOnlyIfChanged
<1>1. IInv /\ CachedInv => ParsedOnlyIfChanged
  BY DEF CachedInv, ChangedInv, Proper, ParsedOnlyIfChanged
<1>2. QED BY <1>1, CachedHolds, PTL

=============================================================================
