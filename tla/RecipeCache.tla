---------------------------- MODULE RecipeCache ----------------------------
(***************************************************************************)
(* The cache of parsed recipes: load_bbfile and deps_clean of bin/bitbake, *)
(* DataSmartPackage, DataDictCache, the mtimes of bb.parse and the parts   *)
(* of the parser that read files and note what a recipe depends on.        *)
(*                                                                         *)
(* One recipe.  A process reads the configuration when it starts, loads    *)
(* the recipe, from the cache if that is not older than the recipe and     *)
(* none of the files in __depends is newer than noted, and unpickles it    *)
(* from the cache again each time it builds.  Meanwhile people edit files  *)
(* and other processes work on the same cache.  Time is in seconds, as     *)
(* os.stat gives it; an edit changes a file in place.                      *)
(***************************************************************************)
EXTENDS Sessions

CONSTANTS
    MaxTime,        \* the last second
    None, Torn      \* no cached recipe; one that is not written to its end

ASSUME TimeAssumption == MaxTime \in Nat \ {0}

VARIABLES
    now,            \* the time
    files,          \* [at, ver] of each file: mtime and content; ver = 0: not there
    cache,          \* the cached recipe: its mtime (0 if there is none) and content
    ps              \* the processes

cacheVars == <<now, files, cache, ps>>

(* What is parsed: the version read of each file, and the times noted in   *)
(* __depends (0 for a file that is not in it).                             *)
Metadata == [ver : [File -> 0..MaxVersion], deps : [File -> 0..MaxTime]]
ASSUME CacheAssumption == None # Torn /\ None \notin Metadata /\ Torn \notin Metadata

Never == [f \in File |-> 0]
Versions == [f \in File |-> files[f].ver]

(* The order of __depends.                                                 *)
Depends == <<"local", "class", "inc">>

(* A process: where it is, the mtimes it has asked for (0 if not yet), its *)
(* configuration, the recipe's metadata, the versions it could not miss.   *)
Idle == [pc |-> "idle", i |-> 1, mt |-> Never, cfg |-> [ver |-> Never, deps |-> Never],
         d |-> [ver |-> Never, deps |-> Never], seen |-> Never]

At(p, pc) == ps[p].pc = pc
Becomes(p, proc) == ps' = [ps EXCEPT ![p] = proc]

(* parse.cached_mtime: asked once in the life of a process.                *)
Mtime(p, f) == IF ps[p].mt[f] # 0 THEN ps[p].mt[f] ELSE files[f].at
Asked(p, f) == [ps[p] EXCEPT !.mt[f] = Mtime(p, f)]

(* A process starts with reading the configuration.  What bitbake.conf     *)
(* includes is noted in the configuration's __depends, which the recipes   *)
(* inherit; bitbake.conf itself is not.                                    *)
Start(p) ==
    LET cfg == [ver |-> [Never EXCEPT !["conf"] = files["conf"].ver, !["local"] = files["local"].ver],
                deps |-> [Never EXCEPT !["local"] = files["local"].at]]
    IN  /\ p \in session.procs /\ At(p, "idle")
        /\ Becomes(p, [Idle EXCEPT !.pc = "stat", !.mt = cfg.deps, !.cfg = cfg, !.seen = Versions])
        /\ UNCHANGED <<now, files, cache>>

(* The recipe is read again, starting from the configuration.              *)
Parsing(proc) == [proc EXCEPT !.pc = "mark class", !.d = proc.cfg]

(* Mutant: a recipe of the cache's own second is not taken.                *)
StatCacheStrictly(p) ==
    /\ At(p, "stat")
    /\ Becomes(p, IF Mtime(p, "bb") >= cache.at THEN Parsing(Asked(p, "bb"))
                  ELSE [Asked(p, "bb") EXCEPT !.pc = "unpickle"])
    /\ UNCHANGED <<now, files, cache>>

(* load_bbfile: is the cached recipe at least as new as the recipe?        *)
StatCache(p) ==
    /\ At(p, "stat")
    /\ Becomes(p, IF Mtime(p, "bb") > cache.at THEN Parsing(Asked(p, "bb"))
                  ELSE [Asked(p, "bb") EXCEPT !.pc = "unpickle"])
    /\ UNCHANGED <<now, files, cache>>

(* DataSmartPackage.unpickle, of a file that may end too early.            *)
Unpickled(p, pc) ==
    IF cache.data = Torn THEN [ps[p] EXCEPT !.pc = "failed"]
    ELSE [ps[p] EXCEPT !.pc = pc, !.d = cache.data, !.i = 1]

Unpickle(p) ==
    /\ At(p, "unpickle")
    /\ Becomes(p, Unpickled(p, "deps"))
    /\ UNCHANGED <<now, files, cache>>

(* deps_clean, one file: os.stat raises when it is not there.              *)
CheckDep(p) ==
    LET f == Depends[ps[p].i]
        next == [Asked(p, f) EXCEPT !.i = @ + 1,
                                    !.pc = IF ps[p].i = Len(Depends) THEN "loaded" ELSE "deps"]
    IN  /\ At(p, "deps")
        /\ Becomes(p, IF ps[p].d.deps[f] = 0 THEN [next EXCEPT !.mt = ps[p].mt]
                      ELSE IF ps[p].mt[f] = 0 /\ files[f].ver = 0
                      THEN [ps[p] EXCEPT !.pc = "failed"]
                      ELSE IF Mtime(p, f) > ps[p].d.deps[f] THEN Parsing(Asked(p, f))
                      ELSE next)
        /\ UNCHANGED <<now, files, cache>>

Marking == [class |-> "mark class", inc |-> "mark inc"]
Reading == [class |-> "read class", bb |-> "read bb", inc |-> "read inc"]

(* Mutant: the time of reading is noted, not the file's.                   *)
MarkNow(p, f) ==
    /\ At(p, Marking[f]) /\ files[f].ver # 0
    /\ Becomes(p, [Asked(p, f) EXCEPT !.pc = Reading[f], !.d.deps[f] = now])
    /\ UNCHANGED <<now, files, cache>>

(* BBHandler and ConfHandler open an included file, note it in __depends   *)
(* and then read it.                                                       *)
Mark(p, f) ==
    /\ At(p, Marking[f]) /\ files[f].ver # 0
    /\ Becomes(p, [Asked(p, f) EXCEPT !.pc = Reading[f], !.d.deps[f] = Mtime(p, f)])
    /\ UNCHANGED <<now, files, cache>>

(* Mutant: a file that is not there is noted all the same.                 *)
SkipIncludeNoted(p) ==
    /\ At(p, "mark inc") /\ files["inc"].ver = 0
    /\ Becomes(p, [ps[p] EXCEPT !.pc = "open", !.d.deps["inc"] = now])
    /\ UNCHANGED <<now, files, cache>>

(* An optional file that is not there is left out, and not noted.          *)
SkipInclude(p) ==
    /\ At(p, "mark inc") /\ files["inc"].ver = 0
    /\ Becomes(p, [ps[p] EXCEPT !.pc = "open"])
    /\ UNCHANGED <<now, files, cache>>

AfterRead(f) == [class |-> "read bb", bb |-> "mark inc", inc |-> "open"][f]

(* A recipe may not parse, or ask to be skipped: nothing is cached.        *)
Read(p, f) ==
    /\ At(p, Reading[f])
    /\ Becomes(p, IF f = "bb" /\ files[f].ver \in session.broken
                  THEN [ps[p] EXCEPT !.pc = "failed"]
                  ELSE [ps[p] EXCEPT !.pc = AfterRead(f), !.d.ver[f] = files[f].ver])
    /\ UNCHANGED <<now, files, cache>>

(* DataSmartPackage.commit empties the file, in place, and then writes it. *)
OpenCache(p) ==
    /\ At(p, "open")
    /\ cache' = [at |-> now, data |-> Torn]
    /\ Becomes(p, [ps[p] EXCEPT !.pc = "dump"])
    /\ UNCHANGED <<now, files>>

Dump(p) ==
    /\ At(p, "dump")
    /\ cache' = [at |-> now, data |-> ps[p].d]
    /\ Becomes(p, [ps[p] EXCEPT !.pc = "loaded"])
    /\ UNCHANGED <<now, files>>

(* DataDictCache.__getitem__: what is built is what the cache has by then. *)
Use(p) ==
    /\ At(p, "loaded")
    /\ Becomes(p, Unpickled(p, "using"))
    /\ UNCHANGED <<now, files, cache>>

(* The shell's reparse asks again for the recipe's mtime, not the others'. *)
Reparse(p) ==
    /\ May("shell") /\ ps[p].pc \in {"loaded", "using"}
    /\ Becomes(p, [ps[p] EXCEPT !.pc = "stat", !.mt["bb"] = files["bb"].at,
                                !.seen["bb"] = files["bb"].ver])
    /\ UNCHANGED <<now, files, cache>>

Load(p) ==
    \/ StatCache(p) \/ Unpickle(p) \/ CheckDep(p)
    \/ \E f \in {"class", "inc"} : Mark(p, f)
    \/ SkipInclude(p)
    \/ \E f \in {"class", "bb", "inc"} : Read(p, f)
    \/ OpenCache(p) \/ Dump(p)

(* The process ends, or is killed, or cannot write the cache.              *)
Ends(p) ==
    /\ Becomes(p, Idle)
    /\ UNCHANGED <<now, files, cache>>

DumpFails(p) ==
    /\ At(p, "dump")
    /\ Becomes(p, [ps[p] EXCEPT !.pc = "failed"])
    /\ UNCHANGED <<now, files, cache>>

---------------------------------------------------------------------------
(* People.                                                                 *)

Quiet == \A p \in Process : ps[p].pc \in {"idle", "loaded", "using", "failed"}

(* Unless people are "quick", nothing else happened in the same second.    *)
OwnSecond == now > cache.at /\ \A f \in File : now > files[f].at

Edit(f) ==
    /\ f \in session.edits /\ files[f].ver < MaxVersion
    /\ May("during") \/ Quiet
    /\ May("quick") \/ OwnSecond
    /\ files[f].ver # 0 \/ files[f].at = 0
    /\ files' = [files EXCEPT ![f] = [at |-> now, ver |-> @.ver + 1]]
    /\ UNCHANGED <<now, cache, ps>>

RemoveInclude ==
    /\ session.removes /\ Quiet /\ files["inc"].ver # 0
    /\ files' = [files EXCEPT !["inc"].ver = 0]
    /\ UNCHANGED <<now, cache, ps>>

Tick ==
    /\ now < MaxTime
    /\ now' = now + 1
    /\ UNCHANGED <<files, cache, ps>>

CacheInit ==
    /\ now = 1
    /\ files = [f \in File |-> IF f = "inc" /\ session.absent THEN [at |-> 0, ver |-> 0]
                               ELSE [at |-> 1, ver |-> 1]]
    /\ cache = [at |-> 0, data |-> None]
    /\ ps = [p \in Process |-> Idle]
=============================================================================
