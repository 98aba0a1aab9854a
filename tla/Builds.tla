------------------------------- MODULE Builds -------------------------------
(***************************************************************************)
(* Commands of bitbake: each process loads the recipe, through the cache   *)
(* it shares with the others, and fetches what the recipe's metadata asks  *)
(* for into the directory it shares with the others.  It may be killed     *)
(* anywhere, lose a connection, or find the disk full; then somebody runs  *)
(* it again.                                                               *)
(***************************************************************************)
EXTENDS RecipeCache, Fetch, Functions

CONSTANT MaxFaults      \* how often something goes wrong in one behaviour

ASSUME FaultsAssumption == MaxFaults \in Nat

VARIABLE faults         \* how often something has gone wrong

vars == <<session, faults, now, files, cache, ps, dl, md5, repo, job>>

StartCommand(p) == Start(p) /\ UNCHANGED fetchVars

LoadRecipe(p) == Load(p) /\ UNCHANGED fetchVars

(* The task is executed on what Use takes from the cache.                  *)
Build(p) ==
    /\ Use(p)
    /\ IF ps'[p].pc = "using" THEN BeginFetch(p, session.uris[ps'[p].d.ver["bb"]])
       ELSE UNCHANGED fetchVars

DoFetch(p) == FetchStep(p) /\ UNCHANGED cacheVars

(* The shell reparses between commands.                                    *)
ReparseRecipe(p) == job[p].pc \in {"none", "ok", "failed"} /\ Reparse(p) /\ Forget(p)

(* A failed load or fetch ends the command; so does an exception nobody    *)
(* catches.                                                                *)
EndCommand(p) ==
    /\ ps[p].pc = "failed" \/ job[p].pc \in {"ok", "failed", "crashed"}
    /\ Ends(p) /\ Forget(p)

Kill(p) == ps[p].pc # "idle" /\ Ends(p) /\ Forget(p)

Fault(event) ==
    /\ May(event) /\ faults < MaxFaults
    /\ faults' = faults + 1

Command(p) ==
    \/ StartCommand(p) \/ LoadRecipe(p) \/ Build(p) \/ DoFetch(p) \/ EndCommand(p)

People ==
    /\ Tick \/ RemoveInclude \/ \E f \in File : Edit(f)
    /\ UNCHANGED fetchVars

Breaks(p) ==
    \/ Fault("kill") /\ Kill(p)
    \/ Fault("net") /\ FetchBreaks(p) /\ UNCHANGED cacheVars
    \/ Fault("disk") /\ TarFails(p) /\ UNCHANGED cacheVars
    \/ Fault("disk") /\ DumpFails(p) /\ UNCHANGED fetchVars

Next ==
    /\ \/ \E p \in Process : Command(p) /\ UNCHANGED faults
       \/ \E p \in Process : ReparseRecipe(p) /\ UNCHANGED faults
       \/ People /\ UNCHANGED faults
       \/ \E p \in Process : Breaks(p)
    /\ UNCHANGED session

Init ==
    /\ session \in Sessions
    /\ faults = 0
    /\ CacheInit /\ FetchInit

(* A process that runs goes on, and somebody always starts the command     *)
(* again.                                                                  *)
Spec ==
    /\ Init /\ [][Next]_vars
    /\ \A p \in Process : WF_vars(Command(p) /\ UNCHANGED <<session, faults>>)

---------------------------------------------------------------------------
Sources == DOMAIN session.src

TypeOK ==
    /\ session \in Sessions /\ faults \in 0..MaxFaults
    /\ now \in 1..MaxTime
    /\ files \in [File -> [at : 0..now, ver : 0..MaxVersion]]
    /\ cache.at \in 0..now /\ cache.data \in Metadata \union {None, Torn}
    /\ cache.data = None <=> cache.at = 0
    /\ \A p \in Process :
        /\ ps[p].mt \in [File -> 0..now] /\ ps[p].seen \in [File -> 0..MaxVersion]
        /\ ps[p].cfg \in Metadata /\ ps[p].d \in Metadata
        /\ ps[p].pc = "deps" => ps[p].i \in DOMAIN Depends
        /\ job[p].pc # "none" => ps[p].pc = "using"
        /\ job[p].pc \notin {"none", "ok"} => job[p].todo # {}
        /\ job[p].uris \in Seq(Sources) /\ job[p].todo \subseteq DOMAIN job[p].uris
    /\ dl \in [Base -> Content \union {Nothing}]
    /\ md5 \in [Base -> BOOLEAN]
    /\ repo \in [Base -> {"none", "torn", "whole"}]

---------------------------------------------------------------------------
(* The recipe cache.                                                       *)

(* What a process builds is at least as new as what was there when it      *)
(* started, or when the shell reparsed the recipe: for what bitbake.conf   *)
(* includes, the classes, an included file that was there when the recipe  *)
(* was parsed, and the recipe itself.                                      *)
(*                                                                         *)
(* An edit in the second in which the recipe is parsed is missed, and so   *)
(* is one of the recipe while it is parsed; bitbake.conf is not watched at *)
(* all.  Another process brings its own mtimes and configuration into the  *)
(* cache: those of a shell may be older than this process.                 *)
Watched(d) ==
    {"local", "class"} \union (IF d.ver["inc"] # 0 THEN {"inc"} ELSE {})
        \union (IF May("during") THEN {} ELSE {"bb"})

Dated == ~May("quick") /\ (Alone \/ (~May("during") /\ ~May("shell")))

NeverStale ==
    \A p \in Process :
        ps[p].pc = "using" /\ Dated
            => \A f \in Watched(ps[p].d) : ps[p].d.ver[f] >= ps[p].seen[f]

(* The cache is used: a recipe is parsed only when there is no cached one  *)
(* or something it depends on has another content than it was parsed from. *)
Outdated(d) == \E f \in File : d.ver[f] # files[f].ver

ParsedOnlyIfChanged ==
    \A p \in Process :
        ps[p].pc = "mark class" /\ Alone /\ ~May("during") /\ ~May("shell")
            => cache.data \in {None, Torn} \/ Outdated(cache.data)

(* Loading fails only on a recipe that did not parse, where an included    *)
(* file was removed, and where the cached recipe is torn, since a process  *)
(* was killed or is at it.                                                 *)
LoadFailsForAReason ==
    \A p \in Process :
        ps[p].pc = "failed" =>
            \/ \E v \in session.broken : v \in ps[p].seen["bb"]..files["bb"].ver
            \/ session.removes /\ files["inc"].ver = 0
            \/ cache.data = Torn /\ faults > 0
            \/ ~Alone

---------------------------------------------------------------------------
(* The fetchers.                                                           *)

WgetSources == {s \in Sources : session.src[s].kind = "wget"}
Sharing(s) == {t \in Sources : session.src[t].base = session.src[s].base}
Honest(s) == \A place \in DOMAIN session.src[s].has :
                session.src[s].has[place] \in {"file", "nothing"}

(* A file whose servers have nothing else under its name, which no other   *)
(* source calls by that name.                                              *)
Plain(s) == Honest(s) /\ Sharing(s) = {s}

(* With a sum, wget's file is right from the moment its .md5 is there,     *)
(* whatever was lost, killed or resumed; without one, if no server has     *)
(* another file and no other source one of its name.                       *)
Verified(s) == session.src[s].sum \/ Plain(s)

MarkedIsVerified ==
    \A s \in WgetSources :
        md5[session.src[s].base] /\ (\A t \in Sharing(s) : Verified(t))
            => \E t \in Sharing(s) : dl[session.src[s].base] = Whole(t)

(* When do_fetch succeeds, all files are there, whole and the ones asked   *)
(* for.  For the tarballs of the other methods this takes a process that   *)
(* is not killed, a disk that does not get full, and a stash that is       *)
(* reached or not used.                                                    *)
Dependable(s) ==
    /\ Sharing(s) = {s}
    /\ \A t \in Sources \ {s} : ~Honest(t) => session.src[s].base \notin session.below[session.src[t].base]
    /\ IF s \in WgetSources THEN Verified(s)
       ELSE /\ Honest(s) /\ ~May("kill") /\ ~May("disk")
            /\ May("net") => session.src[s].has["stash"] = "nothing"

OkMeansRight ==
    \A p \in Process :
        job[p].pc = "ok" =>
            \A s \in Range(job[p].uris) : Dependable(s) => dl[session.src[s].base] = Whole(s)

(* A download that some server has completes, however often the process is *)
(* killed or the connection lost, if no server has another file of that    *)
(* name.  What can come in between is in the recipe cache: a process       *)
(* killed while it writes a recipe leaves one that no later command can    *)
(* load, since it is newer than the recipe.                                *)
Obtainable(s) ==
    /\ s \in WgetSources /\ Plain(s)
    /\ \E i \in DOMAIN Places : session.src[s].has[Places[i]] = "file"
    /\ \A v \in 1..MaxVersion : Range(session.uris[v]) = {s}
IsMarked(s) == s \in Sources /\ md5[session.src[s].base]

DownloadsComplete == \A s \in Source : [](Obtainable(s) => <>[](IsMarked(s) \/ cache.data = Torn))
=============================================================================
