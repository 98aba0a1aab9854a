------------------------------ MODULE Sessions ------------------------------
(***************************************************************************)
(* What a behaviour of the recipe cache and the fetchers starts from: who  *)
(* runs bitbake, what a recipe's versions ask to be fetched, what the      *)
(* servers have, and what may go wrong.  A behaviour picks one of Sessions *)
(* and keeps it.                                                           *)
(***************************************************************************)
EXTENDS Naturals, Sequences

CONSTANTS
    Process,        \* bitbake processes on one TMPDIR and one DL_DIR
    Source,         \* entries of SRC_URI
    Base,           \* names of files in DL_DIR
    MaxVersion,     \* a file's last version
    Sessions        \* see SessionType

(* The files a recipe is parsed from: bitbake.conf, a file it includes, a  *)
(* class, the recipe and a file that one includes.                         *)
File == {"conf", "local", "class", "bb", "inc"}

(* Where wget looks, in this order.                                        *)
Places == <<"premirror", "own", "mirror">>

(* src: each source's method, whether its MD5SUM is given, its file, and   *)
(* what the places have: the file, nothing, another file of that name, or  *)
(* a page that is saved under another name; stash is the CVS_TARBALL_STASH *)
(* of tarballs made earlier.  uris: SRC_URI in each version of the recipe. *)
(* below: the files that `rm <name>*` removes.  Only a process that is     *)
(* alone fetches.                                                          *)
SessionType(s) ==
    /\ s.procs \in SUBSET Process
    /\ s.env \subseteq {"during", "quick", "shell", "kill", "disk", "net"}
    /\ s.edits \subseteq File /\ s.removes \in BOOLEAN /\ s.absent \in BOOLEAN
    /\ s.broken \subseteq 1..MaxVersion
    /\ \E src \in SUBSET Source :
        s.src \in [src -> [kind : {"cvs", "git", "svn", "wget"}, sum : BOOLEAN, base : Base,
                           has : [{"premirror", "own", "mirror", "stash"}
                                    -> {"file", "nothing", "other", "page"}]]]
    /\ DOMAIN s.uris = 1..MaxVersion
    /\ \A v \in 1..MaxVersion : s.uris[v] \in Seq(DOMAIN s.src)
    /\ (\E p \in Process : s.procs = {p}) \/ (\A v \in 1..MaxVersion : s.uris[v] = <<>>)
    /\ s.below \in [Base -> SUBSET Base] /\ \A b \in Base : b \in s.below[b]

ASSUME SessionsAssumption ==
    /\ MaxVersion \in Nat \ {0}
    /\ \A s \in Sessions : SessionType(s)

VARIABLE session    \* the session of this behaviour

May(event) == event \in session.env
Alone == \E p \in Process : session.procs = {p}
=============================================================================
