------------------------------- MODULE Fetch -------------------------------
(***************************************************************************)
(* do_fetch and the fetchers of bb.fetch: wget, cvs, svn and git.          *)
(*                                                                         *)
(* wget takes a file as complete when its .md5 is there, and resumes one   *)
(* that is there without.  The others take any tarball of the right name   *)
(* as complete.                                                            *)
(*                                                                         *)
(* One process fetches into one DL_DIR, see SessionType: nothing in it is  *)
(* locked, and a second wget that resumes what a first one is writing      *)
(* appends to it.                                                          *)
(*                                                                         *)
(* External, and modelled from how the fetchers use them: the programs     *)
(* wget, tar, cvs, svn and git, which may fail half way.                   *)
(***************************************************************************)
EXTENDS Sessions

CONSTANTS
    Nothing,        \* no such file
    Another         \* what a server has under the name of the file we want

VARIABLES
    dl,             \* DL_DIR: what each file is made of, and whether it is whole
    md5,            \* the .md5 files
    repo,           \* git's tarball of each repository
    job             \* each process's do_fetch

fetchVars == <<dl, md5, repo, job>>

Content == [of : SUBSET (Source \union {Another}), whole : BOOLEAN]
ASSUME FetchAssumption == Nothing \notin Content

Whole(x) == [of |-> {x}, whole |-> TRUE]
Begun(x) == [of |-> {x}, whole |-> FALSE]

(* pc: where the job is; uris: its sources; todo: the positions of those   *)
(* not dealt with yet; place: the number of the place wget is at; resume:  *)
(* whether it continues a file.                                            *)
NoJob == [pc |-> "none", uris |-> <<>>, todo |-> {}, place |-> 1, resume |-> FALSE]

(* bb.fetch.go: each method deals with its own sources, in turn.           *)
Method == [cvs |-> 1, git |-> 2, svn |-> 3, wget |-> 4]
MethodAt(uris, i) == Method[session.src[uris[i]].kind]

First(uris, todo) ==
    CHOOSE i \in todo : \A j \in todo :
        \/ MethodAt(uris, i) < MethodAt(uris, j)
        \/ MethodAt(uris, i) = MethodAt(uris, j) /\ i <= j

Current(p) == First(job[p].uris, job[p].todo)
This(p) == job[p].uris[Current(p)]
Kind(p) == session.src[This(p)].kind
Name(p) == session.src[This(p)].base

(* Mutant: nothing left is not noticed.                                    *)
ContinueOn(p, todo) == [job[p] EXCEPT !.pc = "source", !.todo = todo, !.place = 1]

Continue(p, todo) ==
    [job[p] EXCEPT !.pc = IF todo = {} THEN "ok" ELSE "source", !.todo = todo, !.place = 1]

BeginFetch(p, uris) ==
    /\ job' = [job EXCEPT ![p] = [Continue(p, DOMAIN uris) EXCEPT !.uris = uris]]
    /\ UNCHANGED <<dl, md5, repo>>

Done(p) == job' = [job EXCEPT ![p] = Continue(p, job[p].todo \ {Current(p)})]
Goes(p, pc) == job' = [job EXCEPT ![p].pc = pc]
JobAt(p, pc) == job[p].pc = pc

(* Mutant: a file that is there is taken as complete.                      *)
IsCompleteByFile(p) == dl[Name(p)] # Nothing

(* The test that a source needs nothing.                                   *)
IsComplete(p) == IF Kind(p) = "wget" THEN md5[Name(p)] ELSE dl[Name(p)] # Nothing

Consider(p) ==
    /\ JobAt(p, "source")
    /\ IF IsComplete(p) THEN Done(p) ELSE Goes(p, IF Kind(p) = "git" THEN "checkout" ELSE "try")
    /\ UNCHANGED <<dl, md5, repo>>

---------------------------------------------------------------------------
(* Downloading with wget: from one place after the other, or from the      *)
(* stash of tarballs that cvs and svn look at first.                       *)

Place(p) == IF Kind(p) = "wget" THEN Places[job[p].place] ELSE "stash"
Has(p) == session.src[This(p)].has[Place(p)]
Served(p) == IF Has(p) = "file" THEN This(p) ELSE Another

(* The next place; after the last there is no more to try.                 *)
TryNext(p) ==
    \/ Kind(p) # "wget" /\ Goes(p, "checkout")
    \/ Kind(p) = "wget" /\ job[p].place = Len(Places) /\ Goes(p, "failed")
    \/ /\ Kind(p) = "wget" /\ job[p].place # Len(Places)
       /\ job' = [job EXCEPT ![p].pc = "try", ![p].place = @ + 1]

(* fetch_uri resumes a file that is there, with wget -c.                   *)
Try(p) ==
    /\ JobAt(p, "try")
    /\ job' = [job EXCEPT ![p].pc = "wget",
                          ![p].resume = Kind(p) = "wget" /\ dl[Name(p)] # Nothing]
    /\ UNCHANGED <<dl, md5, repo>>

(* wget finds nothing; or a page, which it saves under that page's name.   *)
WgetMisses(p) ==
    /\ JobAt(p, "wget") /\ Has(p) \in {"nothing", "page"}
    /\ IF Has(p) = "page" THEN Goes(p, "check") ELSE TryNext(p)
    /\ UNCHANGED <<dl, md5, repo>>

(* Some of the file is there, or nothing more than there was.  wget -c     *)
(* appends to what it finds, unless that is the server's file.             *)
With(c, x, whole) == [of |-> c.of \union {x}, whole |-> whole]

WgetBegins(p) ==
    LET c == dl[Name(p)]
        served == Served(p)
        begun == IF ~job[p].resume THEN {Begun(served)}
                 ELSE IF c = Whole(served) THEN {c}
                 ELSE {c, With(c, served, FALSE)}
    IN  /\ JobAt(p, "wget") /\ Has(p) \in {"file", "other"}
        /\ Goes(p, "get")
        /\ \E n \in begun : dl' = [dl EXCEPT ![Name(p)] = n]
        /\ UNCHANGED <<md5, repo>>

(* A whole file may be as long as the server's: there is nothing to get.   *)
WgetSucceeds(p) ==
    /\ JobAt(p, "get")
    /\ dl' = [dl EXCEPT ![Name(p)] = IF @.whole THEN @ ELSE With(@, Served(p), TRUE)]
    /\ Goes(p, "check")
    /\ UNCHANGED <<md5, repo>>

WgetBreaks(p) ==
    /\ JobAt(p, "get")
    /\ TryNext(p)
    /\ UNCHANGED <<dl, md5, repo>>

(* Mutant: the .md5 is written before the sum is compared.                 *)
CheckMarksFirst(p) ==
    LET s == This(p)
        bad == dl[Name(p)] = Nothing
        wrong == session.src[s].sum /\ dl[Name(p)] # Whole(s)
    IN  /\ JobAt(p, "check")
        /\ CASE Kind(p) # "wget" -> Done(p) /\ UNCHANGED <<dl, md5>>
             [] Kind(p) = "wget" /\ bad -> TryNext(p) /\ UNCHANGED <<dl, md5>>
             [] Kind(p) = "wget" /\ ~bad
                -> /\ IF wrong THEN Goes(p, "crashed") ELSE Done(p)
                   /\ md5' = [md5 EXCEPT ![Name(p)] = TRUE] /\ UNCHANGED dl
        /\ UNCHANGED repo

(* wget's exit status is 0.  A file that is not there was saved under      *)
(* another name, and everything that begins with its name is removed; one  *)
(* with the wrong sum raises what base_do_fetch does not catch; any other  *)
(* gets its .md5.  The stash's tarball is taken as it is.                  *)
Check(p) ==
    LET s == This(p)
        bad == dl[Name(p)] = Nothing
        wrong == session.src[s].sum /\ dl[Name(p)] # Whole(s)
    IN  /\ JobAt(p, "check")
        /\ CASE Kind(p) # "wget" -> Done(p) /\ UNCHANGED <<dl, md5>>
             [] Kind(p) = "wget" /\ bad
                -> /\ dl' = [b \in Base |-> IF b \in session.below[Name(p)] THEN Nothing ELSE dl[b]]
                   /\ md5' = [b \in Base |-> md5[b] /\ b \notin session.below[Name(p)]]
                   /\ TryNext(p)
             [] Kind(p) = "wget" /\ ~bad /\ wrong -> Goes(p, "crashed") /\ UNCHANGED <<dl, md5>>
             [] Kind(p) = "wget" /\ ~bad /\ ~wrong
                -> Done(p) /\ md5' = [md5 EXCEPT ![Name(p)] = TRUE] /\ UNCHANGED dl
        /\ UNCHANGED repo

---------------------------------------------------------------------------
(* Checking out and making a tarball.                                      *)

(* git unpacks its tarball of the repository or clones it, gets what is    *)
(* new, and makes the tarball again; one that is torn ends the fetch.      *)
(* All tags of a repository have one tarball (git.py:98); here each source *)
(* has its own, for no session asks for two tags of one repository.        *)
Checkout(p) ==
    /\ JobAt(p, "checkout")
    /\ IF Kind(p) = "git"
       THEN IF repo[Name(p)] = "torn" THEN Goes(p, "failed") /\ UNCHANGED repo
            ELSE Goes(p, "repository") /\ repo' = [repo EXCEPT ![Name(p)] = "torn"]
       ELSE Goes(p, "pack") /\ UNCHANGED repo
    /\ UNCHANGED <<dl, md5>>

CheckoutFails(p) ==
    /\ JobAt(p, "checkout")
    /\ Goes(p, "failed")
    /\ UNCHANGED <<dl, md5, repo>>

RepositoryPacked(p) ==
    /\ JobAt(p, "repository")
    /\ repo' = [repo EXCEPT ![Name(p)] = "whole"]
    /\ Goes(p, "pack")
    /\ UNCHANGED <<dl, md5>>

Pack(p) ==
    /\ JobAt(p, "pack")
    /\ dl' = [dl EXCEPT ![Name(p)] = Begun(This(p))]
    /\ Goes(p, "tar")
    /\ UNCHANGED <<md5, repo>>

TarSucceeds(p) ==
    /\ JobAt(p, "tar")
    /\ dl' = [dl EXCEPT ![Name(p)] = Whole(This(p))]
    /\ Done(p)
    /\ UNCHANGED <<md5, repo>>

(* tar leaves what it had written.  git says so; cvs and svn go on, after  *)
(* removing a file of that name from another directory.                    *)
TarFails(p) ==
    /\ \/ JobAt(p, "tar") /\ IF Kind(p) = "git" THEN Goes(p, "failed") ELSE Done(p)
       \/ JobAt(p, "repository") /\ Goes(p, "failed")
    /\ UNCHANGED <<dl, md5, repo>>

FetchStep(p) ==
    \/ Consider(p) \/ Try(p) \/ WgetMisses(p) \/ WgetBegins(p) \/ WgetSucceeds(p) \/ Check(p)
    \/ Checkout(p) \/ RepositoryPacked(p) \/ Pack(p) \/ TarSucceeds(p)

FetchBreaks(p) == WgetBreaks(p) \/ CheckoutFails(p)

(* The process is gone, or its command is over.                            *)
Forget(p) ==
    /\ job' = [job EXCEPT ![p] = NoJob]
    /\ UNCHANGED <<dl, md5, repo>>

FetchInit ==
    /\ dl = [b \in Base |-> Nothing]
    /\ md5 = [b \in Base |-> FALSE]
    /\ repo = [b \in Base |-> "none"]
    /\ job = [p \in Process |-> NoJob]
=============================================================================
