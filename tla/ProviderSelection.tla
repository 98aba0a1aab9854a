------------------------- MODULE ProviderSelection -------------------------
(***************************************************************************)
(* Which of a package's recipes is used: findBestProvider (bin/bitbake)    *)
(* and the comparison of versions it relies on (bb.utils).                 *)
(*                                                                         *)
(* A version is the sequence of what its text is made of: numbers, words   *)
(* and the characters between them (Dot).  Numbers and words are naturals  *)
(* above Dot in the order Python 2 has them, every number before every     *)
(* word.  What is known of a file is a record: its collection's priority,  *)
(* its DEFAULT_PREFERENCE (dp), its PV and PR.                             *)
(***************************************************************************)
EXTENDS Integers, Sequences

Dot == 0
Version == Seq(Nat)
FileType == [priority : Int, dp : Int, pv : Version, pr : Version]

(* explode_version skips what is neither digit nor letter; a list that is  *)
(* at its end gives None, which is less than anything.                     *)
ExplodeOne(r, x) == IF x = Dot THEN r ELSE Append(r, x)

Explode ==
    [v \in Version |->
        LET r[i \in 0 .. Len(v)] == IF i = 0 THEN <<>> ELSE ExplodeOne(r[i - 1], v[i])
        IN  r[Len(v)]]

Piece(va, i) == IF i <= Len(va) THEN va[i] ELSE Dot

(* The sign of the first difference.                                       *)
VercmpPart(a, b) ==
    LET va == Explode[a]
        vb == Explode[b]
        differ == {i \in 1 .. Len(va) + Len(vb) : Piece(va, i) # Piece(vb, i)}
        first == CHOOSE i \in differ : \A j \in differ : i <= j
    IN  IF differ = {} THEN 0
        ELSE IF Piece(va, first) > Piece(vb, first) THEN 1 ELSE -1

Vercmp(a, b) ==
    IF VercmpPart(a.pv, b.pv) # 0 THEN VercmpPart(a.pv, b.pv) ELSE VercmpPart(a.pr, b.pr)

(* files is a list and about[f] what is known of f; a set of positions of  *)
(* files stands for the files there, in the order of the list.             *)
First(at) == CHOOSE i \in at : \A j \in at : i <= j

(* The files of the highest priority.                                      *)
TopPriority(files, at, about) ==
    {i \in at : \A j \in at : about[files[j]].priority <= about[files[i]].priority}

(* PREFERRED_VERSION names a PV, or a PV and a PR (no wanted PR is <<>>).  *)
Wanted(file, want) == want.pv = file.pv /\ want.pr \in {file.pr, <<>>}

(* Mutant: a later version is taken whatever its DEFAULT_PREFERENCE.       *)
ReplacesOnVersion(latest, file) ==
    Vercmp(latest, file) < 0 \/ file.dp > latest.dp

(* Does a file replace the latest so far?                                  *)
Replaces(latest, file) ==
    \/ latest.dp = file.dp /\ Vercmp(latest, file) < 0
    \/ file.dp > latest.dp

(* The loop over the files: the position of the latest so far, 0 for None. *)
LatestOf(files, at, about, l, i) ==
    IF i \in at /\ (l = 0 \/ Replaces(about[files[l]], about[files[i]])) THEN i ELSE l

Latest(files, at, about) ==
    LET latest[i \in 0 .. Len(files)] ==
            IF i = 0 THEN 0 ELSE LatestOf(files, at, about, latest[i - 1], i)
    IN  latest[Len(files)]

(* findBestProvider's preferred_file among the files at the positions; want *)
(* is {} when no version is preferred.                                      *)
FindBestProvider(files, at, about, want) ==
    LET preferred == {i \in at : \E v \in want : Wanted(about[files[i]], v)}
    IN  IF preferred # {} THEN files[First(TopPriority(files, preferred, about))]
        ELSE files[Latest(files, TopPriority(files, at, about), about)]
=============================================================================
