------------------------------ MODULE MCBuilds ------------------------------
EXTENDS Builds, TLC
CONSTANTS p1, p2, a, b, x, y, nothing, another, none, torn

Only(has) == [place \in {"premirror", "own", "mirror", "stash"} |->
                IF place \in DOMAIN has THEN has[place] ELSE "nothing"]
Src(kind, sum, base, has) == [kind |-> kind, sum |-> sum, base |-> base, has |-> Only(has)]
Own == "own" :> "file"

(* A session in which nothing happens.                                     *)
Still == [
    procs |-> {p1}, env |-> {}, edits |-> {}, removes |-> FALSE, absent |-> FALSE, broken |-> {},
    src |-> a :> Src("wget", TRUE, x, Own), uris |-> [v \in 1..MaxVersion |-> <<>>],
    below |-> x :> {x} @@ y :> {y}]

(* The cache.                                                              *)
Edited == [Still EXCEPT !.edits = {"conf", "local", "class", "bb", "inc"}, !.broken = {2}]
EditedMeanwhile == [Edited EXCEPT !.env = {"during"}, !.edits = {"class", "bb", "inc"}, !.broken = {}]
EditedAtOnce == [Edited EXCEPT !.env = {"quick"}, !.edits = {"class", "bb"}]
Includes == [Still EXCEPT !.edits = {"inc"}, !.absent = TRUE, !.removes = TRUE]
Shell == [Still EXCEPT !.env = {"shell"}, !.edits = {"class", "bb"}]
Killed == [Still EXCEPT !.env = {"kill", "disk"}, !.edits = {"bb"}]
TwoBuilds == [Still EXCEPT !.procs = {p1, p2}, !.edits = {"class", "bb"}]

TwoBuildsMeanwhile == [TwoBuilds EXCEPT !.env = {"during"}, !.edits = {"class"}]

(* Downloads.                                                              *)
All(uris) == [v \in 1..MaxVersion |-> uris]
Honestly == [Still EXCEPT
    !.env = {"kill", "net"}, !.uris = All(<<a>>),
    !.src = a :> Src("wget", TRUE, x, Own @@ "mirror" :> "file")]
NoSum == [Honestly EXCEPT !.src = a :> Src("wget", FALSE, x, Own @@ "premirror" :> "file")]
Repacked == [Honestly EXCEPT !.src = a :> Src("wget", TRUE, x, Own @@ "mirror" :> "other")]
Redirected == [Honestly EXCEPT
    !.uris = All(<<b, a>>), !.below = x :> {x, y} @@ y :> {y},
    !.src = a :> Src("wget", TRUE, x, "own" :> "page" @@ "mirror" :> "file")
            @@ b :> Src("wget", FALSE, y, Own)]
Renewed == [Honestly EXCEPT
    !.edits = {"bb"}, !.uris = [v \in 1..MaxVersion |-> IF v = 1 THEN <<a>> ELSE <<b>>],
    !.src = a :> Src("wget", TRUE, x, Own) @@ b :> Src("wget", TRUE, x, Own)]
RenewedNoSum == [Renewed EXCEPT !.src[a].sum = FALSE, !.src[b].sum = FALSE]
NoSumRepacked == [Repacked EXCEPT !.src[a].sum = FALSE]
NoSumRedirected == [NoSum EXCEPT !.src[a].has["mirror"] = "page"]

(* Checkouts.                                                              *)
Checkouts == [Still EXCEPT
    !.env = {"net"}, !.uris = All(<<b, a>>),
    !.src = a :> Src("cvs", FALSE, x, <<>>) @@ b :> Src("git", FALSE, y, <<>>)]
CheckoutsKilled == [Checkouts EXCEPT !.env = {"kill"}]
CheckoutsFull == [Checkouts EXCEPT !.env = {"disk"}]
Stashed == [Checkouts EXCEPT !.src[a] = Src("svn", FALSE, x, "stash" :> "file")]
StashMoved == [Checkouts EXCEPT !.env = {}, !.src[a] = Src("svn", FALSE, x, "stash" :> "page")]

CacheSessions == {Edited, EditedMeanwhile, EditedAtOnce, Includes, Shell, Killed, TwoBuilds,
                  TwoBuildsMeanwhile}
FetchSessions == {Honestly, NoSum, Repacked, Redirected, Renewed, RenewedNoSum, NoSumRepacked, NoSumRedirected,
                  Checkouts, CheckoutsKilled, CheckoutsFull, Stashed, StashMoved}
AllSessions == CacheSessions \union FetchSessions
=============================================================================
