----------------------------- MODULE MCTaskExec -----------------------------
(***************************************************************************)
(* TaskExec on the first tasks of classes/base.bbclass: do_configure runs  *)
(* after do_unpack and do_patch, do_patch after do_unpack, do_unpack after *)
(* do_fetch, which has `nostamp` like do_clean.  do_unpack and do_fetch    *)
(* are reached by more than one path.                                      *)
(***************************************************************************)
EXTENDS TaskExec

CONSTANTS fetch, unpack, patch, configure, clean, typo

BaseTasks == {fetch, unpack, patch, configure, clean}

BaseParents ==
    [t \in BaseTasks |->
        CASE t = unpack -> <<fetch>>
          [] t = patch -> <<unpack>>
          [] t = configure -> <<unpack, patch>>
          [] OTHER -> <<>>]

BaseNoStamp == {fetch, clean}

(* bitbake without -f; bitbake -f; the shell, without CACHE, in both ways. *)
PlainSession == [mayForce |-> FALSE, keepsData |-> FALSE, instant |-> TRUE,
                 killedIn |-> {"walk", "func"}]
ForcedSession == [mayForce |-> TRUE, keepsData |-> FALSE, instant |-> FALSE,
                  killedIn |-> {"func"}]
ShellSession == [mayForce |-> FALSE, keepsData |-> TRUE, instant |-> FALSE,
                 killedIn |-> {"walk", "func", "wiped"}]
ForcedShellSession == [ShellSession EXCEPT !.mayForce = TRUE, !.killedIn = {"func"}]

AllSessions == {PlainSession, ForcedSession, ShellSession, ForcedShellSession}
ForcedSessions == {ForcedSession}
=============================================================================
