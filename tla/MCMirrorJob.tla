----------------------------- MODULE MCMirrorJob -----------------------------
(* Instances of MirrorJob for TLC.                                           *)
EXTENDS MirrorJob

Opt(watching, remove, overwrite, skip, retriable) ==
  [isWatch |-> watching, isRemove |-> remove, isOverwrite |-> overwrite,
   skipErrors |-> skip, isRetriable |-> retriable]

\* mc mirror --watch --overwrite, without and with --remove.
WatchPlain == {Opt(TRUE, FALSE, TRUE, FALSE, FALSE)}
WatchRemove == {Opt(TRUE, TRUE, TRUE, FALSE, FALSE)}

\* mc mirror: every flag set and not set, with another or alone; and a mirror
\* that watches.
OnceOrWatch ==
  {Opt(FALSE, TRUE, TRUE, FALSE, TRUE), Opt(FALSE, TRUE, FALSE, TRUE, FALSE)}
    \cup WatchPlain

===============================================================================
