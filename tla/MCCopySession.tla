----------------------------- MODULE MCCopySession -----------------------------
(* Instances of CopySession for TLC.                                         *)
EXTENDS CopySession

\* d/x, d/y, d/z, e/x and the empty directory t.
Tree == [p \in {<<"d">>, <<"e">>, <<"t">>} |-> "dir"]
        @@ [p \in {<<"d","x">>, <<"d","y">>, <<"d","z">>, <<"e","x">>} |-> "file"]

P(path) == [path |-> path, slash |-> FALSE]
D(path) == [path |-> path, slash |-> TRUE]
Call(sources, target, recursive, isMv) ==
  [tree |-> Tree, isMv |-> isMv,
   args |-> [sources |-> sources, target |-> target, recursive |-> recursive,
             skipped |-> {}]]

DX == P(<<"d","x">>)
DY == P(<<"d","y">>)
EX == P(<<"e","x">>)
Missing == P(<<"d","n">>)
T == D(<<"t">>)

\* cp or mv: -r d t; files of the same name; a source that is not there in the
\* middle, and at first; a source twice; a file under a new name.
SomeSessions ==
  {Call(s, T, FALSE, mv) : mv \in BOOLEAN,
     s \in {<<DX, DY, EX>>, <<DX, Missing, DY>>, <<Missing, DY>>, <<DX, DX, DY>>}}
  \cup {Call(<<P(<<"d">>)>>, T, TRUE, mv) : mv \in BOOLEAN}
  \cup {Call(<<DX>>, P(<<"e","new">>), FALSE, mv) : mv \in BOOLEAN}

\* mv d/x d/y d/
OntoItself == {Call(<<DX, DY>>, D(<<"d">>), FALSE, TRUE)}

===============================================================================
