------------------------------- MODULE CopyURLs -------------------------------
(***************************************************************************)
(* Which file mc cp and mc mv copy to which path: cmd/cp-url.go.  A path   *)
(* is the sequence of its names, an argument of the command a path that    *)
(* ends with a separator or does not, and a tree a function from its paths *)
(* to "file" or "dir".  What the command is to do is a sequence of items:  *)
(* the copy of a file, or an error.                                        *)
(*                                                                         *)
(* The names of a tree are such that none is a prefix of another, and all  *)
(* arguments are written in the same style (all absolute, without . or ..).*)
(***************************************************************************)
EXTENDS SequencesExt

Refused == [src |-> <<>>, dst |-> <<>>]

Exists(tree, p) == p \in DOMAIN tree
IsDir(tree, p) == Exists(tree, p) /\ tree[p] = "dir"
IsRegular(tree, p) == Exists(tree, p) /\ tree[p] = "file"

\* fsClient.List: the regular files at a path and below it, or below it only
\* when the argument ends with a separator.
Listed(tree, arg) ==
  {p \in DOMAIN tree : /\ tree[p] = "file"
                       /\ IsPrefix(arg.path, p)
                       /\ arg.slash => p # arg.path}

IsAliasURLDir(tree, arg) ==
  IF Exists(tree, arg.path) THEN IsDir(tree, arg.path) ELSE arg.slash

IsURLContains(srcArg, tgtArg) == IsPrefix(srcArg.path, tgtArg.path)

\* The first parts of both are the same; a separator at the end is an empty
\* last part, which agrees with every part.
IsURLPrefix(srcArg, tgtArg) ==
  LET parts(arg) == IF arg.slash THEN Append(arg.path, "") ELSE arg.path
      s == parts(srcArg)
      d == parts(tgtArg)
      n == IF Len(s) < Len(d) THEN Len(s) ELSE Len(d)
  IN \A i \in 1..n : \/ s[i] = d[i]
                     \/ i = n /\ (s[i] = "" \/ d[i] = "")

-----------------------------------------------------------------------------
\* guessCopyURLType
CopyType(tree, args) ==
  LET source == args.sources[1] IN
  CASE Len(args.sources) > 1 ->
         IF IsAliasURLDir(tree, args.target) THEN "D" ELSE "invalid"
    [] args.recursive -> IF Listed(tree, source) = {} THEN "invalid" ELSE "C"
    [] ~Exists(tree, source.path) -> "invalid"
    [] IsDir(tree, source.path) -> "C"
    [] OTHER -> IF IsAliasURLDir(tree, args.target) THEN "B" ELSE "A"

\* makeCopyContentTypeA and B: the file becomes the target, or goes into it.
ItemA(source, target) == [src |-> source.path, dst |-> target.path]
ItemB(source, target) ==
  [src |-> source.path, dst |-> Append(target.path, Last(source.path))]

\* makeCopyContentTypeC: what follows the last separator of the argument in
\* the path of the file is appended to the target.
ItemC(source, target, file) ==
  LET prefix == IF source.slash THEN Len(source.path) ELSE Len(source.path) - 1
  IN [src |-> file,
      dst |-> target.path \o SubSeq(file, prefix + 1, Len(file))]

\* prepareCopyURLsTypeC.  With one recursive source the content that is
\* looked at is the first file of its listing (seenAsDir is false), so that
\* only a directory among several sources is refused.
ItemsC(tree, args, source) ==
  LET seenAsDir == /\ IsDir(tree, source.path)
                   /\ args.recursive => Len(args.sources) > 1
  IN IF \/ IsRegular(tree, args.target.path)
        \/ ~Exists(tree, source.path)
        \/ seenAsDir /\ (~args.recursive \/ IsURLContains(source, args.target))
     THEN <<Refused>>
     ELSE LET files == SetToSeq(Listed(tree, source))
          IN [i \in DOMAIN files |-> ItemC(source, args.target, files[i])]

\* prepareCopyURLsTypeD: the sources one after the other, without the files
\* whose target is taken.
ItemsD(tree, args) ==
  LET all == FlattenSeq([i \in DOMAIN args.sources |->
                           ItemsC(tree, args, args.sources[i])])
      kept == {i \in DOMAIN all :
                 \/ all[i] = Refused
                 \/ \A j \in 1..(i - 1) : all[j].dst # all[i].dst}
  IN [i \in 1..Cardinality(kept) |->
        all[CHOOSE k \in kept : Cardinality({j \in kept : j <= k}) = i]]

\* prepareCopyURLs: by type, without the files that --older-than or
\* --newer-than leaves out.
PrepareCopyURLs(tree, args) ==
  LET type == CopyType(tree, args)
      all == CASE type = "invalid" -> <<Refused>>
               [] type = "A" -> <<ItemA(args.sources[1], args.target)>>
               [] type = "B" -> <<ItemB(args.sources[1], args.target)>>
               [] type = "C" -> ItemsC(tree, args, args.sources[1])
               [] type = "D" -> ItemsD(tree, args)
  IN SelectSeq(all, LAMBDA item : item.src \notin args.skipped)

\* mainMove: one source and a target of which neither is in the other.
MoveAllowed(args) ==
  Len(args.sources) = 1 => ~IsURLPrefix(args.sources[1], args.target)

===============================================================================
