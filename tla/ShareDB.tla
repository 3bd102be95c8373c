--------------------------------- MODULE ShareDB ---------------------------------
(***************************************************************************)
(* The file of shared URLs: shareDBV1 of cmd/share-db-v1.go, and the       *)
(* commands share download (share-download-main.go), share upload          *)
(* (share-upload-main.go) and share list (share-list-main.go), each a      *)
(* process of its own.  The mutex of shareDBV1 is one of its process only. *)
(* quick saves a file whole (external); a URL is that of one call.         *)
(***************************************************************************)
EXTENDS Naturals, FiniteSets

CONSTANTS
  Sharers,      \* the processes
  MaxUrls       \* bound: the URLs one process shares

ASSUME ShareAssumption == MaxUrls \in Nat \ {0}

VARIABLES
  urlFile,      \* the URLs in the file
  shareAt,      \* process -> "idle", "read", "loaded", "ended" or "failed"
  shareKind,     \* process -> "download", "upload" or "list"
  shares,       \* process -> its Shares in memory
  shown,        \* process -> how many URLs it has printed
  expired,      \* the URLs that have expired
  alone         \* history: process -> no other one has run at the same time

shareVars == <<urlFile, shareAt, shareKind, shares, shown, expired, alone>>

Urls == Sharers \X (1..MaxUrls)
Active == {p \in Sharers : shareAt[p] \in {"read", "loaded"}}
Shown(p) == {p} \X (1..shown[p])

ShareInit ==
  /\ urlFile = {} /\ expired = {}
  /\ shareAt = [p \in Sharers |-> "idle"]
  /\ shareKind \in [Sharers -> {"download", "upload", "list"}]
  /\ shares = [p \in Sharers |-> {}] /\ shown = [p \in Sharers |-> 0]
  /\ alone = [p \in Sharers |-> TRUE]

\* doShareUploadURL prints before it loads.
Prints(p) == shown' = [shown EXCEPT ![p] = @ + 1]

\* Mutant: what is in the file is not read.
LoadNothing(p) ==
  /\ shareAt[p] = "idle"
  /\ shareAt' = [shareAt EXCEPT ![p] = "read"]
  /\ shares' = [shares EXCEPT ![p] = {}]
  /\ IF shareKind[p] = "upload" THEN Prints(p) ELSE UNCHANGED shown
  /\ alone' = [q \in Sharers |-> alone[q] /\ (q \in Active \cup {p} => Active = {})]
  /\ UNCHANGED <<urlFile, shareKind, expired>>

\* Load, its first half: the file is read, and what has expired is dropped.
Load(p) ==
  /\ shareAt[p] = "idle"
  /\ shareAt' = [shareAt EXCEPT ![p] = "read"]
  /\ shares' = [shares EXCEPT ![p] = urlFile \ expired]
  /\ IF shareKind[p] = "upload" THEN Prints(p) ELSE UNCHANGED shown
  /\ alone' = [q \in Sharers |-> alone[q] /\ (q \in Active \cup {p} => Active = {})]
  /\ UNCHANGED <<urlFile, shareKind, expired>>

\* The second half: it is saved; that this may fail is not looked at.
SaveLoaded(p) ==
  /\ shareAt[p] = "read"
  /\ urlFile' \in {shares[p], urlFile}
  /\ shareAt' = [shareAt EXCEPT ![p] = IF shareKind[p] = "list" THEN "ended" ELSE "loaded"]
  /\ shares' = IF shareKind[p] = "upload"
               THEN [shares EXCEPT ![p] = @ \cup Shown(p)] ELSE shares
  /\ UNCHANGED <<shareKind, shown, expired, alone>>

\* The loop of doShareDownloadURL.
Share(p) ==
  /\ shareAt[p] = "loaded" /\ shareKind[p] = "download" /\ shown[p] < MaxUrls
  /\ Prints(p)
  /\ shares' = [shares EXCEPT ![p] = @ \cup {<<p, shown[p] + 1>>}]
  /\ UNCHANGED <<urlFile, shareAt, shareKind, expired, alone>>

\* Save of download returns its error, that of upload is not looked at.
Save(p) ==
  /\ shareAt[p] = "loaded" /\ shareKind[p] # "list"
  /\ \/ urlFile' = shares[p] /\ shareAt' = [shareAt EXCEPT ![p] = "ended"]
     \/ urlFile' = urlFile /\ shareAt' = [shareAt EXCEPT ![p] = "failed"]
  /\ UNCHANGED <<shareKind, shares, shown, expired, alone>>

\* An error of the listing or of one object, or a signal.
Fail(p) ==
  /\ p \in Active
  /\ shareAt' = [shareAt EXCEPT ![p] = "failed"]
  /\ UNCHANGED <<urlFile, shareKind, shares, shown, expired, alone>>

Expire(u) ==
  /\ u \notin expired /\ expired' = expired \cup {u}
  /\ UNCHANGED <<urlFile, shareAt, shareKind, shares, shown, alone>>

ShareNext ==
  \/ \E p \in Sharers : Load(p) \/ SaveLoaded(p) \/ Share(p) \/ Save(p) \/ Fail(p)
  \/ \E p \in Sharers, i \in 1..MaxUrls : i <= shown[p] /\ Expire(<<p, i>>)

ShareSpec == ShareInit /\ [][ShareNext]_shareVars

-----------------------------------------------------------------------------
ShareTypeOK ==
  /\ urlFile \subseteq Urls /\ expired \subseteq Urls
  /\ shareAt \in [Sharers -> {"idle", "read", "loaded", "ended", "failed"}]
  /\ shares \in [Sharers -> SUBSET Urls] /\ shown \in [Sharers -> 0..MaxUrls]
  /\ alone \in [Sharers -> BOOLEAN]

\* What a command has shown and recorded stays in the file until it expires, as
\* long as no two commands overlap, whatever of them fails or is only a list
\* (which writes the file too); and the file never has a URL that was not shown.
SharesKept ==
  /\ (\A p \in Sharers : alone[p]) =>
       \A p \in Sharers : shareAt[p] = "ended" => Shown(p) \ expired \subseteq urlFile
  /\ \A u \in urlFile : u \in Shown(u[1])

===============================================================================
