------------------------------ MODULE CopySession ------------------------------
(***************************************************************************)
(* One run of mc cp or mc mv: doCopySession of cmd/cp-main.go with its     *)
(* three goroutines (the lister, the queuer, the loop that receives the    *)
(* results) and its worker pool, and the removeManager of cmd/mv-main.go,  *)
(* by which the workers of mv hand the sources they have copied to         *)
(* Client.Remove.  The items come from CopyURLs; a worker is here what     *)
(* TaskPool promises.  Files have contents: the content of a file is the   *)
(* path it had at the start.                                               *)
(***************************************************************************)
EXTENDS CopyURLs

CONSTANTS
  Sessions,     \* what the user may call: [tree, args, isMv]
  MaxWorkers,   \* the limit of the worker pool
  MaxItems,     \* at least the number of items of a session
  RemoveCap,    \* the capacity of contentCh (10000 in the code)
  CopyFailures  \* of "ignored", "copy", "client", "permission", "remove",
                \* "interrupt": what may go wrong

ASSUME CopyAssumption == MaxWorkers \in Nat \ {0} /\ RemoveCap \in Nat \ {0}
ASSUME ItemsAssumption ==
  /\ MaxItems \in Nat
  /\ \A s \in Sessions :
       LET all == PrepareCopyURLs(s.tree, s.args)
       IN Len(all) \in 0..MaxItems /\ DOMAIN all = 1..Len(all)

VARIABLES
  session, items,              \* the call, and what prepareCopyURLs makes of it
  files,                       \* path -> content
  nextItem, cpURLsCh,          \* the lister's place, and what it has sent
  errSeen, totalObjects, retErr,
  queuer,                      \* "loop", "stop" or "done" (statusCh is closed)
  task,                        \* item -> "new", "copy", "add", "send", "result", "over"
  outcome,                     \* item -> "none", "ok", "ignored" or "error"
  mapLocked, manager,          \* removeMapMutex was never given back; the alias' entry
  contentCh, contentClosed,
  remover,                     \* the goroutine of Client.Remove: "on" or "ended"
  removeErr,                   \* it has reported an error, which is only logged
  main,                        \* "loop", "close", "wait" or "exited"
  quit, panicked

lister == <<nextItem, cpURLsCh, errSeen, totalObjects>>
removal == <<mapLocked, manager, contentCh, contentClosed, remover, removeErr>>
copyVars == <<session, items, files, lister, retErr, queuer, task, outcome,
              removal, main, quit, panicked>>

Ids == DOMAIN items
Alive == main # "exited" /\ ~panicked
Busy == {i \in Ids : task[i] \in {"copy", "add", "send", "result"}}

CopyTypeOK ==
  /\ session \in Sessions
  /\ nextItem \in 1..(Len(items) + 1)
  /\ \A i \in DOMAIN cpURLsCh : cpURLsCh[i] \in Ids
  /\ totalObjects \in 0..Len(items)
  /\ {errSeen, retErr, mapLocked, manager, contentClosed, removeErr, quit,
      panicked} \subseteq BOOLEAN
  /\ queuer \in {"loop", "stop", "done"}
  /\ task \in [Ids -> {"new", "copy", "add", "send", "result", "over"}]
  /\ outcome \in [Ids -> {"none", "ok", "ignored", "error"}]
  /\ Cardinality(Busy) <= MaxWorkers
  /\ Len(contentCh) <= RemoveCap
  /\ remover \in {"on", "ended"}
  /\ main \in {"loop", "close", "wait", "exited"}

\* Nothing is done yet; the refused calls of mv end before the session.
CopyStart(s) ==
  /\ session = s
  /\ items = PrepareCopyURLs(s.tree, s.args)
  /\ files = [p \in {q \in DOMAIN s.tree : s.tree[q] = "file"} |-> p]
  /\ nextItem = 1 /\ cpURLsCh = <<>> /\ errSeen = FALSE /\ totalObjects = 0
  /\ retErr = FALSE /\ queuer = "loop"
  /\ task = [i \in Ids |-> "new"] /\ outcome = [i \in Ids |-> "none"]
  /\ mapLocked = FALSE /\ manager = FALSE
  /\ contentCh = <<>> /\ contentClosed = FALSE
  /\ remover = "on" /\ removeErr = FALSE
  /\ main = "loop" /\ quit = FALSE /\ panicked = FALSE

CopyInit == \E s \in Sessions : /\ s.isMv => MoveAllowed(s.args)
                                /\ CopyStart(s)

-----------------------------------------------------------------------------
\* The lister: it sends items until an error or the end, and closes cpURLsCh.
List ==
  /\ Alive /\ nextItem <= Len(items)
  /\ IF items[nextItem] = Refused
     THEN /\ errSeen' = TRUE
          /\ nextItem' = Len(items) + 1
          /\ UNCHANGED <<totalObjects, cpURLsCh>>
     ELSE /\ totalObjects' = totalObjects + 1
          /\ cpURLsCh' = Append(cpURLsCh, nextItem)
          /\ nextItem' = nextItem + 1
          /\ UNCHANGED errSeen
  /\ UNCHANGED <<session, items, files, retErr, queuer, task, outcome, removal,
                 main, quit, panicked>>

\* The queuer: the next item goes to a worker that is free.
Queue ==
  /\ Alive /\ queuer = "loop" /\ cpURLsCh # <<>>
  /\ Cardinality(Busy) < MaxWorkers
  /\ task' = [task EXCEPT ![Head(cpURLsCh)] = "copy"]
  /\ cpURLsCh' = Tail(cpURLsCh)
  /\ UNCHANGED <<session, items, files, nextItem, errSeen, totalObjects, retErr,
                 queuer, outcome, removal, main, quit, panicked>>

\* gracefulStop begins at the interrupt or at the end of the items, and
\* closes statusCh when every worker has delivered.
Stop ==
  /\ Alive
  /\ \/ /\ queuer = "loop"
        /\ quit \/ (cpURLsCh = <<>> /\ nextItem > Len(items))
        /\ queuer' = "stop"
     \/ /\ queuer = "stop" /\ Busy = {}
        /\ queuer' = "done"
  /\ UNCHANGED <<session, items, files, lister, retErr, task, outcome, removal,
                 main, quit, panicked>>

\* Mutant: a failed copy does not keep mv from the removal of the source.
CopyAndAdd(i) ==
  LET item == items[i] IN
  /\ Alive /\ task[i] = "copy"
  /\ \/ /\ item.src \in DOMAIN files
        /\ files' = [p \in DOMAIN files \cup {item.dst} |->
                       IF p = item.dst THEN files[item.src] ELSE files[p]]
        /\ outcome' = [outcome EXCEPT ![i] = "ok"]
     \/ /\ "copy" \in CopyFailures /\ UNCHANGED files
        /\ outcome' = [outcome EXCEPT ![i] = "error"]
  /\ task' = [task EXCEPT ![i] = IF session.isMv THEN "add" ELSE "result"]
  /\ UNCHANGED <<session, items, lister, retErr, queuer, removal, main, quit,
                 panicked>>

\* doCopy: the target gets what the source holds now.  A source that is gone
\* is one of the errors isErrIgnored names.
Copy(i) ==
  LET item == items[i] IN
  /\ Alive /\ task[i] = "copy"
  /\ \/ /\ item.src \in DOMAIN files
        /\ files' = [p \in DOMAIN files \cup {item.dst} |->
                       IF p = item.dst THEN files[item.src] ELSE files[p]]
        /\ outcome' = [outcome EXCEPT ![i] = "ok"]
        /\ task' = [task EXCEPT ![i] = IF session.isMv THEN "add" ELSE "result"]
     \/ /\ \/ item.src \notin DOMAIN files
           \/ "ignored" \in CopyFailures
        /\ outcome' = [outcome EXCEPT ![i] = "ignored"]
        /\ task' = [task EXCEPT ![i] = "result"]
        /\ UNCHANGED files
     \/ /\ "copy" \in CopyFailures
        /\ outcome' = [outcome EXCEPT ![i] = "error"]
        /\ task' = [task EXCEPT ![i] = "result"]
        /\ UNCHANGED files
  /\ UNCHANGED <<session, items, lister, retErr, queuer, removal, main, quit,
                 panicked>>

\* removeManager.add under the lock: the entry of the alias is made by the
\* first worker; when its client cannot be made, add returns with the lock.
Add(i) ==
  /\ Alive /\ task[i] = "add" /\ ~mapLocked
  /\ \/ /\ manager' = TRUE
        /\ task' = [task EXCEPT ![i] = "send"]
        /\ UNCHANGED mapLocked
     \/ /\ ~manager /\ "client" \in CopyFailures
        /\ mapLocked' = TRUE
        /\ task' = [task EXCEPT ![i] = "result"]
        /\ UNCHANGED manager
  /\ UNCHANGED <<session, items, files, lister, retErr, queuer, outcome,
                 contentCh, contentClosed, remover, removeErr, main, quit,
                 panicked>>

\* The last statement of add; a send on a closed channel panics.
Send(i) ==
  /\ Alive /\ task[i] = "send"
  /\ \/ /\ contentClosed
        /\ panicked' = TRUE
        /\ UNCHANGED <<contentCh, task>>
     \/ /\ ~contentClosed /\ Len(contentCh) < RemoveCap
        /\ contentCh' = Append(contentCh, items[i].src)
        /\ task' = [task EXCEPT ![i] = "result"]
        /\ UNCHANGED panicked
  /\ UNCHANGED <<session, items, files, lister, retErr, queuer, outcome,
                 mapLocked, manager, contentClosed, remover, removeErr, main,
                 quit>>

\* Mutant: the last result decides.
ReceiveLastStatus(i) ==
  /\ Alive /\ main = "loop" /\ task[i] = "result"
  /\ task' = [task EXCEPT ![i] = "over"]
  /\ retErr' = (outcome[i] # "ok")
  /\ errSeen' = (errSeen \/ outcome[i] = "error")
  /\ UNCHANGED <<session, items, files, nextItem, cpURLsCh, totalObjects, queuer,
                 outcome, removal, main, quit, panicked>>

\* The loop of doCopySession receives a result from a worker.
ReceiveStatus(i) ==
  /\ Alive /\ main = "loop" /\ task[i] = "result"
  /\ task' = [task EXCEPT ![i] = "over"]
  /\ retErr' = (retErr \/ outcome[i] \in {"error", "ignored"})
  /\ errSeen' = (errSeen \/ outcome[i] = "error")
  /\ UNCHANGED <<session, items, files, nextItem, cpURLsCh, totalObjects, queuer,
                 outcome, removal, main, quit, panicked>>

\* The loop ends with statusCh, or at the interrupt, which does not wait for the
\* workers.  mv then closes the channels of its removeManager.
LoopEnds ==
  /\ Alive /\ main = "loop"
  /\ retErr' = (retErr \/ (errSeen /\ totalObjects = 0))
  /\ main' = IF session.isMv THEN "close" ELSE "exited"
  /\ UNCHANGED <<session, items, files, lister, queuer, task, outcome, removal,
                 panicked>>

\* Mutant: the loop ends when the last item is with a worker.
FinishEarly == LoopEnds /\ queuer # "loop" /\ UNCHANGED quit

Finish == LoopEnds /\ queuer = "done" /\ UNCHANGED quit
Interrupt == LoopEnds /\ "interrupt" \in CopyFailures /\ quit' = TRUE

\* Mutant: the channels are left open.
CloseNothing ==
  /\ Alive /\ main = "close"
  /\ main' = "wait"
  /\ UNCHANGED <<session, items, files, lister, retErr, queuer, task, outcome,
                 removal, quit, panicked>>

CloseManager ==
  /\ Alive /\ main = "close"
  /\ contentClosed' = manager
  /\ main' = "wait"
  /\ UNCHANGED <<session, items, files, lister, retErr, queuer, task, outcome,
                 mapLocked, manager, contentCh, remover, removeErr, quit,
                 panicked>>

\* Mutant: mv does not wait.
DoNotWait ==
  /\ Alive /\ main = "wait"
  /\ main' = "exited"
  /\ UNCHANGED <<session, items, files, lister, retErr, queuer, task, outcome,
                 removal, quit, panicked>>

\* rm.wg.Wait: there is no remover, or it has ended.
WaitForRemover ==
  /\ Alive /\ main = "wait" /\ (manager => remover = "ended")
  /\ main' = "exited"
  /\ UNCHANGED <<session, items, files, lister, retErr, queuer, task, outcome,
                 removal, quit, panicked>>

\* Client.Remove: a file that is not there is no error; after an error that is
\* not about permissions nothing more is received (fsClient), as after the
\* cancellation of the context (S3Client).
RemoveSource ==
  /\ Alive /\ manager /\ remover = "on" /\ contentCh # <<>>
  /\ contentCh' = Tail(contentCh)
  /\ \/ /\ files' = [p \in DOMAIN files \ {Head(contentCh)} |-> files[p]]
        /\ UNCHANGED <<remover, removeErr>>
     \/ /\ CopyFailures \cap {"permission", "remove"} # {}
        /\ removeErr' = TRUE
        /\ \/ "permission" \in CopyFailures /\ UNCHANGED remover
           \/ "remove" \in CopyFailures /\ remover' = "ended"
        /\ UNCHANGED files
  /\ UNCHANGED <<session, items, lister, retErr, queuer, task, outcome,
                 mapLocked, manager, contentClosed, main, quit, panicked>>

RemoverEnds ==
  /\ Alive /\ manager /\ remover = "on"
  /\ \/ contentCh = <<>> /\ contentClosed /\ UNCHANGED removeErr
     \/ quit /\ removeErr' = TRUE
  /\ remover' = "ended"
  /\ UNCHANGED <<session, items, files, lister, retErr, queuer, task, outcome,
                 mapLocked, manager, contentCh, contentClosed, main, quit,
                 panicked>>

Work(i) == Copy(i) \/ Add(i) \/ Send(i) \/ ReceiveStatus(i)

CopyNext ==
  \/ List \/ Queue \/ Stop
  \/ \E i \in Ids : Work(i)
  \/ Finish \/ Interrupt \/ CloseManager \/ WaitForRemover \/ RemoveSource \/ RemoverEnds

CopySpec == CopyInit /\ [][CopyNext]_copyVars

-----------------------------------------------------------------------------
\* A content that a file had at the start is in some file at every moment: mv
\* gives a source to the removal only after its copy, and the removal, which
\* goes by name and runs behind the copies, never meets the only copy.
NothingLost ==
  \A p \in DOMAIN session.tree :
    session.tree[p] = "file" => \E q \in DOMAIN files : files[q] = p

\* Exit status 0 of a command that was not interrupted: every item that was
\* listed before an error was copied, and an error of the listing had at least
\* one item before it (the check of errSeen looks at totalObjects).
SuccessMeansCopied ==
  main = "exited" /\ ~quit /\ ~retErr =>
    \A i \in Ids : \/ outcome[i] = "ok"
                   \/ \E j \in 2..i : items[j] = Refused

\* mv that ends by itself has waited for the removals: what was copied is not
\* at its source any more, unless a removal failed, which was reported.
MovedMeansRemoved ==
  main = "exited" /\ ~quit /\ session.isMv /\ ~removeErr /\ ~mapLocked =>
    \A i \in Ids : outcome[i] = "ok" => items[i].src \notin DOMAIN files

\* close is called while workers may still be in add only after an interrupt:
\* otherwise no worker sends on the closed channel.
PanicNeedsInterrupt == panicked => quit

\* The session has come to its end, or never will: add has kept the lock, or
\* Client.Remove has given up with more sources to come than contentCh holds.
SessionOver ==
  ~Alive \/ mapLocked \/ (remover = "ended" /\ Len(contentCh) = RemoveCap)

===============================================================================
