------------------------------- MODULE Commands -------------------------------
(***************************************************************************)
(* An invocation of mc: main.go starts one command, and what the module of *)
(* that command models happens; the other modules keep an initial state.   *)
(* What runs at the same time as the command is in its own module: other   *)
(* commands on the same files (FsPut, SelfUpdate, ShareDB), the goroutines *)
(* of the command (CopySession, Removal), and the next invocations after   *)
(* one has been killed (ConfigMigrate, SelfUpdate).                        *)
(***************************************************************************)
EXTENDS BucketSync, LocalWatch, CopySession, Removal, FsPut, SelfUpdate,
        ConfigMigrate, ShareDB, Undo, ActiveActive, Rewind, Perf, SupportReport,
        Cat, Od, Restore

CONSTANT Invocations  \* of "mirror", "watch", "cp", "rm", "put", "update",
                      \* "start", "share", "undo", "twins", "ls", "perf",
                      \* "report", "cat", "od", "restore"

VARIABLE invoked

bucketVars == vars
commandVars == <<bucketVars, watchVars, copyVars, removalVars, putVars,
                 updateVars, configVars, shareVars, undoVars, twinVars, rewindVars,
                 perfVars, supportVars, catVars, odVars, restoreVars>>

Some(S) == CHOOSE x \in S : TRUE
Rests(command) == invoked # command

\* The choices of an Init are made where the command is the one invoked.
CommandsInit ==
  /\ invoked \in Invocations
  /\ Rests("mirror") =>
       /\ srcKind = Some(Sources) /\ opts = Some({o \in Options : o.createDstBuckets})
       /\ source = {} /\ before = {} /\ srcList = <<>> /\ dstList = <<>>
       /\ listing = "on"
  /\ Init
  /\ Rests("watch") => /\ dirs = {} /\ origin = Some(Origins)
                       /\ consumerKind = Some(Consumers)
  /\ WatchInit
  /\ Rests("cp") => session = Some({s \in Sessions : ~s.isMv})
  /\ CopyInit
  /\ Rests("rm") => /\ rmListing = Some(RmListings)
                    /\ rmOpts = Some({o \in RemoveOptions : o.mode = "plain"})
  /\ RmInit
  /\ Rests("put") => /\ stream = [w \in Puts |-> Some(Streams)]
                     /\ exactly = [w \in Puts |-> FALSE]
  /\ PutInit
  /\ UpdateInit
  /\ Rests("start") => config = Some(Configs)
  /\ ConfigInit
  /\ Rests("share") => shareKind = [p \in Sharers |-> "list"]
  /\ ShareInit
  /\ Rests("undo") => /\ vlist = Some(VersionListings)
                      /\ undoOpts = Some({o \in UndoOptions : o.action = ""})
  /\ UndoInit
  /\ Rests("twins") => skew = Some(ClockSkews) /\ withMetadata = FALSE
  /\ TwinInit
  /\ Rests("ls") => rwCommand = Some(RewindCommands)
  /\ RewindInit
  /\ Rests("perf") => plan = Some(PerfPlans) /\ perfJson = FALSE
  /\ PerfInit
  /\ Rests("report") => /\ supportKind = Some(SupportKinds) /\ airgapped = FALSE
                        /\ hadOld = FALSE
  /\ SupportInit
  /\ Rests("cat") => /\ catOpts = Some({o \in CatOptions : ~o.rewind}) /\ versioned = FALSE
                     /\ catArgs = Some(CatArgs)
                     /\ stored = [n \in {catArgs[i] : i \in DOMAIN catArgs} |->
                                    [k \in 1..2 |-> Some(CatSizes)]]
  /\ CatInit
  /\ Rests("od") => od = [download |-> FALSE, toFile |-> FALSE, n |-> 0, parts |-> 0,
                          size |-> 0, skip |-> 0]
  /\ OdInit
  /\ Rests("restore") =>
       /\ recursive = FALSE /\ allVersions = FALSE
       /\ tier = [v \in [name : RestoreNames, number : Numbers] |->
                    IF v.number = 2 THEN "hot" ELSE "none"]
  /\ RestoreInit

CommandsNext ==
  /\ UNCHANGED invoked
  /\ \/ /\ invoked = "mirror" /\ Next
        /\ UNCHANGED <<watchVars, copyVars, removalVars, putVars, updateVars,
                       configVars, shareVars, undoVars, twinVars, rewindVars,
                       perfVars, supportVars, catVars, odVars, restoreVars>>
     \/ /\ invoked = "watch" /\ WatchNext
        /\ UNCHANGED <<bucketVars, copyVars, removalVars, putVars, updateVars,
                       configVars, shareVars, undoVars, twinVars, rewindVars,
                       perfVars, supportVars, catVars, odVars, restoreVars>>
     \/ /\ invoked = "cp" /\ CopyNext
        /\ UNCHANGED <<bucketVars, watchVars, removalVars, putVars, updateVars,
                       configVars, shareVars, undoVars, twinVars, rewindVars,
                       perfVars, supportVars, catVars, odVars, restoreVars>>
     \/ /\ invoked = "rm" /\ RmNext
        /\ UNCHANGED <<bucketVars, watchVars, copyVars, putVars, updateVars,
                       configVars, shareVars, undoVars, twinVars, rewindVars,
                       perfVars, supportVars, catVars, odVars, restoreVars>>
     \/ /\ invoked = "put" /\ PutNext
        /\ UNCHANGED <<bucketVars, watchVars, copyVars, removalVars, updateVars,
                       configVars, shareVars, undoVars, twinVars, rewindVars,
                       perfVars, supportVars, catVars, odVars, restoreVars>>
     \/ /\ invoked = "update" /\ UpdateNext
        /\ UNCHANGED <<bucketVars, watchVars, copyVars, removalVars, putVars,
                       configVars, shareVars, undoVars, twinVars, rewindVars,
                       perfVars, supportVars, catVars, odVars, restoreVars>>
     \/ /\ invoked = "start" /\ ConfigNext
        /\ UNCHANGED <<bucketVars, watchVars, copyVars, removalVars, putVars,
                       updateVars, shareVars, undoVars, twinVars, rewindVars,
                       perfVars, supportVars, catVars, odVars, restoreVars>>
     \/ /\ invoked = "share" /\ ShareNext
        /\ UNCHANGED <<bucketVars, watchVars, copyVars, removalVars, putVars,
                       updateVars, configVars, undoVars, twinVars, rewindVars,
                       perfVars, supportVars, catVars, odVars, restoreVars>>
     \/ /\ invoked = "undo" /\ UndoNext
        /\ UNCHANGED <<bucketVars, watchVars, copyVars, removalVars, putVars,
                       updateVars, configVars, shareVars, twinVars, rewindVars,
                       perfVars, supportVars, catVars, odVars, restoreVars>>
     \/ /\ invoked = "twins" /\ TwinNext
        /\ UNCHANGED <<bucketVars, watchVars, copyVars, removalVars, putVars,
                       updateVars, configVars, shareVars, undoVars, rewindVars,
                       perfVars, supportVars, catVars, odVars, restoreVars>>
     \/ /\ invoked = "ls" /\ RewindNext
        /\ UNCHANGED <<bucketVars, watchVars, copyVars, removalVars, putVars,
                       updateVars, configVars, shareVars, undoVars, twinVars,
                       perfVars, supportVars, catVars, odVars, restoreVars>>
     \/ /\ invoked = "perf" /\ PerfNext
        /\ UNCHANGED <<bucketVars, watchVars, copyVars, removalVars, putVars,
                       updateVars, configVars, shareVars, undoVars, twinVars,
                       rewindVars, supportVars, catVars, odVars, restoreVars>>
     \/ /\ invoked = "report" /\ SupportNext
        /\ UNCHANGED <<bucketVars, watchVars, copyVars, removalVars, putVars,
                       updateVars, configVars, shareVars, undoVars, twinVars,
                       rewindVars, perfVars, catVars, odVars, restoreVars>>
     \/ /\ invoked = "cat" /\ CatNext
        /\ UNCHANGED <<bucketVars, watchVars, copyVars, removalVars, putVars,
                       updateVars, configVars, shareVars, undoVars, twinVars,
                       rewindVars, perfVars, supportVars, odVars, restoreVars>>
     \/ /\ invoked = "od" /\ OdNext
        /\ UNCHANGED <<bucketVars, watchVars, copyVars, removalVars, putVars,
                       updateVars, configVars, shareVars, undoVars, twinVars,
                       rewindVars, perfVars, supportVars, catVars, restoreVars>>
     \/ /\ invoked = "restore" /\ RestoreNext
        /\ UNCHANGED <<bucketVars, watchVars, copyVars, removalVars, putVars,
                       updateVars, configVars, shareVars, undoVars, twinVars,
                       rewindVars, perfVars, supportVars, catVars, odVars>>

\* The goroutines of cp, mv, rm and perf run, and no call hangs; nobody must
\* interrupt the command or leave a display.
CommandsFairness ==
  /\ WF_copyVars(invoked = "cp" /\ List)
  /\ WF_copyVars(invoked = "cp" /\ Queue)
  /\ WF_copyVars(invoked = "cp" /\ Stop)
  /\ \A i \in 1..MaxItems : WF_copyVars(invoked = "cp" /\ i \in Ids /\ Work(i))
  /\ WF_copyVars(invoked = "cp" /\ (Finish \/ CloseManager \/ WaitForRemover))
  /\ WF_copyVars(invoked = "cp" /\ (RemoveSource \/ RemoverEnds))
  /\ WF_removalVars(invoked = "rm" /\ Main)
  /\ WF_removalVars(invoked = "rm" /\ Client)
  /\ WF_removalVars(invoked = "rm" /\ RemoveBatch)
  /\ WF_perfVars(invoked = "perf" /\ PerfGoesOn)
  /\ WF_perfVars(invoked = "perf" /\ PerfAnswers)

CommandsSpec ==
  CommandsInit /\ [][CommandsNext]_<<invoked, commandVars>> /\ CommandsFairness

-----------------------------------------------------------------------------
\* Each module's own type invariant.
CommandsTypeOK ==
  /\ invoked \in Invocations
  /\ TypeOK /\ WatchTypeOK /\ CopyTypeOK /\ RmTypeOK /\ PutTypeOK /\ UpdateTypeOK
  /\ ConfigTypeOK /\ ShareTypeOK /\ UndoTypeOK /\ TwinTypeOK /\ RewindTypeOK
  /\ PerfTypeOK /\ SupportTypeOK /\ CatTypeOK /\ OdTypeOK /\ RestoreTypeOK

\* cp and mv come to an end, see SessionOver; and rm does, although its loop,
\* the one of the client and the one of minio-go wait for each other on
\* unbuffered channels in both directions; and so does support perf, where the
\* caller, the feeders and the displays wait for each other.
CommandEnds ==
  <>(/\ invoked = "cp" => SessionOver
     /\ invoked = "rm" => rm = "exited"
     /\ invoked = "perf" => perfAt = "over")

===============================================================================
