--------------------------- MODULE Commands_proofs ---------------------------
(***************************************************************************)
(* What the proofs about the modules that Commands composes say of an      *)
(* invocation of mc.                                                       *)
(***************************************************************************)
EXTENDS Commands, Sessions_proofs, Files_proofs, Objects_proofs

-----------------------------------------------------------------------------
(***************************************************************************)
(* An invocation does what the module of its command says, and leaves the  *)
(* other modules alone; so that what is proved of each of them is true of  *)
(* it.                                                                     *)
(***************************************************************************)

\* main.go starts one command, in a state in which its module starts.
LEMMA InvocationStarts ==
  CommandsInit =>
    /\ Init /\ WatchInit /\ CopyInit /\ RmInit /\ PutInit /\ UpdateInit
    /\ ConfigInit /\ ShareInit /\ UndoInit /\ TwinInit /\ RewindInit
    /\ PerfInit /\ SupportInit /\ CatInit /\ OdInit /\ RestoreInit
PROOF
  BY DEF CommandsInit

\* What the invoked command does is a step of its module.
LEMMA InvocationStep ==
  ASSUME [CommandsNext]_<<invoked, commandVars>>
  PROVE  /\ [Next]_vars /\ [WatchNext]_watchVars /\ [CopyNext]_copyVars
         /\ [RmNext]_removalVars /\ [PutNext]_putVars /\ [UpdateNext]_updateVars
         /\ [ConfigNext]_configVars /\ [ShareNext]_shareVars /\ [UndoNext]_undoVars
         /\ [TwinNext]_twinVars /\ [RewindNext]_rewindVars /\ [PerfNext]_perfVars
         /\ [SupportNext]_supportVars /\ [CatNext]_catVars /\ [OdNext]_odVars
         /\ [RestoreNext]_restoreVars
PROOF
<1>1. CASE UNCHANGED <<invoked, commandVars>>
  BY <1>1 DEF commandVars, bucketVars
<1>2. CASE CommandsNext
  BY <1>2 DEF CommandsNext, bucketVars
<1> QED
  BY <1>1, <1>2

\* An invocation of mc is a behaviour of each of the modules that Commands
\* composes.
THEOREM CommandsDoWhatTheySay ==
  CommandsSpec =>
    /\ Spec /\ WatchSpec /\ CopySpec /\ RmSpec /\ PutSpec /\ UpdateSpec
    /\ ConfigSpec /\ ShareSpec /\ UndoSpec /\ TwinSpec /\ RewindSpec
    /\ PerfSpec /\ SupportSpec /\ CatSpec /\ OdSpec /\ RestoreSpec
PROOF
<1>1. [CommandsNext]_<<invoked, commandVars>> =>
        /\ [Next]_vars /\ [WatchNext]_watchVars /\ [CopyNext]_copyVars
        /\ [RmNext]_removalVars /\ [PutNext]_putVars /\ [UpdateNext]_updateVars
        /\ [ConfigNext]_configVars /\ [ShareNext]_shareVars /\ [UndoNext]_undoVars
        /\ [TwinNext]_twinVars /\ [RewindNext]_rewindVars /\ [PerfNext]_perfVars
        /\ [SupportNext]_supportVars /\ [CatNext]_catVars /\ [OdNext]_odVars
        /\ [RestoreNext]_restoreVars
  BY InvocationStep
<1> QED
  BY <1>1, InvocationStarts, PTL
     DEF CommandsSpec, Spec, WatchSpec, CopySpec, RmSpec, PutSpec, UpdateSpec,
         ConfigSpec, ShareSpec, UndoSpec, TwinSpec, RewindSpec, PerfSpec,
         SupportSpec, CatSpec, OdSpec, RestoreSpec

\* The lists of a mirror that is not invoked stay empty.
LEMMA RestingBuckets ==
  /\ CommandsInit => (invoked # "mirror" => TypeOK) /\ invoked \in Invocations
  /\ (invoked # "mirror" => TypeOK) /\ invoked \in Invocations
     /\ [CommandsNext]_<<invoked, commandVars>>
     => (invoked # "mirror" => TypeOK)' /\ (invoked \in Invocations)'
PROOF
<1>1. ASSUME CommandsInit, invoked # "mirror" PROVE TypeOK
  <2>1. /\ Init /\ source = {} /\ before = {} /\ srcList = <<>> /\ dstList = <<>>
    BY <1>1 DEF CommandsInit, Rests
  <2>2. srcList \in Seq(source) /\ dstList \in Seq(Names)
    BY <2>1
  <2>3. /\ diffCh = <<>> /\ Len(diffCh) = 0 /\ diffCh \in Seq(Diff)
        /\ Cardinality(Names) \in Nat
    BY <2>1, BucketSyncAssumption, FS_CardinalityType DEF Init
  <2>4. Len(diffCh) <= 2 * Cardinality(Names) + 1
    BY <2>3
  <2>5. runs \in 1..MaxRuns
    BY <2>1, BucketSyncAssumption DEF Init
  <2>6. dst \in [Names -> States] /\ phase \in Phases
    BY <2>1 DEF Init, States, Phases
  <2>7. cancelled \in BOOLEAN
    BY <2>1 DEF Init
  <2> QED
    BY <2>1, <2>2, <2>3, <2>4, <2>5, <2>6, <2>7 DEF Init, TypeOK
<1>2. ASSUME invoked # "mirror" => TypeOK, [CommandsNext]_<<invoked, commandVars>>
      PROVE  (invoked # "mirror" => TypeOK)' /\ invoked' = invoked
  <2>1. invoked' = invoked /\ (invoked # "mirror" => UNCHANGED bucketVars)
    BY <1>2 DEF CommandsNext, commandVars
  <2>2. UNCHANGED bucketVars /\ TypeOK => TypeOK'
    BY DEF bucketVars, vars, env, lists, TypeOK
  <2> QED
    BY <1>2, <2>1, <2>2
<1>3. CommandsInit => invoked \in Invocations
  BY DEF CommandsInit
<1> QED
  BY <1>1, <1>2, <1>3

\* CommandsTypeOK: the types of every module, whatever command is invoked; for a
\* mirror, between servers of which either lists its buckets by their names.
THEOREM CommandsTypeCorrect ==
  CommandsSpec => []((invoked = "mirror" => BetweenS3) => CommandsTypeOK)
PROOF
<1>1. CommandsSpec => [](invoked # "mirror" => TypeOK) /\ [](invoked \in Invocations)
  BY RestingBuckets, PTL DEF CommandsSpec
<1>2. /\ invoked \in Invocations
      /\ invoked # "mirror" => TypeOK
      /\ BetweenS3 => TypeOK
      /\ WatchTypeOK /\ CopyTypeOK /\ RmTypeOK /\ PutTypeOK /\ UpdateTypeOK
      /\ ConfigTypeOK /\ ShareTypeOK /\ UndoTypeOK /\ TwinTypeOK /\ RewindTypeOK
      /\ PerfTypeOK /\ SupportTypeOK /\ CatTypeOK /\ OdTypeOK /\ RestoreTypeOK
      => ((invoked = "mirror" => BetweenS3) => CommandsTypeOK)
  BY DEF CommandsTypeOK
<1> QED
  BY <1>1, <1>2, CommandsDoWhatTheySay, BucketTypeCorrect, WatchTypeCorrect, CopyTypeCorrect,
     RmTypeCorrect, PutTypeCorrect, UpdateTypeCorrect, ConfigTypeCorrect, ShareTypeCorrect,
     UndoTypeCorrect, TwinTypeCorrect, RewindTypeCorrect, PerfTypeCorrect,
     SupportTypeCorrect, CatTypeCorrect, OdTypeCorrect, RestoreTypeCorrect, PTL

===============================================================================
