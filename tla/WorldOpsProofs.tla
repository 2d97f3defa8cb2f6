--------------------------- MODULE WorldOpsProofs --------------------------
(***************************************************************************)
(* Proofs about WorldOps, for any packs and any number of exports.         *)
(***************************************************************************)
EXTENDS WorldOps, SequenceTheorems, TLAPS

(* The commands of a task.                                                  *)

\* What is left of a task when its first command is done.
LEMMA TailOfTask ==
    ASSUME NEW s \in Seq(Commands), s # <<>>
    PROVE  /\ Len(s) \in Nat /\ Len(s) >= 1
           /\ Head(s) = s[1]
           /\ Tail(s) \in Seq(Commands)
           /\ Len(Tail(s)) = Len(s) - 1
           /\ \A i \in 1 .. Len(Tail(s)) : i + 1 \in 2 .. Len(s) /\ Tail(s)[i] = s[i + 1]
OBVIOUS

\* A task none of whose commands is the script's.
Plain(s) == s \in Seq(Commands) /\ \A i \in 1 .. Len(s) : s[i] \notin Scripting

\* When a command is done, the script is behind.
LEMMA PlainTail ==
    ASSUME ScriptFirst, todo # <<>>
    PROVE  Plain(Tail(todo))
BY TailOfTask DEF ScriptFirst, Plain

\* A plain task is at no command of the script.
LEMMA PlainHead ==
    ASSUME NEW s, Plain(s), s # <<>>
    PROVE  Head(s) \notin Scripting
<1>1. Head(s) = s[1] /\ 1 \in 1 .. Len(s)
  BY TailOfTask DEF Plain
<1>2. QED
  BY <1>1 DEF Plain

\* The next command of a task is done: the tag is the same or a new one, and only tar
\* adds an archive.
LEMMA CommandDone ==
    ASSUME TInv, todo # <<>>, Done, file' = file,
           tag' \in Tags \/ (tag' = tag /\ Head(todo) \notin Scripting),
           exports' \in Seq(Archives),
           Len(exports') = Len(exports) \/ (Head(todo) = "tar" /\ Len(exports') = Len(exports) + 1)
    PROVE  /\ ScriptFirst' /\ TagBeforeDeploy' /\ RoomForTar' /\ RestoresExported'
           /\ ~At("java")' /\ ~At("poll")'
           /\ (At("deploy") \/ At("sync") => tag # None)'
           /\ file' \in 0 .. Len(exports') /\ Len(exports') <= MaxExports
<1>1. todo \in Seq(Commands) /\ Len(exports) \in Nat /\ Len(exports') \in Nat /\ MaxExports \in Nat
  BY OperatorAssumption DEF TInv, TypeOK, ScriptFirst
<1>2. /\ Head(todo) = todo[1]
      /\ 1 \in 1 .. Len(todo)
      /\ todo' = Tail(todo)
      /\ \A i \in 1 .. Len(todo') : i + 1 \in 2 .. Len(todo) /\ todo'[i] = todo[i + 1]
      /\ todo' # <<>> => Head(todo') = todo'[1] /\ 1 \in 1 .. Len(todo')
      /\ Len(todo') \in Nat /\ Len(todo) \in Nat
  BY <1>1, TailOfTask DEF Done
<1>3. Plain(todo')
  BY <1>2, PlainTail DEF TInv
<1>4. \A i \in 1 .. Len(todo') : \E j \in 1 .. Len(todo) : todo'[i] = todo[j]
  BY <1>2
<1>5. ScriptFirst' /\ ~At("java")' /\ ~At("poll")' /\ (todo' # <<>> => Head(todo') \notin Scripting)
  <2>1. todo' # <<>> => Head(todo') \notin Scripting
    BY <1>3, PlainHead
  <2>2. ScriptFirst'
    BY <1>3 DEF Plain, ScriptFirst
  <2>3. QED
    BY <2>1, <2>2 DEF At, Scripting
<1>6. Pending("deploy")' \/ Pending("sync")' => tag' # None
  <2>1. None \notin Tags
    BY ClusterAssumption
  <2>2. Pending("deploy")' \/ Pending("sync")' => Pending("deploy") \/ Pending("sync")
    BY <1>4 DEF Pending
  <2>3. QED
    BY <2>1, <2>2 DEF TInv, TagBeforeDeploy
<1>7. TagBeforeDeploy'
  BY <1>6 DEF TagBeforeDeploy
<1>8. (At("deploy") \/ At("sync") => tag # None)'
  BY <1>2, <1>6 DEF At, Pending
<1>9. RestoresExported' /\ file' \in 0 .. Len(exports')
  <2>1. Pending("remove")' \/ Pending("extract")' => Pending("remove") \/ Pending("extract")
    BY <1>4 DEF Pending
  <2>2. file \in 0 .. Len(exports)
    BY DEF TInv, TypeOK
  <2>3. file' \in 0 .. Len(exports')
    BY <1>1, <2>2
  <2>4. QED
    BY <1>1, <2>1, <2>3 DEF TInv, RestoresExported
<1>10. RoomForTar' /\ Len(exports') <= MaxExports
  <2>1. \A i, j \in 1 .. Len(todo') : todo'[i] = "tar" /\ todo'[j] = "tar" => i = j
    BY <1>2 DEF TInv, RoomForTar
  <2>2. CASE Head(todo) = "tar"
    <3>1. ~Pending("tar")'
      BY <1>2, <2>2 DEF Pending, TInv, RoomForTar
    <3>2. Len(exports) < MaxExports
      BY <1>2, <2>2 DEF Pending, TInv, RoomForTar
    <3>3. QED
      BY <1>1, <2>1, <3>1, <3>2 DEF RoomForTar
  <2>3. CASE Head(todo) # "tar"
    <3>1. Pending("tar")' => Pending("tar")
      BY <1>4 DEF Pending
    <3>2. QED
      BY <1>1, <2>1, <2>3, <3>1 DEF TInv, TypeOK, RoomForTar
  <2>4. QED
    BY <2>2, <2>3
<1>11. QED
  BY <1>5, <1>7, <1>8, <1>9, <1>10

\* The script goes on with another command of its own.
LEMMA ScriptGoesOn ==
    ASSUME TInv, todo # <<>>, NEW c \in {"poll", "java"}, todo' = <<c>> \o Tail(todo),
           UNCHANGED files
    PROVE  /\ ScriptFirst' /\ TagBeforeDeploy' /\ RoomForTar' /\ RestoresExported'
           /\ todo' # <<>> /\ Head(todo') = c
<1>1. todo \in Seq(Commands)
  BY DEF TInv, ScriptFirst
<1>2. /\ Tail(todo) \in Seq(Commands)
      /\ Len(Tail(todo)) = Len(todo) - 1
      /\ Len(todo) \in Nat /\ Len(todo) >= 1
      /\ \A i \in 1 .. Len(Tail(todo)) : i + 1 \in 2 .. Len(todo) /\ Tail(todo)[i] = todo[i + 1]
  BY <1>1, TailOfTask
<1>3. /\ todo' \in Seq(Commands)
      /\ Len(todo') = Len(todo)
      /\ todo' # <<>> /\ Head(todo') = c
      /\ todo'[1] = c
      /\ \A i \in 2 .. Len(todo') : todo'[i] = Tail(todo)[i - 1]
  <2>1. <<c>> \in Seq(Commands) /\ Len(<<c>>) = 1 /\ <<c>>[1] = c
    BY DEF Commands, Scripting
  <2>2. /\ todo' \in Seq(Commands)
        /\ Len(todo') = Len(todo)
        /\ todo'[1] = c
        /\ \A i \in 2 .. Len(todo') : todo'[i] = Tail(todo)[i - 1]
    BY <1>2, <2>1, ConcatProperties
  <2>3. todo' # <<>> /\ Head(todo') = todo'[1]
    BY <1>2, <2>2
  <2>4. QED
    BY <2>2, <2>3
<1>4. \A i \in 2 .. Len(todo') : todo'[i] = todo[i]
  BY <1>2, <1>3
<1>5. ScriptFirst'
  BY <1>3, <1>4 DEF TInv, ScriptFirst
<1>6. TagBeforeDeploy'
  BY <1>3 DEF TagBeforeDeploy, Scripting
<1>7. \A i \in 1 .. Len(todo') : todo'[i] \notin {"poll", "java"} => todo'[i] = todo[i]
  BY <1>2, <1>3, <1>4
<1>8. RoomForTar'
  <2>1. Pending("tar")' => Pending("tar")
    BY <1>3, <1>7 DEF Pending
  <2>2. QED
    BY <2>1, <1>3, <1>7 DEF TInv, RoomForTar, files
<1>9. RestoresExported'
  <2>1. Pending("remove")' \/ Pending("extract")' => Pending("remove") \/ Pending("extract")
    BY <1>3, <1>7 DEF Pending
  <2>2. QED
    BY <2>1 DEF TInv, RestoresExported, files
<1>10. QED
  BY <1>3, <1>5, <1>6, <1>8, <1>9

\* What is wanted of a task that is begun with an archive to restore, or without.
Proper(task, f) ==
    /\ task \in Seq(Commands)
    /\ task # <<>> => Head(task) \notin {"poll", "java", "deploy", "sync"}
    /\ \A i \in 2 .. Len(task) : task[i] \notin Scripting
    /\ \A i \in 1 .. Len(task) : task[i] \in {"deploy", "sync"} => Head(task) \in Scripting
    /\ \A i \in 1 .. Len(task) : task[i] = "tar" => Len(exports) < MaxExports
    /\ \A i, j \in 1 .. Len(task) : task[i] = "tar" /\ task[j] = "tar" => i = j
    /\ \A i \in 1 .. Len(task) : task[i] \in {"remove", "extract"} => f \in 1 .. Len(exports)

\* A proper task may be begun.
LEMMA ProperBegins ==
    ASSUME NEW task, NEW f, Proper(task, f), todo' = task, file' = f,
           Len(exports') = Len(exports)
    PROVE  /\ ScriptFirst' /\ TagBeforeDeploy' /\ RoomForTar' /\ RestoresExported'
           /\ ~At("java")' /\ ~At("poll")' /\ ~At("deploy")' /\ ~At("sync")'
<1>1. ScriptFirst'
  BY DEF Proper, ScriptFirst
<1>2. TagBeforeDeploy'
  BY DEF Proper, TagBeforeDeploy, Pending
<1>3. RoomForTar'
  BY DEF Proper, RoomForTar, Pending
<1>4. RestoresExported'
  BY DEF Proper, RestoresExported, Pending
<1>5. QED
  BY <1>1, <1>2, <1>3, <1>4 DEF Proper, At

\* The tasks that deploy, and what is left after a failure, are proper.
LEMMA ShortTasks ==
    ASSUME NEW f
    PROVE  /\ Proper(Up, f) /\ Proper(Restart, f) /\ Proper(Down, f)
           /\ Proper(<<>>, f) /\ Proper(<<"save_on">>, f)
<1>1. Up \in Seq(Commands) /\ Restart \in Seq(Commands) /\ Down \in Seq(Commands)
      /\ <<>> \in Seq(Commands) /\ <<"save_on">> \in Seq(Commands)
  BY DEF Up, Restart, Down, Commands, Scripting
<1>2. Proper(Up, f)
  BY <1>1 DEF Up, Proper, Scripting
<1>3. Proper(Restart, f)
  BY <1>1 DEF Restart, Proper, Scripting
<1>4. Proper(Down, f)
  BY <1>1 DEF Down, Proper, Scripting
<1>5. Proper(<<>>, f) /\ Proper(<<"save_on">>, f)
  BY <1>1 DEF Proper, Scripting
<1>6. QED
  BY <1>2, <1>3, <1>4, <1>5

\* The tasks that export are, as long as there is room.
LEMMA ExportTasks ==
    ASSUME NEW f, RoomForExport
    PROVE  Proper(Export, f) /\ Proper(Upgrade, f)
<1>1. Export \in Seq(Commands)
  BY DEF Export, Commands, Scripting
<1>2. Proper(Export, f)
  BY <1>1 DEF Export, Proper, Scripting, RoomForExport
<1>3. Upgrade \in Seq(Commands)
  <2>1. <<"resolve">> \in Seq(Commands) /\ <<"sync", "rollout", "deploy">> \in Seq(Commands)
    BY DEF Commands, Scripting
  <2>2. QED
    BY <1>1, <2>1, ConcatProperties DEF Upgrade
<1>4. /\ Len(Upgrade) = 11 /\ Head(Upgrade) = "resolve"
      /\ Upgrade[1] = "resolve" /\ Upgrade[6] = "tar"
      /\ \A i \in 2 .. 11 : i # 6 => Upgrade[i] \notin Scripting \cup {"tar", "remove", "extract"}
  BY DEF Upgrade, Export, Scripting
<1>5. Proper(Upgrade, f)
  BY <1>3, <1>4 DEF Proper, Scripting, RoomForExport
<1>6. QED
  BY <1>2, <1>5

\* The task that restores is, if there is an archive.
LEMMA RestoreTask ==
    ASSUME NEW f \in 1 .. Len(exports)
    PROVE  Proper(Restore, f)
<1>1. Restore \in Seq(Commands)
  BY DEF Restore, Commands, Scripting
<1>2. QED
  BY <1>1 DEF Restore, Proper, Scripting

-----------------------------------------------------------------------------
(* Type correctness.                                                        *)

ClusterOK == ClusterTypeOK /\ (replicas = 1 => release # None)

\* A command that is not the script's and does not touch the archives.
LEMMA PlainCommand ==
    ASSUME TInv, ClusterOK', todo # <<>>, Head(todo) \notin Scripting, Done,
           UNCHANGED <<pinned, cache, tag, version, exports, file>>,
           named' \in {"same", "restarted", "gone"}, warned' \in BOOLEAN
    PROVE  TInv' /\ ~At("java")' /\ ~At("poll")'
<1>1. exports' \in Seq(Archives)
  BY DEF TInv, TypeOK
<1>2. /\ ScriptFirst' /\ TagBeforeDeploy' /\ RoomForTar' /\ RestoresExported'
      /\ ~At("java")' /\ ~At("poll")'
      /\ (At("deploy") \/ At("sync") => tag # None)'
      /\ file' \in 0 .. Len(exports') /\ Len(exports') <= MaxExports
  BY <1>1, CommandDone
<1>3. ScriptTypeOK'
  BY <1>2 DEF TInv, TypeOK, ScriptTypeOK
<1>4. QED
  BY <1>1, <1>2, <1>3 DEF TInv, TypeOK, ClusterOK

\* A pod that has to be replaced is the same pod.
LEMMA KickedPod ==
    ASSUME pod \in [phase : {"none", "starting", "running"},
                    release : Releases \cup {None}, kicked : BOOLEAN],
           pod' \in {pod, Kicked}
    PROVE  /\ pod' \in [phase : {"none", "starting", "running"},
                        release : Releases \cup {None}, kicked : BOOLEAN]
           /\ pod'.phase = pod.phase /\ pod'.release = pod.release
<1>1. (pod.phase # "none") \in BOOLEAN
  OBVIOUS
<1>2. QED
  BY <1>1 DEF Kicked

\* A Helm upgrade with a tag.
LEMMA HelmTypes ==
    ASSUME TInv, NEW t \in Tags, NEW sync \in BOOLEAN, Helm(pinned, t, sync)
    PROVE  ClusterOK'
<1>1. pinned \in Packs
  BY DEF TInv, TypeOK, ScriptTypeOK
<1>2. release' \in Releases /\ None \notin Releases
  BY <1>1, ClusterAssumption DEF Helm, Releases
<1>3. /\ pod' \in [phase : {"none", "starting", "running"},
                    release : Releases \cup {None}, kicked : BOOLEAN]
      /\ pod'.phase = "none" <=> pod'.release = None
  BY KickedPod DEF Helm, TInv, TypeOK, ClusterTypeOK
<1>4. QED
  BY <1>2, <1>3 DEF Helm, TInv, TypeOK, ClusterTypeOK, ClusterOK

\* The commands that deploy keep the types.
LEMMA DeployingTypes ==
    ASSUME TInv, Deploying
    PROVE  TInv' /\ ~At("java")' /\ ~At("poll")'
<1>0. named \in {"same", "restarted", "gone"} /\ warned \in BOOLEAN /\ ClusterOK
  BY DEF TInv, TypeOK, ClusterOK
<1>1. At("deploy") \/ At("sync") => tag \in Tags
  BY DEF TInv, TypeOK, ScriptTypeOK
<1>2. CASE Deploy
  <2>1. ClusterOK'
    BY <1>1, <1>2, HelmTypes DEF Deploy
  <2>2. QED
    BY <1>0, <1>2, <2>1, PlainCommand DEF Deploy, At, Scripting, files
<1>3. CASE Sync
  <2>1. ClusterOK'
    BY <1>1, <1>3, HelmTypes DEF Sync
  <2>2. QED
    BY <1>0, <1>3, <2>1, PlainCommand DEF Sync, At, Scripting, files
<1>4. CASE RolloutRestart
  <2>1. /\ pod' \in [phase : {"none", "starting", "running"},
                      release : Releases \cup {None}, kicked : BOOLEAN]
        /\ pod'.phase = "none" <=> pod'.release = None
    BY <1>0, <1>4, KickedPod DEF RolloutRestart, Kick, ClusterOK, ClusterTypeOK
  <2>2. ClusterOK'
    BY <1>0, <1>4, <2>1 DEF RolloutRestart, Kick, ClusterOK, ClusterTypeOK
  <2>3. QED
    BY <1>0, <1>4, <2>2, PlainCommand DEF RolloutRestart, At, Scripting, files
<1>5. CASE Rollout
  <2>1. ClusterOK'
    BY <1>0, <1>5 DEF Rollout, cluster, ClusterOK, ClusterTypeOK
  <2>2. QED
    BY <1>0, <1>5, <2>1, PlainCommand DEF Rollout, At, Scripting, files
<1>6. CASE HelmUninstall
  <2>1. ClusterOK'
    BY <1>0, <1>6 DEF HelmUninstall, Uninstall, ClusterOK, ClusterTypeOK
  <2>2. QED
    BY <1>0, <1>6, <2>1, PlainCommand DEF HelmUninstall, At, Scripting, files
<1>7. QED
  BY <1>2, <1>3, <1>4, <1>5, <1>6 DEF Deploying

\* So do the commands of restore.
LEMMA RestoringTypes ==
    ASSUME TInv, Restoring
    PROVE  TInv' /\ ~At("java")' /\ ~At("poll")'
<1>0. named \in {"same", "restarted", "gone"} /\ warned \in BOOLEAN /\ ClusterOK
  BY DEF TInv, TypeOK, ClusterOK
<1>1. CASE ScaleDown
  <2>1. ClusterOK'
    BY <1>0, <1>1 DEF ScaleDown, Scale, ClusterOK, ClusterTypeOK
  <2>2. QED
    BY <1>0, <1>1, <2>1, PlainCommand DEF ScaleDown, At, Scripting, files
<1>2. CASE WaitGone
  <2>1. ClusterOK'
    BY <1>0, <1>2 DEF WaitGone, cluster, ClusterOK, ClusterTypeOK
  <2>2. QED
    BY <1>0, <1>2, <2>1, PlainCommand DEF WaitGone, At, Scripting, files
<1>3. CASE Remove
  <2>1. ClusterOK'
    BY <1>0, <1>3 DEF Remove, ClusterOK, ClusterTypeOK
  <2>2. QED
    BY <1>0, <1>3, <2>1, PlainCommand DEF Remove, At, Scripting, files
<1>4. CASE Extract
  <2>1. Pending("extract")
    BY <1>4, TailOfTask DEF Extract, At, Pending, TInv, ScriptFirst
  <2>2. exports[file] \in Archives
    BY <2>1 DEF TInv, RestoresExported, TypeOK
  <2>3. ClusterOK'
    BY <1>0, <1>4, <2>2 DEF Extract, ClusterOK, ClusterTypeOK, Archives
  <2>4. QED
    BY <1>0, <1>4, <2>3, PlainCommand DEF Extract, At, Scripting, files
<1>5. CASE ScaleUp
  <2>1. ClusterOK'
    BY <1>0, <1>5 DEF ScaleUp, Scale, ClusterOK, ClusterTypeOK
  <2>2. QED
    BY <1>0, <1>5, <2>1, PlainCommand DEF ScaleUp, At, Scripting, files
<1>6. QED
  BY <1>1, <1>2, <1>3, <1>4, <1>5 DEF Restoring

\* What tar files is an archive, cut short until it ends.
LEMMA TarFiles ==
    ASSUME TInv, Tar
    PROVE  /\ exports' \in Seq(Archives)
           /\ Len(exports') = Len(exports) + 1
           /\ \A i \in 1 .. Len(exports) : exports'[i] = exports[i]
           /\ exports'[Len(exports) + 1] = CutShort
<1>1. CutShort \in Archives
  BY DEF CutShort, Archives
<1>2. exports' = Append(exports, CutShort) /\ exports \in Seq(Archives)
  BY DEF Tar, Filed, TInv, TypeOK
<1>3. QED
  BY <1>1, <1>2, AppendProperties

\* The end of tar makes the newest archive a finished one, of the world as it is.
LEMMA TarEndFiles ==
    ASSUME TInv, TarEnd
    PROVE  /\ exports' \in Seq(Archives)
           /\ Len(exports') = Len(exports)
           /\ \A i \in 1 .. Len(exports) : i # Len(exports) => exports'[i] = exports[i]
           /\ exports # <<>> =>
                 /\ Len(exports) \in 1 .. Len(exports)
                 /\ exports'[Len(exports)] =
                       [ done |-> TRUE, settled |-> settled, disturbed |-> named # "same",
                         kept |-> world.kept, pack |-> world.pack, label |-> packTxt ]
<1> DEFINE a == [ done |-> TRUE, settled |-> settled, disturbed |-> named # "same",
                  kept |-> world.kept, pack |-> world.pack, label |-> packTxt ]
           n == Len(exports)
<1>1. a \in Archives
  BY DEF TInv, TypeOK, ClusterTypeOK, Archives
<1>2. exports' = [exports EXCEPT ![n] = a] /\ exports \in Seq(Archives)
  BY DEF TarEnd, TInv, TypeOK
<1> HIDE DEF a
<1>3. CASE exports = <<>>
  <2>1. Len(exports) = 0 /\ exports \in [{} -> Archives]
    BY <1>2, <1>3
  <2>2. exports' = exports
    BY <1>2, <2>1
  <2>3. QED
    BY <1>2, <1>3, <2>1, <2>2
<1>4. CASE exports # <<>>
  <2>1. n \in 1 .. Len(exports)
    BY <1>2, <1>4, EmptySeq
  <2>2. /\ exports' \in Seq(Archives) /\ Len(exports') = Len(exports)
        /\ exports'[n] = a
        /\ \A i \in 1 .. Len(exports) : i # n => exports'[i] = exports[i]
    BY <1>1, <1>2, <2>1, ExceptSeq
  <2>3. QED
    BY <2>1, <2>2 DEF a
<1>5. QED
  BY <1>3, <1>4

\* So do the commands of export.
LEMMA ExportingTypes ==
    ASSUME TInv, Exporting
    PROVE  TInv' /\ ~At("java")' /\ ~At("poll")'
<1>0. named \in {"same", "restarted", "gone"} /\ warned \in BOOLEAN /\ ClusterOK
  BY DEF TInv, TypeOK, ClusterOK
<1>1. CASE NamePod
  <2>1. ClusterOK'
    BY <1>0, <1>1 DEF NamePod, cluster, ClusterOK, ClusterTypeOK
  <2>2. QED
    BY <1>0, <1>1, <2>1, PlainCommand DEF NamePod, At, Scripting, files
<1>2. CASE SaveOff
  <2>1. ClusterOK'
    BY <1>0, <1>2 DEF SaveOff, ClusterOK, ClusterTypeOK
  <2>2. QED
    BY <1>0, <1>2, <2>1, PlainCommand DEF SaveOff, At, Scripting, files
<1>3. CASE Flush
  <2>1. ClusterOK'
    BY <1>0, <1>3 DEF Flush, ClusterOK, ClusterTypeOK
  <2>2. QED
    BY <1>0, <1>3, <2>1, PlainCommand DEF Flush, At, Scripting, files
<1>4. CASE WritePackTxt
  <2>1. pod.release \in Releases
    BY <1>0, <1>4 DEF WritePackTxt, Exec, ClusterOK, ClusterTypeOK
  <2>2. ClusterOK'
    BY <1>0, <1>4, <2>1 DEF WritePackTxt, ClusterOK, ClusterTypeOK, Releases
  <2>3. QED
    BY <1>0, <1>4, <2>2, PlainCommand DEF WritePackTxt, At, Scripting, files
<1>5. CASE Tar
  <2>1. ClusterOK'
    BY <1>0, <1>5 DEF Tar, cluster, ClusterOK, ClusterTypeOK
  <2>2. todo # <<>> /\ Done /\ Head(todo) \notin Scripting
    BY <1>5 DEF Tar, At, Scripting
  <2>3. /\ exports' \in Seq(Archives)
        /\ Len(exports') = Len(exports) \/ (Head(todo) = "tar" /\ Len(exports') = Len(exports) + 1)
    BY <1>5, TarFiles DEF Tar, At
  <2>4. /\ ScriptFirst' /\ TagBeforeDeploy' /\ RoomForTar' /\ RestoresExported'
        /\ ~At("java")' /\ ~At("poll")'
        /\ (At("deploy") \/ At("sync") => tag # None)'
        /\ file' \in 0 .. Len(exports') /\ Len(exports') <= MaxExports
    BY <1>5, <2>2, <2>3, CommandDone DEF Tar
  <2>5. ScriptTypeOK'
    BY <1>5, <2>4 DEF Tar, TInv, TypeOK, ScriptTypeOK
  <2>6. QED
    BY <1>0, <1>5, <2>1, <2>3, <2>4, <2>5 DEF Tar, TInv, TypeOK, ClusterOK
<1>6. CASE TarEnd
  <2>1. ClusterOK'
    BY <1>0, <1>6 DEF TarEnd, cluster, ClusterOK, ClusterTypeOK
  <2>2. todo # <<>> /\ Head(todo) = "tar_end" /\ Head(todo) \notin Scripting
    BY <1>6 DEF TarEnd, At, Scripting
  <2>3. exports' \in Seq(Archives) /\ Len(exports') = Len(exports)
    BY <1>6, TarEndFiles
  <2>4. /\ ScriptFirst' /\ TagBeforeDeploy' /\ RoomForTar' /\ RestoresExported'
        /\ ~At("java")' /\ ~At("poll")'
        /\ (At("deploy") \/ At("sync") => tag # None)'
        /\ file' \in 0 .. Len(exports') /\ Len(exports') <= MaxExports
    <3>1. CASE Done
      BY <1>6, <2>2, <2>3, <3>1, CommandDone DEF TarEnd
    <3>2. CASE todo' = LeftToDo("tar_end")
      <4>1. Proper(todo', file)
        BY <3>2, ShortTasks DEF LeftToDo
      <4>2. QED
        BY <1>6, <2>3, <4>1, ProperBegins DEF TarEnd, TInv, TypeOK
    <3>3. QED
      BY <1>6, <3>1, <3>2 DEF TarEnd
  <2>5. ScriptTypeOK'
    BY <1>6, <2>4 DEF TarEnd, TInv, TypeOK, ScriptTypeOK
  <2>6. QED
    BY <1>0, <1>6, <2>1, <2>3, <2>4, <2>5 DEF TarEnd, TInv, TypeOK, ClusterOK
<1>7. CASE SaveOn
  <2>1. ClusterOK'
    BY <1>0, <1>7 DEF SaveOn, ClusterOK, ClusterTypeOK
  <2>2. QED
    BY <1>0, <1>7, <2>1, PlainCommand DEF SaveOn, At, Scripting, files
<1>8. CASE SaveOnFails
  <2>1. ClusterOK'
    BY <1>0, <1>8 DEF SaveOnFails, cluster, ClusterOK, ClusterTypeOK
  <2>2. QED
    BY <1>0, <1>8, <2>1, PlainCommand DEF SaveOnFails, At, Scripting, files
<1>9. QED
  BY <1>1, <1>2, <1>3, <1>4, <1>5, <1>6, <1>7, <1>8 DEF Exporting

\* The script keeps the types: wherever it ends, it has printed a tag.
LEMMA ScriptTypes ==
    ASSUME TInv, Script
    PROVE  TInv'
<1>0. /\ named \in {"same", "restarted", "gone"} /\ warned \in BOOLEAN /\ ClusterOK
      /\ exports \in Seq(Archives) /\ Len(exports) <= MaxExports /\ file \in 0 .. Len(exports)
      /\ UNCHANGED files
      /\ pinned \in Packs /\ cache \in [Packs -> Tags \cup {None}]
      /\ tag \in Tags \cup {None} /\ version \in Packs \cup {None}
      /\ None \notin Packs
  BY ClusterAssumption DEF Script, TInv, TypeOK, ScriptTypeOK, ClusterOK
<1>1. ASSUME Done, todo # <<>>, tag' \in Tags, ClusterOK',
             pinned' \in Packs, cache' \in [Packs -> Tags \cup {None}], version' = version
      PROVE  TInv'
  <2>1. exports' \in Seq(Archives) /\ Len(exports') = Len(exports) /\ exports' = exports
    BY <1>0 DEF files
  <2>2. /\ ScriptFirst' /\ TagBeforeDeploy' /\ RoomForTar' /\ RestoresExported'
        /\ ~At("java")' /\ ~At("poll")'
        /\ (At("deploy") \/ At("sync") => tag # None)'
        /\ file' \in 0 .. Len(exports') /\ Len(exports') <= MaxExports
    BY <1>0, <1>1, <2>1, CommandDone DEF files
  <2>3. ScriptTypeOK'
    BY <1>0, <1>1, <2>2 DEF ScriptTypeOK
  <2>4. QED
    BY <1>0, <1>1, <2>1, <2>2, <2>3 DEF TInv, TypeOK, ClusterOK, files
<1>2. ASSUME NEW c \in {"poll", "java"}, todo # <<>>, todo' = <<c>> \o Tail(todo), ClusterOK',
             UNCHANGED <<pinned, cache, tag>>, version' \in Packs \cup {None},
             c = "java" => version' \in Packs
      PROVE  TInv'
  <2>1. /\ ScriptFirst' /\ TagBeforeDeploy' /\ RoomForTar' /\ RestoresExported'
        /\ todo' # <<>> /\ Head(todo') = c
    BY <1>0, <1>2, ScriptGoesOn
  <2>2. ScriptTypeOK'
    BY <1>0, <1>2, <2>1 DEF ScriptTypeOK, At
  <2>3. QED
    BY <1>0, <1>2, <2>1, <2>2 DEF TInv, TypeOK, ClusterOK, files
<1>3. UNCHANGED cluster => ClusterOK'
  BY <1>0 DEF cluster, ClusterOK, ClusterTypeOK
<1>4. CASE CacheHit
  BY <1>0, <1>1, <1>3, <1>4 DEF CacheHit, At
<1>5. CASE AskApi
  BY <1>0, <1>2, <1>3, <1>5 DEF AskApi, At
<1>6. CASE DeployToPoll
  <2>1. ClusterOK'
    BY <1>0, <1>3, <1>6, HelmTypes DEF DeployToPoll, Tags
  <2>2. QED
    BY <1>0, <1>2, <1>6, <2>1 DEF DeployToPoll, At
<1>7. CASE Poll
  <2>1. manifest \in Packs
    BY <1>0, <1>7 DEF Poll, ClusterOK, ClusterTypeOK
  <2>2. QED
    BY <1>0, <1>2, <1>3, <1>7, <2>1 DEF Poll, At
<1>8. CASE FallBack
  BY <1>0, <1>1, <1>3, <1>8 DEF FallBack, At, Tags
<1>9. CASE LookUpJava
  <2>1. version \in Packs
    BY <1>0, <1>9 DEF LookUpJava, TInv, TypeOK, ScriptTypeOK
  <2>2. tag' \in Tags
    BY <1>9, <2>1 DEF LookUpJava, Tags
  <2>3. cache' \in [Packs -> Tags \cup {None}]
    BY <1>0, <1>9, <2>2 DEF LookUpJava
  <2>4. QED
    BY <1>0, <1>1, <1>3, <1>9, <2>2, <2>3 DEF LookUpJava, At
<1>10. CASE AssumeJava8
  <2>1. tag' \in Tags
    BY <1>10 DEF AssumeJava8, Tags
  <2>2. cache' \in [Packs -> Tags \cup {None}]
    BY <1>0, <1>10, <2>1 DEF AssumeJava8
  <2>3. QED
    BY <1>0, <1>1, <1>3, <1>10, <2>1, <2>2 DEF AssumeJava8, At
<1>11. QED
  BY <1>4, <1>5, <1>6, <1>7, <1>8, <1>9, <1>10 DEF Script, Resolve

\* A proper task is begun, or left after a failure.
LEMMA ProperTypes ==
    ASSUME TInv, NEW task, NEW f \in 0 .. Len(exports), Proper(task, f),
           todo' = task, file' = f, tag' \in Tags \cup {None}, version' \in Packs \cup {None},
           warned' \in BOOLEAN, UNCHANGED <<pinned, cache, cluster, exports, named>>
    PROVE  TInv' /\ ~At("java")' /\ ~At("poll")'
<1>1. /\ ScriptFirst' /\ TagBeforeDeploy' /\ RoomForTar' /\ RestoresExported'
      /\ ~At("java")' /\ ~At("poll")' /\ ~At("deploy")' /\ ~At("sync")'
  BY ProperBegins
<1>2. ClusterOK'
  BY DEF TInv, TypeOK, cluster, ClusterTypeOK, ClusterOK
<1>3. ScriptTypeOK'
  BY <1>1 DEF TInv, TypeOK, ScriptTypeOK
<1>4. QED
  BY <1>1, <1>2, <1>3 DEF TInv, TypeOK, ClusterOK

\* So does what the operator starts, and what a failure leaves to do.
LEMMA OperatorTypes ==
    ASSUME TInv, Operator \/ Fail \/ Kill
    PROVE  TInv' /\ (~At("java") /\ ~At("poll"))'
<1>0. /\ 0 \in 0 .. Len(exports) /\ file \in 0 .. Len(exports)
      /\ tag \in Tags \cup {None} /\ version \in Packs \cup {None}
      /\ warned \in BOOLEAN
  BY DEF TInv, TypeOK, ScriptTypeOK
<1>1. CASE StartTask
  <2>1. PICK task : Proper(task, 0) /\ Begin(task)
    BY <1>1, ShortTasks, ExportTasks DEF StartTask
  <2>2. QED
    BY <1>0, <1>1, <2>1, ProperTypes DEF StartTask, Begin
<1>2. CASE StartRestore
  <2>1. PICK i \in 1 .. Len(exports) : file' = i
    BY <1>2 DEF StartRestore
  <2>2. Proper(Restore, i) /\ i \in 0 .. Len(exports)
    BY <2>1, RestoreTask
  <2>3. QED
    BY <1>0, <1>2, <2>1, <2>2, ProperTypes DEF StartRestore, Begin
<1>3. CASE Edit
  <2>1. PICK p \in Edits[pinned] : pinned' = p
    BY <1>3 DEF Edit
  <2>2. pinned' \in Packs
    BY <2>1, OperatorAssumption DEF TInv, TypeOK, ScriptTypeOK
  <2>3. todo = <<>> /\ UNCHANGED <<cache, todo, tag, version, cluster, files>>
    BY <1>3 DEF Edit
  <2>4. ClusterOK' /\ ScriptTypeOK'
    BY <2>2, <2>3 DEF TInv, TypeOK, ScriptTypeOK, At, cluster, ClusterTypeOK, ClusterOK
  <2>5. ScriptFirst' /\ TagBeforeDeploy' /\ RoomForTar' /\ RestoresExported'
    BY <2>3 DEF TInv, ScriptFirst, TagBeforeDeploy, RoomForTar, RestoresExported, Pending, files
  <2>6. QED
    BY <2>3, <2>4, <2>5 DEF TInv, TypeOK, ClusterOK, files, At
<1>4. CASE Fail
  <2>1. Proper(todo', file)
    BY <1>4, ShortTasks DEF Fail, LeftToDo
  <2>2. QED
    BY <1>0, <1>4, <2>1, ProperTypes DEF Fail, files
<1>5. CASE Kill
  <2>1. Proper(todo', file) /\ warned' \in BOOLEAN
    BY <1>5, ShortTasks, Zenon DEF Kill
  <2>2. QED
    BY <1>0, <1>5, <2>1, ProperTypes DEF Kill
<1>6. QED
  BY <1>1, <1>2, <1>3, <1>4, <1>5 DEF Operator

\* And what Kubernetes and the image do.
LEMMA ClusterTypes ==
    ASSUME TInv, PodGone \/ PodCrashes \/ PodStarts
    PROVE  TInv'
<1>0. named \in {"same", "restarted", "gone"} /\ warned \in BOOLEAN /\ ClusterOK
  BY DEF TInv, TypeOK, ClusterOK
<1>1. named' \in {"same", "restarted", "gone"} /\ warned' \in BOOLEAN
  BY <1>0 DEF PodGone, PodCrashes, PodStarts, files
<1>2. UNCHANGED <<pinned, cache, todo, tag, version, exports, file>>
  BY DEF PodGone, PodCrashes, PodStarts, script, files
<1>3. ClusterOK'
  <2>1. CASE PodGone
    <3>1. pod' = NoPod /\ UNCHANGED <<release, replicas, manifest, world>>
          /\ saving' = TRUE /\ settled' = FALSE /\ packTxt' = None
      BY <2>1 DEF PodGone, Terminate
    <3>2. QED
      BY <1>0, <3>1 DEF NoPod, ClusterOK, ClusterTypeOK
  <2>2. CASE PodCrashes
    BY <1>0, <2>2 DEF PodCrashes, Crash, ClusterOK, ClusterTypeOK
  <2>3. CASE Create
    BY <1>0, <2>3 DEF Create, ClusterOK, ClusterTypeOK
  <2>4. CASE Install
    <3>1. pod.release \in Releases
      BY <1>0, <2>4 DEF Install, ClusterOK, ClusterTypeOK
    <3>2. QED
      BY <1>0, <2>4, <3>1 DEF Install, ClusterOK, ClusterTypeOK, Releases
  <2>5. CASE Boot
    <3>1. pod.release \in Releases
      BY <1>0, <2>5 DEF Boot, ClusterOK, ClusterTypeOK
    <3>2. QED
      BY <1>0, <2>5, <3>1 DEF Boot, ClusterOK, ClusterTypeOK, Releases
  <2>6. QED
    BY <2>1, <2>2, <2>3, <2>4, <2>5 DEF PodStarts
<1>4. ScriptTypeOK'
  BY <1>2 DEF TInv, TypeOK, ScriptTypeOK, At
<1>5. ScriptFirst' /\ TagBeforeDeploy' /\ RoomForTar' /\ RestoresExported'
  BY <1>2 DEF TInv, ScriptFirst, TagBeforeDeploy, RoomForTar, RestoresExported, Pending
<1>6. QED
  BY <1>1, <1>2, <1>3, <1>4, <1>5 DEF TInv, TypeOK, ClusterOK

\* An empty cluster and a pinned pack.
LEMMA TypesAtFirst == Init => TInv
<1> SUFFICES ASSUME Init PROVE TInv
  OBVIOUS
<1>1. <<>> \in Seq(Archives) /\ Len(<<>>) = 0 /\ <<>> \in Seq(Commands)
  BY EmptySeq
<1>2. ClusterTypeOK /\ replicas = 0
  <2>1. /\ release = None /\ replicas = 0 /\ saving = TRUE /\ settled = FALSE
        /\ packTxt = None /\ manifest = None
    BY DEF Init, ClusterInit
  <2>2. /\ pod.phase = "none" /\ pod.release = None
        /\ pod \in [phase : {"none", "starting", "running"},
                    release : Releases \cup {None}, kicked : BOOLEAN]
    BY DEF Init, ClusterInit, NoPod
  <2>3. world \in [pack : Packs \cup {None}, kept : BOOLEAN]
    BY DEF Init, ClusterInit
  <2>4. release \in Releases \cup {None} /\ packTxt \in Packs \cup {None}
        /\ manifest \in Packs \cup {None}
    BY <2>1
  <2>5. saving \in BOOLEAN /\ settled \in BOOLEAN
    BY <2>1, Zenon
  <2>6. replicas \in 0 .. 1
    BY <2>1, SMT
  <2>7. pod.phase = "none" <=> pod.release = None
    BY <2>2
  <2>8. QED
    BY <2>1, <2>2, <2>3, <2>4, <2>5, <2>6, <2>7, Zenon DEF ClusterTypeOK
<1>3. ScriptTypeOK
  BY DEF Init, ScriptInit, ScriptTypeOK, At
<1>4. TypeOK
  <2>1. exports = <<>> /\ file = 0 /\ named = "gone" /\ warned = FALSE
    BY DEF Init
  <2>2. exports \in Seq(Archives) /\ Len(exports) = 0
    BY <1>1, <2>1
  <2>3. Len(exports) <= MaxExports /\ file \in 0 .. Len(exports)
    BY <2>1, <2>2, OperatorAssumption
  <2>4. named \in {"same", "restarted", "gone"} /\ warned \in BOOLEAN
    BY <2>1
  <2>5. QED
    BY <1>2, <1>3, <2>2, <2>3, <2>4 DEF TypeOK
<1>5. todo = <<>> /\ Len(todo) = 0
  BY <1>1 DEF Init, ScriptInit
<1>6. QED
  BY <1>1, <1>2, <1>4, <1>5
     DEF TInv, ScriptFirst, TagBeforeDeploy, RoomForTar, RestoresExported, Pending

\* Every step keeps the types.
LEMMA TypesKept == TInv /\ [Next]_vars => TInv'
<1> SUFFICES ASSUME TInv, [Next]_vars PROVE TInv'
  OBVIOUS
<1>1. CASE UNCHANGED vars
  BY <1>1 DEF vars, cluster, script, files, TInv, TypeOK, ClusterTypeOK, ScriptTypeOK, At,
              ScriptFirst, TagBeforeDeploy, RoomForTar, RestoresExported, Pending
<1>2. QED
  BY <1>1, OperatorTypes, ScriptTypes, DeployingTypes, ExportingTypes, RestoringTypes, ClusterTypes
     DEF Next

\* Every state of the world operations is well typed; in particular nothing is
\* deployed without a tag, however the script ended.
THEOREM OpsTypeCorrect == Spec => []TypeOK
<1>1. TInv => TypeOK
  BY DEF TInv
<1>2. QED
  BY <1>1, TypesAtFirst, TypesKept, PTL DEF Spec

-----------------------------------------------------------------------------
(* With an API that answers for every pack, the cache is right.             *)

\* The script asks the API about the pinned pack, which nobody edits meanwhile.
LEMMA CacheStaysRight ==
    ASSUME Packs \subseteq ApiKnows, CInv, [Next]_vars
    PROVE  CInv'
<1>0. TInv /\ CacheIsRight /\ TInv' /\ pinned \in Packs /\ cache \in [Packs -> Tags \cup {None}]
  BY TypesKept DEF CInv, TInv, TypeOK, ScriptTypeOK
<1>1. ASSUME UNCHANGED cache, ~At("java")', ~At("poll")' PROVE CInv'
  BY <1>0, <1>1 DEF CInv, CacheIsRight
<1>2. ASSUME UNCHANGED <<cache, pinned, todo, version>> PROVE CInv'
  BY <1>0, <1>2 DEF CInv, CacheIsRight, At
<1>3. CASE Operator \/ Fail \/ Kill
  BY <1>0, <1>1, <1>3, OperatorTypes
     DEF Operator, StartTask, StartRestore, Begin, Edit, Fail, Kill
<1>4. CASE Deploying
  BY <1>0, <1>1, <1>4, DeployingTypes
     DEF Deploying, Deploy, Sync, RolloutRestart, Rollout, HelmUninstall
<1>5. CASE Exporting
  <2>1. UNCHANGED cache
    BY <1>5 DEF Exporting, NamePod, SaveOff, Flush, WritePackTxt, Tar, TarEnd, SaveOn, SaveOnFails
  <2>2. QED
    BY <1>0, <1>1, <1>5, <2>1, ExportingTypes
<1>6. CASE Restoring
  BY <1>0, <1>1, <1>6, RestoringTypes
     DEF Restoring, ScaleDown, WaitGone, Remove, Extract, ScaleUp
<1>7. CASE PodGone \/ PodCrashes \/ PodStarts \/ UNCHANGED vars
  BY <1>2, <1>7 DEF PodGone, PodCrashes, PodStarts, vars, script
<1>8. CASE Script
  <2>1. ~DeployToPoll /\ ~Poll
    BY <1>0 DEF DeployToPoll, Poll, CInv
  <2>2. ASSUME Done, todo # <<>> PROVE ~At("java")' /\ ~At("poll")'
    <3>1. Plain(todo')
      BY <1>0, <2>2, PlainTail DEF Done, TInv
    <3>2. QED
      BY <3>1, PlainHead DEF At, Scripting
  <2>3. CASE AskApi
    <3>1. todo' # <<>> /\ Head(todo') = "java"
      BY <1>0, <1>8, <2>3, ScriptGoesOn DEF Script, AskApi, At
    <3>2. QED
      BY <1>0, <2>3, <3>1 DEF AskApi, At, CInv, CacheIsRight
  <2>4. CASE CacheHit \/ FallBack
    BY <1>1, <2>2, <2>4 DEF CacheHit, FallBack, At
  <2>5. CASE LookUpJava
    <3>1. version = pinned
      BY <2>5 DEF LookUpJava, CInv
    <3>2. ~At("java")' /\ ~At("poll")'
      BY <2>2, <2>5 DEF LookUpJava, At
    <3>3. CacheIsRight'
      BY <1>0, <2>5, <3>1 DEF LookUpJava, CacheIsRight
    <3>4. QED
      BY <1>0, <3>2, <3>3 DEF CInv
  <2>6. CASE AssumeJava8
    <3>1. ~At("java")' /\ ~At("poll")'
      BY <2>2, <2>6 DEF AssumeJava8, At
    <3>2. CacheIsRight'
      BY <1>0, <2>6 DEF AssumeJava8, CacheIsRight
    <3>3. QED
      BY <1>0, <3>1, <3>2 DEF CInv
  <2>7. QED
    BY <1>8, <2>1, <2>3, <2>4, <2>5, <2>6 DEF Script, Resolve
<1>9. QED
  BY <1>3, <1>4, <1>5, <1>6, <1>7, <1>8 DEF Next

\* Where the API answers for every pack that may be pinned, no sequence of tasks,
\* failures and edits ever caches another pack's tag under a file id: what is cached
\* is the tag of that pack, or the java8 of an answer that names no Java.
THEOREM ApiKeepsCacheRight ==
    ASSUME Packs \subseteq ApiKnows
    PROVE  Spec => []CacheIsRight
<1>1. Init => CInv
  <2>1. Init => CacheIsRight /\ ~At("poll") /\ ~At("java")
    BY DEF Init, ScriptInit, CacheIsRight, At
  <2>2. QED
    BY <2>1, TypesAtFirst DEF CInv
<1>2. CInv /\ [Next]_vars => CInv'
  BY CacheStaysRight
<1>3. CInv => CacheIsRight
  BY DEF CInv
<1>4. QED
  BY <1>1, <1>2, <1>3, PTL DEF Spec
=============================================================================
