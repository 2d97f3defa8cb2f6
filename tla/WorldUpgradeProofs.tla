------------------------- MODULE WorldUpgradeProofs ------------------------
(***************************************************************************)
(* Proof about WorldOps: where the API answers for every pack, an upgrade  *)
(* exports the world before it touches anything.                           *)
(***************************************************************************)
EXTENDS WorldStagesProofs

(* The order of an upgrade.                                                 *)

\* What is left of a task keeps its order; the command just done precedes nothing.
LEMMA PrecedesTail ==
    ASSUME NEW s \in Seq(Commands), s # <<>>, NEW c, NEW d, Precedes(s, c, d)
    PROVE  Precedes(Tail(s), c, d)
<1>1. /\ Len(s) \in Nat /\ Tail(s) \in Seq(Commands) /\ Len(Tail(s)) = Len(s) - 1
      /\ \A i \in 1 .. Len(Tail(s)) : i + 1 \in 1 .. Len(s) /\ Tail(s)[i] = s[i + 1]
  BY TailOfTask
<1>2. ASSUME NEW i \in 1 .. Len(Tail(s)), NEW j \in 1 .. Len(Tail(s)),
             Tail(s)[i] = c, Tail(s)[j] = d
      PROVE  i < j
  <2>1. i + 1 \in 1 .. Len(s) /\ j + 1 \in 1 .. Len(s) /\ s[i + 1] = c /\ s[j + 1] = d
    BY <1>1, <1>2
  <2>2. i + 1 < j + 1
    BY <2>1 DEF Precedes
  <2>3. QED
    BY <1>1, <2>2
<1>3. QED
  BY <1>2 DEF Precedes

LEMMA UpgradeTail ==
    ASSUME NEW s \in Seq(Commands), s # <<>>, UpgradeInOrder(s)
    PROVE  UpgradeInOrder(Tail(s))
<1>1. Adjacent(Tail(s), "name_pod", "save_off")
  BY AdjacentTail DEF UpgradeInOrder
<1>2. Precedes(Tail(s), "tar_end", "sync") /\ Precedes(Tail(s), "sync", "deploy")
  BY PrecedesTail DEF UpgradeInOrder
<1>3. \A i \in 1 .. Len(Tail(s)) : i + 1 \in 1 .. Len(s) /\ Tail(s)[i] = s[i + 1]
  BY TailOfTask
<1>4. \A i, j \in 1 .. Len(Tail(s)) :
         Tail(s)[i] = "sync" => Tail(s)[j] \notin {"remove", "extract"}
  BY <1>3 DEF UpgradeInOrder
<1>5. QED
  BY <1>1, <1>2, <1>4 DEF UpgradeInOrder

\* When the script goes on, the rest of the task is where it was.
LEMMA UpgradeScript ==
    ASSUME NEW s \in Seq(Commands), s # <<>>, Head(s) \in Scripting,
           NEW x \in {"poll", "java"}, UpgradeInOrder(s)
    PROVE  /\ UpgradeInOrder(<<x>> \o Tail(s))
           /\ \A c \in {"sync", "deploy", "tar_end"} :
                 (\E i \in 1 .. Len(<<x>> \o Tail(s)) : (<<x>> \o Tail(s))[i] = c) <=>
                 (\E i \in 1 .. Len(s) : s[i] = c)
<1> DEFINE t == <<x>> \o Tail(s)
<1>1. /\ Len(s) \in Nat /\ Len(s) >= 1 /\ Head(s) = s[1]
      /\ Tail(s) \in Seq(Commands) /\ Len(Tail(s)) = Len(s) - 1
      /\ \A i \in 1 .. Len(Tail(s)) : i + 1 \in 2 .. Len(s) /\ Tail(s)[i] = s[i + 1]
  BY TailOfTask
<1>2. <<x>> \in Seq(Commands) /\ Len(<<x>>) = 1 /\ <<x>>[1] = x
  BY DEF Commands, Scripting
<1>3. /\ Len(t) = Len(s) /\ t[1] = x /\ \A i \in 2 .. Len(t) : t[i] = Tail(s)[i - 1]
  BY <1>1, <1>2, ConcatProperties
<1>4. Adjacent(t, "name_pod", "save_off")
  BY AdjacentScript DEF UpgradeInOrder, Scripting
<1> HIDE DEF t
<1>5. \A i \in 2 .. Len(s) : t[i] = s[i]
  BY <1>1, <1>3
<1>6. x \notin {"sync", "deploy", "tar_end", "remove", "extract"}
      /\ s[1] \notin {"sync", "deploy", "tar_end", "remove", "extract"}
  BY <1>1 DEF Scripting
<1>7. \A i \in 1 .. Len(s), c \in {"sync", "deploy", "tar_end", "remove", "extract"} :
         t[i] = c <=> s[i] = c
  BY <1>1, <1>3, <1>5, <1>6
<1>8. Precedes(t, "tar_end", "sync") /\ Precedes(t, "sync", "deploy")
  BY <1>3, <1>7 DEF UpgradeInOrder, Precedes
<1>9. \A i, j \in 1 .. Len(t) : t[i] = "sync" => t[j] \notin {"remove", "extract"}
  BY <1>3, <1>7 DEF UpgradeInOrder
<1>10. \A c \in {"sync", "deploy", "tar_end"} :
          (\E i \in 1 .. Len(t) : t[i] = c) <=> (\E i \in 1 .. Len(s) : s[i] = c)
  BY <1>3, <1>7
<1>11. QED
  BY <1>4, <1>8, <1>9, <1>10 DEF UpgradeInOrder, t

\* Every task is begun in this order, and a failure leaves none of it to do.
LEMMA UpgradesInOrder ==
    /\ UpgradeInOrder(Up) /\ UpgradeInOrder(Down) /\ UpgradeInOrder(Restart)
    /\ UpgradeInOrder(Export) /\ UpgradeInOrder(Upgrade) /\ UpgradeInOrder(Restore)
    /\ UpgradeInOrder(<<>>) /\ UpgradeInOrder(<<"save_on">>)
<1>1. UpgradeInOrder(Up) /\ UpgradeInOrder(Down) /\ UpgradeInOrder(Restart)
  BY DEF Up, Down, Restart, UpgradeInOrder, Adjacent, Precedes
<1>2. UpgradeInOrder(<<>>) /\ UpgradeInOrder(<<"save_on">>)
  BY DEF UpgradeInOrder, Adjacent, Precedes
<1>3. UpgradeInOrder(Export) /\ UpgradeInOrder(Restore)
  BY DEF Export, Restore, UpgradeInOrder, Adjacent, Precedes
<1>4. UpgradeInOrder(Upgrade)
  BY DEF Upgrade, Export, UpgradeInOrder, Adjacent, Precedes
<1>5. QED
  BY <1>1, <1>2, <1>3, <1>4

\* What is pending when a command is done was pending; all else of it still is.
LEMMA PendingAfter ==
    ASSUME TInv, todo # <<>>, Done
    PROVE  \A c : /\ Pending(c)' => Pending(c)
                  /\ Pending(c) /\ Head(todo) # c => Pending(c)'
<1>1. /\ Len(todo) \in Nat /\ Head(todo) = todo[1] /\ todo' = Tail(todo)
      /\ Len(Tail(todo)) = Len(todo) - 1
      /\ \A i \in 1 .. Len(Tail(todo)) : i + 1 \in 2 .. Len(todo) /\ Tail(todo)[i] = todo[i + 1]
  BY TailOfTask DEF TInv, ScriptFirst, Done
<1>2. ASSUME NEW c, Pending(c), Head(todo) # c PROVE Pending(c)'
  <2>1. PICK i \in 1 .. Len(todo) : todo[i] = c
    BY <1>2 DEF Pending
  <2>2. i # 1 /\ i - 1 \in 1 .. Len(Tail(todo)) /\ (i - 1) + 1 = i
    BY <1>1, <1>2, <2>1
  <2>3. Tail(todo)[i - 1] = todo[(i - 1) + 1]
    BY <1>1, <2>2
  <2>4. QED
    BY <1>1, <2>1, <2>2, <2>3 DEF Pending
<1>3. ASSUME NEW c, Pending(c)' PROVE Pending(c)
  BY <1>1, <1>3 DEF Pending
<1>4. QED
  BY <1>2, <1>3

\* As long as the end of the archive is to come after the next command.
LEMMA ExportPending ==
    ASSUME TInv, InOrder(todo), UpgradeInOrder(todo)
    PROVE  /\ Pending("tar") => Pending("tar_end")
           /\ Pending("pack_txt") => Pending("tar_end")
           /\ Pending("flush") => Pending("tar_end")
           /\ Pending("save_off") => Pending("tar_end")
           /\ Pending("name_pod") => Pending("tar_end")
<1>1. \A c, d : Adjacent(todo, c, d) /\ Pending(c) => Pending(d)
  BY DEF Adjacent, Pending
<1>2. QED
  BY <1>1 DEF InOrder, UpgradeInOrder

\* The next command is a pending one.
LEMMA NextIsPending ==
    ASSUME TInv
    PROVE  \A c : At(c) => Pending(c)
BY TailOfTask DEF TInv, ScriptFirst, At, Pending

\* An upgrade at its sync has exported, one at its last deployment has synchronized.
LEMMA SyncHasExported ==
    ASSUME TInv, UpgradeInOrder(todo)
    PROVE  /\ At("sync") => ~Pending("tar_end")
           /\ At("deploy") => ~Pending("sync")
<1>1. todo # <<>> => Head(todo) = todo[1] /\ 1 \in 1 .. Len(todo)
  BY TailOfTask DEF TInv, ScriptFirst
<1>2. QED
  BY <1>1 DEF UpgradeInOrder, Precedes, At, Pending

-----------------------------------------------------------------------------
(* The invariant.                                                           *)

\* The next command of a task is done; an upgrade that has exported finds the archive
\* and the world as they were.
LEMMA CommandUpgrades ==
    ASSUME UInv, SInv', todo # <<>>, Done, Head(todo) # "tar_end", pinned' = pinned,
           \/ release' = release /\ Head(todo) # "sync"
           \/ release' = None
           \/ release'.pack = pinned,
           HasExported' => /\ UNCHANGED <<world, exports, named>>
                           /\ pod'.phase = pod.phase /\ pod'.release = pod.release
    PROVE  UInv'
<1>1. TInv /\ todo \in Seq(Commands) /\ todo' = Tail(todo)
  BY DEF UInv, SInv, TInv, ScriptFirst, Done
<1>2. UpgradeInOrder(todo)'
  BY <1>1, UpgradeTail DEF UInv
<1>3. \A c : /\ Pending(c)' => Pending(c)
             /\ Pending(c) /\ Head(todo) # c => Pending(c)'
  BY <1>1, PendingAfter
<1>4. DeploysInstalled'
  BY <1>3 DEF UInv, DeploysInstalled
<1>5. HasExported' => HasExported
  BY <1>3 DEF HasExported
<1>6. StaysExported'
  BY <1>5 DEF UInv, StaysExported
<1>7. QED
  BY <1>2, <1>4, <1>6 DEF UInv

\* No upgrade has exported before these.
LEMMA NotExportedYet ==
    ASSUME UInv, todo # <<>>, Done,
           Head(todo) \in {"name_pod", "save_off", "tar", "remove", "extract"}
    PROVE  ~HasExported'
<1>1. TInv /\ InOrder(todo) /\ UpgradeInOrder(todo)
  BY DEF UInv, SInv
<1>2. \A c : /\ Pending(c)' => Pending(c)
             /\ Pending(c) /\ Head(todo) # c => Pending(c)'
  BY <1>1, PendingAfter
<1>3. Pending(Head(todo))
  BY <1>1, NextIsPending DEF At
<1>4. CASE Head(todo) \in {"name_pod", "save_off", "tar"}
  BY <1>1, <1>2, <1>3, <1>4, ExportPending DEF HasExported
<1>5. CASE Head(todo) \in {"remove", "extract"}
  <2>1. ~Pending("sync")
    BY <1>1, <1>3, <1>5 DEF UpgradeInOrder, Pending
  <2>2. QED
    BY <1>2, <2>1 DEF HasExported
<1>6. QED
  BY <1>4, <1>5

\* A task is begun, or ended by a failure: nothing of an upgrade is half done.
LEMMA TaskUpgrades ==
    ASSUME UInv, SInv', NEW task, todo' = task, UpgradeInOrder(task),
           Pending("sync")' => Pending("tar_end")',
           Pending("deploy")' /\ ~Pending("sync")' => release' = None \/ release'.pack = pinned'
    PROVE  UInv'
BY DEF UInv, DeploysInstalled, StaysExported, HasExported

LEMMA OperatorUpgrades ==
    ASSUME UInv, SInv', Operator \/ Fail \/ Kill
    PROVE  UInv'
<1>1. CASE Edit
  <2>1. todo = <<>> /\ todo' = <<>> /\ Len(<<>>) = 0
    BY <1>1 DEF Edit
  <2>2. ~Pending("sync")' /\ ~Pending("deploy")' /\ UpgradeInOrder(<<>>)
    BY <2>1, UpgradesInOrder DEF Pending
  <2>3. QED
    BY <2>1, <2>2, TaskUpgrades
<1>2. CASE StartTask
  <2>1. CASE \/ Begin(Up) /\ (release = None \/ PinnedInstalled)
             \/ Begin(Restart) /\ PinnedInstalled
    <3>1. todo' \in {Up, Restart} /\ UpgradeInOrder(todo')
      BY <2>1, UpgradesInOrder DEF Begin
    <3>2. ~Pending("sync")'
      BY <3>1 DEF Up, Restart, Pending
    <3>3. release' = None \/ release'.pack = pinned'
      BY <2>1 DEF PinnedInstalled, Begin, cluster
    <3>4. QED
      BY <3>1, <3>2, <3>3, TaskUpgrades
  <2>2. CASE Begin(Down) \/ Begin(Export)
    <3>1. todo' \in {Down, Export} /\ UpgradeInOrder(todo')
      BY <2>2, UpgradesInOrder DEF Begin
    <3>2. ~Pending("sync")' /\ ~Pending("deploy")'
      BY <3>1 DEF Down, Export, Pending
    <3>3. QED
      BY <3>1, <3>2, TaskUpgrades
  <2>3. CASE Begin(Upgrade)
    <3>1. todo' = Upgrade /\ UpgradeInOrder(todo')
      BY <2>3, UpgradesInOrder DEF Begin
    <3>2. Len(Upgrade) = 11 /\ Upgrade[7] = "tar_end" /\ Upgrade[9] = "sync"
      BY DEF Upgrade, Export
    <3>3. Pending("tar_end")' /\ Pending("sync")'
      BY <3>1, <3>2 DEF Pending
    <3>4. QED
      BY <3>1, <3>3, TaskUpgrades
  <2>4. QED
    BY <1>2, <2>1, <2>2, <2>3, Zenon DEF StartTask
<1>3. CASE StartRestore
  <2>1. todo' = Restore /\ UpgradeInOrder(todo')
    BY <1>3, UpgradesInOrder DEF StartRestore, Begin
  <2>2. ~Pending("sync")' /\ ~Pending("deploy")'
    BY <2>1 DEF Restore, Pending
  <2>3. QED
    BY <2>1, <2>2, TaskUpgrades
<1>4. CASE Fail \/ Kill
  <2>1. todo' = <<>> \/ todo' = <<"save_on">>
    BY <1>4 DEF Fail, LeftToDo, Kill
  <2>2. UpgradeInOrder(todo') /\ ~Pending("sync")' /\ ~Pending("deploy")'
    BY <2>1, UpgradesInOrder DEF Pending
  <2>3. QED
    BY <2>2, TaskUpgrades
<1>5. QED
  BY <1>1, <1>2, <1>3, <1>4 DEF Operator

LEMMA ScriptUpgrades ==
    ASSUME UInv, SInv', Script
    PROVE  UInv'
<1>0. /\ UNCHANGED <<pinned, world>> /\ pod' \in {pod, Kicked} /\ UNCHANGED files
      /\ todo # <<>> /\ Head(todo) \in Scripting
      /\ release' = release \/ release'.pack = pinned
  BY DEF Script, Resolve, CacheHit, AskApi, DeployToPoll, Poll, FallBack, LookUpJava, AssumeJava8,
         Helm, cluster, At, Scripting
<1>1. /\ UNCHANGED <<pinned, world>> /\ UNCHANGED files
      /\ pod'.phase = pod.phase /\ pod'.release = pod.release
      /\ todo # <<>> /\ Head(todo) \in Scripting
      /\ release' = release \/ release'.pack = pinned
  BY <1>0, KickedPod DEF UInv, SInv, TInv, TypeOK, ClusterTypeOK
<1>2. CASE Done
  <2>1. Head(todo) \notin {"sync", "tar_end"}
    BY <1>1 DEF Scripting
  <2>2. QED
    BY <1>1, <1>2, <2>1, CommandUpgrades DEF files
<1>3. CASE \E c \in {"poll", "java"} : todo' = <<c>> \o Tail(todo)
  <2>1. PICK x \in {"poll", "java"} : todo' = <<x>> \o Tail(todo)
    BY <1>3
  <2>2. todo \in Seq(Commands) /\ UpgradeInOrder(todo)
    BY DEF UInv, SInv, TInv, ScriptFirst
  <2>3. /\ UpgradeInOrder(todo')
        /\ \A c \in {"sync", "deploy", "tar_end"} : Pending(c)' <=> Pending(c)
    <3>1. /\ UpgradeInOrder(<<x>> \o Tail(todo))
          /\ \A c \in {"sync", "deploy", "tar_end"} :
                (\E i \in 1 .. Len(<<x>> \o Tail(todo)) : (<<x>> \o Tail(todo))[i] = c) <=>
                (\E i \in 1 .. Len(todo) : todo[i] = c)
      BY <1>1, <2>2, UpgradeScript, Zenon
    <3>2. QED
      BY <2>1, <3>1 DEF Pending
  <2>4. DeploysInstalled'
    BY <1>1, <2>3 DEF UInv, DeploysInstalled
  <2>5. StaysExported'
    BY <1>1, <2>3 DEF UInv, StaysExported, HasExported, files
  <2>6. QED
    BY <2>3, <2>4, <2>5 DEF UInv
<1>4. QED
  BY <1>2, <1>3 DEF Script, Resolve, CacheHit, AskApi, DeployToPoll, Poll, FallBack, LookUpJava,
                    AssumeJava8

LEMMA DeployingUpgrades ==
    ASSUME UInv, SInv', Deploying
    PROVE  UInv'
<1>1. /\ todo # <<>> /\ Done /\ UNCHANGED <<pinned, world, exports, named>>
      /\ Head(todo) \in {"deploy", "sync", "kick", "rollout", "uninstall"}
  BY DEF Deploying, Deploy, Sync, RolloutRestart, Rollout, HelmUninstall, At, files,
         Helm, Kick, Uninstall, cluster
<1>2. pod'.phase = pod.phase /\ pod'.release = pod.release
  <2>1. pod' \in {pod, Kicked}
    BY DEF Deploying, Deploy, Sync, RolloutRestart, Rollout, HelmUninstall,
           Helm, Kick, Uninstall, cluster
  <2>2. QED
    BY <2>1, KickedPod DEF UInv, SInv, TInv, TypeOK, ClusterTypeOK
<1>3. \/ release' = release /\ Head(todo) # "sync"
      \/ release' = None
      \/ release'.pack = pinned
  BY DEF Deploying, Deploy, Sync, RolloutRestart, Rollout, HelmUninstall, At,
         Helm, Kick, Uninstall, cluster
<1>4. QED
  BY <1>1, <1>2, <1>3, CommandUpgrades

LEMMA RestoringUpgrades ==
    ASSUME UInv, SInv', Restoring
    PROVE  UInv'
<1>1. /\ todo # <<>> /\ Done /\ UNCHANGED <<pinned, release, pod, exports, named>>
      /\ Head(todo) \notin {"sync", "tar_end"}
  BY DEF Restoring, ScaleDown, WaitGone, Remove, Extract, ScaleUp, Scale, At, files, cluster
<1>2. Head(todo) \notin {"remove", "extract"} => world' = world
  BY DEF Restoring, ScaleDown, WaitGone, Remove, Extract, ScaleUp, Scale, At, cluster
<1>3. HasExported' => world' = world
  BY <1>1, <1>2, NotExportedYet
<1>4. QED
  BY <1>1, <1>3, CommandUpgrades

LEMMA ExportingUpgrades ==
    ASSUME UInv, SInv', Exporting
    PROVE  UInv'
<1>1. CASE TarEnd
  <2>1. /\ todo # <<>> /\ At("tar_end") /\ UNCHANGED <<pinned, release, pod, world, named>>
    BY <1>1 DEF TarEnd, At, cluster
  <2>2. /\ Len(exports') = Len(exports) /\ exports' # <<>>
        /\ exports'[Len(exports)].done
        /\ exports'[Len(exports)].kept = world.kept /\ exports'[Len(exports)].pack = world.pack
    <3>1. /\ Len(exports') = Len(exports) /\ Len(exports) \in 1 .. Len(exports)
          /\ exports'[Len(exports)].done
          /\ exports'[Len(exports)].kept = world.kept /\ exports'[Len(exports)].pack = world.pack
      BY <1>1, TarEndKeeps DEF UInv
    <3>2. exports' \in Seq(Archives)
      BY DEF SInv, TInv, TypeOK
    <3>3. QED
      BY <3>1, <3>2, EmptySeq
  <2>3. CASE Done
    <3>1. UpgradeInOrder(todo)'
      BY <2>1, <2>3, UpgradeTail DEF UInv, SInv, TInv, ScriptFirst, Done
    <3>2. \A c : /\ Pending(c)' => Pending(c)
                 /\ Pending(c) /\ Head(todo) # c => Pending(c)'
      BY <2>1, <2>3, PendingAfter DEF UInv, SInv
    <3>3. DeploysInstalled'
      BY <2>1, <3>2 DEF UInv, DeploysInstalled, At
    <3>4. named # "gone" /\ pod.phase # "none" /\ world.pack = pod.release.pack
      BY <1>1, <2>1 DEF TarEnd, Exec, UInv, SInv, Opened, Unsaved
    <3>5. StaysExported'
      BY <2>1, <2>2, <3>4 DEF StaysExported
    <3>6. QED
      BY <3>1, <3>3, <3>5 DEF UInv
  <2>4. CASE todo' = LeftToDo("tar_end")
    <3>1. todo' = <<"save_on">>
      BY <2>4 DEF LeftToDo
    <3>2. UpgradeInOrder(todo') /\ ~Pending("sync")' /\ ~Pending("deploy")'
      BY <3>1, UpgradesInOrder DEF Pending
    <3>3. QED
      BY <3>2, TaskUpgrades
  <2>5. QED
    BY <1>1, <2>3, <2>4 DEF TarEnd
<1>2. CASE NamePod \/ SaveOff \/ Tar
  <2>1. /\ todo # <<>> /\ Done /\ Head(todo) \in {"name_pod", "save_off", "tar"}
        /\ UNCHANGED <<pinned, release>>
    BY <1>2 DEF NamePod, SaveOff, Tar, At, cluster
  <2>2. ~HasExported'
    BY <2>1, NotExportedYet
  <2>3. QED
    BY <2>1, <2>2, CommandUpgrades
<1>3. CASE Flush \/ WritePackTxt \/ SaveOn \/ SaveOnFails
  <2>1. /\ todo # <<>> /\ Done /\ Head(todo) \notin {"sync", "tar_end"}
        /\ UNCHANGED <<pinned, release, pod, world, exports, named>>
    BY <1>3 DEF Flush, WritePackTxt, SaveOn, SaveOnFails, At, cluster, files
  <2>2. QED
    BY <2>1, CommandUpgrades
<1>4. QED
  BY <1>1, <1>2, <1>3 DEF Exporting

LEMMA ClusterUpgrades ==
    ASSUME UInv, SInv', PodGone \/ PodCrashes \/ PodStarts \/ UNCHANGED vars
    PROVE  UInv'
<1>1. UNCHANGED <<pinned, todo, release, exports>>
  BY DEF PodGone, Terminate, PodCrashes, Crash, PodStarts, Create, Install, Boot,
         script, files, vars, cluster
<1>2. UpgradeInOrder(todo)' /\ DeploysInstalled'
  BY <1>1 DEF UInv, DeploysInstalled, Pending
<1>3. HasExported' <=> HasExported
  BY <1>1 DEF HasExported, Pending
<1>4. /\ pod \in [phase : {"none", "starting", "running"},
                  release : Releases \cup {None}, kicked : BOOLEAN]
      /\ world \in [pack : Packs \cup {None}, kept : BOOLEAN]
  BY DEF UInv, SInv, TInv, TypeOK, ClusterTypeOK
<1>5. ASSUME world'.kept = world.kept,
             HasExported /\ named' # "gone" =>
                 /\ named # "gone" /\ world'.pack = world.pack
                 /\ pod'.phase # "none" /\ pod'.release = pod.release
      PROVE  UInv'
  BY <1>1, <1>2, <1>3, <1>5 DEF UInv, StaysExported
<1>6. CASE PodGone
  BY <1>5, <1>6 DEF PodGone, Terminate
<1>7. CASE PodCrashes
  <2>1. /\ world' = world /\ pod'.phase = "starting" /\ pod'.release = pod.release
        /\ named' # "gone" => named # "gone"
    BY <1>4, <1>7 DEF PodCrashes, Crash
  <2>2. QED
    BY <1>5, <2>1
<1>8. CASE PodStarts
  <2>1. named' = named
    BY <1>8 DEF PodStarts, files
  <2>2. CASE Create
    BY <1>5, <2>1, <2>2 DEF Create, UInv, StaysExported
  <2>3. CASE Install
    BY <1>5, <2>1, <2>3 DEF Install, UInv, StaysExported
  <2>4. CASE Boot
    <3>1. /\ pod'.phase = "running" /\ pod'.release = pod.release
          /\ world'.kept = world.kept /\ world'.pack = pod.release.pack
      BY <1>4, <2>4 DEF Boot
    <3>2. QED
      BY <1>5, <2>1, <3>1 DEF UInv, StaysExported
  <2>5. QED
    BY <1>8, <2>2, <2>3, <2>4 DEF PodStarts
<1>9. CASE UNCHANGED vars
  BY <1>5, <1>9 DEF vars, cluster, files, UInv, StaysExported
<1>10. QED
  BY <1>6, <1>7, <1>8, <1>9

LEMMA UpgradesAtFirst == Init => UInv
<1> SUFFICES ASSUME Init PROVE UInv
  OBVIOUS
<1>1. SInv /\ todo = <<>> /\ Len(<<>>) = 0
  BY StagesAtFirst DEF Init, ScriptInit
<1>2. ~Pending("sync") /\ ~Pending("deploy") /\ UpgradeInOrder(todo)
  BY <1>1, UpgradesInOrder DEF Pending
<1>3. QED
  BY <1>1, <1>2 DEF UInv, DeploysInstalled, StaysExported, HasExported

\* Every step keeps what an upgrade relies on.
LEMMA UpgradesKept == UInv /\ [Next]_vars => UInv'
<1> SUFFICES ASSUME UInv, [Next]_vars PROVE UInv'
  OBVIOUS
<1>1. SInv'
  BY StagesKept DEF UInv
<1>2. QED
  BY <1>1, OperatorUpgrades, ScriptUpgrades, DeployingUpgrades, ExportingUpgrades,
     RestoringUpgrades, ClusterUpgrades DEF Next

-----------------------------------------------------------------------------
(* The property.                                                            *)

\* Only Sync gives the installed release another pack, if nothing is polled.
LEMMA OnlySync ==
    ASSUME Packs \subseteq ApiKnows, UInv, [Next]_vars,
           release # None, release' # None, release'.pack # release.pack
    PROVE  Sync
<1>1. ~Script
  <2>1. ~DeployToPoll
    BY DEF DeployToPoll, UInv, SInv, TInv, TypeOK, ScriptTypeOK
  <2>2. QED
    BY <2>1 DEF Script, Resolve, CacheHit, AskApi, Poll, FallBack, LookUpJava, AssumeJava8,
                cluster
<1>2. ~Deploy
  <2>1. SUFFICES ASSUME Deploy PROVE FALSE
    OBVIOUS
  <2>2. release'.pack = pinned /\ At("deploy")
    BY <2>1 DEF Deploy, Helm
  <2>3. Pending("deploy") /\ ~Pending("sync")
    BY <2>2, NextIsPending, SyncHasExported DEF UInv, SInv
  <2>4. QED
    BY <2>2, <2>3 DEF UInv, DeploysInstalled
<1>3. ~RolloutRestart /\ ~Rollout /\ ~HelmUninstall
  BY DEF RolloutRestart, Rollout, HelmUninstall, Kick, Uninstall, cluster
<1>4. ~Exporting /\ ~Restoring
  BY DEF Exporting, NamePod, SaveOff, Flush, WritePackTxt, Tar, TarEnd, SaveOn, SaveOnFails,
         Restoring, ScaleDown, WaitGone, Remove, Extract, ScaleUp, Scale, cluster
<1>5. ~Operator /\ ~Fail /\ ~Kill
  BY DEF Operator, StartTask, StartRestore, Begin, Edit, Fail, Kill, cluster
<1>6. ~PodGone /\ ~PodCrashes /\ ~PodStarts /\ ~UNCHANGED vars
  BY DEF PodGone, Terminate, PodCrashes, Crash, PodStarts, Create, Install, Boot, vars, cluster
<1>7. QED
  BY <1>1, <1>2, <1>3, <1>4, <1>5, <1>6 DEF Next, Deploying

\* Where the API answers for every pack, whatever has failed before and however many
\* upgrades follow each other, the world is exported before another pack is
\* installed.  Without the API it is not (run upgrade_polls).
THEOREM UpgradesExportFirst ==
    ASSUME Packs \subseteq ApiKnows
    PROVE  Spec => ExportedFirst
<1>1. UInv /\ [Next]_vars =>
          [release # None /\ release' # None /\ release'.pack # release.pack
               /\ world.pack # None => Exported]_vars
  <2> SUFFICES ASSUME UInv, [Next]_vars, release # None, release' # None,
                      release'.pack # release.pack
               PROVE  Exported
    OBVIOUS
  <2>1. At("sync")
    BY OnlySync DEF Sync
  <2>2. TInv /\ InOrder(todo) /\ UpgradeInOrder(todo)
    BY DEF UInv, SInv
  <2>3. Pending("sync") /\ ~Pending("tar_end") /\ ~Pending("name_pod")
    BY <2>1, <2>2, NextIsPending, SyncHasExported, ExportPending
  <2>4. QED
    BY <2>3 DEF UInv, StaysExported, HasExported, Exported
<1>2. QED
  BY <1>1, UpgradesAtFirst, UpgradesKept, PTL DEF Spec, ExportedFirst
=============================================================================
