------------------------- MODULE WorldStagesProofs -------------------------
(***************************************************************************)
(* Proofs about WorldOps that follow a task from command to command: files *)
(* are replaced offline, saving is not forgotten, archives are consistent. *)
(***************************************************************************)
EXTENDS WorldOpsProofs

(* The order of the commands.                                               *)

\* What is left of a task keeps its order, and its next command tells the one before.
LEMMA AdjacentTail ==
    ASSUME NEW s \in Seq(Commands), s # <<>>, NEW c, NEW d, Adjacent(s, c, d)
    PROVE  /\ Adjacent(Tail(s), c, d)
           /\ Tail(s) # <<>> /\ Head(Tail(s)) = d => Head(s) = c
           /\ Head(s) = c => Tail(s) # <<>> /\ Head(Tail(s)) = d
<1> DEFINE t == Tail(s)
<1>1. /\ Len(s) \in Nat /\ Len(s) >= 1 /\ Head(s) = s[1]
      /\ t \in Seq(Commands) /\ Len(t) = Len(s) - 1
      /\ \A i \in 1 .. Len(t) : i + 1 \in 2 .. Len(s) /\ t[i] = s[i + 1]
  BY TailOfTask
<1>A. \A i \in 2 .. Len(t) : t[i - 1] = s[i]
  <2>1. ASSUME NEW i \in 2 .. Len(t) PROVE t[i - 1] = s[i]
    <3>1. i - 1 \in 1 .. Len(t) /\ (i - 1) + 1 = i
      BY <1>1
    <3>2. t[i - 1] = s[(i - 1) + 1]
      BY <1>1, <3>1
    <3>3. QED
      BY <3>1, <3>2
  <2>2. QED
    BY <2>1
<1>2. t # <<>> => Head(t) = t[1] /\ Len(t) >= 1
  BY <1>1, TailOfTask
<1>3. Len(t) >= 1 => t # <<>>
  BY <1>1
<1> HIDE DEF t
<1>4. Adjacent(t, c, d)
  <2>1. ASSUME NEW i \in 2 .. Len(t), t[i] = d PROVE t[i - 1] = c
    <3>1. i + 1 \in 2 .. Len(s) /\ t[i] = s[i + 1] /\ t[i - 1] = s[i]
      BY <1>A, <1>1, <2>1
    <3>2. s[(i + 1) - 1] = c
      BY <2>1, <3>1 DEF Adjacent
    <3>3. QED
      BY <3>1, <3>2
  <2>2. ASSUME NEW i \in 1 .. Len(t), t[i] = c PROVE i + 1 \in 1 .. Len(t) /\ t[i + 1] = d
    <3>1. i + 1 \in 1 .. Len(s) /\ s[i + 1] = c
      BY <1>1, <2>2
    <3>2. (i + 1) + 1 \in 1 .. Len(s) /\ s[(i + 1) + 1] = d
      BY <3>1 DEF Adjacent
    <3>3. i + 1 \in 1 .. Len(t)
      BY <1>1, <3>2
    <3>4. QED
      BY <1>1, <3>2, <3>3
  <2>3. QED
    BY <2>1, <2>2 DEF Adjacent
<1>5. t # <<>> /\ Head(t) = d => Head(s) = c
  <2> SUFFICES ASSUME t # <<>>, Head(t) = d PROVE Head(s) = c
    OBVIOUS
  <2>1. 2 \in 2 .. Len(s) /\ s[2] = d
    BY <1>1, <1>2
  <2>2. s[2 - 1] = c
    BY <2>1 DEF Adjacent
  <2>3. QED
    BY <1>1, <2>2
<1>6. Head(s) = c => t # <<>> /\ Head(t) = d
  <2> SUFFICES ASSUME Head(s) = c PROVE t # <<>> /\ Head(t) = d
    OBVIOUS
  <2>1. 1 \in 1 .. Len(s) /\ s[1] = c
    BY <1>1
  <2>2. 1 + 1 \in 1 .. Len(s) /\ s[1 + 1] = d
    BY <2>1 DEF Adjacent
  <2>3. 1 \in 1 .. Len(t) /\ t # <<>>
    BY <1>1, <1>3, <2>2
  <2>4. QED
    BY <1>1, <1>2, <2>2, <2>3
<1>7. QED
  BY <1>4, <1>5, <1>6 DEF t

\* So does a task whose script goes on with another command of its own.
LEMMA AdjacentScript ==
    ASSUME NEW s \in Seq(Commands), s # <<>>, Head(s) \in Scripting,
           NEW x \in {"poll", "java"}, NEW c, c \notin Scripting, NEW d, d \notin Scripting,
           Adjacent(s, c, d)
    PROVE  Adjacent(<<x>> \o Tail(s), c, d)
<1> DEFINE t == <<x>> \o Tail(s)
<1>1. /\ Len(s) \in Nat /\ Len(s) >= 1 /\ Head(s) = s[1]
      /\ Tail(s) \in Seq(Commands) /\ Len(Tail(s)) = Len(s) - 1
      /\ \A i \in 1 .. Len(Tail(s)) : i + 1 \in 2 .. Len(s) /\ Tail(s)[i] = s[i + 1]
  BY TailOfTask
<1>2. <<x>> \in Seq(Commands) /\ Len(<<x>>) = 1 /\ <<x>>[1] = x
  BY DEF Commands, Scripting
<1>3. /\ t \in Seq(Commands) /\ Len(t) = Len(s) /\ t[1] = x
      /\ \A i \in 2 .. Len(t) : t[i] = Tail(s)[i - 1]
  BY <1>1, <1>2, ConcatProperties
<1> HIDE DEF t
<1>4. \A i \in 2 .. Len(s) : t[i] = s[i]
  BY <1>1, <1>3
<1>5. x \in Scripting
  BY DEF Scripting
<1>6. ASSUME NEW i \in 2 .. Len(t), t[i] = d PROVE t[i - 1] = c
  <2>1. i \in 2 .. Len(s) /\ s[i] = d
    BY <1>3, <1>4, <1>6
  <2>2. s[i - 1] = c
    BY <2>1 DEF Adjacent
  <2>3. i - 1 # 1
    BY <1>1, <2>2
  <2>4. i - 1 \in 2 .. Len(s)
    BY <1>1, <2>1, <2>3
  <2>5. QED
    BY <1>4, <2>2, <2>4
<1>7. ASSUME NEW i \in 1 .. Len(t), t[i] = c PROVE i + 1 \in 1 .. Len(t) /\ t[i + 1] = d
  <2>1. i # 1
    BY <1>3, <1>5, <1>7
  <2>2. i \in 1 .. Len(s) /\ i \in 2 .. Len(s) /\ s[i] = c
    BY <1>1, <1>3, <1>4, <1>7, <2>1
  <2>3. i + 1 \in 1 .. Len(s) /\ s[i + 1] = d
    BY <2>2 DEF Adjacent
  <2>4. i + 1 \in 2 .. Len(s)
    BY <1>1, <2>2, <2>3
  <2>5. QED
    BY <1>3, <1>4, <2>3, <2>4
<1>8. QED
  BY <1>6, <1>7 DEF Adjacent, t

\* A task in order whose next command is done is in order.
LEMMA InOrderTail ==
    ASSUME NEW s \in Seq(Commands), s # <<>>, InOrder(s)
    PROVE  InOrder(Tail(s))
BY AdjacentTail DEF InOrder

LEMMA InOrderScript ==
    ASSUME NEW s \in Seq(Commands), s # <<>>, Head(s) \in Scripting,
           NEW x \in {"poll", "java"}, InOrder(s)
    PROVE  InOrder(<<x>> \o Tail(s))
<1>1. \A c \in {"save_off", "flush", "pack_txt", "tar", "tar_end", "save_on",
                "scale_down", "wait_gone", "remove", "extract"} : c \notin Scripting
  BY DEF Scripting
<1>2. QED
  BY <1>1, AdjacentScript DEF InOrder

\* Every task is in order when it is begun, and what a failure leaves to do is, too.
LEMMA TasksInOrder ==
    /\ InOrder(Up) /\ InOrder(Down) /\ InOrder(Restart)
    /\ InOrder(Export) /\ InOrder(Upgrade) /\ InOrder(Restore)
    /\ InOrder(<<>>) /\ InOrder(<<"save_on">>)
<1>1. InOrder(Up) /\ InOrder(Down) /\ InOrder(Restart)
  BY DEF Up, Down, Restart, InOrder, Adjacent
<1>2. InOrder(<<>>) /\ InOrder(<<"save_on">>)
  BY DEF InOrder, Adjacent
<1>3. InOrder(Export)
  BY DEF Export, InOrder, Adjacent
<1>4. InOrder(Restore)
  BY DEF Restore, InOrder, Adjacent
<1>5. InOrder(Upgrade)
  BY DEF Upgrade, Export, InOrder, Adjacent
<1>6. QED
  BY <1>1, <1>2, <1>3, <1>4, <1>5

\* When a command is done, the next one tells which it was.
LEMMA NextCommand ==
    ASSUME TInv, InOrder(todo), todo # <<>>, Done
    PROVE  /\ InOrder(todo)'
           /\ At("flush")'     => At("save_off")
           /\ At("pack_txt")'  => At("flush")
           /\ At("tar")'       => At("pack_txt")
           /\ At("tar_end")'   => At("tar")
           /\ At("wait_gone")' => At("scale_down")
           /\ At("remove")'    => At("wait_gone")
           /\ At("extract")'   => At("remove")
           /\ At("save_off") => At("flush")'
           /\ At("flush")    => At("pack_txt")'
           /\ At("pack_txt") => At("tar")'
           /\ At("tar")      => At("tar_end")'
           /\ At("tar_end")  => At("save_on")'
<1>1. todo \in Seq(Commands) /\ todo' = Tail(todo)
  BY DEF TInv, ScriptFirst, Done
<1>2. InOrder(todo)'
  BY <1>1, InOrderTail
<1>3. \A c, d : Adjacent(todo, c, d) =>
         /\ todo' # <<>> /\ Head(todo') = d => Head(todo) = c
         /\ Head(todo) = c => todo' # <<>> /\ Head(todo') = d
  BY <1>1, AdjacentTail
<1>4. QED
  BY <1>2, <1>3 DEF InOrder, At

-----------------------------------------------------------------------------
(* Away from the commands that matter.                                      *)

AtStage == Unsaved \/ At("wait_gone") \/ At("remove") \/ At("extract")

\* A server that runs has opened the world.
RunsOpened == pod.phase = "running" => world.pack = pod.release.pack

\* At a command outside the stages nothing is wanted of the export but that saving
\* is not forgotten.
LEMMA OffStage ==
    ASSUME InOrder(todo)', TInv', ~AtStage', RunsOpened', Watched', ExportIsConsistent'
    PROVE  SInv'
BY DEF AtStage, Unsaved, RunsOpened, SInv, Stopped, Opened, Quiet, Labelled, Archiving

\* A step from outside the stages to outside the stages.
LEMMA StaysOffStage ==
    ASSUME SInv, ~Unsaved, ~At("save_on"), InOrder(todo)', TInv', ~AtStage', RunsOpened',
           saving' = saving, warned => warned', UNCHANGED exports
    PROVE  SInv'
<1>1. Watched'
  BY DEF SInv, Watched
<1>2. ExportIsConsistent'
  BY DEF SInv, ExportIsConsistent
<1>3. QED
  BY <1>1, <1>2, OffStage

\* What the operator starts is away from them.
LEMMA OperatorStages ==
    ASSUME SInv, Operator
    PROVE  SInv'
<1>1. TInv' /\ todo = <<>> /\ RunsOpened
  BY OperatorTypes DEF SInv, Opened, RunsOpened, Operator, StartTask, StartRestore, Begin, Edit
<1>2. ~Unsaved /\ ~At("save_on")
  BY <1>1 DEF Unsaved, At
<1>3. UNCHANGED <<cluster, exports, warned>>
  BY DEF Operator, StartTask, StartRestore, Begin, Edit, files
<1>4. InOrder(todo)'
  BY <1>1, TasksInOrder DEF Operator, StartTask, StartRestore, Begin, Edit
<1>5. ~AtStage'
  <2>1. \/ todo' = <<>>
        \/ Head(todo') \in {"resolve", "uninstall", "name_pod", "scale_down"}
    <3>1. /\ Head(Up) = "resolve" /\ Head(Restart) = "resolve" /\ Head(Down) = "uninstall"
          /\ Head(Export) = "name_pod" /\ Head(Upgrade) = "resolve"
          /\ Head(Restore) = "scale_down"
      BY DEF Up, Restart, Down, Export, Upgrade, Restore
    <3>2. QED
      BY <1>1, <3>1 DEF Operator, StartTask, StartRestore, Begin, Edit
  <2>2. QED
    BY <2>1 DEF AtStage, Unsaved, At
<1>6. RunsOpened' /\ saving' = saving
  BY <1>1, <1>3 DEF RunsOpened, cluster
<1>7. QED
  BY <1>1, <1>2, <1>3, <1>4, <1>5, <1>6, StaysOffStage

\* A failure in an export leaves save-on to do; any other leaves nothing.
LEMMA FailStages ==
    ASSUME SInv, Fail
    PROVE  SInv'
<1>1. TInv' /\ RunsOpened /\ UNCHANGED <<cluster, files>>
  BY OperatorTypes DEF SInv, Opened, RunsOpened, Fail
<1>2. todo' = LeftToDo(Head(todo)) /\ todo # <<>> /\ Head(todo) # "save_on"
  BY DEF Fail
<1>3. Head(<<"save_on">>) = "save_on" /\ <<"save_on">> # <<>>
  OBVIOUS
<1>4. InOrder(todo)'
  BY <1>2, TasksInOrder DEF LeftToDo
<1>5. ~AtStage'
  BY <1>2, <1>3 DEF LeftToDo, AtStage, Unsaved, At
<1>6. Unsaved => At("save_on")'
  BY <1>2, <1>3 DEF LeftToDo, Unsaved, At
<1>7. Watched'
  BY <1>1, <1>2, <1>6 DEF SInv, Watched, At, cluster, files
<1>8. RunsOpened' /\ ExportIsConsistent'
  BY <1>1 DEF RunsOpened, SInv, ExportIsConsistent, cluster, files
<1>9. QED
  BY <1>1, <1>4, <1>5, <1>7, <1>8, OffStage

\* A kill leaves nothing to do, and the operator knows.
LEMMA KillStages ==
    ASSUME SInv, Kill
    PROVE  SInv'
<1>1. TInv' /\ RunsOpened /\ todo' = <<>> /\ UNCHANGED <<cluster, exports>>
  BY OperatorTypes DEF SInv, Opened, RunsOpened, Kill
<1>2. InOrder(todo)' /\ ~AtStage'
  BY <1>1, TasksInOrder DEF AtStage, Unsaved, At
<1>3. Watched'
  <2>1. warned' = (warned \/ ~saving) /\ saving' = saving
    BY DEF Kill, cluster
  <2>2. QED
    BY <2>1, Zenon DEF Watched
<1>4. RunsOpened' /\ ExportIsConsistent'
  BY <1>1 DEF RunsOpened, SInv, ExportIsConsistent, cluster
<1>5. QED
  BY <1>1, <1>2, <1>3, <1>4, OffStage

\* The script is away from them, before and after.
LEMMA ScriptStages ==
    ASSUME SInv, Script
    PROVE  SInv'
<1>1. /\ TInv /\ TInv' /\ RunsOpened /\ UNCHANGED files
      /\ InOrder(todo) /\ todo # <<>> /\ Head(todo) \in Scripting
  BY ScriptTypes DEF SInv, Opened, RunsOpened, Script, Resolve, CacheHit, AskApi, DeployToPoll,
                     Poll, FallBack, LookUpJava, AssumeJava8, At, Scripting
<1>2. ~Unsaved /\ ~At("save_on")
  BY <1>1 DEF Unsaved, At, Scripting
<1>3. UNCHANGED <<world, saving>> /\ pod'.phase = pod.phase /\ pod'.release = pod.release
  <2>1. UNCHANGED <<world, saving>> /\ pod' \in {pod, Kicked}
    BY DEF Script, Resolve, CacheHit, AskApi, DeployToPoll, Poll, FallBack, LookUpJava,
           AssumeJava8, Helm, cluster
  <2>2. QED
    BY <2>1, KickedPod DEF SInv, TInv, TypeOK, ClusterTypeOK
<1>4. InOrder(todo)' /\ ~AtStage'
  <2>1. CASE Done
    <3>1. /\ ~At("save_off") /\ ~At("flush") /\ ~At("pack_txt") /\ ~At("tar")
          /\ ~At("scale_down") /\ ~At("wait_gone") /\ ~At("remove")
      BY <1>1 DEF At, Scripting
    <3>2. QED
      BY <1>1, <2>1, <3>1, NextCommand DEF AtStage, Unsaved
  <2>2. CASE \E c \in {"poll", "java"} : todo' = <<c>> \o Tail(todo)
    <3>1. PICK c \in {"poll", "java"} : todo' = <<c>> \o Tail(todo)
      BY <2>2
    <3>2. Head(todo') = c
      BY <1>1, <3>1, ScriptGoesOn
    <3>3. InOrder(todo')
      BY <1>1, <3>1, InOrderScript DEF TInv, ScriptFirst
    <3>4. QED
      BY <3>2, <3>3 DEF AtStage, Unsaved, At
  <2>3. QED
    BY <2>1, <2>2 DEF Script, Resolve, CacheHit, AskApi, DeployToPoll, Poll, FallBack,
                      LookUpJava, AssumeJava8
<1>5. RunsOpened' /\ UNCHANGED <<exports, warned>>
  BY <1>1, <1>3 DEF RunsOpened, files
<1>6. QED
  BY <1>1, <1>2, <1>3, <1>4, <1>5, StaysOffStage

-----------------------------------------------------------------------------
(* The commands.                                                            *)

\* A command neither the export's nor one the restore needs first.
LEMMA OtherCommand ==
    ASSUME SInv, TInv', todo # <<>>, Done, RunsOpened', UNCHANGED <<saving, warned, exports>>,
           Head(todo) \notin {"save_off", "flush", "pack_txt", "tar", "tar_end", "save_on",
                              "scale_down", "wait_gone", "remove"}
    PROVE  SInv'
<1>1. ~Unsaved /\ ~At("save_on")
  BY DEF Unsaved, At
<1>2. InOrder(todo)' /\ ~AtStage'
  <2>1. /\ ~At("save_off") /\ ~At("flush") /\ ~At("pack_txt") /\ ~At("tar")
        /\ ~At("scale_down") /\ ~At("wait_gone") /\ ~At("remove")
    BY DEF At
  <2>2. QED
    BY <2>1, NextCommand DEF SInv, AtStage, Unsaved
<1>3. QED
  BY <1>1, <1>2, StaysOffStage

LEMMA DeployingStages ==
    ASSUME SInv, Deploying
    PROVE  SInv'
<1>1. TInv' /\ RunsOpened /\ pod.phase \in {"none", "starting", "running"}
  BY DeployingTypes DEF SInv, Opened, RunsOpened, TInv, TypeOK, ClusterTypeOK
<1>2. /\ todo # <<>> /\ Done
      /\ Head(todo) \in {"deploy", "sync", "kick", "rollout", "uninstall"}
      /\ UNCHANGED files
  BY DEF Deploying, Deploy, Sync, RolloutRestart, Rollout, HelmUninstall, At
<1>3. world' = world /\ saving' = saving
  BY DEF Deploying, Deploy, Sync, RolloutRestart, Rollout, HelmUninstall,
         Helm, Kick, Uninstall, cluster
<1>4. pod'.phase = pod.phase /\ pod'.release = pod.release
  <2>1. pod' \in {pod, Kicked}
    BY DEF Deploying, Deploy, Sync, RolloutRestart, Rollout, HelmUninstall,
           Helm, Kick, Uninstall, cluster
  <2>2. QED
    BY <2>1, KickedPod DEF SInv, TInv, TypeOK, ClusterTypeOK
<1>5. RunsOpened'
  BY <1>1, <1>3, <1>4 DEF RunsOpened
<1>6. QED
  BY <1>1, <1>2, <1>3, <1>5, OtherCommand DEF files

\* Restore: once the server is scaled down and gone, nothing but this task brings it back.
LEMMA RestoringStages ==
    ASSUME SInv, Restoring
    PROVE  SInv'
<1>1. /\ TInv' /\ RunsOpened /\ todo # <<>> /\ Done /\ UNCHANGED files
      /\ UNCHANGED <<pod, saving>>
  BY RestoringTypes DEF SInv, Opened, RunsOpened, Restoring, ScaleDown, WaitGone, Remove,
                        Extract, ScaleUp, Scale, At, cluster
<1>2. InOrder(todo)' /\ ExportIsConsistent'
  BY <1>1, NextCommand DEF SInv, ExportIsConsistent, files
<1>3. ASSUME Head(todo) \in {"scale_down", "wait_gone", "remove"}, Stopped', RunsOpened'
      PROVE  SInv'
  <2>1. ~Unsaved' /\ ~Unsaved /\ ~At("save_on")
    <3>1. ~At("save_off") /\ ~At("flush") /\ ~At("pack_txt") /\ ~At("tar")
      BY <1>3 DEF At
    <3>2. QED
      BY <1>1, <1>3, <3>1, NextCommand DEF SInv, Unsaved, At
  <2>2. Watched'
    BY <1>1, <2>1 DEF SInv, Watched, files
  <2>3. QED
    BY <1>1, <1>2, <1>3, <2>1, <2>2
       DEF SInv, Opened, RunsOpened, Quiet, Labelled, Archiving, Unsaved
<1>4. CASE ScaleDown
  <2>1. replicas' = 0 /\ world' = world /\ Head(todo) = "scale_down"
    BY <1>4 DEF ScaleDown, Scale, At
  <2>2. ~At("remove")' /\ ~At("extract")'
    BY <1>1, <2>1, NextCommand DEF SInv, At
  <2>3. QED
    BY <1>1, <1>3, <2>1, <2>2 DEF Stopped, RunsOpened
<1>5. CASE WaitGone
  <2>1. replicas = 0 /\ pod.phase = "none" /\ Head(todo) = "wait_gone"
    BY <1>5 DEF WaitGone, At, SInv, Stopped
  <2>2. UNCHANGED <<replicas, world>>
    BY <1>5 DEF WaitGone, cluster
  <2>3. QED
    BY <1>1, <1>3, <2>1, <2>2 DEF Stopped, RunsOpened
<1>6. CASE Remove
  <2>1. replicas = 0 /\ pod.phase = "none" /\ Head(todo) = "remove" /\ replicas' = replicas
    BY <1>6 DEF Remove, At, SInv, Stopped
  <2>2. QED
    BY <1>1, <1>3, <2>1 DEF Stopped, RunsOpened
<1>7. CASE Extract
  <2>1. pod.phase = "none" /\ Head(todo) = "extract"
    BY <1>7 DEF Extract, At, SInv, Stopped
  <2>2. RunsOpened'
    BY <1>1, <2>1 DEF RunsOpened
  <2>3. QED
    BY <1>1, <2>1, <2>2, OtherCommand DEF files
<1>8. CASE ScaleUp
  <2>1. world' = world /\ Head(todo) = "scale_up"
    BY <1>8 DEF ScaleUp, Scale, At
  <2>2. RunsOpened'
    BY <1>1, <2>1 DEF RunsOpened
  <2>3. QED
    BY <1>1, <2>1, <2>2, OtherCommand DEF files
<1>9. QED
  BY <1>4, <1>5, <1>6, <1>7, <1>8 DEF Restoring

\* Export, up to the archive: each command finds what the one before has left, as long
\* as the container is the same.
LEMMA PreparingStages ==
    ASSUME SInv, SaveOff \/ Flush \/ WritePackTxt
    PROVE  SInv'
<1>1. /\ TInv' /\ todo # <<>> /\ Done
      /\ UNCHANGED <<pod, world, exports, warned>> /\ named # "gone" /\ pod.phase # "none"
  BY ExportingTypes DEF SInv, Exporting, SaveOff, Flush, WritePackTxt, At, files, Exec, Rcon
<1>2. InOrder(todo)' /\ ExportIsConsistent'
  BY <1>1, NextCommand DEF SInv, ExportIsConsistent
<1>3. ASSUME todo' # <<>>, Head(todo') \in {"flush", "pack_txt", "tar"}
      PROVE  Stopped' /\ Archiving'
  BY <1>3 DEF Stopped, Archiving, At
<1>4. CASE SaveOff
  <2>1. todo' # <<>> /\ Head(todo') = "flush"
    BY <1>1, <1>4, NextCommand DEF SInv, SaveOff, At
  <2>2. named' = "same" /\ saving' = FALSE /\ pod.phase = "running"
    BY <1>4 DEF SaveOff, Rcon
  <2>3. Opened' /\ Watched'
    BY <1>1, <2>1, <2>2 DEF SInv, Opened, Watched, Unsaved, At
  <2>4. Quiet' /\ Labelled'
    BY <2>1, <2>2 DEF Quiet, Labelled, Unsaved, At
  <2>5. QED
    BY <1>1, <1>2, <1>3, <2>1, <2>3, <2>4 DEF SInv
<1>5. CASE Flush
  <2>1. todo' # <<>> /\ Head(todo') = "pack_txt" /\ Unsaved
    BY <1>1, <1>5, NextCommand DEF SInv, Flush, At, Unsaved
  <2>2. named' = named /\ saving' = saving /\ settled' = ~saving
    BY <1>5 DEF Flush, files
  <2>3. Opened' /\ Watched'
    BY <1>1, <2>1, <2>2 DEF SInv, Opened, Watched, Unsaved, At
  <2>4. Quiet' /\ Labelled'
    BY <2>1, <2>2 DEF SInv, Quiet, Labelled, Unsaved, At
  <2>5. QED
    BY <1>1, <1>2, <1>3, <2>1, <2>3, <2>4 DEF SInv
<1>6. CASE WritePackTxt
  <2>1. todo' # <<>> /\ Head(todo') = "tar" /\ Unsaved /\ At("pack_txt")
    BY <1>1, <1>6, NextCommand DEF SInv, WritePackTxt, At, Unsaved
  <2>2. /\ named' = named /\ saving' = saving /\ settled' = settled
        /\ packTxt' = pod.release.pack
    BY <1>6 DEF WritePackTxt, files
  <2>3. Opened' /\ Watched'
    BY <1>1, <2>1, <2>2 DEF SInv, Opened, Watched, Unsaved, At
  <2>4. Quiet' /\ Labelled'
    BY <1>1, <2>1, <2>2 DEF SInv, Quiet, Labelled, Unsaved, At
  <2>5. QED
    BY <1>1, <1>2, <1>3, <2>1, <2>3, <2>4 DEF SInv
<1>7. QED
  BY <1>4, <1>5, <1>6

\* The archive is begun.
LEMMA TarStages ==
    ASSUME SInv, Tar
    PROVE  SInv'
<1>1. /\ TInv' /\ todo # <<>> /\ Done /\ UNCHANGED <<cluster, named, warned>> /\ At("tar")
  BY ExportingTypes DEF SInv, Exporting, Tar, At
<1>2. InOrder(todo)' /\ todo' # <<>> /\ Head(todo') = "tar_end" /\ Unsaved
  BY <1>1, NextCommand DEF SInv, At, Unsaved
<1>3. /\ exports' \in Seq(Archives) /\ Len(exports) \in Nat
      /\ Len(exports') = Len(exports) + 1
      /\ \A i \in 1 .. Len(exports) : exports'[i] = exports[i]
      /\ ~exports'[Len(exports) + 1].done
  BY TarFiles DEF SInv, TInv, TypeOK, CutShort
<1>4. ExportIsConsistent'
  BY <1>3 DEF SInv, ExportIsConsistent
<1>5. Stopped' /\ Opened' /\ Watched'
  BY <1>1, <1>2 DEF SInv, Stopped, Opened, Watched, Unsaved, At, cluster
<1>6. Quiet' /\ Labelled'
  BY <1>1, <1>2 DEF SInv, Quiet, Labelled, Unsaved, At, cluster
<1>7. Archiving'
  BY <1>3, EmptySeq DEF Archiving
<1>8. QED
  BY <1>1, <1>2, <1>4, <1>5, <1>6, <1>7 DEF SInv

\* The archive is finished: if the container is still the one export began with, its
\* world is settled, and PACK.txt names its pack.
LEMMA TarEndStages ==
    ASSUME SInv, TarEnd
    PROVE  SInv'
<1> DEFINE n == Len(exports)
<1>1. /\ TInv' /\ todo # <<>> /\ UNCHANGED <<cluster, named, warned>>
      /\ At("tar_end") /\ Unsaved /\ named # "gone" /\ packTxt # None
  BY ExportingTypes DEF SInv, Exporting, TarEnd, At, Unsaved, Exec
<1>2. InOrder(todo)' /\ todo' # <<>> /\ Head(todo') = "save_on"
  <2>1. CASE Done
    BY <1>1, <2>1, NextCommand DEF SInv, At
  <2>2. CASE todo' = LeftToDo("tar_end")
    BY <2>2, TasksInOrder DEF LeftToDo
  <2>3. QED
    BY <2>1, <2>2 DEF TarEnd
<1>3. ~AtStage' /\ At("save_on")'
  BY <1>2 DEF AtStage, Unsaved, At
<1>4. RunsOpened' /\ Watched'
  BY <1>1, <1>3 DEF SInv, Opened, RunsOpened, Watched, cluster
<1>5. /\ Len(exports') = n
      /\ \A i \in 1 .. n : i # n => exports'[i] = exports[i]
      /\ exports'[n].disturbed = (named # "same") /\ exports'[n].settled = settled
      /\ exports'[n].label = packTxt /\ exports'[n].pack = world.pack
  BY <1>1, TarEndFiles DEF SInv, Archiving
<1>6. (named = "same" => settled) /\ packTxt = world.pack
  BY <1>1 DEF SInv, Quiet, Labelled, Opened
<1>7. ExportIsConsistent'
  <2> HIDE DEF n
  <2>1. ASSUME NEW i \in 1 .. n, exports'[i].done, ~exports'[i].disturbed
        PROVE  exports'[i].settled /\ exports'[i].label = exports'[i].pack
    <3>1. CASE i = n
      BY <1>5, <1>6, <2>1, <3>1
    <3>2. CASE i # n
      BY <1>5, <2>1, <3>2 DEF SInv, ExportIsConsistent, n
    <3>3. QED
      BY <3>1, <3>2
  <2>2. QED
    BY <1>5, <2>1 DEF ExportIsConsistent
<1>8. QED
  BY <1>1, <1>2, <1>3, <1>4, <1>7, OffStage

\* The commands of export.
LEMMA ExportingStages ==
    ASSUME SInv, Exporting
    PROVE  SInv'
<1>1. TInv' /\ RunsOpened
  BY ExportingTypes DEF SInv, Opened, RunsOpened
<1>2. CASE NamePod
  <2>1. todo # <<>> /\ Head(todo) = "name_pod" /\ Done /\ UNCHANGED <<cluster, exports, warned>>
    BY <1>2 DEF NamePod, At
  <2>2. RunsOpened' /\ saving' = saving
    BY <1>1, <2>1 DEF RunsOpened, cluster
  <2>3. QED
    BY <1>1, <2>1, <2>2, OtherCommand
<1>3. CASE SaveOn \/ SaveOnFails
  <2>0. saving' \/ warned'
    <3>1. CASE SaveOnFails
      <4>1. warned' = ~saving /\ saving' = saving
        BY <3>1 DEF SaveOnFails, cluster
      <4>2. QED
        BY <4>1, Zenon
    <3>2. CASE SaveOn
      <4>1. saving' = TRUE
        BY <3>2 DEF SaveOn
      <4>2. QED
        BY <4>1
    <3>3. QED
      BY <1>3, <3>1, <3>2
  <2>1. /\ todo # <<>> /\ Head(todo) = "save_on" /\ Done
        /\ UNCHANGED <<pod, world, exports>>
    BY <1>3 DEF SaveOn, SaveOnFails, At, cluster
  <2>2. RunsOpened' /\ Watched' /\ ExportIsConsistent'
    BY <1>1, <2>0, <2>1 DEF SInv, RunsOpened, Watched, ExportIsConsistent
  <2>3. InOrder(todo)' /\ ~AtStage'
    BY <2>1, NextCommand DEF SInv, AtStage, Unsaved, At
  <2>4. QED
    BY <1>1, <2>2, <2>3, OffStage
<1>4. QED
  BY <1>2, <1>3, PreparingStages, TarStages, TarEndStages DEF Exporting

-----------------------------------------------------------------------------
(* Kubernetes and the image, between any two commands.                      *)

LEMMA ClusterStages ==
    ASSUME SInv, PodGone \/ PodCrashes \/ PodStarts
    PROVE  SInv'
<1>1. /\ TInv' /\ UNCHANGED <<todo, exports>>
      /\ pod \in [phase : {"none", "starting", "running"},
                  release : Releases \cup {None}, kicked : BOOLEAN]
      /\ world \in [pack : Packs \cup {None}, kept : BOOLEAN]
  BY ClusterTypes DEF SInv, TInv, TypeOK, ClusterTypeOK, PodGone, PodCrashes, PodStarts,
                      script, files
<1>2. InOrder(todo)' /\ ExportIsConsistent'
  BY <1>1 DEF SInv, ExportIsConsistent
<1>3. CASE PodGone
  <2>1. /\ pod'.phase = "none" /\ saving' = TRUE /\ packTxt' = None
        /\ replicas' = replicas /\ named' = "gone"
    BY <1>3 DEF PodGone, Terminate, NoPod
  <2>2. Stopped' /\ Opened' /\ Watched'
    BY <1>1, <2>1 DEF SInv, Stopped, Opened, Watched, At, Unsaved
  <2>3. Quiet' /\ Labelled' /\ Archiving'
    BY <1>1, <2>1 DEF SInv, Quiet, Labelled, Archiving, At
  <2>4. QED
    BY <1>1, <1>2, <2>2, <2>3 DEF SInv
<1>4. CASE PodCrashes
  <2>1. /\ pod.phase # "none" /\ pod'.phase = "starting" /\ pod'.release = pod.release
        /\ saving' = TRUE /\ packTxt' = None /\ world' = world /\ replicas' = replicas
        /\ named' = IF named = "same" THEN "restarted" ELSE named
    BY <1>1, <1>4 DEF PodCrashes, Crash
  <2>2. Stopped' /\ Opened' /\ Watched'
    BY <1>1, <2>1 DEF SInv, Stopped, Opened, Watched, At, Unsaved
  <2>3. Quiet' /\ Labelled' /\ Archiving'
    BY <1>1, <2>1 DEF SInv, Quiet, Labelled, Archiving, At
  <2>4. QED
    BY <1>1, <1>2, <2>2, <2>3 DEF SInv
<1>5. CASE Create /\ UNCHANGED files
  <2>1. /\ pod.phase = "none" /\ replicas = 1 /\ pod'.phase = "starting"
        /\ UNCHANGED <<replicas, saving, settled, packTxt, world, named, warned>>
    BY <1>5 DEF Create, files
  <2>2. Unsaved => named = "gone"
    BY <2>1 DEF SInv, Opened
  <2>3. Stopped' /\ Opened' /\ Watched'
    BY <1>1, <2>1, <2>2 DEF SInv, Stopped, Opened, Watched, At, Unsaved
  <2>4. Quiet' /\ Labelled' /\ Archiving'
    BY <1>1, <2>1, <2>2 DEF SInv, Quiet, Labelled, Archiving, At, Unsaved
  <2>5. QED
    BY <1>1, <1>2, <2>3, <2>4 DEF SInv
<1>6. CASE Install /\ UNCHANGED files
  <2>1. UNCHANGED <<pod, replicas, saving, settled, packTxt, world, named, warned>>
    BY <1>6 DEF Install, files
  <2>2. Stopped' /\ Opened' /\ Watched'
    BY <1>1, <2>1 DEF SInv, Stopped, Opened, Watched, At, Unsaved
  <2>3. Quiet' /\ Labelled' /\ Archiving'
    BY <1>1, <2>1 DEF SInv, Quiet, Labelled, Archiving, At, Unsaved
  <2>4. QED
    BY <1>1, <1>2, <2>2, <2>3 DEF SInv
<1>7. CASE Boot /\ UNCHANGED files
  <2>1. /\ pod.phase = "starting" /\ pod'.phase = "running" /\ pod'.release = pod.release
        /\ world'.pack = pod.release.pack /\ world'.kept = world.kept
        /\ UNCHANGED <<replicas, saving, settled, packTxt, named, warned>>
    BY <1>1, <1>7 DEF Boot, files
  <2>2. Stopped' /\ Opened' /\ Watched'
    BY <1>1, <2>1 DEF SInv, Stopped, Opened, Watched, At, Unsaved
  <2>3. Quiet' /\ Labelled'
    BY <1>1, <2>1 DEF SInv, Quiet, Labelled, At, Unsaved
  <2>4. Archiving'
    BY <1>1 DEF SInv, Archiving, At
  <2>5. QED
    BY <1>1, <1>2, <2>2, <2>3, <2>4 DEF SInv
<1>8. QED
  BY <1>3, <1>4, <1>5, <1>6, <1>7 DEF PodStarts

-----------------------------------------------------------------------------
(* The properties.                                                          *)

LEMMA StagesAtFirst == Init => SInv
<1> SUFFICES ASSUME Init PROVE SInv
  OBVIOUS
<1>1. TInv /\ todo = <<>> /\ exports = <<>> /\ saving = TRUE /\ pod.phase = "none"
  BY TypesAtFirst DEF Init, ScriptInit, ClusterInit, NoPod
<1>2. InOrder(todo) /\ ExportIsConsistent
  BY <1>1, TasksInOrder DEF ExportIsConsistent
<1>3. QED
  BY <1>1, <1>2
     DEF SInv, Stopped, Opened, Watched, Quiet, Labelled, Archiving, Unsaved, At

\* Every step keeps the stages.
LEMMA StagesKept == SInv /\ [Next]_vars => SInv'
<1> SUFFICES ASSUME SInv, [Next]_vars PROVE SInv'
  OBVIOUS
<1>1. CASE UNCHANGED vars
  <2>1. TInv'
    BY <1>1, TypesKept DEF SInv
  <2>2. UNCHANGED <<cluster, todo, files>>
    BY <1>1 DEF vars, script
  <2>3. Stopped' /\ Opened' /\ Watched' /\ Quiet'
    BY <2>2 DEF SInv, Stopped, Opened, Watched, Quiet, Unsaved, At, cluster, files
  <2>4. Labelled' /\ Archiving' /\ ExportIsConsistent' /\ InOrder(todo)'
    BY <2>2 DEF SInv, Labelled, Archiving, ExportIsConsistent, At, cluster, files
  <2>5. QED
    BY <2>1, <2>3, <2>4 DEF SInv
<1>2. QED
  BY <1>1, OperatorStages, ScriptStages, DeployingStages, ExportingStages, RestoringStages,
     FailStages, KillStages, ClusterStages DEF Next

\* With any packs, failures, kills and restarts, restore replaces the files of the
\* world only while no server is there.
THEOREM NothingReplacedOnline == Spec => []ReplacedOffline
<1>1. SInv => ReplacedOffline
  BY DEF SInv, Stopped, ReplacedOffline
<1>2. QED
  BY <1>1, StagesAtFirst, StagesKept, PTL DEF Spec

\* A server that runs with saving off is always one whose export is about to turn it
\* on, or one the operator knows of.
THEOREM SavingComesBack == Spec => []SavingIsNotForgotten
<1>1. SInv => SavingIsNotForgotten
  <2> SUFFICES ASSUME SInv, ~saving, ~warned PROVE SavingIsNotForgotten
    BY DEF SavingIsNotForgotten
  <2>1. named = "same" /\ (Unsaved \/ At("save_on")) /\ InOrder(todo) /\ todo \in Seq(Commands)
    BY DEF SInv, Watched, TInv, ScriptFirst
  <2>2. \A c, d : Adjacent(todo, c, d) =>
           \A i \in 1 .. Len(todo) : todo[i] = c => i + 1 \in 1 .. Len(todo) /\ todo[i + 1] = d
    BY DEF Adjacent
  <2>3. Pending("tar_end") => Pending("save_on")
    BY <2>1, <2>2 DEF InOrder, Pending
  <2>4. Pending("tar") => Pending("tar_end")
    BY <2>1, <2>2 DEF InOrder, Pending
  <2>5. Pending("pack_txt") => Pending("tar")
    BY <2>1, <2>2 DEF InOrder, Pending
  <2>6. Pending("flush") => Pending("pack_txt")
    BY <2>1, <2>2 DEF InOrder, Pending
  <2>7. ASSUME NEW c, At(c) PROVE Pending(c)
    BY <2>1, <2>7, TailOfTask DEF At, Pending
  <2>8. Pending("save_on")
    BY <2>1, <2>3, <2>4, <2>5, <2>6, <2>7 DEF Unsaved
  <2>9. QED
    BY <2>1, <2>8 DEF SavingIsNotForgotten, Pending
<1>2. QED
  BY <1>1, StagesAtFirst, StagesKept, PTL DEF Spec

\* Every archive that export reports as exported, and whose container was not
\* restarted meanwhile, is of a settled world and names its pack.
THEOREM ArchivesAreConsistent == Spec => []ExportIsConsistent
<1>1. SInv => ExportIsConsistent
  BY DEF SInv
<1>2. QED
  BY <1>1, StagesAtFirst, StagesKept, PTL DEF Spec

-----------------------------------------------------------------------------
(* The world is lost in Remove only, and only when its archive is cut short. *)
(* If the archive is a finished one and holds the players' world there is    *)
(* nothing to show; if it holds another, that one was archived after an      *)
(* earlier restore had put it in place, and then theirs is archived, too     *)
(* (LossIsCovered), or was lost before.                                      *)

\* The archive that is being restored, and the end of tar.
LEMMA RestoredIsThere ==
    ASSUME TInv, Remove \/ Extract
    PROVE  file \in 1 .. Len(exports)
BY TailOfTask DEF Remove, Extract, At, Pending, TInv, ScriptFirst, RestoresExported

LEMMA TarEndKeeps ==
    ASSUME SInv, TarEnd
    PROVE  /\ world' = world /\ Len(exports') = Len(exports)
           /\ \A i \in 1 .. Len(exports) : exports[i].done => exports'[i] = exports[i]
           /\ Len(exports) \in 1 .. Len(exports)
           /\ exports'[Len(exports)].done
           /\ exports'[Len(exports)].kept = world.kept
           /\ exports'[Len(exports)].pack = world.pack
<1>1. exports # <<>> /\ ~exports[Len(exports)].done
  BY DEF SInv, Archiving, TarEnd
<1>2. QED
  BY <1>1, TarEndFiles DEF SInv, TarEnd, cluster

LEMMA TarKeeps ==
    ASSUME SInv, Tar
    PROVE  /\ world' = world
           /\ Len(exports) \in Nat /\ Len(exports') = Len(exports) + 1
           /\ \A i \in 1 .. Len(exports) : exports'[i] = exports[i]
           /\ ~exports'[Len(exports) + 1].done
<1>1. exports \in Seq(Archives)
  BY DEF SInv, TInv, TypeOK
<1>2. world' = world /\ ~CutShort.done
  BY DEF Tar, CutShort, cluster
<1>3. QED
  BY <1>1, <1>2, TarFiles DEF SInv

\* Every other step leaves the archives, and whether the world is the players'.
LEMMA NothingLost ==
    ASSUME SInv, [Next]_vars, ~Remove, ~Extract, ~Tar, ~TarEnd
    PROVE  UNCHANGED exports /\ world'.kept = world.kept
<1>1. CASE Operator \/ Fail \/ Kill \/ PodGone \/ PodCrashes \/ UNCHANGED vars
  BY <1>1 DEF Operator, StartTask, StartRestore, Begin, Edit, Fail, Kill, PodGone, Terminate,
              PodCrashes, Crash, vars, cluster, files
<1>2. CASE Script
  BY <1>2 DEF Script, Resolve, CacheHit, AskApi, DeployToPoll, Helm, Poll, FallBack, LookUpJava,
              AssumeJava8, cluster, files
<1>3. CASE Deploying
  BY <1>3 DEF Deploying, Deploy, Sync, RolloutRestart, Rollout, HelmUninstall,
              Helm, Kick, Uninstall, cluster, files
<1>4. CASE NamePod \/ SaveOff \/ Flush \/ WritePackTxt \/ SaveOn \/ SaveOnFails
           \/ ScaleDown \/ WaitGone \/ ScaleUp
  BY <1>4 DEF NamePod, SaveOff, Flush, WritePackTxt, SaveOn, SaveOnFails,
              ScaleDown, WaitGone, ScaleUp, Scale, cluster, files
<1>5. CASE PodStarts
  <2>1. world \in [pack : Packs \cup {None}, kept : BOOLEAN]
    BY DEF SInv, TInv, TypeOK, ClusterTypeOK
  <2>2. QED
    BY <1>5, <2>1 DEF PodStarts, Create, Install, Boot, files
<1>6. QED
  BY <1>1, <1>2, <1>3, <1>4, <1>5 DEF Next, Exporting, Restoring

\* No step archives another world while an unarchived one of the players is there.
LEMMA LossStaysCovered == WInv /\ [Next]_vars => LossIsCovered'
<1> SUFFICES ASSUME WInv, [Next]_vars PROVE LossIsCovered'
  OBVIOUS
<1>0. SInv /\ TInv /\ LossIsCovered
  BY DEF WInv, SInv
<1>1. CASE Remove
  <2>1. ~world'.kept
    BY <1>1 DEF Remove
  <2>2. QED
    BY <2>1 DEF LossIsCovered
<1>2. CASE Extract
  <2>1. file \in 1 .. Len(exports) /\ exports[file].done
    BY <1>0, <1>2, RestoredIsThere DEF Extract
  <2>2. world'.kept = exports[file].kept /\ UNCHANGED exports
    BY <1>2 DEF Extract, files
  <2>3. QED
    BY <2>1, <2>2 DEF LossIsCovered
<1>3. CASE Tar
  BY <1>0, <1>3, TarKeeps DEF LossIsCovered
<1>4. CASE TarEnd
  BY <1>0, <1>4, TarEndKeeps DEF LossIsCovered
<1>5. CASE ~Remove /\ ~Extract /\ ~Tar /\ ~TarEnd
  BY <1>0, <1>5, NothingLost DEF LossIsCovered
<1>6. QED
  BY <1>1, <1>2, <1>3, <1>4, <1>5

\* A world that is somewhere stays somewhere.
LEMMA WorldStays ==
    ASSUME WInv, [Next]_vars, WorldIsSomewhere
    PROVE  WorldIsSomewhere' \/ (At("remove") /\ ~exports[file].done)
<1>0. SInv /\ TInv /\ LossIsCovered
  BY DEF WInv, SInv
<1>1. CASE Remove \/ Extract
  <2>1. CASE ~exports[file].done
    <3>1. Remove
      BY <1>1, <2>1 DEF Extract
    <3>2. QED
      BY <2>1, <3>1 DEF Remove
  <2>2. CASE exports[file].done
    <3>1. file \in 1 .. Len(exports) /\ UNCHANGED exports
      BY <1>0, <1>1, RestoredIsThere DEF Remove, Extract, files
    <3>2. \E i \in 1 .. Len(exports) : exports[i].done /\ exports[i].kept
      BY <1>0, <2>2, <3>1 DEF WorldIsSomewhere, LossIsCovered
    <3>3. QED
      BY <3>1, <3>2 DEF WorldIsSomewhere
  <2>3. QED
    BY <2>1, <2>2
<1>2. CASE Tar
  BY <1>0, <1>2, TarKeeps DEF WorldIsSomewhere
<1>3. CASE TarEnd
  BY <1>0, <1>3, TarEndKeeps DEF WorldIsSomewhere
<1>4. CASE ~Remove /\ ~Extract /\ ~Tar /\ ~TarEnd
  BY <1>0, <1>4, NothingLost DEF WorldIsSomewhere
<1>5. QED
  BY <1>1, <1>2, <1>3, <1>4

\* After any sequence of tasks and failures, with any number of archives, the players'
\* world goes in one step only: the "rm -rf" of a restore from an archive that its
\* export left cut short.
THEOREM LossNeedsCutArchive == Spec => OnlyCutArchivesLose
<1>1. Init => WInv
  <2>1. Init => LossIsCovered
    BY DEF Init, LossIsCovered
  <2>2. QED
    BY <2>1, StagesAtFirst DEF WInv
<1>2. WInv /\ [Next]_vars => WInv'
  BY StagesKept, LossStaysCovered DEF WInv
<1>3. WInv /\ [Next]_vars =>
         [WorldIsSomewhere => WorldIsSomewhere' \/ (At("remove") /\ ~exports[file].done)]_vars
  BY WorldStays
<1>4. QED
  BY <1>1, <1>2, <1>3, PTL DEF Spec, OnlyCutArchivesLose

-----------------------------------------------------------------------------
(* WorldOps implements World.                                               *)

InFile(i) == [pack |-> exports[i].pack, kept |-> exports[i].kept]

\* A finished archive is one of the saved worlds; any other is torn, but the one tar
\* is writing.
LEMMA FinishedIsSaved ==
    ASSUME NEW i \in 1 .. Len(exports), exports[i].done
    PROVE  InFile(i) \in Saved
BY DEF Saved, InFile

LEMMA UnfinishedIsTorn ==
    ASSUME NEW i \in 1 .. Len(exports), ~exports[i].done, ~At("tar_end")
    PROVE  Torn
BY DEF Torn

\* Tar saves nothing yet; its end saves the world as it is.  Neither tears an archive.
LEMMA TarSavesNothing ==
    ASSUME SInv, Tar
    PROVE  Saved' = Saved /\ Torn' = Torn
<1>1. /\ Len(exports) \in Nat /\ Len(exports') = Len(exports) + 1
      /\ \A i \in 1 .. Len(exports) : exports'[i] = exports[i]
      /\ ~exports'[Len(exports) + 1].done
  BY TarKeeps
<1>2. {j \in 1 .. Len(exports') : exports'[j].done} = {j \in 1 .. Len(exports) : exports[j].done}
  BY <1>1
<1>3. ~At("tar_end") /\ At("tar_end")'
  BY NextCommand DEF SInv, Tar, At
<1>4. Torn' <=> Torn
  BY <1>1, <1>3 DEF Torn
<1>5. QED
  BY <1>1, <1>2, <1>4 DEF Saved, Torn

LEMMA TarEndSaves ==
    ASSUME SInv, TarEnd
    PROVE  Saved' = Saved \cup {world} /\ Torn' = Torn
<1> DEFINE n == Len(exports)
<1>1. /\ n \in 1 .. Len(exports) /\ Len(exports') = Len(exports)
      /\ exports'[n].done /\ exports'[n].pack = world.pack /\ exports'[n].kept = world.kept
      /\ world \in [pack : Packs \cup {None}, kept : BOOLEAN]
      /\ At("tar_end") /\ ~exports[n].done
  BY TarEndKeeps DEF SInv, TInv, TypeOK, ClusterTypeOK, Archiving, TarEnd
<1>2. \A i \in 1 .. Len(exports) : i # n => exports'[i] = exports[i]
  BY TarEndFiles DEF SInv
<1>3. world = [pack |-> world.pack, kept |-> world.kept]
  BY <1>1
<1>4. /\ \A i \in 1 .. Len(exports) : i # n => InFile(i)' = InFile(i)
      /\ [pack |-> exports'[n].pack, kept |-> exports'[n].kept] = world
  BY <1>1, <1>2, <1>3 DEF InFile
<1>5. ~At("tar_end")'
  <2>1. CASE Done
    BY <1>1, <2>1, NextCommand DEF SInv, At, TarEnd
  <2>2. CASE todo' = LeftToDo("tar_end")
    BY <2>2 DEF LeftToDo, At
  <2>3. QED
    BY <2>1, <2>2 DEF TarEnd
<1> HIDE DEF n
<1>6. ASSUME NEW w PROVE w \in Saved' <=> w \in Saved \cup {world}
  <2>1. w \in Saved' <=>
           \E i \in 1 .. Len(exports) :
               exports'[i].done /\ w = [pack |-> exports'[i].pack, kept |-> exports'[i].kept]
    BY <1>1 DEF Saved
  <2>2. w \in Saved <=> \E i \in 1 .. Len(exports) : exports[i].done /\ w = InFile(i)
    BY DEF Saved, InFile
  <2>3. QED
    BY <1>1, <1>2, <1>4, <2>1, <2>2 DEF InFile
<1>7. Torn' <=> Torn
  <2>1. Torn <=> \E i \in 1 .. Len(exports) : ~exports[i].done /\ i # n
    BY <1>1 DEF Torn, n
  <2>2. Torn' <=> \E i \in 1 .. Len(exports) : ~exports'[i].done
    BY <1>1, <1>5 DEF Torn
  <2>3. QED
    BY <1>1, <1>2, <2>1, <2>2
<1>8. QED
  BY <1>6, <1>7 DEF Torn

\* A step of a task that leaves the archives, the world and the server: it may at most
\* leave the archive cut short that tar was writing.
LEMMA UnseenTask ==
    ASSUME UNCHANGED <<exports, world>>, pod'.phase = pod.phase, At("tar_end")' => At("tar_end")
    PROVE  [Abstract!Next]_(Abstract!vars)
<1>1. Saved' = Saved /\ (pod'.phase = "running") = (pod.phase = "running")
  BY DEF Saved
<1>2. Torn => Torn'
  BY DEF Torn
<1>3. Torn \in BOOLEAN /\ Torn' \in BOOLEAN
  BY DEF Torn
<1>4. CASE Torn' = Torn
  BY <1>1, <1>4 DEF Abstract!vars
<1>5. CASE Torn' = TRUE
  BY <1>1, <1>5 DEF Abstract!Next, Abstract!ArchiveInPart
<1>6. QED
  BY <1>2, <1>3, <1>4, <1>5

\* A step of the cluster that leaves the archives and the world, and starts no server.
LEMMA UnseenPod ==
    ASSUME UNCHANGED <<todo, exports, world>>, pod'.phase = "running" => pod.phase = "running"
    PROVE  [Abstract!Next]_(Abstract!vars)
<1>1. Saved' = Saved
  BY DEF Saved
<1>2. Torn' = Torn
  BY DEF Torn, At
<1>3. QED
  BY <1>1, <1>2 DEF Abstract!Next, Abstract!Close, Abstract!vars

\* Only tar comes before the end of tar.
LEMMA NotWriting ==
    ASSUME SInv, [Next]_vars, ~Tar
    PROVE  At("tar_end")' => At("tar_end")
<1>0. TInv /\ InOrder(todo)
  BY DEF SInv
<1>1. ASSUME todo # <<>>, Head(todo) # "tar", Done PROVE ~At("tar_end")'
  BY <1>0, <1>1, NextCommand DEF At
<1>2. CASE Operator
  <2>1. /\ Head(Up) = "resolve" /\ Head(Restart) = "resolve" /\ Head(Down) = "uninstall"
        /\ Head(Export) = "name_pod" /\ Head(Upgrade) = "resolve"
        /\ Head(Restore) = "scale_down"
    BY DEF Up, Restart, Down, Export, Upgrade, Restore
  <2>2. QED
    BY <1>2, <2>1 DEF Operator, StartTask, StartRestore, Begin, Edit, At
<1>3. CASE Script
  <2>1. todo # <<>> /\ Head(todo) \in Scripting
    BY <1>3 DEF Script, Resolve, CacheHit, AskApi, DeployToPoll, Poll, FallBack, LookUpJava,
                AssumeJava8, At, Scripting
  <2>2. CASE Done
    BY <1>1, <2>1, <2>2 DEF Scripting
  <2>3. CASE \E c \in {"poll", "java"} : todo' = <<c>> \o Tail(todo)
    <3>1. PICK c \in {"poll", "java"} : todo' = <<c>> \o Tail(todo)
      BY <2>3
    <3>2. Head(todo') = c
      BY <1>0, <1>3, <2>1, <3>1, ScriptGoesOn DEF Script
    <3>3. QED
      BY <3>2 DEF At
  <2>4. QED
    BY <1>3, <2>2, <2>3 DEF Script, Resolve, CacheHit, AskApi, DeployToPoll, Poll, FallBack,
                            LookUpJava, AssumeJava8
<1>4. CASE Deploying
  BY <1>1, <1>4 DEF Deploying, Deploy, Sync, RolloutRestart, Rollout, HelmUninstall, At
<1>5. CASE Exporting
  BY <1>1, <1>5 DEF Exporting, NamePod, SaveOff, Flush, WritePackTxt, TarEnd, SaveOn,
                    SaveOnFails, At
<1>6. CASE Restoring
  BY <1>1, <1>6 DEF Restoring, ScaleDown, WaitGone, Remove, Extract, ScaleUp, At
<1>7. CASE Fail \/ Kill
  BY <1>7 DEF Fail, LeftToDo, Kill, At
<1>8. CASE PodGone \/ PodCrashes \/ PodStarts \/ UNCHANGED vars
  BY <1>8 DEF PodGone, PodCrashes, PodStarts, vars, script, At
<1>9. QED
  BY <1>2, <1>3, <1>4, <1>5, <1>6, <1>7, <1>8 DEF Next

\* Every step is one of World's, or changes nothing there.
LEMMA StepsAsWorld == SInv /\ [Next]_vars => [Abstract!Next]_(Abstract!vars)
<1> SUFFICES ASSUME SInv, [Next]_vars PROVE [Abstract!Next]_(Abstract!vars)
  OBVIOUS
<1>0. /\ pod \in [phase : {"none", "starting", "running"},
                  release : Releases \cup {None}, kicked : BOOLEAN]
      /\ world \in [pack : Packs \cup {None}, kept : BOOLEAN]
  BY DEF SInv, TInv, TypeOK, ClusterTypeOK
<1>1. CASE Operator \/ Fail \/ Kill
  <2>1. UNCHANGED <<cluster, exports>>
    BY <1>1 DEF Operator, StartTask, StartRestore, Begin, Edit, Fail, Kill, files
  <2>2. QED
    BY <2>1, UnseenTask, NotWriting, TarKeeps DEF cluster
<1>2. CASE Script \/ Deploying
  <2>1. UNCHANGED <<world, exports>> /\ pod' \in {pod, Kicked}
    <3>1. CASE Script
      BY <3>1 DEF Script, Resolve, CacheHit, AskApi, DeployToPoll, Poll, FallBack, LookUpJava,
                  AssumeJava8, Helm, cluster, files
    <3>2. CASE Deploying
      BY <3>2 DEF Deploying, Deploy, Sync, RolloutRestart, Rollout, HelmUninstall,
                  Helm, Kick, Uninstall, cluster, files
    <3>3. QED
      BY <1>2, <3>1, <3>2
  <2>2. pod'.phase = pod.phase
    BY <1>0, <2>1, KickedPod
  <2>3. QED
    BY <2>1, <2>2, UnseenTask, NotWriting, TarKeeps
<1>4. CASE NamePod \/ SaveOff \/ Flush \/ WritePackTxt \/ SaveOn \/ SaveOnFails
           \/ ScaleDown \/ WaitGone \/ ScaleUp
  <2>1. UNCHANGED <<pod, world, exports>>
    BY <1>4 DEF NamePod, SaveOff, Flush, WritePackTxt, SaveOn, SaveOnFails,
                ScaleDown, WaitGone, ScaleUp, Scale, cluster, files
  <2>2. QED
    BY <2>1, UnseenTask, NotWriting, TarKeeps
<1>5. CASE Tar
  <2>1. Saved' = Saved /\ Torn' = Torn /\ UNCHANGED <<pod, world>>
    BY <1>5, TarSavesNothing DEF Tar, cluster
  <2>2. QED
    BY <2>1 DEF Abstract!vars
<1>6. CASE TarEnd
  <2>1. Saved' = Saved \cup {world} /\ Torn' = Torn /\ UNCHANGED <<pod, world>>
    BY <1>6, TarEndSaves DEF TarEnd, cluster
  <2>2. Abstract!Archive
    BY <2>1 DEF Abstract!Archive
  <2>3. QED
    BY <2>2 DEF Abstract!Next
<1>7. CASE Remove \/ Extract
  <2>1. pod.phase = "none" /\ UNCHANGED <<pod, exports>>
    BY <1>7 DEF Remove, Extract, SInv, Stopped, files
  <2>2. file \in 1 .. Len(exports)
    BY <1>7, RestoredIsThere DEF SInv
  <2>3. ~At("tar_end") /\ ~At("tar_end")'
    BY <1>7, NextCommand DEF SInv, Remove, Extract, At
  <2>4. Saved' = Saved /\ Torn' = Torn
    BY <2>1, <2>3 DEF Saved, Torn
  <2>5. CASE Remove
    <3>1. Saved # {} \/ Torn
      BY <2>2, <2>3, FinishedIsSaved, UnfinishedIsTorn
    <3>2. Abstract!Clear
      BY <2>1, <2>4, <2>5, <3>1 DEF Remove, Abstract!Clear
    <3>3. QED
      BY <3>2 DEF Abstract!Next
  <2>6. CASE Extract
    <3>1. InFile(file) \in Saved
      BY <2>2, <2>6, FinishedIsSaved DEF Extract
    <3>2. Abstract!Replace
      BY <2>1, <2>4, <2>6, <3>1 DEF Extract, InFile, Abstract!Replace
    <3>3. QED
      BY <3>2 DEF Abstract!Next
  <2>7. QED
    BY <1>7, <2>5, <2>6
<1>8. CASE PodGone \/ PodCrashes
  <2>1. UNCHANGED <<todo, world, exports>> /\ pod'.phase # "running"
    BY <1>0, <1>8 DEF PodGone, Terminate, NoPod, PodCrashes, Crash, script
  <2>2. QED
    BY <2>1, UnseenPod
<1>9. CASE PodStarts
  <2>1. UNCHANGED <<todo, exports>>
    BY <1>9 DEF PodStarts, script, files
  <2>2. CASE Create \/ Install
    <3>1. UNCHANGED world /\ (pod'.phase = "running" => pod.phase = "running")
      BY <2>2 DEF Create, Install
    <3>2. QED
      BY <2>1, <3>1, UnseenPod
  <2>3. CASE Boot
    <3>1. pod.phase = "starting" /\ pod'.phase = "running"
          /\ world' = [world EXCEPT !.pack = pod.release.pack]
      BY <1>0, <2>3 DEF Boot
    <3>2. Saved' = Saved /\ Torn' = Torn
      BY <2>1 DEF Saved, Torn, At
    <3>3. pod.release \in Releases
      BY <1>0, <3>1 DEF SInv, TInv, TypeOK, ClusterTypeOK
    <3>4. pod.release.pack \in Packs
      BY <3>3 DEF Releases
    <3>5. Abstract!Open
      BY <3>1, <3>2, <3>4 DEF Abstract!Open
    <3>6. QED
      BY <3>5 DEF Abstract!Next
  <2>4. QED
    BY <1>9, <2>2, <2>3 DEF PodStarts
<1>10. CASE UNCHANGED vars
  <2>1. UNCHANGED <<todo, exports, world, pod>>
    BY <1>10 DEF vars, script, files, cluster
  <2>2. QED
    BY <2>1, UnseenPod
<1>11. QED
  BY <1>1, <1>2, <1>4, <1>5, <1>6, <1>7, <1>8, <1>9, <1>10 DEF Next, Exporting, Restoring

\* Command by command, whatever fails in between, the tasks do to the world only what
\* World allows: it is opened, archived as it is, cleared offline when there is an
\* archive, and replaced offline from a finished one.
THEOREM ImplementsWorld == Spec => WorldSpec
<1>1. Init => Abstract!Init
  <2> SUFFICES ASSUME Init PROVE Abstract!Init
    OBVIOUS
  <2>1. exports = <<>> /\ pod.phase = "none" /\ world = [pack |-> None, kept |-> TRUE]
    BY DEF Init, ClusterInit, NoPod
  <2>2. Saved = {} /\ Torn = FALSE
    BY <2>1 DEF Saved, Torn
  <2>3. QED
    BY <2>1, <2>2 DEF Abstract!Init
<1>2. QED
  BY <1>1, StagesAtFirst, StagesKept, StepsAsWorld, PTL DEF Spec, WorldSpec, Abstract!Spec

-----------------------------------------------------------------------------
(* What World allows is enough: as long as no export has been cut short, what *)
(* implements it does not lose the world.                                     *)

Worlds == [pack : Packs \cup {None}, kept : BOOLEAN]

\* In World's terms: once another world than the players' is anywhere, theirs is
\* saved; unless an export has been cut short.
Survives ==
    /\ world \in Worlds
    /\ Saved \subseteq Worlds
    /\ \/ Torn
       \/ ~world.kept \/ (\E w \in Saved : ~w.kept) => \E w \in Saved : w.kept

\* Each step of World keeps this: the first archive is made of the players' world.
LEMMA WorldSurvives == Survives /\ [Abstract!Next]_(Abstract!vars) => Survives'
<1> SUFFICES ASSUME Survives, [Abstract!Next]_(Abstract!vars) PROVE Survives'
  OBVIOUS
<1>1. CASE Abstract!Open
  <2>1. Saved' = Saved /\ Torn' = Torn /\ world'.kept = world.kept /\ world' \in Worlds
    BY <1>1 DEF Abstract!Open, Survives, Worlds
  <2>2. QED
    BY <2>1 DEF Survives
<1>2. CASE Abstract!Close
  BY <1>2 DEF Abstract!Close, Survives
<1>3. CASE Abstract!Archive
  <2>1. Saved' = Saved \cup {world} /\ world' = world /\ Torn' = Torn
    BY <1>3 DEF Abstract!Archive
  <2>2. QED
    BY <2>1 DEF Survives
<1>4. CASE Abstract!ArchiveInPart
  <2>1. Saved' = Saved /\ world' = world /\ Torn'
    BY <1>4 DEF Abstract!ArchiveInPart
  <2>2. QED
    BY <2>1 DEF Survives
<1>5. CASE Abstract!Clear
  <2>1. /\ Saved # {} \/ Torn
        /\ Saved' = Saved /\ Torn' = Torn /\ world' = [pack |-> None, kept |-> FALSE]
    BY <1>5 DEF Abstract!Clear
  <2>2. Torn \/ \E w \in Saved : w.kept
    BY <2>1 DEF Survives
  <2>3. world' \in Worlds
    BY <2>1 DEF Worlds
  <2>4. QED
    BY <2>1, <2>2, <2>3 DEF Survives
<1>6. CASE Abstract!Replace
  <2>1. world' \in Saved /\ Saved' = Saved /\ Torn' = Torn
    BY <1>6 DEF Abstract!Replace
  <2>2. QED
    BY <2>1 DEF Survives
<1>7. CASE UNCHANGED Abstract!vars
  BY <1>7 DEF Abstract!vars, Survives
<1>8. QED
  BY <1>1, <1>2, <1>3, <1>4, <1>5, <1>6, <1>7 DEF Abstract!Next

\* Any behaviour that does to the world only what World allows keeps the players'
\* world, on the volume or in a finished archive, as long as no export has left an
\* archive cut short.
THEOREM WorldAllowsNoLoss == WorldSpec => [](Torn \/ WorldIsSomewhere)
<1>1. Abstract!Init => Survives
  BY DEF Abstract!Init, Survives, Worlds
<1>2. Survives => Torn \/ WorldIsSomewhere
  <2> SUFFICES ASSUME Survives, ~Torn, ~world.kept
               PROVE  \E i \in 1 .. Len(exports) : exports[i].done /\ exports[i].kept
    BY DEF WorldIsSomewhere
  <2>1. PICK w \in Saved : w.kept
    BY DEF Survives
  <2>2. PICK i \in 1 .. Len(exports) :
           exports[i].done /\ w = [pack |-> exports[i].pack, kept |-> exports[i].kept]
    BY DEF Saved
  <2>3. QED
    BY <2>1, <2>2
<1>3. QED
  BY <1>1, <1>2, WorldSurvives, PTL DEF WorldSpec, Abstract!Spec
=============================================================================
