------------------------------ MODULE WorldOps -----------------------------
(***************************************************************************)
(* The tasks of Taskfile.yaml that deploy the server and move its world:   *)
(* up, down, restart, upgrade, export and restore.                         *)
(*                                                                         *)
(* A task is the sequence of its commands, run by one operator, one task   *)
(* at a time.  Any command may fail, and then the task ends (set -e), but  *)
(* for what its EXIT trap does; Kubernetes and the image go their own way  *)
(* between any two commands.                                               *)
(***************************************************************************)
EXTENDS JavaTag

CONSTANTS
    Edits,       \* Edits[p]: the packs the operator may pin after p
    MaxExports   \* bound: files in exports/

ASSUME OperatorAssumption ==
    /\ Edits \in [Packs -> SUBSET Packs]
    /\ MaxExports \in Nat

VARIABLES
    exports,  \* the archives in exports/, oldest first
    file,     \* FILE, the number of the archive restore reads
    named,    \* what became of $POD since export read its name
    warned    \* saving is off, and export printed "could not re-enable saving" or was
              \* killed before it could

files == <<exports, file, named, warned>>
vars  == <<cluster, script, files>>

Archives ==
    [ done      : BOOLEAN,                \* tar has written all of it
      settled   : BOOLEAN,                \* nothing was written to the world meanwhile
      disturbed : BOOLEAN,                \* the container was restarted during the export
      kept      : BOOLEAN,                \* it holds the players' world
      pack      : Packs \cup {None},      \* the pack that world was last opened with
      label     : Packs \cup {None} ]    \* CF_FILE_ID in PACK.txt

TypeOK ==
    /\ ClusterTypeOK
    /\ ScriptTypeOK
    /\ exports \in Seq(Archives) /\ Len(exports) <= MaxExports
    /\ file \in 0 .. Len(exports)
    /\ named \in {"same", "restarted", "gone"}
    /\ warned \in BOOLEAN

Init ==
    /\ ClusterInit
    /\ ScriptInit
    /\ exports = <<>>
    /\ file = 0
    /\ named = "gone"
    /\ warned = FALSE

-----------------------------------------------------------------------------
(* The tasks.                                                               *)

Up      == <<"resolve", "deploy", "rollout">>
Down    == <<"uninstall">>
Restart == <<"resolve", "deploy", "kick", "rollout">>

\* Mutant: the archive is taken before the flush.
ExportUnflushed == <<"name_pod", "save_off", "pack_txt", "tar", "tar_end", "flush", "save_on">>

Export == <<"name_pod", "save_off", "flush", "pack_txt", "tar", "tar_end", "save_on">>

\* Mutant: the export comes after the deployment.
UpgradeThenExport == <<"resolve", "sync", "rollout">> \o Export \o <<"deploy">>

Upgrade == <<"resolve">> \o Export \o <<"sync", "rollout", "deploy">>

\* Mutant: restore does not wait for the pod to be gone.
RestoreAtOnce == <<"scale_down", "remove", "extract", "scale_up", "rollout">>

Restore == <<"scale_down", "wait_gone", "remove", "extract", "scale_up", "rollout">>

Begin(task) ==
    /\ todo = <<>>
    /\ todo' = task
    /\ tag' = None
    /\ version' = None
    /\ UNCHANGED <<pinned, cache, cluster, exports, named, warned>>

\* Another pack is pinned to be deployed with upgrade (README, "Upgrading the
\* modpack"); up and restart are for the pack that is installed.
PinnedInstalled == release # None /\ release.pack = pinned

RoomForExport == Len(exports) < MaxExports

StartTask ==
    /\ \/ Begin(Up)      /\ (release = None \/ PinnedInstalled)
       \/ Begin(Restart) /\ PinnedInstalled
       \/ Begin(Down)    /\ release # None
       \/ Begin(Export)  /\ RoomForExport
       \/ Begin(Upgrade) /\ RoomForExport
    /\ file' = 0

\* test -f FILE: any archive, that of an export that failed too ("ls -t ... | head -1").
StartRestore ==
    /\ file' \in 1 .. Len(exports)
    /\ Begin(Restore)

Edit ==
    /\ todo = <<>>
    /\ \E p \in Edits[pinned] : pinned' = p
    /\ UNCHANGED <<cache, todo, tag, version, cluster, files>>

-----------------------------------------------------------------------------
(* The commands that deploy.                                                *)

Deploy ==
    /\ At("deploy")
    /\ Helm(pinned, tag, FALSE)
    /\ Done
    /\ UNCHANGED <<pinned, cache, tag, version, files>>

\* --set modpack.forceSynchronize=true
Sync ==
    /\ At("sync")
    /\ Helm(pinned, tag, TRUE)
    /\ Done
    /\ UNCHANGED <<pinned, cache, tag, version, files>>

RolloutRestart ==
    /\ At("kick")
    /\ Kick
    /\ Done
    /\ UNCHANGED <<pinned, cache, tag, version, files>>

\* helm --wait, kubectl rollout status
Rollout ==
    /\ At("rollout")
    /\ RolledOut
    /\ Done
    /\ UNCHANGED <<pinned, cache, tag, version, cluster, files>>

HelmUninstall ==
    /\ At("uninstall")
    /\ Uninstall
    /\ Done
    /\ UNCHANGED <<pinned, cache, tag, version, files>>

-----------------------------------------------------------------------------
(* The commands of export.  kubectl exec reaches the container of $POD as   *)
(* long as that pod is there; rcon-cli reaches the server when it runs.     *)

Exec == named # "gone" /\ pod.phase # "none"
Rcon == named # "gone" /\ pod.phase = "running"

NamePod ==
    /\ At("name_pod")
    /\ pod.phase # "none"
    /\ named' = "same"
    /\ Done
    /\ UNCHANGED <<pinned, cache, tag, version, cluster, exports, file, warned>>

SaveOff ==
    /\ At("save_off") /\ Rcon
    /\ saving' = FALSE
    /\ settled' = FALSE
    /\ named' = "same"
    /\ Done
    /\ UNCHANGED <<release, replicas, pod, packTxt, manifest, world>>
    /\ UNCHANGED <<pinned, cache, tag, version, exports, file, warned>>

\* save-all flush: while saving is on, the next write follows at once.
Flush ==
    /\ At("flush") /\ Rcon
    /\ settled' = ~saving
    /\ Done
    /\ UNCHANGED <<release, replicas, pod, saving, packTxt, manifest, world>>
    /\ UNCHANGED <<pinned, cache, tag, version, files>>

WritePackTxt ==
    /\ At("pack_txt") /\ Exec
    /\ packTxt' = pod.release.pack
    /\ Done
    /\ UNCHANGED <<release, replicas, pod, saving, settled, manifest, world>>
    /\ UNCHANGED <<pinned, cache, tag, version, files>>

\* Mutant: there is one file, without a time in its name.
FiledOver(a) == IF exports = <<>> THEN <<a>> ELSE [exports EXCEPT ![Len(exports)] = a]

\* A new file for each export.
Filed(a) == Append(exports, a)

\* What tar has not finished is of no use.
CutShort ==
    [ done |-> FALSE, settled |-> FALSE, disturbed |-> TRUE, kept |-> FALSE,
      pack |-> None, label |-> None ]

\* "> $OUT": the shell makes the file, whether tar then starts or not.
Tar ==
    /\ At("tar")
    /\ exports' = Filed(CutShort)
    /\ Done
    /\ UNCHANGED <<pinned, cache, tag, version, cluster, file, named, warned>>

\* Mutant: no trap.
LeftToDoNothing(command) == <<>>

\* What is still run when a command has failed: between setting the trap and the
\* end of its block, save-on.
LeftToDo(command) ==
    IF command \in {"save_off", "flush", "pack_txt", "tar", "tar_end"}
      THEN <<"save_on">> ELSE <<>>

\* The archive is finished, though the command may still fail then.  (When PACK.txt is
\* missing it is taken to be cut short.)  tar does not outlive its container.
TarEnd ==
    /\ At("tar_end") /\ Exec
    /\ packTxt # None
    /\ exports' = [exports EXCEPT ![Len(exports)] =
                      [ done |-> TRUE, settled |-> settled, disturbed |-> named # "same",
                        kept |-> world.kept, pack |-> world.pack, label |-> packTxt ]]
    /\ Done \/ todo' = LeftToDo("tar_end")
    /\ UNCHANGED <<pinned, cache, tag, version, cluster, file, named, warned>>

\* The trap: "Re-enable saving no matter how we leave this block".
SaveOn ==
    /\ At("save_on") /\ Rcon
    /\ saving' = TRUE
    /\ settled' = FALSE
    /\ warned' = FALSE
    /\ Done
    /\ UNCHANGED <<release, replicas, pod, packTxt, manifest, world>>
    /\ UNCHANGED <<pinned, cache, tag, version, exports, file, named>>

\* "WARNING: could not re-enable saving".  The task goes on.
SaveOnFails ==
    /\ At("save_on")
    /\ warned' = ~saving
    /\ Done
    /\ UNCHANGED <<pinned, cache, tag, version, cluster, exports, file, named>>

-----------------------------------------------------------------------------
(* The commands of restore.                                                 *)

ScaleDown ==
    /\ At("scale_down")
    /\ Scale(0)
    /\ Done
    /\ UNCHANGED <<pinned, cache, tag, version, files>>

WaitGone ==
    /\ At("wait_gone")
    /\ pod.phase = "none"
    /\ Done
    /\ UNCHANGED <<pinned, cache, tag, version, cluster, files>>

\* rm -rf /data/world, in a helper pod
Remove ==
    /\ At("remove")
    /\ world' = [pack |-> None, kept |-> FALSE]
    /\ Done
    /\ UNCHANGED <<release, replicas, pod, saving, settled, packTxt, manifest>>
    /\ UNCHANGED <<pinned, cache, tag, version, files>>

\* Of an archive that is cut short the extraction fails (a part of a world counts as none).
Extract ==
    /\ At("extract")
    /\ exports[file].done
    /\ world' = [pack |-> exports[file].pack, kept |-> exports[file].kept]
    /\ Done
    /\ UNCHANGED <<release, replicas, pod, saving, settled, packTxt, manifest>>
    /\ UNCHANGED <<pinned, cache, tag, version, files>>

ScaleUp ==
    /\ At("scale_up")
    /\ Scale(1)
    /\ Done
    /\ UNCHANGED <<pinned, cache, tag, version, files>>

-----------------------------------------------------------------------------
(* Failures.                                                                *)

\* A command fails, times out or is interrupted.  The script's own failures are
\* FallBack, the trap's SaveOnFails.
Fail ==
    /\ todo # <<>>
    /\ Head(todo) \notin {"poll", "java", "save_on"}
    /\ todo' = LeftToDo(Head(todo))
    /\ UNCHANGED <<pinned, cache, tag, version, cluster, files>>

\* The operator's machine dies, or the shell is killed outright: no trap runs.
Kill ==
    /\ todo # <<>>
    /\ todo' = <<>>
    /\ warned' = (warned \/ ~saving)
    /\ UNCHANGED <<pinned, cache, tag, version, cluster, exports, file, named>>

-----------------------------------------------------------------------------
(* Kubernetes and the image.                                                *)

PodGone ==
    /\ Terminate
    /\ named' = "gone"
    /\ warned' = FALSE
    /\ UNCHANGED <<script, exports, file>>

PodCrashes ==
    /\ Crash
    /\ named' = IF named = "same" THEN "restarted" ELSE named
    /\ warned' = FALSE
    /\ UNCHANGED <<script, exports, file>>

PodStarts ==
    /\ Create \/ Install \/ Boot
    /\ UNCHANGED <<script, files>>

Operator  == StartTask \/ StartRestore \/ Edit
Script    == Resolve /\ UNCHANGED files
Deploying == Deploy \/ Sync \/ RolloutRestart \/ Rollout \/ HelmUninstall
Exporting == NamePod \/ SaveOff \/ Flush \/ WritePackTxt \/ Tar \/ TarEnd \/ SaveOn \/ SaveOnFails
Restoring == ScaleDown \/ WaitGone \/ Remove \/ Extract \/ ScaleUp

Next ==
    \/ Operator
    \/ Script
    \/ Deploying
    \/ Exporting
    \/ Restoring
    \/ Fail
    \/ Kill
    \/ PodGone
    \/ PodCrashes
    \/ PodStarts

Spec == Init /\ [][Next]_vars

-----------------------------------------------------------------------------
(* Properties.                                                              *)

Pending(command) == \E i \in 1 .. Len(todo) : todo[i] = command

\* "Consistent world snapshot to ./exports (safe on a running server)": a finished
\* archive was taken while nothing was written, and PACK.txt names the pack its
\* world belongs to; unless the container was restarted meanwhile, which turns
\* saving on again, and export does not notice.
ExportIsConsistent ==
    \A i \in 1 .. Len(exports) :
        exports[i].done /\ ~exports[i].disturbed =>
            exports[i].settled /\ exports[i].label = exports[i].pack

\* "If this is skipped, the server runs with saving off and loses everything": a
\* server that runs with saving off is one whose export is about to turn it on, or
\* the operator knows: the export said so, or its shell was killed.
SavingIsNotForgotten ==
    pod.phase = "running" /\ ~saving =>
        \/ warned
        \/ named = "same" /\ Pending("save_on")

\* "restore cannot run against a live world": its files are replaced only while no
\* server is there, whatever the tasks before it have left half done.
ReplacedOffline == At("remove") \/ At("extract") => pod.phase = "none"

\* The players' world is on the volume or in a finished archive.
WorldIsSomewhere ==
    \/ world.kept
    \/ \E i \in 1 .. Len(exports) : exports[i].done /\ exports[i].kept

\* One step only can lose the players' world: the "rm -rf" of a restore from an
\* archive that its export left cut short (restore checks that the file is there, not
\* that it can be read).  No other step does, after any sequence of tasks and failures.
OnlyCutArchivesLose ==
    [][ WorldIsSomewhere =>
          WorldIsSomewhere' \/ (At("remove") /\ ~exports[file].done) ]_vars

\* The newest archive holds the world as it is: complete, and of this pack, unless
\* the pod it was taken from has been replaced since (one an earlier upgrade had left
\* outdated; the archive then holds the world from before that upgrade).
Exported ==
    /\ exports # <<>>
    /\ LET newest == exports[Len(exports)] IN
          /\ newest.done
          /\ world.kept => newest.kept
          /\ \/ newest.pack = world.pack
             \/ named = "gone" /\ ~Pending("name_pod")

\* "It exports the world before touching anything": when the installed release is
\* given another pack and there is a world, the newest archive holds it.
ExportedFirst ==
    [][ /\ release # None /\ release' # None /\ release'.pack # release.pack
        /\ world.pack # None
        => Exported ]_vars

\* The cache holds, under a file id, the tag "that matches the Minecraft version of
\* the pinned modpack fileId", never that of another pack; or java8, which is kept for
\* good wherever Mojang's answer names no Java, be it an error page.
CacheIsRight == \A p \in Packs : cache[p] \in {JavaOf[p], "java8", None}

\* What is in the finished archives.
Saved ==
    {[pack |-> exports[i].pack, kept |-> exports[i].kept] :
        i \in {j \in 1 .. Len(exports) : exports[j].done}}

\* tar has left an archive unfinished: any but the one it is writing.
Torn ==
    \E i \in 1 .. Len(exports) :
        ~exports[i].done /\ ~(i = Len(exports) /\ At("tar_end"))

Abstract ==
    INSTANCE World WITH online <- pod.phase = "running", saved <- Saved, cut <- Torn

\* Command by command, with failures, kills and a cluster that goes its own way, the
\* tasks do to the world only what World allows: see there.
WorldSpec == Abstract!Spec

-----------------------------------------------------------------------------
(* The strengthenings the proofs need.                                      *)

Scripting == {"resolve", "poll", "java"}

Commands ==
    Scripting \cup
    { "deploy", "sync", "kick", "rollout", "uninstall",
      "name_pod", "save_off", "flush", "pack_txt", "tar", "tar_end", "save_on",
      "scale_down", "wait_gone", "remove", "extract", "scale_up" }

\* The script comes first in a task, and only once.
ScriptFirst ==
    /\ todo \in Seq(Commands)
    /\ \A i \in 2 .. Len(todo) : todo[i] \notin Scripting

\* What is still to be deployed has a tag, or the script is about to print one.
TagBeforeDeploy ==
    Pending("deploy") \/ Pending("sync") => tag # None \/ Head(todo) \in Scripting

\* There is one tar to a task, and room for its archive.
RoomForTar ==
    /\ Pending("tar") => Len(exports) < MaxExports
    /\ \A i, j \in 1 .. Len(todo) : todo[i] = "tar" /\ todo[j] = "tar" => i = j

\* What is being restored is there.
RestoresExported ==
    Pending("remove") \/ Pending("extract") => file \in 1 .. Len(exports)

TInv ==
    /\ TypeOK
    /\ replicas = 1 => release # None
    /\ ScriptFirst /\ TagBeforeDeploy /\ RoomForTar /\ RestoresExported

\* Where another world than the players' has been archived and theirs is on the volume,
\* it comes from an archive.
LossIsCovered ==
    world.kept /\ (\E i \in 1 .. Len(exports) : exports[i].done /\ ~exports[i].kept) =>
        \E i \in 1 .. Len(exports) : exports[i].done /\ exports[i].kept

\* Where the API answers for every pack, nothing is polled.
CInv ==
    /\ TInv
    /\ CacheIsRight
    /\ ~At("poll")
    /\ At("java") => version = pinned

\* In todo, d comes right after c and nowhere else, but for what has been done.
Adjacent(s, c, d) ==
    /\ \A i \in 2 .. Len(s) : s[i] = d => s[i - 1] = c
    /\ \A i \in 1 .. Len(s) : s[i] = c => i + 1 \in 1 .. Len(s) /\ s[i + 1] = d

InOrder(s) ==
    /\ Adjacent(s, "save_off", "flush")
    /\ Adjacent(s, "flush", "pack_txt")
    /\ Adjacent(s, "pack_txt", "tar")
    /\ Adjacent(s, "tar", "tar_end")
    /\ Adjacent(s, "tar_end", "save_on")
    /\ Adjacent(s, "scale_down", "wait_gone")
    /\ Adjacent(s, "wait_gone", "remove")
    /\ Adjacent(s, "remove", "extract")

\* Between save-off and the trap.
Unsaved == At("flush") \/ At("pack_txt") \/ At("tar") \/ At("tar_end")

\* A restore has stopped the server before it waits, and waits before it touches files.
Stopped ==
    /\ At("wait_gone") => replicas = 0
    /\ At("remove") \/ At("extract") => replicas = 0 /\ pod.phase = "none"

\* A server that runs, or is started again under an export, has opened the world.
Opened ==
    /\ pod.phase = "running" => world.pack = pod.release.pack
    /\ Unsaved /\ named # "gone" => pod.phase # "none" /\ world.pack = pod.release.pack

\* Saving is off in the middle of an export only, or the operator knows.
Watched == ~saving /\ ~warned => named = "same" /\ (Unsaved \/ At("save_on"))

\* An export nothing has disturbed: nothing is written.
Quiet ==
    named = "same" =>
        /\ Unsaved => ~saving
        /\ At("pack_txt") \/ At("tar") \/ At("tar_end") => settled

\* PACK.txt, if it is there, is this container's.
Labelled ==
    (At("tar") \/ At("tar_end")) /\ named # "gone" /\ packTxt # None =>
        packTxt = pod.release.pack

\* tar is writing the newest archive.
Archiving == At("tar_end") => exports # <<>> /\ ~exports[Len(exports)].done

SInv ==
    /\ TInv
    /\ InOrder(todo)
    /\ Stopped /\ Opened /\ Watched /\ Quiet /\ Labelled /\ Archiving
    /\ ExportIsConsistent

WInv == SInv /\ LossIsCovered

\* In todo, c comes before d.
Precedes(s, c, d) == \A i, j \in 1 .. Len(s) : s[i] = c /\ s[j] = d => i < j

\* An upgrade exports, then synchronizes, then deploys, and replaces no files.
UpgradeInOrder(s) ==
    /\ Adjacent(s, "name_pod", "save_off")
    /\ Precedes(s, "tar_end", "sync")
    /\ Precedes(s, "sync", "deploy")
    /\ \A i, j \in 1 .. Len(s) : s[i] = "sync" => s[j] \notin {"remove", "extract"}

\* What is deployed without an export is the pack that is installed.
DeploysInstalled ==
    release # None /\ Pending("deploy") /\ ~Pending("sync") => release.pack = pinned

\* An upgrade that has exported but not synchronized yet.
HasExported == Pending("sync") /\ ~Pending("tar_end")

StaysExported ==
    HasExported =>
        /\ exports # <<>>
        /\ exports[Len(exports)].done
        /\ exports[Len(exports)].kept = world.kept
        /\ named # "gone" =>
              /\ pod.phase # "none" /\ world.pack = pod.release.pack
              /\ exports[Len(exports)].pack = world.pack

UInv == SInv /\ UpgradeInOrder(todo) /\ DeploysInstalled /\ StaysExported
=============================================================================
