------------------------------ MODULE Cluster ------------------------------
(***************************************************************************)
(* The server as the operator's scripts see it: the Helm release, the pod  *)
(* Kubernetes keeps for it, and the volume with the world.                 *)
(*                                                                         *)
(* The chart is the repository's (one replica, strategy Recreate, a pod    *)
(* template that changes with the image tag and the configuration, a       *)
(* volume that outlives the release).  What Kubernetes and the image       *)
(* itzg/minecraft-server do with it is modelled from what the scripts and  *)
(* their comments rely on.                                                 *)
(***************************************************************************)
EXTENDS Naturals, Sequences

CONSTANTS
    Packs,       \* modpack.fileId: the builds that may be pinned
    JavaOf,      \* JavaOf[p]: the image tag with the Java that p needs
    DefaultTag,  \* image.tag in values.yaml
    None

\* "java8" is what resolve-java-tag.sh assumes when it is not told.
Tags == {JavaOf[p] : p \in Packs} \cup {DefaultTag, "java8"}

\* What decides whether the pod template changes, but for the digests of the images.
Releases == [pack : Packs, tag : Tags, sync : BOOLEAN]

ASSUME ClusterAssumption ==
    /\ None \notin Packs \cup Tags \cup Releases
    /\ DOMAIN JavaOf = Packs

VARIABLES
    release,   \* what Helm applied last, None if nothing is installed
    replicas,  \* of the deployment
    pod,       \* its phase, the release it was made from, and whether it is to be replaced anyway
    saving,    \* the server writes the world to disk as it changes (save-on)
    settled,   \* nothing has been written since everything was flushed
    packTxt,   \* /tmp/exportmeta/PACK.txt: the pack it names, None if there is no such file
    manifest,  \* /data/.install-curseforge.env: the pack installed last
    world      \* /data/world: the pack it was last opened with, and whether it is the players'

cluster == <<release, replicas, pod, saving, settled, packTxt, manifest, world>>

NoPod == [phase |-> "none", release |-> None, kicked |-> FALSE]

ClusterTypeOK ==
    /\ release \in Releases \cup {None}
    /\ replicas \in 0 .. 1
    /\ pod \in [phase : {"none", "starting", "running"},
                release : Releases \cup {None}, kicked : BOOLEAN]
    /\ pod.phase = "none" <=> pod.release = None
    /\ saving \in BOOLEAN /\ settled \in BOOLEAN
    /\ packTxt \in Packs \cup {None}
    /\ manifest \in Packs \cup {None}
    /\ world \in [pack : Packs \cup {None}, kept : BOOLEAN]

ClusterInit ==
    /\ release = None
    /\ replicas = 0
    /\ pod = NoPod
    /\ saving = TRUE
    /\ settled = FALSE
    /\ packTxt = None
    /\ manifest = None
    /\ world = [pack |-> None, kept |-> TRUE]

-----------------------------------------------------------------------------
(* What the scripts ask for.                                                *)

\* The pod has to be replaced though the release may be the same.
Kicked == [pod EXCEPT !.kicked = pod.phase # "none"]

\* helm upgrade --install: the values not given are the chart's, replicas: 1 too.
\* The tag may stand for another digest than last time.
Helm(pack, tag, sync) ==
    /\ release' = [pack |-> pack, tag |-> tag, sync |-> sync]
    /\ replicas' = 1
    /\ pod' \in {pod, Kicked}
    /\ UNCHANGED <<saving, settled, packTxt, manifest, world>>

\* Mutant: the volume goes with the release ("helm.sh/resource-policy: keep" missing).
UninstallWithVolume ==
    /\ release' = None
    /\ replicas' = 0
    /\ manifest' = None
    /\ world' = [pack |-> None, kept |-> FALSE]
    /\ UNCHANGED <<pod, saving, settled, packTxt>>

\* helm uninstall: the volume is kept.
Uninstall ==
    /\ release' = None
    /\ replicas' = 0
    /\ UNCHANGED <<pod, saving, settled, packTxt, manifest, world>>

Scale(n) ==
    /\ release # None
    /\ replicas' = n
    /\ UNCHANGED <<release, pod, saving, settled, packTxt, manifest, world>>

\* kubectl rollout restart
Kick ==
    /\ release # None
    /\ pod' = Kicked
    /\ UNCHANGED <<release, replicas, saving, settled, packTxt, manifest, world>>

Outdated == pod.kicked \/ pod.release # release

\* kubectl rollout status: the one pod there should be is there.
RolledOut ==
    IF replicas = 0 THEN TRUE ELSE pod.phase = "running" /\ ~Outdated

-----------------------------------------------------------------------------
(* What Kubernetes and the image do.                                        *)

\* The server saves the world when it is stopped in an orderly way.
Terminate ==
    /\ pod.phase # "none"
    /\ replicas = 0 \/ Outdated
    /\ pod' = NoPod
    /\ saving' = TRUE
    /\ settled' = FALSE
    /\ packTxt' = None
    /\ UNCHANGED <<release, replicas, manifest, world>>

\* Recreate: not before the old pod is gone.
Create ==
    /\ pod.phase = "none"
    /\ replicas = 1
    /\ pod' = [phase |-> "starting", release |-> release, kicked |-> FALSE]
    /\ UNCHANGED <<release, replicas, saving, settled, packTxt, manifest, world>>

\* The manifest of the pack before stays on the volume until this pack is installed.
Install ==
    /\ pod.phase = "starting"
    /\ manifest # pod.release.pack
    /\ manifest' = pod.release.pack
    /\ UNCHANGED <<release, replicas, pod, saving, settled, packTxt, world>>

\* The server opens the world with the pack, for good, or makes a new one where
\* there is none.  With another Java than the pack needs it crashes before that.
Boot ==
    /\ pod.phase = "starting"
    /\ manifest = pod.release.pack
    /\ pod.release.tag = JavaOf[pod.release.pack]
    /\ pod' = [pod EXCEPT !.phase = "running"]
    /\ world' = [world EXCEPT !.pack = pod.release.pack]
    /\ UNCHANGED <<release, replicas, saving, settled, packTxt, manifest>>

\* The container ends and is started again in the same pod: its /tmp is empty,
\* and the server starts with saving on.
Crash ==
    /\ pod.phase # "none"
    /\ pod' = [pod EXCEPT !.phase = "starting"]
    /\ saving' = TRUE
    /\ settled' = FALSE
    /\ packTxt' = None
    /\ UNCHANGED <<release, replicas, manifest, world>>
=============================================================================
