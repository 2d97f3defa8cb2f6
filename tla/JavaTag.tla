------------------------------ MODULE JavaTag ------------------------------
(***************************************************************************)
(* scripts/resolve-java-tag.sh: which image tag has the Java the pinned    *)
(* pack needs.                                                             *)
(*                                                                         *)
(* The script is the command "resolve" of a task.  It ends at once on a    *)
(* cache hit; otherwise it learns the pack's Minecraft version, from the   *)
(* API or by deploying and polling ("poll"), and then the Java version of  *)
(* that Minecraft version ("java").  A Minecraft version is represented by *)
(* the pack it was read from.  The script never fails: it prints the       *)
(* chart's tag where it notices that something went wrong, and java8 where *)
(* the answer about the version names no Java.                             *)
(***************************************************************************)
EXTENDS Cluster

CONSTANT ApiKnows   \* the packs the CurseForge API answers for, {} without CF_API_KEY

ASSUME ApiAssumption == ApiKnows \subseteq Packs

VARIABLES
    pinned,   \* modpack.fileId in values.yaml
    cache,    \* .cache/java-tag/<fileId>
    todo,     \* the commands of the task that are still to be run
    tag,      \* JAVA_TAG
    version   \* MC_VERSION

script == <<pinned, cache, todo, tag, version>>

At(command) == todo # <<>> /\ Head(todo) = command
Done        == todo' = Tail(todo)

ScriptTypeOK ==
    /\ pinned \in Packs
    /\ cache \in [Packs -> Tags \cup {None}]
    /\ tag \in Tags \cup {None}
    /\ version \in Packs \cup {None}
    /\ At("java") => version # None
    /\ At("deploy") \/ At("sync") => tag # None

ScriptInit ==
    /\ pinned \in Packs
    /\ cache = [p \in Packs |-> None]
    /\ todo = <<>>
    /\ tag = None
    /\ version = None

CacheHit ==
    /\ At("resolve")
    /\ cache[pinned] # None
    /\ tag' = cache[pinned]
    /\ Done
    /\ UNCHANGED <<pinned, cache, version, cluster>>

AskApi ==
    /\ At("resolve")
    /\ cache[pinned] = None
    /\ pinned \in ApiKnows
    /\ version' = pinned
    /\ todo' = <<"java">> \o Tail(todo)
    /\ UNCHANGED <<pinned, cache, tag, cluster>>

\* "applying install-phase policy, then polling the pod": this Helm upgrade names
\* no tag.  Its failure is not noticed.
DeployToPoll ==
    /\ At("resolve")
    /\ cache[pinned] = None
    /\ pinned \notin ApiKnows
    /\ \/ Helm(pinned, DefaultTag, FALSE)
       \/ UNCHANGED cluster
    /\ todo' = <<"poll">> \o Tail(todo)
    /\ UNCHANGED <<pinned, cache, tag, version>>

\* Whatever pod of the deployment answers has the volume, and whatever manifest is
\* on the volume is read.
Poll ==
    /\ At("poll")
    /\ pod.phase # "none"
    /\ manifest # None
    /\ version' = manifest
    /\ todo' = <<"java">> \o Tail(todo)
    /\ UNCHANGED <<pinned, cache, tag, cluster>>

\* Mutant: the chart's tag is not found (fallback_tag ends in "|| true").
FallBackOnNothing ==
    /\ At("poll") \/ At("java")
    /\ tag' = None
    /\ Done
    /\ UNCHANGED <<pinned, cache, version, cluster>>

\* die_with_fallback: the poll timed out or read nothing; Mojang could not be
\* reached, or its list of versions is no JSON or lacks this one.  Nothing is cached.
FallBack ==
    /\ At("poll") \/ At("java")
    /\ tag' = DefaultTag
    /\ Done
    /\ UNCHANGED <<pinned, cache, version, cluster>>

\* Mutant: the tag is cached under the pack that is deployed.
LookUpJavaDeployed ==
    /\ At("java")
    /\ tag' = JavaOf[version]
    /\ cache' = IF release = None THEN cache ELSE [cache EXCEPT ![release.pack] = tag']
    /\ Done
    /\ UNCHANGED <<pinned, version, cluster>>

LookUpJava ==
    /\ At("java")
    /\ tag' = JavaOf[version]
    /\ cache' = [cache EXCEPT ![pinned] = tag']
    /\ Done
    /\ UNCHANGED <<pinned, version, cluster>>

\* "assuming Java 8": the answer about the version has no javaVersion.  It may be
\* a version that old, or an error page (curl fails on none); it is cached.
AssumeJava8 ==
    /\ At("java")
    /\ tag' = "java8"
    /\ cache' = [cache EXCEPT ![pinned] = tag']
    /\ Done
    /\ UNCHANGED <<pinned, version, cluster>>

Resolve ==
    \/ CacheHit \/ AskApi \/ DeployToPoll \/ Poll
    \/ FallBack \/ LookUpJava \/ AssumeJava8
=============================================================================
