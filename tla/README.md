# nylium-ward, verified

TLA+ models, model-checking runs and TLAPS proofs for
[nylium-ward](../src/README.md): a Minecraft server on k3s whose port 25565 is
guarded by **mc-sniffer**, an XDP program in a sidecar that drops every TCP
connection whose first data is not a Minecraft handshake.

    tlc -config MCFlowFilterSteered.cfg MCFlowFilter     # one run; see "Runs"
    tlapm WorldOpsProofs.tla                             # one proof module

## The system

| Part | Source | State it keeps | Operations |
|---|---|---|---|
| eBPF verdict | `sniffer/mc-sniffer-ebpf/src/main.rs` | `ALLOWED_FLOWS`, an LRU map of 4-tuples, 1024 entries | one call of `verdict` per arriving frame, on any CPU |
| Header parsers | `mc-sniffer-common/src/ebpf/networking/*.rs`, `networking/net.rs` | none | Ethernet, IPv4, TCP headers, once for the kernel and once on slices |
| Handshake readers | `ebpf/minecraft.rs`, `networking/parser.rs` | none | `check_handshake` on packet memory, `parse_handshake` on a slice |
| Loader | `sniffer/mc-sniffer/src/main.rs` | the attached program | load and attach; detach on SIGTERM or Ctrl-C |
| World operations | `Taskfile.yaml`: `up`, `down`, `restart`, `upgrade`, `export`, `restore` | the world on the volume, `exports/`, whether the server saves | shell commands against the pod, each of which may fail |
| Java tag | `scripts/resolve-java-tag.sh`, `resolve-image-digest.sh` | `.cache/java-tag/<fileId>` | cache, CurseForge API, or deploy and poll |
| playit IP list | `scripts/sync-playit-ips.sh` | `chart/files/playit-allowed-cidrs.txt` | fetch, check, write |
| Chart, policies, set-up, CI | `chart/`, `cilium/`, `scripts/setup*`, `.github/` | declarative | interpreted by Kubernetes, Cilium, the host |

How they interact.  Players' segments reach the pod through playit; XDP sees
them before the kernel's TCP.  `verdict` runs the Ethernet, IPv4 and TCP parsers,
removes the flow for a SYN, lets payload-less segments and remembered flows
pass, runs `check_handshake` on the rest, remembers the flow or drops the
segment, and removes the flow for a FIN or RST.  The map is the only shared
state: there is no lock, CPUs meet in it, and the kernel evicts from it.  What
the server sends is never seen.  When the loader stops, nothing is filtered;
when it starts again the map is empty.  The world operations and the Java tag
script meet in the deployment and the volume: both run `helm upgrade`.

What is hard.  Interleavings of CPUs between two map accesses; eviction at any
insert; old entries under a reused 4-tuple; TCP's lost, late, repeated and
reordered segments seen by something that keeps one bit per flow; the restart
of the sidecar in the middle of connections; lengths off the wire that
contradict each other; two parsers for the same bytes.  `PROJECT.json` lists
each hazard at its line with the properties that cover it.

What makes each part correct.

* Verdict: an entry never outlives its connection; no data passes unearned, and none
  that has earned its way is dropped; the concurrent program judges like a
  sequential one; a player's stream arrives; a stranger's does not.
* Parsers: kernel and user space find the same payload, inside the frame;
  nothing the server could read passes unjudged.
* Handshake readers: they agree but for the differences `minecraft.rs` lists;
  padding is not payload; only whole frames are accepted.
* Loader: a restart costs the connections of its time and no later ones.
* World operations: after any failure the server saves, or the operator was
  told; the players' world stays on the volume or in a finished archive, and only
  a restore from an archive that its export left cut short can lose it; a finished
  archive is consistent; files are replaced only while no server runs; an
  upgrade exports the world before its pack changes.
* Java tag: something is always printed, and what is cached under a file id
  belongs to that file, or is the java8 the script assumes when it is told no Java.

## Modules

| Module | Models | Extends |
|---|---|---|
| `Verdict` | the decisions of `verdict` and the LRU map, as operators | |
| `FlowGate` | abstract: segments judged one at a time, in one step | `Verdict` |
| `FlowFilter` | `verdict` on several CPUs, one action per map access, and the loader | `Verdict` |
| `FlowFilterProofs` | theorems about `FlowFilter` | `FlowFilter` |
| `TcpPath` | clients, network, filter and server: whole connections | `Verdict` |
| `TcpPathProofs` | theorems about `TcpPath`: what is kept out | `TcpPath` |
| `TcpPassProofs` | the theorem that players are let through | `TcpPathProofs` |
| `Frame` | both header parsers, as operators on header fields | |
| `FrameCheck` | frames sent, padded, cut and fragmented, given to both | `Frame` |
| `FrameProofs` | theorems about `FrameCheck` | `FrameCheck` |
| `Handshake` | both handshake readers, as operators on bytes | |
| `HandshakeCheck` | packets split, padded and declared short, given to both | `Handshake` |
| `HandshakeProofs` | theorems about `HandshakeCheck` | `HandshakeCheck` |
| `Cluster` | the Helm release, the pod and the volume, as the scripts see them | |
| `JavaTag` | `resolve-java-tag.sh` | `Cluster` |
| `World` | abstract: a world that is opened, archived, cleared and restored | |
| `WorldOps` | the tasks, their failures, and the cluster's own steps | `JavaTag` |
| `WorldOpsProofs` | theorems about `WorldOps`: types, the cache | `WorldOps` |
| `WorldStagesProofs` | theorems about the order of the commands and what can lose the world; `WorldOps` implements `World` | `WorldOpsProofs` |
| `WorldUpgradeProofs` | the theorem that upgrades export first | `WorldStagesProofs` |
| `MC*` | instances for TLC | |

**Verdict.**  A segment is the facts `verdict` branches on: flow, SYN, FIN-or-RST,
and whether the payload is empty, a handshake, or something else.  The map is
the kernel's; its insert may, once `EvictFrom` entries are there, evict any
others or fail (`ALLOWED_FLOWS`' comment: per-CPU free lists start evicting
before the map is full).  `AfterSyn`, `Accepts`, `Remembers` and `AfterEnd` are
the four accesses in the order of the code.

**FlowFilter.**  `pc[c]` is the map access CPU `c` makes next, so the actions
`ReceiveSyn`, `ReceiveBare`, `ReceiveData`, `ForgetOld`, `Lookup`, `Remember`,
`ForgetClosed` are the stretches of code between two accesses.  `Attach` and
`Detach` are the loader's.  `last` is the verdict decided last; `standing` is a
history variable: whether a flow has shown a handshake, and whether that was on
its present connection; `lost` is another: the flows whose entry a full map evicted
or did not take.  `Steered` says whether the network card keeps a flow on
one CPU.  The code neither asks for this nor checks it.  The run has
`Steered = TRUE`; what holds without it is proved (`TypeCorrect`,
`EntriesAreEarned`, `NoDataUnannounced`).

**TcpPath.**  Each flow carries a list of connections, each a stream of
payloads between a SYN and a FIN; clients send, wait for acknowledgements and
retransmit, the network loses and reorders, the server reassembles and may
reset.  These peers are not in the repository: they are TCP as the filter
relies on it, and `Faults` switches on what may go wrong.  `Judged`
is `verdict` in one step, justified by `FlowFilter` implementing `FlowGate`.
`since` is a history variable: the
last connection opened on each flow before the loader last attached the filter.  A
connection later than that is `Guarded`, and the properties speak of those: earlier
ones were let in by nobody, or lost their entry.

**Frame.**  A frame is the record of the fields the parsers look at, and its
size.  Each kernel parser returns the action of its early return, or `"parsed"`;
`Headers` is `verdict` up to the flow key.  The slice parsers of `net.rs` return
`"Ok"` or their error, and the slice they hand on.  The flags are the set of
the bits of their byte: the kernel reads five fields of it, `net.rs` masks it, and
`ReadAlike` compares what the two take for the start and the end of a connection.

**Handshake.**  Bytes are numbers.  A VarInt is kept as its low 28 and top 4 bits
so that the 32-bit wrap of the shift is exact within TLC's integers.

**Cluster.**  One release, one pod, one volume.  `Helm`, `Uninstall`, `Scale` and
`Kick` are what the scripts ask for; `Terminate`, `Create`, `Install`, `Boot` and
`Crash` are what Kubernetes and the image do on their own, in between.  A `Helm` with
the same values may still have the pod replaced (`Kicked`): the tasks pin the images
by digest, and a tag may have been given another since.  From the chart
come the single replica, `Recreate`, the pod template that changes with tag and
configuration, and the volume that outlives the release; the rest is external, as the
scripts and their comments rely on it.  A world records the pack
it was last opened with, which is what an upgrade cannot take back, and whether
it is the players' or one made anew.

**JavaTag.**  The script is the command `resolve` of a task: a cache hit, the API,
or `DeployToPoll` and `Poll`, then `LookUpJava`.  `FallBack` is `die_with_fallback`:
the chart's tag, not cached.  `AssumeJava8` is the other way to be told nothing:
`curl -sS` succeeds on an error page too, `jq` finds no `javaVersion` in it, and the
script prints `java8` and caches it, which for an old version is right.  A
Minecraft version is represented by the pack it was read from, so that a wrong one is visible.  `ApiKnows` are the packs the API
answers for; an API that fails is one that does not know the pack.

**WorldOps.**  A task is a sequence of commands; `todo` is what is left of it.  Each
command is an action, guarded by what it needs to succeed, and `Fail` may take
its place at any time: then `LeftToDo` is run, which is the trap's `save_on`
while the trap is set; or `Kill`, after which nothing is run.  `Tar` is the shell
making the file (`CutShort` until tar is done), `TarEnd` the end of tar; what an export
that failed in between leaves stays in `exports`.  `named` follows the pod whose name
`export` has read: a restarted container answers to the old name, a replaced pod does
not.  `StartRestore` takes any archive, as `test -f` does; of one that is cut short the
extraction fails, after the `rm -rf`.  `PinnedInstalled` is what the README asks of the
operator: another pack is deployed with `upgrade`.

**World.**  What all this may do to the world: a server opens it, with a pack;
it is archived, or an export fails and leaves an archive cut short (`ArchiveInPart`);
with no server running it is cleared, if there is an archive, even one cut short, or
replaced by what a finished archive holds.  `Abstract` in `WorldOps` maps to it: the
server has the world open while the pod is running, the saved worlds are those of the
finished archives, and `cut` is `Torn`.

## Runs

| Run | Module, cfg | Properties | What it shows |
|---|---|---|---|
| `flow_steered` | `MCFlowFilter`, `MCFlowFilterSteered` | `TypeOK` `EntriesHadHandshake` `EntriesAreCurrent` `PassedDataIsCurrent` `CurrentIsPassed` `GateSpec` | the concurrent filter, flows kept on one CPU each |
| `arrives` | `MCTcpPath`, `MCTcpPathArrives` | `PlayersPass` `EverythingArrives` | lost and reordered segments: players pass and are served to their FIN |
| `strangers` | `MCTcpPath`, `MCTcpPathStrangers` | `TypeOK` `StrangersAreNotHeard` `StaysBlocked` | reused 4-tuples and late handshakes, on a network that loses but does not reorder, with a restart: strangers are not served |
| `restart` | `MCTcpPath`, `MCTcpPathRestart` | `PlayersPass` `ServedAfterRestart` | a restart of the sidecar in mid-connection, with repeated segments and vanished clients: players it guards pass, later ones are served |
| `frames` | `MCFrameCheck`, `MCFrameCheck` | `NothingUnjudged` `ReadAlike` `JudgesWhatParses` | both header parsers on good and bad frames |
| `handshake` | `MCHandshakeCheck`, `MCHandshakeCheck` | `DiffersOnPurpose` `AcceptsHandshakes` `PaddingIsNotPayload` `OnlyWholeFrames` | both handshake readers on good and bad packets |
| `world_ops` | `MCWorldOps`, `MCWorldOps` | `TypeOK` `ExportIsConsistent` `SavingIsNotForgotten` `ReplacedOffline` `CacheIsRight` `ExportedFirst` `OnlyCutArchivesLose` `WorldSpec` | any sequence of tasks, failures, kills, crashes and two upgrades in a row, with an API that knows the new packs |
| `fin_overtakes` | `MCTcpPath`, `MCTcpPathFinOvertakes` | `EverythingArrives` **violated** | a FIN that arrives before lost data is sent again |
| `handshake_second` | `MCTcpPath`, `MCTcpPathHandshakeSecond` | `StaysBlocked` **violated** | two segments sent back to back, the handshake second |
| `server_reset` | `MCTcpPath`, `MCTcpPathReset` | `ResetIsForgotten` **violated** | a connection the server resets |
| `upgrade_polls` | `MCWorldOps`, `MCWorldOpsPolls` | `ExportedFirst` **violated** | without the API, `upgrade` deploys the new pack to learn its Java before it exports |
| `stale_manifest` | `MCWorldOps`, `MCWorldOpsStaleManifest` | `CacheIsRight` **violated** | without the API, the first poll of an upgrade reads the old pack's manifest |

The five violated runs are disagreements between the code and what its
comments, README or tests say of it; `PROJECT.json` quotes them.  Three have one
cause: a flow is one bit, changed by whatever arrives, and TCP does not promise
that a FIN arrives last, that a dropped segment is not sent again, or that the
server's own segments pass by the filter at all.  (A repeated SYN that arrives
after the handshake is a fourth case of it, with the same counterexample to
`EverythingArrives` as `fin_overtakes`, and has no run of its own.)  Two have the
other: `resolve-java-tag.sh` runs inside `upgrade`'s variables, before
any command of it, and when the API does not answer it deploys, then takes
whatever manifest is on the volume for the new pack's.

Two more disagreements have no run of their own; a passing property names each as its
exception.  README.md:395-396 of the repository has the operator restore the newest
archive, which "puts the world back": after a failed export that file may be cut short,
and `restore` removes the world before it finds out.  `OnlyCutArchivesLose` lets this
step lose the world and no other.  And `resolve-java-tag.sh:2-3` promises the tag that
matches the pack's Minecraft version, while an error page in place of Mojang's answer
is cached as `java8` for good.  `CacheIsRight` allows `java8` and otherwise only the
pack's own tag.

**Bounds.**  Two CPUs and two flows with a map of one entry: every pair of
accesses of two CPUs on different flows, which evict each other, interleaves.
A third CPU adds no pair.  (Two CPUs on one flow is what `Steered` excludes; the
theorem `EntriesAreEarned` says what is left then.)  In `TcpPath` streams have
two or three payloads, so that there is a handshake, data after it, and (in the
longer ones) data after the loss of data; two connections per 4-tuple, for
reuse; two or three packets under way per flow, enough for one to be
overtaken and one to be an old duplicate; one restart, so that connections are opened
before, during and after the time without a filter (the proofs have any number).  In
`FrameCheck` the headers have their real sizes and every length is taken at, just below and
just above each limit it is compared with; the flags are taken alone and with the
bits nobody asks for; the proofs cover all others.  In
`HandshakeCheck` the longest address is 3 bytes instead of 765, with
`MAX_HANDSHAKE_LEN` computed from it as in the code; fields are encoded in the
shortest form, longer, with bits that do not fit, negative and unterminated,
and each address length is tried right, too small and too large.
In `MCWorldOps` there are three packs and two upgrades, from each to the next.  In
`world_ops` the first two need java8, which is the chart's tag too, and the third
java21: `java8` cached for the third is then a wrong tag, one for the others is right,
and the tag of one pack under another's file id is visible; in the two runs without
the API the packs need 17, 21 and 21, so that the chart's tag, the assumed one and
the right one differ.  Three packs are needed: an upgrade
that fails half-way leaves a pod of the old pack behind a release of the second,
and while the upgrade to the third exports, Kubernetes may still replace that
pod, so that the world is opened with a pack it was not exported from.  `Exported`
states what is promised then.  A fourth pack could only repeat this. Two
exports let a world made anew be exported after the players' and be restored
in its place.  The number of tasks, failures, kills and crashes is not bounded.  The API
knows the new packs; the old one is resolved by polling, on an empty volume, where
it is right.  Going back to a polled pack is not tried: it is `stale_manifest`.
`CHECK_DEADLOCK FALSE` stands where the environment is finite: clients run out
of connections, a frame or packet can be cut to nothing.

**Fairness.**  Only `TcpPath` has any.  Weak fairness of the client's and
server's own steps and of `Attach` (Kubernetes restarts a container that has
ended); strong fairness of the arrival of each packet, because a network that
may lose keeps losing any single one only if it is not sent again for ever, and
of `Retransmit`, which a full network (`MaxInFlight`) disables from time to time.
The code of the filter itself needs none: `verdict` is one call.  `WorldOps` has
none either: an operator need not run anything, and every property is one of safety.

**Mutants.**  Every property of every passing run has a mutant of the code that
breaks it (`...Skipped`, `...Kept`, `...Early`, ...), defined before the definition
it replaces.

## Proofs

`FlowFilterProofs`, for any sets of CPUs and flows and any capacity:

* `TypeCorrect`: `Spec => []TypeOK`, with or without steering: whatever lookups, inserts
  and removals interleave, the map stays within its capacity (`CapacityKept`).
* `EntriesAreEarned`: `Spec => []EntriesHadHandshake`, with or without steering.
  The invariant `HInv` adds that a CPU about to insert holds a handshake that
  has been counted: otherwise nothing is known at the insert.
* `NoDataUnannounced`: with or without steering, a payload that is no handshake passes
  only on a flow that has shown one since the program was loaded, by the same invariant.
* `NoEntryCarriesOver`: if `Steered`, `Spec => []EntriesAreCurrent`.
* `NoDataUnearned`: if `Steered`, `Spec => PassedDataIsCurrent`.
* `NoDropUndeserved`: if `Steered`, `Spec => CurrentIsPassed`, the converse: after its
  handshake a connection is dropped only where a full map gave its entry up.  The
  invariant is `CurrentIsRemembered`: while an insert is still to come the flow is in
  no map, and the CPU that holds the handshake stands for it (`Showing`).
* `ImplementsGate`: if `Steered`, `Spec => GateSpec`, with `Settled`
  as refinement mapping: an entry whose FIN has been judged but not yet acted
  on no longer counts.

The last four rest on `IInv`.  `EntriesAreCurrent` alone is not inductive: what
a CPU found at its lookup must still be so at its insert, and a decided FIN
must have outdated the flow before its entry goes.  `Stage` says so for each
value of `pc`, and `Exclusive` (no two CPUs hold one flow) makes it stable:
`StepFrame` shows that a step touching one flow leaves the rest alone, and each
action then only has to keep its own `Stage`.  Without steering
`EntriesAreCurrent` is false: one CPU holds a handshake between lookup and
insert, another judges the FIN and finds nothing to remove, and the insert
leaves an entry for a closed connection.

`FrameProofs`, for headers of any length:

* `ReadAlikeAlways` (if the TCP header's fixed part is longer than 12 bytes, where
  the data offset is), `NothingUnjudgedAlways`, `JudgesWhatParsesAlways`, from the
  type invariant `FramesAlways`: the properties follow from the comparisons of
  the parsers, for frames of every size, not from the history of the frame.

`HandshakeProofs`, for payloads, addresses and limits of any size:

* `DiffersOnPurposeAlways`, `AcceptsHandshakesAlways`, `PaddingIsNotPayloadAlways`,
  `OnlyWholeFramesAlways`, from the type invariant `PacketsAlways`.  One fact carries
  them: a VarInt that ends within a part of the bytes is read from the part as from
  the whole (`ReadFromPart`), and so are the fields after each other (`BodyFromPart`).
  `CheckMeans` then says what `check_handshake` accepts in terms of the body alone, so
  that the padding (`DeclaredOnly`), the parser (`ParsedBody`) and a shorter part of the
  payload (`WholeBody`) can each be compared with it.

`TcpPathProofs`, for any flows, streams, windows, capacities and bounds:

* `PathTypeCorrect`: `Spec => []TypeOK`, under every fault.  `TypeOK` is not inductive: that a client knows no more to have
  arrived than it has sent depends on the packets under way.  `PathInv` adds that each
  of them was sent, that nothing follows a SYN before it is answered (`PacketTyped`),
  and that the server holds the connection a client has an answer on (`FlowInv`).
* `StrangersAreNeverHeard`: `Spec => []StrangersAreNotHeard`, if the network does not
  reorder.  `VouchInv` says of the entry of a `Guarded` flow, and of data the server has,
  that they belong to a connection that sends a handshake.  It starts afresh at each
  restart: `Attach` leaves no flow guarded, and the SYN of the next connection, which the
  filter sees, forgets what the flow had.  It needs `InSequence`: what is
  under way is no older than what the server holds.  With reordering the property is
  false: a copy of a vanished client's handshake arrives after the SYN of the next
  connection on its 4-tuple and vouches for it.  The code has no means to tell (it
  looks at no sequence number) and promises nothing about it; after an orderly close
  TIME_WAIT keeps the two apart, which `Open` models.
* `LateHandshakesStayBlocked`: `Spec => []StaysBlocked`, if besides every client either
  starts with its handshake or waits for an answer to what it sends first
  (`LateHandshakesWait`).  `handshake_second` shows what happens otherwise.  `BlockInv`
  is `VouchInv` for connections that start with a handshake, and `Paced`: while the
  first payload is dropped, nothing after it is sent (on connections opened since the
  filter was attached; earlier ones may be further).

`TcpPassProofs`, for the same constants:

* `PlayersAlwaysPass`: `Spec => []PlayersPass`, the safety half of `EverythingArrives`:
  from the moment the server has the handshake that starts a connection until the
  connection or the filter ends, everything of it that is under way would pass.  Three
  conditions, each of which the code leaves to others.  `Roomy`: the map never has to
  evict.  `Patient`: FIN is sent when all data is acknowledged (`fin_overtakes` shows the
  rest).  `Orderly`: the network keeps a flow's order, and then it may lose what it
  likes and clients may vanish, repeat and be reset; or it reorders, but clients repeat
  only what is lost and no connection is cut off, so that nothing old is under way.
  `Kept` says that the entry is there from the handshake to FIN.  What could break it is
  an old SYN or FIN, so `PassInv` adds that what is under way comes after what the
  server has (`Behind`), which a delivery keeps because the packet delivered comes before
  the others (`Ordered`).  Where the network reorders, `Ordered` is not the network's
  doing: all packets of a flow under way are then of one kind, SYN, data or FIN
  (`OneKind`), because each is there only once and not yet at the server (`Unrepeated`).

`WorldOpsProofs`, for any packs, Java tags, edits, API and number of exports:

* `OpsTypeCorrect`: `Spec => []TypeOK`.  `TypeOK` says that a task about to deploy
  has a tag; that is not inductive, because a tag is made long before it is
  used.  `TInv` adds what holds of the rest of a task: the script comes first and
  once (`ScriptFirst`), what is still to be deployed has a tag or the script before
  it (`TagBeforeDeploy`), there is one `tar` and room for it (`RoomForTar`), and
  what is to be restored is there (`RestoresExported`).  `CommandDone` shows for
  all commands at once that dropping the first one keeps these.
* `ApiKeepsCacheRight`: if the API answers for every pack,
  `Spec => []CacheIsRight`, from `CInv` (nothing is polled, and the version looked
  up is the pinned pack's).  What is cached for a pack is then its own tag or the
  `java8` of an answer without a Java, never another pack's; `stale_manifest` shows
  that the condition is needed.

`WorldStagesProofs`, for the same constants:

* `NothingReplacedOnline`, `SavingComesBack`, `ArchivesAreConsistent`: `ReplacedOffline`,
  `SavingIsNotForgotten` and `ExportIsConsistent` hold always.  Each is about where
  in its task the operator is, and none is inductive: what a command achieved must
  last until the command that relies on it.  `SInv` adds that every command comes
  after the one it needs (`InOrder`: `wait_gone` before `remove`, `flush` before `tar`,
  `save_on` last) and one stage predicate per stretch of a task, such as `Stopped`
  (past `wait_gone` there is no pod and none will come) and `Quiet` (past `flush`
  nothing has been written, unless the container was restarted).
* `LossNeedsCutArchive`: `Spec => OnlyCutArchivesLose`.  That the world is somewhere does
  not survive, by itself, a restore from an archive of a world made anew.  `WInv` adds to
  `SInv` the part `LossIsCovered`: while the players' world is on the volume, a finished
  archive of another world means that there is one of theirs too, since whoever put
  theirs back took it from there.  A restore from a finished archive therefore has one to
  fall back on, and of the other restores the property asks nothing.
* `ImplementsWorld`: `Spec => WorldSpec`, with `Abstract` as refinement mapping.  That
  a restore clears the world only with no server and an archive there, extracts
  finished ones only, that an archive saved is the world of that moment, and that an
  archive stays cut short only when an export has failed, follow from `SInv`.
* `WorldAllowsNoLoss`: `WorldSpec => [](Torn \/ WorldIsSomewhere)`.  `World` is thus enough
  of a promise: whoever changes the tasks and still implements it does not lose the world
  as long as no export fails half-way.  Its invariant `Survives` is `LossIsCovered` in
  `World`'s terms.

`WorldUpgradeProofs`, if the API answers for every pack:

* `UpgradesExportFirst`: `Spec => ExportedFirst`.  `UInv` adds that only an upgrade's
  `sync` changes the pack of the release (`DeploysInstalled`), that it comes after the
  export (`UpgradeInOrder`), and that what the export has filed still holds when the
  `sync` comes (`HasExported`, `StaysExported`).  `upgrade_polls` shows that the
  condition is needed.

Assumptions are the ones named in the modules (`CapacityAssumption`,
`SteeredAssumption`, `LengthAssumption`, `FieldAssumption`, `AddressAssumption`,
`BytesAssumption`, `PathAssumption`, `ClusterAssumption`, `ApiAssumption`,
`OperatorAssumption`); TLC evaluates them.

Model-checked only: the liveness properties of `TcpPath` (`EverythingArrives`,
`ServedAfterRestart`), which are out of the prover's reach.  Every other property
of a passing run is a theorem too.

## What the model leaves out

* Logging, `format_action`, the memlock limit and the logger task.
* Addresses and ports are a flow; only the port decides anything in the parsers.
* The memory model of the BPF map: each access is atomic, as the kernel's
  per-bucket lock makes it.
* UTF-8 validation is a parameter of `Handshake` (`IsUtf8`).
* `MAX_HANDSHAKE_LEN` leaves no room for a VarInt longer than it needs to be next
  to an address of almost 765 bytes; such a handshake is refused by the kernel
  and accepted by the parser.  `AcceptsHandshakes` names the exception.
* UDP, IPv6 and other ports pass unjudged, as in the code.
* Operators: two tasks at once.
* Parts of an archive or a world: an archive that is cut short, or that lacks PACK.txt,
  restores nothing, and a world of which a part has been extracted counts as none.
* How a digest is fetched; another digest is a pod that is replaced.  A digest that
  cannot be fetched is a task that fails before its first command.
* Whether the API answers does not change within a behaviour: a pack is known to it or
  not (`ApiKnows`).  What happens where it is not is in `upgrade_polls` and
  `stale_manifest`.
* `sync-playit-ips.sh`: a fetch, a check of each line and a write, one after the
  other, of a file nothing else writes.  There is no order of events to explore.
  (The write is in place, so one that is cut short breaks the promise of the
  script's lines 5 and 6; that takes reading, not checking.)
* The chart's policies, services and probes, and the host's set-up: declarations
  and package management, without state of their own.
* `networkPolicy.phase`, which `resolve-java-tag.sh` sets and the chart does not
  have; secrets, Cilium's set-up, and the tasks that only look.
* A newer Java that happens to run an older pack: `Boot` wants the very tag.

## Plan

Done: every module of the table above, its runs, and the proofs of all safety
properties and refinements.

Left: a second operator (two exports, or an export and a restore, at once).  The
tasks have no lock, so this means stating first what the repository would promise.
