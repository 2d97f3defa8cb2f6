------------------------------- MODULE World -------------------------------
(***************************************************************************)
(* What the tasks promise of the world, whatever fails in between.         *)
(*                                                                         *)
(*   - only a server that runs brings it to another pack, and it makes no  *)
(*     players' world of a new one;                                        *)
(*   - an archive that export has finished holds the world as it was at    *)
(*     that moment;                                                        *)
(*   - the files are cleared or replaced only while no server runs, and    *)
(*     not before there is an archive, if only one cut short by an export  *)
(*     that failed; they are replaced from finished archives only;         *)
(*   - nothing else touches the world or a finished archive: no deployment,*)
(*     no uninstall, no crash.                                             *)
(*                                                                         *)
(* WorldOps, where a task is many commands and the cluster goes its own    *)
(* way, is shown to implement it.                                          *)
(***************************************************************************)
CONSTANTS Packs, None

VARIABLES
    world,   \* the pack it was last opened with, and whether it is the players'
    online,  \* a server has it open
    saved,   \* the worlds in the finished archives
    cut      \* there is an archive that was cut short

vars == <<world, online, saved, cut>>

Init ==
    /\ world = [pack |-> None, kept |-> TRUE]
    /\ online = FALSE
    /\ saved = {}
    /\ cut = FALSE

\* A server starts, with whichever pack is deployed.
Open ==
    /\ ~online
    /\ online' = TRUE
    /\ \E p \in Packs : world' = [world EXCEPT !.pack = p]
    /\ UNCHANGED <<saved, cut>>

\* It stops or crashes.
Close ==
    /\ online
    /\ online' = FALSE
    /\ UNCHANGED <<world, saved, cut>>

\* export
Archive ==
    /\ saved' = saved \cup {world}
    /\ UNCHANGED <<world, online, cut>>

\* export, failing while it writes the archive.
ArchiveInPart ==
    /\ cut' = TRUE
    /\ UNCHANGED <<world, online, saved>>

\* restore, up to "rm -rf": the old world is gone and nothing is in its place.
Clear ==
    /\ ~online
    /\ saved # {} \/ cut
    /\ world' = [pack |-> None, kept |-> FALSE]
    /\ UNCHANGED <<online, saved, cut>>

\* restore, the rest of it.
Replace ==
    /\ ~online
    /\ world' \in saved
    /\ UNCHANGED <<online, saved, cut>>

Next == Open \/ Close \/ Archive \/ ArchiveInPart \/ Clear \/ Replace

Spec == Init /\ [][Next]_vars
=============================================================================
