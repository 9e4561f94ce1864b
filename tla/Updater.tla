-------------------------------- MODULE Updater --------------------------------
(***************************************************************************)
(* The updater module (src/module/updater/module.go): an update that is    *)
(* strictly newer than anything ever accepted is downloaded, verified, and *)
(* put in the place of the running app, an AppImage on Linux or a bundle   *)
(* on macOS.  A crash may fall between any two steps.                      *)
(*                                                                         *)
(* An app on disk is its version, or one that is incomplete.  FullUpdate   *)
(* runs once at a time, and a rename that undoes one that just succeeded   *)
(* succeeds.                                                               *)
(***************************************************************************)
EXTENDS Naturals

CONSTANTS MaxVersion,  \* bound on what is ever released
          Gone, Half   \* no app there, and an incomplete one

ASSUME UpdaterAssumption ==
  MaxVersion \in Nat \ {0} /\ Gone \notin 1 .. MaxVersion /\ Half \notin 1 .. MaxVersion

VARIABLES updPc,    \* where FullUpdate is
          running,  \* cfg.CurrentVersion of the process that runs
          offer,    \* the version being installed
          floor,    \* the updater_floor file; 0 when there is none
          before,   \* prevFloor
          target,   \* the app's place on disk
          backup,   \* beside it, with the suffix .old
          staged,   \* beside it, with the suffix .new (macOS)
          mac,      \* which installer runs
          crashed,  \* history: a process ended between two steps
          unrestored \* history: the floor could not be put back

updVars == <<updPc, running, offer, floor, before, target, backup, staged, mac, crashed, unrestored>>

Versions == 1 .. MaxVersion
Places == Versions \cup {Gone, Half}

UpdTypeOK ==
  /\ updPc \in {"idle", "download", "floor", "stage", "clear", "aside", "install",
                "copy", "undo", "drop", "relaunch", "down"}
  /\ running \in Versions /\ offer \in 0 .. MaxVersion
  /\ floor \in 0 .. MaxVersion /\ before \in 0 .. MaxVersion
  /\ {target, backup, staged} \subseteq Places
  /\ {mac, crashed, unrestored} \subseteq BOOLEAN

UpdInit ==
  /\ updPc = "idle" /\ running = 1 /\ offer = 0 /\ floor = 0 /\ before = 0
  /\ target = 1 /\ backup = Gone /\ staged = Gone
  /\ mac \in BOOLEAN /\ crashed = FALSE /\ unrestored = FALSE

UGoes(from, to) == updPc = from /\ updPc' = to
disk == <<target, backup, staged>>

\* rollbackFloor: what an update must exceed.  The first endpoint that answers
\* offers what it likes.
rollbackFloor == IF floor > running THEN floor ELSE running

CheckForUpdate ==
  /\ UGoes("idle", "download")
  /\ offer' \in {v \in Versions : v > rollbackFloor}
  /\ UNCHANGED <<running, floor, before, disk, mac, crashed, unrestored>>

\* Downloaded into a directory of its own and verified, or given up.
Download ==
  /\ \/ UGoes("download", "floor") \/ UGoes("download", "idle")
  /\ UNCHANGED <<running, offer, floor, before, disk, mac, crashed, unrestored>>

\* writeFloor is best-effort: one that fails leaves the file as it was, or empty.
FloorAfter(v) == {v, floor, 0}

\* The floor is raised first, since the installer may not return.
RaiseFloor ==
  /\ UGoes("floor", IF mac THEN "stage" ELSE "clear")
  /\ before' = floor /\ floor' \in FloorAfter(offer)
  /\ UNCHANGED <<running, offer, disk, mac, crashed, unrestored>>

\* ditto of the mounted image; an error leaves what it copied.
Stage ==
  /\ \/ UGoes("stage", "clear") /\ staged' = offer
     \/ UGoes("stage", "undo") /\ staged' \in {Gone, Half}
  /\ UNCHANGED <<running, offer, floor, before, target, backup, mac, crashed, unrestored>>

\* A backup that an earlier update left.
ClearBackup ==
  /\ UGoes("clear", "aside") /\ backup' = Gone
  /\ UNCHANGED <<running, offer, floor, before, target, staged, mac, crashed, unrestored>>

MoveAside ==
  /\ \/ UGoes("aside", "install") /\ backup' = target /\ target' = Gone /\ UNCHANGED staged
     \/ UGoes("aside", "undo") /\ staged' = Gone /\ UNCHANGED <<target, backup>>
  /\ UNCHANGED <<running, offer, floor, before, mac, crashed, unrestored>>

\* macOS renames the staged bundle; Linux copies, which takes two steps.
Install ==
  /\ \/ mac /\ UGoes("install", "drop") /\ target' = staged /\ staged' = Gone /\ UNCHANGED backup
     \/ mac /\ UGoes("install", "undo") /\ target' = backup /\ backup' = Gone /\ UNCHANGED staged
     \/ ~mac /\ UGoes("install", "copy") /\ target' = Half /\ UNCHANGED <<backup, staged>>
  /\ UNCHANGED <<running, offer, floor, before, mac, crashed, unrestored>>

\* Every byte is on disk before the backup may go; an error renames it back.
Copy_KeepsHalf ==
  /\ \/ UGoes("copy", "drop") /\ target' = offer /\ UNCHANGED backup
     \/ UGoes("copy", "undo") /\ UNCHANGED <<target, backup>>
  /\ UNCHANGED <<running, offer, floor, before, staged, mac, crashed, unrestored>>
Copy ==
  /\ \/ UGoes("copy", "drop") /\ target' = offer /\ UNCHANGED backup
     \/ UGoes("copy", "undo") /\ target' = backup /\ backup' = Gone
  /\ UNCHANGED <<running, offer, floor, before, staged, mac, crashed, unrestored>>

\* The installer said no: that version must be offered again.  No floor to put back
\* is a file to remove, which may fail as well.
RestoreFloor ==
  /\ UGoes("undo", "idle") /\ floor' \in FloorAfter(before)
  /\ unrestored' = (unrestored \/ floor' \notin {before, 0})
  /\ UNCHANGED <<running, offer, before, disk, mac, crashed>>

DropBackup ==
  /\ UGoes("drop", "relaunch") /\ backup' = Gone
  /\ UNCHANGED <<running, offer, floor, before, target, staged, mac, crashed, unrestored>>

\* A process that is started runs what is whole at the app's place.
Relaunch ==
  /\ \/ UGoes("relaunch", "idle") \/ UGoes("down", "idle")
  /\ target \in Versions /\ running' = target
  /\ UNCHANGED <<offer, floor, before, disk, mac, crashed, unrestored>>

\* A process that ends half way through; by hand the user may put back the
\* backup when there is no whole app.
Ends ==
  /\ updPc \notin {"idle", "down"} /\ updPc' = "down" /\ crashed' = TRUE
  /\ UNCHANGED <<running, offer, floor, before, disk, mac, unrestored>>

PutBack ==
  /\ updPc = "down" /\ target \notin Versions
  /\ target' = backup /\ backup' = Gone
  /\ UNCHANGED <<updPc, running, offer, floor, before, staged, mac, crashed, unrestored>>

UpdNext ==
  \/ CheckForUpdate \/ Download \/ RaiseFloor \/ Stage \/ ClearBackup \/ MoveAside
  \/ Install \/ Copy \/ RestoreFloor \/ DropBackup \/ Relaunch \/ Ends \/ PutBack

UpdSpec == UpdInit /\ [][UpdNext]_updVars
-----------------------------------------------------------------------------
\* At every step of an update, failed, crashed or repeated, a whole app is on
\* disk, none older than the one that ran; and as long as no process ended in the
\* middle and every floor that was to be put back was, a version is not refused for
\* having been tried (module.go:680).
AlwaysAnApp ==
  /\ LET app == IF target \in Versions THEN target ELSE backup
     IN  app \in Versions /\ app >= running
  /\ updPc = "idle" /\ ~crashed /\ ~unrestored => floor <= running
===============================================================================
