------------------------------ MODULE Volumes -------------------------------
(***************************************************************************)
(* What moves the data of volumes: the backup of a project and its         *)
(* restoration (crates/solon-client/src/backup.rs), the copy of a          *)
(* project's volumes (volumes.rs) and the import from Docker Desktop       *)
(* (import.rs).  Each is a client that sends one command after the other   *)
(* to the machine, while the user goes on using docker.                    *)
(*                                                                         *)
(* The volumes of the project that is saved or cloned have three names,    *)
(* two of which end up with one suffix; the volumes that are filled are    *)
(* known by their suffix.  The import takes volumes of these names.        *)
(***************************************************************************)
EXTENDS FiniteSets

VARIABLES
    source,  \* names of the volumes of the project to save
    zip,     \* the backup file and the archives in it
    target,  \* the folder to restore to has a Compose file
    vol,     \* the volumes to fill: whose data they have
    op,      \* the operation under way
    honest,  \* history: whatever an operation counted as done was done
    unseen,  \* history: an operation did not see a volume that is there
    cut      \* history: the wait for an export failed, and its archive is short

vars == <<source, zip, target, vol, op, honest, unseen, cut>>

Full == {"p_a", "p_b", "a"}
Suffix == {"a", "b"}
(* strip_prefix("<project>_"), or the whole name.                          *)
SuffixOf(f) == IF f \in {"p_b", "b"} THEN "b" ELSE "a"

Idle == [kind |-> "none", pc |-> "idle", left |-> {}, at |-> "a", short |-> FALSE,
         here |-> {}, done |-> {}]

TypeOK ==
    /\ source \subseteq Full /\ target \in BOOLEAN /\ honest \in BOOLEAN
    /\ unseen \in BOOLEAN /\ cut \in BOOLEAN
    /\ zip \in [at : {"none", "part", "whole"}, vols : SUBSET Suffix]
    /\ vol \in [Suffix -> {"none", "empty", "user", "part", "copy", "mixed", "spoilt"}]
    /\ op.kind \in {"none", "backup", "restore", "clone", "import"}
    /\ op.pc \in {"idle", "archive", "zip", "look", "create", "fill"}
    /\ op.left \subseteq Full \cup Suffix /\ op.at \in Full \cup Suffix
    /\ op.here \subseteq Suffix /\ op.done \subseteq Suffix

Init ==
    /\ source \in {{}, {"p_a", "p_b"}, {"p_a", "a"}} /\ zip = [at |-> "none", vols |-> {}]
    /\ target = FALSE /\ vol \in [Suffix -> {"none", "user"}]
    /\ op = Idle /\ honest = TRUE /\ unseen = FALSE /\ cut = FALSE

(* The report: an error, or a count, and whether what it counts is there.  *)
Ends(whole) == op' = Idle /\ honest' = (honest /\ whole)
Copied == \A n \in op.done : vol[n] \in {"copy", "mixed"}

-----------------------------------------------------------------------------
(* backup: an archive per volume, then the file.  Any command may fail.    *)
BackupBegin ==
    /\ op = Idle /\ op' = [Idle EXCEPT !.kind = "backup", !.pc = "archive", !.left = source]
    /\ UNCHANGED <<source, zip, target, vol, honest, unseen, cut>>
BackupArchive ==
    /\ op.pc = "archive" /\ op.left # {}
    /\ \/ \E f \in op.left :
             op' = [op EXCEPT !.left = @ \ {f}, !.here = @ \cup {SuffixOf(f)}] /\ UNCHANGED honest
       \/ Ends(TRUE)
    /\ UNCHANGED <<source, zip, target, vol, unseen, cut>>
(* File::create empties what was there; it may fail, and so may what is    *)
(* written before the archives.                                            *)
BackupCreate ==
    /\ op.pc = "archive" /\ op.left = {}
    /\ \/ /\ zip' = [at |-> "part", vols |-> {}]
          /\ op' = [op EXCEPT !.pc = "zip", !.left = source] /\ UNCHANGED honest
       \/ zip' \in {zip, [at |-> "part", vols |-> {}]} /\ Ends(TRUE)
    /\ UNCHANGED <<source, target, vol, unseen, cut>>
(* Mutant: a second archive of one name takes the place of the first.      *)
BackupZipReplaces ==
    /\ op.pc = "zip" /\ op.left # {}
    /\ \/ \E f \in op.left :
             /\ op' = [op EXCEPT !.left = @ \ {f}]
             /\ zip' = [zip EXCEPT !.vols = @ \cup {SuffixOf(f)}] /\ UNCHANGED honest
       \/ Ends(TRUE) /\ UNCHANGED zip
    /\ UNCHANGED <<source, target, vol, unseen, cut>>
(* The zip writer refuses a name it already has.                           *)
BackupZip ==
    /\ op.pc = "zip" /\ op.left # {}
    /\ \/ \E f \in op.left :
             /\ SuffixOf(f) \notin zip.vols
             /\ op' = [op EXCEPT !.left = @ \ {f}]
             /\ zip' = [zip EXCEPT !.vols = @ \cup {SuffixOf(f)}] /\ UNCHANGED honest
       \/ Ends(TRUE) /\ UNCHANGED zip
    /\ UNCHANGED <<source, target, vol, unseen, cut>>
BackupFinish ==
    /\ op.pc = "zip" /\ op.left = {}
    /\ \/ /\ zip' = [zip EXCEPT !.at = "whole"]
          /\ Ends(Cardinality(zip.vols) = Cardinality(source))
       \/ Ends(TRUE) /\ UNCHANGED zip
    /\ UNCHANGED <<source, target, vol, unseen, cut>>

-----------------------------------------------------------------------------
(* restore: refused in a folder that has a Compose file; the files of the  *)
(* project are written, then the archives of the manifest are unpacked.    *)
(* The zip writer also closes the file of a backup that failed.            *)
RestoreBegin ==
    /\ op = Idle /\ zip.at # "none" /\ ~target
    /\ \/ /\ {SuffixOf(f) : f \in source} \subseteq zip.vols /\ target' = TRUE
          /\ op' = [Idle EXCEPT !.kind = "restore", !.pc = "look", !.left = source]
       \/ op' = op /\ target' \in BOOLEAN
    /\ UNCHANGED <<source, zip, vol, honest, unseen, cut>>
(* `docker volume inspect', in the command that creates and fills.         *)
RestoreLook ==
    /\ op.kind = "restore" /\ op.pc = "look"
    /\ \/ \E f \in op.left :
             /\ vol[SuffixOf(f)] = "none"
             /\ op' = [op EXCEPT !.pc = "create", !.at = f] /\ UNCHANGED honest
       \/ Ends(Copied)
    /\ UNCHANGED <<source, zip, target, vol, unseen, cut>>

(* clone_project: one script for all of them, that goes on after an error; *)
(* an empty one when the list cannot be had.                               *)
CloneBegin ==
    /\ op = Idle
    /\ \E left \in {source, {}} :
          op' = [Idle EXCEPT !.kind = "clone", !.pc = "look", !.left = left]
    /\ UNCHANGED <<source, zip, target, vol, honest, unseen, cut>>
CloneLook ==
    /\ op.kind = "clone" /\ op.pc = "look"
    /\ \/ \E f \in op.left :
             /\ op' = IF vol[SuffixOf(f)] = "none" THEN [op EXCEPT !.pc = "create", !.at = f]
                      ELSE [op EXCEPT !.left = @ \ {f}]
             /\ UNCHANGED honest
       \/ op.left = {} /\ Ends(Copied)
    /\ UNCHANGED <<source, zip, target, vol, unseen, cut>>

(* run: existing_here lists the volumes once, or none of them when its     *)
(* command fails.                                                          *)
Exist == {n \in Suffix : vol[n] # "none"}
ImportBegin ==
    /\ op = Idle
    /\ \E here \in {Exist, {}}, left \in SUBSET Suffix \ {{}} :
          /\ op' = [Idle EXCEPT !.kind = "import", !.pc = "look", !.left = left, !.here = here]
          /\ unseen' = (unseen \/ here # Exist)
    /\ UNCHANGED <<source, zip, target, vol, honest, cut>>
(* Mutant: the list is not looked at.                                      *)
ImportLookNot ==
    /\ op.kind = "import" /\ op.pc = "look"
    /\ \/ \E n \in op.left : op' = [op EXCEPT !.pc = "create", !.at = n] /\ UNCHANGED honest
       \/ op.left = {} /\ Ends(Copied)
    /\ UNCHANGED <<source, zip, target, vol, unseen, cut>>
(* export_volume: an error of the wait for the container counts as the     *)
(* code 0, whatever the archive has in it.                                 *)
Export(n) ==
    \/ op' = [op EXCEPT !.pc = "create", !.at = n] /\ UNCHANGED cut
    \/ op' = [op EXCEPT !.pc = "create", !.at = n, !.short = TRUE] /\ cut' = TRUE
    \/ op' = [op EXCEPT !.left = @ \ {n}] /\ UNCHANGED cut
(* What exists is skipped; so is what could not be exported.               *)
ImportLook ==
    /\ op.kind = "import" /\ op.pc = "look"
    /\ \/ \E n \in op.left \ op.here : Export(n) /\ UNCHANGED honest
       \/ \E n \in op.left \cap op.here :
             op' = [op EXCEPT !.left = @ \ {n}] /\ UNCHANGED <<honest, cut>>
       \/ op.left = {} /\ Ends(Copied) /\ UNCHANGED cut
    /\ UNCHANGED <<source, zip, target, vol, unseen>>

-----------------------------------------------------------------------------
(* After an error restore stops, the others go on with the next volume.    *)
Skips ==
    IF op.kind = "restore" THEN Ends(Copied)
    ELSE op' = [op EXCEPT !.pc = "look", !.left = @ \ {op.at}, !.at = "a", !.short = FALSE]
         /\ UNCHANGED honest
Counts ==
    op' = [op EXCEPT !.pc = "look", !.left = @ \ {op.at}, !.at = "a", !.short = FALSE,
                     !.done = @ \cup {SuffixOf(op.at)}] /\ UNCHANGED honest
Into(data) ==
    vol' = [vol EXCEPT ![SuffixOf(op.at)] =
               IF @ = "empty" THEN data ELSE IF data = "copy" THEN "mixed" ELSE "spoilt"]

(* `docker volume create' is content with a volume that exists.            *)
Create ==
    /\ op.pc = "create"
    /\ \/ /\ op' = [op EXCEPT !.pc = "fill"] /\ UNCHANGED honest
          /\ vol' = [vol EXCEPT ![SuffixOf(op.at)] = IF @ = "none" THEN "empty" ELSE @]
       \/ Skips /\ UNCHANGED vol
    /\ UNCHANGED <<source, zip, target, unseen, cut>>
(* Mutant: a volume that could not be filled is counted.                   *)
FillCounts ==
    /\ op.pc = "fill" /\ \E data \in {"copy", "part"} : Into(data) /\ Counts
    /\ UNCHANGED <<source, zip, target, unseen, cut>>
(* tar or cp, over whatever is in the volume.                              *)
Fill ==
    /\ op.pc = "fill"
    /\ \/ Into(IF op.short THEN "part" ELSE "copy") /\ Counts
       \/ Into("part") /\ Skips
    /\ UNCHANGED <<source, zip, target, unseen, cut>>

-----------------------------------------------------------------------------
(* The user: `docker compose up', `docker volume rm', another folder.      *)
UserCreates(n) ==
    /\ vol[n] = "none" /\ vol' = [vol EXCEPT ![n] = "user"]
    /\ unseen' = \/ unseen
                  \/ (op.pc = "create" /\ SuffixOf(op.at) = n)
                  \/ (op.kind = "import" /\ n \in op.left)
    /\ UNCHANGED <<source, zip, target, op, honest, cut>>
UserRemoves(n) ==
    /\ vol[n] # "none" /\ op = Idle /\ vol' = [vol EXCEPT ![n] = "none"]
    /\ UNCHANGED <<source, zip, target, op, honest, unseen, cut>>
UserChoosesFolder ==
    /\ op = Idle /\ target /\ target' = FALSE
    /\ UNCHANGED <<source, zip, vol, op, honest, unseen, cut>>

Next ==
    \/ BackupBegin \/ BackupArchive \/ BackupCreate \/ BackupZip \/ BackupFinish
    \/ RestoreBegin \/ RestoreLook \/ CloneBegin \/ CloneLook \/ ImportBegin \/ ImportLook
    \/ Create \/ Fill
    \/ \E n \in Suffix : UserCreates(n) \/ UserRemoves(n)
    \/ UserChoosesFolder

Spec == Init /\ [][Next]_vars

-----------------------------------------------------------------------------
(* No operation writes over the data of a volume that it did not make      *)
(* (restore: "already exists", clone_project: "jamais écrasés", import:    *)
(* exists_here).                                                           *)
NothingOverwritten == \A n \in Suffix : vol[n] \notin {"mixed", "spoilt"}

(* None does unless the volume appeared behind the look at it, during an   *)
(* import or between the look and the creation, or the list of the import  *)
(* could not be had.                                                       *)
NothingOverwrittenElse == ~unseen => NothingOverwritten

(* What an operation counts as done is done, as long as no wait for an     *)
(* export fails: a backup that is reported has an archive for each volume, *)
(* though two names give one suffix; a volume that is restored, cloned or  *)
(* imported has all of its data, be it over other data.  A wait that fails *)
(* leaves the code 0 ("the code arrives all the same", import.rs), and a   *)
(* volume with a part of its data is counted.                              *)
ReportsTrueElse == ~cut => honest
=============================================================================
