------------------------------- MODULE Update -------------------------------
(***************************************************************************)
(* `solon update' (crates/solon-client/src/update.rs): the installer is    *)
(* downloaded to a .part file while its digest is computed, renamed when   *)
(* the digest is the published one, and launched.  The icon in the tray    *)
(* clears the folder when it starts.  Two `solon update' may run at once,  *)
(* from two terminals; they use one folder and the same two names.         *)
(***************************************************************************)
EXTENDS Naturals

Updaters == 1..2
(* A file is made when none is named .part: the installer and the file of  *)
(* the other updater are then the only ones in use.                        *)
Files == 1..3
Chunks == 1..2

VARIABLES
    data,      \* the chunks of a file that are those of the installer
    part,      \* the file that has the name <installer>.part, 0: none
    path,      \* the file that has the name <installer>, 0: none
    up,        \* the updaters: where they are, the file they write, ...
    broken,    \* history: something else than the installer was launched
    overlap    \* history: two downloads were under way at once

vars == <<data, part, path, up, broken, overlap>>

Idle == [pc |-> "idle", file |-> 0, pos |-> 0, good |-> TRUE]
Nothing == [c \in Chunks |-> FALSE]

TypeOK ==
    /\ data \in [Files -> [Chunks -> BOOLEAN]]
    /\ part \in Files \cup {0} /\ path \in Files \cup {0}
    /\ up \in [Updaters -> [pc : {"idle", "hash", "fetch", "chunk", "rename", "install"},
                            file : Files \cup {0}, pos : 0..2, good : BOOLEAN]]
    /\ broken \in BOOLEAN /\ overlap \in BOOLEAN

Init ==
    /\ data = [f \in Files |-> Nothing] /\ part = 0 /\ path = 0
    /\ up = [u \in Updaters |-> Idle] /\ broken = FALSE /\ overlap = FALSE

Whole(f) == \A c \in Chunks : data[f][c]
Goto(u, pc) == up' = [up EXCEPT ![u] = [Idle EXCEPT !.pc = pc]]
Loading(u) == up[u].pc \in {"chunk", "rename"}
(* A file that has no name and that nobody writes is gone.                 *)
Content(d) ==
    data' = [f \in Files |->
               IF f \in {part', path'} \cup {up'[u].file : u \in Updaters} THEN d[f] ELSE Nothing]

-----------------------------------------------------------------------------
(* latest, expected_hash, and the look for a file of the version.          *)
Look(u) ==
    /\ up[u].pc = "idle" /\ Goto(u, IF path # 0 THEN "hash" ELSE "fetch")
    /\ UNCHANGED <<part, path, broken, overlap>> /\ Content(data)

(* What is there already is verified anew, or removed; that it cannot be   *)
(* removed is not looked at.                                               *)
HashFile(u) ==
    /\ up[u].pc = "hash"
    /\ \/ path # 0 /\ Whole(path) /\ Goto(u, "install") /\ UNCHANGED path
       \/ path # 0 /\ ~Whole(path) /\ Goto(u, "fetch") /\ path' \in {0, path}
       \/ Goto(u, "idle") /\ UNCHANGED path
    /\ UNCHANGED <<part, broken, overlap>> /\ Content(data)

(* File::create: a .part that is there is emptied, whoever writes it.      *)
Fetch(u) ==
    /\ up[u].pc = "fetch"
    /\ \/ /\ \E f \in Files :
                /\ IF part # 0 THEN f = part
                   ELSE f = CHOOSE g \in Files : g # path /\ \A v \in Updaters : g # up[v].file
                /\ part' = f /\ path' = path
                /\ up' = [up EXCEPT ![u] = [pc |-> "chunk", file |-> f, pos |-> 0, good |-> TRUE]]
                /\ Content([data EXCEPT ![f] = Nothing])
          /\ overlap' = (overlap \/ \E v \in Updaters \ {u} : Loading(v))
       \/ Goto(u, "idle") /\ UNCHANGED <<data, part, path, overlap>>
    /\ UNCHANGED broken

(* The digest is taken of the stream; the file gets the chunk at the       *)
(* place of this writer.                                                   *)
Chunk(u) ==
    /\ up[u].pc = "chunk" /\ up[u].pos < 2 /\ UNCHANGED <<part, path, broken, overlap>>
    /\ \/ \E good \in BOOLEAN :
             /\ up' = [up EXCEPT ![u].pos = @ + 1, ![u].good = @ /\ good]
             /\ Content([data EXCEPT ![up[u].file][up[u].pos + 1] = good])
       \/ Goto(u, "idle") /\ Content(data)      \* "download interrupted"

(* Mutant: the digest is not compared.                                     *)
VerifyNot(u) ==
    /\ up[u].pc = "chunk" /\ up[u].pos = 2 /\ Goto(u, "rename")
    /\ UNCHANGED <<part, path, broken, overlap>> /\ Content(data)
(* A file whose digest is another one is removed.                          *)
Verify(u) ==
    /\ up[u].pc = "chunk" /\ up[u].pos = 2
    /\ \/ up[u].good /\ Goto(u, "rename") /\ UNCHANGED part
       \/ ~up[u].good /\ Goto(u, "idle") /\ part' \in {0, part}
    /\ UNCHANGED <<path, broken, overlap>> /\ Content(data)
Rename(u) ==
    /\ up[u].pc = "rename"
    /\ \/ part # 0 /\ path' = part /\ part' = 0 /\ Goto(u, "install")
       \/ UNCHANGED <<path, part>> /\ Goto(u, "idle")
    /\ UNCHANGED <<broken, overlap>> /\ Content(data)

(* install, launch_elevated: Windows asks, and may be told no.             *)
Install(u) ==
    /\ up[u].pc = "install" /\ Goto(u, "idle")
    /\ \/ path # 0 /\ broken' = (broken \/ ~Whole(path))
       \/ UNCHANGED broken
    /\ UNCHANGED <<part, path, overlap>> /\ Content(data)

(* cleanup: every file it finds, when the icon starts.                     *)
Cleanup ==
    /\ \E gone \in SUBSET {"part", "path"} :
          /\ part' = IF "part" \in gone THEN 0 ELSE part
          /\ path' = IF "path" \in gone THEN 0 ELSE path
    /\ UNCHANGED <<up, broken, overlap>> /\ Content(data)

(* The process ends, at any point.                                         *)
Killed(u) ==
    /\ up[u].pc # "idle" /\ Goto(u, "idle")
    /\ UNCHANGED <<part, path, broken, overlap>> /\ Content(data)

Next ==
    \/ \E u \in Updaters :
          \/ Look(u) \/ HashFile(u) \/ Fetch(u) \/ Chunk(u) \/ Verify(u) \/ Rename(u)
          \/ Install(u) \/ Killed(u)
    \/ Cleanup

Spec == Init /\ [][Next]_vars

-----------------------------------------------------------------------------
(* "A file that does not match is erased, never launched" (update.rs):     *)
(* nothing is launched but the installer whose digest is published.        *)
InstallerWhole == ~broken

(* It is so as long as no two downloads overlap, whatever was interrupted  *)
(* or killed before and whenever the icon clears the folder; nor does      *)
(* anything else bear the name of the installer.  Two that overlap write   *)
(* one .part: the digest is the one of a stream, not of the file.          *)
InstallerWholeElse == ~overlap => InstallerWhole /\ (path # 0 => Whole(path))
=============================================================================
