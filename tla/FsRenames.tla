----------------------------- MODULE FsRenames ------------------------------
(***************************************************************************)
(* What the renames of SolonFs do to the files of Windows.  A rename that  *)
(* fails half way and an unlink whose answer is lost leave the same state, *)
(* so that a history variable has to tell them apart.                      *)
(***************************************************************************)
EXTENDS SolonFs

VARIABLE lost  \* history: a rename destroyed a file and put none in its place

RenamesInit == Init /\ lost = FALSE

RenamesNext ==
    \/ \E from, to \in NamedFile :
          /\ RenameFile(from, to)
          /\ lost' = (lost \/ \E p \in DiskFile : Gone(p) /\ disk'[p] = 0)
    \/ Next /\ UNCHANGED lost

RenamesSpec == RenamesInit /\ [][RenamesNext]_<<vars, lost>>

(* "POSIX semantics: overwrite the target if it is a file" (fileserver.rs, *)
(* Rename): the target of a rename is replaced or left alone, and the file *)
(* that is renamed is kept.                                                *)
RenameReplaces == ~lost
=============================================================================
