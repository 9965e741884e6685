------------------------------ MODULE DataDisk ------------------------------
(***************************************************************************)
(* What the engine owes the data disk and state.json: at most one machine  *)
(* writes to the disk, and `clean_shutdown' is false from before a machine *)
(* starts writing until after it has stopped, so that a power cut at any   *)
(* moment in between is noticed at the next start.                         *)
(***************************************************************************)
CONSTANT Machine
VARIABLES
    writers, \* the machines that write to the data disk
    clean    \* clean_shutdown, as read from state.json

Init == writers = {} /\ clean = FALSE

(* state.json is written before the machine that it announces starts.      *)
MarkDirty == clean' = FALSE /\ UNCHANGED writers
Open == /\ ~clean /\ writers = {}
        /\ \E m \in Machine : writers' = {m}
        /\ UNCHANGED clean
(* The machine powers off, is terminated, or the host loses power.         *)
Close == writers' = {} /\ UNCHANGED clean
MarkClean == writers = {} /\ clean' = TRUE /\ UNCHANGED writers

Next == MarkDirty \/ Open \/ Close \/ MarkClean

Spec == Init /\ [][Next]_<<writers, clean>>
=============================================================================
