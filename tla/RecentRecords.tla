--------------------------- MODULE RecentRecords ---------------------------
(***************************************************************************)
(* What an event log with a limited capacity and a limited snapshot        *)
(* promises: the records it shows are the newest ones, oldest first, and a *)
(* restart finds the newest ones of the last save.                         *)
(***************************************************************************)
EXTENDS Naturals, Sequences

CONSTANTS
    Records,        \* what a component may log
    SAVED,          \* the record of a save
    RESTORED,       \* the record of a restart from a save
    Capacity,       \* records the log can show, at least one
    SaveCapacity    \* records a save can hold, at least one and no more than that

VARIABLES
    shown,          \* the records the log shows, oldest first
    saved,          \* the records of the last save, oldest first
    is_saved        \* there is a save

vars == <<shown, saved, is_saved>>

newest(s, n) == IF Len(s) <= n THEN s ELSE SubSeq(s, Len(s) - n + 1, Len(s))

Init ==
    /\ shown = <<>>
    /\ saved = <<>>
    /\ is_saved = FALSE

Log(r) ==
    /\ shown' = newest(Append(shown, r), Capacity)
    /\ UNCHANGED <<saved, is_saved>>

\* The save is logged and does not contain its own record.
Save ==
    /\ saved' = newest(shown, SaveCapacity)
    /\ is_saved' = TRUE
    /\ shown' = newest(Append(shown, SAVED), Capacity)

Restart ==
    /\ shown' = IF is_saved THEN newest(Append(saved, RESTORED), Capacity) ELSE <<>>
    /\ UNCHANGED <<saved, is_saved>>

Forget ==
    /\ shown' = <<>>
    /\ saved' = <<>>
    /\ is_saved' = FALSE

Next == (\E r \in Records : Log(r)) \/ Save \/ Restart \/ Forget

Spec == Init /\ [][Next]_vars
=============================================================================
