---------------------------- MODULE EngineBlocker ----------------------------
(***************************************************************************)
(* What the engine blocker promises the people in and around the vehicle,  *)
(* one step per solver cycle or power cycle: it moves through its four     *)
(* modes in order, lets go of both restraints at once, takes the fuel away *)
(* gradually and never below a floor, inhibits the starter only of a       *)
(* vehicle that has stood still for the whole dwell, and a power cycle     *)
(* never changes its mode.                                                 *)
(***************************************************************************)
EXTENDS Integers

CONSTANTS
    Dwell,      \* cycles of standing still before the starter is inhibited, >= 1
    FullFuel,   \* fuel command when nothing is derated
    FuelFloor,  \* the least fuel ever commanded
    MaxDrop     \* the most the fuel command falls in one cycle

VARIABLES
    mode,           \* how far the blocking has gone
    fuel,           \* the fuel command, in percent
    starterFree,    \* may the engine be started?
    halted          \* cycles the vehicle has stood still, up to Dwell

promised == <<mode, fuel, starterFree, halted>>

Init ==
    /\ mode = "armed"
    /\ fuel = FullFuel
    /\ starterFree = TRUE
    /\ halted = 0

\* The vehicle is seen to stand still for one more cycle, or not.
Observe == halted' \in {0, IF halted < Dwell THEN halted + 1 ELSE Dwell}

Unrestrained == fuel' = FullFuel /\ starterFree' = TRUE

Watch ==
    /\ Observe
    /\ mode # "limiting"
    /\ UNCHANGED <<mode, fuel, starterFree>>

Confirm ==
    /\ Observe
    /\ mode = "armed"
    /\ mode' = "confirmed"
    /\ Unrestrained

Limit ==
    /\ Observe
    /\ mode = "confirmed"
    /\ mode' = "limiting"
    /\ Unrestrained

\* The fuel falls while the vehicle moves and is held while it stands.
Derate ==
    /\ Observe
    /\ mode = "limiting"
    /\ fuel' \in FuelFloor..fuel
    /\ fuel - fuel' <= MaxDrop
    /\ halted' > 0 => fuel' = fuel
    /\ UNCHANGED <<mode, starterFree>>

Immobilise ==
    /\ Observe
    /\ mode = "limiting"
    /\ halted' = Dwell
    /\ mode' = "immobilised"
    /\ fuel' = FullFuel
    /\ starterFree' = FALSE

Release ==
    /\ Observe
    /\ mode # "armed"
    /\ mode' = "armed"
    /\ Unrestrained

\* Power comes back: same mode, full fuel, the standstill is counted afresh.
Restart ==
    /\ halted' = 0
    /\ fuel' = FullFuel
    /\ UNCHANGED <<mode, starterFree>>

Forget ==
    /\ mode' = "armed"
    /\ halted' = 0
    /\ Unrestrained

Next ==
    \/ Watch \/ Confirm \/ Limit \/ Derate \/ Immobilise \/ Release
    \/ Restart \/ Forget

Spec == Init /\ [][Next]_promised
=============================================================================
