----------------------- MODULE StateMachineInterface -----------------------
(***************************************************************************)
(* What the application may rely on when it calls a generated state        *)
(* machine: the language reference without buffers, checks and statements. *)
(* A call of Tick takes exactly one transition of the state, one of its    *)
(* regular transitions or the one for exceptions, and nothing else changes *)
(* the state.                                                              *)
(***************************************************************************)
CONSTANTS States, Machine, InitialState

VARIABLES
    phase,  \* "off", "on" between two calls, "starting", "stopping", "busy" before
            \* and "done" after the transition of a Tick
    state

vars == <<phase, state>>

Init == phase = "off" /\ state = InitialState

Start == phase = "off" /\ phase' = "starting" /\ UNCHANGED state

Started == phase = "starting" /\ phase' = "on" /\ state' = InitialState

Stop == phase = "on" /\ phase' = "stopping" /\ UNCHANGED state

Stopped == phase = "stopping" /\ phase' = "off" /\ state' = "Final"

Tick ==
    /\ phase = "on"
    /\ phase' = IF state = "Final" THEN "done" ELSE "busy"
    /\ UNCHANGED state

Successors(s) == {Machine[s].transitions[k].target : k \in DOMAIN Machine[s].transitions}

Transition == phase = "busy" /\ phase' = "done" /\ state' \in Successors(state)

Exception == phase = "busy" /\ phase' = "done" /\ state' = Machine[state].exception

Return == phase = "done" /\ phase' = "on" /\ UNCHANGED state

Next == Start \/ Started \/ Stop \/ Stopped \/ Tick \/ Transition \/ Exception \/ Return

\* A call that was made returns.
Spec == Init /\ [][Next]_vars /\ WF_vars(Started \/ Stopped \/ Transition \/ Exception \/ Return)
=============================================================================
