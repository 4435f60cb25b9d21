----------------------------- MODULE TurnLedger -----------------------------
(***************************************************************************)
(* What the session service promises about turns, without journal, locks,  *)
(* processes or faults: a turn is opened, at most once handed out to be    *)
(* run, perhaps asked to stop, and closed once, with an ending that tells  *)
(* the truth about the request and about who was running it.               *)
(* OperatorSession implements this.                                        *)
(***************************************************************************)
CONSTANT Turns

VARIABLES
    state,     \* per turn: "absent", "open", or how it ended
    asked,     \* turns somebody asked to cancel
    admitted,  \* turns that were handed out to be run
    running    \* turns that are being run

vars == <<state, asked, admitted, running>>

Ends == {"completed", "blocked", "OPERATOR_CANCELLED", "EXECUTION_FAILED",
         "RUNTIME_RESTART"}

Init ==
    /\ state = [t \in Turns |-> "absent"]
    /\ asked = {} /\ admitted = {} /\ running = {}

Open(t) ==
    /\ state[t] = "absent"
    /\ state' = [state EXCEPT ![t] = "open"]
    /\ UNCHANGED <<asked, admitted, running>>

Ask(t) ==
    /\ state[t] = "open"
    /\ asked' = asked \cup {t}
    /\ UNCHANGED <<state, admitted, running>>

\* A turn is handed out while it is open, and never again.
Admit(t) ==
    /\ state[t] = "open" /\ t \notin admitted
    /\ admitted' = admitted \cup {t}
    /\ running' = running \cup {t}
    /\ UNCHANGED <<state, asked>>

\* Runs end, by themselves or with their process.
Stop ==
    /\ running' \in SUBSET running
    /\ UNCHANGED <<state, asked, admitted>>

\* The ending is the operator's exactly when it was asked for, and a turn is
\* given up as lost only when nobody runs it.
Close(t, end) ==
    /\ state[t] = "open"
    /\ end = "OPERATOR_CANCELLED" <=> t \in asked
    /\ end = "RUNTIME_RESTART" => t \notin running
    /\ state' = [state EXCEPT ![t] = end]
    /\ UNCHANGED <<asked, admitted, running>>

Next ==
    \/ \E t \in Turns : \/ Open(t) \/ Ask(t) \/ Admit(t)
                        \/ \E end \in Ends : Close(t, end)
    \/ Stop

Spec == Init /\ [][Next]_vars
=============================================================================
