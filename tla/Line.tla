-------------------------------- MODULE Line --------------------------------
(***************************************************************************)
(* What a provider promises those who paid: they are served one at a time, *)
(* in the order in which they came, and before anybody who pays cash.      *)
(* Nothing is said of positions, estimates and cases, nor of why somebody  *)
(* leaves or work stops.                                                   *)
(***************************************************************************)
CONSTANTS Paid, Cash

VARIABLES
    line,       \* line[j]: those ahead of j, for each paid job j that waits
    atWork,     \* the job being worked on, if any
    came        \* the jobs that joined the line, or started without it

lineVars == <<line, atWork, came>>

Waiting == DOMAIN line

Init == line = [j \in {} |-> {}] /\ atWork = {} /\ came = {}

Without(j) == [k \in Waiting \ {j} |-> line[k] \ {j}]

Join(j) ==
    /\ j \notin came
    /\ line' = [k \in Waiting \cup {j} |-> IF k = j THEN Waiting ELSE line[k]]
    /\ came' = came \cup {j}
    /\ UNCHANGED atWork

Leave(j) ==
    /\ j \in Waiting
    /\ line' = Without(j)
    /\ UNCHANGED <<atWork, came>>

Serve(j) ==
    /\ atWork = {}
    /\ j \in Waiting /\ line[j] = {}
    /\ line' = Without(j)
    /\ atWork' = {j}
    /\ UNCHANGED came

ServeCash(c) ==
    /\ atWork = {}
    /\ Waiting = {} /\ c \notin came
    /\ atWork' = {c}
    /\ came' = came \cup {c}
    /\ UNCHANGED line

Stop ==
    /\ atWork # {} /\ atWork' = {}
    /\ UNCHANGED <<line, came>>

Next ==
    \/ \E j \in Paid : Join(j) \/ Leave(j) \/ Serve(j)
    \/ \E c \in Cash : ServeCash(c)
    \/ Stop

Spec == Init /\ [][Next]_lineVars
=============================================================================
