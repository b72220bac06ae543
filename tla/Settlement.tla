----------------------------- MODULE Settlement -----------------------------
(***************************************************************************)
(* What the marketplace promises about the money of one booking: while the *)
(* booking is open the payment is held (or, for cash, still due); the      *)
(* booking ends once, completed or cancelled, and in that very step the    *)
(* money goes one way, the matching ledger entry is written, and the       *)
(* service counts as delivered or does not.                                *)
(***************************************************************************)
CONSTANT Cash    \* the booking is paid on site, outside the platform

VARIABLES phase, money, entries, counted
settlementVars == <<phase, money, entries, counted>>

Init ==
    /\ phase = "open"
    /\ money = IF Cash THEN "due" ELSE "held"
    /\ entries = {}
    /\ counted = FALSE

Complete ==
    /\ phase = "open"
    /\ phase' = "completed"
    /\ money' = IF Cash THEN "paid" ELSE "released"
    /\ entries' = IF Cash THEN {} ELSE {"EARNING"}
    /\ counted' = TRUE

Cancel ==
    /\ phase = "open"
    /\ phase' = "cancelled"
    /\ money' = IF Cash THEN "due" ELSE "refunded"
    /\ entries' = IF Cash THEN {} ELSE {"REFUND"}
    /\ counted' = FALSE

Spec == Init /\ [][Complete \/ Cancel]_settlementVars
=============================================================================
