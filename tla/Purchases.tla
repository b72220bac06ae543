------------------------------ MODULE Purchases ------------------------------
(***************************************************************************)
(* What the marketplace promises those who buy from it.  Money taken from  *)
(* a payer buys one booking or comes back, one of the two and once.  A     *)
(* request is matched once, through whichever of its offers and however it *)
(* is paid; a listing has one booking at work at a time, one under review  *)
(* for its end not counted.  Nothing is said of how money is taken and     *)
(* reported, nor of who does what and when.                                *)
(***************************************************************************)
CONSTANTS
    Payments,
    Offers, Listings,           \* the offers are those on one request
    CashRequests, ListingOf     \* requests to book a listing with cash

VARIABLES
    target,     \* what a payment is for
    payment,    \* how far it got
    booking     \* what a payment bought, or an offer or a request was taken for cash

purchaseVars == <<target, payment, booking>>

Targets  == Offers \cup Listings
Bookings == Payments \cup Offers \cup CashRequests

Init ==
    /\ target = [p \in Payments |-> "none"]
    /\ payment = [p \in Payments |-> "none"]
    /\ booking = [b \in Bookings |-> "none"]

\* What a booking is of.
Booked(b) == IF b \in Payments THEN target[b]
             ELSE IF b \in CashRequests THEN ListingOf[b] ELSE b

Taken(t) ==
    IF t \in Offers THEN \E b \in Bookings : Booked(b) \in Offers /\ booking[b] # "none"
                    ELSE \E b \in Bookings : Booked(b) = t /\ booking[b] = "active"

Goes(p, from, to) == payment[p] = from /\ payment' = [payment EXCEPT ![p] = to]

Checkout(p, t) == Goes(p, "none", "open") /\ target' = [target EXCEPT ![p] = t] /\ UNCHANGED booking
Capture(p)     == Goes(p, "open", "captured") /\ UNCHANGED <<target, booking>>
GiveBack(p)    == Goes(p, "captured", "refunded") /\ UNCHANGED <<target, booking>>

Book(p) ==
    /\ Goes(p, "captured", "booked")
    /\ ~Taken(target[p])
    /\ booking' = [booking EXCEPT ![p] = "active"]
    /\ UNCHANGED target

BookForCash(b) ==
    /\ booking[b] = "none"
    /\ ~Taken(Booked(b))
    /\ booking' = [booking EXCEPT ![b] = "active"]
    /\ UNCHANGED <<target, payment>>

Review(b) ==
    /\ booking[b] = "active"
    /\ booking' = [booking EXCEPT ![b] = "review"]
    /\ UNCHANGED <<target, payment>>

End(b) ==
    /\ booking[b] \in {"active", "review"}
    /\ \E end \in {"completed", "canceled"} : booking' = [booking EXCEPT ![b] = end]
    /\ UNCHANGED <<target, payment>>

Next ==
    \/ \E p \in Payments : (\E t \in Targets : Checkout(p, t)) \/ Capture(p) \/ GiveBack(p) \/ Book(p)
    \/ \E b \in Offers \cup CashRequests : BookForCash(b)
    \/ \E b \in Bookings : Review(b) \/ End(b)

Spec == Init /\ [][Next]_purchaseVars
=============================================================================
