----------------------------- MODULE MCCheckout -----------------------------
(* Instances of Checkout for TLC.  Offers are interchangeable, and so are   *)
(* workers; attempts are not, they lapse in order.                          *)
EXTENDS Checkout, TLC

\* One listing at most.
MCListingOf == [k \in CashRequests |-> CHOOSE l \in Listings : TRUE]

Symmetry == Permutations(Offers) \cup Permutations(Workers)

\* What the seeker has been drawn into: submitted offers, direct requests, and
\* checkouts of a listing.
Deals ==
    {o \in Offers : offer[o] # "none"} \cup {k \in CashRequests : booking[k] # "none"}
    \cup {a \in Attempts : attempt[a].target \in Listings}

\* Bound of the run with fairness: two offers compete, an offer and a booking of
\* a listing meet, or two bookings of the listing, not all of them at once.
\* No fair action begins a further deal, so the bound never holds one back.
TwoDeals == Cardinality(Deals) <= 2

TwoDealsSpec == Init /\ [][Next /\ TwoDeals']_vars /\ Fairness
=============================================================================
