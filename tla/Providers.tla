----------------------------- MODULE Providers ------------------------------
(***************************************************************************)
(* One provider's membership: the free trial, the paid plans and their     *)
(* GCash payments, and the listings whose number the plan limits.          *)
(*                                                                         *)
(* The account lock serialises enrolment, listing changes and plan         *)
(* payments; deleting a listing and the gateway calls take no lock.  A     *)
(* change of an existing listing reads it and writes it back in one locked *)
(* transaction, and a deletion may come between: it is two actions, with   *)
(* the lock held by editing.  The other transactions are one action each.  *)
(*                                                                         *)
(* Requests about a payment have no identity here.  What they read before  *)
(* their transaction is either stable (a captured payment stays captured)  *)
(* or compared again when they write (the payment must still be PENDING),  *)
(* so every statement is an action that may happen whenever some request   *)
(* could have reached it.  The claim that spaces two tries of a checkout   *)
(* one minute apart guards nothing else and is left out, and whether the   *)
(* time of a checkout is over (due) matters only while it is pending.      *)
(* subscriptionUpdatedAt is kept as current: the quoted membership has not *)
(* changed since.  A change of the paid period always writes it, so it     *)
(* stands for quotedPeriodExpiresAt as well; the history in month, which   *)
(* no action reads, lets AppliedAsPriced say so.                           *)
(***************************************************************************)
EXTENDS Naturals, FiniteSets

CONSTANTS
    Payments,       \* SubscriptionPayment rows that can be created
    Listings,
    BasicLimit      \* active listings of the Basic plan (3 in PROVIDER_PLANS)

ASSUME BasicLimitAssumption == BasicLimit \in Nat \ {0}
ASSUME PaymentsAssumption   == "none" \notin Payments
ASSUME ListingsAssumption   == "none" \notin Listings /\ IsFiniteSet(Listings)

VARIABLES
    member,         \* the plan, its status, the free and the paid period, and
                    \* (history) the payment that began the paid period
    eligible,       \* assertActiveMarketplaceAccount
    quote,          \* the paid period whose upgrade the signed price that the
                    \* browser holds is for, if any
    payment,        \* SubscriptionPayment rows, and (history) the paid period
                    \* each was priced on
    intent,         \* external: the PayMongo intents and refunds
    applied,        \* ghost: how often a payment changed the membership
    scan,           \* the maintenance job's snapshot of the membership
    listing,        \* Service.status
    editing         \* the transaction that holds the lock while it edits a listing

billing  == <<quote, payment, intent, applied>>
listings == <<listing, editing>>
vars     == <<member, eligible, billing, scan, listings>>

Paid      == {"BASIC", "PRO"}
Settled   == {"SUCCEEDED", "REFUND_REQUIRED", "REFUNDED"}
NoPayment == [status |-> "none", plan |-> "none", action |-> "none", current |-> FALSE,
              month |-> "none", due |-> FALSE, saved |-> FALSE, redirect |-> FALSE]
NoEdit    == [listing |-> "none", to |-> "none"]

ListingStates == {"none", "PENDING_REVIEW", "ACTIVE", "INACTIVE", "SUSPENDED", "DELETED"}

\* Every variable stays within its type, and the browser is sent to a checkout
\* only for an intent that is recorded.
TypeOK ==
    /\ member \in [plan : Paid \cup {"FREE"}, status : {"ACTIVE", "CANCELLED", "EXPIRED"},
                   trial : {"none", "running", "over"}, period : {"none", "running", "over"},
                   month : Payments \cup {"none"}]
    /\ eligible \in BOOLEAN
    /\ quote \in Payments \cup {"none"}
    /\ payment \in [Payments -> [status : Settled \cup {"none", "PENDING", "FAILED", "CANCELLED", "EXPIRED"},
                                 plan : Paid \cup {"none"}, action : {"none", "NEW", "UPGRADE"},
                                 current : BOOLEAN, month : Payments \cup {"none"},
                                 due : BOOLEAN, saved : BOOLEAN, redirect : BOOLEAN]]
    /\ \A p \in Payments : payment[p].redirect => payment[p].saved
    /\ intent \in [Payments -> [state : {"none", "awaiting", "open", "succeeded", "cancelled"}, refunded : BOOLEAN]]
    /\ applied \in [Payments -> Nat]
    /\ scan \in {"none", "same", "changed"}
    /\ listing \in [Listings -> ListingStates]
    /\ editing \in [listing : Listings \cup {"none"}, to : ListingStates]

\* A member who has not entered the provider workspace; a listing may be left
\* from the time when listings were reviewed before they were published.
Init ==
    /\ member = [plan |-> "FREE", status |-> "ACTIVE", trial |-> "none", period |-> "none",
                 month |-> "none"]
    /\ eligible = TRUE
    /\ quote = "none"
    /\ payment = [p \in Payments |-> NoPayment]
    /\ intent = [p \in Payments |-> [state |-> "none", refunded |-> FALSE]]
    /\ applied = [p \in Payments |-> 0]
    /\ scan = "none"
    /\ listing \in [Listings -> {"none", "PENDING_REVIEW"}]
    /\ editing = NoEdit

-----------------------------------------------------------------------------
(* The membership.                                                         *)

Unlocked == editing = NoEdit

\* subscriptionBenefits: the plan's own period is running.
Access(m) == IF m.plan = "FREE" THEN m.trial = "running"
             ELSE m.status \in {"ACTIVE", "CANCELLED"} /\ m.period = "running"

PaidAccess(m) == m.plan # "FREE" /\ Access(m)

\* A write of subscriptionUpdatedAt: every price quoted before is out of date.
QuotesLapse ==
    /\ payment' = [p \in Payments |-> [payment[p] EXCEPT !.current = FALSE]]
    /\ quote' = "none"

\* ensureProviderTrial: the first provider action starts the free period.
WithTrial(m) == IF m.trial = "none" THEN [m EXCEPT !.trial = "running"] ELSE m

EnsureProviderTrial ==
    /\ member' = WithTrial(member)
    /\ IF member.trial = "none" THEN QuotesLapse ELSE UNCHANGED <<payment, quote>>

EnrollProviderMembership ==
    /\ Unlocked /\ eligible
    /\ member.trial = "none"
    /\ EnsureProviderTrial
    /\ UNCHANGED <<eligible, intent, applied, scan, listings>>

\* Also when it is cancelled already: the prices quoted lapse again.
CancelProviderSubscription ==
    /\ Unlocked /\ eligible
    /\ PaidAccess(member)
    /\ member' = [member EXCEPT !.status = "CANCELLED"]
    /\ QuotesLapse
    /\ UNCHANGED <<eligible, intent, applied, scan, listings>>

TrialEnds ==
    /\ member.trial = "running"
    /\ member' = [member EXCEPT !.trial = "over"]
    /\ UNCHANGED <<eligible, billing, scan, listings>>

PeriodEnds ==
    /\ member.period = "running"
    /\ member' = [member EXCEPT !.period = "over"]
    /\ UNCHANGED <<eligible, billing, scan, listings>>

\* The job reads the memberships that are over, and writes EXPIRED later, under
\* the lock, if plan and end are still those it read.
OverAndNotMarked ==
    /\ eligible /\ member.status # "EXPIRED"
    /\ IF member.plan = "FREE" THEN member.trial = "over" ELSE member.period = "over"

MaintenanceScan ==
    /\ scan = "none" /\ OverAndNotMarked
    /\ scan' = "same"
    /\ UNCHANGED <<member, eligible, billing, listings>>

\* Mutated form: the snapshot of the scan is not compared again.
MaintenanceMarkStale ==
    /\ scan # "none"
    /\ Unlocked
    /\ scan' = "none"
    /\ member' = IF eligible THEN [member EXCEPT !.status = "EXPIRED"] ELSE member
    /\ UNCHANGED <<eligible, billing, listings>>

MaintenanceMark ==
    /\ scan # "none"
    /\ Unlocked
    /\ scan' = "none"
    /\ member' = IF eligible /\ scan = "same" THEN [member EXCEPT !.status = "EXPIRED"] ELSE member
    /\ UNCHANGED <<eligible, billing, listings>>

\* An administrator suspends, bans or restores the account.
AccountChanges ==
    /\ Unlocked
    /\ eligible' = ~eligible
    /\ UNCHANGED <<member, billing, scan, listings>>

-----------------------------------------------------------------------------
(* Buying a plan.                                                          *)

\* membershipQuote: the running plan cannot be bought again, nor Basic during Pro.
MayBuy(plan) ==
    Access(member) => member.plan # plan /\ ~(member.plan = "PRO" /\ plan = "BASIC")

Action(plan) == IF PaidAccess(member) /\ member.plan = "BASIC" /\ plan = "PRO" THEN "UPGRADE" ELSE "NEW"

\* A quote of a full month always agrees with the price of the day, so only the
\* one of an upgrade is kept.
QuoteProviderMembership(plan) ==
    /\ Unlocked /\ eligible
    /\ member.trial # "none" /\ MayBuy(plan)
    /\ quote' = IF Action(plan) = "UPGRADE" THEN member.month ELSE quote
    /\ UNCHANGED <<member, eligible, payment, intent, applied, scan, listings>>

Pending(p) == payment[p].status = "PENDING"

\* Mutated form: an attempt whose checkout is over does not stand in the way.
NoOpenPendingPayment == \A p \in Payments : Pending(p) => payment[p].due

NoPendingPayment == \A p \in Payments : ~Pending(p)

NewRow(plan, action, month) ==
    [NoPayment EXCEPT !.status = "PENDING", !.plan = plan, !.action = action, !.current = TRUE, !.month = month]

\* A new payment row, at the price of a quote that still holds or of today.
OpenCheckout(p, plan) ==
    /\ Unlocked /\ eligible
    /\ member.trial # "none" /\ MayBuy(plan)
    /\ NoPendingPayment
    /\ payment[p].status = "none"
    /\ \/ payment' = [payment EXCEPT ![p] = NewRow(plan, Action(plan), member.month)]
       \/ /\ plan = "PRO" /\ quote # "none"
          /\ payment' = [payment EXCEPT ![p] = NewRow(plan, "UPGRADE", quote)]
    /\ UNCHANGED <<member, eligible, quote, intent, applied, scan, listings>>

CheckoutDue(p) ==
    /\ Pending(p) /\ ~payment[p].due
    /\ payment' = [payment EXCEPT ![p].due = TRUE]
    /\ UNCHANGED <<member, eligible, quote, intent, applied, scan, listings>>

\* External: the idempotency key makes every try for one row the same intent.
CreatePaymentIntent(p) ==
    /\ Pending(p) /\ intent[p].state = "none"
    /\ intent' = [intent EXCEPT ![p].state = "awaiting"]
    /\ UNCHANGED <<member, eligible, quote, payment, applied, scan, listings>>

SaveIntent(p) ==
    /\ intent[p].state # "none" /\ ~payment[p].saved
    /\ payment' = [payment EXCEPT ![p].saved = TRUE]
    /\ UNCHANGED <<member, eligible, quote, intent, applied, scan, listings>>

AttachPaymentMethod(p) ==
    /\ payment[p].saved /\ ~payment[p].redirect
    /\ intent[p].state = "awaiting"
    /\ intent' = [intent EXCEPT ![p].state = "open"]
    /\ UNCHANGED <<member, eligible, quote, payment, applied, scan, listings>>

\* The provider is sent to GCash only if the row is still pending.
SaveRedirect(p) ==
    /\ Pending(p) /\ payment[p].saved /\ intent[p].state = "open"
    /\ payment' = [payment EXCEPT ![p].redirect = TRUE]
    /\ UNCHANGED <<member, eligible, quote, intent, applied, scan, listings>>

\* External: the provider pays, however late, or GCash refuses.
Pay(p) ==
    /\ payment[p].redirect /\ intent[p].state = "open"
    /\ intent' = [intent EXCEPT ![p].state = "succeeded"]
    /\ UNCHANGED <<member, eligible, quote, payment, applied, scan, listings>>

PayFails(p) ==
    /\ payment[p].redirect /\ intent[p].state = "open"
    /\ intent' = [intent EXCEPT ![p].state = "awaiting"]
    /\ UNCHANGED <<member, eligible, quote, payment, applied, scan, listings>>

\* External: PayMongo gives up an intent that nobody has paid.
IntentCancelled(p) ==
    /\ payment[p].saved /\ intent[p].state \in {"awaiting", "open"}
    /\ intent' = [intent EXCEPT ![p].state = "cancelled"]
    /\ UNCHANGED <<member, eligible, quote, payment, applied, scan, listings>>

-----------------------------------------------------------------------------
(* What becomes of a payment: webhook, return page, next checkout, cancel. *)

MarkPayment(p, status) ==
    /\ payment' = [payment EXCEPT ![p].status = status, ![p].due = FALSE]
    /\ UNCHANGED <<member, eligible, quote, intent, applied, scan, listings>>

\* A request may have read the intent long before it writes, and the provider
\* may have paid it since: what it read is only known to have been true once.
\* Every recorded intent has waited for a payment method, this one for the
\* provider at GCash as well.
WasOpen(p) == intent[p].state \in {"open", "succeeded"} \/ payment[p].redirect

\* reconcileSubscriptionPayment for an intent that was read unpaid.
CloseCheckout(p) ==
    /\ payment[p].saved /\ Pending(p)
    /\ \/ MarkPayment(p, "FAILED")
       \/ intent[p].state = "cancelled" /\ MarkPayment(p, "CANCELLED")
       \/ WasOpen(p) /\ payment[p].due /\ MarkPayment(p, "EXPIRED")

\* startSubscriptionCheckout finds that the time of the pending row is over.
ExpireCheckout(p) ==
    /\ payment[p].saved /\ Pending(p) /\ payment[p].due
    /\ MarkPayment(p, "EXPIRED")

CancelSubscriptionCheckout(p) ==
    /\ Unlocked
    /\ payment[p].saved /\ Pending(p)
    /\ WasOpen(p)
    /\ MarkPayment(p, "CANCELLED")

\* Mutated form: the membership may have changed since the price was quoted.
AppliesToAnyQuote(p) ==
    /\ payment[p].status # "CANCELLED" /\ eligible
    /\ IF payment[p].action = "UPGRADE"
       THEN Access(member) /\ member.plan = "BASIC" /\ payment[p].plan = "PRO"
       ELSE ~PaidAccess(member)

\* finalizeSubscriptionPayment: the captured amount still buys what was quoted.
Applies(p) ==
    /\ payment[p].status # "CANCELLED" /\ eligible /\ payment[p].current
    /\ IF payment[p].action = "UPGRADE"
       THEN Access(member) /\ member.plan = "BASIC" /\ payment[p].plan = "PRO"
       ELSE ~PaidAccess(member)

ActiveListings == {l \in Listings : listing[l] = "ACTIVE"}

\* Mutated form: the listings above the Basic limit stay published.
NoPaused(plan) == {{}}

\* Basic keeps the oldest BasicLimit listings, so some set of the others is paused.
Paused(plan) ==
    IF plan = "BASIC" /\ Cardinality(ActiveListings) > BasicLimit
    THEN {S \in SUBSET ActiveListings : Cardinality(ActiveListings \ S) = BasicLimit}
    ELSE {{}}

ApplyPlan(p) ==
    /\ \E S \in Paused(payment[p].plan) :
          listing' = [l \in Listings |-> IF l \in S THEN "INACTIVE" ELSE listing[l]]
    /\ member' = [member EXCEPT !.plan = payment[p].plan, !.status = "ACTIVE", !.period = "running",
                                !.month = IF payment[p].action = "UPGRADE" THEN member.month ELSE p]
    /\ quote' = "none"
    /\ payment' = [q \in Payments |-> IF q = p
                      THEN [payment[q] EXCEPT !.status = "SUCCEEDED", !.current = FALSE, !.due = FALSE]
                      ELSE [payment[q] EXCEPT !.current = FALSE]]
    /\ applied' = [applied EXCEPT ![p] = @ + 1]
    /\ scan' = IF scan = "same" THEN "changed" ELSE scan
    /\ UNCHANGED <<eligible, intent, editing>>

RequireRefund(p) == MarkPayment(p, "REFUND_REQUIRED")

\* Also for attempts that failed, expired or were cancelled in the meantime.
FinalizeSubscriptionPayment(p) ==
    /\ Unlocked
    /\ payment[p].saved /\ intent[p].state = "succeeded"
    /\ payment[p].status \notin Settled
    /\ IF Applies(p) THEN ApplyPlan(p) ELSE RequireRefund(p)

\* External: one refund per key.
CreateRefund(p) ==
    /\ payment[p].status = "REFUND_REQUIRED" /\ ~intent[p].refunded
    /\ intent' = [intent EXCEPT ![p].refunded = TRUE]
    /\ UNCHANGED <<member, eligible, quote, payment, applied, scan, listings>>

SaveRefund(p) ==
    /\ payment[p].status = "REFUND_REQUIRED" /\ intent[p].refunded
    /\ MarkPayment(p, "REFUNDED")

-----------------------------------------------------------------------------
(* Listings.                                                               *)

Limit(plan) == CASE plan = "FREE"  -> 1
                 [] plan = "BASIC" -> BasicLimit
                 [] plan = "PRO"   -> Cardinality(Listings)

\* assertListingCapacity, for one listing more.
HasCapacity(m) == Access(m) /\ Cardinality(ActiveListings) < Limit(m.plan)

CreateService(l) ==
    /\ Unlocked /\ eligible
    /\ listing[l] = "none"
    /\ HasCapacity(WithTrial(member))
    /\ EnsureProviderTrial
    /\ listing' = [listing EXCEPT ![l] = "ACTIVE"]
    /\ UNCHANGED <<eligible, intent, applied, scan, editing>>

\* A locked transaction has read listing l and will write the status to.
Edit(l, to) ==
    /\ editing' = [listing |-> l, to |-> to]
    /\ UNCHANGED <<eligible, intent, applied, scan, listing>>

\* toggleServiceAvailability and, for a listing that was never published, the
\* edit that publishes it: only these need room, and start the trial.
PublishListing(l) ==
    /\ Unlocked /\ eligible
    /\ listing[l] \in {"INACTIVE", "PENDING_REVIEW"}
    /\ HasCapacity(WithTrial(member))
    /\ EnsureProviderTrial
    /\ Edit(l, "ACTIVE")

PauseListing(l) ==
    /\ Unlocked /\ eligible
    /\ listing[l] = "ACTIVE"
    /\ Edit(l, "INACTIVE")
    /\ UNCHANGED <<member, payment, quote>>

\* A material edit writes the status that it read.
UpdateService(l) ==
    /\ Unlocked /\ eligible
    /\ listing[l] \in {"ACTIVE", "INACTIVE"}
    /\ Edit(l, listing[l])
    /\ UNCHANGED <<member, payment, quote>>

AdminRemove(l) ==
    /\ Unlocked
    /\ listing[l] \in {"ACTIVE", "INACTIVE"}
    /\ Edit(l, "SUSPENDED")
    /\ UNCHANGED <<member, payment, quote>>

AdminRestore(l) ==
    /\ Unlocked /\ eligible
    /\ listing[l] = "SUSPENDED"
    /\ HasCapacity(member)
    /\ Edit(l, "ACTIVE")
    /\ UNCHANGED <<member, payment, quote>>

CommitEdit ==
    /\ ~Unlocked
    /\ listing' = [listing EXCEPT ![editing.listing] = editing.to]
    /\ editing' = NoEdit
    /\ UNCHANGED <<member, eligible, billing, scan>>

\* Takes no lock; its check for active bookings is in WorkQueue.
DeleteService(l) ==
    /\ listing[l] \notin {"none", "DELETED"}
    /\ listing' = [listing EXCEPT ![l] = "DELETED"]
    /\ UNCHANGED <<member, eligible, billing, scan, editing>>

-----------------------------------------------------------------------------
Membership ==
    \/ EnrollProviderMembership \/ CancelProviderSubscription \/ TrialEnds \/ PeriodEnds
    \/ MaintenanceScan \/ MaintenanceMark \/ AccountChanges
    \/ \E plan \in Paid : QuoteProviderMembership(plan)

Checkout(p) ==
    \/ \E plan \in Paid : OpenCheckout(p, plan)
    \/ CheckoutDue(p) \/ CreatePaymentIntent(p)
    \/ SaveIntent(p) \/ AttachPaymentMethod(p) \/ SaveRedirect(p) \/ Pay(p) \/ PayFails(p)
    \/ IntentCancelled(p)

Outcome(p) ==
    \/ CloseCheckout(p) \/ ExpireCheckout(p) \/ CancelSubscriptionCheckout(p)
    \/ FinalizeSubscriptionPayment(p) \/ CreateRefund(p) \/ SaveRefund(p)

Listing(l) ==
    \/ CreateService(l) \/ PublishListing(l) \/ PauseListing(l) \/ UpdateService(l)
    \/ AdminRemove(l) \/ AdminRestore(l) \/ DeleteService(l)

Next ==
    \/ Membership
    \/ \E p \in Payments : Checkout(p) \/ Outcome(p)
    \/ \E l \in Listings : Listing(l)
    \/ CommitEdit

Spec == Init /\ [][Next]_vars

-----------------------------------------------------------------------------
(* Properties.                                                             *)

\* "Never discard an unresolved charge to create another checkout": a payment
\* changes the membership at most once, one that did is not refunded, and no
\* two payments are pending at the same time.
PaymentCountsOnce ==
    /\ \A p \in Payments : /\ applied[p] <= 1
                           /\ applied[p] = 1 => payment[p].status = "SUCCEEDED" /\ ~intent[p].refunded
    /\ \A p, q \in Payments : Pending(p) /\ Pending(q) => p = q

\* A payment takes effect only on the membership it was priced for: however
\* late it was captured, no other month was bought between its price and its
\* effect.  So the price difference for the rest of one Basic month never
\* upgrades a later one, or a month that is over, and a full month bought after
\* one month never replaces the next while it is running (quotedMembershipUpdatedAt).
AppliedAsPriced ==
    [][\A p \in Payments : applied'[p] > applied[p] =>
          /\ payment[p].month = member.month
          /\ IF payment[p].action = "UPGRADE" THEN member.plan = "BASIC" /\ PaidAccess(member)
             ELSE ~PaidAccess(member)]_vars

\* A month that was paid for and is running gives access, whatever the
\* maintenance job read before it was bought.
RunningMonthCounts ==
    member.plan # "FREE" /\ member.period = "running" => Access(member)

\* The published listings never exceed what the plan allows: not after a
\* restoration by an administrator, a resumed listing, or a cheaper plan.
ListingLimitKept ==
    Cardinality(ActiveListings) <= Limit(member.plan)
=============================================================================
