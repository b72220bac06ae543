------------------------------ MODULE Checkout ------------------------------
(***************************************************************************)
(* How a service request or a listing becomes a booking: the offers on one *)
(* request, the payment hold, the GCash payment attempts, PayMongo's       *)
(* webhooks, and the refund of a captured payment that cannot be used.     *)
(*                                                                         *)
(* A transaction takes the advisory lock of its request (an offer) or of   *)
(* the two accounts (a listing) and re-reads the rows, so it is one        *)
(* action.  What runs between transactions are workers: API requests and   *)
(* webhook deliveries that call PayMongo and may crash anywhere.  PayMongo *)
(* itself is external: an intent, and the events it keeps redelivering     *)
(* until they are acknowledged.                                            *)
(*                                                                         *)
(* Each offer comes from its own provider, except on a private inquiry,    *)
(* which only one provider may answer.  Whether both accounts, the listing *)
(* and the queue still admit a booking is decided elsewhere and can change *)
(* at any time, so a transaction that asks may find either answer.  A      *)
(* check that fails rolls its transaction back and changes nothing.        *)
(***************************************************************************)
EXTENDS Naturals, FiniteSets

CONSTANTS
    Offers,         \* offers that can be made on the request
    Listings,       \* listings the seeker can book directly
    CashRequests,   \* direct requests with cash that the seeker can make,
    ListingOf,      \* each for its listing
    Workers,        \* API requests and webhook deliveries in flight
    MaxAttempts,    \* bound on PaymentAttempt rows
    DoubleSubmit    \* the seeker can send a checkout request while the last one runs

ASSUME MaxAttemptsAssumption == MaxAttempts \in Nat
ASSUME DoubleSubmitAssumption == DoubleSubmit \in BOOLEAN
ASSUME TargetsAssumption ==
    /\ Offers \cap Listings = {} /\ "none" \notin Offers \cup Listings
    /\ CashRequests \cap Offers = {}
    /\ (Offers \cup CashRequests) \cap 1 .. MaxAttempts = {}
ASSUME ListingOfAssumption == ListingOf \in [CashRequests -> Listings]

Targets  == Offers \cup Listings
Attempts == 1 .. MaxAttempts      \* in the order of their creation
Bookings == Attempts \cup Offers \cup CashRequests

VARIABLES
    inquiry,            \* the request is a private inquiry to one provider
    request, removed,   \* ServiceRequest: status, and moderationReasonCode = ADMIN_REMOVED
    offer,              \* Offer rows: status
    attempt,            \* PaymentAttempt rows
    booking,            \* Booking rows: paid by an attempt, or an offer or a request taken with cash
    intent,             \* PayMongo's payment intents
    events,             \* PayMongo's webhook events not acknowledged yet
    refund,             \* PaymentRefund row of an attempt
    returned,           \* attempts whose payment PayMongo has given back
    worker

requestVars == <<inquiry, request, removed, offer>>
paymongo    == <<intent, events, returned>>
vars == <<requestVars, attempt, booking, paymongo, refund, worker>>

NoAttempt == [status |-> "none", target |-> "none", late |-> FALSE, registered |-> FALSE]
Idle == [pc |-> "idle", attempt |-> 0, origin |-> "none"]

AttemptStatus == {"none", "PENDING", "FAILED", "EXPIRED", "SUCCEEDED", "REFUND_REQUIRED", "REFUNDED"}
PCs == {"idle", "gateway", "store", "fail", "return", "mark_failed", "finalize", "ack", "resume",
        "prepare", "refund_read", "refund_call", "refund_store", "refund_fail"}

\* Every variable stays within its type.
TypeOK ==
    /\ request \in {"OPEN", "PAYMENT_PENDING", "IN_PROGRESS", "CLOSED", "CANCELED"}
    /\ inquiry \in BOOLEAN /\ removed \in BOOLEAN
    /\ offer \in [Offers -> {"none", "PENDING", "PENDING_PAYMENT", "ACCEPTED", "REJECTED", "WITHDRAWN"}]
    /\ attempt \in [Attempts -> [status : AttemptStatus, target : Targets \cup {"none"},
                                 late : BOOLEAN, registered : BOOLEAN]]
    /\ booking \in [Bookings -> {"none", "active", "review", "completed", "canceled"}]
    /\ intent \in [Attempts -> {"none", "open", "failed", "succeeded"}]
    /\ events \in SUBSET (Attempts \X {"paid", "failed"})
    /\ refund \in [Attempts -> {"none", "PENDING", "FAILED", "DONE"}]
    /\ returned \in SUBSET Attempts
    /\ worker \in [Workers -> [pc : PCs, attempt : Attempts \cup {0},
                               origin : {"none", "initiate", "return", "webhook", "admin"}]]

\* A request is posted for every provider, or sent to one listing's provider.
PublicPost     == inquiry = FALSE /\ request = "OPEN"
ListingInquiry == inquiry = TRUE /\ request = "OPEN"

Init ==
    /\ PublicPost \/ ListingInquiry
    /\ removed = FALSE
    /\ offer = [o \in Offers |-> "none"]
    /\ attempt = [a \in Attempts |-> NoAttempt]
    /\ booking = [b \in Bookings |-> "none"]
    /\ intent = [a \in Attempts |-> "none"]
    /\ events = {}
    /\ refund = [a \in Attempts |-> "none"]
    /\ returned = {}
    /\ worker = [w \in Workers |-> Idle]

-----------------------------------------------------------------------------
(* What the transactions ask of the rows.                                  *)

TargetOf(b) == IF b \in Attempts THEN attempt[b].target
               ELSE IF b \in CashRequests THEN ListingOf[b] ELSE b

BookingsOf(t) == {b \in Bookings : TargetOf(b) = t}

\* What checkouts and the finalizer look for: a booking that has not ended.
ActiveBooking(t) == \E b \in BookingsOf(t) : booking[b] \in {"active", "review"}

\* Mutated form: only bookings with cash stand in the way.
CashBookingAtWork(t) == \E b \in BookingsOf(t) \ Attempts : booking[b] = "active"

\* What cash bookings look for under their lock leaves UNDER_REVIEW out.
BookingAtWork(t) == \E b \in BookingsOf(t) : booking[b] = "active"

\* A booking of the request that is neither declined, canceled nor removed.
Matched == \E o \in Offers : \E b \in BookingsOf(o) : booking[b] \in {"active", "review", "completed"}

AttemptsOnRequest == {a \in Attempts : attempt[a].target \in Offers}
ProtectedPayment ==
    \E a \in AttemptsOnRequest : attempt[a].status \in {"PENDING", "SUCCEEDED", "REFUND_REQUIRED"}

Selected == {o \in Offers : offer[o] \in {"PENDING_PAYMENT", "ACCEPTED"}}

\* Mutated form: the request stays PAYMENT_PENDING when the hold is released.
ReleaseOfferOnly(t) ==
    /\ offer' = IF t \in Offers /\ offer[t] = "PENDING_PAYMENT"
                THEN [offer EXCEPT ![t] = "PENDING"] ELSE offer
    /\ UNCHANGED request

\* releaseOfferHold: whichever attempt asks, the hold on the offer goes.
ReleaseOfferHold(t) ==
    IF t \in Offers /\ offer[t] = "PENDING_PAYMENT"
    THEN /\ offer' = [offer EXCEPT ![t] = "PENDING"]
         /\ request' = IF request = "PAYMENT_PENDING" THEN "OPEN" ELSE request
    ELSE UNCHANGED <<offer, request>>

\* The winning offer is accepted and its pending siblings are rejected.
RejectSiblings(o) ==
    [p \in Offers |-> IF p = o THEN "ACCEPTED"
                      ELSE IF offer[p] = "PENDING" THEN "REJECTED" ELSE offer[p]]

-----------------------------------------------------------------------------
(* Offers and the request.                                                 *)

SubmitOffer(o) ==
    /\ offer[o] = "none"
    /\ request = "OPEN"
    /\ ~Matched
    /\ inquiry => \A p \in Offers : offer[p] \notin {"PENDING", "PENDING_PAYMENT", "ACCEPTED"}
    /\ offer' = [offer EXCEPT ![o] = "PENDING"]
    /\ UNCHANGED <<inquiry, request, removed, attempt, booking, paymongo, refund, worker>>

\* Mutated form: an offer can be declined while its payment is in progress.
OfferDecidable(o) == offer[o] \in {"PENDING", "PENDING_PAYMENT"}

\* Only a pending offer of an open request is withdrawn or declined.
OfferOpen(o) == offer[o] = "PENDING" /\ request = "OPEN"

RejectOffer(o) ==
    /\ OfferOpen(o)
    /\ \E decision \in {"WITHDRAWN", "REJECTED"} : offer' = [offer EXCEPT ![o] = decision]
    /\ request' = IF inquiry THEN "CANCELED" ELSE request
    /\ UNCHANGED <<inquiry, removed, attempt, booking, paymongo, refund, worker>>

DeclineListingInquiry ==
    /\ inquiry
    /\ request = "OPEN"
    /\ \A o \in Offers : offer[o] \notin {"PENDING", "PENDING_PAYMENT", "ACCEPTED"}
    /\ request' = "CANCELED"
    /\ UNCHANGED <<inquiry, removed, offer, attempt, booking, paymongo, refund, worker>>

\* The seeker takes the offer with cash: no hold, the booking is made at once.
CreateDirectFromOffer(o) ==
    /\ OfferOpen(o)
    /\ ~BookingAtWork(o)
    /\ offer' = RejectSiblings(o)
    /\ request' = "IN_PROGRESS"
    /\ booking' = [booking EXCEPT ![o] = "active"]
    /\ UNCHANGED <<inquiry, removed, attempt, paymongo, refund, worker>>

\* A cash request for a listing does not look at payment attempts.  Its fuller
\* check comes before the lock: the request may have passed it long ago, when
\* the listing had no booking, so it rules nothing out.
CreateDirectRequest(k) ==
    /\ booking[k] = "none"
    /\ ~BookingAtWork(ListingOf[k])
    /\ booking' = [booking EXCEPT ![k] = "active"]
    /\ UNCHANGED <<requestVars, attempt, paymongo, refund, worker>>

PauseRequest ==
    /\ request = "OPEN"
    /\ request' = "CLOSED"
    /\ UNCHANGED <<inquiry, removed, offer, attempt, booking, paymongo, refund, worker>>

Reopenable == request = "CLOSED" /\ ~Matched /\ ~ProtectedPayment

ReopenRequest ==
    /\ Reopenable
    /\ request' = "OPEN"
    /\ UNCHANGED <<inquiry, removed, offer, attempt, booking, paymongo, refund, worker>>

\* requestDeletionEligibility finds no reason against it.
CancelRequest ==
    /\ request = "OPEN"
    /\ ~Matched
    /\ Selected = {}
    /\ ~ProtectedPayment
    /\ request' = "CANCELED"
    /\ offer' = [o \in Offers |-> IF offer[o] = "PENDING" THEN "REJECTED" ELSE offer[o]]
    /\ UNCHANGED <<inquiry, removed, attempt, booking, paymongo, refund, worker>>

RemoveRequest ==
    /\ ~inquiry
    /\ request \in {"OPEN", "CLOSED"}
    /\ ~Matched /\ ~ProtectedPayment
    /\ request' = "CANCELED"
    /\ removed' = TRUE
    /\ offer' = [o \in Offers |-> IF offer[o] = "PENDING" THEN "REJECTED" ELSE offer[o]]
    /\ UNCHANGED <<inquiry, attempt, booking, paymongo, refund, worker>>

RestoreRequest ==
    /\ ~inquiry
    /\ request = "CANCELED" /\ removed
    /\ ~Matched /\ ~ProtectedPayment
    /\ request' = "OPEN"
    /\ removed' = FALSE
    /\ UNCHANGED <<inquiry, offer, attempt, booking, paymongo, refund, worker>>

\* A decision about the booking is reserved: UNDER_REVIEW, until it ends
\* (UnderReviewEnds in BookingCases).
ReviewBooking(b) ==
    /\ booking[b] = "active"
    /\ booking' = [booking EXCEPT ![b] = "review"]
    /\ UNCHANGED <<requestVars, attempt, paymongo, refund, worker>>

\* Settlement and cancellation, as far as they reach the request (BookingCases).
EndBooking(b) ==
    /\ booking[b] \in {"active", "review"}
    /\ \E end \in {"completed", "canceled"} :
          /\ booking' = [booking EXCEPT ![b] = end]
          /\ request' = IF TargetOf(b) \notin Offers THEN request
                        ELSE IF end = "completed" THEN "CLOSED" ELSE "CANCELED"
    /\ UNCHANGED <<inquiry, removed, offer, attempt, paymongo, refund, worker>>

-----------------------------------------------------------------------------
(* Payment attempts.                                                       *)

Goto(w, pc) == worker' = [worker EXCEPT ![w].pc = pc]

\* Where a caller goes once the finalizer or the refund returns to it.
Return(w) ==
    worker' = [worker EXCEPT ![w] =
        CASE @.origin = "webhook"  -> [@ EXCEPT !.pc = "ack"]
          [] @.origin = "initiate" -> [@ EXCEPT !.pc = "resume"]
          [] OTHER                 -> Idle]

SetStatus(a, status) == attempt' = [attempt EXCEPT ![a].status = status]

\* The transaction of initiateOnlinePayment: expire what is stale, reuse an
\* attempt that is still pending, else hold the offer and create an attempt.
PrepareTransaction(w, t) ==
    LET stale == {a \in Attempts : attempt[a].target = t /\ attempt[a].status = "PENDING" /\ attempt[a].late}
        live  == {a \in Attempts : attempt[a].target = t /\ attempt[a].status = "PENDING" /\ ~attempt[a].late}
        fresh == {a \in Attempts : attempt[a].status = "none"}
        swept == [a \in Attempts |-> IF a \in stale THEN [attempt[a] EXCEPT !.status = "EXPIRED"]
                                                    ELSE attempt[a]]
        freed == stale # {} /\ t \in Offers /\ offer[t] = "PENDING_PAYMENT"
    IN  \/ \E a \in live :
              /\ IF stale = {} THEN UNCHANGED <<offer, request>> ELSE ReleaseOfferHold(t)
              /\ attempt' = swept
              /\ worker' = [worker EXCEPT ![w] = [pc |-> IF attempt[a].registered THEN "return" ELSE "gateway",
                                                 attempt |-> a, origin |-> "initiate"]]
        \/ /\ live = {}
           /\ ~ActiveBooking(t)
           /\ t \in Offers => \/ OfferOpen(t)
                              \/ freed /\ request = "PAYMENT_PENDING"
           /\ \E a \in fresh :
                 /\ \A b \in fresh : a <= b
                 /\ attempt' = [swept EXCEPT ![a] = [status |-> "PENDING", target |-> t,
                                                    late |-> FALSE, registered |-> FALSE]]
                 /\ worker' = [worker EXCEPT ![w] = [pc |-> "gateway", attempt |-> a, origin |-> "initiate"]]
           /\ IF t \in Offers
              THEN /\ offer' = [offer EXCEPT ![t] = "PENDING_PAYMENT"]
                   /\ request' = "PAYMENT_PENDING"
              ELSE UNCHANGED <<offer, request>>

\* A checkout request for target t is being served.
CheckingOut(t) ==
    \E w \in Workers : /\ worker[w].origin = "initiate"
                       /\ attempt[worker[w].attempt].target = t

InitiateOnlinePayment(w, t) ==
    /\ worker[w] = Idle
    /\ DoubleSubmit \/ ~CheckingOut(t)
    /\ PrepareTransaction(w, t)
    /\ UNCHANGED <<inquiry, removed, booking, paymongo, refund>>

\* The reused attempt turned out dead: initiateOnlinePayment calls itself.
InitiateAgain(w) ==
    /\ worker[w].pc = "prepare"
    /\ \/ PrepareTransaction(w, attempt[worker[w].attempt].target)
       \/ worker' = [worker EXCEPT ![w] = Idle] /\ UNCHANGED <<offer, request, attempt>>
    /\ UNCHANGED <<inquiry, removed, booking, paymongo, refund>>

\* createPaymentIntent is idempotent by the attempt's key, so one attempt has
\* one intent; attaching a payment method makes it payable (again).
CreateIntent(w) ==
    /\ worker[w].pc = "gateway"
    /\ intent[worker[w].attempt] # "succeeded"
    /\ intent' = [intent EXCEPT ![worker[w].attempt] = "open"]
    /\ Goto(w, "store")
    /\ UNCHANGED <<requestVars, attempt, booking, events, returned, refund>>

\* Any of the three calls is refused or times out.  The intent may exist, but
\* the seeker never gets a redirect from this request.
CreateIntentFails(w) ==
    /\ worker[w].pc = "gateway"
    /\ Goto(w, "fail")
    /\ UNCHANGED <<requestVars, attempt, booking, paymongo, refund>>

\* The seeker gets the redirect to GCash.
StoreIntent(w) ==
    /\ worker[w].pc = "store"
    /\ attempt' = [attempt EXCEPT ![worker[w].attempt].registered = TRUE]
    /\ worker' = [worker EXCEPT ![w] = Idle]
    /\ UNCHANGED <<requestVars, booking, paymongo, refund>>

\* The catch of initiateOnlinePayment does not look at the attempt's status.
InitiationFailed(w) ==
    /\ worker[w].pc = "fail"
    /\ SetStatus(worker[w].attempt, "FAILED")
    /\ ReleaseOfferHold(attempt[worker[w].attempt].target)
    /\ worker' = [worker EXCEPT ![w] = Idle]
    /\ UNCHANGED <<inquiry, removed, booking, paymongo, refund>>

\* After reconciling the reused attempt, its status decides.
ResumeInitiation(w) ==
    /\ worker[w].pc = "resume"
    /\ IF attempt[worker[w].attempt].status \in {"FAILED", "EXPIRED"}
       THEN Goto(w, "prepare") ELSE worker' = [worker EXCEPT ![w] = Idle]
    /\ UNCHANGED <<requestVars, attempt, booking, paymongo, refund>>

\* The seeker on GCash's page: pays, even long after the attempt has expired.
SeekerPays(a) ==
    /\ intent[a] = "open" /\ attempt[a].registered
    /\ intent' = [intent EXCEPT ![a] = "succeeded"]
    /\ events' = events \cup {<<a, "paid">>}
    /\ UNCHANGED <<requestVars, attempt, booking, returned, refund, worker>>

SeekerFailsToPay(a) ==
    /\ intent[a] = "open" /\ attempt[a].registered
    /\ intent' = [intent EXCEPT ![a] = "failed"]
    /\ events' = events \cup {<<a, "failed">>}
    /\ UNCHANGED <<requestVars, attempt, booking, returned, refund, worker>>

MarkPaymentAttemptFailed(a) ==
    IF attempt[a].status = "PENDING"
    THEN SetStatus(a, "FAILED") /\ ReleaseOfferHold(attempt[a].target)
    ELSE UNCHANGED <<attempt, offer, request>>

\* A payment.failed event; a crash before it is acknowledged redelivers it.
WebhookFailed(a) ==
    /\ <<a, "failed">> \in events
    /\ MarkPaymentAttemptFailed(a)
    /\ events' \in {events, events \ {<<a, "failed">>}}
    /\ UNCHANGED <<inquiry, removed, booking, intent, returned, refund, worker>>

\* A payment.paid event: getPaymentIntent confirms it, the finalizer is next.
WebhookPaid(w, a) ==
    /\ worker[w] = Idle
    /\ <<a, "paid">> \in events
    /\ worker' = [worker EXCEPT ![w] = [pc |-> "finalize", attempt |-> a, origin |-> "webhook"]]
    /\ UNCHANGED <<requestVars, attempt, booking, paymongo, refund>>

AcknowledgeWebhook(w) ==
    /\ worker[w].pc = "ack"
    /\ events' = events \ {<<worker[w].attempt, "paid">>}
    /\ worker' = [worker EXCEPT ![w] = Idle]
    /\ UNCHANGED <<requestVars, attempt, booking, intent, returned, refund>>

\* The seeker's browser comes back from GCash.
PaymentReturn(w, a) ==
    /\ worker[w] = Idle
    /\ attempt[a].registered
    /\ worker' = [worker EXCEPT ![w] = [pc |-> "return", attempt |-> a, origin |-> "return"]]
    /\ UNCHANGED <<requestVars, attempt, booking, paymongo, refund>>

\* reconcileOnlinePaymentReturn asks PayMongo for the intent.
ReadIntent(w) ==
    LET a == worker[w].attempt
    IN  /\ worker[w].pc = "return"
        /\ IF attempt[a].status \in {"PENDING", "EXPIRED", "FAILED"} /\ intent[a] # "open"
           THEN Goto(w, IF intent[a] = "succeeded" THEN "finalize" ELSE "mark_failed")
           ELSE Return(w)
        /\ UNCHANGED <<requestVars, attempt, booking, paymongo, refund>>

MarkFailed(w) ==
    /\ worker[w].pc = "mark_failed"
    /\ MarkPaymentAttemptFailed(worker[w].attempt)
    /\ Return(w)
    /\ UNCHANGED <<inquiry, removed, booking, paymongo, refund>>

\* Mutated form: the timer expires the attempt and forgets the hold.
ExpireWithoutRelease(a) ==
    /\ attempt[a].status = "PENDING" /\ attempt[a].late
    /\ SetStatus(a, "EXPIRED")
    /\ UNCHANGED <<requestVars, booking, paymongo, refund, worker>>

\* expireStalePaymentAttempts, every 60 seconds: one transaction per attempt.
ExpireStalePaymentAttempt(a) ==
    /\ attempt[a].status = "PENDING" /\ attempt[a].late
    /\ SetStatus(a, "EXPIRED")
    /\ ReleaseOfferHold(attempt[a].target)
    /\ UNCHANGED <<inquiry, removed, booking, paymongo, refund, worker>>

\* ATTEMPT_TTL_MS passes: attempts lapse in the order of their creation.
Lapse(a) ==
    /\ attempt[a].status # "none" /\ ~attempt[a].late
    /\ \A b \in Attempts : b < a => attempt[b].late
    /\ attempt' = [attempt EXCEPT ![a].late = TRUE]
    /\ UNCHANGED <<requestVars, booking, paymongo, refund, worker>>

-----------------------------------------------------------------------------
(* finalizeSuccessfulPayment: one transaction under all the locks.         *)

\* Mutated form: the finalizer forgets that the attempt already has its booking.
OnlyRefundsFinal(a) == attempt[a].status \in {"REFUND_REQUIRED", "REFUNDED"}

\* The attempt already has its booking, or its refund is decided.
AlreadyFinal(a) ==
    \/ attempt[a].status = "SUCCEEDED" /\ booking[a] # "none"
    \/ attempt[a].status \in {"REFUND_REQUIRED", "REFUNDED"}

FinalizeAgain(w) ==
    LET a == worker[w].attempt
    IN  /\ worker[w].pc = "finalize"
        /\ AlreadyFinal(a)
        /\ IF attempt[a].status = "REFUND_REQUIRED" THEN Goto(w, "refund_read") ELSE Return(w)
        /\ UNCHANGED <<requestVars, attempt, booking, paymongo, refund>>

\* A payment for an offer needs the hold and no other selected offer.
HoldValid(a) ==
    LET t == attempt[a].target
    IN  t \in Offers => /\ offer[t] = "PENDING_PAYMENT"
                        /\ request = "PAYMENT_PENDING"
                        /\ Selected = {t}

\* Too late, a booking in the way, or an account, listing or queue that no
\* longer admits one: the payment must go back, the hold is released.
FinalizeRefused(w) ==
    LET a == worker[w].attempt
    IN  /\ worker[w].pc = "finalize"
        /\ ~AlreadyFinal(a)
        /\ SetStatus(a, "REFUND_REQUIRED")
        /\ ReleaseOfferHold(attempt[a].target)
        /\ Goto(w, "refund_read")
        /\ UNCHANGED <<inquiry, removed, booking, paymongo, refund>>

\* The offer is no longer held, or a sibling was selected meanwhile.
FinalizeWithoutHold(w) ==
    LET a == worker[w].attempt
        t == attempt[a].target
    IN  /\ worker[w].pc = "finalize"
        /\ ~AlreadyFinal(a)
        /\ ~attempt[a].late /\ ~ActiveBooking(t)
        /\ ~HoldValid(a)
        /\ SetStatus(a, "REFUND_REQUIRED")
        /\ offer' = IF offer[t] = "PENDING_PAYMENT" /\ request = "PAYMENT_PENDING"
                    THEN [offer EXCEPT ![t] = "REJECTED"] ELSE offer
        /\ Goto(w, "refund_read")
        /\ UNCHANGED <<inquiry, request, removed, booking, paymongo, refund>>

FinalizeBooks(w) ==
    LET a == worker[w].attempt
        t == attempt[a].target
    IN  /\ worker[w].pc = "finalize"
        /\ ~AlreadyFinal(a)
        /\ ~attempt[a].late /\ ~ActiveBooking(t)
        /\ HoldValid(a)
        /\ booking' = [booking EXCEPT ![a] = "active"]
        /\ SetStatus(a, "SUCCEEDED")
        /\ IF t \in Offers THEN offer' = RejectSiblings(t) /\ request' = "IN_PROGRESS"
                           ELSE UNCHANGED <<offer, request>>
        /\ Return(w)
        /\ UNCHANGED <<inquiry, removed, paymongo, refund>>

-----------------------------------------------------------------------------
(* refundCapturedAttempt: no lock, three steps.                            *)

RefundRead(w) ==
    LET a == worker[w].attempt
    IN  /\ worker[w].pc = "refund_read"
        /\ IF attempt[a].status = "REFUND_REQUIRED"
           THEN /\ refund' = [refund EXCEPT ![a] = IF @ = "none" THEN "PENDING" ELSE @]
                /\ IF refund[a] = "DONE" THEN Return(w) ELSE Goto(w, "refund_call")
           ELSE Return(w) /\ UNCHANGED refund
        /\ UNCHANGED <<requestVars, attempt, booking, paymongo>>

\* createRefund, idempotent by the attempt: it may also time out, executed or not.
CreateRefund(w) ==
    /\ worker[w].pc = "refund_call"
    /\ returned' = returned \cup {worker[w].attempt}
    /\ Goto(w, "refund_store")
    /\ UNCHANGED <<requestVars, attempt, booking, intent, events, refund>>

CreateRefundFails(w) ==
    /\ worker[w].pc = "refund_call"
    /\ returned' \in {returned, returned \cup {worker[w].attempt}}
    /\ Goto(w, "refund_fail")
    /\ UNCHANGED <<requestVars, attempt, booking, intent, events, refund>>

RefundStore(w) ==
    /\ worker[w].pc = "refund_store"
    /\ refund' = [refund EXCEPT ![worker[w].attempt] = "DONE"]
    /\ SetStatus(worker[w].attempt, "REFUNDED")
    /\ Return(w)
    /\ UNCHANGED <<requestVars, booking, paymongo>>

\* Mutated form: the error is swallowed and the webhook acknowledged.
RefundFailSwallowed(w) ==
    /\ worker[w].pc = "refund_fail"
    /\ refund' = [refund EXCEPT ![worker[w].attempt] = "FAILED"]
    /\ Return(w)
    /\ UNCHANGED <<requestVars, attempt, booking, paymongo>>

\* The error reaches the caller: a webhook is not acknowledged.
RefundFail(w) ==
    /\ worker[w].pc = "refund_fail"
    /\ refund' = [refund EXCEPT ![worker[w].attempt] = "FAILED"]
    /\ worker' = [worker EXCEPT ![w] = Idle]
    /\ UNCHANGED <<requestVars, attempt, booking, paymongo>>

\* The administrator retries a captured payment listed for reconciliation.
RetryPaymentReconciliation(w, a) ==
    /\ worker[w] = Idle
    /\ attempt[a].status = "REFUND_REQUIRED"
    /\ worker' = [worker EXCEPT ![w] = [pc |-> "refund_read", attempt |-> a, origin |-> "admin"]]
    /\ UNCHANGED <<requestVars, attempt, booking, paymongo, refund>>

\* The process dies: what was committed stays, the rest never happens.
Crash(w) ==
    /\ worker[w] # Idle
    /\ worker' = [worker EXCEPT ![w] = Idle]
    /\ UNCHANGED <<requestVars, attempt, booking, paymongo, refund>>

Step(w) ==
    \/ InitiateAgain(w) \/ CreateIntent(w) \/ CreateIntentFails(w) \/ StoreIntent(w)
    \/ InitiationFailed(w) \/ ResumeInitiation(w) \/ AcknowledgeWebhook(w) \/ ReadIntent(w)
    \/ MarkFailed(w) \/ FinalizeAgain(w) \/ FinalizeRefused(w) \/ FinalizeWithoutHold(w)
    \/ FinalizeBooks(w) \/ RefundRead(w) \/ CreateRefund(w) \/ CreateRefundFails(w)
    \/ RefundStore(w) \/ RefundFail(w)

\* What the seeker does to the request itself.
RequestStep == PauseRequest \/ ReopenRequest \/ CancelRequest

Next ==
    \/ \E o \in Offers : SubmitOffer(o) \/ RejectOffer(o) \/ CreateDirectFromOffer(o)
    \/ \E k \in CashRequests : CreateDirectRequest(k)
    \/ RequestStep \/ DeclineListingInquiry \/ RemoveRequest \/ RestoreRequest
    \/ \E b \in Bookings : ReviewBooking(b) \/ EndBooking(b)
    \/ \E w \in Workers :
          \/ \E t \in Targets : InitiateOnlinePayment(w, t)
          \/ \E a \in Attempts : \/ WebhookPaid(w, a) \/ PaymentReturn(w, a)
                                 \/ RetryPaymentReconciliation(w, a)
          \/ Step(w) \/ Crash(w)
    \/ \E a \in Attempts : \/ SeekerPays(a) \/ SeekerFailsToPay(a) \/ WebhookFailed(a)
                           \/ ExpireStalePaymentAttempt(a) \/ Lapse(a)

Spec == Init /\ [][Next]_vars

\* PayMongo redelivers a paid event until it is acknowledged; a worker goes on
\* unless it crashes, no step crashes every time it is tried, and PayMongo does
\* not refuse a refund forever; time passes and the expiry timer runs.  Strong
\* fairness, because a crash disables the step until the next delivery.
Fairness ==
    /\ \A a \in Attempts :
          LET By(A(_)) == \E w \in Workers : worker[w].attempt = a /\ A(w)
          IN  /\ SF_vars(\E w \in Workers : WebhookPaid(w, a))
              /\ SF_vars(By(FinalizeAgain))
              /\ SF_vars(By(FinalizeRefused) \/ By(FinalizeWithoutHold) \/ By(FinalizeBooks))
              /\ SF_vars(By(RefundRead))
              /\ SF_vars(By(CreateRefund))
              /\ SF_vars(By(RefundStore))
              /\ WF_vars(Lapse(a))
              /\ WF_vars(ExpireStalePaymentAttempt(a))
    /\ \A w \in Workers : WF_vars(Step(w))

FairSpec == Spec /\ Fairness

-----------------------------------------------------------------------------
(* Properties.                                                             *)

\* At most one offer of the request is being paid for or accepted, and the
\* request's status says so: it is PAYMENT_PENDING exactly while an offer is
\* held, an accepted offer keeps it from being open again, and a request in
\* progress has its accepted offer.  The offers and the request are written by
\* nine transactions of five services.
OneSelection ==
    /\ Cardinality(Selected) <= 1
    /\ request = "PAYMENT_PENDING" <=> \E o \in Offers : offer[o] = "PENDING_PAYMENT"
    /\ (\E o \in Offers : offer[o] = "ACCEPTED") => request \in {"IN_PROGRESS", "CLOSED", "CANCELED"}
    /\ request = "IN_PROGRESS" => \E o \in Offers : offer[o] = "ACCEPTED" /\ ActiveBooking(o)

\* An offer is held only while a payment attempt for it is pending, so the
\* expiry timer always finds the hold: no crash, failure or late confirmation
\* leaves the request locked for good.
HoldHasAttempt ==
    \A o \in Offers : offer[o] = "PENDING_PAYMENT" =>
        \E a \in Attempts : attempt[a].target = o /\ attempt[a].status = "PENDING"

\* A seeker never has two bookings at work for one listing, nor ever a second
\* one for the request, whatever mix of cash and online checkouts raced for it:
\* beside a booking of a listing another is at most UNDER_REVIEW, on its way out.
OneActiveBooking ==
    /\ \A l \in Listings : Cardinality({b \in BookingsOf(l) : booking[b] = "active"}) <= 1
    /\ Cardinality({b \in UNION {BookingsOf(o) : o \in Offers} : booking[b] # "none"}) <= 1

\* A payment that bought a booking is never given back by the reconciliation
\* of captured payments, however often PayMongo or the browser reports it (the
\* booking's own cancellation refunds it).
BookedNotRefunded ==
    \A a \in Attempts : booking[a] # "none" => a \notin returned

\* A captured payment is never lost: once its event is acknowledged its attempt
\* has SUCCEEDED and there is the booking it bought, or it was really refunded.
CapturedNotLost ==
    \A a \in Attempts : intent[a] = "succeeded" =>
        \/ <<a, "paid">> \in events
        \/ attempt[a].status = "SUCCEEDED" /\ booking[a] # "none"
        \/ attempt[a].status = "REFUNDED" /\ a \in returned

\* While a payment for one offer is in progress its siblings stay as they are.
SiblingsWait ==
    [][request = "PAYMENT_PENDING" /\ request' = "PAYMENT_PENDING" => UNCHANGED offer]_vars

\* Every captured payment ends as a booking's payment or as a refund.
CapturedSettles ==
    \A a \in Attempts : intent[a] = "succeeded" ~> attempt[a].status \in {"SUCCEEDED", "REFUNDED"}

\* A request locked for a payment is unlocked again or matched.
HoldEnds == request = "PAYMENT_PENDING" ~> request # "PAYMENT_PENDING"

\* A payment attempt as Purchases sees it.
PaymentOf(a) ==
    IF a \in returned THEN "refunded"
    ELSE IF booking[a] # "none" THEN "booked"
    ELSE IF intent[a] = "succeeded" THEN "captured"
    ELSE IF attempt[a].status # "none" THEN "open" ELSE "none"

Sale == INSTANCE Purchases WITH
            Payments <- Attempts,
            target   <- [a \in Attempts |-> attempt[a].target],
            payment  <- [a \in Attempts |-> PaymentOf(a)]

\* The checkout with its retries, crashes, late and repeated reports and
\* competing requests implements Purchases: a captured payment is either given
\* back or buys its booking, never both and never twice, and only for an offer
\* or a listing that is still free.
ImplementsPurchases == Sale!Spec
=============================================================================
