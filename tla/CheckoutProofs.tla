--------------------------- MODULE CheckoutProofs ---------------------------
(***************************************************************************)
(* Theorems about Checkout, for any offers, listings, concurrent requests  *)
(* and number of payment attempts.                                         *)
(***************************************************************************)
EXTENDS Checkout, FiniteSetTheorems, TLAPS

-----------------------------------------------------------------------------
(* The inductive invariants                                                 *)

AttemptType == [status : AttemptStatus, target : Targets \cup {"none"}, late : BOOLEAN, registered : BOOLEAN]
WorkerType == [pc : PCs, attempt : Attempts \cup {0}, origin : {"none", "initiate", "return", "webhook", "admin"}]

\* An attempt that does not exist has nothing ...
AttemptsShaped ==
    \A a \in Attempts :
        /\ attempt[a].status = "none" <=> attempt[a].target = "none"
        /\ attempt[a].status = "none" => booking[a] = "none" /\ ~attempt[a].registered
        /\ <<a, "paid">> \in events \/ <<a, "failed">> \in events => attempt[a].registered

Initiating == {"gateway", "store", "fail"}
Refunding  == {"refund_read", "refund_call", "refund_store", "refund_fail"}

\* ... and nobody works on it, nor refunds one that still has its hold.
WorkersShaped ==
    \A w \in Workers :
        worker[w] # Idle => /\ worker[w].pc # "idle" /\ worker[w].attempt \in Attempts
                            /\ attempt[worker[w].attempt].status # "none"
                            /\ worker[w].pc \in Refunding => attempt[worker[w].attempt].status # "PENDING"

ShapeInv == AttemptsShaped /\ WorkersShaped

\* Bookings that were made from an offer of the request.
OfferBookings == {b \in Bookings : booking[b] # "none" /\ TargetOf(b) \in Offers}

\* The request follows the one booking that was made from it, and its one
\* selected offer.
RequestInv ==
    /\ \A o, p \in Selected : o = p
    /\ request = "PAYMENT_PENDING" <=> \E o \in Offers : offer[o] = "PENDING_PAYMENT"
    /\ \A b \in OfferBookings :
          /\ offer[TargetOf(b)] = "ACCEPTED" /\ ~removed
          /\ booking[b] \in {"active", "review"} => request = "IN_PROGRESS"
          /\ booking[b] = "completed" => request = "CLOSED"
          /\ booking[b] = "canceled" => request = "CANCELED"
    /\ \A b, c \in OfferBookings : b = c
    /\ \A o \in Offers : offer[o] = "ACCEPTED" => \E b \in OfferBookings : TargetOf(b) = o
    /\ request = "IN_PROGRESS" => OfferBookings # {}
    /\ removed => request = "CANCELED"

ListingInv ==
    \A b, c \in Bookings :
        TargetOf(b) \in Listings /\ TargetOf(c) = TargetOf(b) /\ booking[b] = "active" /\ booking[c] = "active" => b = c

IInv == TypeOK /\ ShapeInv /\ RequestInv /\ ListingInv /\ HoldHasAttempt

\* The payment of attempt a has come to its end.
SettledPayment(a) ==
    \/ attempt[a].status = "SUCCEEDED" /\ booking[a] # "none"
    \/ attempt[a].status = "REFUNDED" /\ a \in returned

\* What is known of an attempt's money ...
Money(a) ==
    /\ attempt[a].status = "SUCCEEDED" <=> booking[a] # "none"
    /\ attempt[a].status \in {"SUCCEEDED", "REFUND_REQUIRED", "REFUNDED"} => intent[a] = "succeeded"
    /\ attempt[a].status = "REFUNDED" => a \in returned
    /\ a \in returned => attempt[a].status \in {"REFUND_REQUIRED", "REFUNDED"}
    /\ refund[a] = "DONE" => attempt[a].status = "REFUNDED"
    /\ <<a, "paid">> \in events => intent[a] = "succeeded"
    /\ intent[a] = "succeeded" => attempt[a].registered /\ (<<a, "paid">> \in events \/ SettledPayment(a))

MoneyInv == \A a \in Attempts : Money(a)

\* ... and of the workers: only one of them initiates a payment for a target,
\* and nobody can pay before it is through.
PaymentWorker(w) ==
    LET a == worker[w].attempt
    IN  /\ worker[w].pc \in Initiating => ~attempt[a].registered
        /\ worker[w].pc \in Initiating \cup {"prepare", "resume"} => worker[w].origin = "initiate"
        /\ worker[w].pc \in {"finalize", "ack"} \cup Refunding => intent[a] = "succeeded"
        /\ worker[w].pc \in Refunding => attempt[a].status \in {"REFUND_REQUIRED", "REFUNDED"}
        /\ worker[w].pc = "refund_store" => a \in returned
        /\ worker[w].pc = "ack" => SettledPayment(a)
        /\ worker[w].origin = "webhook" => worker[w].pc \in {"finalize", "ack"} \cup Refunding

OneCheckout ==
    \A v, w \in Workers :
        /\ worker[v].origin = "initiate" /\ worker[w].origin = "initiate"
        /\ attempt[worker[v].attempt].target = attempt[worker[w].attempt].target
        => v = w

PaymentInv == MoneyInv /\ OneCheckout /\ \A w \in Workers : worker[w] # Idle => PaymentWorker(w)

-----------------------------------------------------------------------------
(* What the steps are made of                                               *)

\* Only worker w takes a step.
WorkerStep(w) == worker' \in [Workers -> WorkerType] /\ \A v \in Workers \ {w} : worker'[v] = worker[v]

\* Only attempt x changes, and it stays what it is for.
AttemptStep(x) ==
    /\ attempt' \in [Attempts -> AttemptType]
    /\ \A a \in Attempts \ {x} : attempt'[a] = attempt[a]
    /\ attempt'[x].target = attempt[x].target

\* The types of the two function variables with records.
LEMMA Types ==
    ASSUME TypeOK
    PROVE  attempt \in [Attempts -> AttemptType] /\ worker \in [Workers -> WorkerType]
BY DEF TypeOK, AttemptType, WorkerType

\* A worker goes on.
LEMMA GotoStep ==
    ASSUME TypeOK, NEW w \in Workers, NEW pc \in PCs, Goto(w, pc)
    PROVE  /\ WorkerStep(w) /\ worker'[w].pc = pc
           /\ worker'[w].attempt = worker[w].attempt /\ worker'[w].origin = worker[w].origin
<1>1. worker \in [Workers -> WorkerType] /\ worker' = [worker EXCEPT ![w].pc = pc]
  BY Types DEF Goto
<1>2. \A v \in Workers \ {w} : worker'[v] = worker[v]
  BY <1>1
<1>3. /\ worker'[w] \in WorkerType /\ worker'[w].pc = pc
      /\ worker'[w].attempt = worker[w].attempt /\ worker'[w].origin = worker[w].origin
  BY <1>1 DEF WorkerType
<1>4. worker' \in [Workers -> WorkerType]
  <2>1. worker' = [v \in Workers |-> worker'[v]]
    BY <1>1
  <2>2. \A v \in Workers : worker'[v] \in WorkerType
    BY <1>1, <1>2, <1>3
  <2>3. QED
    BY <2>1, <2>2
<1>5. QED
  BY <1>2, <1>3, <1>4 DEF WorkerStep

\* A worker is given a new task, or none.
LEMMA TaskStep ==
    ASSUME TypeOK, NEW w \in Workers, NEW n \in WorkerType, worker' = [worker EXCEPT ![w] = n]
    PROVE  WorkerStep(w) /\ worker'[w] = n
BY Types DEF WorkerStep

\* A worker returns to whoever called.
LEMMA ReturnStep ==
    ASSUME TypeOK, NEW w \in Workers, Return(w)
    PROVE  /\ WorkerStep(w)
           /\ \/ worker'[w] = Idle
              \/ /\ worker'[w].attempt = worker[w].attempt /\ worker'[w].origin = worker[w].origin
                 /\ \/ worker[w].origin = "webhook" /\ worker'[w].pc = "ack"
                    \/ worker[w].origin = "initiate" /\ worker'[w].pc = "resume"
<1> DEFINE r == worker[w]
<1>1. worker \in [Workers -> WorkerType] /\ r \in WorkerType
  BY Types
<1>2. worker' = [worker EXCEPT ![w] = CASE r.origin = "webhook"  -> [r EXCEPT !.pc = "ack"]
                                         [] r.origin = "initiate" -> [r EXCEPT !.pc = "resume"]
                                         [] OTHER                 -> Idle]
  BY Zenon DEF Return
<1>3. Idle \in WorkerType
  BY DEF Idle, WorkerType, PCs
<1>4. ASSUME NEW n, n = CASE r.origin = "webhook"  -> [r EXCEPT !.pc = "ack"]
                          [] r.origin = "initiate" -> [r EXCEPT !.pc = "resume"]
                          [] OTHER                 -> Idle
      PROVE  /\ n \in WorkerType
             /\ \/ n = Idle
                \/ /\ n.attempt = r.attempt /\ n.origin = r.origin
                   /\ (r.origin = "webhook" /\ n.pc = "ack") \/ (r.origin = "initiate" /\ n.pc = "resume")
  <2> HIDE DEF r
  <2>1. CASE r.origin = "webhook"
    <3>1. n = [r EXCEPT !.pc = "ack"]
      BY <1>4, <2>1
    <3>2. n \in WorkerType /\ n.pc = "ack" /\ n.attempt = r.attempt /\ n.origin = r.origin
      BY <1>1, <3>1 DEF WorkerType, PCs
    <3>3. QED
      BY <2>1, <3>2
  <2>2. CASE r.origin = "initiate"
    <3>1. n = [r EXCEPT !.pc = "resume"]
      BY <1>4, <2>2
    <3>2. n \in WorkerType /\ n.pc = "resume" /\ n.attempt = r.attempt /\ n.origin = r.origin
      BY <1>1, <3>1 DEF WorkerType, PCs
    <3>3. QED
      BY <2>2, <3>2
  <2>3. CASE r.origin # "webhook" /\ r.origin # "initiate"
    BY <1>3, <1>4, <2>3
  <2>4. QED
    BY <2>1, <2>2, <2>3
<1>5. PICK n : n = CASE r.origin = "webhook"  -> [r EXCEPT !.pc = "ack"]
                     [] r.origin = "initiate" -> [r EXCEPT !.pc = "resume"]
                     [] OTHER                 -> Idle
  OBVIOUS
<1>6. worker' = [worker EXCEPT ![w] = n]
  BY <1>2, <1>5, Zenon
<1>7. /\ n \in WorkerType
      /\ \/ n = Idle
         \/ /\ n.attempt = r.attempt /\ n.origin = r.origin
            /\ (r.origin = "webhook" /\ n.pc = "ack") \/ (r.origin = "initiate" /\ n.pc = "resume")
  BY <1>4, <1>5, Zenon
<1>8. WorkerStep(w) /\ worker'[w] = n
  BY <1>6, <1>7, TaskStep
<1>9. QED
  BY <1>7, <1>8

\* An attempt takes another status.
LEMMA StatusStep ==
    ASSUME TypeOK, NEW a \in Attempts, NEW s \in AttemptStatus, SetStatus(a, s)
    PROVE  AttemptStep(a) /\ attempt'[a].status = s /\ attempt'[a].registered = attempt[a].registered
<1>1. attempt \in [Attempts -> AttemptType] /\ attempt' = [attempt EXCEPT ![a].status = s]
  BY Types DEF SetStatus
<1>2. \A b \in Attempts \ {a} : attempt'[b] = attempt[b]
  BY <1>1
<1>3. /\ attempt'[a] \in AttemptType /\ attempt'[a].status = s
      /\ attempt'[a].target = attempt[a].target /\ attempt'[a].registered = attempt[a].registered
  BY <1>1 DEF AttemptType
<1>4. attempt' \in [Attempts -> AttemptType]
  <2>1. attempt' = [b \in Attempts |-> attempt'[b]]
    BY <1>1
  <2>2. \A b \in Attempts : attempt'[b] \in AttemptType
    BY <1>1, <1>2, <1>3
  <2>3. QED
    BY <2>1, <2>2
<1>5. QED
  BY <1>2, <1>3, <1>4 DEF AttemptStep

OfferStatus   == {"none", "PENDING", "PENDING_PAYMENT", "ACCEPTED", "REJECTED", "WITHDRAWN"}
RequestStatus == {"OPEN", "PAYMENT_PENDING", "IN_PROGRESS", "CLOSED", "CANCELED"}

\* A stale attempt of target t, swept aside by a new checkout.
Swept(a, t) == attempt[a].target = t /\ attempt[a].status = "PENDING" /\ attempt'[a].status = "EXPIRED"

\* A checkout request for t goes on with attempt x that is still pending.
Reuses(x, t) ==
    /\ attempt'[x] = attempt[x]
    /\ \/ ReleaseOfferHold(t)
       \/ UNCHANGED <<offer, request>> /\ attempt' = attempt

\* A checkout request for t holds its offer and creates attempt x.
Creates(x, t) ==
    /\ attempt[x].status = "none" /\ ~attempt'[x].registered /\ ~ActiveBooking(t)
    /\ t \in Offers => /\ offer' = [offer EXCEPT ![t] = "PENDING_PAYMENT"] /\ request' = "PAYMENT_PENDING"
                       /\ OfferOpen(t) \/ (offer[t] = "PENDING_PAYMENT" /\ request = "PAYMENT_PENDING")
    /\ t \notin Offers => UNCHANGED <<offer, request>>

\* The transaction of initiateOnlinePayment, seen from attempt x it goes on with.
Prepares(w, t, x) ==
    /\ x \in Attempts /\ attempt' \in [Attempts -> AttemptType]
    /\ attempt'[x].target = t /\ attempt'[x].status = "PENDING"
    /\ \A a \in Attempts \ {x} : /\ attempt'[a].target = attempt[a].target
                                 /\ attempt'[a].registered = attempt[a].registered
                                 /\ attempt'[a].status = attempt[a].status \/ Swept(a, t)
    /\ Reuses(x, t) \/ Creates(x, t)
    /\ WorkerStep(w) /\ worker'[w].attempt = x /\ worker'[w].origin = "initiate"
    /\ \/ worker'[w].pc = "return"
       \/ worker'[w].pc = "gateway" /\ ~attempt'[x].registered

\* Every such transaction goes on with some attempt.
LEMMA Preparing ==
    ASSUME TypeOK, NEW w \in Workers, NEW t \in Targets, PrepareTransaction(w, t)
    PROVE  \E x \in Attempts : Prepares(w, t, x)
<1> DEFINE stale == {a \in Attempts : attempt[a].target = t /\ attempt[a].status = "PENDING" /\ attempt[a].late}
           live  == {a \in Attempts : attempt[a].target = t /\ attempt[a].status = "PENDING" /\ ~attempt[a].late}
           fresh == {a \in Attempts : attempt[a].status = "none"}
           swept == [a \in Attempts |-> IF a \in stale THEN [attempt[a] EXCEPT !.status = "EXPIRED"]
                                                       ELSE attempt[a]]
           task(x) == [pc |-> IF attempt[x].registered THEN "return" ELSE "gateway", attempt |-> x, origin |-> "initiate"]
<1>1. attempt \in [Attempts -> AttemptType] /\ worker \in [Workers -> WorkerType]
  BY Types
<1>2. /\ swept \in [Attempts -> AttemptType]
      /\ \A a \in Attempts : /\ swept[a].target = attempt[a].target
                             /\ swept[a].registered = attempt[a].registered
      /\ \A a \in Attempts \ stale : swept[a] = attempt[a]
      /\ \A a \in stale : attempt[a].target = t /\ attempt[a].status = "PENDING" /\ swept[a].status = "EXPIRED"
  <2>1. \A r \in AttemptType : LET e == [r EXCEPT !.status = "EXPIRED"]
                               IN  e \in AttemptType /\ e.target = r.target /\ e.registered = r.registered /\ e.status = "EXPIRED"
    BY DEF AttemptType, AttemptStatus
  <2>2. \A a \in stale : swept[a] = [attempt[a] EXCEPT !.status = "EXPIRED"]
    BY <1>1
  <2>3. \A a \in Attempts \ stale : swept[a] = attempt[a]
    BY <1>1
  <2>4. \A a \in stale : /\ swept[a] \in AttemptType /\ swept[a].target = attempt[a].target
                         /\ swept[a].registered = attempt[a].registered /\ swept[a].status = "EXPIRED"
    <3> SUFFICES ASSUME NEW a \in stale
                 PROVE  /\ swept[a] \in AttemptType /\ swept[a].target = attempt[a].target
                        /\ swept[a].registered = attempt[a].registered /\ swept[a].status = "EXPIRED"
      OBVIOUS
    <3>1. attempt[a] \in AttemptType /\ swept[a] = [attempt[a] EXCEPT !.status = "EXPIRED"]
      BY <1>1, <2>2
    <3> HIDE DEF swept, stale
    <3>2. QED
      BY <2>1, <3>1, Zenon
  <2>5. \A a \in stale : attempt[a].target = t /\ attempt[a].status = "PENDING"
    OBVIOUS
  <2>6. swept = [a \in Attempts |-> swept[a]] /\ stale \subseteq Attempts
    OBVIOUS
  <2> HIDE DEF swept, stale
  <2>7. \A a \in Attempts : swept[a] \in AttemptType
    BY <1>1, <2>3, <2>4, <2>6
  <2>8. swept \in [Attempts -> AttemptType]
    BY <2>6, <2>7
  <2>9. QED
    BY <2>3, <2>4, <2>5, <2>8
<1>3. ASSUME NEW x \in live,
             IF stale = {} THEN UNCHANGED <<offer, request>> ELSE ReleaseOfferHold(t),
             attempt' = swept, worker' = [worker EXCEPT ![w] = task(x)]
      PROVE  Prepares(w, t, x)
  <2>1. x \in Attempts \ stale /\ attempt[x].target = t /\ attempt[x].status = "PENDING"
    OBVIOUS
  <2>2. stale = {} => swept = attempt
    BY <1>1
  <2>3. /\ task(x) \in WorkerType /\ task(x).attempt = x /\ task(x).origin = "initiate"
        /\ task(x).pc = "return" \/ (task(x).pc = "gateway" /\ ~attempt[x].registered)
    BY <2>1 DEF WorkerType, PCs
  <2> HIDE DEF swept, stale, task
  <2>4. WorkerStep(w) /\ worker'[w] = task(x)
    BY <1>3, <2>3, TaskStep
  <2>5. Reuses(x, t)
    BY <1>2, <1>3, <2>1, <2>2 DEF Reuses
  <2>6. \A a \in Attempts : attempt'[a].status = attempt[a].status \/ Swept(a, t)
    BY <1>2, <1>3 DEF Swept
  <2>7. QED
    BY <1>2, <1>3, <2>1, <2>3, <2>4, <2>5, <2>6 DEF Prepares
<1>4. ASSUME live = {}, ~ActiveBooking(t),
             t \in Offers => OfferOpen(t) \/ (stale # {} /\ t \in Offers /\ offer[t] = "PENDING_PAYMENT" /\ request = "PAYMENT_PENDING"),
             NEW x \in fresh,
             attempt' = [swept EXCEPT ![x] = [status |-> "PENDING", target |-> t, late |-> FALSE, registered |-> FALSE]],
             worker' = [worker EXCEPT ![w] = [pc |-> "gateway", attempt |-> x, origin |-> "initiate"]],
             IF t \in Offers
             THEN offer' = [offer EXCEPT ![t] = "PENDING_PAYMENT"] /\ request' = "PAYMENT_PENDING"
             ELSE UNCHANGED <<offer, request>>
      PROVE  Prepares(w, t, x)
  <2> DEFINE n == [status |-> "PENDING", target |-> t, late |-> FALSE, registered |-> FALSE]
             k == [pc |-> "gateway", attempt |-> x, origin |-> "initiate"]
  <2>1. x \in Attempts /\ attempt[x].status = "none"
    OBVIOUS
  <2>2. n \in AttemptType /\ n.status = "PENDING" /\ n.target = t /\ ~n.registered
    BY DEF AttemptType, AttemptStatus
  <2>3. k \in WorkerType /\ k.attempt = x /\ k.origin = "initiate" /\ k.pc = "gateway"
    BY <2>1 DEF WorkerType, PCs
  <2>4. attempt' = [swept EXCEPT ![x] = n] /\ worker' = [worker EXCEPT ![w] = k]
    BY <1>4
  <2> HIDE DEF swept, stale, n, k
  <2>5. attempt' \in [Attempts -> AttemptType] /\ attempt'[x] = n /\ \A a \in Attempts \ {x} : attempt'[a] = swept[a]
    BY <1>2, <2>1, <2>2, <2>4
  <2>6. WorkerStep(w) /\ worker'[w] = k
    BY <2>3, <2>4, TaskStep
  <2>7. Creates(x, t)
    BY <1>4, <2>1, <2>2, <2>5 DEF Creates
  <2>8. \A a \in Attempts \ {x} : attempt'[a].status = attempt[a].status \/ Swept(a, t)
    BY <1>2, <2>5 DEF Swept
  <2>9. QED
    BY <1>2, <2>1, <2>2, <2>3, <2>5, <2>6, <2>7, <2>8 DEF Prepares
<1>5. \/ \E x \in live : /\ IF stale = {} THEN UNCHANGED <<offer, request>> ELSE ReleaseOfferHold(t)
                         /\ attempt' = swept /\ worker' = [worker EXCEPT ![w] = task(x)]
      \/ /\ live = {} /\ ~ActiveBooking(t)
         /\ t \in Offers => OfferOpen(t) \/ (stale # {} /\ t \in Offers /\ offer[t] = "PENDING_PAYMENT" /\ request = "PAYMENT_PENDING")
         /\ \E x \in fresh :
               /\ attempt' = [swept EXCEPT ![x] = [status |-> "PENDING", target |-> t, late |-> FALSE, registered |-> FALSE]]
               /\ worker' = [worker EXCEPT ![w] = [pc |-> "gateway", attempt |-> x, origin |-> "initiate"]]
         /\ IF t \in Offers
            THEN offer' = [offer EXCEPT ![t] = "PENDING_PAYMENT"] /\ request' = "PAYMENT_PENDING"
            ELSE UNCHANGED <<offer, request>>
  BY Zenon DEF PrepareTransaction
<1>6. live \subseteq Attempts /\ fresh \subseteq Attempts
  OBVIOUS
<1> HIDE DEF stale, live, fresh, swept, task
<1>7. QED
  BY <1>3, <1>4, <1>5, <1>6, Zenon

-----------------------------------------------------------------------------
(* The request, its offers and the bookings made from them                  *)

\* What releaseOfferHold does to the offers and the request.
LEMMA Releases ==
    ASSUME TypeOK, NEW t, ReleaseOfferHold(t) \/ UNCHANGED <<offer, request>>
    PROVE  /\ offer' \in [Offers -> OfferStatus] /\ request' \in RequestStatus
           /\ \A o \in Offers : \/ offer'[o] = offer[o]
                                \/ o = t /\ offer[o] = "PENDING_PAYMENT" /\ offer'[o] = "PENDING"
           /\ \/ UNCHANGED <<offer, request>>
              \/ /\ t \in Offers /\ offer[t] = "PENDING_PAYMENT" /\ offer'[t] = "PENDING"
                 /\ request' = IF request = "PAYMENT_PENDING" THEN "OPEN" ELSE request
           /\ ReleaseOfferHold(t) /\ t \in Offers => offer'[t] # "PENDING_PAYMENT"
<1>1. offer \in [Offers -> OfferStatus] /\ request \in RequestStatus
  BY DEF TypeOK, OfferStatus, RequestStatus
<1>2. CASE UNCHANGED <<offer, request>> /\ ~(ReleaseOfferHold(t) /\ t \in Offers)
  BY <1>1, <1>2
<1>3. CASE ReleaseOfferHold(t)
  <2>1. CASE t \in Offers /\ offer[t] = "PENDING_PAYMENT"
    <3>1. /\ offer' = [offer EXCEPT ![t] = "PENDING"]
          /\ request' = IF request = "PAYMENT_PENDING" THEN "OPEN" ELSE request
      BY <1>3, <2>1 DEF ReleaseOfferHold
    <3>2. "PENDING" \in OfferStatus /\ request' \in RequestStatus
      BY <1>1, <3>1 DEF OfferStatus, RequestStatus
    <3>3. offer' \in [Offers -> OfferStatus] /\ offer'[t] = "PENDING" /\ \A o \in Offers \ {t} : offer'[o] = offer[o]
      BY <1>1, <2>1, <3>1, <3>2
    <3>4. QED
      BY <2>1, <3>1, <3>2, <3>3
  <2>2. CASE ~(t \in Offers /\ offer[t] = "PENDING_PAYMENT")
    <3>1. offer' = offer /\ request' = request
      BY <1>3, <2>2 DEF ReleaseOfferHold
    <3>2. QED
      BY <1>1, <2>2, <3>1
  <2>3. QED
    BY <2>1, <2>2
<1>4. QED
  BY <1>2, <1>3

\* Bookings stay what they were made from.
LEMMA BookingsKept ==
    ASSUME booking' = booking, \A a \in Attempts : booking[a] # "none" => attempt'[a].target = attempt[a].target
    PROVE  /\ OfferBookings' = OfferBookings
           /\ \A b \in OfferBookings : TargetOf(b)' = TargetOf(b)
           /\ ListingInv => ListingInv'
<1>1. \A b \in Bookings : booking[b] # "none" => TargetOf(b)' = TargetOf(b)
  BY DEF TargetOf
<1>2. OfferBookings' = OfferBookings /\ \A b \in OfferBookings : TargetOf(b)' = TargetOf(b)
  BY <1>1 DEF OfferBookings
<1>3. ListingInv => ListingInv'
  BY <1>1 DEF ListingInv
<1>4. QED
  BY <1>2, <1>3

\* Whoever releases a hold leaves the request in agreement with its offers.
LEMMA RequestReleased ==
    ASSUME TypeOK, RequestInv, ListingInv, UNCHANGED <<removed, booking>>,
           \A a \in Attempts : booking[a] # "none" => attempt'[a].target = attempt[a].target,
           NEW t, ReleaseOfferHold(t) \/ UNCHANGED <<offer, request>>
    PROVE  RequestInv' /\ ListingInv'
<1>1. /\ \A o \in Offers : \/ offer'[o] = offer[o]
                           \/ o = t /\ offer[o] = "PENDING_PAYMENT" /\ offer'[o] = "PENDING"
      /\ \/ UNCHANGED <<offer, request>>
         \/ /\ t \in Offers /\ offer[t] = "PENDING_PAYMENT" /\ offer'[t] = "PENDING"
            /\ request' = IF request = "PAYMENT_PENDING" THEN "OPEN" ELSE request
  BY Releases
<1>2. /\ OfferBookings' = OfferBookings /\ ListingInv'
      /\ \A b \in OfferBookings : TargetOf(b)' = TargetOf(b)
  BY BookingsKept
<1>3. CASE UNCHANGED <<offer, request>>
  <2>1. Selected' = Selected
    BY <1>3 DEF Selected
  <2>2. QED
    BY <1>2, <1>3, <2>1 DEF RequestInv
<1>4. CASE /\ t \in Offers /\ offer[t] = "PENDING_PAYMENT" /\ offer'[t] = "PENDING"
           /\ request' = IF request = "PAYMENT_PENDING" THEN "OPEN" ELSE request
  <2>1. request = "PAYMENT_PENDING" /\ request' = "OPEN" /\ Selected = {t} /\ OfferBookings = {} /\ ~removed
    BY <1>4 DEF RequestInv, Selected, OfferBookings
  <2>2. Selected' = {} /\ \A o \in Offers : offer'[o] # "PENDING_PAYMENT" /\ offer'[o] # "ACCEPTED"
    BY <1>1, <1>4, <2>1 DEF Selected
  <2>3. QED
    BY <1>2, <2>1, <2>2 DEF RequestInv
<1>5. QED
  BY <1>1, <1>3, <1>4

\* The hold of an offer goes with the attempt it was for.
LEMMA HoldReleased ==
    ASSUME TypeOK, HoldHasAttempt, NEW x \in Attempts, AttemptStep(x),
           \/ ReleaseOfferHold(attempt[x].target)
           \/ UNCHANGED <<offer, request>> /\ (attempt[x].status = "PENDING" => attempt'[x].status = "PENDING")
    PROVE  HoldHasAttempt'
<1> DEFINE t == attempt[x].target
<1>1. /\ \A o \in Offers : \/ offer'[o] = offer[o]
                           \/ o = t /\ offer[o] = "PENDING_PAYMENT" /\ offer'[o] = "PENDING"
      /\ ReleaseOfferHold(t) /\ t \in Offers => offer'[t] # "PENDING_PAYMENT"
  BY Releases
<1>2. SUFFICES ASSUME NEW o \in Offers, offer'[o] = "PENDING_PAYMENT"
               PROVE  \E a \in Attempts : attempt'[a].target = o /\ attempt'[a].status = "PENDING"
  BY DEF HoldHasAttempt
<1>3. PICK a \in Attempts : attempt[a].target = o /\ attempt[a].status = "PENDING"
  BY <1>1, <1>2 DEF HoldHasAttempt
<1>4. CASE a # x
  BY <1>3, <1>4 DEF AttemptStep
<1>5. CASE a = x
  BY <1>1, <1>2, <1>3, <1>5 DEF AttemptStep
<1>6. QED
  BY <1>4, <1>5

\* The rows as they were.
RowsUnchanged == UNCHANGED <<requestVars, attempt, booking>>

\* A step that leaves the rows alone keeps what is known of them.
LEMMA RowsKept ==
    ASSUME RequestInv, ListingInv, HoldHasAttempt, RowsUnchanged
    PROVE  RequestInv' /\ ListingInv' /\ HoldHasAttempt'
BY DEF RowsUnchanged, requestVars, RequestInv, ListingInv, HoldHasAttempt, OfferBookings, TargetOf, Selected

\* An attempt is no longer what it was: its hold is released, and the rest of
\* the rows agree as before.
LEMMA AttemptMoves ==
    ASSUME TypeOK, RequestInv, ListingInv, HoldHasAttempt, NEW x \in Attempts, AttemptStep(x),
           UNCHANGED <<removed, booking>>,
           \/ ReleaseOfferHold(attempt[x].target)
           \/ UNCHANGED <<offer, request>> /\ (attempt[x].status = "PENDING" => attempt'[x].status = "PENDING")
    PROVE  /\ RequestInv' /\ ListingInv' /\ HoldHasAttempt'
           /\ offer' \in [Offers -> OfferStatus] /\ request' \in RequestStatus
<1>1. \A a \in Attempts : attempt'[a].target = attempt[a].target
  BY DEF AttemptStep
<1>2. RequestInv' /\ ListingInv'
  BY <1>1, RequestReleased
<1>3. HoldHasAttempt'
  BY HoldReleased
<1>4. offer' \in [Offers -> OfferStatus] /\ request' \in RequestStatus
  BY Releases
<1>5. QED
  BY <1>2, <1>3, <1>4

\* A request with a booking or a selected offer is not open.
LEMMA OpenIsFree ==
    ASSUME TypeOK, RequestInv, request = "OPEN"
    PROVE  OfferBookings = {} /\ Selected = {} /\ ~removed
<1>1. ASSUME NEW b \in OfferBookings PROVE FALSE
  <2>1. booking[b] \in {"active", "review", "completed", "canceled"}
    BY DEF TypeOK, OfferBookings
  <2>2. QED
    BY <2>1 DEF RequestInv
<1>2. OfferBookings = {}
  BY <1>1
<1>3. QED
  BY <1>2 DEF RequestInv, Selected

\* The checkout of target t takes the hold for attempt x.
LEMMA PrepareRows ==
    ASSUME TypeOK, ShapeInv, RequestInv, ListingInv, HoldHasAttempt, UNCHANGED <<removed, booking>>,
           NEW w \in Workers, NEW t \in Targets, NEW x \in Attempts, Prepares(w, t, x)
    PROVE  /\ RequestInv' /\ ListingInv' /\ HoldHasAttempt'
           /\ offer' \in [Offers -> OfferStatus] /\ request' \in RequestStatus
<1>1. /\ attempt'[x].target = t /\ attempt'[x].status = "PENDING"
      /\ \A a \in Attempts \ {x} : /\ attempt'[a].target = attempt[a].target
                                   /\ attempt'[a].status = attempt[a].status \/ Swept(a, t)
  BY DEF Prepares
<1>2. CASE Reuses(x, t)
  <2>1. /\ attempt'[x] = attempt[x]
        /\ ReleaseOfferHold(t) \/ (UNCHANGED <<offer, request>> /\ attempt' = attempt)
    BY <1>2 DEF Reuses
  <2>2. \A a \in Attempts : attempt'[a].target = attempt[a].target
    BY <1>1, <2>1
  <2>3. RequestInv' /\ ListingInv'
    BY <2>1, <2>2, RequestReleased
  <2>4. /\ offer' \in [Offers -> OfferStatus] /\ request' \in RequestStatus
        /\ \A o \in Offers : \/ offer'[o] = offer[o]
                             \/ o = t /\ offer[o] = "PENDING_PAYMENT" /\ offer'[o] = "PENDING"
    BY <2>1, Releases
  <2>5. HoldHasAttempt'
    <3> SUFFICES ASSUME NEW o \in Offers, offer'[o] = "PENDING_PAYMENT"
                 PROVE  \E a \in Attempts : attempt'[a].target = o /\ attempt'[a].status = "PENDING"
      BY DEF HoldHasAttempt
    <3>1. PICK a \in Attempts : attempt[a].target = o /\ attempt[a].status = "PENDING"
      BY <2>4 DEF HoldHasAttempt
    <3>2. CASE o = t
      BY <1>1, <3>2
    <3>3. CASE o # t
      BY <1>1, <2>1, <3>1, <3>3 DEF Swept
    <3>4. QED
      BY <3>2, <3>3
  <2>6. QED
    BY <2>3, <2>4, <2>5
<1>3. CASE Creates(x, t)
  <2>1. /\ attempt[x].status = "none" /\ ~ActiveBooking(t) /\ booking[x] = "none"
        /\ t \in Offers => /\ offer' = [offer EXCEPT ![t] = "PENDING_PAYMENT"] /\ request' = "PAYMENT_PENDING"
                           /\ OfferOpen(t) \/ (offer[t] = "PENDING_PAYMENT" /\ request = "PAYMENT_PENDING")
        /\ t \notin Offers => UNCHANGED <<offer, request>>
    BY <1>3 DEF Creates, ShapeInv, AttemptsShaped
  <2>2. \A a \in Attempts : booking[a] # "none" => attempt'[a].target = attempt[a].target
    BY <1>1, <2>1
  <2>3. /\ OfferBookings' = OfferBookings /\ ListingInv'
        /\ \A b \in OfferBookings : TargetOf(b)' = TargetOf(b)
    BY <2>2, BookingsKept
  <2>4. offer \in [Offers -> OfferStatus] /\ request \in RequestStatus /\ "PENDING_PAYMENT" \in OfferStatus
        /\ "PAYMENT_PENDING" \in RequestStatus
    BY DEF TypeOK, OfferStatus, RequestStatus
  <2>5. CASE t \notin Offers
    <3>1. RequestInv'
      BY <2>1, <2>2, <2>5, RequestReleased
    <3>2. HoldHasAttempt'
      <4> SUFFICES ASSUME NEW o \in Offers, offer[o] = "PENDING_PAYMENT"
                   PROVE  \E a \in Attempts : attempt'[a].target = o /\ attempt'[a].status = "PENDING"
        BY <2>1, <2>5 DEF HoldHasAttempt
      <4>1. PICK a \in Attempts : attempt[a].target = o /\ attempt[a].status = "PENDING"
        BY DEF HoldHasAttempt
      <4>2. QED
        BY <1>1, <2>1, <2>5, <4>1 DEF Swept
    <3>3. QED
      BY <2>1, <2>3, <2>4, <2>5, <3>1, <3>2
  <2>6. CASE t \in Offers
    <3>1. OfferBookings = {} /\ ~removed /\ Selected \subseteq {t}
      <4>1. CASE OfferOpen(t)
        BY <4>1, OpenIsFree DEF OfferOpen
      <4>2. CASE offer[t] = "PENDING_PAYMENT" /\ request = "PAYMENT_PENDING"
        BY <2>6, <4>2 DEF RequestInv, Selected, OfferBookings
      <4>3. QED
        BY <2>1, <2>6, <4>1, <4>2
    <3>2. /\ offer' \in [Offers -> OfferStatus] /\ offer'[t] = "PENDING_PAYMENT" /\ request' = "PAYMENT_PENDING"
          /\ \A o \in Offers \ {t} : offer'[o] = offer[o]
      BY <2>1, <2>4, <2>6
    <3>3. Selected' = {t} /\ \A o \in Offers : offer'[o] # "ACCEPTED"
      BY <2>6, <3>1, <3>2 DEF Selected
    <3>4. RequestInv'
      BY <2>3, <2>6, <3>1, <3>2, <3>3 DEF RequestInv
    <3>5. HoldHasAttempt'
      BY <1>1, <3>3 DEF HoldHasAttempt, Selected
    <3>6. QED
      BY <2>3, <2>4, <3>2, <3>4, <3>5
  <2>7. QED
    BY <2>5, <2>6
<1>4. QED
  BY <1>2, <1>3 DEF Prepares

\* A request without a booking changes hands: its offers that were neither held
\* nor accepted still are not.
LEMMA FreeRequestMoves ==
    ASSUME TypeOK, RequestInv, ListingInv, UNCHANGED <<attempt, booking>>,
           OfferBookings = {}, Selected = {},
           \A o \in Offers : offer'[o] \notin {"PENDING_PAYMENT", "ACCEPTED"},
           request' \in {"OPEN", "CLOSED", "CANCELED"}, removed' => request' = "CANCELED"
    PROVE  RequestInv' /\ ListingInv' /\ HoldHasAttempt'
<1>1. OfferBookings' = OfferBookings /\ ListingInv'
  BY BookingsKept
<1>2. Selected' = {}
  BY DEF Selected
<1>3. RequestInv'
  BY <1>1, <1>2 DEF RequestInv, Selected
<1>4. HoldHasAttempt'
  BY DEF HoldHasAttempt
<1>5. QED
  BY <1>1, <1>3, <1>4

\* A request that is closed without a match has no booking.
LEMMA UnmatchedIsFree ==
    ASSUME TypeOK, ShapeInv, RequestInv, request # "CANCELED" \/ removed, ~Matched
    PROVE  OfferBookings = {} /\ (request # "PAYMENT_PENDING" => Selected = {})
<1>1. ASSUME NEW b \in OfferBookings PROVE FALSE
  <2>1. booking[b] # "none" /\ b \in Bookings /\ TargetOf(b) \in Offers /\ ~removed /\ request # "CANCELED"
    BY DEF OfferBookings, RequestInv
  <2>2. booking[b] \in {"active", "review", "completed"}
    BY <2>1 DEF TypeOK, RequestInv
  <2>3. b \in BookingsOf(TargetOf(b))
    BY <2>1 DEF BookingsOf, TargetOf
  <2>4. QED
    BY <2>1, <2>2, <2>3 DEF Matched
<1>2. OfferBookings = {}
  BY <1>1
<1>3. QED
  BY <1>2 DEF RequestInv, Selected

\* A booking is made from offer o, which nothing stands beside.
LEMMA OfferBooked ==
    ASSUME TypeOK, RequestInv, ListingInv, OfferBookings = {}, ~removed, removed' = removed,
           NEW o \in Offers, NEW b \in Bookings, TargetOf(b) = o,
           \A p \in Offers \ {o} : offer[p] \notin {"PENDING_PAYMENT", "ACCEPTED"},
           \A a \in Attempts : attempt'[a].target = attempt[a].target,
           offer' = RejectSiblings(o), request' = "IN_PROGRESS", booking' = [booking EXCEPT ![b] = "active"]
    PROVE  /\ RequestInv' /\ ListingInv' /\ HoldHasAttempt'
           /\ offer' \in [Offers -> OfferStatus] /\ request' \in RequestStatus
<1>1. /\ offer \in [Offers -> OfferStatus] /\ booking \in [Bookings -> {"none", "active", "review", "completed", "canceled"}]
      /\ o \notin Listings
  BY TargetsAssumption DEF TypeOK, OfferStatus
<1>2. /\ offer' \in [Offers -> OfferStatus] /\ offer'[o] = "ACCEPTED"
      /\ \A p \in Offers \ {o} : offer'[p] \notin {"PENDING_PAYMENT", "ACCEPTED"}
  BY <1>1 DEF RejectSiblings, OfferStatus
<1>3. \A c \in Bookings : TargetOf(c)' = TargetOf(c)
  BY DEF TargetOf
<1>4. booking'[b] = "active" /\ \A c \in Bookings \ {b} : booking'[c] = booking[c]
  BY <1>1
<1>5. OfferBookings' = {b}
  BY <1>3, <1>4 DEF OfferBookings
<1>6. Selected' = {o}
  BY <1>2 DEF Selected
<1>7. RequestInv'
  BY <1>2, <1>3, <1>4, <1>5, <1>6 DEF RequestInv
<1>8. ListingInv'
  BY <1>1, <1>3, <1>4 DEF ListingInv
<1>9. HoldHasAttempt'
  BY <1>2 DEF HoldHasAttempt
<1>10. QED
  BY <1>2, <1>7, <1>8, <1>9 DEF RequestStatus

\* A booking of a listing is made, the first one at work.
LEMMA ListingBooked ==
    ASSUME TypeOK, RequestInv, ListingInv, UNCHANGED <<offer, request, removed>>,
           NEW b \in Bookings, TargetOf(b) \in Listings, ~BookingAtWork(TargetOf(b)),
           \A a \in Attempts : attempt'[a].target = attempt[a].target,
           booking' = [booking EXCEPT ![b] = "active"]
    PROVE  RequestInv' /\ ListingInv'
<1>1. booking \in [Bookings -> {"none", "active", "review", "completed", "canceled"}] /\ TargetOf(b) \notin Offers
  BY TargetsAssumption DEF TypeOK
<1>2. \A c \in Bookings : TargetOf(c)' = TargetOf(c)
  BY DEF TargetOf
<1>3. booking'[b] = "active" /\ \A c \in Bookings \ {b} : booking'[c] = booking[c]
  BY <1>1
<1>4. /\ OfferBookings' = OfferBookings
      /\ \A c \in OfferBookings : booking'[c] = booking[c] /\ TargetOf(c)' = TargetOf(c)
  BY <1>1, <1>2, <1>3 DEF OfferBookings
<1>5. Selected' = Selected
  BY DEF Selected
<1>6. RequestInv'
  BY <1>4, <1>5 DEF RequestInv
<1>7. \A c \in Bookings : TargetOf(c) = TargetOf(b) => booking[c] # "active"
  BY DEF BookingAtWork, BookingsOf
<1>8. ListingInv'
  BY <1>2, <1>3, <1>7 DEF ListingInv
<1>9. QED
  BY <1>6, <1>8

\* A booking ends, and with it the request it was made from.
LEMMA BookingEnded ==
    ASSUME TypeOK, RequestInv, ListingInv, UNCHANGED <<offer, removed, attempt>>,
           NEW b \in Bookings, booking[b] \in {"active", "review"},
           NEW end \in {"review", "completed", "canceled"},
           booking' = [booking EXCEPT ![b] = end],
           request' = IF TargetOf(b) \notin Offers \/ end = "review" THEN request
                      ELSE IF end = "completed" THEN "CLOSED" ELSE "CANCELED"
    PROVE  RequestInv' /\ ListingInv' /\ (HoldHasAttempt => HoldHasAttempt')
<1>1. booking \in [Bookings -> {"none", "active", "review", "completed", "canceled"}]
  BY DEF TypeOK
<1>2. \A c \in Bookings : TargetOf(c)' = TargetOf(c)
  BY DEF TargetOf
<1>3. booking'[b] = end /\ \A c \in Bookings \ {b} : booking'[c] = booking[c]
  BY <1>1
<1>4. OfferBookings' = OfferBookings /\ \A c \in OfferBookings : TargetOf(c)' = TargetOf(c)
  BY <1>2, <1>3 DEF OfferBookings
<1>5. ListingInv'
  BY <1>2, <1>3 DEF ListingInv
<1>6. Selected' = Selected
  BY DEF Selected
<1>7. CASE TargetOf(b) \notin Offers
  <2>1. b \notin OfferBookings /\ request' = request
    BY <1>7 DEF OfferBookings
  <2>2. \A c \in OfferBookings : booking'[c] = booking[c]
    BY <1>3, <2>1 DEF OfferBookings
  <2>3. RequestInv'
    BY <1>4, <1>6, <2>1, <2>2 DEF RequestInv
  <2>4. QED
    BY <1>5, <2>3 DEF HoldHasAttempt
<1>8. CASE TargetOf(b) \in Offers
  <2>1. b \in OfferBookings /\ request = "IN_PROGRESS" /\ ~removed /\ offer[TargetOf(b)] = "ACCEPTED"
        /\ OfferBookings = {b}
    BY <1>8 DEF OfferBookings, RequestInv
  <2>2. /\ end = "review" => request' = "IN_PROGRESS"
        /\ end = "completed" => request' = "CLOSED"
        /\ end = "canceled" => request' = "CANCELED"
    BY <1>8, <2>1
  <2>3. \A o \in Offers : offer[o] # "PENDING_PAYMENT"
    BY <2>1 DEF RequestInv
  <2>4. RequestInv'
    BY <1>3, <1>4, <1>6, <2>1, <2>2, <2>3 DEF RequestInv
  <2>5. QED
    BY <1>5, <2>4 DEF HoldHasAttempt
<1>9. QED
  BY <1>7, <1>8

-----------------------------------------------------------------------------
(* The actions                                                              *)

\* Nobody works on an attempt or makes one: what is known of them stays.
LEMMA ShapeQuiet ==
    ASSUME ShapeInv, UNCHANGED <<attempt, worker>>,
           \A a \in Attempts : attempt[a].status = "none" => booking'[a] = booking[a],
           \A a \in Attempts : <<a, "paid">> \in events' \/ <<a, "failed">> \in events' =>
               <<a, "paid">> \in events \/ <<a, "failed">> \in events \/ attempt[a].registered
    PROVE  ShapeInv'
BY DEF ShapeInv, AttemptsShaped, WorkersShaped

\* Everything about a request without bookings, its offers not selected.
LEMMA RequestMoves ==
    ASSUME IInv, UNCHANGED <<inquiry, attempt, booking, paymongo, refund, worker>>,
           OfferBookings = {}, Selected = {}, offer' \in [Offers -> OfferStatus],
           \A o \in Offers : offer'[o] \notin {"PENDING_PAYMENT", "ACCEPTED"},
           request' \in {"OPEN", "CLOSED", "CANCELED"}, removed' \in BOOLEAN, removed' => request' = "CANCELED"
    PROVE  IInv'
<1>1. RequestInv' /\ ListingInv' /\ HoldHasAttempt'
  BY FreeRequestMoves DEF IInv
<1>2. UNCHANGED <<intent, events, returned>>
  BY DEF paymongo
<1>3. ShapeInv'
  BY <1>2, ShapeQuiet DEF IInv
<1>4. TypeOK'
  BY <1>2 DEF IInv, TypeOK, OfferStatus
<1>5. QED
  BY <1>1, <1>3, <1>4 DEF IInv

\* The seeker, the providers and the administrators act on the request.
LEMMA RequestActions ==
    ASSUME IInv, \/ \E o \in Offers : SubmitOffer(o) \/ RejectOffer(o)
                 \/ RequestStep \/ DeclineListingInquiry \/ RemoveRequest \/ RestoreRequest
    PROVE  IInv'
<1>1. /\ TypeOK /\ ShapeInv /\ RequestInv
      /\ offer \in [Offers -> OfferStatus] /\ removed \in BOOLEAN /\ request \in RequestStatus
  BY DEF IInv, TypeOK, OfferStatus, RequestStatus
<1>2. Selected = {} => \A o \in Offers : offer[o] \notin {"PENDING_PAYMENT", "ACCEPTED"}
  BY DEF Selected
<1>3. request = "OPEN" => OfferBookings = {} /\ Selected = {} /\ ~removed
  BY <1>1, OpenIsFree
<1>4. (request # "CANCELED" \/ removed) /\ ~Matched /\ request # "PAYMENT_PENDING" => OfferBookings = {} /\ Selected = {}
  BY <1>1, UnmatchedIsFree
<1> DEFINE rejected == [o \in Offers |-> IF offer[o] = "PENDING" THEN "REJECTED" ELSE offer[o]]
<1>5. /\ rejected \in [Offers -> OfferStatus]
      /\ Selected = {} => \A o \in Offers : rejected[o] \notin {"PENDING_PAYMENT", "ACCEPTED"}
  BY <1>1, <1>2 DEF OfferStatus
<1> HIDE DEF rejected
<1>6. ASSUME NEW o \in Offers, NEW s \in {"PENDING", "WITHDRAWN", "REJECTED"}, offer' = [offer EXCEPT ![o] = s], Selected = {}
      PROVE  /\ offer' \in [Offers -> OfferStatus]
             /\ \A p \in Offers : offer'[p] \notin {"PENDING_PAYMENT", "ACCEPTED"}
  <2>1. s \in OfferStatus
    BY DEF OfferStatus
  <2>2. QED
    BY <1>1, <1>2, <1>6, <2>1
<1>7. ASSUME NEW o \in Offers, SubmitOffer(o) PROVE IInv'
  <2>1. /\ request = "OPEN" /\ request' = request /\ removed' = removed /\ offer' = [offer EXCEPT ![o] = "PENDING"]
        /\ UNCHANGED <<inquiry, attempt, booking, paymongo, refund, worker>>
    BY <1>7 DEF SubmitOffer
  <2>2. QED
    BY <1>1, <1>3, <1>6, <2>1, RequestMoves
<1>8. ASSUME NEW o \in Offers, RejectOffer(o) PROVE IInv'
  <2>1. /\ request = "OPEN" /\ request' \in {"OPEN", "CANCELED"} /\ removed' = removed
        /\ \E s \in {"WITHDRAWN", "REJECTED"} : offer' = [offer EXCEPT ![o] = s]
        /\ UNCHANGED <<inquiry, attempt, booking, paymongo, refund, worker>>
    BY <1>8 DEF RejectOffer, OfferOpen
  <2>2. offer' \in [Offers -> OfferStatus] /\ \A p \in Offers : offer'[p] \notin {"PENDING_PAYMENT", "ACCEPTED"}
    BY <1>3, <1>6, <2>1
  <2>3. QED
    BY <1>1, <1>3, <2>1, <2>2, RequestMoves
<1>9. CASE PauseRequest \/ DeclineListingInquiry
  <2>1. /\ request = "OPEN" /\ request' \in {"CLOSED", "CANCELED"} /\ removed' = removed /\ offer' = offer
        /\ UNCHANGED <<inquiry, attempt, booking, paymongo, refund, worker>>
    BY <1>9 DEF PauseRequest, DeclineListingInquiry
  <2>2. QED
    BY <1>1, <1>2, <1>3, <2>1, RequestMoves
<1>10. CASE ReopenRequest
  <2>1. /\ request = "CLOSED" /\ ~Matched /\ request' = "OPEN" /\ removed' = removed /\ offer' = offer
        /\ UNCHANGED <<inquiry, attempt, booking, paymongo, refund, worker>>
    BY <1>10 DEF ReopenRequest, Reopenable
  <2>2. ~removed
    BY <1>1, <2>1 DEF RequestInv
  <2>3. QED
    BY <1>1, <1>2, <1>4, <2>1, <2>2, RequestMoves
<1>11. CASE CancelRequest
  <2>1. /\ request = "OPEN" /\ request' = "CANCELED" /\ removed' = removed /\ offer' = rejected
        /\ UNCHANGED <<inquiry, attempt, booking, paymongo, refund, worker>>
    BY <1>11 DEF CancelRequest, rejected
  <2>2. QED
    BY <1>1, <1>3, <1>5, <2>1, RequestMoves
<1>12. CASE RemoveRequest
  <2>1. /\ request \in {"OPEN", "CLOSED"} /\ ~Matched /\ request' = "CANCELED" /\ removed' = TRUE /\ offer' = rejected
        /\ UNCHANGED <<inquiry, attempt, booking, paymongo, refund, worker>>
    BY <1>12 DEF RemoveRequest, rejected
  <2>2. QED
    BY <1>4, <1>5, <2>1, RequestMoves
<1>13. CASE RestoreRequest
  <2>1. /\ request = "CANCELED" /\ removed /\ ~Matched /\ request' = "OPEN" /\ removed' = FALSE /\ offer' = offer
        /\ UNCHANGED <<inquiry, attempt, booking, paymongo, refund, worker>>
    BY <1>13 DEF RestoreRequest
  <2>2. QED
    BY <1>1, <1>2, <1>4, <2>1, RequestMoves
<1>14. QED
  BY <1>7, <1>8, <1>9, <1>10, <1>11, <1>12, <1>13 DEF RequestStep

\* A booking is made with cash, or ends.
LEMMA BookingActions ==
    ASSUME IInv, \/ \E o \in Offers : CreateDirectFromOffer(o)
                 \/ \E k \in CashRequests : CreateDirectRequest(k)
                 \/ \E b \in Bookings : ReviewBooking(b) \/ EndBooking(b)
    PROVE  IInv'
<1>1. /\ TypeOK /\ ShapeInv /\ RequestInv /\ ListingInv /\ HoldHasAttempt
      /\ booking \in [Bookings -> {"none", "active", "review", "completed", "canceled"}]
  BY DEF IInv, TypeOK
<1>2. /\ \A o \in Offers : o \in Bookings \ Attempts /\ TargetOf(o) = o
      /\ \A k \in CashRequests : k \in Bookings \ Attempts /\ TargetOf(k) = ListingOf[k] /\ ListingOf[k] \in Listings
  BY TargetsAssumption, ListingOfAssumption DEF Attempts, Bookings, TargetOf
<1>3. ASSUME NEW o \in Offers, CreateDirectFromOffer(o) PROVE IInv'
  <2>1. /\ request = "OPEN" /\ offer' = RejectSiblings(o) /\ request' = "IN_PROGRESS" /\ booking' = [booking EXCEPT ![o] = "active"]
        /\ UNCHANGED <<inquiry, removed, attempt, intent, events, returned, refund, worker>> /\ o \in Targets
    BY <1>3 DEF CreateDirectFromOffer, OfferOpen, paymongo, Targets
  <2>2. OfferBookings = {} /\ ~removed /\ \A p \in Offers : offer[p] \notin {"PENDING_PAYMENT", "ACCEPTED"}
    BY <1>1, <2>1, OpenIsFree DEF Selected
  <2>3. /\ RequestInv' /\ ListingInv' /\ HoldHasAttempt'
        /\ offer' \in [Offers -> OfferStatus] /\ request' \in RequestStatus
    BY <1>1, <1>2, <2>1, <2>2, OfferBooked
  <2>4. booking' \in [Bookings -> {"none", "active", "review", "completed", "canceled"}]
        /\ \A a \in Attempts : booking'[a] = booking[a]
    BY <1>1, <1>2, <2>1
  <2>5. ShapeInv'
    BY <1>1, <2>1, <2>4, ShapeQuiet
  <2>6. TypeOK'
    BY <1>1, <2>1, <2>3, <2>4 DEF TypeOK, OfferStatus, RequestStatus
  <2>7. QED
    BY <2>3, <2>5, <2>6 DEF IInv
<1>4. ASSUME NEW k \in CashRequests, CreateDirectRequest(k) PROVE IInv'
  <2>1. /\ ~BookingAtWork(TargetOf(k)) /\ booking' = [booking EXCEPT ![k] = "active"]
        /\ UNCHANGED <<inquiry, request, removed, offer, attempt, intent, events, returned, refund, worker>>
    BY <1>2, <1>4 DEF CreateDirectRequest, requestVars, paymongo
  <2>2. RequestInv' /\ ListingInv'
    BY <1>1, <1>2, <2>1, ListingBooked
  <2>3. HoldHasAttempt'
    BY <1>1, <2>1 DEF HoldHasAttempt
  <2>4. booking' \in [Bookings -> {"none", "active", "review", "completed", "canceled"}]
        /\ \A a \in Attempts : booking'[a] = booking[a]
    BY <1>1, <1>2, <2>1
  <2>5. ShapeInv'
    BY <1>1, <2>1, <2>4, ShapeQuiet
  <2>6. TypeOK'
    BY <1>1, <2>1, <2>4 DEF TypeOK
  <2>7. QED
    BY <2>2, <2>3, <2>5, <2>6 DEF IInv
<1>5. ASSUME NEW b \in Bookings, ReviewBooking(b) \/ EndBooking(b) PROVE IInv'
  <2>1. PICK end \in {"review", "completed", "canceled"} :
            /\ booking' = [booking EXCEPT ![b] = end]
            /\ request' = IF TargetOf(b) \notin Offers \/ end = "review" THEN request
                          ELSE IF end = "completed" THEN "CLOSED" ELSE "CANCELED"
    <3>1. CASE ReviewBooking(b)
      BY <3>1 DEF ReviewBooking, requestVars
    <3>2. CASE EndBooking(b)
      BY <3>2 DEF EndBooking
    <3>3. QED
      BY <1>5, <3>1, <3>2
  <2>2. /\ booking[b] \in {"active", "review"}
        /\ UNCHANGED <<inquiry, removed, offer, attempt, intent, events, returned, refund, worker>>
    BY <1>5 DEF ReviewBooking, EndBooking, paymongo, requestVars
  <2>3. RequestInv' /\ ListingInv' /\ HoldHasAttempt'
    BY <1>1, <2>1, <2>2, BookingEnded
  <2>4. booking' \in [Bookings -> {"none", "active", "review", "completed", "canceled"}]
        /\ \A a \in Attempts : booking[a] = "none" => booking'[a] = booking[a]
    BY <1>1, <2>1, <2>2
  <2>5. ShapeInv'
    BY <1>1, <2>2, <2>4, ShapeQuiet DEF ShapeInv, AttemptsShaped
  <2>6. request' \in RequestStatus
    BY <1>1, <2>1 DEF TypeOK, RequestStatus
  <2>7. TypeOK'
    BY <1>1, <2>2, <2>4, <2>6 DEF TypeOK, RequestStatus
  <2>8. QED
    BY <2>3, <2>5, <2>7 DEF IInv
<1>6. QED
  BY <1>3, <1>4, <1>5

\* Workers take steps, each on an attempt that exists.
Tasked(v) ==
    worker'[v] # Idle => /\ worker'[v].pc # "idle" /\ worker'[v].attempt \in Attempts
                         /\ attempt[worker'[v].attempt].status # "none"
                         /\ worker'[v].pc \in Refunding => attempt'[worker'[v].attempt].status # "PENDING"

WorkersMove ==
    /\ worker' \in [Workers -> WorkerType]
    /\ \A v \in Workers : worker'[v] = worker[v] \/ Tasked(v)

\* A worker at work has an attempt.
LEMMA AtWork ==
    ASSUME IInv, NEW w \in Workers, worker[w].pc # "idle"
    PROVE  /\ worker[w] # Idle /\ worker[w].attempt \in Attempts /\ attempt[worker[w].attempt].status # "none"
           /\ worker[w].pc \in Refunding => attempt[worker[w].attempt].status # "PENDING"
BY DEF IInv, ShapeInv, WorkersShaped, Idle

\* The ways a worker takes a step.
LEMMA WorkersGo ==
    ASSUME IInv, NEW w \in Workers
    PROVE  /\ UNCHANGED worker => WorkersMove
           /\ worker' = [worker EXCEPT ![w] = Idle] => WorkersMove
           /\ worker[w].pc # "idle" /\ Return(w) => WorkersMove
           /\ \A pc \in PCs \ {"idle"} : /\ worker[w].pc # "idle" /\ Goto(w, pc)
                                         /\ pc \in Refunding => attempt'[worker[w].attempt].status # "PENDING"
                                         => WorkersMove
           /\ \A n \in WorkerType : /\ n.pc # "idle" /\ n.attempt \in Attempts /\ attempt[n.attempt].status # "none"
                                    /\ n.pc \in Refunding => attempt'[n.attempt].status # "PENDING"
                                    /\ worker' = [worker EXCEPT ![w] = n]
                                    => WorkersMove
<1>1. TypeOK /\ worker \in [Workers -> WorkerType]
  BY Types DEF IInv
<1>2. UNCHANGED worker => WorkersMove
  BY <1>1 DEF WorkersMove
<1>3. worker' = [worker EXCEPT ![w] = Idle] => WorkersMove
  <2>1. Idle \in WorkerType
    BY DEF Idle, WorkerType, PCs
  <2>2. QED
    BY <1>1, <2>1, TaskStep DEF WorkersMove, WorkerStep, Tasked
<1>4. ASSUME worker[w].pc # "idle", Return(w) PROVE WorkersMove
  <2>1. worker[w].attempt \in Attempts /\ attempt[worker[w].attempt].status # "none"
    BY <1>4, AtWork
  <2>2. /\ WorkerStep(w)
        /\ \/ worker'[w] = Idle
           \/ worker'[w].attempt = worker[w].attempt /\ worker'[w].pc \in {"ack", "resume"}
    BY <1>1, <1>4, ReturnStep
  <2>3. QED
    BY <2>1, <2>2 DEF WorkersMove, WorkerStep, Tasked, Refunding
<1>5. ASSUME NEW pc \in PCs \ {"idle"}, worker[w].pc # "idle", Goto(w, pc),
             pc \in Refunding => attempt'[worker[w].attempt].status # "PENDING"
      PROVE  WorkersMove
  <2>1. worker[w].attempt \in Attempts /\ attempt[worker[w].attempt].status # "none"
    BY <1>5, AtWork
  <2>2. WorkerStep(w) /\ worker'[w].pc = pc /\ worker'[w].attempt = worker[w].attempt
    BY <1>1, <1>5, GotoStep
  <2>3. QED
    BY <1>5, <2>1, <2>2 DEF WorkersMove, WorkerStep, Tasked
<1>6. ASSUME NEW n \in WorkerType, n.pc # "idle", n.attempt \in Attempts, attempt[n.attempt].status # "none",
             n.pc \in Refunding => attempt'[n.attempt].status # "PENDING", worker' = [worker EXCEPT ![w] = n]
      PROVE  WorkersMove
  <2>1. WorkerStep(w) /\ worker'[w] = n
    BY <1>1, <1>6, TaskStep
  <2>2. QED
    BY <1>6, <2>1 DEF WorkersMove, WorkerStep, Tasked
<1>7. QED
  BY <1>2, <1>3, <1>4, <1>5, <1>6

\* What PayMongo and the refund rows can become.
GatewayTyped ==
    /\ intent' \in [Attempts -> {"none", "open", "failed", "succeeded"}]
    /\ events' \in SUBSET (Attempts \X {"paid", "failed"})
    /\ refund' \in [Attempts -> {"none", "PENDING", "FAILED", "DONE"}]
    /\ returned' \in SUBSET Attempts

\* An event is only about a payment that was registered.
EventsRegistered ==
    \A a \in Attempts : <<a, "paid">> \in events' \/ <<a, "failed">> \in events' =>
        <<a, "paid">> \in events \/ <<a, "failed">> \in events \/ attempt[a].registered

\* Workers and PayMongo go on without touching the rows.
LEMMA GatewayStep ==
    ASSUME IInv, RowsUnchanged, WorkersMove, GatewayTyped, EventsRegistered
    PROVE  IInv'
<1>1. UNCHANGED <<inquiry, request, removed, offer, attempt, booking>>
  BY DEF RowsUnchanged, requestVars
<1>2. RequestInv' /\ ListingInv' /\ HoldHasAttempt'
  BY RowsKept DEF IInv
<1>3. AttemptsShaped'
  <2>1. \A a \in Attempts : <<a, "paid">> \in events' \/ <<a, "failed">> \in events' => attempt[a].registered
    BY DEF IInv, ShapeInv, AttemptsShaped, EventsRegistered
  <2>2. ASSUME NEW a \in Attempts
        PROVE  /\ attempt'[a].status = "none" <=> attempt'[a].target = "none"
               /\ attempt'[a].status = "none" => booking'[a] = "none" /\ ~attempt'[a].registered
               /\ <<a, "paid">> \in events' \/ <<a, "failed">> \in events' => attempt'[a].registered
    <3>1. /\ attempt[a].status = "none" <=> attempt[a].target = "none"
          /\ attempt[a].status = "none" => booking[a] = "none" /\ ~attempt[a].registered
      BY DEF IInv, ShapeInv, AttemptsShaped
    <3>2. QED
      BY <1>1, <2>1, <3>1
  <2>3. QED
    BY <2>2, Zenon DEF AttemptsShaped
<1>4. WorkersShaped'
  BY <1>1 DEF IInv, ShapeInv, WorkersShaped, WorkersMove, Tasked
<1>5. TypeOK'
  BY <1>1 DEF IInv, TypeOK, WorkersMove, WorkerType, GatewayTyped
<1>6. QED
  BY <1>2, <1>3, <1>4, <1>5 DEF IInv, ShapeInv

\* The rows of one attempt go on, its hold is released if it had to be.
LEMMA AttemptGoes ==
    ASSUME IInv, WorkersMove, GatewayTyped, EventsRegistered, UNCHANGED <<inquiry, removed, booking>>,
           NEW x \in Attempts, attempt[x].status # "none", AttemptStep(x), attempt'[x].status # "none",
           attempt[x].status # "PENDING" => attempt'[x].status # "PENDING", attempt[x].registered => attempt'[x].registered,
           \/ ReleaseOfferHold(attempt[x].target)
           \/ UNCHANGED <<offer, request>> /\ (attempt[x].status = "PENDING" => attempt'[x].status = "PENDING")
    PROVE  IInv'
<1>1. /\ RequestInv' /\ ListingInv' /\ HoldHasAttempt'
      /\ offer' \in [Offers -> OfferStatus] /\ request' \in RequestStatus
  BY AttemptMoves DEF IInv
<1>2. AttemptsShaped'
  <2>1. \A a \in Attempts : <<a, "paid">> \in events' \/ <<a, "failed">> \in events' => attempt[a].registered
    BY DEF IInv, ShapeInv, AttemptsShaped, EventsRegistered
  <2>2. AttemptsShaped
    BY DEF IInv, ShapeInv
  <2>3. /\ attempt'[x].status # "none" /\ attempt'[x].target # "none"
        /\ <<x, "paid">> \in events' \/ <<x, "failed">> \in events' => attempt'[x].registered
    BY <2>1, <2>2 DEF AttemptsShaped, AttemptStep
  <2>4. ASSUME NEW a \in Attempts
        PROVE  /\ attempt'[a].status = "none" <=> attempt'[a].target = "none"
               /\ attempt'[a].status = "none" => booking'[a] = "none" /\ ~attempt'[a].registered
               /\ <<a, "paid">> \in events' \/ <<a, "failed">> \in events' => attempt'[a].registered
    <3>1. CASE a = x
      BY <2>3, <3>1
    <3>2. CASE a # x
      <4>1. attempt'[a] = attempt[a] /\ booking'[a] = booking[a]
        BY <3>2 DEF AttemptStep
      <4>2. /\ attempt[a].status = "none" <=> attempt[a].target = "none"
            /\ attempt[a].status = "none" => booking[a] = "none" /\ ~attempt[a].registered
        BY <2>2 DEF AttemptsShaped
      <4>3. QED
        BY <2>1, <4>1, <4>2
    <3>3. QED
      BY <3>1, <3>2
  <2>5. QED
    BY <2>4, Zenon DEF AttemptsShaped
<1>3. WorkersShaped'
  BY DEF IInv, ShapeInv, WorkersShaped, WorkersMove, Tasked, AttemptStep
<1>4. TypeOK'
  BY <1>1 DEF IInv, TypeOK, WorkersMove, WorkerType, GatewayTyped, AttemptStep, AttemptType, OfferStatus, RequestStatus
<1>5. QED
  BY <1>1, <1>2, <1>3, <1>4 DEF IInv, ShapeInv

\* What leaves PayMongo and the refunds alone.
LEMMA PaymongoQuiet ==
    ASSUME TypeOK, UNCHANGED <<intent, events, returned>>,
           refund' \in [Attempts -> {"none", "PENDING", "FAILED", "DONE"}] \/ UNCHANGED refund
    PROVE  GatewayTyped /\ EventsRegistered
BY DEF TypeOK, GatewayTyped, EventsRegistered

\* The seeker on GCash's page.
LEMMA PageActions ==
    ASSUME IInv, NEW a \in Attempts, SeekerPays(a) \/ SeekerFailsToPay(a)
    PROVE  IInv'
<1>1. PICK s \in {"succeeded", "failed"}, e \in {"paid", "failed"} :
          intent' = [intent EXCEPT ![a] = s] /\ events' = events \cup {<<a, e>>}
  BY DEF SeekerPays, SeekerFailsToPay
<1>2. attempt[a].registered /\ UNCHANGED <<requestVars, attempt, booking, returned, refund, worker>>
  BY DEF SeekerPays, SeekerFailsToPay
<1>3. TypeOK
  BY DEF IInv
<1>4. intent' \in [Attempts -> {"none", "open", "failed", "succeeded"}] /\ events' \in SUBSET (Attempts \X {"paid", "failed"})
  BY <1>1, <1>3 DEF TypeOK
<1>5. GatewayTyped
  BY <1>2, <1>3, <1>4 DEF GatewayTyped, TypeOK
<1>6. EventsRegistered
  <2>1. \A b \in Attempts : b # a => (<<b, "paid">> \in events' => <<b, "paid">> \in events)
                                     /\ (<<b, "failed">> \in events' => <<b, "failed">> \in events)
    BY <1>1
  <2>2. QED
    BY <1>2, <2>1 DEF EventsRegistered
<1>7. WorkersMove
  BY <1>2, <1>3, Types DEF WorkersMove
<1>8. QED
  BY <1>2, <1>5, <1>6, <1>7, GatewayStep DEF RowsUnchanged

\* A worker calls PayMongo, hears of a payment, or stops.
LEMMA WorkerActions ==
    ASSUME IInv, NEW w \in Workers,
           \/ CreateIntent(w) \/ CreateIntentFails(w) \/ ResumeInitiation(w) \/ AcknowledgeWebhook(w)
           \/ ReadIntent(w) \/ FinalizeAgain(w) \/ RefundRead(w) \/ CreateRefund(w) \/ CreateRefundFails(w)
           \/ RefundFail(w) \/ Crash(w)
           \/ \E a \in Attempts : WebhookPaid(w, a) \/ PaymentReturn(w, a) \/ RetryPaymentReconciliation(w, a)
    PROVE  IInv'
<1> DEFINE x == worker[w].attempt
<1>1. TypeOK
  BY DEF IInv
<1>2. worker[w].pc # "idle" => /\ x \in Attempts
                               /\ worker[w].pc \in Refunding => attempt[x].status # "PENDING"
  BY AtWork
<1>3. PCs = {"idle", "gateway", "store", "fail", "return", "mark_failed", "finalize", "ack", "resume",
             "prepare", "refund_read", "refund_call", "refund_store", "refund_fail"}
      /\ Refunding = {"refund_read", "refund_call", "refund_store", "refund_fail"}
  BY DEF PCs, Refunding
<1>4. ASSUME RowsUnchanged, WorkersMove, UNCHANGED <<paymongo, refund>> PROVE IInv'
  BY <1>1, <1>4, PaymongoQuiet, GatewayStep DEF paymongo
<1>5. CASE CreateIntent(w)
  <2>1. /\ worker[w].pc # "idle" /\ Goto(w, "store") /\ intent' = [intent EXCEPT ![x] = "open"]
        /\ UNCHANGED <<events, returned, refund>> /\ RowsUnchanged
    BY <1>5 DEF CreateIntent, RowsUnchanged
  <2>2. WorkersMove
    BY <1>3, <2>1, WorkersGo
  <2>3. GatewayTyped /\ EventsRegistered
    BY <1>1, <1>2, <2>1 DEF TypeOK, GatewayTyped, EventsRegistered
  <2>4. QED
    BY <2>1, <2>2, <2>3, GatewayStep
<1>6. CASE CreateIntentFails(w)
  <2>1. worker[w].pc # "idle" /\ Goto(w, "fail") /\ RowsUnchanged /\ UNCHANGED <<paymongo, refund>>
    BY <1>6 DEF CreateIntentFails, RowsUnchanged
  <2>2. WorkersMove
    BY <1>3, <2>1, WorkersGo
  <2>3. QED
    BY <1>4, <2>1, <2>2
<1>7. CASE ResumeInitiation(w)
  <2>1. /\ worker[w].pc # "idle" /\ (Goto(w, "prepare") \/ worker' = [worker EXCEPT ![w] = Idle])
        /\ RowsUnchanged /\ UNCHANGED <<paymongo, refund>>
    BY <1>7 DEF ResumeInitiation, RowsUnchanged
  <2>2. WorkersMove
    BY <1>3, <2>1, WorkersGo
  <2>3. QED
    BY <1>4, <2>1, <2>2
<1>8. CASE AcknowledgeWebhook(w)
  <2>1. /\ events' \subseteq events /\ worker' = [worker EXCEPT ![w] = Idle]
        /\ UNCHANGED <<intent, returned, refund>> /\ RowsUnchanged
    BY <1>8 DEF AcknowledgeWebhook, RowsUnchanged
  <2>2. WorkersMove
    BY <2>1, WorkersGo
  <2>3. GatewayTyped /\ EventsRegistered
    BY <1>1, <2>1 DEF TypeOK, GatewayTyped, EventsRegistered
  <2>4. QED
    BY <2>1, <2>2, <2>3, GatewayStep
<1>9. CASE ReadIntent(w)
  <2>1. /\ worker[w].pc # "idle" /\ (Goto(w, "finalize") \/ Goto(w, "mark_failed") \/ Return(w))
        /\ RowsUnchanged /\ UNCHANGED <<paymongo, refund>>
    BY <1>9 DEF ReadIntent, RowsUnchanged
  <2>2. WorkersMove
    BY <1>3, <2>1, WorkersGo
  <2>3. QED
    BY <1>4, <2>1, <2>2
<1>10. CASE FinalizeAgain(w)
  <2>1. /\ worker[w].pc # "idle"
        /\ Return(w) \/ (Goto(w, "refund_read") /\ attempt[x].status # "PENDING")
        /\ RowsUnchanged /\ UNCHANGED <<paymongo, refund>> /\ UNCHANGED attempt
    BY <1>10 DEF FinalizeAgain, RowsUnchanged
  <2>2. WorkersMove
    BY <1>3, <2>1, WorkersGo
  <2>3. QED
    BY <1>4, <2>1, <2>2
<1>11. CASE RefundRead(w)
  <2>1. /\ worker[w].pc \in Refunding /\ worker[w].pc # "idle" /\ (Goto(w, "refund_call") \/ Return(w))
        /\ RowsUnchanged /\ UNCHANGED paymongo /\ UNCHANGED attempt
        /\ UNCHANGED refund \/ refund' = [refund EXCEPT ![x] = IF @ = "none" THEN "PENDING" ELSE @]
    BY <1>3, <1>11 DEF RefundRead, RowsUnchanged
  <2>2. WorkersMove
    BY <1>2, <1>3, <2>1, WorkersGo
  <2>3. refund' \in [Attempts -> {"none", "PENDING", "FAILED", "DONE"}] \/ UNCHANGED refund
    BY <1>1, <1>2, <2>1 DEF TypeOK
  <2>4. QED
    BY <1>1, <2>1, <2>2, <2>3, PaymongoQuiet, GatewayStep DEF paymongo
<1>12. CASE CreateRefund(w) \/ CreateRefundFails(w)
  <2>1. /\ worker[w].pc \in Refunding /\ worker[w].pc # "idle" /\ (Goto(w, "refund_store") \/ Goto(w, "refund_fail"))
        /\ returned' \subseteq returned \cup {x}
        /\ UNCHANGED <<intent, events, refund, attempt>> /\ RowsUnchanged
    BY <1>3, <1>12 DEF CreateRefund, CreateRefundFails, RowsUnchanged
  <2>2. WorkersMove
    BY <1>2, <1>3, <2>1, WorkersGo
  <2>3. returned' \in SUBSET Attempts
    BY <1>1, <1>2, <2>1 DEF TypeOK
  <2>4. GatewayTyped /\ EventsRegistered
    BY <1>1, <2>1, <2>3 DEF TypeOK, GatewayTyped, EventsRegistered
  <2>5. QED
    BY <2>1, <2>2, <2>4, GatewayStep
<1>13. CASE RefundFail(w)
  <2>1. /\ worker[w].pc # "idle" /\ worker' = [worker EXCEPT ![w] = Idle]
        /\ RowsUnchanged /\ UNCHANGED paymongo /\ refund' = [refund EXCEPT ![x] = "FAILED"]
    BY <1>13 DEF RefundFail, RowsUnchanged
  <2>2. WorkersMove
    BY <2>1, WorkersGo
  <2>3. refund' \in [Attempts -> {"none", "PENDING", "FAILED", "DONE"}]
    BY <1>1, <1>2, <2>1 DEF TypeOK
  <2>4. QED
    BY <1>1, <2>1, <2>2, <2>3, PaymongoQuiet, GatewayStep DEF paymongo
<1>14. CASE Crash(w)
  <2>1. worker' = [worker EXCEPT ![w] = Idle] /\ RowsUnchanged /\ UNCHANGED <<paymongo, refund>>
    BY <1>14 DEF Crash, RowsUnchanged
  <2>2. WorkersMove
    BY <2>1, WorkersGo
  <2>3. QED
    BY <1>4, <2>1, <2>2
<1>15. ASSUME NEW a \in Attempts, WebhookPaid(w, a) \/ PaymentReturn(w, a) \/ RetryPaymentReconciliation(w, a)
       PROVE  IInv'
  <2>1. /\ attempt[a].registered \/ <<a, "paid">> \in events \/ attempt[a].status = "REFUND_REQUIRED"
        /\ RowsUnchanged /\ UNCHANGED <<paymongo, refund>>
    BY <1>15 DEF WebhookPaid, PaymentReturn, RetryPaymentReconciliation, RowsUnchanged
  <2>2. attempt[a].status # "none" /\ UNCHANGED attempt
    BY <2>1 DEF IInv, ShapeInv, AttemptsShaped, RowsUnchanged
  <2>3. PICK p \in {"finalize", "return", "refund_read"}, o \in {"webhook", "return", "admin"} :
            /\ worker' = [worker EXCEPT ![w] = [pc |-> p, attempt |-> a, origin |-> o]]
            /\ p = "refund_read" => attempt[a].status = "REFUND_REQUIRED"
    BY <1>15 DEF WebhookPaid, PaymentReturn, RetryPaymentReconciliation
  <2> DEFINE n == [pc |-> p, attempt |-> a, origin |-> o]
  <2>4. /\ n \in WorkerType /\ n.pc # "idle" /\ n.attempt = a
        /\ n.pc \in Refunding => attempt'[n.attempt].status # "PENDING"
    BY <1>3, <2>2, <2>3 DEF WorkerType
  <2>5. worker' = [worker EXCEPT ![w] = n]
    BY <2>3
  <2> HIDE DEF n
  <2>6. WorkersMove
    BY <2>2, <2>4, <2>5, WorkersGo
  <2>7. QED
    BY <1>4, <2>1, <2>6
<1>16. QED
  BY <1>5, <1>6, <1>7, <1>8, <1>9, <1>10, <1>11, <1>12, <1>13, <1>14, <1>15

\* The payment attempt that gave up, ran out of time or was decided.
LEMMA StatusGoes ==
    ASSUME IInv, WorkersMove, GatewayTyped, EventsRegistered, UNCHANGED <<inquiry, removed, booking>>,
           NEW x \in Attempts, attempt[x].status # "none", NEW s \in AttemptStatus \ {"none", "PENDING"},
           SetStatus(x, s),
           ReleaseOfferHold(attempt[x].target) \/ (UNCHANGED <<offer, request>> /\ attempt[x].status # "PENDING")
    PROVE  IInv'
<1>1. TypeOK
  BY DEF IInv
<1>2. AttemptStep(x) /\ attempt'[x].status = s /\ attempt'[x].registered = attempt[x].registered
  BY <1>1, StatusStep
<1>3. QED
  BY <1>2, AttemptGoes

\* The same, for each action of a worker that goes on.
LEMMA AttemptActions ==
    ASSUME IInv, NEW w \in Workers,
           \/ StoreIntent(w) \/ InitiationFailed(w) \/ MarkFailed(w) \/ FinalizeRefused(w)
           \/ FinalizeWithoutHold(w) \/ RefundStore(w)
    PROVE  IInv'
<1> DEFINE x == worker[w].attempt
<1>1. /\ TypeOK /\ AttemptsShaped /\ attempt \in [Attempts -> AttemptType]
      /\ UNCHANGED <<intent, events, returned>> /\ UNCHANGED refund => GatewayTyped /\ EventsRegistered
  BY Types, PaymongoQuiet DEF IInv, ShapeInv
<1>2. worker[w].pc # "idle" => /\ x \in Attempts /\ attempt[x].status # "none"
                               /\ worker[w].pc \in Refunding => attempt[x].status # "PENDING"
  BY AtWork
<1>3. CASE StoreIntent(w)
  <2>1. /\ worker[w].pc # "idle" /\ attempt' = [attempt EXCEPT ![x].registered = TRUE]
        /\ worker' = [worker EXCEPT ![w] = Idle]
        /\ UNCHANGED <<inquiry, request, removed, offer, booking, intent, events, returned, refund>>
    BY <1>3 DEF StoreIntent, requestVars, paymongo
  <2>2. \A a \in Attempts \ {x} : attempt'[a] = attempt[a]
    BY <1>1, <2>1
  <2>3. /\ attempt'[x] \in AttemptType /\ attempt'[x].status = attempt[x].status
        /\ attempt'[x].target = attempt[x].target /\ attempt'[x].registered
    BY <1>1, <1>2, <2>1 DEF AttemptType
  <2>4. attempt' = [a \in Attempts |-> attempt'[a]] /\ \A a \in Attempts : attempt'[a] \in AttemptType
    BY <1>1, <2>1, <2>2, <2>3
  <2>5. AttemptStep(x)
    BY <2>2, <2>3, <2>4 DEF AttemptStep
  <2>6. WorkersMove
    BY <2>1, WorkersGo
  <2>7. QED
    BY <1>1, <1>2, <2>1, <2>3, <2>5, <2>6, AttemptGoes
<1>4. CASE InitiationFailed(w)
  <2>1. /\ worker[w].pc # "idle" /\ SetStatus(x, "FAILED") /\ ReleaseOfferHold(attempt[x].target)
        /\ worker' = [worker EXCEPT ![w] = Idle]
        /\ UNCHANGED <<inquiry, removed, booking, intent, events, returned, refund>>
    BY <1>4 DEF InitiationFailed, paymongo
  <2>2. WorkersMove
    BY <2>1, WorkersGo
  <2>3. QED
    BY <1>1, <1>2, <2>1, <2>2, StatusGoes DEF AttemptStatus
<1>5. CASE MarkFailed(w)
  <2>1. /\ worker[w].pc # "idle" /\ MarkPaymentAttemptFailed(x) /\ Return(w)
        /\ UNCHANGED <<inquiry, removed, booking, intent, events, returned, refund>>
    BY <1>5 DEF MarkFailed, paymongo
  <2>2. WorkersMove
    BY <2>1, WorkersGo
  <2>3. CASE attempt[x].status = "PENDING"
    <3>1. SetStatus(x, "FAILED") /\ ReleaseOfferHold(attempt[x].target)
      BY <2>1, <2>3 DEF MarkPaymentAttemptFailed
    <3>2. QED
      BY <1>1, <1>2, <2>1, <2>2, <3>1, StatusGoes DEF AttemptStatus
  <2>4. CASE attempt[x].status # "PENDING"
    <3>1. RowsUnchanged
      BY <2>1, <2>4 DEF MarkPaymentAttemptFailed, RowsUnchanged, requestVars
    <3>2. QED
      BY <1>1, <2>1, <2>2, <3>1, GatewayStep
  <2>5. QED
    BY <2>3, <2>4
<1>6. ASSUME worker[w].pc = "finalize", SetStatus(x, "REFUND_REQUIRED"), ReleaseOfferHold(attempt[x].target),
             Goto(w, "refund_read"), UNCHANGED <<inquiry, removed, booking, intent, events, returned, refund>>
      PROVE  IInv'
  <2>1. attempt'[x].status = "REFUND_REQUIRED"
    BY <1>1, <1>2, <1>6, StatusStep DEF AttemptStatus
  <2>2. WorkersMove
    BY <1>6, <2>1, WorkersGo DEF PCs
  <2>3. QED
    BY <1>1, <1>2, <1>6, <2>2, StatusGoes DEF AttemptStatus
<1>7. CASE FinalizeRefused(w)
  BY <1>6, <1>7 DEF FinalizeRefused, paymongo
<1>8. CASE FinalizeWithoutHold(w)
  <2> DEFINE t == attempt[x].target
  <2>1. /\ worker[w].pc = "finalize" /\ SetStatus(x, "REFUND_REQUIRED") /\ Goto(w, "refund_read") /\ ~HoldValid(x)
        /\ offer' = IF offer[t] = "PENDING_PAYMENT" /\ request = "PAYMENT_PENDING"
                    THEN [offer EXCEPT ![t] = "REJECTED"] ELSE offer
        /\ UNCHANGED <<inquiry, request, removed, booking, intent, events, returned, refund>>
    BY <1>8 DEF FinalizeWithoutHold, paymongo
  <2>2. t \in Offers /\ ~(offer[t] = "PENDING_PAYMENT" /\ request = "PAYMENT_PENDING" /\ Selected = {t})
    BY <2>1 DEF HoldValid
  <2>3. offer[t] # "PENDING_PAYMENT"
    BY <2>2 DEF IInv, RequestInv, Selected
  <2>4. ReleaseOfferHold(t)
    BY <2>1, <2>3 DEF ReleaseOfferHold
  <2>5. QED
    BY <1>6, <2>1, <2>4
<1>9. CASE RefundStore(w)
  <2>1. /\ worker[w].pc = "refund_store" /\ refund' = [refund EXCEPT ![x] = "DONE"]
        /\ SetStatus(x, "REFUNDED") /\ Return(w)
        /\ UNCHANGED <<inquiry, request, removed, offer, booking, intent, events, returned>>
    BY <1>9 DEF RefundStore, requestVars, paymongo
  <2>2. WorkersMove
    BY <2>1, WorkersGo
  <2>3. refund' \in [Attempts -> {"none", "PENDING", "FAILED", "DONE"}]
    BY <1>1, <2>1 DEF TypeOK
  <2>4. GatewayTyped /\ EventsRegistered
    BY <1>1, <2>1, <2>3, PaymongoQuiet
  <2>5. QED
    BY <1>1, <1>2, <2>1, <2>2, <2>4, StatusGoes DEF AttemptStatus, Refunding
<1>10. QED
  BY <1>3, <1>4, <1>5, <1>7, <1>8, <1>9

\* A payment fails, expires or lapses while nobody works on it.
LEMMA TimerActions ==
    ASSUME IInv, NEW a \in Attempts, WebhookFailed(a) \/ ExpireStalePaymentAttempt(a) \/ Lapse(a)
    PROVE  IInv'
<1>1. TypeOK /\ AttemptsShaped /\ attempt \in [Attempts -> AttemptType]
  BY Types DEF IInv, ShapeInv
<1>2. UNCHANGED worker => WorkersMove
  BY <1>1, Types DEF WorkersMove
<1>3. CASE WebhookFailed(a)
  <2>1. /\ <<a, "failed">> \in events /\ MarkPaymentAttemptFailed(a) /\ events' \subseteq events
        /\ UNCHANGED <<inquiry, removed, booking, intent, returned, refund, worker>>
    BY <1>3 DEF WebhookFailed
  <2>2. attempt[a].status # "none" /\ WorkersMove /\ GatewayTyped /\ EventsRegistered
    BY <1>1, <1>2, <2>1 DEF AttemptsShaped, TypeOK, GatewayTyped, EventsRegistered
  <2>3. CASE attempt[a].status = "PENDING"
    <3>1. SetStatus(a, "FAILED") /\ ReleaseOfferHold(attempt[a].target)
      BY <2>1, <2>3 DEF MarkPaymentAttemptFailed
    <3>2. QED
      BY <2>1, <2>2, <3>1, StatusGoes DEF AttemptStatus
  <2>4. CASE attempt[a].status # "PENDING"
    <3>1. RowsUnchanged
      BY <2>1, <2>4 DEF MarkPaymentAttemptFailed, RowsUnchanged, requestVars
    <3>2. QED
      BY <2>1, <2>2, <3>1, GatewayStep
  <2>5. QED
    BY <2>3, <2>4
<1>4. CASE ExpireStalePaymentAttempt(a)
  <2>1. /\ attempt[a].status = "PENDING" /\ SetStatus(a, "EXPIRED") /\ ReleaseOfferHold(attempt[a].target)
        /\ UNCHANGED <<inquiry, removed, booking, intent, events, returned, refund, worker>>
    BY <1>4 DEF ExpireStalePaymentAttempt, paymongo
  <2>2. WorkersMove /\ GatewayTyped /\ EventsRegistered
    BY <1>1, <1>2, <2>1, PaymongoQuiet
  <2>3. QED
    BY <2>1, <2>2, StatusGoes DEF AttemptStatus
<1>5. CASE Lapse(a)
  <2>1. /\ attempt[a].status # "none" /\ attempt' = [attempt EXCEPT ![a].late = TRUE]
        /\ UNCHANGED <<inquiry, request, removed, offer, booking, intent, events, returned, refund, worker>>
    BY <1>5 DEF Lapse, requestVars, paymongo
  <2>2. \A b \in Attempts \ {a} : attempt'[b] = attempt[b]
    BY <1>1, <2>1
  <2>3. /\ attempt'[a] \in AttemptType /\ attempt'[a].status = attempt[a].status
        /\ attempt'[a].target = attempt[a].target /\ attempt'[a].registered = attempt[a].registered
    BY <1>1, <2>1 DEF AttemptType
  <2>4. attempt' = [b \in Attempts |-> attempt'[b]] /\ \A b \in Attempts : attempt'[b] \in AttemptType
    BY <1>1, <2>1, <2>2, <2>3
  <2>5. AttemptStep(a)
    BY <2>2, <2>3, <2>4 DEF AttemptStep
  <2>6. WorkersMove /\ GatewayTyped /\ EventsRegistered
    BY <1>1, <1>2, <2>1, PaymongoQuiet
  <2>7. QED
    BY <2>1, <2>3, <2>5, <2>6, AttemptGoes
<1>6. QED
  BY <1>3, <1>4, <1>5

\* A checkout request goes on with an attempt of its own.
LEMMA CheckoutActions ==
    ASSUME IInv, NEW w \in Workers, InitiateAgain(w) \/ \E t \in Targets : InitiateOnlinePayment(w, t)
    PROVE  IInv'
<1>1. /\ TypeOK /\ ShapeInv /\ AttemptsShaped /\ WorkersShaped /\ RequestInv /\ ListingInv /\ HoldHasAttempt
      /\ attempt \in [Attempts -> AttemptType] /\ worker \in [Workers -> WorkerType]
      /\ UNCHANGED <<inquiry, removed, booking, intent, events, returned, refund>>
  BY Types DEF IInv, ShapeInv, InitiateAgain, InitiateOnlinePayment, paymongo
<1>2. CASE worker' = [worker EXCEPT ![w] = Idle] /\ UNCHANGED <<offer, request, attempt>>
  <2>1. WorkersMove
    BY <1>2, WorkersGo
  <2>2. GatewayTyped /\ EventsRegistered /\ RowsUnchanged
    BY <1>1, <1>2, PaymongoQuiet DEF RowsUnchanged, requestVars
  <2>3. QED
    BY <2>1, <2>2, GatewayStep
<1>3. ASSUME NEW t \in Targets, PrepareTransaction(w, t) PROVE IInv'
  <2>1. PICK x \in Attempts : Prepares(w, t, x)
    BY <1>1, <1>3, Preparing
  <2>2. /\ RequestInv' /\ ListingInv' /\ HoldHasAttempt'
        /\ offer' \in [Offers -> OfferStatus] /\ request' \in RequestStatus
    BY <1>1, <2>1, PrepareRows
  <2>3. /\ attempt' \in [Attempts -> AttemptType]
        /\ attempt'[x].target = t /\ attempt'[x].status = "PENDING" /\ t # "none"
        /\ \A a \in Attempts \ {x} : /\ attempt'[a].target = attempt[a].target
                                     /\ attempt'[a].registered = attempt[a].registered
                                     /\ \/ attempt'[a].status = attempt[a].status
                                        \/ attempt[a].status = "PENDING" /\ attempt'[a].status = "EXPIRED"
        /\ attempt'[x] = attempt[x] \/ attempt[x].status = "none"
        /\ WorkerStep(w) /\ worker'[w].attempt = x /\ worker'[w].pc \in {"return", "gateway"}
    BY <2>1, TargetsAssumption DEF Prepares, Swept, Reuses, Creates, Targets
  <2>4. AttemptsShaped'
    <3>1. ASSUME NEW a \in Attempts
          PROVE  /\ attempt'[a].status = "none" <=> attempt'[a].target = "none"
                 /\ attempt'[a].status = "none" => booking'[a] = "none" /\ ~attempt'[a].registered
                 /\ <<a, "paid">> \in events' \/ <<a, "failed">> \in events' => attempt'[a].registered
      <4>1. /\ attempt[a].status = "none" <=> attempt[a].target = "none"
            /\ attempt[a].status = "none" => booking[a] = "none" /\ ~attempt[a].registered
            /\ <<a, "paid">> \in events \/ <<a, "failed">> \in events => attempt[a].registered
        BY <1>1, Zenon DEF AttemptsShaped
      <4>2. CASE a = x
        BY <1>1, <2>3, <4>1, <4>2
      <4>3. CASE a # x
        BY <1>1, <2>3, <4>1, <4>3
      <4>4. QED
        BY <4>2, <4>3
    <3>2. QED
      BY <3>1, Zenon DEF AttemptsShaped
  <2>5. WorkersShaped'
    <3> SUFFICES ASSUME NEW v \in Workers, worker'[v] # Idle
                 PROVE  /\ worker'[v].pc # "idle" /\ worker'[v].attempt \in Attempts
                        /\ attempt'[worker'[v].attempt].status # "none"
                        /\ worker'[v].pc \in Refunding => attempt'[worker'[v].attempt].status # "PENDING"
      BY DEF WorkersShaped
    <3>1. CASE v = w
      BY <2>3, <3>1 DEF Refunding
    <3>2. CASE v # w
      <4>1. worker'[v] = worker[v]
        BY <2>3, <3>2 DEF WorkerStep
      <4>2. /\ worker[v].pc # "idle" /\ worker[v].attempt \in Attempts
            /\ attempt[worker[v].attempt].status # "none"
            /\ worker[v].pc \in Refunding => attempt[worker[v].attempt].status # "PENDING"
        BY <1>1, <4>1 DEF WorkersShaped
      <4>3. QED
        BY <2>3, <4>1, <4>2
    <3>3. QED
      BY <3>1, <3>2
  <2>6. TypeOK'
    BY <1>1, <2>2, <2>3 DEF TypeOK, OfferStatus, RequestStatus, WorkerStep, WorkerType, AttemptType
  <2>7. QED
    BY <2>2, <2>4, <2>5, <2>6 DEF IInv, ShapeInv
<1>4. CASE InitiateAgain(w)
  <2>1. worker[w].pc = "prepare"
    BY <1>4 DEF InitiateAgain
  <2>2. worker[w].attempt \in Attempts /\ attempt[worker[w].attempt].status # "none"
    BY <2>1, AtWork
  <2>3. attempt[worker[w].attempt].target \in Targets
    BY <1>1, <2>2 DEF AttemptsShaped, AttemptType
  <2>4. QED
    BY <1>2, <1>3, <1>4, <2>3 DEF InitiateAgain
<1>5. QED
  BY <1>3, <1>4 DEF InitiateOnlinePayment

\* The finalizer makes the booking the payment was for.
LEMMA FinalizerBooks ==
    ASSUME IInv, NEW w \in Workers, FinalizeBooks(w)
    PROVE  IInv'
<1> DEFINE x == worker[w].attempt
           t == attempt[x].target
<1>1. /\ TypeOK /\ ShapeInv /\ AttemptsShaped /\ WorkersShaped /\ RequestInv /\ ListingInv /\ HoldHasAttempt
      /\ attempt \in [Attempts -> AttemptType]
      /\ booking \in [Bookings -> {"none", "active", "review", "completed", "canceled"}]
  BY Types DEF IInv, ShapeInv, TypeOK
<1>2. /\ worker[w].pc = "finalize" /\ HoldValid(x) /\ ~ActiveBooking(t)
      /\ booking' = [booking EXCEPT ![x] = "active"] /\ SetStatus(x, "SUCCEEDED") /\ Return(w)
      /\ t \in Offers => offer' = RejectSiblings(t) /\ request' = "IN_PROGRESS"
      /\ t \notin Offers => UNCHANGED <<offer, request>>
      /\ UNCHANGED <<inquiry, removed, intent, events, returned, refund>>
  BY DEF FinalizeBooks, paymongo
<1>3. x \in Attempts /\ attempt[x].status # "none"
  BY <1>2, AtWork
<1>4. t \in Targets /\ TargetOf(x) = t
  BY <1>1, <1>3 DEF AttemptsShaped, AttemptType, TargetOf
<1>5. AttemptStep(x) /\ attempt'[x].status = "SUCCEEDED" /\ attempt'[x].registered = attempt[x].registered
  BY <1>1, <1>2, <1>3, StatusStep DEF AttemptStatus
<1>6. \A a \in Attempts : attempt'[a].target = attempt[a].target
  BY <1>5 DEF AttemptStep
<1>7. /\ booking' \in [Bookings -> {"none", "active", "review", "completed", "canceled"}]
      /\ \A a \in Attempts \ {x} : booking'[a] = booking[a]
  BY <1>1, <1>2, <1>3 DEF Bookings
<1>8. /\ RequestInv' /\ ListingInv' /\ HoldHasAttempt'
      /\ offer' \in [Offers -> OfferStatus] /\ request' \in RequestStatus
  <2>1. CASE t \in Offers
    <3>1. offer[t] = "PENDING_PAYMENT" /\ request = "PAYMENT_PENDING" /\ Selected = {t}
      BY <1>2, <2>1 DEF HoldValid
    <3>2. OfferBookings = {} /\ ~removed
      BY <3>1 DEF RequestInv, Selected, OfferBookings, IInv
    <3>3. \A p \in Offers \ {t} : offer[p] \notin {"PENDING_PAYMENT", "ACCEPTED"}
      BY <3>1 DEF Selected
    <3>4. x \in Bookings
      BY <1>3 DEF Bookings
    <3>5. QED
      BY <1>1, <1>2, <1>3, <1>4, <1>6, <2>1, <3>2, <3>3, <3>4, OfferBooked
  <2>2. CASE t \notin Offers
    <3>1. t \in Listings
      BY <1>4, <2>2 DEF Targets
    <3>2. RequestInv' /\ ListingInv'
      <4>1. ~BookingAtWork(t) /\ x \in Bookings
        BY <1>2, <1>3 DEF ActiveBooking, BookingAtWork, Bookings
      <4>2. QED
        BY <1>1, <1>2, <1>3, <1>4, <1>6, <2>2, <3>1, <4>1, ListingBooked
    <3>3. ReleaseOfferHold(t)
      BY <1>2, <2>2 DEF ReleaseOfferHold
    <3>4. HoldHasAttempt'
      BY <1>1, <1>3, <1>5, <3>3, HoldReleased
    <3>5. offer' \in [Offers -> OfferStatus] /\ request' \in RequestStatus
      BY <1>1, <3>3, Releases
    <3>6. QED
      BY <3>2, <3>4, <3>5
  <2>3. QED
    BY <2>1, <2>2
<1>9. WorkersMove /\ GatewayTyped /\ EventsRegistered
  BY <1>1, <1>2, WorkersGo, PaymongoQuiet
<1>10. AttemptsShaped'
  <2>1. ASSUME NEW a \in Attempts
        PROVE  /\ attempt'[a].status = "none" <=> attempt'[a].target = "none"
               /\ attempt'[a].status = "none" => booking'[a] = "none" /\ ~attempt'[a].registered
               /\ <<a, "paid">> \in events' \/ <<a, "failed">> \in events' => attempt'[a].registered
    <3>1. /\ attempt[a].status = "none" <=> attempt[a].target = "none"
          /\ attempt[a].status = "none" => booking[a] = "none" /\ ~attempt[a].registered
          /\ <<a, "paid">> \in events \/ <<a, "failed">> \in events => attempt[a].registered
      BY <1>1, Zenon DEF AttemptsShaped
    <3>2. CASE a = x
      BY <1>2, <1>3, <1>5, <1>6, <3>1, <3>2
    <3>3. CASE a # x
      <4>1. attempt'[a] = attempt[a] /\ booking'[a] = booking[a]
        BY <1>5, <1>7, <3>3 DEF AttemptStep
      <4>2. QED
        BY <1>2, <3>1, <4>1
    <3>4. QED
      BY <3>2, <3>3
  <2>2. QED
    BY <2>1, Zenon DEF AttemptsShaped
<1>11. WorkersShaped'
  BY <1>1, <1>5, <1>9 DEF WorkersShaped, WorkersMove, Tasked, AttemptStep
<1>12. TypeOK'
  BY <1>1, <1>2, <1>5, <1>7, <1>8, <1>9
     DEF TypeOK, WorkersMove, WorkerType, AttemptStep, AttemptType, OfferStatus, RequestStatus
<1>13. QED
  BY <1>8, <1>10, <1>11, <1>12 DEF IInv, ShapeInv

\* Every step keeps the invariant ...
LEMMA CheckoutInductive ==
    ASSUME IInv, [Next]_vars
    PROVE  IInv'
<1>1. CASE UNCHANGED vars
  <2>1. /\ RowsUnchanged /\ UNCHANGED worker /\ UNCHANGED <<intent, events, returned, refund>>
    BY <1>1 DEF vars, RowsUnchanged, paymongo
  <2>2. TypeOK
    BY DEF IInv
  <2>3. WorkersMove /\ GatewayTyped /\ EventsRegistered
    BY <2>1, <2>2, Types, PaymongoQuiet DEF WorkersMove
  <2>4. QED
    BY <2>1, <2>3, GatewayStep
<1>2. ASSUME NEW w \in Workers, Step(w) PROVE IInv'
  BY <1>2, WorkerActions, AttemptActions, CheckoutActions, FinalizerBooks, Zenon DEF Step
<1>3. QED
  BY <1>1, <1>2, RequestActions, BookingActions, WorkerActions, CheckoutActions, PageActions, TimerActions, Zenon DEF Next

\* ... and it holds at first.
LEMMA CheckoutInit == Init => IInv
<1> SUFFICES ASSUME Init PROVE IInv
  OBVIOUS
<1>1. TypeOK
  BY DEF Init, PublicPost, ListingInquiry, TypeOK, AttemptStatus, NoAttempt, PCs, Idle
<1>2. ShapeInv
  BY DEF Init, ShapeInv, AttemptsShaped, WorkersShaped, NoAttempt, Bookings
<1>3. OfferBookings = {} /\ Selected = {}
  <2>1. \A b \in Bookings : booking[b] = "none"
    BY DEF Init
  <2>2. QED
    BY <2>1 DEF Init, OfferBookings, Selected
<1>4. RequestInv
  BY <1>3 DEF Init, PublicPost, ListingInquiry, RequestInv
<1>5. ListingInv /\ HoldHasAttempt
  BY DEF Init, ListingInv, HoldHasAttempt
<1>6. QED
  BY <1>1, <1>2, <1>4, <1>5 DEF IInv

\* The rows of the request, its offers, attempts and bookings always agree.
LEMMA CheckoutInvariant == Spec => []IInv
<1>1. IInv /\ [Next]_vars => IInv'
  BY CheckoutInductive
<1>2. QED
  BY <1>1, CheckoutInit, PTL DEF Spec

-----------------------------------------------------------------------------
(* The theorems about the rows                                              *)

\* A set without two different members has at most one.
LEMMA AtMostOne ==
    ASSUME NEW S, \A x, y \in S : x = y
    PROVE  Cardinality(S) <= 1
<1>1. CASE S = {}
  <2>1. Cardinality(S) = 0
    BY <1>1, FS_EmptySet
  <2>2. QED
    BY <2>1
<1>2. CASE S # {}
  <2>1. PICK x \in S : S = {x}
    BY <1>2
  <2>2. Cardinality({x}) = 1
    BY FS_Singleton
  <2>3. QED
    BY <2>1, <2>2
<1>3. QED
  BY <1>1, <1>2

\* The variables keep their types: TypeOK.
THEOREM TypeCorrect == Spec => []TypeOK
<1>1. IInv => TypeOK
  BY DEF IInv
<1>2. QED
  BY <1>1, CheckoutInvariant, PTL

\* At most one offer is held or accepted, and the request says so, although
\* nine transactions of five services write the two: OneSelection.
THEOREM OneSelected == Spec => []OneSelection
<1>1. ASSUME IInv PROVE OneSelection
  <2>1. TypeOK /\ RequestInv
    BY <1>1 DEF IInv
  <2>2. Cardinality(Selected) <= 1
    BY <2>1, AtMostOne DEF RequestInv
  <2>3. request = "PAYMENT_PENDING" <=> \E o \in Offers : offer[o] = "PENDING_PAYMENT"
    BY <2>1 DEF RequestInv
  <2>4. \A b \in OfferBookings : booking[b] \in {"active", "review", "completed", "canceled"}
    BY <2>1 DEF OfferBookings, TypeOK
  <2>5. (\E o \in Offers : offer[o] = "ACCEPTED") => request \in {"IN_PROGRESS", "CLOSED", "CANCELED"}
    BY <2>1, <2>4 DEF RequestInv
  <2>6. request = "IN_PROGRESS" => \E o \in Offers : offer[o] = "ACCEPTED" /\ ActiveBooking(o)
    <3> HAVE request = "IN_PROGRESS"
    <3>1. PICK b \in OfferBookings : TRUE
      BY <2>1 DEF RequestInv
    <3>2. TargetOf(b) \in Offers /\ offer[TargetOf(b)] = "ACCEPTED" /\ booking[b] \in {"active", "review"}
      BY <2>1, <2>4, <3>1 DEF RequestInv, OfferBookings
    <3>3. b \in BookingsOf(TargetOf(b))
      BY DEF BookingsOf, OfferBookings
    <3>4. QED
      BY <3>2, <3>3 DEF ActiveBooking
  <2>7. QED
    BY <2>2, <2>3, <2>5, <2>6 DEF OneSelection
<1>2. QED
  BY <1>1, CheckoutInvariant, PTL

\* A listing has one booking at work and a request one booking for good,
\* whatever mix of cash and online checkouts raced for them; beside the booking
\* of a listing another is at most under review: OneActiveBooking.
THEOREM OneActive == Spec => []OneActiveBooking
<1>1. ASSUME IInv PROVE OneActiveBooking
  <2>1. RequestInv /\ ListingInv
    BY <1>1 DEF IInv
  <2>2. ASSUME NEW l \in Listings PROVE Cardinality({b \in BookingsOf(l) : booking[b] = "active"}) <= 1
    <3>1. \A b, c \in {d \in BookingsOf(l) : booking[d] = "active"} : b = c
      BY <2>1 DEF ListingInv, BookingsOf
    <3>2. QED
      BY <3>1, AtMostOne
  <2>3. Cardinality({b \in UNION {BookingsOf(o) : o \in Offers} : booking[b] # "none"}) <= 1
    <3> DEFINE B == {b \in UNION {BookingsOf(o) : o \in Offers} : booking[b] # "none"}
    <3>1. B \subseteq OfferBookings
      BY DEF OfferBookings, BookingsOf
    <3>2. \A b, c \in B : b = c
      BY <2>1, <3>1 DEF RequestInv
    <3> HIDE DEF B
    <3>3. Cardinality(B) <= 1
      BY <3>2, AtMostOne
    <3>4. QED
      BY <3>3 DEF B
  <2>4. QED
    BY <2>2, <2>3 DEF OneActiveBooking
<1>2. QED
  BY <1>1, CheckoutInvariant, PTL

\* A hold belongs to a pending attempt, so a crash, a failure or a late answer
\* never locks the request for good: HoldHasAttempt.
THEOREM HoldsHaveAttempts == Spec => []HoldHasAttempt
<1>1. IInv => HoldHasAttempt
  BY DEF IInv
<1>2. QED
  BY <1>1, CheckoutInvariant, PTL

\* No step that leaves the request to its payment touches an offer.
LEMMA SiblingsStep ==
    ASSUME IInv, [Next]_vars, request = "PAYMENT_PENDING", request' = "PAYMENT_PENDING"
    PROVE  UNCHANGED offer
<1>1. CASE UNCHANGED vars
  BY <1>1 DEF vars, requestVars
<1>2. ASSUME NEW t, ReleaseOfferHold(t) PROVE UNCHANGED offer
  BY <1>2 DEF ReleaseOfferHold
<1>3. ASSUME NEW a, MarkPaymentAttemptFailed(a) PROVE UNCHANGED offer
  BY <1>2, <1>3 DEF MarkPaymentAttemptFailed
<1>4. ASSUME NEW w \in Workers, NEW t \in Targets, PrepareTransaction(w, t) PROVE UNCHANGED offer
  <2>1. PICK x \in Attempts : Reuses(x, t) \/ Creates(x, t)
    BY <1>4, Preparing DEF Prepares, IInv
  <2>2. CASE Reuses(x, t)
    BY <1>2, <2>2 DEF Reuses
  <2>3. CASE Creates(x, t)
    <3>1. offer \in [Offers -> OfferStatus]
      BY DEF IInv, TypeOK, OfferStatus
    <3>2. QED
      BY <2>3, <3>1 DEF Creates, OfferOpen
  <2>4. QED
    BY <2>1, <2>2, <2>3
<1>5. ASSUME NEW o \in Offers, SubmitOffer(o) \/ RejectOffer(o) \/ CreateDirectFromOffer(o) PROVE UNCHANGED offer
  BY <1>5 DEF SubmitOffer, RejectOffer, CreateDirectFromOffer, OfferOpen
<1>6. CASE RequestStep \/ DeclineListingInquiry \/ RemoveRequest \/ RestoreRequest
  BY <1>6 DEF RequestStep, PauseRequest, ReopenRequest, Reopenable, CancelRequest,
              DeclineListingInquiry, RemoveRequest, RestoreRequest
<1>7. CASE \/ \E k \in CashRequests : CreateDirectRequest(k)
           \/ \E b \in Bookings : ReviewBooking(b) \/ EndBooking(b)
  BY <1>7 DEF CreateDirectRequest, ReviewBooking, EndBooking, requestVars
<1>8. ASSUME NEW w \in Workers, InitiateAgain(w) PROVE UNCHANGED offer
  <2>1. worker[w].pc = "prepare"
    BY <1>8 DEF InitiateAgain
  <2>2. worker[w].attempt \in Attempts /\ attempt[worker[w].attempt].status # "none"
    BY <2>1, AtWork
  <2>3. attempt[worker[w].attempt].target \in Targets
    BY <2>2, Types DEF IInv, ShapeInv, AttemptsShaped, AttemptType
  <2>4. QED
    BY <1>4, <1>8, <2>3 DEF InitiateAgain
<1>9. ASSUME NEW w \in Workers, NEW t \in Targets, InitiateOnlinePayment(w, t) PROVE UNCHANGED offer
  BY <1>4, <1>9 DEF InitiateOnlinePayment
<1>10. ASSUME NEW w \in Workers, NEW a \in Attempts,
              WebhookPaid(w, a) \/ PaymentReturn(w, a) \/ RetryPaymentReconciliation(w, a)
       PROVE  UNCHANGED offer
  BY <1>10 DEF WebhookPaid, PaymentReturn, RetryPaymentReconciliation, requestVars
<1>11. ASSUME NEW w \in Workers,
              \/ CreateIntent(w) \/ CreateIntentFails(w) \/ StoreIntent(w) \/ ResumeInitiation(w)
              \/ AcknowledgeWebhook(w) \/ ReadIntent(w) \/ FinalizeAgain(w) \/ RefundRead(w) \/ CreateRefund(w)
              \/ CreateRefundFails(w) \/ RefundStore(w) \/ RefundFail(w) \/ Crash(w)
       PROVE  UNCHANGED offer
  BY <1>11 DEF CreateIntent, CreateIntentFails, StoreIntent, ResumeInitiation, AcknowledgeWebhook, ReadIntent,
               FinalizeAgain, RefundRead, CreateRefund, CreateRefundFails, RefundStore, RefundFail, Crash, requestVars
<1>12. ASSUME NEW w \in Workers, InitiationFailed(w) \/ MarkFailed(w) \/ FinalizeRefused(w) PROVE UNCHANGED offer
  BY <1>2, <1>3, <1>12 DEF InitiationFailed, MarkFailed, FinalizeRefused
<1>13. ASSUME NEW w \in Workers, FinalizeWithoutHold(w) PROVE UNCHANGED offer
  BY <1>13 DEF FinalizeWithoutHold, HoldValid, IInv, RequestInv, Selected
<1>14. ASSUME NEW w \in Workers, FinalizeBooks(w) PROVE UNCHANGED offer
  BY <1>14 DEF FinalizeBooks
<1>15. ASSUME NEW a \in Attempts, SeekerPays(a) \/ SeekerFailsToPay(a) \/ WebhookFailed(a)
                                  \/ ExpireStalePaymentAttempt(a) \/ Lapse(a)
       PROVE  UNCHANGED offer
  BY <1>2, <1>3, <1>15 DEF SeekerPays, SeekerFailsToPay, WebhookFailed, ExpireStalePaymentAttempt, Lapse, requestVars
<1>16. ASSUME NEW w \in Workers, Step(w) PROVE UNCHANGED offer
  BY <1>8, <1>11, <1>12, <1>13, <1>14, <1>16, Zenon DEF Step
<1>17. QED
  BY <1>1, <1>5, <1>6, <1>7, <1>9, <1>10, <1>11, <1>15, <1>16, Zenon DEF Next

\* While a payment for one offer is in progress its siblings stay as they are,
\* whatever the seeker, the providers and the administrators try: SiblingsWait.
THEOREM SiblingsKept == Spec => SiblingsWait
<1>1. IInv /\ [Next]_vars => [request = "PAYMENT_PENDING" /\ request' = "PAYMENT_PENDING" => UNCHANGED offer]_vars
  BY SiblingsStep
<1>2. QED
  BY <1>1, CheckoutInvariant, PTL DEF Spec, SiblingsWait

-----------------------------------------------------------------------------
(* The payments, while no checkout is submitted twice                       *)

\* Nothing that is known of the payment of attempt a is taken back.
Forward(a) ==
    /\ attempt[a].status # "none" => /\ attempt'[a].target = attempt[a].target
                                     /\ attempt'[a].registered = attempt[a].registered
    /\ intent[a] = "succeeded" => intent'[a] = "succeeded"
    /\ attempt[a].status \in {"REFUND_REQUIRED", "REFUNDED"} => attempt'[a].status \in {"REFUND_REQUIRED", "REFUNDED"}
    /\ a \in returned => a \in returned'
    /\ SettledPayment(a) => SettledPayment(a)'

\* The payment of attempt a does not change.
Same(a) ==
    /\ attempt'[a].target = attempt[a].target /\ attempt'[a].status = attempt[a].status
    /\ attempt'[a].registered = attempt[a].registered
    /\ (booking'[a] = "none") <=> (booking[a] = "none")
    /\ intent'[a] = intent[a]
    /\ (<<a, "paid">> \in events') <=> (<<a, "paid">> \in events)
    /\ (a \in returned') <=> (a \in returned)
    /\ (refund'[a] = "DONE") <=> (refund[a] = "DONE")

\* A worker keeps still, stops, or goes on with the payment of its checkout.
WorkerPays(v) ==
    \/ worker'[v] = worker[v]
    \/ worker'[v] = Idle
    \/ /\ PaymentWorker(v)'
       /\ worker'[v].origin = "initiate" => worker[v].origin = "initiate" /\ worker'[v].attempt = worker[v].attempt

\* What does not change stays known.
LEMMA SameKept ==
    ASSUME NEW a \in Attempts, Same(a), Money(a)
    PROVE  Money(a)' /\ Forward(a)
BY DEF Same, Money, Forward, SettledPayment

\* A worker that keeps still stays in agreement with the payments.
LEMMA StillWorker ==
    ASSUME IInv, NEW v \in Workers, worker'[v] = worker[v], worker[v] # Idle, PaymentWorker(v),
           Forward(worker[v].attempt)
    PROVE  PaymentWorker(v)'
<1>1. attempt[worker[v].attempt].status # "none"
  BY DEF IInv, ShapeInv, WorkersShaped
<1>2. QED
  BY <1>1 DEF PaymentWorker, Forward

\* A step that only goes forward keeps the payments in order.
LEMMA PaymentsGo ==
    ASSUME IInv, PaymentInv, \A a \in Attempts : Money(a)' /\ Forward(a), \A v \in Workers : WorkerPays(v)
    PROVE  PaymentInv'
<1>1. \A v \in Workers : worker[v] # Idle => worker[v].attempt \in Attempts /\ attempt[worker[v].attempt].status # "none"
  BY DEF IInv, ShapeInv, WorkersShaped
<1>2. Idle.origin = "none"
  BY DEF Idle
<1>3. \A v \in Workers : worker'[v].origin = "initiate" =>
          /\ worker[v].origin = "initiate" /\ worker'[v].attempt = worker[v].attempt
          /\ attempt'[worker[v].attempt].target = attempt[worker[v].attempt].target
  BY <1>1, <1>2 DEF WorkerPays, Forward
<1>4. OneCheckout'
  BY <1>3 DEF PaymentInv, OneCheckout
<1>5. ASSUME NEW v \in Workers, worker'[v] # Idle PROVE PaymentWorker(v)'
  BY <1>1, <1>5, StillWorker DEF PaymentInv, WorkerPays
<1>6. QED
  BY <1>4, <1>5 DEF PaymentInv, MoneyInv

\* The same for a step of one worker on one attempt.
LEMMA PaymentGoes ==
    ASSUME IInv, PaymentInv, NEW x \in Attempts, Money(x)', Forward(x), \A a \in Attempts \ {x} : Same(a),
           UNCHANGED worker \/ \E w \in Workers : WorkerStep(w) /\ WorkerPays(w)
    PROVE  PaymentInv'
<1>1. \A a \in Attempts : Money(a)' /\ Forward(a)
  BY SameKept DEF PaymentInv, MoneyInv
<1>2. \A v \in Workers : WorkerPays(v)
  BY DEF WorkerStep, WorkerPays
<1>3. QED
  BY <1>1, <1>2, PaymentsGo

\* ... and for a step that changes no payment.
LEMMA PaymentsQuiet ==
    ASSUME IInv, PaymentInv, \A a \in Attempts : Same(a),
           UNCHANGED worker \/ \E w \in Workers : WorkerStep(w) /\ WorkerPays(w)
    PROVE  PaymentInv'
<1>1. \A a \in Attempts : Money(a)' /\ Forward(a)
  BY SameKept DEF PaymentInv, MoneyInv
<1>2. \A v \in Workers : WorkerPays(v)
  BY DEF WorkerStep, WorkerPays
<1>3. QED
  BY <1>1, <1>2, PaymentsGo

\* What is known of the payment a worker is busy with.
LEMMA PayingWorker ==
    ASSUME IInv, PaymentInv, NEW w \in Workers, worker[w].pc # "idle"
    PROVE  worker[w] # Idle /\ worker[w].attempt \in Attempts /\ PaymentWorker(w) /\ Money(worker[w].attempt)
BY AtWork DEF PaymentInv, MoneyInv

\* The rows and PayMongo as they were.
LEMMA NothingPaid ==
    ASSUME UNCHANGED <<attempt, booking, paymongo, refund>>
    PROVE  \A a \in Attempts : Same(a)
BY DEF Same, paymongo

\* Nobody who acts on the request or on a booking touches a payment.
LEMMA RequestPays ==
    ASSUME IInv, PaymentInv,
           \/ \E o \in Offers : SubmitOffer(o) \/ RejectOffer(o) \/ CreateDirectFromOffer(o)
           \/ \E k \in CashRequests : CreateDirectRequest(k)
           \/ RequestStep \/ DeclineListingInquiry \/ RemoveRequest \/ RestoreRequest
           \/ \E b \in Bookings : ReviewBooking(b) \/ EndBooking(b)
    PROVE  PaymentInv'
<1>1. booking \in [Bookings -> {"none", "active", "review", "completed", "canceled"}]
  BY DEF IInv, TypeOK
<1>2. /\ Attempts \subseteq Bookings
      /\ \A b \in Offers \cup CashRequests : b \notin Attempts
  BY TargetsAssumption DEF Attempts, Bookings
<1>3. ASSUME UNCHANGED <<attempt, paymongo, refund, worker>>,
             \/ UNCHANGED booking
             \/ \E b \in Offers \cup CashRequests : booking' = [booking EXCEPT ![b] = "active"]
             \/ \E b \in Bookings, end \in {"review", "completed", "canceled"} :
                    booking[b] \in {"active", "review"} /\ booking' = [booking EXCEPT ![b] = end]
      PROVE  PaymentInv'
  <2>1. \A a \in Attempts : (booking'[a] = "none") <=> (booking[a] = "none")
    BY <1>1, <1>2, <1>3
  <2>2. \A a \in Attempts : Same(a)
    BY <1>3, <2>1 DEF Same, paymongo
  <2>3. QED
    BY <1>3, <2>2, PaymentsQuiet
<1>4. ASSUME NEW o \in Offers, SubmitOffer(o) \/ RejectOffer(o) PROVE PaymentInv'
  BY <1>3, <1>4 DEF SubmitOffer, RejectOffer
<1>5. ASSUME NEW o \in Offers, CreateDirectFromOffer(o) PROVE PaymentInv'
  BY <1>3, <1>5 DEF CreateDirectFromOffer
<1>6. ASSUME NEW k \in CashRequests, CreateDirectRequest(k) PROVE PaymentInv'
  BY <1>3, <1>6 DEF CreateDirectRequest
<1>7. CASE RequestStep \/ DeclineListingInquiry \/ RemoveRequest \/ RestoreRequest
  BY <1>3, <1>7 DEF RequestStep, PauseRequest, ReopenRequest, CancelRequest, DeclineListingInquiry, RemoveRequest, RestoreRequest
<1>8. ASSUME NEW b \in Bookings, ReviewBooking(b) \/ EndBooking(b) PROVE PaymentInv'
  BY <1>3, <1>8 DEF ReviewBooking, EndBooking
<1>9. QED
  BY <1>4, <1>5, <1>6, <1>7, <1>8

\* A worker looks at the payment, and decides where to go on.
LEMMA ReadingPays ==
    ASSUME IInv, PaymentInv, NEW w \in Workers,
           \/ CreateIntentFails(w) \/ ResumeInitiation(w) \/ ReadIntent(w) \/ FinalizeAgain(w) \/ Crash(w)
           \/ \E a \in Attempts : WebhookPaid(w, a) \/ PaymentReturn(w, a) \/ RetryPaymentReconciliation(w, a)
    PROVE  PaymentInv'
<1> DEFINE x == worker[w].attempt
<1>1. TypeOK /\ AttemptsShaped
  BY DEF IInv, ShapeInv
<1>2. worker[w].pc # "idle" => x \in Attempts /\ PaymentWorker(w) /\ Money(x)
  BY PayingWorker
<1>3. ASSUME UNCHANGED <<attempt, booking, paymongo, refund>>, WorkerStep(w), WorkerPays(w) PROVE PaymentInv'
  BY <1>3, NothingPaid, PaymentsQuiet
<1>4. worker' = [worker EXCEPT ![w] = Idle] => WorkerStep(w) /\ WorkerPays(w)
  <2>1. Idle \in WorkerType
    BY DEF Idle, WorkerType, PCs
  <2>2. QED
    BY <1>1, <2>1, TaskStep DEF WorkerPays
<1>5. CASE CreateIntentFails(w)
  <2>1. /\ worker[w].pc = "gateway" /\ Goto(w, "fail") /\ UNCHANGED <<attempt, booking, paymongo, refund>>
    BY <1>5 DEF CreateIntentFails
  <2>2. /\ WorkerStep(w) /\ worker'[w].pc = "fail"
        /\ worker'[w].attempt = x /\ worker'[w].origin = worker[w].origin
    BY <1>1, <2>1, GotoStep DEF PCs
  <2>3. WorkerPays(w)
    BY <1>2, <2>1, <2>2 DEF WorkerPays, PaymentWorker, Initiating, Refunding
  <2>4. QED
    BY <1>3, <2>1, <2>2, <2>3
<1>6. CASE ResumeInitiation(w)
  <2>1. /\ worker[w].pc = "resume" /\ UNCHANGED <<attempt, booking, paymongo, refund>>
        /\ Goto(w, "prepare") \/ worker' = [worker EXCEPT ![w] = Idle]
    BY <1>6 DEF ResumeInitiation
  <2>2. CASE Goto(w, "prepare")
    <3>1. /\ WorkerStep(w) /\ worker'[w].pc = "prepare"
          /\ worker'[w].attempt = x /\ worker'[w].origin = worker[w].origin
      BY <1>1, <2>2, GotoStep DEF PCs
    <3>2. WorkerPays(w)
      BY <1>2, <2>1, <3>1 DEF WorkerPays, PaymentWorker, Initiating, Refunding
    <3>3. QED
      BY <1>3, <2>1, <3>1, <3>2
  <2>3. QED
    BY <1>3, <1>4, <2>1, <2>2
<1>7. ASSUME Return(w), worker[w].pc # "idle", worker[w].origin = "webhook" => SettledPayment(x) /\ intent[x] = "succeeded",
             UNCHANGED <<attempt, booking, paymongo, refund>>
      PROVE  PaymentInv'
  <2>1. /\ WorkerStep(w)
        /\ \/ worker'[w] = Idle
           \/ /\ worker'[w].attempt = x /\ worker'[w].origin = worker[w].origin
              /\ \/ worker[w].origin = "webhook" /\ worker'[w].pc = "ack"
                 \/ worker[w].origin = "initiate" /\ worker'[w].pc = "resume"
    BY <1>1, <1>7, ReturnStep
  <2>2. WorkerPays(w)
    BY <1>7, <2>1 DEF WorkerPays, PaymentWorker, SettledPayment, Initiating, Refunding, paymongo
  <2>3. QED
    BY <1>3, <1>7, <2>1, <2>2
<1>8. CASE ReadIntent(w)
  <2>1. /\ worker[w].pc = "return" /\ UNCHANGED <<attempt, booking, paymongo, refund>>
        /\ \/ Goto(w, "finalize") /\ intent[x] = "succeeded"
           \/ Goto(w, "mark_failed") \/ Return(w)
    BY <1>8 DEF ReadIntent
  <2>2. worker[w].origin # "webhook"
    BY <1>2, <2>1 DEF PaymentWorker, Refunding
  <2>3. ASSUME NEW pc \in {"finalize", "mark_failed"}, Goto(w, pc), pc = "finalize" => intent[x] = "succeeded"
        PROVE  PaymentInv'
    <3>1. WorkerStep(w) /\ worker'[w].pc = pc /\ worker'[w].attempt = x /\ worker'[w].origin = worker[w].origin
      BY <1>1, <2>3, GotoStep DEF PCs
    <3>2. WorkerPays(w)
      BY <2>1, <2>2, <2>3, <3>1 DEF WorkerPays, PaymentWorker, Initiating, Refunding, paymongo
    <3>3. QED
      BY <1>3, <2>1, <3>1, <3>2
  <2>4. QED
    BY <1>7, <2>1, <2>2, <2>3
<1>9. CASE FinalizeAgain(w)
  <2>1. /\ worker[w].pc = "finalize" /\ AlreadyFinal(x) /\ UNCHANGED <<attempt, booking, paymongo, refund>>
        /\ IF attempt[x].status = "REFUND_REQUIRED" THEN Goto(w, "refund_read") ELSE Return(w)
    BY <1>9 DEF FinalizeAgain
  <2>2. intent[x] = "succeeded"
    BY <1>2, <2>1 DEF PaymentWorker
  <2>3. CASE attempt[x].status = "REFUND_REQUIRED"
    <3>1. WorkerStep(w) /\ worker'[w].pc = "refund_read" /\ worker'[w].attempt = x /\ worker'[w].origin = worker[w].origin
      BY <1>1, <2>1, <2>3, GotoStep DEF PCs
    <3>2. WorkerPays(w)
      BY <2>1, <2>2, <2>3, <3>1 DEF WorkerPays, PaymentWorker, Initiating, Refunding, paymongo
    <3>3. QED
      BY <1>3, <2>1, <3>1, <3>2
  <2>4. CASE attempt[x].status # "REFUND_REQUIRED"
    <3>1. SettledPayment(x)
      BY <1>2, <2>1, <2>4 DEF AlreadyFinal, SettledPayment, Money
    <3>2. QED
      BY <1>7, <2>1, <2>2, <2>4, <3>1
  <2>5. QED
    BY <2>3, <2>4
<1>10. CASE Crash(w)
  BY <1>3, <1>4, <1>10 DEF Crash
<1>11. ASSUME NEW a \in Attempts, WebhookPaid(w, a) \/ PaymentReturn(w, a) \/ RetryPaymentReconciliation(w, a)
       PROVE  PaymentInv'
  <2>1. Money(a) /\ UNCHANGED <<attempt, booking, paymongo, refund>>
    BY <1>11 DEF WebhookPaid, PaymentReturn, RetryPaymentReconciliation, PaymentInv, MoneyInv
  <2>2. PICK p \in {"finalize", "return", "refund_read"}, o \in {"webhook", "return", "admin"} :
            /\ worker' = [worker EXCEPT ![w] = [pc |-> p, attempt |-> a, origin |-> o]]
            /\ p = "finalize" /\ o = "webhook" => <<a, "paid">> \in events
            /\ p = "refund_read" => attempt[a].status = "REFUND_REQUIRED"
            /\ p = "finalize" <=> o = "webhook"
    BY <1>11 DEF WebhookPaid, PaymentReturn, RetryPaymentReconciliation
  <2> DEFINE n == [pc |-> p, attempt |-> a, origin |-> o]
  <2>3. n \in WorkerType /\ n.pc = p /\ n.attempt = a /\ n.origin = o /\ worker' = [worker EXCEPT ![w] = n]
    BY <2>2 DEF WorkerType, PCs
  <2> HIDE DEF n
  <2>4. WorkerStep(w) /\ worker'[w] = n
    BY <1>1, <2>3, TaskStep
  <2>5. <<a, "paid">> \in events \/ attempt[a].status = "REFUND_REQUIRED" => intent[a] = "succeeded"
    BY <2>1 DEF Money
  <2>6. WorkerPays(w)
    BY <2>1, <2>2, <2>3, <2>5, <2>4 DEF WorkerPays, PaymentWorker, Initiating, Refunding, paymongo
  <2>7. QED
    BY <1>3, <2>1, <2>6, <2>4
<1>12. QED
  BY <1>5, <1>6, <1>8, <1>9, <1>10, <1>11

\* An attempt that nobody paid for fails or expires.
LEMMA GivingUp ==
    ASSUME IInv, PaymentInv, NEW x \in Attempts, attempt[x].status \notin {"SUCCEEDED", "REFUND_REQUIRED", "REFUNDED"},
           NEW s \in {"FAILED", "EXPIRED"}, SetStatus(x, s), UNCHANGED <<booking, intent, returned, refund>>,
           \A a \in Attempts : (<<a, "paid">> \in events') <=> (<<a, "paid">> \in events),
           UNCHANGED worker \/ \E w \in Workers : WorkerStep(w) /\ WorkerPays(w)
    PROVE  PaymentInv'
<1>1. AttemptStep(x) /\ attempt'[x].status = s /\ attempt'[x].registered = attempt[x].registered
  BY StatusStep DEF IInv, AttemptStatus
<1>2. Money(x)
  BY DEF PaymentInv, MoneyInv
<1>3. Money(x)' /\ Forward(x)
  BY <1>1, <1>2 DEF Money, Forward, SettledPayment, AttemptStep
<1>4. ASSUME NEW a \in Attempts, a # x PROVE Same(a)
  <2>1. attempt'[a] = attempt[a]
    BY <1>1, <1>4 DEF AttemptStep
  <2>2. QED
    BY <2>1 DEF Same
<1>5. QED
  BY <1>3, <1>4, PaymentGoes

\* A failed event, the browser or the timer finds that nobody paid.
LEMMA FailurePays ==
    ASSUME IInv, PaymentInv, NEW x \in Attempts, MarkPaymentAttemptFailed(x),
           UNCHANGED <<booking, intent, returned, refund>>,
           \A a \in Attempts : (<<a, "paid">> \in events') <=> (<<a, "paid">> \in events),
           UNCHANGED worker \/ \E w \in Workers : WorkerStep(w) /\ WorkerPays(w)
    PROVE  PaymentInv'
<1>1. CASE attempt[x].status = "PENDING"
  BY <1>1, GivingUp DEF MarkPaymentAttemptFailed
<1>2. CASE attempt[x].status # "PENDING"
  <2>1. attempt' = attempt
    BY <1>2 DEF MarkPaymentAttemptFailed
  <2>2. ASSUME NEW a \in Attempts PROVE Same(a)
    BY <2>1 DEF Same
  <2>3. QED
    BY <2>2, PaymentsQuiet
<1>3. QED
  BY <1>1, <1>2

\* The seeker pays or fails to, the timer and PayMongo report it.
LEMMA OutsidePays ==
    ASSUME IInv, PaymentInv, NEW a \in Attempts,
           SeekerPays(a) \/ SeekerFailsToPay(a) \/ WebhookFailed(a) \/ ExpireStalePaymentAttempt(a) \/ Lapse(a)
    PROVE  PaymentInv'
<1>1. Money(a) /\ intent \in [Attempts -> {"none", "open", "failed", "succeeded"}] /\ attempt \in [Attempts -> AttemptType]
  BY Types DEF PaymentInv, MoneyInv, IInv, TypeOK
<1>2. CASE SeekerPays(a)
  <2>1. /\ intent[a] = "open" /\ attempt[a].registered
        /\ intent' = [intent EXCEPT ![a] = "succeeded"] /\ events' = events \cup {<<a, "paid">>}
        /\ UNCHANGED <<attempt, booking, returned, refund, worker>>
    BY <1>2 DEF SeekerPays
  <2>2. intent'[a] = "succeeded" /\ <<a, "paid">> \in events' /\ \A b \in Attempts \ {a} : intent'[b] = intent[b]
    BY <1>1, <2>1
  <2>3. Money(a)' /\ Forward(a)
    BY <1>1, <2>1, <2>2 DEF Money, Forward, SettledPayment
  <2>4. \A b \in Attempts \ {a} : Same(b)
    BY <2>1, <2>2 DEF Same
  <2>5. QED
    BY <2>1, <2>3, <2>4, PaymentGoes
<1>3. CASE SeekerFailsToPay(a)
  <2>1. /\ intent[a] = "open" /\ intent' = [intent EXCEPT ![a] = "failed"] /\ events' = events \cup {<<a, "failed">>}
        /\ UNCHANGED <<attempt, booking, returned, refund, worker>>
    BY <1>3 DEF SeekerFailsToPay
  <2>2. intent'[a] = "failed" /\ \A b \in Attempts \ {a} : intent'[b] = intent[b]
    BY <1>1, <2>1
  <2>3. \A b \in Attempts : (<<b, "paid">> \in events') <=> (<<b, "paid">> \in events)
    BY <2>1
  <2>4. Money(a)' /\ Forward(a)
    BY <1>1, <2>1, <2>2, <2>3 DEF Money, Forward, SettledPayment
  <2>5. \A b \in Attempts \ {a} : Same(b)
    BY <2>1, <2>2, <2>3 DEF Same
  <2>6. QED
    BY <2>1, <2>4, <2>5, PaymentGoes
<1>4. CASE WebhookFailed(a)
  <2>1. /\ MarkPaymentAttemptFailed(a) /\ events' \in {events, events \ {<<a, "failed">>}}
        /\ UNCHANGED <<booking, intent, returned, refund, worker>>
    BY <1>4 DEF WebhookFailed
  <2>2. \A b \in Attempts : (<<b, "paid">> \in events') <=> (<<b, "paid">> \in events)
    BY <2>1
  <2>3. QED
    BY <2>1, <2>2, FailurePays
<1>5. CASE ExpireStalePaymentAttempt(a)
  BY <1>5, GivingUp DEF ExpireStalePaymentAttempt, paymongo
<1>6. CASE Lapse(a)
  <2>1. attempt' = [attempt EXCEPT ![a].late = TRUE] /\ UNCHANGED <<booking, paymongo, refund, worker>>
    BY <1>6 DEF Lapse
  <2>2. \A b \in Attempts : /\ attempt'[b].status = attempt[b].status /\ attempt'[b].target = attempt[b].target
                            /\ attempt'[b].registered = attempt[b].registered
    BY <1>1, <2>1 DEF AttemptType
  <2>3. \A b \in Attempts : Same(b)
    BY <2>1, <2>2 DEF Same, paymongo
  <2>4. QED
    BY <2>1, <2>3, PaymentsQuiet
<1>7. QED
  BY <1>2, <1>3, <1>4, <1>5, <1>6

\* A worker initiates a payment: nobody can have paid before it is through.
LEMMA InitiatingPays ==
    ASSUME IInv, PaymentInv, NEW w \in Workers, CreateIntent(w) \/ InitiationFailed(w) \/ StoreIntent(w)
    PROVE  PaymentInv'
<1>1. /\ TypeOK /\ intent \in [Attempts -> {"none", "open", "failed", "succeeded"}]
      /\ attempt \in [Attempts -> AttemptType]
  BY Types DEF IInv, TypeOK
<1>2. worker[w].pc \in Initiating
  BY DEF Initiating, CreateIntent, InitiationFailed, StoreIntent
<1>3. PICK x \in Attempts : x = worker[w].attempt /\ PaymentWorker(w) /\ Money(x) /\ worker[w] # Idle
  BY <1>2, PayingWorker DEF Initiating
<1>4. ~attempt[x].registered /\ worker[w].origin = "initiate"
  BY <1>2, <1>3 DEF PaymentWorker
<1>5. intent[x] # "succeeded" /\ attempt[x].status \notin {"SUCCEEDED", "REFUND_REQUIRED", "REFUNDED"}
  BY <1>3, <1>4 DEF Money
<1>6. worker' = [worker EXCEPT ![w] = Idle] => WorkerStep(w) /\ worker'[w] = Idle /\ WorkerPays(w)
  <2>1. Idle \in WorkerType
    BY DEF Idle, WorkerType, PCs
  <2>2. QED
    BY <1>1, <2>1, TaskStep DEF WorkerPays
<1>7. CASE CreateIntent(w)
  <2>1. /\ worker[w].pc = "gateway" /\ Goto(w, "store") /\ intent' = [intent EXCEPT ![x] = "open"]
        /\ UNCHANGED <<attempt, booking, events, returned, refund>>
    BY <1>3, <1>7 DEF CreateIntent
  <2>2. intent'[x] = "open" /\ \A a \in Attempts \ {x} : intent'[a] = intent[a]
    BY <1>1, <1>3, <2>1
  <2>3. Money(x)' /\ Forward(x)
    <3>1. /\ booking[x] = "none" /\ x \notin returned /\ refund[x] # "DONE" /\ <<x, "paid">> \notin events
          /\ ~SettledPayment(x)
      BY <1>3, <1>5 DEF Money, SettledPayment
    <3>2. Money(x)'
      BY <1>5, <2>1, <2>2, <3>1 DEF Money
    <3>3. Forward(x)
      BY <1>5, <2>1, <3>1 DEF Forward
    <3>4. QED
      BY <3>2, <3>3
  <2>4. \A a \in Attempts \ {x} : Same(a)
    BY <2>1, <2>2 DEF Same
  <2>5. WorkerStep(w) /\ worker'[w].pc = "store" /\ worker'[w].attempt = x /\ worker'[w].origin = worker[w].origin
    BY <1>1, <1>3, <2>1, GotoStep DEF PCs
  <2>6. WorkerPays(w)
    BY <1>3, <1>4, <2>1, <2>5 DEF WorkerPays, PaymentWorker, Initiating, Refunding
  <2>7. QED
    BY <1>3, <2>3, <2>4, <2>5, <2>6, PaymentGoes
<1>8. CASE InitiationFailed(w)
  <2>1. /\ SetStatus(x, "FAILED") /\ worker' = [worker EXCEPT ![w] = Idle]
        /\ UNCHANGED <<booking, intent, events, returned, refund>>
    BY <1>3, <1>8 DEF InitiationFailed, paymongo
  <2>2. QED
    BY <1>3, <1>5, <1>6, <2>1, GivingUp
<1>9. CASE StoreIntent(w)
  <2>1. /\ attempt' = [attempt EXCEPT ![x].registered = TRUE] /\ worker' = [worker EXCEPT ![w] = Idle]
        /\ UNCHANGED <<booking, intent, events, returned, refund>>
    BY <1>3, <1>9 DEF StoreIntent, paymongo
  <2>2. /\ \A a \in Attempts : attempt'[a].status = attempt[a].status /\ attempt'[a].target = attempt[a].target
        /\ \A a \in Attempts \ {x} : attempt'[a].registered = attempt[a].registered
    BY <1>1, <2>1 DEF AttemptType
  <2>3. \A a \in Attempts \ {x} : Same(a)
    BY <2>1, <2>2 DEF Same
  <2>4. \A a \in Attempts \ {x} : Money(a)' /\ Forward(a)
    BY <2>3, SameKept DEF PaymentInv, MoneyInv
  <2>5. Money(x)'
    <3>1. /\ booking[x] = "none" /\ x \notin returned /\ refund[x] # "DONE" /\ <<x, "paid">> \notin events
      BY <1>3, <1>5 DEF Money
    <3>2. QED
      BY <1>3, <1>5, <2>1, <2>2, <3>1 DEF Money
  <2>6. WorkerStep(w) /\ worker'[w] = Idle
    BY <1>6, <2>1
  <2>7. ASSUME NEW v \in Workers, worker'[v] # Idle PROVE PaymentWorker(v)'
    <3>1. v # w /\ worker'[v] = worker[v] /\ worker[v].attempt \in Attempts
      BY <2>6, <2>7 DEF WorkerStep, IInv, ShapeInv, WorkersShaped
    <3>2. PaymentWorker(v)
      BY <2>7, <3>1 DEF PaymentInv
    <3>3. CASE worker[v].attempt # x
      BY <2>4, <2>7, <3>1, <3>2, <3>3, StillWorker
    <3>4. CASE worker[v].attempt = x
      <4>1. worker[v].pc \notin Initiating
        <5>1. worker[v].origin # "initiate"
          BY <1>3, <1>4, <3>1, <3>4 DEF PaymentInv, OneCheckout
        <5>2. QED
          BY <3>2, <5>1 DEF PaymentWorker
      <4>2. QED
        BY <2>1, <2>2, <3>1, <3>2, <4>1 DEF PaymentWorker, SettledPayment
    <3>5. QED
      BY <3>3, <3>4
  <2>8. OneCheckout'
    <3>1. Idle.origin = "none"
      BY DEF Idle
    <3>2. \A v \in Workers : worker'[v].origin = "initiate" =>
              /\ worker'[v] = worker[v] /\ worker[v].attempt \in Attempts
              /\ attempt'[worker[v].attempt].target = attempt[worker[v].attempt].target
      BY <2>2, <2>6, <3>1 DEF WorkerStep, IInv, ShapeInv, WorkersShaped
    <3>3. QED
      BY <3>2 DEF PaymentInv, OneCheckout
  <2>9. \A a \in Attempts : Money(a)'
    BY <2>4, <2>5
  <2>10. QED
    BY <2>7, <2>8, <2>9 DEF PaymentInv, MoneyInv
<1>10. QED
  BY <1>7, <1>8, <1>9

\* A worker that returns to whoever called goes on with its payment.
LEMMA ReturnPays ==
    ASSUME IInv, NEW w \in Workers, NEW x \in Attempts, x = worker[w].attempt, Return(w),
           worker[w].origin = "webhook" => SettledPayment(x)' /\ intent'[x] = "succeeded"
    PROVE  WorkerStep(w) /\ WorkerPays(w)
<1>1. /\ WorkerStep(w)
      /\ \/ worker'[w] = Idle
         \/ /\ worker'[w].attempt = x /\ worker'[w].origin = worker[w].origin
            /\ \/ worker[w].origin = "webhook" /\ worker'[w].pc = "ack"
               \/ worker[w].origin = "initiate" /\ worker'[w].pc = "resume"
  BY ReturnStep DEF IInv
<1>2. WorkerPays(w)
  BY <1>1 DEF WorkerPays, PaymentWorker, SettledPayment, Initiating, Refunding
<1>3. QED
  BY <1>1, <1>2

\* A worker reports that nobody paid, or has its webhook acknowledged.
LEMMA ReportPays ==
    ASSUME IInv, PaymentInv, NEW w \in Workers, MarkFailed(w) \/ AcknowledgeWebhook(w)
    PROVE  PaymentInv'
<1>1. worker[w].pc # "idle" /\ TypeOK
  BY DEF MarkFailed, AcknowledgeWebhook, IInv
<1>2. PICK x \in Attempts : x = worker[w].attempt /\ PaymentWorker(w) /\ Money(x)
  BY <1>1, PayingWorker
<1>3. CASE MarkFailed(w)
  <2>1. /\ worker[w].pc = "mark_failed" /\ MarkPaymentAttemptFailed(x) /\ Return(w)
        /\ UNCHANGED <<booking, intent, events, returned, refund>>
    BY <1>2, <1>3 DEF MarkFailed, paymongo
  <2>2. worker[w].origin # "webhook"
    BY <1>2, <2>1 DEF PaymentWorker, Refunding
  <2>3. WorkerStep(w) /\ WorkerPays(w)
    BY <1>2, <2>1, <2>2, ReturnPays
  <2>4. QED
    BY <2>1, <2>3, FailurePays
<1>4. CASE AcknowledgeWebhook(w)
  <2>1. /\ worker[w].pc = "ack" /\ events' = events \ {<<x, "paid">>} /\ worker' = [worker EXCEPT ![w] = Idle]
        /\ UNCHANGED <<attempt, booking, intent, returned, refund>>
    BY <1>2, <1>4 DEF AcknowledgeWebhook, requestVars
  <2>2. SettledPayment(x)
    BY <1>2, <2>1 DEF PaymentWorker
  <2>3. Money(x)' /\ Forward(x)
    BY <1>2, <2>1, <2>2 DEF Money, Forward, SettledPayment
  <2>4. \A a \in Attempts \ {x} : Same(a)
    BY <2>1 DEF Same
  <2>5. Idle \in WorkerType
    BY DEF Idle, WorkerType, PCs
  <2>6. WorkerStep(w) /\ WorkerPays(w)
    BY <1>1, <2>1, <2>5, TaskStep DEF WorkerPays
  <2>7. QED
    BY <2>3, <2>4, <2>6, PaymentGoes
<1>5. QED
  BY <1>3, <1>4

\* The finalizer decides a captured payment, once.
LEMMA FinalizingPays ==
    ASSUME IInv, PaymentInv, NEW w \in Workers, FinalizeRefused(w) \/ FinalizeWithoutHold(w) \/ FinalizeBooks(w)
    PROVE  PaymentInv'
<1>1. worker[w].pc = "finalize" /\ TypeOK
  BY DEF FinalizeRefused, FinalizeWithoutHold, FinalizeBooks, IInv
<1>2. PICK x \in Attempts : x = worker[w].attempt /\ PaymentWorker(w) /\ Money(x)
  BY <1>1, PayingWorker
<1>3. intent[x] = "succeeded" /\ ~AlreadyFinal(x)
  BY <1>1, <1>2 DEF PaymentWorker, FinalizeRefused, FinalizeWithoutHold, FinalizeBooks
<1>4. /\ attempt[x].status \notin {"SUCCEEDED", "REFUND_REQUIRED", "REFUNDED"} /\ booking[x] = "none"
      /\ x \notin returned /\ refund[x] # "DONE" /\ attempt[x].registered /\ <<x, "paid">> \in events
      /\ ~SettledPayment(x)
  BY <1>2, <1>3 DEF Money, AlreadyFinal, SettledPayment
<1>5. CASE FinalizeRefused(w) \/ FinalizeWithoutHold(w)
  <2>1. /\ SetStatus(x, "REFUND_REQUIRED") /\ Goto(w, "refund_read")
        /\ UNCHANGED <<booking, intent, events, returned, refund>>
    BY <1>2, <1>5 DEF FinalizeRefused, FinalizeWithoutHold, paymongo
  <2>2. AttemptStep(x) /\ attempt'[x].status = "REFUND_REQUIRED" /\ attempt'[x].registered = attempt[x].registered
    BY <1>1, <2>1, StatusStep DEF AttemptStatus
  <2>3. Money(x)'
    BY <1>3, <1>4, <2>1, <2>2 DEF Money
  <2>4. Forward(x)
    BY <1>3, <1>4, <2>1, <2>2 DEF Forward, AttemptStep
  <2>5. ASSUME NEW a \in Attempts, a # x PROVE Same(a)
    <3>1. attempt'[a] = attempt[a]
      BY <2>2, <2>5 DEF AttemptStep
    <3>2. QED
      BY <2>1, <3>1 DEF Same
  <2>6. WorkerStep(w) /\ worker'[w].pc = "refund_read" /\ worker'[w].attempt = x /\ worker'[w].origin = worker[w].origin
    BY <1>1, <1>2, <2>1, GotoStep DEF PCs
  <2>7. WorkerPays(w)
    BY <1>2, <1>3, <2>1, <2>2, <2>6 DEF WorkerPays, PaymentWorker, Initiating, Refunding
  <2>8. QED
    BY <2>3, <2>4, <2>5, <2>6, <2>7, PaymentGoes
<1>6. CASE FinalizeBooks(w)
  <2>1. /\ SetStatus(x, "SUCCEEDED") /\ booking' = [booking EXCEPT ![x] = "active"] /\ Return(w)
        /\ UNCHANGED <<intent, events, returned, refund>>
    BY <1>2, <1>6 DEF FinalizeBooks, paymongo
  <2>2. AttemptStep(x) /\ attempt'[x].status = "SUCCEEDED" /\ attempt'[x].registered = attempt[x].registered
    BY <1>1, <2>1, StatusStep DEF AttemptStatus
  <2>3. booking'[x] = "active" /\ \A a \in Attempts \ {x} : booking'[a] = booking[a]
    BY <1>1, <2>1 DEF TypeOK, Bookings
  <2>4. Money(x)'
    BY <1>3, <1>4, <2>1, <2>2, <2>3 DEF Money
  <2>5. Forward(x)
    BY <1>3, <1>4, <2>1, <2>2 DEF Forward, AttemptStep
  <2>6. ASSUME NEW a \in Attempts, a # x PROVE Same(a)
    <3>1. attempt'[a] = attempt[a] /\ booking'[a] = booking[a]
      BY <2>2, <2>3, <2>6 DEF AttemptStep
    <3>2. QED
      BY <2>1, <3>1 DEF Same
  <2>7. SettledPayment(x)' /\ intent'[x] = "succeeded"
    BY <1>3, <2>1, <2>2, <2>3 DEF SettledPayment
  <2>8. WorkerStep(w) /\ WorkerPays(w)
    BY <1>2, <2>1, <2>7, ReturnPays
  <2>9. QED
    BY <2>4, <2>5, <2>6, <2>8, PaymentGoes
<1>7. QED
  BY <1>5, <1>6

\* The refund of a captured payment: only an attempt that bought nothing.
LEMMA RefundPays ==
    ASSUME IInv, PaymentInv, NEW w \in Workers,
           RefundRead(w) \/ CreateRefund(w) \/ CreateRefundFails(w) \/ RefundStore(w) \/ RefundFail(w)
    PROVE  PaymentInv'
<1>1. /\ worker[w].pc \in Refunding /\ worker[w].pc # "idle" /\ TypeOK
      /\ refund \in [Attempts -> {"none", "PENDING", "FAILED", "DONE"}]
  BY DEF RefundRead, CreateRefund, CreateRefundFails, RefundStore, RefundFail, Refunding, IInv, TypeOK
<1>2. PICK x \in Attempts : x = worker[w].attempt /\ PaymentWorker(w) /\ Money(x)
  BY <1>1, PayingWorker
<1>3. /\ intent[x] = "succeeded" /\ attempt[x].status \in {"REFUND_REQUIRED", "REFUNDED"}
      /\ worker[w].pc = "refund_store" => x \in returned
  BY <1>1, <1>2 DEF PaymentWorker
<1>4. booking[x] = "none" /\ attempt[x].registered /\ (attempt[x].status = "REFUNDED" => SettledPayment(x))
  BY <1>2, <1>3 DEF Money, SettledPayment
<1>5. ASSUME NEW pc \in {"refund_call", "refund_store", "refund_fail"}, Goto(w, pc),
             pc = "refund_store" => x \in returned', UNCHANGED <<attempt, intent>>
      PROVE  WorkerStep(w) /\ WorkerPays(w)
  <2>1. WorkerStep(w) /\ worker'[w].pc = pc /\ worker'[w].attempt = x /\ worker'[w].origin = worker[w].origin
    BY <1>1, <1>2, <1>5, GotoStep DEF PCs
  <2>2. WorkerPays(w)
    BY <1>2, <1>3, <1>5, <2>1 DEF WorkerPays, PaymentWorker, Initiating, Refunding
  <2>3. QED
    BY <2>1, <2>2
<1>6. CASE RefundRead(w)
  <2>1. UNCHANGED <<attempt, booking, intent, events, returned>>
    BY <1>6 DEF RefundRead, requestVars, paymongo
  <2>2. CASE attempt[x].status = "REFUND_REQUIRED"
    <3>1. refund[x] # "DONE"
      BY <1>2, <2>2 DEF Money
    <3>2. refund' = [refund EXCEPT ![x] = IF @ = "none" THEN "PENDING" ELSE @] /\ Goto(w, "refund_call")
      BY <1>2, <1>6, <2>2, <3>1 DEF RefundRead
    <3>3. \A a \in Attempts : (refund'[a] = "DONE") <=> (refund[a] = "DONE")
      BY <1>1, <3>1, <3>2
    <3>4. \A a \in Attempts : Same(a)
      BY <2>1, <3>3 DEF Same
    <3>5. WorkerStep(w) /\ WorkerPays(w)
      BY <1>5, <2>1, <3>2
    <3>6. QED
      BY <3>4, <3>5, PaymentsQuiet
  <2>3. CASE attempt[x].status # "REFUND_REQUIRED"
    <3>1. Return(w) /\ UNCHANGED refund
      BY <1>2, <1>6, <2>3 DEF RefundRead
    <3>2. SettledPayment(x)' /\ intent'[x] = "succeeded"
      BY <1>3, <1>4, <2>1, <2>3 DEF SettledPayment
    <3>3. WorkerStep(w) /\ WorkerPays(w)
      BY <1>2, <3>1, <3>2, ReturnPays
    <3>4. \A a \in Attempts : Same(a)
      BY <2>1, <3>1 DEF Same
    <3>5. QED
      BY <3>3, <3>4, PaymentsQuiet
  <2>4. QED
    BY <2>2, <2>3
<1>7. CASE CreateRefund(w) \/ CreateRefundFails(w)
  <2>1. /\ returned' = returned \/ returned' = returned \cup {x}
        /\ \/ Goto(w, "refund_store") /\ x \in returned'
           \/ Goto(w, "refund_fail")
        /\ UNCHANGED <<attempt, booking, intent, events, refund>>
    BY <1>2, <1>7 DEF CreateRefund, CreateRefundFails, requestVars
  <2>2. Money(x)' /\ Forward(x)
    BY <1>2, <1>3, <2>1 DEF Money, Forward, SettledPayment
  <2>3. \A a \in Attempts \ {x} : Same(a)
    BY <2>1 DEF Same
  <2>4. WorkerStep(w) /\ WorkerPays(w)
    BY <1>5, <2>1
  <2>5. QED
    BY <2>2, <2>3, <2>4, PaymentGoes
<1>8. CASE RefundStore(w)
  <2>1. /\ worker[w].pc = "refund_store" /\ refund' = [refund EXCEPT ![x] = "DONE"]
        /\ SetStatus(x, "REFUNDED") /\ Return(w) /\ UNCHANGED <<booking, intent, events, returned>>
    BY <1>2, <1>8 DEF RefundStore, requestVars, paymongo
  <2>2. AttemptStep(x) /\ attempt'[x].status = "REFUNDED" /\ attempt'[x].registered = attempt[x].registered
    BY <1>1, <2>1, StatusStep DEF AttemptStatus
  <2>3. SettledPayment(x)' /\ intent'[x] = "succeeded"
    BY <1>3, <2>1, <2>2 DEF SettledPayment
  <2>4. Money(x)'
    BY <1>3, <1>4, <2>1, <2>2, <2>3 DEF Money
  <2>5. Forward(x)
    BY <1>3, <2>1, <2>2, <2>3 DEF Forward, AttemptStep
  <2>6. ASSUME NEW a \in Attempts, a # x PROVE Same(a)
    <3>1. attempt'[a] = attempt[a] /\ refund'[a] = refund[a]
      BY <1>1, <2>1, <2>2, <2>6 DEF AttemptStep
    <3>2. QED
      BY <2>1, <3>1 DEF Same
  <2>7. WorkerStep(w) /\ WorkerPays(w)
    BY <1>2, <2>1, <2>3, ReturnPays
  <2>8. QED
    BY <2>4, <2>5, <2>6, <2>7, PaymentGoes
<1>9. CASE RefundFail(w)
  <2>1. /\ refund' = [refund EXCEPT ![x] = "FAILED"] /\ worker' = [worker EXCEPT ![w] = Idle]
        /\ UNCHANGED <<attempt, booking, intent, events, returned>>
    BY <1>2, <1>9 DEF RefundFail, requestVars, paymongo
  <2>2. refund'[x] = "FAILED" /\ \A a \in Attempts \ {x} : refund'[a] = refund[a]
    BY <1>1, <2>1
  <2>3. Money(x)' /\ Forward(x)
    BY <1>2, <2>1, <2>2 DEF Money, Forward, SettledPayment
  <2>4. \A a \in Attempts \ {x} : Same(a)
    BY <2>1, <2>2 DEF Same
  <2>5. Idle \in WorkerType
    BY DEF Idle, WorkerType, PCs
  <2>6. WorkerStep(w) /\ WorkerPays(w)
    BY <1>1, <2>1, <2>5, TaskStep DEF WorkerPays
  <2>7. QED
    BY <2>3, <2>4, <2>6, PaymentGoes
<1>10. QED
  BY <1>6, <1>7, <1>8, <1>9

\* A checkout request takes an attempt: the one checkout of its target.
LEMMA PreparingPays ==
    ASSUME IInv, PaymentInv, NEW w \in Workers, NEW t \in Targets, NEW x \in Attempts, Prepares(w, t, x),
           UNCHANGED <<booking, paymongo, refund>>,
           \A v \in Workers \ {w} : worker[v].origin = "initiate" => attempt[worker[v].attempt].target # t
    PROVE  PaymentInv'
<1>1. UNCHANGED <<booking, intent, events, returned, refund>>
  BY DEF paymongo
<1>2. /\ attempt'[x].target = t /\ attempt'[x].status = "PENDING"
      /\ \A a \in Attempts \ {x} : /\ attempt'[a].target = attempt[a].target
                                   /\ attempt'[a].registered = attempt[a].registered
                                   /\ \/ attempt'[a].status = attempt[a].status
                                      \/ attempt[a].status = "PENDING" /\ attempt'[a].status = "EXPIRED"
      /\ \/ attempt'[x] = attempt[x]
         \/ attempt[x].status = "none" /\ ~attempt'[x].registered
      /\ WorkerStep(w) /\ worker'[w].attempt = x /\ worker'[w].origin = "initiate"
      /\ worker'[w].pc = "return" \/ (worker'[w].pc = "gateway" /\ ~attempt'[x].registered)
  BY DEF Prepares, Reuses, Creates, Swept
<1>3. ASSUME NEW a \in Attempts PROVE Money(a)' /\ Forward(a)
  <2>1. Money(a)
    BY DEF PaymentInv, MoneyInv
  <2>2. CASE attempt'[a].status = attempt[a].status /\ attempt'[a].target = attempt[a].target
             /\ attempt'[a].registered = attempt[a].registered
    <3>1. Same(a)
      BY <1>1, <2>2 DEF Same
    <3>2. QED
      BY <2>1, <3>1, SameKept
  <2>3. CASE attempt[a].status = "PENDING" /\ attempt'[a].status = "EXPIRED" /\ attempt'[a].target = attempt[a].target
             /\ attempt'[a].registered = attempt[a].registered
    BY <1>1, <2>1, <2>3 DEF Money, Forward, SettledPayment
  <2>4. CASE a = x /\ attempt[x].status = "none" /\ ~attempt'[x].registered
    <3>1. ~attempt[x].registered
      BY <2>4 DEF IInv, ShapeInv, AttemptsShaped
    <3>2. /\ intent[x] # "succeeded" /\ booking[x] = "none" /\ x \notin returned /\ refund[x] # "DONE"
          /\ <<x, "paid">> \notin events /\ ~SettledPayment(x)
      BY <2>1, <2>4, <3>1 DEF Money, SettledPayment
    <3>3. Money(x)'
      BY <1>1, <1>2, <2>4, <3>2 DEF Money
    <3>4. Forward(x)
      BY <1>1, <2>4, <3>2 DEF Forward
    <3>5. QED
      BY <2>4, <3>3, <3>4
  <2>5. QED
    BY <1>2, <2>2, <2>3, <2>4
<1>4. \A v \in Workers : worker[v] # Idle => worker[v].attempt \in Attempts /\ attempt[worker[v].attempt].status # "none"
  BY DEF IInv, ShapeInv, WorkersShaped
<1>5. ASSUME NEW v \in Workers, worker'[v] # Idle PROVE PaymentWorker(v)'
  <2>1. CASE v = w
    BY <1>2, <2>1 DEF PaymentWorker, Initiating, Refunding
  <2>2. CASE v # w
    BY <1>2, <1>3, <1>4, <1>5, <2>2, StillWorker DEF PaymentInv, WorkerStep
  <2>3. QED
    BY <2>1, <2>2
<1>6. OneCheckout'
  <2>1. Idle.origin = "none"
    BY DEF Idle
  <2>2. ASSUME NEW v \in Workers \ {w}, worker'[v].origin = "initiate"
        PROVE  /\ worker[v].origin = "initiate" /\ worker'[v] = worker[v]
               /\ attempt'[worker'[v].attempt].target = attempt[worker[v].attempt].target
               /\ attempt'[worker'[v].attempt].target # t
    <3>1. worker'[v] = worker[v] /\ worker[v] # Idle
      BY <1>2, <2>1, <2>2 DEF WorkerStep
    <3>2. QED
      BY <1>2, <1>4, <2>2, <3>1
  <2>3. attempt'[worker'[w].attempt].target = t
    BY <1>2
  <2>4. SUFFICES ASSUME NEW u \in Workers, NEW v \in Workers,
                        worker'[u].origin = "initiate", worker'[v].origin = "initiate",
                        attempt'[worker'[u].attempt].target = attempt'[worker'[v].attempt].target
                 PROVE  u = v
    BY DEF OneCheckout
  <2>5. CASE u = w \/ v = w
    BY <2>2, <2>3, <2>4, <2>5
  <2>6. CASE u # w /\ v # w
    BY <2>2, <2>4, <2>6 DEF PaymentInv, OneCheckout
  <2>7. QED
    BY <2>5, <2>6
<1>7. QED
  BY <1>3, <1>5, <1>6 DEF PaymentInv, MoneyInv

\* A checkout request starts, or starts again.
LEMMA CheckoutPays ==
    ASSUME ~DoubleSubmit, IInv, PaymentInv, NEW w \in Workers,
           InitiateAgain(w) \/ \E t \in Targets : InitiateOnlinePayment(w, t)
    PROVE  PaymentInv'
<1>1. TypeOK
  BY DEF IInv
<1>2. ASSUME NEW t \in Targets, InitiateOnlinePayment(w, t) PROVE PaymentInv'
  <2>1. PrepareTransaction(w, t) /\ UNCHANGED <<booking, paymongo, refund>> /\ ~CheckingOut(t)
    BY <1>2 DEF InitiateOnlinePayment
  <2>2. PICK x \in Attempts : Prepares(w, t, x)
    BY <1>1, <2>1, Preparing
  <2>3. QED
    BY <2>1, <2>2, PreparingPays DEF CheckingOut
<1>3. CASE InitiateAgain(w)
  <2>1. worker[w].pc = "prepare" /\ UNCHANGED <<booking, paymongo, refund>>
    BY <1>3 DEF InitiateAgain
  <2>2. PICK y \in Attempts : y = worker[w].attempt /\ PaymentWorker(w) /\ worker[w] # Idle
    BY <2>1, PayingWorker
  <2>3. PICK t : t = attempt[y].target
    OBVIOUS
  <2>4. worker[w].origin = "initiate"
    BY <2>1, <2>2 DEF PaymentWorker
  <2>5. t \in Targets
    <3>1. attempt[y].status # "none" /\ attempt[y].target # "none"
      BY <2>2 DEF IInv, ShapeInv, WorkersShaped, AttemptsShaped
    <3>2. QED
      BY <1>1, <2>2, <2>3, <3>1, Types DEF AttemptType
  <2>6. \A v \in Workers \ {w} : worker[v].origin = "initiate" => attempt[worker[v].attempt].target # t
    BY <2>2, <2>3, <2>4 DEF PaymentInv, OneCheckout
  <2>7. CASE PrepareTransaction(w, t)
    <3>1. PICK x \in Attempts : Prepares(w, t, x)
      BY <1>1, <2>5, <2>7, Preparing
    <3>2. QED
      BY <2>1, <2>5, <2>6, <3>1, PreparingPays
  <2>8. CASE worker' = [worker EXCEPT ![w] = Idle] /\ UNCHANGED attempt
    <3>1. Idle \in WorkerType
      BY DEF Idle, WorkerType, PCs
    <3>2. WorkerStep(w) /\ WorkerPays(w)
      BY <1>1, <2>8, <3>1, TaskStep DEF WorkerPays
    <3>3. QED
      BY <2>1, <2>8, <3>2, NothingPaid, PaymentsQuiet
  <2>9. QED
    BY <1>3, <2>2, <2>3, <2>7, <2>8 DEF InitiateAgain
<1>4. QED
  BY <1>2, <1>3

\* Every step keeps the payments in order ...
LEMMA PaymentInductive ==
    ASSUME ~DoubleSubmit, IInv, PaymentInv, [Next]_vars
    PROVE  PaymentInv'
<1>1. CASE UNCHANGED vars
  <2>1. UNCHANGED <<attempt, booking, paymongo, refund>> /\ UNCHANGED worker
    BY <1>1 DEF vars
  <2>2. QED
    BY <2>1, NothingPaid, PaymentsQuiet
<1>2. ASSUME NEW w \in Workers, Step(w) PROVE PaymentInv'
  BY <1>2, CheckoutPays, InitiatingPays, ReadingPays, ReportPays, FinalizingPays, RefundPays, Zenon DEF Step
<1>3. QED
  BY <1>1, <1>2, RequestPays, ReadingPays, CheckoutPays, OutsidePays, Zenon DEF Next

\* ... as they are at first.
LEMMA PaymentInit == Init => PaymentInv
<1> SUFFICES ASSUME Init PROVE PaymentInv
  OBVIOUS
<1>1. MoneyInv
  BY DEF Init, MoneyInv, Money, NoAttempt, Bookings
<1>2. \A w \in Workers : worker[w] = Idle /\ worker[w].origin = "none"
  BY DEF Init, Idle
<1>3. QED
  BY <1>1, <1>2 DEF PaymentInv, OneCheckout

\* A worker, PayMongo and the rows agree on every payment.
LEMMA PaymentInvariant == ~DoubleSubmit => (Spec => []PaymentInv)
<1> SUFFICES ASSUME ~DoubleSubmit PROVE Spec => []PaymentInv
  OBVIOUS
<1>1. IInv /\ PaymentInv /\ [Next]_vars => PaymentInv'
  BY PaymentInductive
<1>2. QED
  BY <1>1, PaymentInit, CheckoutInvariant, PTL DEF Spec

\* Without two checkouts of one target at once, a payment that bought a booking
\* is never given back, however often it is reported: BookedNotRefunded.
THEOREM BookedKept == ~DoubleSubmit => (Spec => []BookedNotRefunded)
<1> SUFFICES ASSUME ~DoubleSubmit PROVE Spec => []BookedNotRefunded
  OBVIOUS
<1>1. PaymentInv => BookedNotRefunded
  BY DEF PaymentInv, MoneyInv, Money, BookedNotRefunded
<1>2. QED
  BY <1>1, PaymentInvariant, PTL

\* ... and a captured payment whose event is acknowledged has its booking or
\* was really refunded: CapturedNotLost.
THEOREM CapturedKept == ~DoubleSubmit => (Spec => []CapturedNotLost)
<1> SUFFICES ASSUME ~DoubleSubmit PROVE Spec => []CapturedNotLost
  OBVIOUS
<1>1. PaymentInv => CapturedNotLost
  BY DEF PaymentInv, MoneyInv, Money, SettledPayment, CapturedNotLost
<1>2. QED
  BY <1>1, PaymentInvariant, PTL

-----------------------------------------------------------------------------
(* Checkout implements Purchases                                            *)

\* A step that Purchases does not see.
LEMMA SaleSame ==
    ASSUME UNCHANGED <<booking, returned>>,
           \A a \in Attempts : /\ attempt'[a].target = attempt[a].target
                               /\ (attempt'[a].status = "none") <=> (attempt[a].status = "none")
                               /\ (intent'[a] = "succeeded") <=> (intent[a] = "succeeded")
    PROVE  UNCHANGED Sale!purchaseVars
<1>1. \A a \in Attempts : PaymentOf(a)' = PaymentOf(a)
  BY DEF PaymentOf
<1>2. [a \in Attempts |-> PaymentOf(a)]' = [a \in Attempts |-> PaymentOf(a)]
  BY <1>1
<1>3. [a \in Attempts |-> attempt[a].target]' = [a \in Attempts |-> attempt[a].target]
  OBVIOUS
<1>4. QED
  BY <1>2, <1>3 DEF Sale!purchaseVars

\* One payment goes from one stage to the next.
LEMMA SaleGoes ==
    ASSUME NEW x \in Attempts, NEW from, NEW to, PaymentOf(x) = from, PaymentOf(x)' = to,
           \A a \in Attempts \ {x} : PaymentOf(a)' = PaymentOf(a)
    PROVE  Sale!Goes(x, from, to)
<1>1. [a \in Attempts |-> PaymentOf(a)][x] = from
  BY Zenon
<1>2. [a \in Attempts |-> PaymentOf(a)]' = [[a \in Attempts |-> PaymentOf(a)] EXCEPT ![x] = to]
  OBVIOUS
<1>3. QED
  BY <1>1, <1>2 DEF Sale!Goes

\* Only what attempt x has come to changes, and not whether it exists.
LEMMA SaleStatus ==
    ASSUME NEW x \in Attempts, AttemptStep(x), attempt[x].status # "none", attempt'[x].status # "none",
           UNCHANGED <<booking, intent, returned>>
    PROVE  UNCHANGED Sale!purchaseVars
<1>1. \A a \in Attempts : /\ attempt'[a].target = attempt[a].target
                          /\ (attempt'[a].status = "none") <=> (attempt[a].status = "none")
  BY DEF AttemptStep
<1>2. QED
  BY <1>1, SaleSame

\* markPaymentAttemptFailed, and every other update of a status.
LEMMA SaleSetStatus ==
    ASSUME TypeOK, NEW x \in Attempts, attempt[x].status # "none", UNCHANGED <<booking, intent, returned>>,
           \/ \E status \in AttemptStatus \ {"none"} : SetStatus(x, status)
           \/ MarkPaymentAttemptFailed(x)
    PROVE  UNCHANGED Sale!purchaseVars
<1>1. ASSUME NEW status \in AttemptStatus \ {"none"}, SetStatus(x, status) PROVE UNCHANGED Sale!purchaseVars
  <2>1. AttemptStep(x) /\ attempt'[x].status = status
    BY <1>1, StatusStep
  <2>2. QED
    BY <2>1, SaleStatus
<1>2. CASE UNCHANGED attempt
  BY <1>2, SaleSame
<1>3. CASE MarkPaymentAttemptFailed(x)
  BY <1>1, <1>2, <1>3 DEF MarkPaymentAttemptFailed, AttemptStatus
<1>4. QED
  BY <1>1, <1>3

\* Purchases and Checkout agree on what is booked.
LEMMA SaleOf ==
    ASSUME NEW b \in Bookings
    PROVE  b \in Sale!Bookings /\ Sale!Booked(b) = TargetOf(b)
BY DEF Sale!Bookings, Bookings, Sale!Booked, TargetOf

\* What Checkout's own guards find free is free.
LEMMA OfferFree ==
    ASSUME OfferBookings = {}, NEW o \in Offers
    PROVE  ~Sale!Taken(o)
<1>1. Sale!Bookings = Bookings
  BY DEF Sale!Bookings, Bookings
<1>2. ASSUME NEW b \in Bookings, Sale!Booked(b) \in Offers, booking[b] # "none" PROVE FALSE
  BY <1>2, SaleOf DEF OfferBookings
<1>3. QED
  BY <1>1, <1>2 DEF Sale!Taken

LEMMA ListingFree ==
    ASSUME NEW l \in Listings, ~BookingAtWork(l)
    PROVE  ~Sale!Taken(l)
<1>1. l \notin Offers /\ Sale!Bookings = Bookings
  BY TargetsAssumption DEF Sale!Bookings, Bookings
<1>2. ASSUME NEW b \in Bookings, Sale!Booked(b) = l, booking[b] = "active" PROVE FALSE
  BY <1>2, SaleOf DEF BookingAtWork, BookingsOf
<1>3. QED
  BY <1>1, <1>2 DEF Sale!Taken

\* A booking for cash.
LEMMA SaleForCash ==
    ASSUME IInv, \/ \E o \in Offers : CreateDirectFromOffer(o)
                 \/ \E k \in CashRequests : CreateDirectRequest(k)
    PROVE  Sale!Next
<1>1. PICK b \in Offers \cup CashRequests :
          /\ booking[b] = "none" /\ ~Sale!Taken(Sale!Booked(b))
          /\ booking' = [booking EXCEPT ![b] = "active"] /\ UNCHANGED <<attempt, intent, returned>>
  <2>1. ASSUME NEW o \in Offers, CreateDirectFromOffer(o)
        PROVE  booking[o] = "none" /\ ~Sale!Taken(Sale!Booked(o))
    <3>1. OfferBookings = {}
      BY <2>1, OpenIsFree DEF CreateDirectFromOffer, OfferOpen, IInv
    <3>2. o \in Bookings /\ TargetOf(o) = o
      BY TargetsAssumption DEF Bookings, TargetOf, Attempts
    <3>3. QED
      BY <3>1, <3>2, OfferFree, SaleOf DEF OfferBookings
  <2>2. ASSUME NEW k \in CashRequests, CreateDirectRequest(k)
        PROVE  booking[k] = "none" /\ ~Sale!Taken(Sale!Booked(k))
    <3>1. k \in Bookings /\ TargetOf(k) = ListingOf[k] /\ ListingOf[k] \in Listings
      BY TargetsAssumption, ListingOfAssumption DEF Bookings, TargetOf, Attempts
    <3>2. QED
      BY <2>2, <3>1, ListingFree, SaleOf DEF CreateDirectRequest
  <2>3. QED
    BY <2>1, <2>2 DEF CreateDirectFromOffer, CreateDirectRequest, paymongo
<1>2. \A a \in Attempts : booking'[a] = booking[a]
  BY <1>1, TargetsAssumption DEF IInv, TypeOK, Bookings, Attempts
<1>3. \A a \in Attempts : PaymentOf(a)' = PaymentOf(a)
  BY <1>1, <1>2 DEF PaymentOf
<1>4. UNCHANGED <<[a \in Attempts |-> attempt[a].target], [a \in Attempts |-> PaymentOf(a)]>>
  BY <1>1, <1>3
<1>5. Sale!BookForCash(b)
  BY <1>1, <1>4 DEF Sale!BookForCash
<1>6. QED
  BY <1>5 DEF Sale!Next

\* A booking goes under review or comes to its end, and stays the one its
\* payment bought.
LEMMA SaleEnds ==
    ASSUME IInv, NEW b \in Bookings, ReviewBooking(b) \/ EndBooking(b)
    PROVE  Sale!Next
<1>1. PICK end \in {"review", "completed", "canceled"} : booking' = [booking EXCEPT ![b] = end]
  BY DEF ReviewBooking, EndBooking
<1>2. booking[b] \in {"active", "review"} /\ UNCHANGED <<attempt, intent, returned>>
  BY DEF ReviewBooking, EndBooking, paymongo
<1>3. \A a \in Attempts : (booking'[a] = "none") <=> (booking[a] = "none")
  BY <1>1, <1>2 DEF IInv, TypeOK, Bookings
<1>4. \A a \in Attempts : PaymentOf(a)' = PaymentOf(a)
  BY <1>2, <1>3 DEF PaymentOf
<1>5. UNCHANGED <<[a \in Attempts |-> attempt[a].target], [a \in Attempts |-> PaymentOf(a)]>>
  BY <1>2, <1>4
<1>6. Sale!Review(b) \/ Sale!End(b)
  BY <1>2, <1>5 DEF ReviewBooking, EndBooking, Sale!Review, Sale!End
<1>7. QED
  BY <1>6, SaleOf DEF Sale!Next

\* A checkout request takes up its attempt again, or creates one.
LEMMA SalePrepares ==
    ASSUME IInv, PaymentInv, NEW w \in Workers, NEW t \in Targets, NEW x \in Attempts, Prepares(w, t, x),
           UNCHANGED <<booking, paymongo>>
    PROVE  Sale!Next \/ UNCHANGED Sale!purchaseVars
<1>1. /\ attempt'[x].target = t /\ attempt'[x].status = "PENDING" /\ UNCHANGED <<booking, intent, returned>>
      /\ \A a \in Attempts \ {x} : /\ attempt'[a].target = attempt[a].target
                                   /\ (attempt'[a].status = "none") <=> (attempt[a].status = "none")
  BY DEF Prepares, Swept, paymongo
<1>2. CASE Reuses(x, t)
  <2>1. attempt'[x] = attempt[x]
    BY <1>2 DEF Reuses
  <2>2. QED
    BY <1>1, <2>1, SaleSame
<1>3. CASE Creates(x, t)
  <2>1. attempt[x].status = "none" /\ booking[x] = "none" /\ ~attempt[x].registered
    BY <1>3 DEF Creates, IInv, ShapeInv, AttemptsShaped
  <2>2. intent[x] # "succeeded" /\ x \notin returned
    BY <2>1 DEF PaymentInv, MoneyInv, Money
  <2>3. PaymentOf(x) = "none" /\ PaymentOf(x)' = "open"
    BY <1>1, <2>1, <2>2 DEF PaymentOf
  <2>4. \A a \in Attempts \ {x} : PaymentOf(a)' = PaymentOf(a)
    BY <1>1 DEF PaymentOf
  <2>5. Sale!Goes(x, "none", "open")
    BY <2>3, <2>4, SaleGoes
  <2>6. [a \in Attempts |-> attempt[a].target]' = [[a \in Attempts |-> attempt[a].target] EXCEPT ![x] = t]
    BY <1>1
  <2>7. Sale!Checkout(x, t)
    BY <1>1, <2>5, <2>6 DEF Sale!Checkout
  <2>8. QED
    BY <2>7 DEF Sale!Next, Sale!Targets, Targets
<1>4. QED
  BY <1>2, <1>3 DEF Prepares

\* A checkout request starts, or starts again.
LEMMA SaleChecksOut ==
    ASSUME IInv, PaymentInv, NEW w \in Workers, InitiateAgain(w) \/ \E t \in Targets : InitiateOnlinePayment(w, t)
    PROVE  Sale!Next \/ UNCHANGED Sale!purchaseVars
<1>1. UNCHANGED <<booking, paymongo>> /\ TypeOK
  BY DEF InitiateAgain, InitiateOnlinePayment, IInv
<1>2. ASSUME NEW t \in Targets, PrepareTransaction(w, t) PROVE Sale!Next \/ UNCHANGED Sale!purchaseVars
  <2>1. PICK x \in Attempts : Prepares(w, t, x)
    BY <1>1, <1>2, Preparing
  <2>2. QED
    BY <1>1, <2>1, SalePrepares
<1>3. CASE UNCHANGED attempt
  BY <1>1, <1>3, SaleSame DEF paymongo
<1>4. CASE InitiateAgain(w)
  <2>1. worker[w].pc = "prepare"
    BY <1>4 DEF InitiateAgain
  <2>2. worker[w].attempt \in Attempts /\ attempt[worker[w].attempt].status # "none"
    BY <2>1, AtWork
  <2>3. attempt[worker[w].attempt].target \in Targets
    BY <2>2, Types DEF IInv, ShapeInv, AttemptsShaped, AttemptType
  <2>4. QED
    BY <1>2, <1>3, <1>4, <2>3 DEF InitiateAgain
<1>5. QED
  BY <1>2, <1>4 DEF InitiateOnlinePayment

\* The seeker pays for an attempt that nothing came of yet.
LEMMA SaleCaptures ==
    ASSUME IInv, PaymentInv, NEW x \in Attempts, SeekerPays(x)
    PROVE  Sale!Next
<1>1. /\ intent[x] = "open" /\ attempt[x].registered /\ UNCHANGED <<attempt, booking, returned>>
      /\ intent' = [intent EXCEPT ![x] = "succeeded"]
  BY DEF SeekerPays
<1>2. intent'[x] = "succeeded" /\ \A a \in Attempts \ {x} : intent'[a] = intent[a]
  BY <1>1 DEF IInv, TypeOK
<1>3. attempt[x].status # "none" /\ booking[x] = "none" /\ x \notin returned
  BY <1>1 DEF IInv, ShapeInv, AttemptsShaped, PaymentInv, MoneyInv, Money
<1>4. PaymentOf(x) = "open" /\ PaymentOf(x)' = "captured" /\ \A a \in Attempts \ {x} : PaymentOf(a)' = PaymentOf(a)
  BY <1>1, <1>2, <1>3 DEF PaymentOf
<1>5. Sale!Goes(x, "open", "captured")
  BY <1>4, SaleGoes
<1>6. [a \in Attempts |-> attempt[a].target]' = [a \in Attempts |-> attempt[a].target]
  BY <1>1
<1>7. Sale!Capture(x)
  BY <1>1, <1>5, <1>6 DEF Sale!Capture
<1>8. QED
  BY <1>7 DEF Sale!Next

\* PayMongo executes a refund, for the first time or again: only a payment that
\* was captured and bought nothing is given back.
LEMMA SaleGivesBack ==
    ASSUME IInv, PaymentInv, NEW w \in Workers, CreateRefund(w) \/ CreateRefundFails(w)
    PROVE  Sale!Next \/ UNCHANGED Sale!purchaseVars
<1>1. worker[w].pc = "refund_call"
  BY DEF CreateRefund, CreateRefundFails
<1>2. PICK x \in Attempts : x = worker[w].attempt /\ PaymentWorker(w) /\ Money(x)
  BY <1>1, PayingWorker
<1>3. intent[x] = "succeeded" /\ booking[x] = "none"
  BY <1>1, <1>2 DEF PaymentWorker, Refunding, Money
<1>4. (returned' = returned \/ returned' = returned \cup {x}) /\ UNCHANGED <<attempt, booking, intent>>
  BY <1>2 DEF CreateRefund, CreateRefundFails
<1>5. CASE returned' = returned
  BY <1>4, <1>5, SaleSame
<1>6. CASE x \notin returned /\ returned' = returned \cup {x}
  <2>1. PaymentOf(x) = "captured" /\ PaymentOf(x)' = "refunded" /\ \A a \in Attempts \ {x} : PaymentOf(a)' = PaymentOf(a)
    BY <1>3, <1>4, <1>6 DEF PaymentOf
  <2>2. Sale!Goes(x, "captured", "refunded")
    BY <2>1, SaleGoes
  <2>3. [a \in Attempts |-> attempt[a].target]' = [a \in Attempts |-> attempt[a].target]
    BY <1>4
  <2>4. Sale!GiveBack(x)
    BY <1>4, <2>2, <2>3 DEF Sale!GiveBack
  <2>5. QED
    BY <2>4 DEF Sale!Next
<1>7. CASE x \in returned /\ returned' = returned \cup {x}
  <2>1. returned' = returned
    BY <1>7
  <2>2. QED
    BY <1>5, <2>1
<1>8. QED
  BY <1>4, <1>5, <1>6, <1>7

\* The finalizer books what a captured payment was for, and what is still free.
LEMMA SaleBooks ==
    ASSUME IInv, PaymentInv, NEW w \in Workers, FinalizeBooks(w)
    PROVE  Sale!Next
<1>1. worker[w].pc = "finalize" /\ TypeOK
  BY DEF FinalizeBooks, IInv
<1>2. PICK x \in Attempts : x = worker[w].attempt /\ PaymentWorker(w) /\ Money(x)
  BY <1>1, PayingWorker
<1>3. PICK t : t = attempt[x].target
  OBVIOUS
<1>4. /\ ~AlreadyFinal(x) /\ ~ActiveBooking(t) /\ HoldValid(x)
      /\ SetStatus(x, "SUCCEEDED") /\ booking' = [booking EXCEPT ![x] = "active"] /\ UNCHANGED <<intent, returned>>
  BY <1>2, <1>3 DEF FinalizeBooks, paymongo
<1>5. intent[x] = "succeeded" /\ booking[x] = "none" /\ x \notin returned
  BY <1>1, <1>2, <1>4 DEF PaymentWorker, AlreadyFinal, Money
<1>6. t \in Targets
  BY <1>1, <1>2, <1>3, AtWork, Types DEF IInv, ShapeInv, AttemptsShaped, AttemptType
<1>7. ~Sale!Taken(t)
  <2>1. CASE t \in Offers
    <3>1. request = "PAYMENT_PENDING" /\ Selected = {t} /\ offer[t] = "PENDING_PAYMENT"
      BY <1>3, <1>4, <2>1 DEF HoldValid
    <3>2. OfferBookings = {}
      BY <3>1 DEF IInv, RequestInv, Selected, OfferBookings
    <3>3. QED
      BY <2>1, <3>2, OfferFree
  <2>2. CASE t \in Listings
    <3>1. ~BookingAtWork(t)
      BY <1>4 DEF ActiveBooking, BookingAtWork
    <3>2. QED
      BY <2>2, <3>1, ListingFree
  <2>3. QED
    BY <1>6, <2>1, <2>2 DEF Targets
<1>8. booking'[x] = "active" /\ \A a \in Attempts \ {x} : booking'[a] = booking[a]
  BY <1>1, <1>4 DEF TypeOK, Bookings
<1>9. AttemptStep(x)
  BY <1>1, <1>4, StatusStep DEF AttemptStatus
<1>10. PaymentOf(x) = "captured" /\ PaymentOf(x)' = "booked" /\ \A a \in Attempts \ {x} : PaymentOf(a)' = PaymentOf(a)
  BY <1>4, <1>5, <1>8, <1>9 DEF PaymentOf, AttemptStep
<1>11. Sale!Goes(x, "captured", "booked")
  BY <1>10, SaleGoes
<1>12. [a \in Attempts |-> attempt[a].target]' = [a \in Attempts |-> attempt[a].target]
  BY <1>9 DEF AttemptStep
<1>13. [a \in Attempts |-> attempt[a].target][x] = t
  BY <1>3
<1>14. Sale!Book(x)
  BY <1>4, <1>7, <1>11, <1>12, <1>13 DEF Sale!Book
<1>15. QED
  BY <1>14 DEF Sale!Next

\* The rest of a worker's steps are behind the scenes.
LEMMA SaleWorks ==
    ASSUME IInv, PaymentInv, NEW w \in Workers,
           \/ CreateIntent(w) \/ CreateIntentFails(w) \/ StoreIntent(w) \/ InitiationFailed(w)
           \/ ResumeInitiation(w) \/ AcknowledgeWebhook(w) \/ ReadIntent(w) \/ MarkFailed(w)
           \/ FinalizeAgain(w) \/ FinalizeRefused(w) \/ FinalizeWithoutHold(w)
           \/ RefundRead(w) \/ RefundStore(w) \/ RefundFail(w) \/ Crash(w)
    PROVE  UNCHANGED Sale!purchaseVars
<1>1. TypeOK /\ attempt \in [Attempts -> AttemptType]
  BY Types DEF IInv
<1>2. CASE \/ CreateIntentFails(w) \/ ResumeInitiation(w) \/ AcknowledgeWebhook(w) \/ ReadIntent(w)
           \/ FinalizeAgain(w) \/ RefundRead(w) \/ RefundFail(w) \/ Crash(w)
  <2>1. UNCHANGED <<attempt, booking, intent, returned>>
    BY <1>2, Zenon DEF CreateIntentFails, ResumeInitiation, AcknowledgeWebhook, ReadIntent, FinalizeAgain,
                       RefundRead, RefundFail, Crash, paymongo
  <2>2. QED
    BY <2>1, SaleSame
<1>3. CASE \/ CreateIntent(w) \/ StoreIntent(w) \/ InitiationFailed(w) \/ MarkFailed(w)
           \/ FinalizeRefused(w) \/ FinalizeWithoutHold(w) \/ RefundStore(w)
  <2>1. worker[w].pc # "idle"
    BY <1>3 DEF CreateIntent, StoreIntent, InitiationFailed, MarkFailed, FinalizeRefused, FinalizeWithoutHold, RefundStore
  <2>2. PICK x \in Attempts : x = worker[w].attempt /\ attempt[x].status # "none"
    BY <2>1, AtWork
  <2>3. CASE CreateIntent(w)
    <3>1. /\ intent[x] # "succeeded" /\ intent' = [intent EXCEPT ![x] = "open"]
          /\ UNCHANGED <<attempt, booking, returned>>
      BY <2>2, <2>3 DEF CreateIntent
    <3>2. \A a \in Attempts : (intent'[a] = "succeeded") <=> (intent[a] = "succeeded")
      BY <1>1, <3>1 DEF TypeOK
    <3>3. QED
      BY <3>1, <3>2, SaleSame
  <2>4. CASE StoreIntent(w)
    <3>1. attempt' = [attempt EXCEPT ![x].registered = TRUE] /\ UNCHANGED <<booking, intent, returned>>
      BY <2>2, <2>4 DEF StoreIntent, paymongo
    <3>2. \A a \in Attempts : attempt'[a].target = attempt[a].target /\ attempt'[a].status = attempt[a].status
      BY <1>1, <3>1 DEF AttemptType
    <3>3. QED
      BY <3>1, <3>2, SaleSame
  <2>5. CASE InitiationFailed(w) \/ FinalizeRefused(w) \/ FinalizeWithoutHold(w) \/ RefundStore(w)
    <3>1. /\ SetStatus(x, "FAILED") \/ SetStatus(x, "REFUND_REQUIRED") \/ SetStatus(x, "REFUNDED")
          /\ UNCHANGED <<booking, intent, returned>>
      BY <2>2, <2>5 DEF InitiationFailed, FinalizeRefused, FinalizeWithoutHold, RefundStore, paymongo
    <3>2. QED
      BY <1>1, <2>2, <3>1, SaleSetStatus DEF AttemptStatus
  <2>6. CASE MarkFailed(w)
    <3>1. MarkPaymentAttemptFailed(x) /\ UNCHANGED <<booking, intent, returned>>
      BY <2>2, <2>6 DEF MarkFailed, paymongo
    <3>2. QED
      BY <1>1, <2>2, <3>1, SaleSetStatus
  <2>7. QED
    BY <1>3, <2>3, <2>4, <2>5, <2>6
<1>4. QED
  BY <1>2, <1>3

\* So are PayMongo's other reports, the clock, and what is done to the request.
LEMMA SaleWaits ==
    ASSUME IInv,
           \/ \E o \in Offers : SubmitOffer(o) \/ RejectOffer(o)
           \/ RequestStep \/ DeclineListingInquiry \/ RemoveRequest \/ RestoreRequest
           \/ \E w \in Workers, a \in Attempts : WebhookPaid(w, a) \/ PaymentReturn(w, a) \/ RetryPaymentReconciliation(w, a)
           \/ \E a \in Attempts : SeekerFailsToPay(a) \/ WebhookFailed(a) \/ ExpireStalePaymentAttempt(a) \/ Lapse(a)
           \/ UNCHANGED vars
    PROVE  UNCHANGED Sale!purchaseVars
<1>1. TypeOK /\ attempt \in [Attempts -> AttemptType]
  BY Types DEF IInv
<1>2. ASSUME UNCHANGED <<attempt, booking, intent, returned>> PROVE UNCHANGED Sale!purchaseVars
  BY <1>2, SaleSame
<1>3. ASSUME NEW o \in Offers, SubmitOffer(o) \/ RejectOffer(o) PROVE UNCHANGED Sale!purchaseVars
  BY <1>2, <1>3 DEF SubmitOffer, RejectOffer, paymongo
<1>4. CASE RequestStep \/ DeclineListingInquiry \/ RemoveRequest \/ RestoreRequest \/ UNCHANGED vars
  BY <1>2, <1>4 DEF RequestStep, PauseRequest, ReopenRequest, CancelRequest, DeclineListingInquiry, RemoveRequest,
                    RestoreRequest, vars, paymongo
<1>5. ASSUME NEW w \in Workers, NEW a \in Attempts,
             WebhookPaid(w, a) \/ PaymentReturn(w, a) \/ RetryPaymentReconciliation(w, a)
      PROVE  UNCHANGED Sale!purchaseVars
  BY <1>2, <1>5 DEF WebhookPaid, PaymentReturn, RetryPaymentReconciliation, paymongo
<1>6. ASSUME NEW x \in Attempts, SeekerFailsToPay(x) PROVE UNCHANGED Sale!purchaseVars
  <2>1. /\ intent[x] = "open" /\ intent' = [intent EXCEPT ![x] = "failed"] /\ UNCHANGED <<attempt, booking, returned>>
    BY <1>6 DEF SeekerFailsToPay
  <2>2. \A a \in Attempts : (intent'[a] = "succeeded") <=> (intent[a] = "succeeded")
    BY <1>1, <2>1 DEF TypeOK
  <2>3. QED
    BY <2>1, <2>2, SaleSame
<1>7. ASSUME NEW x \in Attempts, WebhookFailed(x) \/ ExpireStalePaymentAttempt(x) PROVE UNCHANGED Sale!purchaseVars
  <2>1. UNCHANGED <<booking, intent, returned>>
    BY <1>7 DEF WebhookFailed, ExpireStalePaymentAttempt, paymongo
  <2>2. CASE attempt[x].status # "none"
    BY <1>1, <1>7, <2>1, <2>2, SaleSetStatus DEF WebhookFailed, ExpireStalePaymentAttempt, AttemptStatus
  <2>3. CASE attempt[x].status = "none"
    BY <1>2, <1>7, <2>1, <2>3 DEF WebhookFailed, ExpireStalePaymentAttempt, MarkPaymentAttemptFailed
  <2>4. QED
    BY <2>2, <2>3
<1>8. ASSUME NEW x \in Attempts, Lapse(x) PROVE UNCHANGED Sale!purchaseVars
  <2>1. attempt' = [attempt EXCEPT ![x].late = TRUE] /\ UNCHANGED <<booking, intent, returned>>
    BY <1>8 DEF Lapse, paymongo
  <2>2. \A a \in Attempts : attempt'[a].target = attempt[a].target /\ attempt'[a].status = attempt[a].status
    BY <1>1, <2>1 DEF AttemptType
  <2>3. QED
    BY <2>1, <2>2, SaleSame
<1>9. QED
  BY <1>3, <1>4, <1>5, <1>6, <1>7, <1>8

\* Every step of the checkout is a step of Purchases, or none.
LEMMA SaleStep ==
    ASSUME IInv, PaymentInv, [Next]_vars
    PROVE  [Sale!Next]_(Sale!purchaseVars)
<1> DEFINE Sells == Sale!Next \/ UNCHANGED Sale!purchaseVars
<1>1. ASSUME NEW w \in Workers, Step(w) PROVE Sells
  BY <1>1, SaleChecksOut, SaleWorks, SaleBooks, SaleGivesBack, Zenon DEF Step
<1>2. Sells
  BY <1>1, SaleForCash, SaleEnds, SaleChecksOut, SaleCaptures, SaleWorks, SaleWaits, Zenon DEF Next
<1>3. QED
  BY <1>2

LEMMA SaleInit == Init => Sale!Init
<1> SUFFICES ASSUME Init PROVE Sale!Init
  OBVIOUS
<1>1. \A a \in Attempts : attempt[a].target = "none" /\ PaymentOf(a) = "none"
  BY DEF Init, NoAttempt, PaymentOf, Bookings
<1>2. booking = [b \in Bookings |-> "none"]
  BY DEF Init
<1>3. QED
  BY <1>1, <1>2 DEF Sale!Init, Sale!Bookings, Bookings

\* Without two checkouts of one target at once, the checkout implements Purchases:
\* whatever crashes, is retried, reported late or twice, a captured payment buys
\* its one booking or is given back, a request is sold once, and a listing only
\* while no other booking of it is at work.
THEOREM SellsAsPromised == ~DoubleSubmit => (Spec => ImplementsPurchases)
<1> SUFFICES ASSUME ~DoubleSubmit PROVE Spec => ImplementsPurchases
  OBVIOUS
<1>1. IInv /\ PaymentInv /\ [Next]_vars => [Sale!Next]_(Sale!purchaseVars)
  BY SaleStep
<1>2. QED
  BY <1>1, SaleInit, CheckoutInvariant, PaymentInvariant, PTL DEF Spec, ImplementsPurchases, Sale!Spec
=============================================================================
