--------------------------- MODULE ProvidersProofs ---------------------------
(***************************************************************************)
(* Theorems about Providers, for any payments, listings and Basic limit.   *)
(***************************************************************************)
EXTENDS Providers, FiniteSetTheorems, TLAPS

-----------------------------------------------------------------------------
(* The inductive invariant                                                  *)

MemberType == [plan : Paid \cup {"FREE"}, status : {"ACTIVE", "CANCELLED", "EXPIRED"},
               trial : {"none", "running", "over"}, period : {"none", "running", "over"},
               month : Payments \cup {"none"}]
PaymentStates == Settled \cup {"none", "PENDING", "FAILED", "CANCELLED", "EXPIRED"}
PaymentType == [status : PaymentStates, plan : Paid \cup {"none"}, action : {"none", "NEW", "UPGRADE"},
                current : BOOLEAN, month : Payments \cup {"none"}, due : BOOLEAN, saved : BOOLEAN, redirect : BOOLEAN]
IntentType == [state : {"none", "awaiting", "open", "succeeded", "cancelled"}, refunded : BOOLEAN]

\* The maintenance job has read a membership that is over, and as long as it is
\* the same it stays over.
ScanInv ==
    scan = "same" => IF member.plan = "FREE" THEN member.trial = "over" ELSE member.period = "over"

\* A payment that was never begun has no intent, every other one buys a plan, and
\* only what must be refunded is.
PaymentInv ==
    \A p \in Payments :
        /\ payment[p].status = "none" => intent[p].state = "none" /\ ~payment[p].saved /\ applied[p] = 0
        /\ payment[p].status # "none" => payment[p].plan \in Paid
        /\ intent[p].refunded => payment[p].status \in {"REFUND_REQUIRED", "REFUNDED"}

\* What an edit in progress publishes still fits the plan.
EditInv ==
    ~Unlocked => /\ editing.listing \in Listings
                 /\ editing.to = "ACTIVE" =>
                       Cardinality(ActiveListings \cup {editing.listing}) <= Limit(member.plan)

\* A price that is still compared as current was quoted on the paid period that
\* the membership is in: whatever begins another one makes every quote lapse.
QuoteInv ==
    /\ \A p \in Payments : payment[p].current => payment[p].month = member.month
    /\ quote # "none" => quote = member.month

IInv ==
    /\ TypeOK /\ ScanInv /\ PaymentInv /\ EditInv /\ QuoteInv
    /\ PaymentCountsOnce /\ RunningMonthCounts /\ ListingLimitKept

\* The three parts of the type invariant.
MemberOK  == member \in MemberType /\ eligible \in BOOLEAN /\ scan \in {"none", "same", "changed"}
BillingOK ==
    /\ quote \in Payments \cup {"none"}
    /\ payment \in [Payments -> PaymentType] /\ intent \in [Payments -> IntentType]
    /\ \A p \in Payments : payment[p].redirect => payment[p].saved
    /\ applied \in [Payments -> Nat]
ListingsOK ==
    /\ listing \in [Listings -> ListingStates]
    /\ editing \in [listing : Listings \cup {"none"}, to : ListingStates]

\* They are.
LEMMA TypeParts == TypeOK <=> MemberOK /\ BillingOK /\ ListingsOK
BY DEF TypeOK, MemberOK, BillingOK, ListingsOK, MemberType, PaymentType, PaymentStates, IntentType

-----------------------------------------------------------------------------
(* The membership                                                           *)

\* TRUE and FALSE are the Booleans.
LEMMA Booleans == TRUE \in BOOLEAN /\ FALSE \in BOOLEAN /\ \A p \in BOOLEAN : (~p) \in BOOLEAN
OBVIOUS

\* A paid plan changes the membership's plan and starts a month.
LEMMA PlanBought ==
    ASSUME MemberOK, NEW p \in Payments, ApplyPlan(p), payment[p].plan \in Paid
    PROVE  /\ member' \in MemberType /\ member'.plan = payment[p].plan /\ member'.plan \in Paid
           /\ member'.status = "ACTIVE" /\ scan' \in {"none", "changed"} /\ eligible' = eligible
BY DEF ApplyPlan, MemberOK, MemberType, Paid

\* The steps that touch the membership.
LEMMA MemberSteps ==
    ASSUME [Next]_vars
    PROVE  \/ UNCHANGED <<member, eligible, scan>>
           \/ EnsureProviderTrial /\ UNCHANGED <<eligible, scan>>
           \/ CancelProviderSubscription \/ TrialEnds \/ PeriodEnds
           \/ MaintenanceScan \/ MaintenanceMark \/ AccountChanges
           \/ \E p \in Payments : payment[p].saved /\ ApplyPlan(p)
<1> DEFINE Goal == \/ UNCHANGED <<member, eligible, scan>>
                   \/ EnsureProviderTrial /\ UNCHANGED <<eligible, scan>>
                   \/ CancelProviderSubscription \/ TrialEnds \/ PeriodEnds
                   \/ MaintenanceScan \/ MaintenanceMark \/ AccountChanges
                   \/ \E p \in Payments : payment[p].saved /\ ApplyPlan(p)
<1>1. ASSUME Membership PROVE Goal
  BY <1>1 DEF Membership, EnrollProviderMembership, QuoteProviderMembership
<1>2. ASSUME NEW p \in Payments, Checkout(p) PROVE Goal
  BY <1>2 DEF Checkout, OpenCheckout, CheckoutDue, CreatePaymentIntent, SaveIntent, AttachPaymentMethod,
     SaveRedirect, Pay, PayFails, IntentCancelled
<1>3. ASSUME NEW p \in Payments, Outcome(p) PROVE Goal
  BY <1>3 DEF Outcome, CloseCheckout, ExpireCheckout, CancelSubscriptionCheckout,
     FinalizeSubscriptionPayment, RequireRefund, CreateRefund, SaveRefund, MarkPayment
<1>4. ASSUME NEW l \in Listings, Listing(l) PROVE Goal
  BY <1>4 DEF Listing, CreateService, PublishListing, PauseListing, UpdateService, AdminRemove,
     AdminRestore, Edit, DeleteService
<1>5. ASSUME CommitEdit \/ UNCHANGED vars PROVE Goal
  BY <1>5 DEF CommitEdit, vars
<1>6. QED
  BY <1>1, <1>2, <1>3, <1>4, <1>5 DEF Next

\* Only the job that read the same membership marks one as over, and no step but
\* a payment starts a month.
LEMMA NextMember ==
    ASSUME MemberOK, ScanInv, PaymentInv, RunningMonthCounts, [Next]_vars
    PROVE  (MemberOK /\ ScanInv /\ RunningMonthCounts)'
<1> USE DEF MemberOK, MemberType, Paid
<1> DEFINE Goal == (MemberOK /\ ScanInv /\ RunningMonthCounts)'
<1>1. ASSUME UNCHANGED <<member, eligible, scan>> PROVE Goal
  BY <1>1 DEF ScanInv, RunningMonthCounts, Access
<1>2. ASSUME EnsureProviderTrial /\ UNCHANGED <<eligible, scan>> PROVE Goal
  BY <1>2 DEF EnsureProviderTrial, WithTrial, ScanInv, RunningMonthCounts, Access
<1>3. ASSUME CancelProviderSubscription PROVE Goal
  BY <1>3 DEF CancelProviderSubscription, ScanInv, RunningMonthCounts, Access
<1>4. ASSUME TrialEnds \/ PeriodEnds PROVE Goal
  BY <1>4 DEF TrialEnds, PeriodEnds, ScanInv, RunningMonthCounts, Access
<1>5. ASSUME MaintenanceScan PROVE Goal
  BY <1>5 DEF MaintenanceScan, OverAndNotMarked, ScanInv, RunningMonthCounts, Access
<1>6. ASSUME MaintenanceMark PROVE Goal
  <2>1. CASE eligible /\ scan = "same"
    <3>1. member' = [member EXCEPT !.status = "EXPIRED"] /\ eligible' = eligible /\ scan' = "none"
      BY <1>6, <2>1 DEF MaintenanceMark
    <3>2. member.plan # "FREE" => member.period = "over"
      BY <2>1 DEF ScanInv
    <3>3. QED
      BY <3>1, <3>2 DEF ScanInv, RunningMonthCounts
  <2>2. CASE ~(eligible /\ scan = "same")
    BY <1>6, <2>2 DEF MaintenanceMark, ScanInv, RunningMonthCounts, Access
  <2>3. QED
    BY <2>1, <2>2
<1>7. ASSUME AccountChanges PROVE Goal
  BY <1>7, Booleans DEF AccountChanges, ScanInv, RunningMonthCounts, Access
<1>8. ASSUME NEW p \in Payments, payment[p].saved, ApplyPlan(p) PROVE Goal
  <2>1. payment[p].plan \in Paid
    BY <1>8 DEF PaymentInv
  <2>2. /\ member' \in MemberType /\ member'.plan \in Paid
        /\ member'.status = "ACTIVE" /\ scan' \in {"none", "changed"} /\ eligible' = eligible
    BY <1>8, <2>1, PlanBought
  <2>3. QED
    BY <2>2 DEF ScanInv, RunningMonthCounts, Access
<1>9. QED
  BY <1>1, <1>2, <1>3, <1>4, <1>5, <1>6, <1>7, <1>8, MemberSteps

-----------------------------------------------------------------------------
(* Payments                                                                 *)

Billing == BillingOK /\ PaymentInv /\ PaymentCountsOnce

\* A step that changes the status of no payment and the count of none.
LEMMA SameStates ==
    ASSUME Billing, quote' \in Payments \cup {"none"}, applied' = applied,
           payment' \in [Payments -> PaymentType], intent' \in [Payments -> IntentType],
           \A p \in Payments :
               /\ payment'[p].status = payment[p].status /\ payment'[p].plan = payment[p].plan
               /\ payment'[p].redirect => payment'[p].saved
               /\ payment'[p].saved => payment[p].saved \/ intent[p].state # "none"
               /\ intent'[p].state # "none" => intent[p].state # "none" \/ payment[p].status # "none"
               /\ intent'[p].refunded => intent[p].refunded \/ payment[p].status = "REFUND_REQUIRED"
    PROVE  Billing'
<1>1. BillingOK'
  BY DEF Billing, BillingOK
<1>2. PaymentInv'
  BY DEF Billing, PaymentInv
<1>3. PaymentCountsOnce'
  BY DEF Billing, PaymentCountsOnce, Pending
<1>4. QED
  BY <1>1, <1>2, <1>3 DEF Billing

\* MarkPayment settles or ends the attempt p and leaves the others.
LEMMA MarkKeeps ==
    ASSUME Billing, NEW p \in Payments,
           NEW status \in PaymentStates \ {"none", "PENDING", "SUCCEEDED"},
           payment[p].status \notin {"none", "SUCCEEDED"},
           intent[p].refunded => status \in {"REFUND_REQUIRED", "REFUNDED"},
           MarkPayment(p, status)
    PROVE  Billing'
<1> DEFINE r == [payment[p] EXCEPT !.status = status, !.due = FALSE]
<1>0. payment \in [Payments -> PaymentType] /\ payment[p] \in PaymentType /\ status \in PaymentStates
  BY DEF Billing, BillingOK
<1>1. /\ r \in PaymentType /\ r.status = status /\ r.plan = payment[p].plan
      /\ r.saved = payment[p].saved /\ r.redirect = payment[p].redirect
  BY <1>0 DEF PaymentType
<1>2. payment' = [payment EXCEPT ![p] = r] /\ UNCHANGED <<quote, intent, applied>>
  BY DEF MarkPayment
<1>3. payment' \in [Payments -> PaymentType] /\ payment'[p] = r
      /\ \A q \in Payments \ {p} : payment'[q] = payment[q]
  BY <1>0, <1>1, <1>2
<1>4. BillingOK'
  BY <1>1, <1>2, <1>3 DEF Billing, BillingOK
<1>5. PaymentInv'
  BY <1>1, <1>2, <1>3 DEF Billing, PaymentInv
<1>6. PaymentCountsOnce'
  BY <1>1, <1>2, <1>3 DEF Billing, PaymentCountsOnce, Pending, BillingOK
<1>7. QED
  BY <1>4, <1>5, <1>6 DEF Billing

\* A payment takes effect once: it was not settled before and is afterwards.
LEMMA ApplyKeeps ==
    ASSUME Billing, NEW p \in Payments, payment[p].status \notin Settled, payment[p].saved, ApplyPlan(p)
    PROVE  Billing'
<1>0. payment \in [Payments -> PaymentType] /\ intent \in [Payments -> IntentType]
      /\ applied \in [Payments -> Nat]
  BY DEF Billing, BillingOK
<1>1. \A r \in PaymentType :
         /\ [r EXCEPT !.status = "SUCCEEDED", !.current = FALSE, !.due = FALSE] \in PaymentType
         /\ [r EXCEPT !.current = FALSE] \in PaymentType
  BY DEF PaymentType, PaymentStates, Settled
<1>2. /\ payment' = [q \in Payments |-> IF q = p
                        THEN [payment[q] EXCEPT !.status = "SUCCEEDED", !.current = FALSE, !.due = FALSE]
                        ELSE [payment[q] EXCEPT !.current = FALSE]]
      /\ applied' = [applied EXCEPT ![p] = applied[p] + 1]
  BY DEF ApplyPlan
<1>3. quote' = "none" /\ intent' = intent
  BY DEF ApplyPlan
<1>4. payment' \in [Payments -> PaymentType]
  BY <1>0, <1>1, <1>2
<1>5. \A q \in Payments : /\ payment'[q].plan = payment[q].plan /\ payment'[q].saved = payment[q].saved
                          /\ payment'[q].redirect = payment[q].redirect
                          /\ payment'[q].status = IF q = p THEN "SUCCEEDED" ELSE payment[q].status
  BY <1>0, <1>2 DEF PaymentType
<1>6. applied[p] = 0
  <2>1. applied[p] \in Nat /\ applied[p] <= 1 /\ applied[p] # 1
    BY <1>0 DEF Billing, PaymentCountsOnce, Settled
  <2>2. QED
    BY <2>1
<1>7. applied' = [applied EXCEPT ![p] = 1]
  <2>1. applied[p] + 1 = 1
    BY <1>6
  <2>2. QED
    BY <1>2, <2>1, Zenon
<1>8. /\ applied' \in [Payments -> Nat]
      /\ applied'[p] = 1 /\ \A q \in Payments \ {p} : applied'[q] = applied[q]
  BY <1>0, <1>7
<1>9. BillingOK'
  BY <1>0, <1>4, <1>5, <1>8, <1>3 DEF Billing, BillingOK
<1>10. ~intent[p].refunded /\ payment[p].status # "none"
  BY DEF Billing, PaymentInv, Settled
<1>11. PaymentInv'
  <2> SUFFICES ASSUME NEW q \in Payments
      PROVE  /\ payment'[q].status = "none" =>
                   intent'[q].state = "none" /\ ~payment'[q].saved /\ applied'[q] = 0
             /\ payment'[q].status # "none" => payment'[q].plan \in Paid
             /\ intent'[q].refunded => payment'[q].status \in {"REFUND_REQUIRED", "REFUNDED"}
    BY DEF PaymentInv
  <2>1. CASE q = p
    BY <1>5, <1>8, <1>3, <1>10, <2>1 DEF Billing, PaymentInv
  <2>2. CASE q # p
    <3>1. /\ payment'[q].status = payment[q].status /\ payment'[q].plan = payment[q].plan
          /\ payment'[q].saved = payment[q].saved /\ applied'[q] = applied[q] /\ intent'[q] = intent[q]
      BY <1>5, <1>8, <1>3, <2>2
    <3>2. QED
      BY <3>1 DEF Billing, PaymentInv
  <2>3. QED
    BY <2>1, <2>2
<1>12. PaymentCountsOnce'
  <2>1. ASSUME NEW q \in Payments
        PROVE  /\ applied'[q] <= 1
               /\ applied'[q] = 1 => payment'[q].status = "SUCCEEDED" /\ ~intent'[q].refunded
    <3>1. CASE q = p
      BY <1>5, <1>8, <1>3, <1>10, <3>1
    <3>2. CASE q # p
      <4>1. payment'[q].status = payment[q].status /\ applied'[q] = applied[q] /\ intent'[q] = intent[q]
        BY <1>5, <1>8, <1>3, <3>2
      <4>2. QED
        BY <4>1 DEF Billing, PaymentCountsOnce
    <3>3. QED
      BY <3>1, <3>2
  <2>2. \A q \in Payments : payment'[q].status = "PENDING" => Pending(q)
    BY <1>5 DEF Pending
  <2>3. QED
    BY <2>1, <2>2 DEF Billing, PaymentCountsOnce, Pending
<1>13. QED
  BY <1>9, <1>11, <1>12 DEF Billing

\* The row of a new attempt, whatever it buys.
IsNewRow(r, plan, month) ==
    /\ r \in PaymentType /\ r.status = "PENDING" /\ r.plan = plan /\ r.redirect = FALSE
    /\ r.month = month

\* That is what OpenCheckout creates.
LEMMA NewPayment ==
    \A plan \in Paid, action \in {"NEW", "UPGRADE"}, month \in Payments \cup {"none"} :
        IsNewRow(NewRow(plan, action, month), plan, month)
<1> TAKE plan \in Paid, action \in {"NEW", "UPGRADE"}, month \in Payments \cup {"none"}
<1>1. NoPayment \in PaymentType /\ NoPayment.redirect = FALSE
  BY Booleans DEF NoPayment, PaymentType, PaymentStates
<1>2. plan \in Paid \cup {"none"} /\ "PENDING" \in PaymentStates
  BY DEF PaymentStates
<1>3. ASSUME NEW x \in PaymentType, x.redirect = FALSE,
             NEW y, y = [x EXCEPT !.status = "PENDING", !.plan = plan, !.action = action,
                                  !.current = TRUE, !.month = month]
      PROVE  IsNewRow(y, plan, month)
  BY <1>2, <1>3 DEF PaymentType, IsNewRow
<1>4. QED
  BY <1>1, <1>3, Zenon DEF NewRow

\* The steps that touch quotes, payments, intents or what a payment did.
LEMMA BillingSteps ==
    ASSUME [Next]_vars
    PROVE  \/ UNCHANGED billing
           \/ QuotesLapse /\ UNCHANGED <<intent, applied>>
           \/ \E plan \in Paid : QuoteProviderMembership(plan)
           \/ \E p \in Payments : Checkout(p) \/ Outcome(p)
<1> DEFINE Goal == \/ UNCHANGED billing
                   \/ QuotesLapse /\ UNCHANGED <<intent, applied>>
                   \/ \E plan \in Paid : QuoteProviderMembership(plan)
                   \/ \E p \in Payments : Checkout(p) \/ Outcome(p)
<1>1. ASSUME Membership PROVE Goal
  BY <1>1 DEF Membership, EnrollProviderMembership, EnsureProviderTrial, CancelProviderSubscription,
     TrialEnds, PeriodEnds, MaintenanceScan, MaintenanceMark, AccountChanges, billing
<1>2. ASSUME NEW l \in Listings, Listing(l) PROVE Goal
  BY <1>2 DEF Listing, CreateService, PublishListing, EnsureProviderTrial, PauseListing, UpdateService,
     AdminRemove, AdminRestore, Edit, DeleteService, billing
<1>3. ASSUME CommitEdit \/ UNCHANGED vars PROVE Goal
  BY <1>3 DEF CommitEdit, vars
<1>4. QED
  BY <1>1, <1>2, <1>3 DEF Next

\* A new attempt is priced on the membership's month or on the one of the quote
\* that the browser holds.
LEMMA Opened ==
    ASSUME BillingOK, MemberOK, NEW p \in Payments, NEW plan \in Paid, OpenCheckout(p, plan)
    PROVE  \E action \in {"NEW", "UPGRADE"}, month \in Payments \cup {"none"} :
              /\ month = member.month \/ (quote # "none" /\ month = quote)
              /\ payment' = [payment EXCEPT ![p] = NewRow(plan, action, month)]
<1>1. member.month \in Payments \cup {"none"} /\ quote \in Payments \cup {"none"}
  BY DEF BillingOK, MemberOK, MemberType
<1>2. QED
  BY <1>1 DEF OpenCheckout, Action

\* No step settles a payment twice, refunds one that took effect or leaves two
\* pending.
LEMMA NextBilling ==
    ASSUME Billing, MemberOK, [Next]_vars
    PROVE  Billing'
<1>0. member \in MemberType
      /\ payment \in [Payments -> PaymentType] /\ intent \in [Payments -> IntentType]
      /\ quote \in Payments \cup {"none"} /\ applied \in [Payments -> Nat]
      /\ \A p \in Payments : payment[p].redirect => payment[p].saved
  BY DEF Billing, BillingOK, MemberOK
<1>1. ASSUME UNCHANGED billing PROVE Billing'
  BY <1>0, <1>1, SameStates DEF billing
<1>2. ASSUME QuotesLapse /\ UNCHANGED <<intent, applied>> PROVE Billing'
  <2>1. \A r \in PaymentType :
           /\ [r EXCEPT !.current = FALSE] \in PaymentType
           /\ [r EXCEPT !.current = FALSE].status = r.status
           /\ [r EXCEPT !.current = FALSE].plan = r.plan
           /\ [r EXCEPT !.current = FALSE].saved = r.saved
           /\ [r EXCEPT !.current = FALSE].redirect = r.redirect
    BY DEF PaymentType
  <2>2. payment' = [p \in Payments |-> [payment[p] EXCEPT !.current = FALSE]] /\ quote' = "none"
    BY <1>2 DEF QuotesLapse
  <2>3. QED
    BY <1>0, <1>2, <2>1, <2>2, SameStates
<1>3. ASSUME NEW plan \in Paid, QuoteProviderMembership(plan) PROVE Billing'
  <2>1. member.month \in Payments \cup {"none"}
    BY <1>0 DEF MemberType
  <2>2. QED
    BY <1>0, <1>3, <2>1, SameStates DEF QuoteProviderMembership
<1>4. ASSUME NEW p \in Payments, NEW plan \in Paid, OpenCheckout(p, plan) PROVE Billing'
  <2>1. PICK action \in {"NEW", "UPGRADE"}, month \in Payments \cup {"none"} :
           /\ month = member.month \/ (quote # "none" /\ month = quote)
           /\ payment' = [payment EXCEPT ![p] = NewRow(plan, action, month)]
    BY <1>4, Opened DEF Billing
  <2> DEFINE r == NewRow(plan, action, month)
  <2>2. IsNewRow(r, plan, month)
    BY NewPayment
  <2>3. r \in PaymentType /\ r.status = "PENDING" /\ r.plan = plan /\ r.redirect = FALSE
    BY <2>2 DEF IsNewRow
  <2>4. payment' = [payment EXCEPT ![p] = r]
    BY <2>1
  <2>5. payment' \in [Payments -> PaymentType] /\ payment'[p] = r
        /\ \A q \in Payments \ {p} : payment'[q] = payment[q]
    BY <1>0, <2>3, <2>4
  <2>6. payment'[p].status = "PENDING" /\ payment'[p].plan \in Paid /\ ~payment'[p].redirect
    BY <2>3, <2>5
  <2>7. UNCHANGED <<quote, intent, applied>> /\ payment[p].status = "none"
        /\ \A q \in Payments : payment[q].status # "PENDING"
    BY <1>4 DEF OpenCheckout, NoPendingPayment, Pending
  <2>8. applied[p] = 0 /\ ~intent[p].refunded
    BY <2>7 DEF Billing, PaymentInv
  <2>9. BillingOK'
    BY <2>5, <2>6, <2>7 DEF Billing, BillingOK
  <2>10. PaymentInv'
    BY <2>5, <2>6, <2>7, <2>8, ZenonT(60) DEF Billing, PaymentInv
  <2>11. PaymentCountsOnce'
    BY <2>5, <2>6, <2>7, <2>8 DEF Billing, PaymentCountsOnce, Pending
  <2>12. QED
    BY <2>9, <2>10, <2>11 DEF Billing
<1>5. ASSUME NEW p \in Payments, CheckoutDue(p) PROVE Billing'
  <2>1. payment' = [payment EXCEPT ![p] = [payment[p] EXCEPT !.due = TRUE]] /\ UNCHANGED <<quote, intent, applied>>
    BY <1>5 DEF CheckoutDue
  <2>2. /\ [payment[p] EXCEPT !.due = TRUE] \in PaymentType
        /\ payment'[p] = [payment[p] EXCEPT !.due = TRUE]
    BY <1>0, <2>1 DEF PaymentType
  <2>3. QED
    BY <1>0, <2>1, <2>2, SameStates DEF PaymentType
<1>6. ASSUME NEW p \in Payments, SaveIntent(p) PROVE Billing'
  <2>1. payment' = [payment EXCEPT ![p] = [payment[p] EXCEPT !.saved = TRUE]] /\ UNCHANGED <<quote, intent, applied>>
        /\ intent[p].state # "none"
    BY <1>6 DEF SaveIntent
  <2>2. /\ [payment[p] EXCEPT !.saved = TRUE] \in PaymentType
        /\ payment'[p] = [payment[p] EXCEPT !.saved = TRUE]
    BY <1>0, <2>1 DEF PaymentType
  <2>3. QED
    BY <1>0, <2>1, <2>2, SameStates DEF PaymentType
<1>7. ASSUME NEW p \in Payments, SaveRedirect(p) PROVE Billing'
  <2>1. payment' = [payment EXCEPT ![p] = [payment[p] EXCEPT !.redirect = TRUE]] /\ UNCHANGED <<quote, intent, applied>>
        /\ payment[p].saved
    BY <1>7 DEF SaveRedirect
  <2>2. /\ [payment[p] EXCEPT !.redirect = TRUE] \in PaymentType
        /\ payment'[p] = [payment[p] EXCEPT !.redirect = TRUE]
    BY <1>0, <2>1 DEF PaymentType
  <2>3. QED
    BY <1>0, <2>1, <2>2, SameStates DEF PaymentType
<1>8. ASSUME NEW p \in Payments, NEW state \in {"awaiting", "open", "succeeded", "cancelled"},
             intent[p].state # "none" \/ Pending(p),
             intent' = [intent EXCEPT ![p].state = state], UNCHANGED <<quote, payment, applied>>
      PROVE  Billing'
  <2>1. intent' \in [Payments -> IntentType]
    BY <1>0, <1>8 DEF IntentType
  <2>2. \A q \in Payments : intent'[q].refunded = intent[q].refunded /\ (q # p => intent'[q] = intent[q])
    BY <1>0, <1>8 DEF IntentType
  <2>3. QED
    BY <1>0, <1>8, <2>1, <2>2, SameStates DEF Pending
<1>9. ASSUME NEW p \in Payments, CreateRefund(p) PROVE Billing'
  <2>1. intent' = [intent EXCEPT ![p].refunded = TRUE] /\ UNCHANGED <<quote, payment, applied>>
        /\ payment[p].status = "REFUND_REQUIRED"
    BY <1>9 DEF CreateRefund
  <2>2. intent' \in [Payments -> IntentType]
    BY <1>0, <2>1 DEF IntentType
  <2>3. \A q \in Payments : intent'[q].state = intent[q].state /\ (q # p => intent'[q] = intent[q])
    BY <1>0, <2>1 DEF IntentType
  <2>4. QED
    BY <1>0, <2>1, <2>2, <2>3, SameStates
<1>10. ASSUME NEW p \in Payments,
              CreatePaymentIntent(p) \/ AttachPaymentMethod(p) \/ Pay(p) \/ PayFails(p)
                \/ IntentCancelled(p)
       PROVE  Billing'
  BY <1>8, <1>10 DEF CreatePaymentIntent, AttachPaymentMethod, Pay, PayFails, IntentCancelled
<1>11. ASSUME NEW p \in Payments, CloseCheckout(p) \/ ExpireCheckout(p) \/ CancelSubscriptionCheckout(p)
       PROVE  Billing'
  <2>1. PICK status \in {"FAILED", "EXPIRED", "CANCELLED"} : MarkPayment(p, status)
    BY <1>11 DEF CloseCheckout, ExpireCheckout, CancelSubscriptionCheckout
  <2>2. payment[p].status = "PENDING" /\ ~intent[p].refunded
    BY <1>11 DEF CloseCheckout, ExpireCheckout, CancelSubscriptionCheckout, Pending, Billing, PaymentInv
  <2>3. status \in PaymentStates \ {"none", "PENDING", "SUCCEEDED"}
    BY DEF PaymentStates
  <2>4. QED
    BY <2>1, <2>2, <2>3, MarkKeeps
<1>12. ASSUME NEW p \in Payments, FinalizeSubscriptionPayment(p) PROVE Billing'
  <2>1. payment[p].saved /\ payment[p].status \notin Settled
    BY <1>12 DEF FinalizeSubscriptionPayment
  <2>2. CASE ApplyPlan(p)
    BY <2>1, <2>2, ApplyKeeps
  <2>3. CASE MarkPayment(p, "REFUND_REQUIRED")
    <3>1. payment[p].status \notin {"none", "SUCCEEDED"}
      BY <2>1 DEF Settled, Billing, PaymentInv
    <3>2. "REFUND_REQUIRED" \in PaymentStates \ {"none", "PENDING", "SUCCEEDED"}
      BY DEF PaymentStates, Settled
    <3>3. QED
      BY <2>3, <3>1, <3>2, MarkKeeps
  <2>4. QED
    BY <1>12, <2>2, <2>3 DEF FinalizeSubscriptionPayment, RequireRefund
<1>13. ASSUME NEW p \in Payments, SaveRefund(p) PROVE Billing'
  <2>1. MarkPayment(p, "REFUNDED") /\ payment[p].status = "REFUND_REQUIRED"
    BY <1>13 DEF SaveRefund
  <2>2. "REFUNDED" \in PaymentStates \ {"none", "PENDING", "SUCCEEDED"}
    BY DEF PaymentStates, Settled
  <2>3. QED
    BY <2>1, <2>2, MarkKeeps
<1>14. QED
  BY <1>1, <1>2, <1>3, <1>4, <1>5, <1>6, <1>7, <1>9, <1>10, <1>11, <1>12, <1>13, BillingSteps
  DEF Checkout, Outcome

-----------------------------------------------------------------------------
(* Listings                                                                 *)

\* Every plan allows some number of listings.
LEMMA LimitType ==
    ASSUME NEW plan \in Paid \cup {"FREE"}
    PROVE  Limit(plan) \in Nat
BY FS_CardinalityType, ListingsAssumption, BasicLimitAssumption DEF Limit, Paid

\* A set of listings is finite, and a part of it has no more elements.
LEMMA Fewer ==
    ASSUME NEW S \in SUBSET Listings, NEW R \in SUBSET S
    PROVE  Cardinality(S) \in Nat /\ Cardinality(R) \in Nat /\ Cardinality(R) <= Cardinality(S)
<1>1. IsFiniteSet(S) /\ IsFiniteSet(R)
  BY FS_Subset, ListingsAssumption
<1>2. QED
  BY <1>1, FS_CardinalityType, FS_Subset

\* Where the plan has room, one more listing fits.
LEMMA OneMore ==
    ASSUME NEW S \in SUBSET Listings, NEW l \in Listings, NEW limit \in Nat, Cardinality(S) < limit
    PROVE  Cardinality(S \cup {l}) <= limit
<1>1. IsFiniteSet(S) /\ Cardinality(S) \in Nat
  BY FS_Subset, ListingsAssumption, Fewer
<1>2. Cardinality(S \cup {l}) = IF l \in S THEN Cardinality(S) ELSE Cardinality(S) + 1
  BY <1>1, FS_AddElement
<1>3. QED
  BY <1>1, <1>2

\* The free period changes no plan.
LEMMA TrialKeepsPlan ==
    ASSUME MemberOK
    PROVE  WithTrial(member) \in MemberType /\ WithTrial(member).plan = member.plan
BY DEF MemberOK, MemberType, WithTrial

\* Only a paid plan changes the plan, and only it, an action on a listing or a
\* commit changes listings.
LEMMA ListingSteps ==
    ASSUME MemberOK, [Next]_vars
    PROVE  \/ UNCHANGED listings /\ member'.plan = member.plan
           \/ \E p \in Payments : payment[p].saved /\ Unlocked /\ ApplyPlan(p)
           \/ \E l \in Listings : Listing(l)
           \/ CommitEdit
<1> DEFINE Goal == \/ UNCHANGED listings /\ member'.plan = member.plan
                   \/ \E p \in Payments : payment[p].saved /\ Unlocked /\ ApplyPlan(p)
                   \/ \E l \in Listings : Listing(l)
                   \/ CommitEdit
<1>1. ASSUME Membership PROVE Goal
  BY <1>1, TrialKeepsPlan DEF Membership, EnrollProviderMembership, EnsureProviderTrial,
     CancelProviderSubscription, TrialEnds, PeriodEnds, MaintenanceScan, MaintenanceMark,
     AccountChanges, QuoteProviderMembership, listings, MemberOK, MemberType
<1>2. ASSUME NEW p \in Payments, Checkout(p) PROVE Goal
  BY <1>2 DEF Checkout, OpenCheckout, CheckoutDue, CreatePaymentIntent, SaveIntent, AttachPaymentMethod,
     SaveRedirect, Pay, PayFails, IntentCancelled
<1>3. ASSUME NEW p \in Payments, Outcome(p) PROVE Goal
  BY <1>3 DEF Outcome, CloseCheckout, ExpireCheckout, CancelSubscriptionCheckout,
     FinalizeSubscriptionPayment, RequireRefund, CreateRefund, SaveRefund, MarkPayment
<1>4. ASSUME UNCHANGED vars PROVE Goal
  BY <1>4 DEF vars
<1>5. QED
  BY <1>1, <1>2, <1>3, <1>4 DEF Next

ListingInv == ListingsOK /\ ListingLimitKept /\ EditInv

\* Beginning an edit keeps the limit, if what it will publish fits.
LEMMA EditKeeps ==
    ASSUME ListingInv, member'.plan = member.plan,
           NEW l \in Listings, NEW to \in ListingStates, Edit(l, to),
           to = "ACTIVE" => Cardinality(ActiveListings \cup {l}) <= Limit(member.plan)
    PROVE  ListingInv'
<1>1. editing' = [listing |-> l, to |-> to] /\ listing' = listing /\ ActiveListings' = ActiveListings
  BY DEF Edit, ActiveListings
<1>2. editing'.listing = l /\ editing'.to = to
  BY <1>1
<1>3. ListingsOK'
  BY <1>1 DEF ListingInv, ListingsOK
<1>4. ListingLimitKept'
  BY <1>1 DEF ListingInv, ListingLimitKept
<1>5. EditInv'
  BY <1>1, <1>2 DEF EditInv
<1>6. QED
  BY <1>3, <1>4, <1>5 DEF ListingInv

\* A paid plan leaves no more listings published than it allows.
LEMMA PlanFits ==
    ASSUME MemberOK, ListingInv, NEW p \in Payments, Unlocked, payment[p].plan \in Paid, ApplyPlan(p)
    PROVE  ListingInv'
<1> DEFINE plan == payment[p].plan
<1>1. PICK S \in Paused(plan) : listing' = [l \in Listings |-> IF l \in S THEN "INACTIVE" ELSE listing[l]]
  BY DEF ApplyPlan
<1>2. ActiveListings' = ActiveListings \ S /\ ActiveListings \in SUBSET Listings
  BY <1>1 DEF ActiveListings
<1>3. member'.plan = plan /\ editing' = editing
  BY PlanBought DEF ApplyPlan
<1>4. ListingsOK'
  BY <1>1, <1>3 DEF ListingInv, ListingsOK, ListingStates
<1>5. Cardinality(ActiveListings \ S) <= Limit(plan)
  <2>1. CASE plan = "PRO"
    <3>1. Cardinality(ActiveListings \ S) <= Cardinality(Listings)
      BY <1>2, Fewer
    <3>2. QED
      BY <2>1, <3>1 DEF Limit
  <2>2. CASE plan = "BASIC"
    <3>0. Cardinality(ActiveListings) \in Nat /\ BasicLimit \in Nat /\ Limit(plan) = BasicLimit
      BY <1>2, <2>2, Fewer, BasicLimitAssumption DEF Limit
    <3>1. CASE Cardinality(ActiveListings) > BasicLimit
      BY <2>2, <3>0, <3>1 DEF Paused
    <3>2. CASE ~(Cardinality(ActiveListings) > BasicLimit)
      <4>1. S = {} /\ ActiveListings \ S = ActiveListings
        BY <3>2 DEF Paused
      <4>2. QED
        BY <3>0, <3>2, <4>1
    <3>3. QED
      BY <3>1, <3>2
  <2>3. QED
    BY <2>1, <2>2 DEF Paid
<1>6. ListingLimitKept'
  BY <1>2, <1>3, <1>5 DEF ListingLimitKept
<1>7. EditInv'
  BY <1>3 DEF EditInv, Unlocked
<1>8. QED
  BY <1>4, <1>6, <1>7 DEF ListingInv

\* No step publishes a listing above the limit: not the commit of an edit that
\* found room, whatever was deleted meanwhile, and not a cheaper plan.
LEMMA NextListing ==
    ASSUME MemberOK, PaymentInv, ListingInv, [Next]_vars
    PROVE  ListingInv'
<1>0. /\ listing \in [Listings -> ListingStates] /\ ActiveListings \in SUBSET Listings
      /\ Cardinality(ActiveListings) <= Limit(member.plan)
      /\ Limit(member.plan) \in Nat
  BY LimitType DEF ListingInv, ListingsOK, ListingLimitKept, ActiveListings, MemberOK, MemberType
<1>1. ASSUME UNCHANGED listings, member'.plan = member.plan PROVE ListingInv'
  <2>1. ListingsOK'
    BY <1>1 DEF listings, ListingInv, ListingsOK
  <2>2. ActiveListings' = ActiveListings /\ editing' = editing
    BY <1>1 DEF listings, ActiveListings
  <2>3. ListingLimitKept' /\ EditInv'
    BY <1>1, <2>2 DEF ListingInv, ListingLimitKept, EditInv, Unlocked
  <2>4. QED
    BY <2>1, <2>3 DEF ListingInv
<1>2. ASSUME NEW p \in Payments, payment[p].saved, Unlocked, ApplyPlan(p) PROVE ListingInv'
  BY <1>2, PlanFits DEF PaymentInv
<1>3. ASSUME NEW l \in Listings, CreateService(l) PROVE ListingInv'
  <2>1. /\ listing' = [listing EXCEPT ![l] = "ACTIVE"] /\ editing' = editing /\ Unlocked
        /\ member' = WithTrial(member) /\ HasCapacity(WithTrial(member))
    BY <1>3 DEF CreateService, EnsureProviderTrial
  <2>2. member'.plan = member.plan /\ Cardinality(ActiveListings) < Limit(member.plan)
    BY <2>1, TrialKeepsPlan DEF HasCapacity
  <2>3. ActiveListings' = ActiveListings \cup {l}
    BY <1>0, <2>1 DEF ActiveListings
  <2>4. ListingLimitKept'
    BY <1>0, <2>2, <2>3, OneMore DEF ListingLimitKept
  <2>5. ListingsOK' /\ EditInv'
    BY <1>0, <2>1 DEF ListingInv, ListingsOK, ListingStates, EditInv, Unlocked
  <2>6. QED
    BY <2>4, <2>5 DEF ListingInv
<1>4. ASSUME NEW l \in Listings, PublishListing(l) PROVE ListingInv'
  <2>1. member'.plan = member.plan /\ Cardinality(ActiveListings) < Limit(member.plan) /\ Edit(l, "ACTIVE")
    BY <1>4, TrialKeepsPlan DEF PublishListing, HasCapacity, EnsureProviderTrial
  <2>2. QED
    BY <1>0, <2>1, OneMore, EditKeeps DEF ListingStates
<1>5. ASSUME NEW l \in Listings, AdminRestore(l) PROVE ListingInv'
  <2>1. member'.plan = member.plan /\ Cardinality(ActiveListings) < Limit(member.plan) /\ Edit(l, "ACTIVE")
    BY <1>5 DEF AdminRestore, HasCapacity
  <2>2. QED
    BY <1>0, <2>1, OneMore, EditKeeps DEF ListingStates
<1>6. ASSUME NEW l \in Listings, UpdateService(l) PROVE ListingInv'
  <2>1. member'.plan = member.plan /\ Edit(l, listing[l]) /\ listing[l] \in {"ACTIVE", "INACTIVE"}
    BY <1>6 DEF UpdateService
  <2>2. listing[l] = "ACTIVE" => ActiveListings \cup {l} = ActiveListings
    BY DEF ActiveListings
  <2>3. listing[l] \in ListingStates
    BY <1>0
  <2>4. QED
    BY <1>0, <2>1, <2>2, <2>3, EditKeeps
<1>7. ASSUME NEW l \in Listings, PauseListing(l) \/ AdminRemove(l) PROVE ListingInv'
  <2>1. PICK to \in {"INACTIVE", "SUSPENDED"} : Edit(l, to) /\ member'.plan = member.plan
    BY <1>7 DEF PauseListing, AdminRemove
  <2>2. to \in ListingStates /\ to # "ACTIVE"
    BY DEF ListingStates
  <2>3. QED
    BY <2>1, <2>2, EditKeeps
<1>8. ASSUME NEW l \in Listings, DeleteService(l) PROVE ListingInv'
  <2>1. /\ listing' = [listing EXCEPT ![l] = "DELETED"] /\ editing' = editing /\ member' = member
    BY <1>8 DEF DeleteService
  <2>2. ActiveListings' \subseteq ActiveListings
    BY <1>0, <2>1 DEF ActiveListings
  <2>3. Cardinality(ActiveListings') <= Cardinality(ActiveListings)
        /\ Cardinality(ActiveListings) \in Nat /\ Cardinality(ActiveListings') \in Nat
    BY <1>0, <2>2, Fewer
  <2>4. ListingLimitKept'
    BY <1>0, <2>1, <2>3 DEF ListingLimitKept
  <2>5. ListingsOK'
    BY <1>0, <2>1 DEF ListingInv, ListingsOK, ListingStates
  <2>6. EditInv'
    <3> SUFFICES ASSUME ~Unlocked
                 PROVE  /\ editing.listing \in Listings
                        /\ editing.to = "ACTIVE" =>
                              Cardinality(ActiveListings' \cup {editing.listing}) <= Limit(member.plan)
      BY <2>1 DEF EditInv, Unlocked
    <3>1. /\ editing.listing \in Listings
          /\ editing.to = "ACTIVE" =>
                Cardinality(ActiveListings \cup {editing.listing}) <= Limit(member.plan)
      BY DEF ListingInv, EditInv
    <3> DEFINE S == ActiveListings \cup {editing.listing}
               R == ActiveListings' \cup {editing.listing}
    <3>2. S \in SUBSET Listings /\ R \in SUBSET S
      BY <1>0, <2>2, <3>1
    <3>3. Cardinality(S) \in Nat /\ Cardinality(R) \in Nat /\ Cardinality(R) <= Cardinality(S)
      BY <3>2, Fewer
    <3>4. QED
      BY <1>0, <3>1, <3>3
  <2>7. QED
    BY <2>4, <2>5, <2>6 DEF ListingInv
<1>9. ASSUME CommitEdit PROVE ListingInv'
  <2>1. /\ listing' = [listing EXCEPT ![editing.listing] = editing.to] /\ member' = member
        /\ editing' = NoEdit /\ ~Unlocked
    BY <1>9 DEF CommitEdit
  <2>2. /\ editing.listing \in Listings /\ editing.to \in ListingStates
        /\ editing.to = "ACTIVE" =>
              Cardinality(ActiveListings \cup {editing.listing}) <= Limit(member.plan)
    BY <2>1 DEF ListingInv, EditInv, ListingsOK
  <2>3. Cardinality(ActiveListings') <= Limit(member.plan)
    <3>1. CASE editing.to = "ACTIVE"
      <4>1. ActiveListings' = ActiveListings \cup {editing.listing}
        BY <1>0, <2>1, <2>2, <3>1 DEF ActiveListings
      <4>2. QED
        BY <2>2, <3>1, <4>1
    <3>2. CASE editing.to # "ACTIVE"
      <4>1. ActiveListings' \subseteq ActiveListings
        BY <1>0, <2>1, <2>2, <3>2 DEF ActiveListings
      <4>2. QED
        BY <1>0, <4>1, Fewer
    <3>3. QED
      BY <3>1, <3>2
  <2>4. ListingLimitKept'
    BY <2>1, <2>3 DEF ListingLimitKept
  <2>5. ListingsOK' /\ EditInv'
    BY <1>0, <2>1, <2>2 DEF ListingsOK, ListingStates, NoEdit, EditInv, Unlocked
  <2>6. QED
    BY <2>4, <2>5 DEF ListingInv
<1>10. QED
  BY <1>1, <1>2, <1>3, <1>4, <1>5, <1>6, <1>7, <1>8, <1>9, ListingSteps DEF Listing

-----------------------------------------------------------------------------
(* The month a payment was priced on                                        *)

\* A row of a payment keeps what it was quoted on.
KeepsQuote(p) ==
    /\ payment'[p].current => payment[p].current
    /\ payment'[p].month = payment[p].month

\* The quotes that lapse.
LEMMA Lapsed ==
    ASSUME payment \in [Payments -> PaymentType], QuotesLapse
    PROVE  quote' = "none" /\ \A p \in Payments : ~payment'[p].current
BY DEF QuotesLapse, PaymentType

\* A price is kept, or quoted on the month that is running or on the one of the
\* quote that the browser holds.
PricesKept ==
    /\ quote' = quote \/ quote' = member.month
    /\ \A p \in Payments : \/ KeepsQuote(p)
                           \/ payment'[p].month = member.month
                           \/ quote # "none" /\ payment'[p].month = quote

\* What a step does to prices.
LEMMA Repriced ==
    ASSUME BillingOK, MemberOK, [Next]_vars
    PROVE  \/ QuotesLapse
           \/ \E p \in Payments : ApplyPlan(p)
           \/ PricesKept
<1> DEFINE Goal == \/ QuotesLapse
                   \/ \E p \in Payments : ApplyPlan(p)
                   \/ PricesKept
<1>0. payment \in [Payments -> PaymentType] /\ NoPayment \in PaymentType
  BY Booleans DEF BillingOK, NoPayment, PaymentType, PaymentStates
<1>1. ASSUME UNCHANGED <<quote, payment>> PROVE Goal
  BY <1>1 DEF KeepsQuote, PricesKept
<1>2. ASSUME NEW plan \in Paid, QuoteProviderMembership(plan) PROVE Goal
  BY <1>2 DEF QuoteProviderMembership, KeepsQuote, PricesKept
<1>3. ASSUME NEW p \in Payments, NEW r \in PaymentType,
             r.current => payment[p].current, r.month = payment[p].month,
             payment' = [payment EXCEPT ![p] = r], quote' = quote
      PROVE  Goal
  <2>1. payment'[p] = r /\ \A q \in Payments \ {p} : payment'[q] = payment[q]
    BY <1>0, <1>3
  <2>2. ASSUME NEW q \in Payments PROVE KeepsQuote(q)
    BY <1>3, <2>1 DEF KeepsQuote
  <2>3. QED
    BY <1>3, <2>2 DEF PricesKept
<1>4. ASSUME NEW p \in Payments, NEW status \in PaymentStates, MarkPayment(p, status) PROVE Goal
  <2> DEFINE r == [payment[p] EXCEPT !.status = status, !.due = FALSE]
  <2>1. r \in PaymentType /\ r.current = payment[p].current /\ r.month = payment[p].month
    BY <1>0 DEF PaymentType
  <2>2. payment' = [payment EXCEPT ![p] = r] /\ quote' = quote
    BY <1>4 DEF MarkPayment
  <2>3. QED
    BY <1>3, <2>1, <2>2
<1>5. ASSUME NEW p \in Payments, CheckoutDue(p) \/ SaveIntent(p) \/ SaveRedirect(p) PROVE Goal
  <2>1. PICK r \in {[payment[p] EXCEPT !.due = TRUE], [payment[p] EXCEPT !.saved = TRUE],
                    [payment[p] EXCEPT !.redirect = TRUE]} :
           payment' = [payment EXCEPT ![p] = r] /\ quote' = quote
    BY <1>5 DEF CheckoutDue, SaveIntent, SaveRedirect
  <2>2. r \in PaymentType /\ r.current = payment[p].current /\ r.month = payment[p].month
    BY <1>0, <2>1 DEF PaymentType
  <2>3. QED
    BY <1>3, <2>1, <2>2
<1>6. ASSUME NEW p \in Payments, NEW plan \in Paid, OpenCheckout(p, plan) PROVE Goal
  <2>1. PICK action \in {"NEW", "UPGRADE"}, month \in Payments \cup {"none"} :
           /\ month = member.month \/ (quote # "none" /\ month = quote)
           /\ payment' = [payment EXCEPT ![p] = NewRow(plan, action, month)]
    BY <1>6, Opened
  <2> DEFINE r == NewRow(plan, action, month)
  <2>2. IsNewRow(r, plan, month)
    BY NewPayment
  <2>3. r.month = month
    BY <2>2 DEF IsNewRow
  <2>4. payment'[p].month = month /\ \A q \in Payments \ {p} : payment'[q] = payment[q]
    BY <1>0, <2>1, <2>3
  <2>5. quote' = quote
    BY <1>6 DEF OpenCheckout
  <2>6. QED
    BY <2>1, <2>4, <2>5 DEF KeepsQuote, PricesKept
<1>7. ASSUME NEW p \in Payments, Checkout(p) PROVE Goal
  BY <1>1, <1>5, <1>6, <1>7 DEF Checkout, CreatePaymentIntent, AttachPaymentMethod, Pay, PayFails, IntentCancelled
<1>8. ASSUME NEW p \in Payments, Outcome(p) PROVE Goal
  <2>1. {"FAILED", "CANCELLED", "EXPIRED", "REFUND_REQUIRED", "REFUNDED"} \subseteq PaymentStates
    BY DEF PaymentStates, Settled
  <2>2. \/ ApplyPlan(p) \/ UNCHANGED <<quote, payment>>
        \/ \E status \in {"FAILED", "CANCELLED", "EXPIRED", "REFUND_REQUIRED", "REFUNDED"} : MarkPayment(p, status)
    BY <1>8 DEF Outcome, CloseCheckout, ExpireCheckout, CancelSubscriptionCheckout,
       FinalizeSubscriptionPayment, RequireRefund, CreateRefund, SaveRefund
  <2>3. QED
    BY <1>1, <1>4, <2>1, <2>2
<1>9. QED
  BY <1>1, <1>2, <1>7, <1>8, BillingSteps DEF billing

\* Only a payment begins a month.
LEMMA MonthKept ==
    ASSUME MemberOK, [Next]_vars
    PROVE  member'.month = member.month \/ \E p \in Payments : ApplyPlan(p)
BY MemberSteps DEF MemberOK, MemberType, EnsureProviderTrial, WithTrial, CancelProviderSubscription,
   TrialEnds, PeriodEnds, MaintenanceScan, MaintenanceMark, AccountChanges

\* What is current was priced on the month that the membership is in.
LEMMA NextQuote ==
    ASSUME MemberOK, BillingOK, QuoteInv, [Next]_vars
    PROVE  QuoteInv'
<1>1. ASSUME NEW p \in Payments, ApplyPlan(p) PROVE QuoteInv'
  <2>1. quote' = "none"
    BY <1>1 DEF ApplyPlan
  <2>2. \A q \in Payments : ~payment'[q].current
    BY <1>1 DEF ApplyPlan, BillingOK, PaymentType
  <2>3. QED
    BY <2>1, <2>2 DEF QuoteInv
<1>2. ASSUME QuotesLapse PROVE QuoteInv'
  BY <1>2, Lapsed DEF QuoteInv, BillingOK
<1>3. ASSUME member'.month = member.month, PricesKept PROVE QuoteInv'
  BY <1>3 DEF QuoteInv, KeepsQuote, PricesKept
<1>4. QED
  BY <1>1, <1>2, <1>3, Repriced, MonthKept

-----------------------------------------------------------------------------
(* The theorems                                                             *)

\* A member who has bought and published nothing.
LEMMA InitInv == Init => IInv
<1> SUFFICES ASSUME Init PROVE IInv
  OBVIOUS
<1>1. MemberOK /\ ListingsOK
  BY Booleans DEF Init, MemberOK, MemberType, ListingsOK, ListingStates, NoEdit
<1>2. BillingOK
  <2>1. NoPayment \in PaymentType /\ NoPayment.redirect = FALSE
    BY Booleans DEF NoPayment, PaymentType, PaymentStates
  <2>2. [state |-> "none", refunded |-> FALSE] \in IntentType
    BY Booleans DEF IntentType
  <2>3. QED
    BY <2>1, <2>2 DEF Init, BillingOK
<1>3. ScanInv /\ RunningMonthCounts
  BY DEF Init, ScanInv, RunningMonthCounts
<1>4. PaymentInv /\ PaymentCountsOnce
  BY DEF Init, PaymentInv, PaymentCountsOnce, Pending, NoPayment
<1>5. EditInv /\ QuoteInv
  BY DEF Init, EditInv, Unlocked, QuoteInv, NoPayment
<1>6. ListingLimitKept
  <2>1. ActiveListings = {}
    BY DEF Init, ActiveListings
  <2>2. QED
    BY <2>1, FS_EmptySet DEF Init, ListingLimitKept, Limit
<1>7. QED
  BY <1>1, <1>2, <1>3, <1>4, <1>5, <1>6, TypeParts DEF IInv

\* Every step keeps the invariant.
LEMMA NextInv == IInv /\ [Next]_vars => IInv'
<1> SUFFICES ASSUME IInv, [Next]_vars PROVE IInv'
  OBVIOUS
<1>1. MemberOK /\ BillingOK /\ ListingsOK
  BY TypeParts DEF IInv
<1>2. (MemberOK /\ ScanInv /\ RunningMonthCounts)'
  BY <1>1, NextMember DEF IInv
<1>3. Billing'
  BY <1>1, NextBilling DEF IInv, Billing
<1>4. ListingInv'
  BY <1>1, NextListing DEF IInv, ListingInv
<1>5. QuoteInv'
  BY <1>1, NextQuote DEF IInv
<1>6. TypeOK'
  BY <1>2, <1>3, <1>4 DEF Billing, ListingInv, TypeOK, MemberOK, BillingOK, ListingsOK, MemberType,
     PaymentType, PaymentStates, IntentType
<1>7. QED
  BY <1>2, <1>3, <1>4, <1>5, <1>6 DEF Billing, ListingInv, IInv

\* The inductive invariant holds in every reachable state.
THEOREM Invariance == Spec => []IInv
BY InitInv, NextInv, PTL DEF Spec

\* Every variable stays within its type, and the browser is sent to a checkout
\* only for an intent that is recorded.
THEOREM TypeCorrect == Spec => []TypeOK
<1>1. IInv => TypeOK
  BY DEF IInv
<1>2. QED
  BY <1>1, Invariance, PTL

\* A payment changes the membership at most once, one that did is not refunded,
\* and no two are pending at once: whatever the webhook, the return page, the
\* next checkout and the cancellation do, in any order.
THEOREM PaymentsCountOnce == Spec => []PaymentCountsOnce
<1>1. IInv => PaymentCountsOnce
  BY DEF IInv
<1>2. QED
  BY <1>1, Invariance, PTL

\* A month that was paid for and is running gives access: the maintenance job
\* never marks a membership that was renewed after it had read it.
THEOREM RunningMonthsCount == Spec => []RunningMonthCounts
<1>1. IInv => RunningMonthCounts
  BY DEF IInv
<1>2. QED
  BY <1>1, Invariance, PTL

\* The published listings never exceed what the plan allows, for any limit of the
\* Basic plan and any number of listings.
THEOREM ListingLimitHolds == Spec => []ListingLimitKept
<1>1. IInv => ListingLimitKept
  BY DEF IInv
<1>2. QED
  BY <1>1, Invariance, PTL

\* A payment takes effect only on the membership it was priced for: no other
\* month was bought between its price and its effect, however late it was
\* captured and whatever was renewed, cancelled or over meanwhile.
THEOREM PaymentsAsPriced == Spec => AppliedAsPriced
<1> DEFINE Priced(p) == /\ payment[p].month = member.month
                        /\ IF payment[p].action = "UPGRADE" THEN member.plan = "BASIC" /\ PaidAccess(member)
                           ELSE ~PaidAccess(member)
<1>1. IInv /\ [Next]_vars =>
         [\A p \in Payments : applied'[p] > applied[p] =>
             /\ payment[p].month = member.month
             /\ IF payment[p].action = "UPGRADE" THEN member.plan = "BASIC" /\ PaidAccess(member)
                ELSE ~PaidAccess(member)]_vars
  <2> SUFFICES ASSUME IInv, Next PROVE \A p \in Payments : applied'[p] > applied[p] => Priced(p)
    OBVIOUS
  <2>1. applied \in [Payments -> Nat]
    BY DEF IInv, TypeOK
  <2>2. CASE UNCHANGED applied
    BY <2>1, <2>2
  <2>3. ASSUME NEW q \in Payments, Applies(q), ApplyPlan(q)
        PROVE  \A p \in Payments : applied'[p] > applied[p] => Priced(p)
    <3>1. applied' = [applied EXCEPT ![q] = @ + 1]
      BY <2>3 DEF ApplyPlan
    <3>2. \A p \in Payments : p # q => applied'[p] = applied[p]
      BY <2>1, <3>1
    <3>3. Priced(q)
      BY <2>3 DEF Applies, PaidAccess, IInv, QuoteInv
    <3>4. QED
      BY <2>1, <3>2, <3>3
  <2>4. UNCHANGED applied \/ \E q \in Payments : Applies(q) /\ ApplyPlan(q)
    <3>1. ASSUME QuotesLapse /\ UNCHANGED <<intent, applied>> PROVE UNCHANGED applied
      BY <3>1
    <3>2. ASSUME NEW plan \in Paid, QuoteProviderMembership(plan) PROVE UNCHANGED applied
      BY <3>2 DEF QuoteProviderMembership
    <3>3. ASSUME NEW p \in Payments, Checkout(p) PROVE UNCHANGED applied
      BY <3>3 DEF Checkout, OpenCheckout, CheckoutDue, CreatePaymentIntent, SaveIntent,
         AttachPaymentMethod, SaveRedirect, Pay, PayFails, IntentCancelled
    <3>4. ASSUME NEW p \in Payments, Outcome(p)
          PROVE  UNCHANGED applied \/ \E q \in Payments : Applies(q) /\ ApplyPlan(q)
      BY <3>4 DEF Outcome, CloseCheckout, ExpireCheckout, CancelSubscriptionCheckout,
         FinalizeSubscriptionPayment, RequireRefund, CreateRefund, SaveRefund, MarkPayment
    <3>5. QED
      BY <3>1, <3>2, <3>3, <3>4, BillingSteps DEF billing
  <2>5. QED
    BY <2>2, <2>3, <2>4
<1>2. QED
  BY <1>1, Invariance, PTL DEF Spec, AppliedAsPriced

=============================================================================
