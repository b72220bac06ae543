---------------------------- MODULE BookingCases ----------------------------
(***************************************************************************)
(* One booking of the marketplace from acceptance to settlement, with the  *)
(* cases that can be opened against it and the administrator decisions     *)
(* that close them.                                                        *)
(*                                                                         *)
(* Every database transaction of the services starts by taking the         *)
(* advisory lock booking-lifecycle:<id> and re-reads the rows, so one      *)
(* transaction is one action here.  The multi-transaction operations       *)
(* (immediate cancellation, refund, the administrator resolutions) are     *)
(* workers: API requests in flight whose program counter `pc' says which   *)
(* transaction or PayMongo call comes next.  Workers interleave with each  *)
(* other and with every participant's request, and may crash anywhere.     *)
(*                                                                         *)
(* Left out: notices and socket events, trust points, account penalties    *)
(* other than a ban, and the rest of the provider's queue.                 *)
(***************************************************************************)
EXTENDS Naturals, FiniteSets

CONSTANTS
    Workers,        \* API requests running a multi-transaction operation
    Requests,       \* identities of CancellationRequest rows
    Reports,        \* identities of Report rows
    Escalations,    \* identities of CompletionEscalation rows
    AdminBooking,   \* the case of an administrator's decision on the booking
    PaymentMethod,  \* "GCash" or "On-site Cash"
    LiveKey         \* FALSE: PAYMONGO_SECRET_KEY is an sk_test_ key

Cases == Requests \cup Reports \cup Escalations \cup {AdminBooking}

ASSUME PaymentMethodAssumption == PaymentMethod \in {"GCash", "On-site Cash"}
ASSUME LiveKeyAssumption == LiveKey \in BOOLEAN
ASSUME CasesDisjoint ==
    /\ Requests \cap Reports = {}
    /\ Requests \cap Escalations = {}
    /\ Reports \cap Escalations = {}
    /\ AdminBooking \notin Requests \cup Reports \cup Escalations
\* "none" marks a missing reference, so it cannot be the identity of a case.
ASSUME NoneIsNoCase == "none" \notin Cases

VARIABLES
    status, before, pay, started,       \* the Booking row
    queue,                              \* its Queue row: status and pay
    refund,                             \* its PaymentRefund row: status, and ref (paymongoRefundId is set)
    gateway,                            \* PayMongo has executed the refund
    completedService, ledger,           \* CompletedService row, Transaction rows of the booking
    request, report, escalation,        \* the rows of its cases
    op,                                 \* AdminResolutionOperation, one row per case
    worker,                             \* the operations in flight
    banned                              \* participants whose moderationStatus is BANNED

bookingVars == <<status, before, pay, started, queue>>
moneyVars   == <<refund, gateway, completedService, ledger>>
caseVars    == <<request, report, escalation>>
vars        == <<bookingVars, moneyVars, caseVars, op, worker, banned>>

Participants == {"seeker", "provider"}
Other(p) == IF p = "seeker" THEN "provider" ELSE "seeker"

IsCash == PaymentMethod = "On-site Cash"

\* Mutated form: a payment frozen by a case no longer counts as held.
OnlyPaidHeld == {"PAID_HELD"}

\* Payment states from which a refund is owed.
Held == {"PAID_HELD", "FROZEN_HELD"}

BookingStatus == {"ACCEPTED", "ONGOING", "AWAITING_CONFIRMATION", "DISPUTED",
                  "UNDER_REVIEW", "COMPLETED", "CANCELED"}
PaymentStatus == {"UNPAID", "PAID_HELD", "FROZEN_HELD", "RELEASED", "REFUNDED",
                  "CASH_CONFIRMED"}

ActiveReport       == {"PENDING", "UNDER_REVIEW"}
ActiveCancellation == {"PENDING", "DECLINED", "ESCALATED", "UNDER_REVIEW"}
ActiveEscalation   == {"PENDING", "UNDER_REVIEW"}

ActiveReports     == {r \in Reports : report[r].status \in ActiveReport}
ActiveRequests    == {r \in Requests : request[r].status \in ActiveCancellation}
ActiveEscalations == {e \in Escalations : escalation[e].status \in ActiveEscalation}

StageOrder == [CLAIMED |-> 0, DECISION_READY |-> 1, FINANCIAL_EFFECT_RESERVED |-> 2,
               FINANCIAL_EFFECT_ESTABLISHED |-> 3, CASE_FINALIZED |-> 4]

CancelOutcomes  == {"IMMEDIATE", "PARTICIPANT_APPROVE", "ADMIN_APPROVE", "cancel_booking", "refund_seeker"}
ReleaseOutcome  == "release_provider_and_complete"
FinancialOutcomes == CancelOutcomes \cup {ReleaseOutcome}
Outcomes == FinancialOutcomes \cup {"none", "ADMIN_DENY", "dismiss", "resolve_safety", "keep_awaiting"}

\* What createRefund answered, upper-cased: the simulated status under a test
\* key; a live refund was accepted, may still be PROCESSING, or has FAILED and
\* moved nothing.
GatewayRefundStatus ==
    CASE ~LiveKey             -> {"SUBMITTED"}
      [] LiveKey /\ gateway  -> {"SUBMITTED", "PROCESSING"}
      [] LiveKey /\ ~gateway -> {"FAILED"}

Idle == [pc |-> "idle", case |-> "none", outcome |-> "none", held |-> FALSE, resumed |-> FALSE]

NoOp == [status |-> "none", stage |-> "CLAIMED", outcome |-> "none", penalty |-> "none"]

PCs == {"idle", "reserve", "cancel_read", "refund_read", "refund_reserve", "refund_gateway",
        "refund_failed", "refund_final", "cancel_tx", "settle", "mark", "decide",
        "finalize", "immediate_final", "fail"}

\* Every variable stays within its type.
TypeOK ==
    /\ status \in BookingStatus
    /\ before \in BookingStatus \cup {"none"}
    /\ pay \in PaymentStatus
    /\ started \in BOOLEAN
    /\ queue \in [status : {"none", "WAITING", "SERVING", "DONE", "CANCELLED"},
                  pay : PaymentStatus]
    /\ refund \in [status : {"none", "PROCESSING", "FAILED", "SUBMITTED"}, ref : BOOLEAN]
    /\ gateway \in BOOLEAN
    /\ completedService \in BOOLEAN
    /\ ledger \in SUBSET {"EARNING", "REFUND"}
    /\ request \in [Requests -> [status : ActiveCancellation \cup {"none", "APPROVED", "RESOLVED"},
                                 immediate : BOOLEAN,
                                 by : Participants,
                                 report : Reports \cup {"none"}]]
    /\ report \in [Reports -> [status : ActiveReport \cup {"none", "RESOLVED", "DISMISSED"},
                               type : {"none", "SAFETY", "COMPLETION_DISPUTE", "CANCELLATION_ESCALATION"},
                               against : Participants]]
    /\ escalation \in [Escalations -> [status : ActiveEscalation \cup {"none", "RESOLVED", "DISMISSED"}]]
    /\ op \in [Cases -> [status : {"none", "PROCESSING", "FAILED_RETRYABLE", "COMPLETED"},
                         stage : DOMAIN StageOrder,
                         outcome : Outcomes,
                         penalty : {"none", "ban"}]]
    /\ worker \in [Workers -> [pc : PCs, case : Cases \cup {"none"}, outcome : Outcomes,
                               held : BOOLEAN, resumed : BOOLEAN]]
    /\ banned \in SUBSET Participants

\* An accepted booking: a paid one stands in the provider's queue with its
\* payment held, a cash one has no queue row.
Init ==
    /\ status = "ACCEPTED"
    /\ before = "none"
    /\ pay = IF IsCash THEN "UNPAID" ELSE "PAID_HELD"
    /\ started = FALSE
    /\ queue = [status |-> IF IsCash THEN "none" ELSE "WAITING",
                pay |-> IF IsCash THEN "UNPAID" ELSE "PAID_HELD"]
    /\ refund = [status |-> "none", ref |-> FALSE]
    /\ gateway = FALSE
    /\ completedService = FALSE
    /\ ledger = {}
    /\ request = [r \in Requests |-> [status |-> "none", immediate |-> FALSE,
                                      by |-> "seeker", report |-> "none"]]
    /\ report = [r \in Reports |-> [status |-> "none", type |-> "none", against |-> "provider"]]
    /\ escalation = [e \in Escalations |-> [status |-> "none"]]
    /\ op = [c \in Cases |-> NoOp]
    /\ worker = [w \in Workers |-> Idle]
    /\ banned = {}

-----------------------------------------------------------------------------
(* Guards shared by the services                                            *)

\* Mutated form: a refund counts as in progress only once PayMongo has answered.
NoRefundAnswered == refund.status # "SUBMITTED"

NoRefundInProgress == refund.status # "PROCESSING"

NoOtherBlockingCases(excluded) ==
    (ActiveReports \cup ActiveRequests \cup ActiveEscalations) \subseteq excluded

Reserved(o) ==
    /\ o.status \in {"PROCESSING", "FAILED_RETRYABLE"}
    /\ o.stage \in {"FINANCIAL_EFFECT_RESERVED", "FINANCIAL_EFFECT_ESTABLISHED"}

\* Mutated form: a decision that failed and can be retried no longer blocks.
NoFinancialResolutionRunning(except) ==
    \A c \in Cases \ except : ~(Reserved(op[c]) /\ op[c].status = "PROCESSING")

NoFinancialResolutionReserved(except) == \A c \in Cases \ except : ~Reserved(op[c])

Established(o) == o.stage \in {"FINANCIAL_EFFECT_ESTABLISHED", "CASE_FINALIZED"}

\* The booking has reached the final state a cancellation or a release aims at.
Cancelled == status = "CANCELED" /\ (IsCash \/ pay = "REFUNDED")
Released  == status = "COMPLETED" /\ pay \in {"RELEASED", "CASH_CONFIRMED"}

EffectReached(outcome) ==
    /\ outcome \in CancelOutcomes => Cancelled
    /\ outcome = ReleaseOutcome => Released

-----------------------------------------------------------------------------
(* The durable administrator operation                                      *)

\* beginAdminResolution refuses a second decision with another outcome.
MayBegin(c, outcome, penalty) ==
    op[c].status # "none" => op[c].outcome = outcome /\ op[c].penalty = penalty

BeginAdminResolution(c, outcome, penalty) ==
    CASE op[c].status = "none"      -> [status |-> "PROCESSING", stage |-> "CLAIMED",
                                        outcome |-> outcome, penalty |-> penalty]
      [] op[c].status = "COMPLETED" -> op[c]
      [] OTHER                      -> [op[c] EXCEPT !.status = "PROCESSING"]

\* Mutated form: the stage is written without comparing ranks.
MarkStageAnyOrder(o, stage) ==
    IF o.status = "COMPLETED" THEN o ELSE [o EXCEPT !.stage = stage, !.status = "PROCESSING"]

MarkStage(o, stage) ==
    IF o.status = "COMPLETED" \/ StageOrder[stage] < StageOrder[o.stage]
    THEN o
    ELSE [o EXCEPT !.stage = stage, !.status = "PROCESSING"]

MarkFailed(o) ==
    IF o.status \in {"PROCESSING", "FAILED_RETRYABLE"}
    THEN [o EXCEPT !.status = "FAILED_RETRYABLE"]
    ELSE o

Finalized(o) == [o EXCEPT !.status = "COMPLETED", !.stage = "CASE_FINALIZED"]

\* Mutated form: a retry does not look for an effect that already happened.
ReconcileNothing(o, outcome) == o

\* A settlement that committed before its marker did is recognised on retry.
ReconcileReserved(o, outcome) ==
    IF /\ o.stage = "FINANCIAL_EFFECT_RESERVED"
       /\ outcome \in FinancialOutcomes
       /\ EffectReached(outcome)
       /\ outcome = ReleaseOutcome => completedService
       /\ outcome \in CancelOutcomes => (IsCash \/ refund.ref)
    THEN MarkStage(o, "FINANCIAL_EFFECT_ESTABLISHED")
    ELSE o

-----------------------------------------------------------------------------
(* Participants                                                             *)

Start ==
    /\ "provider" \notin banned
    /\ NoRefundInProgress
    /\ status = "ACCEPTED" /\ ~started
    /\ IF IsCash
       THEN pay = "UNPAID" /\ queue' = queue
       ELSE /\ queue.status = "WAITING"
            /\ pay = "PAID_HELD" /\ queue.pay = "PAID_HELD"
            /\ queue' = [queue EXCEPT !.status = "SERVING"]
    /\ status' = "ONGOING"
    /\ started' = TRUE
    /\ UNCHANGED <<before, pay, moneyVars, caseVars, op, worker, banned>>

MarkJobComplete ==
    /\ "provider" \notin banned
    /\ NoRefundInProgress
    /\ status = "ONGOING"
    /\ status' = "AWAITING_CONFIRMATION"
    /\ queue' = IF IsCash THEN queue ELSE [queue EXCEPT !.status = "DONE"]
    /\ UNCHANGED <<before, pay, started, moneyVars, caseVars, op, worker, banned>>

SettleAllowed(actor) ==
    /\ NoRefundInProgress
    /\ \/ status = "AWAITING_CONFIRMATION"
       \/ /\ actor = "ADMIN"
          /\ status \in {"DISPUTED", "UNDER_REVIEW"}
          /\ before = "AWAITING_CONFIRMATION"
    /\ pay = CASE IsCash                                  -> "UNPAID"
               [] ~IsCash /\ actor = "ADMIN" /\ status = "DISPUTED" -> "FROZEN_HELD"
               [] OTHER                                   -> "PAID_HELD"

\* settleCompletedBooking, past its checks: one CompletedService, one EARNING.
Settle ==
    /\ completedService' = TRUE
    /\ status' = "COMPLETED"
    /\ before' = "none"
    /\ pay' = IF IsCash THEN "CASH_CONFIRMED" ELSE "RELEASED"
    /\ queue' = IF IsCash THEN queue ELSE [status |-> "DONE", pay |-> "RELEASED"]
    /\ ledger' = IF IsCash THEN ledger ELSE ledger \cup {"EARNING"}
    /\ UNCHANGED <<started, refund, gateway>>

ClosedEscalations(result) ==
    [e \in Escalations |-> IF escalation[e].status \in ActiveEscalation
                           THEN [status |-> result] ELSE escalation[e]]

ConfirmCompletion ==
    /\ "seeker" \notin banned
    /\ SettleAllowed("SEEKER")
    /\ Settle
    /\ escalation' = ClosedEscalations("RESOLVED")
    /\ UNCHANGED <<request, report, op, worker, banned>>

DisputeJob(r) ==
    /\ "seeker" \notin banned
    /\ NoRefundInProgress
    /\ NoFinancialResolutionReserved({})
    /\ \A x \in ActiveReports : report[x].type # "COMPLETION_DISPUTE"
    /\ status = "AWAITING_CONFIRMATION"
    /\ report[r].status = "none"
    /\ status' = "DISPUTED"
    /\ before' = "AWAITING_CONFIRMATION"
    /\ pay' = IF IsCash THEN "UNPAID" ELSE "FROZEN_HELD"
    /\ queue' = IF IsCash THEN queue ELSE [queue EXCEPT !.pay = "FROZEN_HELD"]
    /\ escalation' = ClosedEscalations("DISMISSED")
    /\ report' = [report EXCEPT ![r] = [status |-> "PENDING", type |-> "COMPLETION_DISPUTE",
                                        against |-> "provider"]]
    /\ UNCHANGED <<started, moneyVars, request, op, worker, banned>>

Pausable == {"ACCEPTED", "ONGOING", "AWAITING_CONFIRMATION"}

\* A safety report pauses work that is under way and freezes a held payment.
CreateSafetyReport(p, r) ==
    /\ p \notin banned
    /\ NoRefundInProgress
    /\ NoFinancialResolutionReserved({})
    /\ report[r].status = "none"
    /\ report' = [report EXCEPT ![r] = [status |-> "PENDING", type |-> "SAFETY", against |-> Other(p)]]
    /\ IF status \in Pausable
       THEN /\ status' = "DISPUTED"
            /\ before' = status
            /\ pay' = IF pay = "PAID_HELD" THEN "FROZEN_HELD" ELSE pay
            /\ queue' = IF pay = "PAID_HELD" THEN [queue EXCEPT !.pay = "FROZEN_HELD"] ELSE queue
       ELSE UNCHANGED <<status, before, pay, queue>>
    /\ UNCHANGED <<started, moneyVars, request, escalation, op, worker, banned>>

\* The provider asks for a review of a completion the seeker does not answer;
\* the 72-hour wait has passed.
CreateCompletionEscalation(e) ==
    /\ "provider" \notin banned
    /\ ~IsCash
    /\ NoFinancialResolutionReserved({})
    /\ status = "AWAITING_CONFIRMATION"
    /\ ActiveEscalations = {}
    /\ escalation[e].status = "none"
    /\ escalation' = [escalation EXCEPT ![e].status = "PENDING"]
    /\ UNCHANGED <<bookingVars, moneyVars, request, report, op, worker, banned>>

-----------------------------------------------------------------------------
(* Cancellation requests                                                    *)

Spawn(w, c, outcome, pc) ==
    /\ worker[w] = Idle
    /\ worker' = [worker EXCEPT ![w] = [Idle EXCEPT !.pc = pc, !.case = c, !.outcome = outcome]]

Cancellable == BookingStatus \ {"COMPLETED", "CANCELED", "DISPUTED", "UNDER_REVIEW"}

\* A booking that has not started is held in UNDER_REVIEW and cancelled at
\* once by the same API request.
RequestImmediateCancellation(p, r, w) ==
    /\ p \notin banned
    /\ ActiveRequests = {}
    /\ status \in Cancellable /\ ~started
    /\ NoFinancialResolutionReserved({})
    /\ request[r].status = "none"
    /\ request' = [request EXCEPT ![r] = [status |-> "UNDER_REVIEW", immediate |-> TRUE,
                                          by |-> p, report |-> "none"]]
    /\ status' = "UNDER_REVIEW"
    /\ before' = status
    /\ pay' = IF pay = "PAID_HELD" THEN "FROZEN_HELD" ELSE pay
    /\ queue' = IF pay = "PAID_HELD" THEN [queue EXCEPT !.pay = "FROZEN_HELD"] ELSE queue
    /\ Spawn(w, r, "IMMEDIATE", "cancel_read")
    /\ UNCHANGED <<started, moneyVars, report, escalation, op, banned>>

RetryImmediateCancellation(r, w) ==
    /\ request[r].by \notin banned
    /\ request[r].status = "UNDER_REVIEW" /\ request[r].immediate
    /\ ~started \/ status = "CANCELED"
    /\ Spawn(w, r, "IMMEDIATE", "cancel_read")
    /\ UNCHANGED <<bookingVars, moneyVars, caseVars, op, banned>>

RequestCancellation(p, r) ==
    /\ p \notin banned
    /\ ActiveRequests = {}
    /\ status \in Cancellable /\ started
    /\ NoFinancialResolutionReserved({})
    /\ request[r].status = "none"
    /\ request' = [request EXCEPT ![r] = [status |-> "PENDING", immediate |-> FALSE,
                                          by |-> p, report |-> "none"]]
    /\ UNCHANGED <<bookingVars, moneyVars, report, escalation, op, worker, banned>>

DeclineCancellation(r) ==
    /\ Other(request[r].by) \notin banned
    /\ request[r].status = "PENDING"
    /\ request' = [request EXCEPT ![r].status = "DECLINED"]
    /\ UNCHANGED <<bookingVars, moneyVars, report, escalation, op, worker, banned>>

EscalateCancellation(r, x) ==
    /\ request[r].by \notin banned
    /\ request[r].status = "DECLINED"
    /\ NoFinancialResolutionReserved({})
    /\ report[x].status = "none"
    /\ report' = [report EXCEPT ![x] = [status |-> "PENDING", type |-> "CANCELLATION_ESCALATION",
                                        against |-> Other(request[r].by)]]
    /\ request' = [request EXCEPT ![r].status = "ESCALATED", ![r].report = x]
    /\ UNCHANGED <<bookingVars, moneyVars, escalation, op, worker, banned>>

\* The opposite participant approves: the claim transaction.
ApproveCancellation(r, w) ==
    /\ Other(request[r].by) \notin banned
    /\ request[r].status \in {"PENDING", "UNDER_REVIEW"}
    /\ MayBegin(r, "PARTICIPANT_APPROVE", "none")
    /\ op[r].status # "COMPLETED"
    /\ LET o == BeginAdminResolution(r, "PARTICIPANT_APPROVE", "none")
       IN  /\ op' = [op EXCEPT ![r] = o]
           /\ Spawn(w, r, "PARTICIPANT_APPROVE", IF Established(o) THEN "finalize" ELSE "reserve")
    /\ request' = [request EXCEPT ![r].status = "UNDER_REVIEW"]
    /\ UNCHANGED <<bookingVars, moneyVars, report, escalation, banned>>

-----------------------------------------------------------------------------
(* Administrator decisions: the claim transaction of each                   *)

CancellationOutcomes == {"ADMIN_APPROVE", "ADMIN_DENY"}
ReportOutcomes == {"dismiss", "resolve_safety", "cancel_booking", ReleaseOutcome}
EscalationOutcomes == {ReleaseOutcome, "refund_seeker", "keep_awaiting"}
AdminBookingOutcomes == {"cancel_booking", ReleaseOutcome}

AdminCancellationAllowed(r, outcome) ==
    /\ request[r].status \in {"ESCALATED", "UNDER_REVIEW"}
    /\ MayBegin(r, outcome, "none")
    /\ op[r].status # "COMPLETED"
    /\ request[r].report # "none"
    /\ (outcome = "ADMIN_APPROVE" /\ ~Established(op[r]))
          => NoOtherBlockingCases({r, request[r].report})

AdminResolveCancellation(r, outcome, w) ==
    /\ AdminCancellationAllowed(r, outcome)
    /\ LET o == BeginAdminResolution(r, outcome, "none")
           x == request[r].report
       IN  /\ op' = [op EXCEPT ![r] = o]
           /\ Spawn(w, r, outcome,
                    IF outcome = "ADMIN_APPROVE" /\ ~Established(o) THEN "reserve" ELSE "decide")
           /\ report' = [report EXCEPT ![x].status = IF @ \in ActiveReport THEN "UNDER_REVIEW" ELSE @]
    /\ request' = [request EXCEPT ![r].status = "UNDER_REVIEW"]
    /\ UNCHANGED <<bookingVars, moneyVars, escalation, banned>>

\* allowedReportOutcomes
ReportDecision(x, outcome) ==
    /\ outcome = "resolve_safety" => report[x].type = "SAFETY"
    /\ outcome = "cancel_booking" => status \notin {"COMPLETED", "CANCELED"}
    /\ outcome = ReleaseOutcome => /\ report[x].type = "COMPLETION_DISPUTE"
                                   /\ before = "AWAITING_CONFIRMATION"

ReportResolutionAllowed(x, outcome, penalty) ==
    /\ report[x].type # "CANCELLATION_ESCALATION"
    /\ report[x].status \in ActiveReport
    /\ Reserved(op[x]) \/ ReportDecision(x, outcome)
    /\ outcome = "dismiss" => penalty = "none"
    /\ (op[x].status = "none" /\ penalty = "ban") => report[x].against \notin banned
    /\ MayBegin(x, outcome, penalty)
    /\ LET o == ReconcileReserved(BeginAdminResolution(x, outcome, penalty), outcome)
       IN  (outcome \in FinancialOutcomes /\ ~Established(o)) =>
              /\ NoOtherBlockingCases({x})
              /\ outcome = ReleaseOutcome => ReportDecision(x, outcome)

ResolveAdminReport(x, outcome, penalty, w) ==
    /\ ReportResolutionAllowed(x, outcome, penalty)
    /\ op[x].status # "COMPLETED"
    /\ LET o == ReconcileReserved(BeginAdminResolution(x, outcome, penalty), outcome)
       IN  /\ op' = [op EXCEPT ![x] = o]
           /\ Spawn(w, x, outcome,
                    IF outcome \in FinancialOutcomes /\ ~Established(o) THEN "reserve" ELSE "decide")
    /\ report' = [report EXCEPT ![x].status = "UNDER_REVIEW"]
    /\ UNCHANGED <<bookingVars, moneyVars, request, escalation, banned>>

EscalationResolutionAllowed(e, outcome) ==
    /\ escalation[e].status \in ActiveEscalation
    /\ MayBegin(e, outcome, "none")
    /\ LET o == ReconcileReserved(BeginAdminResolution(e, outcome, "none"), outcome)
       IN  \/ Established(o)
           \/ status = "AWAITING_CONFIRMATION"
           \/ /\ status = "UNDER_REVIEW" /\ before = "AWAITING_CONFIRMATION"
              /\ o.stage = "FINANCIAL_EFFECT_RESERVED"

ResolveCompletionEscalation(e, outcome, w) ==
    /\ EscalationResolutionAllowed(e, outcome)
    /\ op[e].status # "COMPLETED"
    /\ LET o == ReconcileReserved(BeginAdminResolution(e, outcome, "none"), outcome)
       IN  /\ op' = [op EXCEPT ![e] = o]
           /\ Spawn(w, e, outcome,
                    IF outcome \in FinancialOutcomes /\ ~Established(o) THEN "reserve" ELSE "decide")
    /\ escalation' = [escalation EXCEPT ![e].status = "UNDER_REVIEW"]
    /\ UNCHANGED <<bookingVars, moneyVars, request, report, banned>>

\* adminBookingOutcomeAllowed
AdminBookingOutcomeAllowed(outcome) ==
    IF outcome = ReleaseOutcome
    THEN banned # {} /\ status = "AWAITING_CONFIRMATION" /\ ~IsCash
    ELSE \/ ~started /\ status = "ACCEPTED"
         \/ banned # {} /\ status \in {"ONGOING", "AWAITING_CONFIRMATION"}

AdminBookingResolutionAllowed(outcome) ==
    LET o == ReconcileReserved(BeginAdminResolution(AdminBooking, outcome, "none"), outcome)
    IN  /\ op[AdminBooking].status # "COMPLETED"
        /\ MayBegin(AdminBooking, outcome, "none")
        /\ op[AdminBooking].status = "none" => AdminBookingOutcomeAllowed(outcome)
        /\ ~Established(o) =>
              IF o.stage = "FINANCIAL_EFFECT_RESERVED"
              THEN status = "UNDER_REVIEW" /\ before # "none"
              ELSE /\ AdminBookingOutcomeAllowed(outcome)
                   /\ NoOtherBlockingCases({})
                   /\ NoFinancialResolutionReserved({AdminBooking})

\* The booking is put on hold and the financial outcome reserved in the same
\* transaction that claims the decision.
ResolveAdminBooking(outcome, w) ==
    /\ AdminBookingResolutionAllowed(outcome)
    /\ LET o == ReconcileReserved(BeginAdminResolution(AdminBooking, outcome, "none"), outcome)
           reserve == ~Established(o) /\ o.stage # "FINANCIAL_EFFECT_RESERVED"
           next == CASE Established(o)           -> "finalize"
                     [] ~Established(o) /\ outcome = ReleaseOutcome -> "settle"
                     [] OTHER                    -> "cancel_read"
       IN  /\ op' = [op EXCEPT ![AdminBooking] =
                        IF reserve THEN MarkStage(o, "FINANCIAL_EFFECT_RESERVED") ELSE o]
           /\ status' = IF reserve THEN "UNDER_REVIEW" ELSE status
           /\ before' = IF reserve THEN status ELSE before
           /\ Spawn(w, AdminBooking, outcome, next)
    /\ UNCHANGED <<pay, started, queue, moneyVars, caseVars, banned>>

Ban(p) ==
    /\ p \notin banned
    /\ banned' = banned \cup {p}
    /\ UNCHANGED <<bookingVars, moneyVars, caseVars, op, worker>>

LiftBan(p) ==
    /\ p \in banned
    /\ banned' = banned \ {p}
    /\ UNCHANGED <<bookingVars, moneyVars, caseVars, op, worker>>

-----------------------------------------------------------------------------
(* The steps of an operation in flight                                      *)

At(w, pc) == worker[w].pc = pc
Goto(w, pc) == worker' = [worker EXCEPT ![w].pc = pc]
Done(w) == worker' = [worker EXCEPT ![w] = Idle]

\* An error is thrown to the caller.  An administrator or participant
\* decision then records it in its operation, an immediate cancellation
\* has no operation and simply ends.
Throw(w) == IF worker[w].outcome = "IMMEDIATE" THEN Done(w) ELSE Goto(w, "fail")

\* The step guarded by ok does effect; when ok is false it throws and
\* changes nothing else.
StepOrThrow(w, ok, effect) ==
    \/ ok /\ effect
    \/ ~ok /\ Throw(w) /\ UNCHANGED <<bookingVars, moneyVars, caseVars, op>>

\* The case has not been superseded while its decision was being reserved.
StillUnderReview(c) ==
    \/ c \in Requests /\ request[c].status = "UNDER_REVIEW"
    \/ c \in Reports /\ report[c].status = "UNDER_REVIEW"
    \/ c \in Escalations /\ escalation[c].status = "UNDER_REVIEW" /\ op[c].status # "COMPLETED"

\* reserveCancellationFinancialOutcome, reserveReportFinancialOutcome and
\* reserveCompletionFinancialOutcome.  Only the last also holds the booking.
Reserve(w) ==
    LET c == worker[w].case
        linked == IF c \in Requests THEN {c, request[c].report} ELSE {c}
        skip == op[c].status = "COMPLETED" \/ Established(op[c])
        reservable == \/ c \notin Escalations
                      \/ status = "AWAITING_CONFIRMATION"
                      \/ status = "UNDER_REVIEW" /\ before = "AWAITING_CONFIRMATION"
        hold == c \in Escalations /\ ~skip /\ status = "AWAITING_CONFIRMATION"
    IN  /\ At(w, "reserve")
        /\ StepOrThrow(w, StillUnderReview(c) /\ (skip \/ (NoOtherBlockingCases(linked) /\ reservable)),
             /\ op' = IF skip THEN op
                      ELSE [op EXCEPT ![c] = MarkStage(@, "FINANCIAL_EFFECT_RESERVED")]
             /\ status' = IF hold THEN "UNDER_REVIEW" ELSE status
             /\ before' = IF hold THEN "AWAITING_CONFIRMATION" ELSE before
             /\ Goto(w, IF worker[w].outcome = ReleaseOutcome THEN "settle" ELSE "cancel_read")
             /\ UNCHANGED <<pay, started, queue, moneyVars, caseVars>>)
        /\ UNCHANGED banned

\* performImmediateCancel reads the booking, outside any transaction.
CancelRead(w) ==
    LET c == worker[w].case
        held == pay \in Held
        prestart == /\ request[c].status = "UNDER_REVIEW" /\ request[c].immediate
                    /\ ~started /\ status = "UNDER_REVIEW"
    IN  /\ At(w, "cancel_read")
        /\ StepOrThrow(w,
             /\ status # "COMPLETED"
             /\ (worker[w].outcome = "IMMEDIATE" /\ status # "CANCELED") => prestart,
             /\ worker' = [worker EXCEPT ![w].held = held,
                                         ![w].pc = IF held THEN "refund_read" ELSE "cancel_tx"]
             /\ UNCHANGED <<bookingVars, moneyVars, caseVars, op>>)
        /\ UNCHANGED banned

\* refundBookingPayment reads the booking and its refund.  Unless the refund
\* is already booked it then asks PayMongo for the payment intent, and an
\* outage there throws (IntentLookupFails).
AlreadyRefunded == refund.ref /\ status = "CANCELED" /\ pay = "REFUNDED"

RefundRead(w) ==
    /\ At(w, "refund_read")
    /\ StepOrThrow(w, refund.ref \/ pay \in Held,
         /\ Goto(w, IF AlreadyRefunded THEN "cancel_tx" ELSE "refund_reserve")
         /\ UNCHANGED <<bookingVars, moneyVars, caseVars, op>>)
    /\ UNCHANGED banned

IntentLookupFails(w) ==
    /\ At(w, "refund_read")
    /\ ~AlreadyRefunded /\ (refund.ref \/ pay \in Held)
    /\ Throw(w)
    /\ UNCHANGED <<bookingVars, moneyVars, caseVars, op, banned>>

RefundReserve(w) ==
    /\ At(w, "refund_reserve")
    /\ StepOrThrow(w,
         /\ ~completedService /\ status # "COMPLETED"
         /\ pay \notin {"RELEASED", "CASH_CONFIRMED"}
         /\ refund.ref \/ refund.status = "PROCESSING" \/ pay \in Held,
         /\ refund' = IF refund.ref THEN refund ELSE [refund EXCEPT !.status = "PROCESSING"]
         /\ worker' = [worker EXCEPT ![w].resumed = refund.ref,
                                     ![w].pc = IF refund.ref THEN "refund_final" ELSE "refund_gateway"]
         /\ UNCHANGED <<bookingVars, gateway, completedService, ledger, caseVars, op>>)
    /\ UNCHANGED banned

\* createRefund.  The call is idempotent by booking.  With a live key the refund
\* may be declined, which is an answer like any other here, or the call fails
\* before or after PayMongo has moved the money (12 s abort).
RefundGateway(w) ==
    /\ At(w, "refund_gateway")
    /\ gateway' \in {TRUE} \cup (IF LiveKey THEN {gateway} ELSE {})
    /\ Goto(w, "refund_final")
    /\ UNCHANGED <<bookingVars, refund, completedService, ledger, caseVars, op, banned>>

RefundGatewayFails(w) ==
    /\ LiveKey
    /\ At(w, "refund_gateway")
    /\ gateway' \in {gateway, TRUE}
    /\ Goto(w, "refund_failed")
    /\ UNCHANGED <<bookingVars, refund, completedService, ledger, caseVars, op, banned>>

\* The catch block marks the row FAILED, whatever its state is by now.
RefundFailed(w) ==
    /\ At(w, "refund_failed")
    /\ refund' = [refund EXCEPT !.status = "FAILED"]
    /\ Throw(w)
    /\ UNCHANGED <<bookingVars, gateway, completedService, ledger, caseVars, op, banned>>

\* The answer is stored with its identity, and the booking is refunded whatever
\* it said.  A resumed refund has been booked before.
RefundFinal(w) ==
    LET already == status = "CANCELED" /\ pay = "REFUNDED"
    IN  /\ At(w, "refund_final")
        /\ StepOrThrow(w,
             \/ already
             \/ /\ ~completedService /\ status # "COMPLETED" /\ pay \in Held
                /\ worker[w].resumed \/ refund.status = "PROCESSING",
             /\ IF already
                THEN UNCHANGED <<bookingVars, moneyVars>>
                ELSE /\ \E s \in GatewayRefundStatus : refund' = [status |-> s, ref |-> TRUE]
                     /\ status' = "CANCELED" /\ pay' = "REFUNDED" /\ before' = "none"
                     /\ queue' = [status |-> "CANCELLED", pay |-> "REFUNDED"]
                     /\ ledger' = ledger \cup {"REFUND"}
                     /\ UNCHANGED <<started, gateway, completedService>>
             /\ Goto(w, "cancel_tx")
             /\ UNCHANGED <<caseVars, op>>)
        /\ UNCHANGED banned

\* The closing transaction of performImmediateCancel uses the `held' it read
\* before the refund.
CancelTx(w) ==
    LET cancels == ~worker[w].held /\ status # "CANCELED"
    IN  /\ At(w, "cancel_tx")
        /\ StepOrThrow(w,
             /\ ~completedService /\ status # "COMPLETED"
             /\ (worker[w].outcome = "IMMEDIATE" /\ status # "CANCELED")
                   => ~started /\ status = "UNDER_REVIEW"
             /\ cancels => NoRefundInProgress,
             /\ status' = IF cancels THEN "CANCELED" ELSE status
             /\ before' = IF cancels THEN "none" ELSE before
             /\ queue' = IF cancels /\ ~IsCash THEN [queue EXCEPT !.status = "CANCELLED"] ELSE queue
             /\ Goto(w, IF worker[w].outcome = "IMMEDIATE" THEN "immediate_final" ELSE "mark")
             /\ UNCHANGED <<pay, started, moneyVars, caseVars, op>>)
        /\ UNCHANGED banned

\* The last transaction of requestCancellation.
ImmediateFinal(w) ==
    /\ At(w, "immediate_final")
    /\ Done(w)
    /\ request' = IF status = "CANCELED"
                  THEN [request EXCEPT ![worker[w].case].status = "APPROVED"]
                  ELSE request
    /\ UNCHANGED <<bookingVars, moneyVars, report, escalation, op, banned>>

\* settleCompletedBooking on behalf of an administrator.
SettleByAdmin(w) ==
    /\ At(w, "settle")
    /\ StepOrThrow(w,
         NoRefundInProgress /\ ((status = "COMPLETED" /\ completedService) \/ SettleAllowed("ADMIN")),
         /\ IF status = "COMPLETED" THEN UNCHANGED <<bookingVars, moneyVars>> ELSE Settle
         /\ Goto(w, "mark")
         /\ UNCHANGED <<caseVars, op>>)
    /\ UNCHANGED banned

\* markAdminResolutionStage after the effect, or before a decision without one.
Mark(w) ==
    /\ \/ At(w, "mark") /\ op' = [op EXCEPT ![worker[w].case] = MarkStage(@, "FINANCIAL_EFFECT_ESTABLISHED")]
       \/ At(w, "decide") /\ op' = [op EXCEPT ![worker[w].case] = MarkStage(@, "DECISION_READY")]
    /\ Goto(w, "finalize")
    /\ UNCHANGED <<bookingVars, moneyVars, caseVars, banned>>

\* markAdminResolutionFailed
Fail(w) ==
    /\ At(w, "fail")
    /\ op' = [op EXCEPT ![worker[w].case] = MarkFailed(@)]
    /\ Done(w)
    /\ UNCHANGED <<bookingVars, moneyVars, caseVars, banned>>

\* Mutated form: an open escalation also keeps the booking paused.
RestoreWithoutEscalation(requests, reports) ==
    IF /\ \A r \in Requests : requests[r].status \notin ActiveCancellation
       /\ \A x \in Reports : reports[x].status \notin ActiveReport
       /\ ActiveEscalations = {} /\ before # "none"
    THEN /\ status' = before /\ before' = "none" /\ pay' = IF IsCash THEN "UNPAID" ELSE "PAID_HELD"
         /\ queue' = [queue EXCEPT !.pay = IF IsCash THEN @ ELSE "PAID_HELD"]
         /\ UNCHANGED started
    ELSE UNCHANGED bookingVars

\* restoreBookingIfNoBlockingCases, given the case rows as just updated.
RestoreBooking(requests, reports) ==
    IF /\ \A r \in Requests : requests[r].status \notin ActiveCancellation
       /\ \A x \in Reports : reports[x].status \notin ActiveReport
       /\ status \in {"DISPUTED", "UNDER_REVIEW"} /\ before # "none"
    THEN LET p == IF IsCash THEN "UNPAID" ELSE "PAID_HELD"
         IN  /\ status' = before /\ before' = "none" /\ pay' = p
             /\ queue' = IF IsCash THEN queue ELSE [queue EXCEPT !.pay = p]
             /\ UNCHANGED started
    ELSE UNCHANGED bookingVars

\* The case rows a finalized decision leaves behind.
FinalizeRequest(c, outcome) ==
    LET x == request[c].report
        requests == [request EXCEPT ![c].status = IF outcome = "PARTICIPANT_APPROVE"
                                                  THEN "APPROVED" ELSE "RESOLVED"]
        reports == CASE x = "none" -> report
                     [] x # "none" /\ outcome = "PARTICIPANT_APPROVE" ->
                           [report EXCEPT ![x].status = IF @ \in ActiveReport THEN "RESOLVED" ELSE @]
                     [] OTHER -> [report EXCEPT ![x].status = IF outcome = "ADMIN_DENY"
                                                              THEN "DISMISSED" ELSE "RESOLVED"]
    IN  /\ request' = requests /\ report' = reports
        /\ IF outcome = "ADMIN_DENY" THEN RestoreBooking(requests, reports) ELSE UNCHANGED bookingVars
        /\ UNCHANGED <<escalation, banned>>

FinalizeReport(c, outcome) ==
    LET reports == [report EXCEPT ![c].status = IF outcome = "dismiss" THEN "DISMISSED" ELSE "RESOLVED"]
    IN  /\ report' = reports
        /\ banned' = IF op[c].penalty = "ban" THEN banned \cup {report[c].against} ELSE banned
        /\ IF outcome \in FinancialOutcomes THEN UNCHANGED bookingVars ELSE RestoreBooking(request, reports)
        /\ UNCHANGED <<request, escalation>>

FinalizeEscalation(c) ==
    /\ escalation' = [escalation EXCEPT ![c].status = "RESOLVED"]
    /\ UNCHANGED <<bookingVars, request, report, banned>>

Finalize(w) ==
    LET c == worker[w].case
        outcome == worker[w].outcome
        caseOpen == /\ (c \in Requests /\ outcome # "PARTICIPANT_APPROVE")
                          => request[c].status = "UNDER_REVIEW" /\ request[c].report # "none"
                    /\ c \in Reports => report[c].status = "UNDER_REVIEW"
                    /\ c \in Escalations => escalation[c].status = "UNDER_REVIEW"
        ok == /\ caseOpen
              /\ EffectReached(outcome)
              /\ outcome = "keep_awaiting" => status = "AWAITING_CONFIRMATION"
    IN  /\ At(w, "finalize")
        /\ \/ /\ op[c].status = "COMPLETED"
              /\ Done(w)
              /\ UNCHANGED <<bookingVars, caseVars, op, banned>>
           \/ /\ op[c].status # "COMPLETED" /\ ok
              /\ op' = [op EXCEPT ![c] = Finalized(@)]
              /\ Done(w)
              /\ CASE c \in Requests    -> FinalizeRequest(c, outcome)
                   [] c \in Reports     -> FinalizeReport(c, outcome)
                   [] c \in Escalations -> FinalizeEscalation(c)
                   [] OTHER             -> UNCHANGED <<bookingVars, caseVars, banned>>
           \/ /\ op[c].status # "COMPLETED" /\ ~ok
              /\ Goto(w, "fail")
              /\ UNCHANGED <<bookingVars, caseVars, op, banned>>
        /\ UNCHANGED moneyVars

\* The process dies or is restarted: what is not in the database is lost.
Crash(w) ==
    /\ ~At(w, "idle")
    /\ Done(w)
    /\ UNCHANGED <<bookingVars, moneyVars, caseVars, op, banned>>

WorkerStep(w) ==
    \/ Reserve(w) \/ CancelRead(w)
    \/ RefundRead(w) \/ RefundReserve(w) \/ RefundGateway(w) \/ RefundFailed(w) \/ RefundFinal(w)
    \/ CancelTx(w) \/ ImmediateFinal(w) \/ SettleByAdmin(w)
    \/ Mark(w) \/ Fail(w) \/ Finalize(w)

\* What the environment does to a request in flight.
Outage(w) == Crash(w) \/ IntentLookupFails(w) \/ RefundGatewayFails(w)

AdminDecision(w) ==
    \/ \E r \in Requests, o \in CancellationOutcomes : AdminResolveCancellation(r, o, w)
    \/ \E x \in Reports, o \in ReportOutcomes, penalty \in {"none", "ban"} :
          ResolveAdminReport(x, o, penalty, w)
    \/ \E e \in Escalations, o \in EscalationOutcomes : ResolveCompletionEscalation(e, o, w)
    \/ \E o \in AdminBookingOutcomes : ResolveAdminBooking(o, w)

CancellationStep ==
    \E r \in Requests :
        \/ \E p \in Participants : RequestCancellation(p, r)
        \/ \E p \in Participants, w \in Workers : RequestImmediateCancellation(p, r, w)
        \/ \E w \in Workers : RetryImmediateCancellation(r, w) \/ ApproveCancellation(r, w)
        \/ DeclineCancellation(r)
        \/ \E x \in Reports : EscalateCancellation(r, x)

ParticipantStep ==
    \/ Start \/ MarkJobComplete \/ ConfirmCompletion
    \/ \E r \in Reports : DisputeJob(r) \/ \E p \in Participants : CreateSafetyReport(p, r)
    \/ \E e \in Escalations : CreateCompletionEscalation(e)

Next ==
    \/ ParticipantStep
    \/ CancellationStep
    \/ \E w \in Workers : AdminDecision(w) \/ WorkerStep(w) \/ Outage(w)
    \/ \E p \in Participants : Ban(p) \/ LiftBan(p)

Spec == Init /\ [][Next]_vars

\* Sending a reserved decision again with the outcome it already has.
RetryReserved(w) ==
    \E c \in Cases \ Requests :
        /\ Reserved(op[c])
        /\ \/ c \in Reports /\ ResolveAdminReport(c, op[c].outcome, op[c].penalty, w)
           \/ c \in Escalations /\ ResolveCompletionEscalation(c, op[c].outcome, w)
           \/ c = AdminBooking /\ ResolveAdminBooking(op[c].outcome, w)

\* The server executes the requests it has accepted, outages end, and the
\* administrator keeps retrying a decision that is shown as unfinished.
FairSpec ==
    /\ Spec
    /\ \A w \in Workers : WF_vars(WorkerStep(w))
    /\ SF_vars(\E w \in Workers : RetryReserved(w))
    /\ <>[][\A w \in Workers : ~Outage(w)]_vars

-----------------------------------------------------------------------------
(* Correctness                                                              *)

Terminal == {"COMPLETED", "CANCELED"}

\* What the booking's status says the money has done: nothing yet, released
\* to the provider, or refunded to the seeker.  Cash never enters the ledger.
PayOf(s)    == CASE s = "COMPLETED" -> {IF IsCash THEN "CASH_CONFIRMED" ELSE "RELEASED"}
                 [] s = "CANCELED"  -> {IF IsCash THEN "UNPAID" ELSE "REFUNDED"}
                 [] OTHER           -> IF IsCash THEN {"UNPAID"} ELSE {"PAID_HELD", "FROZEN_HELD"}
LedgerOf(s) == CASE s = "COMPLETED" /\ ~IsCash -> {"EARNING"}
                 [] s = "CANCELED" /\ ~IsCash  -> {"REFUND"}
                 [] OTHER                      -> {}

\* However refunds, settlements, retries and crashes interleave, the booking,
\* its queue row, its CompletedService and its ledger tell the same story:
\* never a release and a refund, never one without its ledger entry
\* (refundBookingPayment, settleCompletedBooking, performImmediateCancel).
SettledConsistently ==
    /\ completedService = (status = "COMPLETED")
    /\ ledger = LedgerOf(status)
    /\ pay \in PayOf(status)
    /\ ~IsCash => queue.pay = pay
    /\ status \in Terminal => queue.status \in {"none", "DONE", "CANCELLED"}

\* Money that PayMongo has been told to return is never released to the
\* provider as well (the PROCESSING reservation of refundBookingPayment).
RefundedNotReleased == gateway => status # "COMPLETED"

\* Two decisions never hold a financial reservation on the booking at once, and
\* beside a reserved decision no case is open but its own and the report that
\* escalated it (assertNoOtherBlockingCases, assertNoFinancialResolutionReserved).
\* While an administrator's decision on the booking, a report or an escalation
\* is reserved, the booking also stays paused until that very outcome is
\* reached: no participant action races it and no retry is stranded.
ReservedDecisionProtected ==
    /\ \A c, d \in Cases : Reserved(op[c]) /\ Reserved(op[d]) => c = d
    /\ \A c \in Cases : Reserved(op[c]) =>
          NoOtherBlockingCases(IF c \in Requests THEN {c, request[c].report} ELSE {c})
    /\ \A c \in Cases \ Requests :
          Reserved(op[c]) => status \in {"DISPUTED", "UNDER_REVIEW"} \/ EffectReached(op[c].outcome)

\* A paused booking always has an open case or a reserved decision that will
\* unpause it, and remembers the status to return to.
PausedHasCase ==
    status \in {"DISPUTED", "UNDER_REVIEW"} =>
        /\ before \in {"ACCEPTED", "ONGOING", "AWAITING_CONFIRMATION"}
        /\ ActiveReports \cup ActiveRequests # {} \/ \E c \in Cases : Reserved(op[c])

\* Work on a booking under review is never taken up again: it was put there by
\* a cancellation before the start or by a reserved decision, and whatever other
\* cases are opened, denied or dismissed meanwhile, it leaves the review
\* completed or canceled (restoreBookingIfNoBlockingCases restores any paused
\* booking; createDirectRequest lets another booking begin beside this one).
UnderReviewEnds ==
    [][status = "UNDER_REVIEW" => status' \in {"UNDER_REVIEW", "COMPLETED", "CANCELED"}]_vars

\* A persisted decision only moves forward: its outcome and penalty are never
\* replaced, its stage never goes back, and a completed one is final
\* (markAdminResolutionStage, markAdminResolutionFailed racing a retry).
DecisionMonotone ==
    [][\A c \in Cases : op[c].status # "none" =>
          /\ op'[c].outcome = op[c].outcome /\ op'[c].penalty = op[c].penalty
          /\ StageOrder[op'[c].stage] >= StageOrder[op[c].stage]
          /\ op[c].status = "COMPLETED" => op'[c] = op[c]]_vars

\* A reserved administrator decision is eventually carried out, even when the
\* process died between the settlement and the marker that records it
\* (reconcileReservedFinancialEffect on the retry).
ReservedDecisionCompletes ==
    \A c \in Cases \ Requests : Reserved(op[c]) ~> op[c].status = "COMPLETED"

\* The booking's money as Settlement sees it.
Phase == CASE status = "COMPLETED" -> "completed"
           [] status = "CANCELED"  -> "cancelled"
           [] OTHER                -> "open"
Money == CASE pay \in {"PAID_HELD", "FROZEN_HELD"} -> "held"
           [] pay = "UNPAID"                      -> "due"
           [] pay = "RELEASED"                    -> "released"
           [] pay = "REFUNDED"                    -> "refunded"
           [] OTHER                               -> "paid"

Promise == INSTANCE Settlement WITH
               Cash <- IsCash, phase <- Phase, money <- Money, entries <- ledger, counted <- completedService

\* The booking with all its cases, retries and crashes implements Settlement: it
\* is settled once, and never again, reopened or rewritten.
ImplementsSettlement == Promise!Spec
=============================================================================
