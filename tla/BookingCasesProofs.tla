------------------------- MODULE BookingCasesProofs -------------------------
(***************************************************************************)
(* Theorems about BookingCases, for any sets of concurrent API requests,   *)
(* cancellation requests, reports and escalations, either payment method   *)
(* and either kind of PayMongo key.                                        *)
(***************************************************************************)
EXTENDS BookingCases, TLAPS

-----------------------------------------------------------------------------
(* Type correctness                                                         *)

\* The rows of AdminResolutionOperation, and the requests in flight.
OpType == [status : {"none", "PROCESSING", "FAILED_RETRYABLE", "COMPLETED"},
           stage : DOMAIN StageOrder, outcome : Outcomes, penalty : {"none", "ban"}]

WorkerType == [pc : PCs, case : Cases \cup {"none"}, outcome : Outcomes,
               held : BOOLEAN, resumed : BOOLEAN]

RequestStatus == ActiveCancellation \cup {"none", "APPROVED", "RESOLVED"}
RequestType == [status : RequestStatus, immediate : BOOLEAN, by : Participants,
                report : Reports \cup {"none"}]

ReportStatus == ActiveReport \cup {"none", "RESOLVED", "DISMISSED"}
ReportType == [status : ReportStatus,
               type : {"none", "SAFETY", "COMPLETION_DISPUTE", "CANCELLATION_ESCALATION"},
               against : Participants]

\* The stages a decision goes through (adminResolutionStages).
LEMMA Stages ==
    DOMAIN StageOrder = {"CLAIMED", "DECISION_READY", "FINANCIAL_EFFECT_RESERVED",
                         "FINANCIAL_EFFECT_ESTABLISHED", "CASE_FINALIZED"}
BY DEF StageOrder

\* beginAdminResolution returns a well-formed row.
LEMMA BeginType ==
    ASSUME TypeOK, NEW c \in Cases, NEW outcome \in Outcomes, NEW penalty \in {"none", "ban"}
    PROVE  BeginAdminResolution(c, outcome, penalty) \in OpType
<1>1. op[c] \in OpType
  BY DEF TypeOK, OpType
<1>2. QED
  BY <1>1, Stages DEF BeginAdminResolution, OpType

\* Every other writer of a row (mark a stage, mark as failed, finalize,
\* reconcile) keeps it well-formed.
LEMMA OperationTypes ==
    ASSUME NEW o \in OpType
    PROVE  /\ \A stage \in DOMAIN StageOrder : MarkStage(o, stage) \in OpType
           /\ MarkFailed(o) \in OpType
           /\ Finalized(o) \in OpType
           /\ \A outcome \in Outcomes : ReconcileReserved(o, outcome) \in OpType
<1>1. \A stage \in DOMAIN StageOrder : MarkStage(o, stage) \in OpType
  BY DEF MarkStage, OpType
<1>2. MarkFailed(o) \in OpType /\ Finalized(o) \in OpType
  BY Stages DEF MarkFailed, Finalized, OpType
<1>3. \A outcome \in Outcomes : ReconcileReserved(o, outcome) \in OpType
  BY <1>1, Stages DEF ReconcileReserved
<1>4. QED
  BY <1>1, <1>2, <1>3

\* An idle request slot, and a slot that has just been given work.
LEMMA SpawnType ==
    ASSUME TypeOK, NEW w \in Workers, NEW c \in Cases, NEW outcome \in Outcomes, NEW pc \in PCs,
           Spawn(w, c, outcome, pc)
    PROVE  worker' \in [Workers -> WorkerType]
<1>1. Idle \in WorkerType
  BY DEF Idle, WorkerType, PCs, Outcomes
<1>2. worker \in [Workers -> WorkerType]
  BY DEF TypeOK, WorkerType
<1>3. [Idle EXCEPT !.pc = pc, !.case = c, !.outcome = outcome] \in WorkerType
  BY <1>1 DEF WorkerType
<1>4. QED
  BY <1>2, <1>3 DEF Spawn

\* A request in flight stays well-formed when it moves on, ends or throws.
LEMMA MoveType ==
    ASSUME TypeOK, NEW w \in Workers
    PROVE  /\ Done(w) => worker' \in [Workers -> WorkerType]
           /\ Throw(w) => worker' \in [Workers -> WorkerType]
           /\ \A pc \in PCs : Goto(w, pc) => worker' \in [Workers -> WorkerType]
<1>1. Idle \in WorkerType
  BY DEF Idle, WorkerType, PCs, Outcomes
<1>2. worker \in [Workers -> WorkerType]
  BY DEF TypeOK, WorkerType
<1>3. Done(w) => worker' \in [Workers -> WorkerType]
  BY <1>1, <1>2 DEF Done
<1>4. \A pc \in PCs : Goto(w, pc) => worker' \in [Workers -> WorkerType]
  BY <1>2 DEF Goto, WorkerType
<1>5. Throw(w) => worker' \in [Workers -> WorkerType]
  BY <1>3, <1>4 DEF Throw, PCs
<1>6. QED
  BY <1>3, <1>4, <1>5

\* The two facts a request in flight remembers from its reads are Boolean.
LEMMA RememberType ==
    ASSUME TypeOK, NEW w \in Workers, NEW b \in BOOLEAN, NEW pc \in PCs
    PROVE  /\ [worker EXCEPT ![w].held = b, ![w].pc = pc] \in [Workers -> WorkerType]
           /\ [worker EXCEPT ![w].resumed = b, ![w].pc = pc] \in [Workers -> WorkerType]
<1>1. worker \in [Workers -> WorkerType]
  BY DEF TypeOK, WorkerType
<1>2. /\ [worker[w] EXCEPT !.held = b, !.pc = pc] \in WorkerType
      /\ [worker[w] EXCEPT !.resumed = b, !.pc = pc] \in WorkerType
  BY <1>1 DEF WorkerType
<1>3. QED
  BY <1>1, <1>2

\* A step that changes nothing but a request in flight.
LEMMA OnlyWorkerType ==
    ASSUME TypeOK, worker' \in [Workers -> WorkerType],
           UNCHANGED <<bookingVars, moneyVars, caseVars, op, banned>>
    PROVE  TypeOK'
BY DEF TypeOK, WorkerType, bookingVars, moneyVars, caseVars

\* Writing the status of a case row keeps it well-formed.
LEMMA CaseRowTypes ==
    ASSUME TypeOK
    PROVE  /\ request \in [Requests -> RequestType]
           /\ report \in [Reports -> ReportType]
           /\ \A r \in Requests, s \in RequestStatus : [request EXCEPT ![r].status = s] \in [Requests -> RequestType]
           /\ \A x, s : s \in ReportStatus => [report EXCEPT ![x].status = s] \in [Reports -> ReportType]
<1>1. request \in [Requests -> RequestType] /\ report \in [Reports -> ReportType]
  BY DEF TypeOK, RequestType, RequestStatus, ReportType, ReportStatus
<1>2. \A r \in Requests, s \in RequestStatus : [request EXCEPT ![r].status = s] \in [Requests -> RequestType]
  <2> TAKE r \in Requests, s \in RequestStatus
  <2>1. [request[r] EXCEPT !.status = s] \in RequestType
    BY <1>1 DEF RequestType
  <2>2. QED
    BY <1>1, <2>1
<1>3. \A x, s : s \in ReportStatus => [report EXCEPT ![x].status = s] \in [Reports -> ReportType]
  <2> SUFFICES ASSUME NEW x, NEW s \in ReportStatus
               PROVE  [report EXCEPT ![x].status = s] \in [Reports -> ReportType]
    OBVIOUS
  <2>1. x \in Reports => [report[x] EXCEPT !.status = s] \in ReportType
    BY <1>1 DEF ReportType
  <2>2. QED
    BY <1>1, <2>1
<1>4. QED
  BY <1>1, <1>2, <1>3

\* So does linking the report that escalates a request.
LEMMA EscalatedType ==
    ASSUME TypeOK, NEW r \in Requests, NEW x \in Reports
    PROVE  [request EXCEPT ![r].status = "ESCALATED", ![r].report = x] \in [Requests -> RequestType]
<1>1. request \in [Requests -> RequestType]
  BY CaseRowTypes
<1>2. [request[r] EXCEPT !.status = "ESCALATED", !.report = x] \in RequestType
  BY <1>1 DEF RequestType, RequestStatus, ActiveCancellation
<1>3. QED
  BY <1>1, <1>2

\* The initial state is well-formed.
LEMMA InitType == Init => TypeOK
<1> SUFFICES ASSUME Init PROVE TypeOK
  OBVIOUS
<1>1. op \in [Cases -> OpType]
  BY Stages DEF Init, NoOp, OpType, Outcomes
<1>2. worker \in [Workers -> WorkerType]
  BY DEF Init, Idle, WorkerType, Outcomes, PCs
<1>3. request \in [Requests -> [status : ActiveCancellation \cup {"none", "APPROVED", "RESOLVED"},
                                immediate : BOOLEAN, by : Participants, report : Reports \cup {"none"}]]
  BY DEF Init, Participants
<1>4. QED
  BY <1>1, <1>2, <1>3 DEF Init, TypeOK, OpType, WorkerType, BookingStatus, PaymentStatus, Participants

\* What the participants do keeps the state well-formed.
LEMMA ParticipantType ==
    ASSUME TypeOK, ParticipantStep
    PROVE  TypeOK'
<1> USE DEF TypeOK, BookingStatus, PaymentStatus, Participants, moneyVars, caseVars, bookingVars
<1>1. CASE Start
  BY <1>1 DEF Start
<1>2. CASE MarkJobComplete
  BY <1>2 DEF MarkJobComplete
<1>3. CASE ConfirmCompletion
  BY <1>3 DEF ConfirmCompletion, Settle, ClosedEscalations
<1>4. ASSUME NEW r \in Reports, DisputeJob(r) PROVE TypeOK'
  BY <1>4 DEF DisputeJob, ClosedEscalations, ActiveReport
<1>5. ASSUME NEW r \in Reports, NEW p \in Participants, CreateSafetyReport(p, r) PROVE TypeOK'
  BY <1>5 DEF CreateSafetyReport, ActiveReport, Other
<1>6. ASSUME NEW e \in Escalations, CreateCompletionEscalation(e) PROVE TypeOK'
  BY <1>6 DEF CreateCompletionEscalation, ActiveEscalation
<1>7. QED
  BY <1>1, <1>2, <1>3, <1>4, <1>5, <1>6 DEF ParticipantStep

\* Opening, answering and escalating a cancellation request keeps the state
\* well-formed.
LEMMA CancellationType ==
    ASSUME TypeOK, CancellationStep
    PROVE  TypeOK'
<1> USE DEF TypeOK, BookingStatus, PaymentStatus, Participants, ActiveCancellation, moneyVars, caseVars, bookingVars
<1>0. PICK r \in Requests :
        \/ \E p \in Participants : RequestCancellation(p, r)
        \/ \E p \in Participants, w \in Workers : RequestImmediateCancellation(p, r, w)
        \/ \E w \in Workers : RetryImmediateCancellation(r, w) \/ ApproveCancellation(r, w)
        \/ DeclineCancellation(r)
        \/ \E x \in Reports : EscalateCancellation(r, x)
  BY DEF CancellationStep
<1>a. r \in Cases
  BY DEF Cases
<1>b. {"IMMEDIATE", "PARTICIPANT_APPROVE"} \subseteq Outcomes /\ {"cancel_read", "finalize", "reserve"} \subseteq PCs
  BY DEF Outcomes, FinancialOutcomes, CancelOutcomes, PCs
<1>1. ASSUME NEW p \in Participants, RequestCancellation(p, r) PROVE TypeOK'
  BY <1>1 DEF RequestCancellation
<1>2. ASSUME NEW p \in Participants, NEW w \in Workers, RequestImmediateCancellation(p, r, w) PROVE TypeOK'
  <2>1. worker' \in [Workers -> WorkerType]
    BY <1>2, <1>a, <1>b, SpawnType DEF RequestImmediateCancellation
  <2>2. QED
    BY <1>2, <2>1 DEF RequestImmediateCancellation, WorkerType
<1>3. ASSUME NEW w \in Workers, RetryImmediateCancellation(r, w) PROVE TypeOK'
  <2>1. worker' \in [Workers -> WorkerType]
    BY <1>3, <1>a, <1>b, SpawnType DEF RetryImmediateCancellation
  <2>2. QED
    BY <1>3, <2>1 DEF RetryImmediateCancellation, WorkerType
<1>4. ASSUME NEW w \in Workers, ApproveCancellation(r, w) PROVE TypeOK'
  <2> DEFINE o == BeginAdminResolution(r, "PARTICIPANT_APPROVE", "none")
  <2>1. o \in OpType
    BY <1>a, <1>b, BeginType
  <2>2. worker' \in [Workers -> WorkerType]
    BY <1>4, <1>a, <1>b, SpawnType DEF ApproveCancellation
  <2>3. op' \in [Cases -> OpType]
    BY <1>4, <2>1 DEF ApproveCancellation, OpType
  <2>4. request' \in [Requests -> RequestType]
    BY <1>4, CaseRowTypes DEF ApproveCancellation, RequestStatus
  <2>5. QED
    BY <1>4, <2>2, <2>3, <2>4 DEF ApproveCancellation, WorkerType, OpType, RequestType, RequestStatus
<1>5. CASE DeclineCancellation(r)
  <2>1. request' \in [Requests -> RequestType]
    BY <1>5, CaseRowTypes DEF DeclineCancellation, RequestStatus
  <2>2. QED
    BY <1>5, <2>1 DEF DeclineCancellation, RequestType, RequestStatus
<1>6. ASSUME NEW x \in Reports, EscalateCancellation(r, x) PROVE TypeOK'
  <2>2. request' \in [Requests -> RequestType]
    BY <1>6, EscalatedType DEF EscalateCancellation
  <2>3. report' \in [Reports -> ReportType]
    BY <1>6, CaseRowTypes DEF EscalateCancellation, ReportType, ReportStatus, ActiveReport, Other
  <2>4. QED
    BY <1>6, <2>2, <2>3 DEF EscalateCancellation, RequestType, RequestStatus, ReportType, ReportStatus
<1>7. QED
  BY <1>0, <1>1, <1>2, <1>3, <1>4, <1>5, <1>6

\* The claim transaction of every administrator decision keeps the state
\* well-formed.
LEMMA AdminType ==
    ASSUME TypeOK, NEW w \in Workers, AdminDecision(w)
    PROVE  TypeOK'
<1> USE DEF TypeOK, BookingStatus, PaymentStatus, Participants, moneyVars, caseVars, bookingVars
<1>a. /\ Requests \subseteq Cases /\ Reports \subseteq Cases /\ Escalations \subseteq Cases
      /\ AdminBooking \in Cases
  BY DEF Cases
<1>b. /\ CancellationOutcomes \cup ReportOutcomes \cup EscalationOutcomes \cup AdminBookingOutcomes \subseteq Outcomes
      /\ {"reserve", "decide", "finalize", "settle", "cancel_read"} \subseteq PCs
  BY DEF Outcomes, FinancialOutcomes, CancelOutcomes, ReleaseOutcome, CancellationOutcomes,
         ReportOutcomes, EscalationOutcomes, AdminBookingOutcomes, PCs
<1>1. ASSUME NEW r \in Requests, NEW out \in CancellationOutcomes, AdminResolveCancellation(r, out, w)
      PROVE  TypeOK'
  <2> DEFINE o == BeginAdminResolution(r, out, "none")
  <2>1. o \in OpType
    BY <1>a, <1>b, BeginType
  <2>2. worker' \in [Workers -> WorkerType]
    BY <1>1, <1>a, <1>b, SpawnType DEF AdminResolveCancellation
  <2>3. op' \in [Cases -> OpType]
    BY <1>1, <2>1 DEF AdminResolveCancellation, OpType
  <2>4. request' \in [Requests -> RequestType]
    BY <1>1, CaseRowTypes DEF AdminResolveCancellation, RequestStatus, ActiveCancellation
  <2>5. report' \in [Reports -> ReportType]
    BY <1>1, CaseRowTypes DEF AdminResolveCancellation, ReportType, ReportStatus, ActiveReport
  <2>6. QED
    BY <1>1, <2>2, <2>3, <2>4, <2>5
    DEF AdminResolveCancellation, WorkerType, OpType, RequestType, RequestStatus, ReportType, ReportStatus
<1>2. ASSUME NEW x \in Reports, NEW out \in ReportOutcomes, NEW penalty \in {"none", "ban"},
             ResolveAdminReport(x, out, penalty, w)
      PROVE  TypeOK'
  <2> DEFINE o == ReconcileReserved(BeginAdminResolution(x, out, penalty), out)
  <2>1. o \in OpType
    BY <1>a, <1>b, BeginType, OperationTypes
  <2>2. worker' \in [Workers -> WorkerType]
    BY <1>2, <1>a, <1>b, SpawnType DEF ResolveAdminReport
  <2>3. op' \in [Cases -> OpType]
    BY <1>2, <2>1 DEF ResolveAdminReport, OpType
  <2>4. report' \in [Reports -> ReportType]
    BY <1>2, CaseRowTypes DEF ResolveAdminReport, ReportStatus, ActiveReport
  <2>5. QED
    BY <1>2, <2>2, <2>3, <2>4 DEF ResolveAdminReport, WorkerType, OpType, ReportType, ReportStatus
<1>3. ASSUME NEW e \in Escalations, NEW out \in EscalationOutcomes, ResolveCompletionEscalation(e, out, w)
      PROVE  TypeOK'
  <2> DEFINE o == ReconcileReserved(BeginAdminResolution(e, out, "none"), out)
  <2>1. o \in OpType
    BY <1>a, <1>b, BeginType, OperationTypes
  <2>2. worker' \in [Workers -> WorkerType]
    BY <1>3, <1>a, <1>b, SpawnType DEF ResolveCompletionEscalation
  <2>3. op' \in [Cases -> OpType]
    BY <1>3, <2>1 DEF ResolveCompletionEscalation, OpType
  <2>4. QED
    BY <1>3, <2>2, <2>3 DEF ResolveCompletionEscalation, WorkerType, OpType, ActiveEscalation
<1>4. ASSUME NEW out \in AdminBookingOutcomes, ResolveAdminBooking(out, w)
      PROVE  TypeOK'
  <2> DEFINE o == ReconcileReserved(BeginAdminResolution(AdminBooking, out, "none"), out)
  <2>1. o \in OpType /\ MarkStage(o, "FINANCIAL_EFFECT_RESERVED") \in OpType
    BY <1>a, <1>b, BeginType, OperationTypes, Stages
  <2>2. worker' \in [Workers -> WorkerType]
    BY <1>4, <1>a, <1>b, SpawnType DEF ResolveAdminBooking
  <2>3. op' \in [Cases -> OpType]
    BY <1>4, <2>1 DEF ResolveAdminBooking, OpType
  <2>4. QED
    BY <1>4, <2>2, <2>3 DEF ResolveAdminBooking, WorkerType, OpType
<1>5. QED
  BY <1>1, <1>2, <1>3, <1>4 DEF AdminDecision

\* The three transactions that close a case keep the state well-formed.
LEMMA FinalizeType ==
    ASSUME TypeOK, NEW w \in Workers, Finalize(w)
    PROVE  TypeOK'
<1> DEFINE c == worker[w].case
           outcome == worker[w].outcome
<1>1. worker' \in [Workers -> WorkerType]
  BY MoveType DEF Finalize, PCs
<1>2. op' \in [Cases -> OpType]
  <2>1. op \in [Cases -> OpType]
    BY DEF TypeOK, OpType
  <2>2. QED
    BY <2>1, OperationTypes DEF Finalize
<1>3. \/ UNCHANGED <<bookingVars, caseVars, banned>>
      \/ c \in Requests /\ FinalizeRequest(c, outcome)
      \/ c \in Reports /\ FinalizeReport(c, outcome)
      \/ c \in Escalations /\ FinalizeEscalation(c)
  BY DEF Finalize
<1>4. UNCHANGED moneyVars
  BY DEF Finalize
<1>5. ASSUME NEW requests, NEW reports, RestoreBooking(requests, reports)
      PROVE  /\ status' \in BookingStatus /\ before' \in BookingStatus \cup {"none"}
             /\ pay' \in PaymentStatus /\ started' \in BOOLEAN
             /\ queue' \in [status : {"none", "WAITING", "SERVING", "DONE", "CANCELLED"},
                            pay : PaymentStatus]
  BY <1>5 DEF RestoreBooking, TypeOK, BookingStatus, PaymentStatus, bookingVars
<1>6. CASE UNCHANGED <<bookingVars, caseVars, banned>>
  BY <1>1, <1>2, <1>4, <1>6 DEF TypeOK, WorkerType, OpType, bookingVars, moneyVars, caseVars
<1>7. CASE c \in Requests /\ FinalizeRequest(c, outcome)
  <2>1. request' \in [Requests -> RequestType]
    BY <1>7, CaseRowTypes DEF FinalizeRequest, RequestStatus
  <2>2. report' \in [Reports -> ReportType]
    BY <1>7, CaseRowTypes DEF FinalizeRequest, ReportStatus, ReportType
  <2>3. UNCHANGED bookingVars \/ RestoreBooking(request', report')
    BY <1>7 DEF FinalizeRequest
  <2>4. UNCHANGED <<escalation, banned>>
    BY <1>7 DEF FinalizeRequest
  <2>5. QED
    BY <1>1, <1>2, <1>4, <1>5, <2>1, <2>2, <2>3, <2>4
    DEF TypeOK, WorkerType, OpType, RequestType, RequestStatus, ReportType, ReportStatus, bookingVars, moneyVars
<1>8. CASE c \in Reports /\ FinalizeReport(c, outcome)
  <2>1. report' \in [Reports -> ReportType]
    BY <1>8, CaseRowTypes DEF FinalizeReport, ReportStatus
  <2>2. UNCHANGED bookingVars \/ RestoreBooking(request, report')
    BY <1>8 DEF FinalizeReport
  <2>3. banned' \in SUBSET Participants
    BY <1>8, CaseRowTypes DEF FinalizeReport, TypeOK, ReportType
  <2>4. UNCHANGED <<request, escalation>>
    BY <1>8 DEF FinalizeReport
  <2>5. QED
    BY <1>1, <1>2, <1>4, <1>5, <2>1, <2>2, <2>3, <2>4
    DEF TypeOK, WorkerType, OpType, ReportType, ReportStatus, bookingVars, moneyVars
<1>9. CASE c \in Escalations /\ FinalizeEscalation(c)
  BY <1>1, <1>2, <1>4, <1>9
  DEF FinalizeEscalation, TypeOK, WorkerType, OpType, bookingVars, moneyVars
<1>10. QED
  BY <1>3, <1>6, <1>7, <1>8, <1>9

\* Every step of a request in flight keeps the state well-formed.
LEMMA WorkerStepType ==
    ASSUME TypeOK, NEW w \in Workers, WorkerStep(w) \/ Outage(w)
    PROVE  TypeOK'
<1> DEFINE WT == worker' \in [Workers -> WorkerType]
<1>a. worker[w] \in WorkerType
  BY DEF TypeOK, WorkerType
<1>b. \A pc \in PCs : Goto(w, pc) => WT
  BY MoveType
<1>c. (Throw(w) => WT) /\ (Done(w) => WT)
  BY MoveType
<1>d. op \in [Cases -> OpType]
  BY DEF TypeOK, OpType
<1> DEFINE Same == UNCHANGED <<bookingVars, moneyVars, caseVars, op, banned>>
<1>e. WT /\ Same => TypeOK'
  BY OnlyWorkerType
<1> USE DEF moneyVars, caseVars, bookingVars
<1>1. CASE Reserve(w)
  <2>1. WT
    BY <1>1, <1>b, <1>c DEF Reserve, StepOrThrow, PCs
  <2>2. op' \in [Cases -> OpType]
    BY <1>1, <1>d, OperationTypes, Stages DEF Reserve, StepOrThrow
  <2>3. /\ status' \in {status, "UNDER_REVIEW"} /\ before' \in {before, "AWAITING_CONFIRMATION"}
        /\ UNCHANGED <<pay, started, queue, moneyVars, caseVars, banned>>
    BY <1>1 DEF Reserve, StepOrThrow
  <2>4. QED
    BY <2>1, <2>2, <2>3 DEF TypeOK, WorkerType, OpType, BookingStatus
<1>2. CASE CancelRead(w)
  <2>2. WT
    <3> DEFINE held == pay \in Held
               pc == IF held THEN "refund_read" ELSE "cancel_tx"
    <3>1. held \in BOOLEAN /\ pc \in PCs
      BY DEF PCs
    <3>2. Throw(w) \/ worker' = [worker EXCEPT ![w].held = held, ![w].pc = pc]
      BY <1>2 DEF CancelRead, StepOrThrow
    <3> HIDE DEF held, pc
    <3>3. [worker EXCEPT ![w].held = held, ![w].pc = pc] \in [Workers -> WorkerType]
      BY <3>1, RememberType
    <3>4. QED
      BY <1>c, <3>2, <3>3
  <2>3. Same
    BY <1>2 DEF CancelRead, StepOrThrow
  <2>4. QED
    BY <1>e, <2>2, <2>3
<1>3. CASE RefundRead(w)
  <2>1. WT
    BY <1>3, <1>b, <1>c DEF RefundRead, StepOrThrow, PCs
  <2>2. Same
    BY <1>3 DEF RefundRead, StepOrThrow
  <2>3. QED
    BY <1>e, <2>1, <2>2
<1>4. CASE RefundReserve(w)
  <2> DEFINE pc == IF refund.ref THEN "refund_final" ELSE "refund_gateway"
  <2>1. refund.ref \in BOOLEAN /\ pc \in PCs
    BY DEF TypeOK, PCs
  <2>2. Throw(w) \/ worker' = [worker EXCEPT ![w].resumed = refund.ref, ![w].pc = pc]
    BY <1>4 DEF RefundReserve, StepOrThrow
  <2>3. WT
    <3> HIDE DEF pc
    <3>1. [worker EXCEPT ![w].resumed = refund.ref, ![w].pc = pc] \in [Workers -> WorkerType]
      BY <2>1, RememberType
    <3>2. QED
      BY <1>c, <2>2, <3>1
  <2>4. /\ refund' \in {refund, [refund EXCEPT !.status = "PROCESSING"]}
        /\ UNCHANGED <<bookingVars, gateway, completedService, ledger, caseVars, op, banned>>
    BY <1>4 DEF RefundReserve, StepOrThrow
  <2>5. QED
    BY <2>3, <2>4 DEF TypeOK, WorkerType
<1>5. CASE RefundGateway(w)
  <2>1. WT
    BY <1>5, <1>b DEF RefundGateway, PCs
  <2>2. QED
    BY <1>5, <2>1 DEF RefundGateway, TypeOK, WorkerType
<1>6. CASE RefundFailed(w)
  <2>1. WT
    BY <1>6, <1>c DEF RefundFailed
  <2>2. QED
    BY <1>6, <2>1 DEF RefundFailed, TypeOK, WorkerType
<1>7. CASE RefundFinal(w)
  <2>1. WT
    BY <1>7, <1>b, <1>c DEF RefundFinal, StepOrThrow, PCs
  <2> DEFINE Booked == /\ \E s \in GatewayRefundStatus : refund' = [status |-> s, ref |-> TRUE]
                       /\ status' = "CANCELED" /\ pay' = "REFUNDED" /\ before' = "none"
                       /\ queue' = [status |-> "CANCELLED", pay |-> "REFUNDED"]
                       /\ ledger' = ledger \cup {"REFUND"}
                       /\ UNCHANGED <<started, gateway, completedService, caseVars, op, banned>>
  <2>2. Same \/ Booked
    BY <1>7 DEF RefundFinal, StepOrThrow
  <2>3. GatewayRefundStatus \subseteq {"PROCESSING", "SUBMITTED", "FAILED"}
    BY DEF GatewayRefundStatus
  <2>4. CASE Same
    BY <1>e, <2>1, <2>4
  <2>5. CASE Booked
    <3>1. refund' \in [status : {"none", "PROCESSING", "FAILED", "SUBMITTED"}, ref : BOOLEAN]
      BY <2>3, <2>5
    <3>2. QED
      BY <2>1, <2>5, <3>1 DEF TypeOK, WorkerType, BookingStatus, PaymentStatus
  <2>6. QED
    BY <2>2, <2>4, <2>5
<1>8. CASE CancelTx(w)
  <2>1. WT
    BY <1>8, <1>b, <1>c DEF CancelTx, StepOrThrow, PCs
  <2>2. QED
    BY <1>8, <2>1 DEF CancelTx, StepOrThrow, TypeOK, WorkerType, BookingStatus
<1>9. CASE ImmediateFinal(w)
  <2>1. WT
    BY <1>9, <1>c DEF ImmediateFinal
  <2>2. request' \in [Requests -> RequestType]
    BY <1>9, CaseRowTypes DEF ImmediateFinal, RequestStatus, RequestType
  <2>3. QED
    BY <1>9, <2>1, <2>2 DEF ImmediateFinal, TypeOK, WorkerType, RequestType, RequestStatus
<1>10. CASE SettleByAdmin(w)
  <2>1. WT
    BY <1>10, <1>b, <1>c DEF SettleByAdmin, StepOrThrow, PCs
  <2>2. Same \/ (Settle /\ UNCHANGED <<caseVars, op, banned>>)
    BY <1>10 DEF SettleByAdmin, StepOrThrow
  <2>3. CASE Same
    BY <1>e, <2>1, <2>3
  <2>4. CASE Settle /\ UNCHANGED <<caseVars, op, banned>>
    BY <2>1, <2>4 DEF Settle, TypeOK, WorkerType, BookingStatus, PaymentStatus
  <2>5. QED
    BY <2>2, <2>3, <2>4
<1>11. CASE Mark(w)
  <2>1. WT
    BY <1>11, <1>b DEF Mark, PCs
  <2>2. op' \in [Cases -> OpType]
    BY <1>11, <1>d, OperationTypes, Stages DEF Mark
  <2>3. QED
    BY <1>11, <2>1, <2>2 DEF Mark, TypeOK, WorkerType, OpType
<1>12. CASE Fail(w)
  <2>1. WT
    BY <1>12, <1>c DEF Fail
  <2>2. op' \in [Cases -> OpType]
    BY <1>12, <1>d, OperationTypes DEF Fail
  <2>3. QED
    BY <1>12, <2>1, <2>2 DEF Fail, TypeOK, WorkerType, OpType
<1>13. CASE Finalize(w)
  BY <1>13, FinalizeType
<1>14. CASE Outage(w)
  <2>1. WT
    BY <1>14, <1>b, <1>c DEF Outage, Crash, IntentLookupFails, RefundGatewayFails, PCs
  <2>2. gateway' \in BOOLEAN
    BY <1>14 DEF Outage, Crash, IntentLookupFails, RefundGatewayFails, TypeOK
  <2>3. UNCHANGED <<bookingVars, refund, completedService, ledger, caseVars, op, banned>>
    BY <1>14 DEF Outage, Crash, IntentLookupFails, RefundGatewayFails
  <2>4. QED
    BY <2>1, <2>2, <2>3 DEF TypeOK, WorkerType
<1>15. QED
  BY <1>1, <1>2, <1>3, <1>4, <1>5, <1>6, <1>7, <1>8, <1>9, <1>10, <1>11, <1>12, <1>13, <1>14 DEF WorkerStep

\* Every reachable state of a booking and its cases is well-formed, whatever
\* requests, decisions, outages and crashes came before it.
THEOREM TypeCorrect == Spec => []TypeOK
<1>1. TypeOK /\ [Next]_vars => TypeOK'
  <2> SUFFICES ASSUME TypeOK, [Next]_vars PROVE TypeOK'
    OBVIOUS
  <2>1. CASE Next
    <3>1. ASSUME NEW p \in Participants, Ban(p) \/ LiftBan(p) PROVE TypeOK'
      <4>1. banned' \in SUBSET Participants
        BY <3>1 DEF Ban, LiftBan, TypeOK
      <4>2. UNCHANGED <<bookingVars, moneyVars, caseVars, op, worker>>
        BY <3>1 DEF Ban, LiftBan
      <4>3. QED
        BY <4>1, <4>2 DEF TypeOK, bookingVars, moneyVars, caseVars
    <3>2. ASSUME NEW w \in Workers, AdminDecision(w) \/ WorkerStep(w) \/ Outage(w) PROVE TypeOK'
      BY <3>2, AdminType, WorkerStepType
    <3>3. QED
      BY <2>1, <3>1, <3>2, ParticipantType, CancellationType DEF Next
  <2>2. CASE UNCHANGED vars
    BY <2>2 DEF TypeOK, vars, bookingVars, moneyVars, caseVars
  <2>3. QED
    BY <2>1, <2>2
<1>2. QED
  BY <1>1, InitType, PTL DEF Spec

-----------------------------------------------------------------------------
(* Settlement: the inductive invariant                                      *)
(*                                                                          *)
(* SettledConsistently is not inductive.  The closing transaction of        *)
(* performImmediateCancel acts on `held', which it read before the refund,  *)
(* so a paid booking is safe only because a request that reached that       *)
(* transaction without a refund of its own found it cancelled already; and  *)
(* restoring a paused booking is safe only because the status it remembers  *)
(* is that of unsettled work.                                               *)

Resumable == {"ACCEPTED", "ONGOING", "AWAITING_CONFIRMATION"}
RefundPCs == {"refund_read", "refund_reserve", "refund_gateway", "refund_failed", "refund_final"}

\* A request inside refundBookingPayment saw a held payment, and one about
\* to close the cancellation of a paid booking without a refund of its own
\* found the booking cancelled.
WorkerInv ==
    \A w \in Workers :
        /\ worker[w].pc \in RefundPCs => worker[w].held
        /\ (worker[w].pc = "cancel_tx" /\ ~worker[w].held /\ ~IsCash) => status = "CANCELED"

MoneyInv ==
    /\ SettledConsistently
    /\ before \in Resumable \cup {"none"}
    /\ IsCash => queue.status = "none"

\* The four things a step can do to the booking and its money.
Keep == UNCHANGED <<status, before, pay, queue, completedService, ledger>>

Continue ==
    /\ status \notin Terminal /\ status' \notin Terminal
    /\ before' \in Resumable \cup {"none"}
    /\ pay' \in IF IsCash THEN {"UNPAID"} ELSE {"PAID_HELD", "FROZEN_HELD"}
    /\ ~IsCash => queue'.pay = pay'
    /\ IsCash => queue'.status = "none"
    /\ UNCHANGED <<completedService, ledger>>

Release ==
    /\ status \notin Terminal /\ status' = "COMPLETED" /\ before' = "none"
    /\ completedService' = TRUE
    /\ pay' = IF IsCash THEN "CASH_CONFIRMED" ELSE "RELEASED"
    /\ ledger' = IF IsCash THEN {} ELSE {"EARNING"}
    /\ IF IsCash THEN queue'.status = "none" ELSE queue' = [status |-> "DONE", pay |-> "RELEASED"]

Return ==
    /\ status \notin Terminal /\ status' = "CANCELED" /\ before' = "none"
    /\ completedService' = FALSE
    /\ pay' = IF IsCash THEN "UNPAID" ELSE "REFUNDED"
    /\ ledger' = IF IsCash THEN {} ELSE {"REFUND"}
    /\ IF IsCash THEN queue'.status = "none" ELSE queue' = [status |-> "CANCELLED", pay |-> "REFUNDED"]

MoneyStep == Keep \/ Continue \/ Release \/ Return

\* What each status says of the money, spelled out.
LEMMA Stories ==
    /\ PayOf("COMPLETED") = {IF IsCash THEN "CASH_CONFIRMED" ELSE "RELEASED"}
    /\ PayOf("CANCELED") = {IF IsCash THEN "UNPAID" ELSE "REFUNDED"}
    /\ LedgerOf("COMPLETED") = IF IsCash THEN {} ELSE {"EARNING"}
    /\ LedgerOf("CANCELED") = IF IsCash THEN {} ELSE {"REFUND"}
    /\ \A s : s \notin Terminal => /\ PayOf(s) = IF IsCash THEN {"UNPAID"} ELSE {"PAID_HELD", "FROZEN_HELD"}
                                 /\ LedgerOf(s) = {}
BY DEF PayOf, LedgerOf, Terminal

\* The invariant holds of an accepted booking.
LEMMA InitMoney == Init => MoneyInv /\ WorkerInv
<1> SUFFICES ASSUME Init PROVE MoneyInv /\ WorkerInv
  OBVIOUS
<1>1. SettledConsistently
  <2>1. status = "ACCEPTED" /\ status \notin Terminal
    BY DEF Init, Terminal
  <2>2. /\ pay = IF IsCash THEN "UNPAID" ELSE "PAID_HELD"
        /\ queue.pay = pay /\ ledger = {} /\ completedService = FALSE
    BY DEF Init
  <2>3. QED
    BY <2>1, <2>2, Stories DEF SettledConsistently
<1>2. before \in Resumable \cup {"none"} /\ (IsCash => queue.status = "none")
  BY DEF Init
<1>3. WorkerInv
  BY DEF Init, Idle, WorkerInv, RefundPCs
<1>4. QED
  BY <1>1, <1>2, <1>3 DEF MoneyInv

\* Each of the four keeps the booking, its queue row, its CompletedService
\* and its ledger in agreement.
LEMMA MoneyStepPreserves ==
    ASSUME MoneyInv, MoneyStep
    PROVE  MoneyInv'
<1>1. CASE Keep
  BY <1>1 DEF Keep, MoneyInv, SettledConsistently
<1>2. CASE Continue
  <2>1. completedService = FALSE /\ ledger = {}
    BY <1>2, Stories DEF Continue, MoneyInv, SettledConsistently, Terminal
  <2>2. completedService' = FALSE /\ ledger' = {} /\ status' # "COMPLETED"
    BY <1>2, <2>1 DEF Continue, Terminal
  <2>3. ledger' = LedgerOf(status') /\ pay' \in PayOf(status')
    BY <1>2, <2>2, Stories DEF Continue
  <2>4. QED
    BY <1>2, <2>2, <2>3 DEF Continue, MoneyInv, SettledConsistently
<1>3. CASE Release
  <2>1. ledger' = LedgerOf(status') /\ pay' \in PayOf(status')
    BY <1>3, Stories DEF Release
  <2>2. completedService' = (status' = "COMPLETED")
    BY <1>3 DEF Release
  <2>3. /\ ~IsCash => queue'.pay = pay'
        /\ queue'.status \in {"none", "DONE", "CANCELLED"}
        /\ IsCash => queue'.status = "none"
    BY <1>3 DEF Release
  <2>4. before' = "none"
    BY <1>3 DEF Release
  <2>5. QED
    BY <2>1, <2>2, <2>3, <2>4 DEF MoneyInv, SettledConsistently
<1>4. CASE Return
  <2>1. ledger' = LedgerOf(status') /\ pay' \in PayOf(status')
    BY <1>4, Stories DEF Return
  <2>2. completedService' = (status' = "COMPLETED")
    BY <1>4 DEF Return
  <2>3. /\ ~IsCash => queue'.pay = pay'
        /\ queue'.status \in {"none", "DONE", "CANCELLED"}
        /\ IsCash => queue'.status = "none"
    BY <1>4 DEF Return
  <2>4. before' = "none"
    BY <1>4 DEF Return
  <2>5. QED
    BY <2>1, <2>2, <2>3, <2>4 DEF MoneyInv, SettledConsistently
<1>5. QED
  BY <1>1, <1>2, <1>3, <1>4 DEF MoneyStep

\* In particular a cancelled booking stays cancelled.
LEMMA CanceledStays ==
    ASSUME MoneyStep, status = "CANCELED"
    PROVE  status' = "CANCELED"
BY DEF MoneyStep, Keep, Continue, Release, Return, Terminal

\* An unsettled booking has written nothing and its money is where it was.
LEMMA OpenFacts ==
    ASSUME MoneyInv, status \notin Terminal
    PROVE  /\ completedService = FALSE /\ ledger = {}
           /\ pay \in IF IsCash THEN {"UNPAID"} ELSE {"PAID_HELD", "FROZEN_HELD"}
BY Stories DEF MoneyInv, SettledConsistently, Terminal

\* A held payment belongs to an unsettled online booking.
LEMMA HeldFacts ==
    ASSUME TypeOK, MoneyInv, pay \in Held
    PROVE  ~IsCash /\ status \notin Terminal
<1>1. pay \in PayOf(status)
  BY DEF MoneyInv, SettledConsistently
<1>2. QED
  BY <1>1, Stories DEF Held, Terminal

\* settleCompletedBooking, once its checks have passed, releases.
LEMMA SettleReleases ==
    ASSUME MoneyInv, NEW actor, SettleAllowed(actor), Settle
    PROVE  Release
<1>1. status \notin Terminal
  BY DEF SettleAllowed, Terminal
<1>2. ledger = {}
  BY <1>1, OpenFacts
<1>3. QED
  BY <1>1, <1>2 DEF Settle, Release, MoneyInv

\* restoreBookingIfNoBlockingCases leaves the money where it was.
LEMMA RestoreContinues ==
    ASSUME TypeOK, MoneyInv, UNCHANGED <<completedService, ledger>>,
           NEW requests, NEW reports, RestoreBooking(requests, reports)
    PROVE  MoneyStep
<1>1. CASE UNCHANGED bookingVars
  BY <1>1 DEF MoneyStep, Keep, bookingVars
<1>2. CASE ~UNCHANGED bookingVars
  <2>1. /\ status \in {"DISPUTED", "UNDER_REVIEW"} /\ before # "none"
        /\ status' = before /\ before' = "none" /\ pay' = IF IsCash THEN "UNPAID" ELSE "PAID_HELD"
        /\ queue' = IF IsCash THEN queue ELSE [queue EXCEPT !.pay = pay']
    BY <1>2 DEF RestoreBooking
  <2>2. status' \in Resumable
    BY <2>1 DEF MoneyInv
  <2>3. ~IsCash => queue'.pay = pay'
    BY <2>1 DEF TypeOK
  <2>4. Continue
    BY <2>1, <2>2, <2>3 DEF Continue, MoneyInv, Terminal, Resumable
  <2>5. QED
    BY <2>4 DEF MoneyStep
<1>3. QED
  BY <1>1, <1>2

\* What participants do to the money.
LEMMA ParticipantMoney ==
    ASSUME TypeOK, MoneyInv, ParticipantStep
    PROVE  MoneyStep /\ UNCHANGED worker
<1>a. status \notin Terminal => pay \in IF IsCash THEN {"UNPAID"} ELSE {"PAID_HELD", "FROZEN_HELD"}
  BY OpenFacts
<1>b. /\ before \in Resumable \cup {"none"} /\ (IsCash => queue.status = "none")
      /\ ~IsCash => queue.pay = pay
  BY DEF MoneyInv, SettledConsistently
<1> USE DEF moneyVars, bookingVars, caseVars, MoneyStep
<1>1. CASE Start
  <2>1. Continue
    BY <1>1, <1>a, <1>b DEF Start, Continue, Terminal, TypeOK
  <2>2. QED
    BY <1>1, <2>1 DEF Start
<1>2. CASE MarkJobComplete
  <2>1. Continue
    BY <1>2, <1>a, <1>b DEF MarkJobComplete, Continue, Terminal, TypeOK
  <2>2. QED
    BY <1>2, <2>1 DEF MarkJobComplete
<1>3. CASE ConfirmCompletion
  BY <1>3, SettleReleases DEF ConfirmCompletion
<1>4. ASSUME NEW r \in Reports, DisputeJob(r) PROVE MoneyStep /\ UNCHANGED worker
  <2>1. Continue
    BY <1>4, <1>a, <1>b DEF DisputeJob, Continue, Terminal, Resumable, TypeOK
  <2>2. QED
    BY <1>4, <2>1 DEF DisputeJob
<1>5. ASSUME NEW r \in Reports, NEW p \in Participants, CreateSafetyReport(p, r)
      PROVE  MoneyStep /\ UNCHANGED worker
  <2>1. CASE status \in Pausable
    <3>1. Continue
      BY <1>5, <1>a, <1>b, <2>1 DEF CreateSafetyReport, Continue, Terminal, Pausable, Resumable, TypeOK
    <3>2. QED
      BY <1>5, <3>1 DEF CreateSafetyReport
  <2>2. CASE status \notin Pausable
    BY <1>5, <2>2 DEF CreateSafetyReport, Keep
  <2>3. QED
    BY <2>1, <2>2
<1>6. ASSUME NEW e \in Escalations, CreateCompletionEscalation(e)
      PROVE  MoneyStep /\ UNCHANGED worker
  BY <1>6 DEF CreateCompletionEscalation, Keep
<1>7. QED
  BY <1>1, <1>2, <1>3, <1>4, <1>5, <1>6 DEF ParticipantStep

\* A step that leaves the other requests alone, and gives w either no
\* place in a refund or a place the invariant allows.
LEMMA WorkerInvStep ==
    ASSUME TypeOK, WorkerInv, MoneyStep, NEW w \in Workers, NEW new,
           worker' = [worker EXCEPT ![w] = new],
           new.pc \in RefundPCs => new.held,
           (new.pc = "cancel_tx" /\ ~new.held /\ ~IsCash) => status' = "CANCELED"
    PROVE  WorkerInv'
<1>1. \A v \in Workers : worker'[v] = IF v = w THEN new ELSE worker[v]
  BY DEF TypeOK
<1>2. status = "CANCELED" => status' = "CANCELED"
  BY CanceledStays
<1>3. QED
  BY <1>1, <1>2 DEF WorkerInv

\* A new request starts outside any refund.
LEMMA SpawnInv ==
    ASSUME TypeOK, WorkerInv, MoneyStep, NEW w \in Workers, NEW c, NEW outcome, NEW pc,
           pc \notin RefundPCs \cup {"cancel_tx"}, Spawn(w, c, outcome, pc)
    PROVE  WorkerInv'
<1> DEFINE new == [Idle EXCEPT !.pc = pc, !.case = c, !.outcome = outcome]
<1>1. new.pc = pc
  BY DEF Idle
<1>2. worker' = [worker EXCEPT ![w] = new]
  BY DEF Spawn
<1> HIDE DEF new
<1>3. QED
  BY <1>1, <1>2, WorkerInvStep

\* What cancellation requests do to the money, before any refund.
LEMMA CancellationMoney ==
    ASSUME TypeOK, MoneyInv, WorkerInv, CancellationStep
    PROVE  MoneyStep /\ WorkerInv'
<1>0. PICK r \in Requests :
        \/ \E p \in Participants : RequestCancellation(p, r)
        \/ \E p \in Participants, w \in Workers : RequestImmediateCancellation(p, r, w)
        \/ \E w \in Workers : RetryImmediateCancellation(r, w) \/ ApproveCancellation(r, w)
        \/ DeclineCancellation(r)
        \/ \E x \in Reports : EscalateCancellation(r, x)
  BY DEF CancellationStep
<1>a. status \notin Terminal => pay \in IF IsCash THEN {"UNPAID"} ELSE {"PAID_HELD", "FROZEN_HELD"}
  BY OpenFacts
<1>b. /\ before \in Resumable \cup {"none"} /\ (IsCash => queue.status = "none")
      /\ ~IsCash => queue.pay = pay
  BY DEF MoneyInv, SettledConsistently
<1>c. \A pc \in {"cancel_read", "finalize", "reserve"} : pc \notin RefundPCs \cup {"cancel_tx"}
  BY DEF RefundPCs
<1>d. UNCHANGED worker /\ Keep => MoneyStep /\ WorkerInv'
  BY DEF Keep, MoneyStep, WorkerInv
<1> USE DEF moneyVars, bookingVars, caseVars
<1>1. ASSUME NEW p \in Participants, RequestCancellation(p, r) PROVE MoneyStep /\ WorkerInv'
  BY <1>1, <1>d DEF RequestCancellation, Keep
<1>2. ASSUME NEW p \in Participants, NEW w \in Workers, RequestImmediateCancellation(p, r, w)
      PROVE  MoneyStep /\ WorkerInv'
  <2>1. Continue
    BY <1>2, <1>a, <1>b DEF RequestImmediateCancellation, Cancellable, Continue, Terminal, Resumable, BookingStatus, TypeOK
  <2>2. Spawn(w, r, "IMMEDIATE", "cancel_read")
    BY <1>2 DEF RequestImmediateCancellation
  <2>3. QED
    BY <1>c, <2>1, <2>2, SpawnInv DEF MoneyStep
<1>3. ASSUME NEW w \in Workers, RetryImmediateCancellation(r, w) PROVE MoneyStep /\ WorkerInv'
  <2>1. Keep /\ Spawn(w, r, "IMMEDIATE", "cancel_read")
    BY <1>3 DEF RetryImmediateCancellation, Keep
  <2>2. QED
    BY <1>c, <2>1, SpawnInv DEF MoneyStep
<1>4. ASSUME NEW w \in Workers, ApproveCancellation(r, w) PROVE MoneyStep /\ WorkerInv'
  <2>1. Keep
    BY <1>4 DEF ApproveCancellation, Keep
  <2>2. \E pc \in {"finalize", "reserve"} : Spawn(w, r, "PARTICIPANT_APPROVE", pc)
    BY <1>4 DEF ApproveCancellation
  <2>3. QED
    BY <1>c, <2>1, <2>2, SpawnInv DEF MoneyStep
<1>5. CASE DeclineCancellation(r)
  BY <1>5, <1>d DEF DeclineCancellation, Keep
<1>6. ASSUME NEW x \in Reports, EscalateCancellation(r, x) PROVE MoneyStep /\ WorkerInv'
  BY <1>6, <1>d DEF EscalateCancellation, Keep
<1>7. QED
  BY <1>0, <1>1, <1>2, <1>3, <1>4, <1>5, <1>6

\* What the claim of an administrator decision does to the money: at most it
\* holds the booking.
LEMMA AdminMoney ==
    ASSUME TypeOK, MoneyInv, WorkerInv, NEW w \in Workers, AdminDecision(w)
    PROVE  MoneyStep /\ WorkerInv'
<1> DEFINE Starts == \E c, outcome : \E pc \in {"reserve", "decide", "finalize", "settle", "cancel_read"} :
                        Spawn(w, c, outcome, pc)
<1>a. MoneyStep /\ Starts => WorkerInv'
  <2>1. \A pc \in {"reserve", "decide", "finalize", "settle", "cancel_read"} : pc \notin RefundPCs \cup {"cancel_tx"}
    BY DEF RefundPCs
  <2>2. QED
    BY <2>1, SpawnInv
<1> USE DEF moneyVars, bookingVars, caseVars
<1>1. ASSUME NEW r \in Requests, NEW out \in CancellationOutcomes, AdminResolveCancellation(r, out, w)
      PROVE  MoneyStep /\ Starts
  <2>1. Keep /\ \E pc \in {"reserve", "decide"} : Spawn(w, r, out, pc)
    BY <1>1 DEF AdminResolveCancellation, Keep
  <2>2. QED
    BY <2>1 DEF MoneyStep
<1>2. ASSUME NEW x \in Reports, NEW out \in ReportOutcomes, NEW penalty \in {"none", "ban"},
             ResolveAdminReport(x, out, penalty, w)
      PROVE  MoneyStep /\ Starts
  <2>1. Keep /\ \E pc \in {"reserve", "decide"} : Spawn(w, x, out, pc)
    BY <1>2 DEF ResolveAdminReport, Keep
  <2>2. QED
    BY <2>1 DEF MoneyStep
<1>3. ASSUME NEW e \in Escalations, NEW out \in EscalationOutcomes, ResolveCompletionEscalation(e, out, w)
      PROVE  MoneyStep /\ Starts
  <2>1. Keep /\ \E pc \in {"reserve", "decide"} : Spawn(w, e, out, pc)
    BY <1>3 DEF ResolveCompletionEscalation, Keep
  <2>2. QED
    BY <2>1 DEF MoneyStep
<1>4. ASSUME NEW out \in AdminBookingOutcomes, ResolveAdminBooking(out, w)
      PROVE  MoneyStep /\ Starts
  <2> DEFINE o == ReconcileReserved(BeginAdminResolution(AdminBooking, out, "none"), out)
             reserve == ~Established(o) /\ o.stage # "FINANCIAL_EFFECT_RESERVED"
  <2>1. \E pc \in {"finalize", "settle", "cancel_read"} : Spawn(w, AdminBooking, out, pc)
    BY <1>4 DEF ResolveAdminBooking
  <2>2. reserve => AdminBookingOutcomeAllowed(out)
    BY <1>4 DEF ResolveAdminBooking, AdminBookingResolutionAllowed
  <2>3. /\ status' = IF reserve THEN "UNDER_REVIEW" ELSE status
        /\ before' = IF reserve THEN status ELSE before
        /\ UNCHANGED <<pay, queue, completedService, ledger>>
    BY <1>4 DEF ResolveAdminBooking
  <2> HIDE DEF reserve
  <2>4. CASE reserve
    <3>1. status \in Resumable
      BY <2>2, <2>4 DEF AdminBookingOutcomeAllowed, Resumable
    <3>2. status \notin Terminal
      BY <3>1 DEF Terminal, Resumable
    <3>3. Continue
      BY <2>3, <2>4, <3>1, <3>2, OpenFacts DEF Continue, MoneyInv, SettledConsistently, Terminal
    <3>4. QED
      BY <2>1, <3>3 DEF MoneyStep
  <2>5. CASE ~reserve
    <3>1. Keep
      BY <2>3, <2>5 DEF Keep
    <3>2. QED
      BY <2>1, <3>1 DEF MoneyStep
  <2>6. QED
    BY <2>4, <2>5
<1>5. MoneyStep /\ Starts
  BY <1>1, <1>2, <1>3, <1>4 DEF AdminDecision
<1>6. QED
  BY <1>a, <1>5

\* Moving a request in flight out of the refund, or within it once it has
\* seen a held payment.
LEMMA MoveInv ==
    ASSUME TypeOK, WorkerInv, MoneyStep, NEW w \in Workers
    PROVE  /\ Done(w) => WorkerInv'
           /\ Throw(w) => WorkerInv'
           /\ \A pc : pc \notin RefundPCs \cup {"cancel_tx"} /\ Goto(w, pc) => WorkerInv'
           /\ \A pc : worker[w].held /\ Goto(w, pc) => WorkerInv'
<1>1. Done(w) => WorkerInv'
  <2>1. Idle.pc = "idle" /\ "idle" \notin RefundPCs \cup {"cancel_tx"}
    BY DEF Idle, RefundPCs
  <2>2. QED
    BY <2>1, WorkerInvStep DEF Done
<1>2. ASSUME NEW pc, Goto(w, pc)
      PROVE  /\ worker' = [worker EXCEPT ![w] = [worker[w] EXCEPT !.pc = pc]]
             /\ [worker[w] EXCEPT !.pc = pc].pc = pc
             /\ [worker[w] EXCEPT !.pc = pc].held = worker[w].held
  BY <1>2 DEF Goto, TypeOK
<1>3. ASSUME NEW pc, pc \notin RefundPCs \cup {"cancel_tx"} \/ worker[w].held, Goto(w, pc)
      PROVE  WorkerInv'
  <2> DEFINE new == [worker[w] EXCEPT !.pc = pc]
  <2>1. worker' = [worker EXCEPT ![w] = new] /\ new.pc = pc /\ new.held = worker[w].held
    BY <1>2, <1>3
  <2> HIDE DEF new
  <2>2. QED
    BY <1>3, <2>1, WorkerInvStep
<1>4. Throw(w) => WorkerInv'
  <2>1. "fail" \notin RefundPCs \cup {"cancel_tx"}
    BY DEF RefundPCs
  <2>2. QED
    BY <1>1, <1>3, <2>1 DEF Throw
<1>5. QED
  BY <1>1, <1>3, <1>4

\* What the steps of a request in flight do to the money.
LEMMA WorkerMoney ==
    ASSUME TypeOK, MoneyInv, WorkerInv, NEW w \in Workers, WorkerStep(w) \/ Outage(w)
    PROVE  MoneyStep /\ WorkerInv'
<1>a. Keep => MoneyStep
  BY DEF MoneyStep
<1>b. \A pc \in {"settle", "cancel_read", "mark", "immediate_final", "finalize", "fail"} :
         pc \notin RefundPCs \cup {"cancel_tx"}
  BY DEF RefundPCs
<1>c. worker[w].pc \in RefundPCs => worker[w].held
  BY DEF WorkerInv
<1>d. MoneyStep => /\ Done(w) => WorkerInv'
                   /\ Throw(w) => WorkerInv'
                   /\ \A pc : pc \notin RefundPCs \cup {"cancel_tx"} /\ Goto(w, pc) => WorkerInv'
                   /\ \A pc : worker[w].held /\ Goto(w, pc) => WorkerInv'
  BY MoveInv
<1>e. status \notin Terminal => /\ completedService = FALSE /\ ledger = {}
                                /\ pay \in IF IsCash THEN {"UNPAID"} ELSE {"PAID_HELD", "FROZEN_HELD"}
  BY OpenFacts
<1> USE DEF moneyVars, bookingVars, caseVars
<1>1. CASE Reserve(w)
  <2> DEFINE hold == /\ status = "AWAITING_CONFIRMATION"
                     /\ status' = "UNDER_REVIEW" /\ before' = "AWAITING_CONFIRMATION"
  <2>1. /\ hold \/ UNCHANGED <<status, before>>
        /\ UNCHANGED <<pay, queue, completedService, ledger>>
    BY <1>1 DEF Reserve, StepOrThrow
  <2>2. ASSUME hold PROVE MoneyStep
    BY <2>1, <2>2, <1>e DEF MoneyStep, Continue, MoneyInv, SettledConsistently, Terminal, Resumable
  <2>3. ASSUME UNCHANGED <<status, before>> PROVE MoneyStep
    BY <1>a, <2>1, <2>3 DEF Keep
  <2>4. Throw(w) \/ \E pc \in {"settle", "cancel_read"} : Goto(w, pc)
    BY <1>1 DEF Reserve, StepOrThrow
  <2>5. MoneyStep
    BY <2>1, <2>2, <2>3
  <2>6. QED
    BY <1>b, <1>d, <2>4, <2>5
<1>2. CASE CancelRead(w)
  <2>1. Keep
    BY <1>2 DEF CancelRead, StepOrThrow, Keep
  <2>2. CASE Throw(w)
    BY <1>a, <1>d, <2>1, <2>2
  <2>3. CASE ~Throw(w)
    <3> DEFINE held == pay \in Held
               new == [worker[w] EXCEPT !.held = held, !.pc = IF held THEN "refund_read" ELSE "cancel_tx"]
    <3>1. worker' = [worker EXCEPT ![w].held = held, ![w].pc = IF held THEN "refund_read" ELSE "cancel_tx"]
      BY <1>2, <2>3 DEF CancelRead, StepOrThrow
    <3>2. worker' = [worker EXCEPT ![w] = new]
      BY <3>1 DEF TypeOK
    <3>3. /\ new.held = held
          /\ new.pc = IF held THEN "refund_read" ELSE "cancel_tx"
      BY DEF TypeOK
    <3>4. status # "COMPLETED"
      BY <1>2, <2>3 DEF CancelRead, StepOrThrow
    <3>5. ~held /\ ~IsCash => status = "CANCELED"
      BY <1>e, <3>4 DEF Held, Terminal
    <3>6. status' = status
      BY <2>1 DEF Keep
    <3> HIDE DEF new, held
    <3>7. /\ new.pc \in RefundPCs => new.held
          /\ (new.pc = "cancel_tx" /\ ~new.held /\ ~IsCash) => status' = "CANCELED"
      BY <3>3, <3>5, <3>6 DEF RefundPCs
    <3>8. QED
      BY <1>a, <2>1, <3>2, <3>7, WorkerInvStep
  <2>4. QED
    BY <2>2, <2>3
<1>3. CASE RefundRead(w)
  <2>1. Keep
    BY <1>3 DEF RefundRead, StepOrThrow, Keep
  <2>2. worker[w].held
    BY <1>3, <1>c DEF RefundRead, At, RefundPCs
  <2>3. Throw(w) \/ \E pc : Goto(w, pc)
    BY <1>3 DEF RefundRead, StepOrThrow
  <2>4. QED
    BY <1>a, <1>d, <2>1, <2>2, <2>3
<1>4. CASE RefundReserve(w)
  <2>1. Keep
    BY <1>4 DEF RefundReserve, StepOrThrow, Keep
  <2>2. worker[w].held
    BY <1>4, <1>c DEF RefundReserve, At, RefundPCs
  <2>3. CASE Throw(w)
    BY <1>a, <1>d, <2>1, <2>3
  <2>4. CASE ~Throw(w)
    <3> DEFINE new == [worker[w] EXCEPT !.resumed = refund.ref,
                                        !.pc = IF refund.ref THEN "refund_final" ELSE "refund_gateway"]
    <3>1. worker' = [worker EXCEPT ![w].resumed = refund.ref,
                                   ![w].pc = IF refund.ref THEN "refund_final" ELSE "refund_gateway"]
      BY <1>4, <2>4 DEF RefundReserve, StepOrThrow
    <3>2. worker' = [worker EXCEPT ![w] = new]
      BY <3>1 DEF TypeOK
    <3>3. new.held = worker[w].held
      BY DEF TypeOK
    <3> HIDE DEF new
    <3>4. QED
      BY <1>a, <2>1, <2>2, <3>2, <3>3, WorkerInvStep
  <2>5. QED
    BY <2>3, <2>4
<1>5. CASE RefundGateway(w)
  <2>1. Keep /\ worker[w].held /\ \E pc : Goto(w, pc)
    BY <1>5, <1>c DEF RefundGateway, Keep, At, RefundPCs
  <2>2. QED
    BY <1>a, <1>d, <2>1
<1>6. CASE RefundFailed(w)
  <2>1. Keep /\ Throw(w)
    BY <1>6 DEF RefundFailed, Keep
  <2>2. QED
    BY <1>a, <1>d, <2>1
<1>7. CASE RefundFinal(w)
  <2> DEFINE Booked == /\ status' = "CANCELED" /\ pay' = "REFUNDED" /\ before' = "none"
                       /\ queue' = [status |-> "CANCELLED", pay |-> "REFUNDED"]
                       /\ ledger' = ledger \cup {"REFUND"}
                       /\ UNCHANGED completedService /\ pay \in Held
  <2>1. Keep \/ Booked
    BY <1>7 DEF RefundFinal, StepOrThrow, Keep
  <2>2. ASSUME Booked PROVE MoneyStep
    <3>1. ~IsCash /\ status \notin Terminal
      BY <2>2, HeldFacts
    <3>2. Return
      BY <1>e, <2>2, <3>1 DEF Return
    <3>3. QED
      BY <3>2 DEF MoneyStep
  <2>3. worker[w].held
    BY <1>7, <1>c DEF RefundFinal, At, RefundPCs
  <2>4. Throw(w) \/ \E pc : Goto(w, pc)
    BY <1>7 DEF RefundFinal, StepOrThrow
  <2>5. MoneyStep
    BY <1>a, <2>1, <2>2
  <2>6. QED
    BY <1>d, <2>3, <2>4, <2>5
<1>8. CASE CancelTx(w)
  <2> DEFINE cancels == ~worker[w].held /\ status # "CANCELED"
             Closed == /\ status # "COMPLETED"
                       /\ status' = "CANCELED" /\ before' = "none"
                       /\ queue' = IF IsCash THEN queue ELSE [queue EXCEPT !.status = "CANCELLED"]
                       /\ UNCHANGED <<pay, completedService, ledger>>
  <2>1. Keep \/ (cancels /\ Closed)
    BY <1>8 DEF CancelTx, StepOrThrow, Keep
  <2>2. ASSUME cancels, Closed PROVE MoneyStep
    <3>1. IsCash
      BY <1>8, <2>2 DEF CancelTx, At, WorkerInv
    <3>2. status \notin Terminal
      BY <2>2 DEF Terminal
    <3>3. Return
      BY <1>e, <2>2, <3>1, <3>2 DEF Return, MoneyInv
    <3>4. QED
      BY <3>3 DEF MoneyStep
  <2>3. Throw(w) \/ \E pc \in {"immediate_final", "mark"} : Goto(w, pc)
    BY <1>8 DEF CancelTx, StepOrThrow
  <2>4. MoneyStep
    BY <1>a, <2>1, <2>2
  <2>5. QED
    BY <1>b, <1>d, <2>3, <2>4
<1>9. CASE ImmediateFinal(w) \/ Fail(w)
  <2>1. Keep /\ Done(w)
    BY <1>9 DEF ImmediateFinal, Fail, Keep
  <2>2. QED
    BY <1>a, <1>d, <2>1
<1>10. CASE SettleByAdmin(w)
  <2>1. Keep \/ (SettleAllowed("ADMIN") /\ Settle)
    BY <1>10 DEF SettleByAdmin, StepOrThrow, Keep
  <2>2. MoneyStep
    BY <1>a, <2>1, SettleReleases DEF MoneyStep
  <2>3. Throw(w) \/ Goto(w, "mark")
    BY <1>10 DEF SettleByAdmin, StepOrThrow
  <2>4. QED
    BY <1>b, <1>d, <2>2, <2>3
<1>11. CASE Mark(w)
  <2>1. Keep /\ Goto(w, "finalize")
    BY <1>11 DEF Mark, Keep
  <2>2. QED
    BY <1>a, <1>b, <1>d, <2>1
<1>12. CASE Finalize(w)
  <2>1. UNCHANGED <<completedService, ledger>>
    BY <1>12 DEF Finalize
  <2>2. UNCHANGED bookingVars \/ \E requests, reports : RestoreBooking(requests, reports)
    BY <1>12 DEF Finalize, FinalizeRequest, FinalizeReport, FinalizeEscalation
  <2>3. MoneyStep
    BY <1>a, <2>1, <2>2, RestoreContinues DEF Keep
  <2>4. Done(w) \/ Goto(w, "fail")
    BY <1>12 DEF Finalize
  <2>5. QED
    BY <1>b, <1>d, <2>3, <2>4
<1>13. CASE Outage(w)
  <2>1. Keep
    BY <1>13 DEF Outage, Crash, IntentLookupFails, RefundGatewayFails, Keep
  <2>2. Done(w) \/ Throw(w) \/ (worker[w].held /\ Goto(w, "refund_failed"))
    BY <1>13, <1>c DEF Outage, Crash, IntentLookupFails, RefundGatewayFails, At, RefundPCs
  <2>3. QED
    BY <1>a, <1>d, <2>1, <2>2
<1>14. QED
  BY <1>1, <1>2, <1>3, <1>4, <1>5, <1>6, <1>7, <1>8, <1>9, <1>10, <1>11, <1>12, <1>13 DEF WorkerStep

\* The invariant is inductive, and every step is one of the four.
LEMMA NextMoney ==
    ASSUME TypeOK, MoneyInv, WorkerInv, [Next]_vars
    PROVE  MoneyStep /\ MoneyInv' /\ WorkerInv'
<1>1. MoneyStep /\ WorkerInv'
  <2>1. ASSUME Keep, UNCHANGED worker PROVE MoneyStep /\ WorkerInv'
    BY <2>1 DEF Keep, MoneyStep, WorkerInv
  <2>2. ASSUME NEW p \in Participants, Ban(p) \/ LiftBan(p) PROVE MoneyStep /\ WorkerInv'
    BY <2>1, <2>2 DEF Ban, LiftBan, Keep, bookingVars, moneyVars
  <2>3. ASSUME NEW w \in Workers, AdminDecision(w) \/ WorkerStep(w) \/ Outage(w)
        PROVE  MoneyStep /\ WorkerInv'
    BY <2>3, AdminMoney, WorkerMoney
  <2>4. CASE ParticipantStep
    <3>1. MoneyStep /\ UNCHANGED worker
      BY <2>4, ParticipantMoney
    <3>2. QED
      BY <3>1, CanceledStays DEF WorkerInv
  <2>5. CASE UNCHANGED vars
    BY <2>1, <2>5 DEF vars, bookingVars, moneyVars, Keep
  <2>6. QED
    BY <2>2, <2>3, <2>4, <2>5, CancellationMoney DEF Next
<1>2. QED
  BY <1>1, MoneyStepPreserves

\* The three invariants together.
LEMMA MoneyInvariant == Spec => [](TypeOK /\ MoneyInv /\ WorkerInv)
<1>1. Init => MoneyInv /\ WorkerInv
  BY InitMoney
<1>2. TypeOK /\ MoneyInv /\ WorkerInv /\ [Next]_vars => MoneyInv' /\ WorkerInv'
  BY NextMoney
<1>3. QED
  BY <1>1, <1>2, TypeCorrect, PTL DEF Spec

\* However refunds, settlements, retries and crashes interleave, the status,
\* the payment, the queue row, the CompletedService and the ledger of a
\* booking agree (refundBookingPayment, settleCompletedBooking,
\* performImmediateCancel, restoreBookingIfNoBlockingCases).
THEOREM SettlesConsistently == Spec => []SettledConsistently
<1>1. MoneyInv => SettledConsistently
  BY DEF MoneyInv
<1>2. QED
  BY <1>1, MoneyInvariant, PTL

TerminalStays ==
    [][(status \in Terminal) =>
          /\ status' = status /\ pay' = pay
          /\ ledger' = ledger /\ completedService' = completedService]_vars

\* A settled booking is never settled again, reopened or rewritten by a
\* late step of another request.
THEOREM SettledForGood == Spec => TerminalStays
<1>1. TypeOK /\ MoneyInv /\ WorkerInv /\ [Next]_vars =>
        [(status \in Terminal) => /\ status' = status /\ pay' = pay
                                  /\ ledger' = ledger /\ completedService' = completedService]_vars
  BY NextMoney DEF MoneyStep, Keep, Continue, Release, Return
<1>2. QED
  BY <1>1, MoneyInvariant, PTL DEF Spec, TerminalStays

\* The booking as Settlement sees it starts as Settlement does.
LEMMA InitRefines == Init => Promise!Init
<1> SUFFICES ASSUME Init PROVE Promise!Init
  OBVIOUS
<1>1. status = "ACCEPTED" /\ pay = IF IsCash THEN "UNPAID" ELSE "PAID_HELD"
  BY DEF Init
<1>2. Phase = "open"
  BY <1>1 DEF Phase
<1>3. Money = IF IsCash THEN "due" ELSE "held"
  BY <1>1 DEF Money
<1>4. ledger = {} /\ completedService = FALSE
  BY DEF Init
<1>5. QED
  BY <1>2, <1>3, <1>4 DEF Promise!Init

\* Every step is a step of Settlement or leaves its variables alone.
LEMMA StepRefines ==
    ASSUME TypeOK, MoneyInv, WorkerInv, [Next]_vars
    PROVE  [Promise!Complete \/ Promise!Cancel]_(Promise!settlementVars)
<1>1. MoneyStep
  BY NextMoney
<1>2. CASE Keep
  BY <1>2 DEF Keep, Promise!settlementVars, Phase, Money
<1>3. CASE Continue
  BY <1>3, OpenFacts DEF Continue, Promise!settlementVars, Phase, Money, Terminal
<1>4. CASE Release
  BY <1>4 DEF Release, Promise!Complete, Phase, Money, Terminal
<1>5. CASE Return
  BY <1>5 DEF Return, Promise!Cancel, Phase, Money, Terminal
<1>6. QED
  BY <1>1, <1>2, <1>3, <1>4, <1>5 DEF MoneyStep

\* The booking with all its cases, retries, outages and crashes implements
\* Settlement: it ends once, and the money goes one way in that very step.
THEOREM SettlementImplemented == Spec => ImplementsSettlement
<1>1. TypeOK /\ MoneyInv /\ WorkerInv /\ [Next]_vars
        => [Promise!Complete \/ Promise!Cancel]_(Promise!settlementVars)
  BY StepRefines
<1>2. QED
  BY <1>1, InitRefines, MoneyInvariant, PTL DEF Spec, ImplementsSettlement, Promise!Spec

-----------------------------------------------------------------------------
(* Persisted decisions only move forward                                    *)

Forward(o, n) ==
    o.status # "none" =>
        /\ n.outcome = o.outcome /\ n.penalty = o.penalty
        /\ StageOrder[n.stage] >= StageOrder[o.stage]
        /\ o.status = "COMPLETED" => n = o

\* The ranks the code compares stages by.
LEMMA Ranks == \A stage \in DOMAIN StageOrder : StageOrder[stage] \in 0..4
BY DEF StageOrder

\* Marking a stage, marking a failure and reconciling never undo anything.
LEMMA WritersForward ==
    ASSUME NEW o \in OpType
    PROVE  /\ Forward(o, o)
           /\ \A stage \in DOMAIN StageOrder : Forward(o, MarkStage(o, stage))
           /\ Forward(o, MarkFailed(o))
           /\ o.status # "COMPLETED" => Forward(o, Finalized(o))
           /\ \A outcome : Forward(o, ReconcileReserved(o, outcome))
<1>0. StageOrder[o.stage] \in 0..4
  BY Ranks DEF OpType
<1>1. Forward(o, o)
  BY <1>0 DEF Forward
<1>2. ASSUME NEW stage \in DOMAIN StageOrder PROVE Forward(o, MarkStage(o, stage))
  <2>1. StageOrder[stage] \in 0..4
    BY Ranks
  <2>2. CASE o.status = "COMPLETED" \/ StageOrder[stage] < StageOrder[o.stage]
    BY <1>1, <2>2 DEF MarkStage
  <2>3. CASE ~(o.status = "COMPLETED" \/ StageOrder[stage] < StageOrder[o.stage])
    <3>1. /\ MarkStage(o, stage).outcome = o.outcome /\ MarkStage(o, stage).penalty = o.penalty
          /\ MarkStage(o, stage).stage = stage
      BY <2>3 DEF MarkStage, OpType
    <3>2. QED
      BY <1>0, <2>1, <2>3, <3>1 DEF Forward
  <2>4. QED
    BY <2>2, <2>3
<1>3. Forward(o, MarkFailed(o))
  <2>1. o.status = "COMPLETED" => MarkFailed(o) = o
    BY DEF MarkFailed
  <2>2. /\ MarkFailed(o).outcome = o.outcome /\ MarkFailed(o).penalty = o.penalty
        /\ MarkFailed(o).stage = o.stage
    BY DEF MarkFailed, OpType
  <2>3. QED
    BY <1>0, <2>1, <2>2 DEF Forward
<1>4. o.status # "COMPLETED" => Forward(o, Finalized(o))
  <2>1. /\ Finalized(o).outcome = o.outcome /\ Finalized(o).penalty = o.penalty
        /\ Finalized(o).stage = "CASE_FINALIZED"
    BY DEF Finalized, OpType
  <2>2. StageOrder["CASE_FINALIZED"] = 4
    BY DEF StageOrder
  <2>3. QED
    BY <1>0, <2>1, <2>2 DEF Forward
<1>5. \A outcome : Forward(o, ReconcileReserved(o, outcome))
  <2>1. Forward(o, MarkStage(o, "FINANCIAL_EFFECT_ESTABLISHED"))
    BY <1>2, Stages
  <2>2. QED
    BY <1>1, <2>1 DEF ReconcileReserved
<1>6. QED
  BY <1>1, <1>2, <1>3, <1>4, <1>5

\* Claiming a decision, or claiming it again on a retry, keeps what was
\* decided before.
LEMMA BeginForward ==
    ASSUME TypeOK, NEW c \in Cases, NEW outcome \in Outcomes, NEW penalty \in {"none", "ban"},
           MayBegin(c, outcome, penalty)
    PROVE  LET b == BeginAdminResolution(c, outcome, penalty)
           IN  /\ Forward(op[c], b)
               /\ Forward(op[c], ReconcileReserved(b, outcome))
               /\ Forward(op[c], MarkStage(ReconcileReserved(b, outcome), "FINANCIAL_EFFECT_RESERVED"))
<1> DEFINE b == BeginAdminResolution(c, outcome, penalty)
           r == ReconcileReserved(b, outcome)
           m == MarkStage(r, "FINANCIAL_EFFECT_RESERVED")
<1>1. op[c] \in OpType /\ b \in OpType
  BY BeginType DEF TypeOK, OpType
<1>2. r \in OpType /\ m \in OpType
  BY <1>1, OperationTypes, Stages
<1>3. op[c].status # "none" =>
         /\ b.outcome = op[c].outcome /\ b.penalty = op[c].penalty /\ b.stage = op[c].stage
         /\ b.status # "none"
         /\ op[c].status = "COMPLETED" => b = op[c]
  BY <1>1 DEF BeginAdminResolution, OpType
<1>4. StageOrder[op[c].stage] \in 0..4 /\ StageOrder[b.stage] \in 0..4
      /\ StageOrder[r.stage] \in 0..4 /\ StageOrder[m.stage] \in 0..4
  BY <1>1, <1>2, Ranks DEF OpType
<1>5. Forward(b, r) /\ Forward(r, m)
  BY <1>1, <1>2, WritersForward, Stages
<1>6. b.status # "none" => r.status # "none"
  BY <1>1 DEF ReconcileReserved, MarkStage, OpType
<1> HIDE DEF b, r, m
<1>7. Forward(op[c], b)
  BY <1>3, <1>4 DEF Forward
<1>8. Forward(op[c], r)
  BY <1>3, <1>4, <1>5, <1>7 DEF Forward
<1>9. Forward(op[c], m)
  BY <1>3, <1>4, <1>5, <1>6, <1>8 DEF Forward
<1>10. QED
  BY <1>7, <1>8, <1>9 DEF b, r, m

\* Every step moves every decision forward.
LEMMA NextForward ==
    ASSUME TypeOK, [Next]_vars
    PROVE  \A c \in Cases : Forward(op[c], op'[c])
<1> DEFINE AllForward == \A c \in Cases : Forward(op[c], op'[c])
<1>a. op \in [Cases -> OpType]
  BY DEF TypeOK, OpType
<1>b. UNCHANGED op => AllForward
  BY <1>a, WritersForward
<1>c. ASSUME NEW c, NEW n, op' = [op EXCEPT ![c] = n], c \in Cases => Forward(op[c], n)
      PROVE  AllForward
  <2>1. \A d \in Cases : op'[d] = IF d = c THEN n ELSE op[d]
    BY <1>a, <1>c
  <2>2. QED
    BY <1>a, <1>c, <2>1, WritersForward
<1>d. /\ Requests \subseteq Cases /\ Reports \subseteq Cases /\ Escalations \subseteq Cases
      /\ AdminBooking \in Cases
  BY DEF Cases
<1>e. /\ CancellationOutcomes \cup ReportOutcomes \cup EscalationOutcomes \cup AdminBookingOutcomes \subseteq Outcomes
      /\ "PARTICIPANT_APPROVE" \in Outcomes
  BY DEF Outcomes, FinancialOutcomes, CancelOutcomes, ReleaseOutcome, CancellationOutcomes,
         ReportOutcomes, EscalationOutcomes, AdminBookingOutcomes
<1>1. ASSUME ParticipantStep PROVE AllForward
  BY <1>1, <1>b DEF ParticipantStep, Start, MarkJobComplete, ConfirmCompletion, DisputeJob,
                    CreateSafetyReport, CreateCompletionEscalation
<1>2. ASSUME CancellationStep PROVE AllForward
  <2>1. ASSUME NEW r \in Requests, NEW w \in Workers, ApproveCancellation(r, w) PROVE AllForward
    <3>1. MayBegin(r, "PARTICIPANT_APPROVE", "none")
      BY <2>1 DEF ApproveCancellation
    <3>2. op' = [op EXCEPT ![r] = BeginAdminResolution(r, "PARTICIPANT_APPROVE", "none")]
      BY <2>1 DEF ApproveCancellation
    <3>3. QED
      BY <1>c, <1>d, <1>e, <3>1, <3>2, BeginForward
  <2>2. QED
    BY <1>2, <1>b, <2>1 DEF CancellationStep, RequestCancellation, RequestImmediateCancellation,
          RetryImmediateCancellation, DeclineCancellation, EscalateCancellation
<1>3. ASSUME NEW w \in Workers, AdminDecision(w) PROVE AllForward
  <2>1. ASSUME NEW r \in Requests, NEW out \in CancellationOutcomes, AdminResolveCancellation(r, out, w)
        PROVE  AllForward
    <3>1. MayBegin(r, out, "none")
      BY <2>1 DEF AdminResolveCancellation, AdminCancellationAllowed
    <3>2. op' = [op EXCEPT ![r] = BeginAdminResolution(r, out, "none")]
      BY <2>1 DEF AdminResolveCancellation
    <3>3. QED
      BY <1>c, <1>d, <1>e, <3>1, <3>2, BeginForward
  <2>2. ASSUME NEW x \in Reports, NEW out \in ReportOutcomes, NEW penalty \in {"none", "ban"},
               ResolveAdminReport(x, out, penalty, w)
        PROVE  AllForward
    <3>1. MayBegin(x, out, penalty)
      BY <2>2 DEF ResolveAdminReport, ReportResolutionAllowed
    <3>2. op' = [op EXCEPT ![x] = ReconcileReserved(BeginAdminResolution(x, out, penalty), out)]
      BY <2>2 DEF ResolveAdminReport
    <3>3. QED
      BY <1>c, <1>d, <1>e, <3>1, <3>2, BeginForward
  <2>3. ASSUME NEW e \in Escalations, NEW out \in EscalationOutcomes, ResolveCompletionEscalation(e, out, w)
        PROVE  AllForward
    <3>1. MayBegin(e, out, "none")
      BY <2>3 DEF ResolveCompletionEscalation, EscalationResolutionAllowed
    <3>2. op' = [op EXCEPT ![e] = ReconcileReserved(BeginAdminResolution(e, out, "none"), out)]
      BY <2>3 DEF ResolveCompletionEscalation
    <3>3. QED
      BY <1>c, <1>d, <1>e, <3>1, <3>2, BeginForward
  <2>4. ASSUME NEW out \in AdminBookingOutcomes, ResolveAdminBooking(out, w)
        PROVE  AllForward
    <3> DEFINE o == ReconcileReserved(BeginAdminResolution(AdminBooking, out, "none"), out)
    <3>1. MayBegin(AdminBooking, out, "none")
      BY <2>4 DEF ResolveAdminBooking, AdminBookingResolutionAllowed
    <3>2. \/ op' = [op EXCEPT ![AdminBooking] = o]
          \/ op' = [op EXCEPT ![AdminBooking] = MarkStage(o, "FINANCIAL_EFFECT_RESERVED")]
      BY <2>4 DEF ResolveAdminBooking
    <3>3. Forward(op[AdminBooking], o) /\ Forward(op[AdminBooking], MarkStage(o, "FINANCIAL_EFFECT_RESERVED"))
      BY <1>d, <1>e, <3>1, BeginForward
    <3> HIDE DEF o
    <3>4. QED
      BY <1>c, <3>2, <3>3
  <2>5. QED
    BY <1>3, <2>1, <2>2, <2>3, <2>4 DEF AdminDecision
<1>4. ASSUME NEW w \in Workers, WorkerStep(w) \/ Outage(w) PROVE AllForward
  <2> DEFINE c == worker[w].case
  <2>1. \/ UNCHANGED op
        \/ \E stage \in DOMAIN StageOrder : op' = [op EXCEPT ![c] = MarkStage(op[c], stage)]
        \/ op' = [op EXCEPT ![c] = MarkFailed(op[c])]
        \/ op[c].status # "COMPLETED" /\ op' = [op EXCEPT ![c] = Finalized(op[c])]
    BY <1>4, Stages
    DEF WorkerStep, Outage, Crash, IntentLookupFails, RefundGatewayFails, Reserve, CancelRead, RefundRead,
        RefundReserve, RefundGateway, RefundFailed, RefundFinal, CancelTx, ImmediateFinal,
        SettleByAdmin, Mark, Fail, Finalize, StepOrThrow
  <2>2. c \in Cases => op[c] \in OpType
    BY <1>a
  <2> HIDE DEF c
  <2>3. QED
    BY <1>b, <1>c, <2>1, <2>2, WritersForward
<1>5. ASSUME NEW p \in Participants, Ban(p) \/ LiftBan(p) PROVE AllForward
  BY <1>5, <1>b DEF Ban, LiftBan
<1>6. QED
  BY <1>b, <1>1, <1>2, <1>3, <1>4, <1>5 DEF Next, vars

\* A persisted decision never changes its outcome or penalty, its stage never
\* goes back, and once completed it is final, even when a stale request marks
\* a stage or a failure late (markAdminResolutionStage,
\* markAdminResolutionFailed).
THEOREM DecisionsMoveForward == Spec => DecisionMonotone
<1>1. TypeOK /\ [Next]_vars => [\A c \in Cases : op[c].status # "none" =>
          /\ op'[c].outcome = op[c].outcome /\ op'[c].penalty = op[c].penalty
          /\ StageOrder[op'[c].stage] >= StageOrder[op[c].stage]
          /\ op[c].status = "COMPLETED" => op'[c] = op[c]]_vars
  BY NextForward DEF Forward
<1>2. QED
  BY <1>1, TypeCorrect, PTL DEF Spec, DecisionMonotone
=============================================================================
