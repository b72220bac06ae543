--------------------------- MODULE DecisionProofs ----------------------------
(***************************************************************************)
(* Theorems about the decisions in BookingCases: which reservations and    *)
(* open cases exclude each other, and what a paused booking waits for.     *)
(* For any sets of concurrent API requests, cancellation requests, reports *)
(* and escalations, and either payment method.                             *)
(***************************************************************************)
EXTENDS BookingCasesProofs

-----------------------------------------------------------------------------
(* The inductive invariant                                                  *)
(*                                                                          *)
(* The services never check all of it at once.  A claim looks at the other  *)
(* cases, the reservation that follows in a later transaction looks again,  *)
(* and new cases look for reservations; that this suffices depends on which *)
(* cases pause a booking and on what the requests in flight have reserved.  *)

Paused == status \in {"DISPUTED", "UNDER_REVIEW"}

\* The booking has ended as the outcome says; its money then did too (MoneyInv).
Ends(outcome, s) ==
    /\ outcome \in CancelOutcomes => s = "CANCELED"
    /\ outcome = ReleaseOutcome => s = "COMPLETED"

Reached(outcome) == Ends(outcome, status)

\* A booking remembers a status exactly while it is paused, and work that was
\* never started is neither done nor paused while under way.
BookingInv ==
    /\ IF Paused THEN before \in Resumable ELSE before = "none"
    /\ ~started => {status, before} \cap {"ONGOING", "AWAITING_CONFIRMATION", "COMPLETED"} = {}

\* A cancellation before the start holds the booking until it is cancelled.
ImmediateInv ==
    \A r \in Requests : request[r].immediate =>
        /\ request[r].report = "none" /\ request[r].status \in {"UNDER_REVIEW", "APPROVED", "RESOLVED"}
        /\ \/ status = "CANCELED"
           \/ request[r].status = "UNDER_REVIEW" /\ status = "UNDER_REVIEW" /\ ~started

\* A report that escalates a cancellation is decided with it, any other open
\* report pauses the booking, and so does its decision until the report closes.
ReportInv ==
    /\ \A r \in Requests : request[r].report # "none" =>
                              report[request[r].report].type = "CANCELLATION_ESCALATION"
    /\ \A x \in Reports :
          /\ report[x].status = "none" => report[x].type = "none" /\ op[x].status = "none"
          /\ report[x].type = "CANCELLATION_ESCALATION" => op[x].status = "none"
          /\ x \in ActiveReports /\ report[x].type # "CANCELLATION_ESCALATION" =>
                Paused \/ status \in Terminal
          /\ op[x].status \in {"PROCESSING", "FAILED_RETRYABLE"} => report[x].status = "UNDER_REVIEW"

\* The rows of the operations.
OpInv ==
    /\ \A c \in Cases :
          /\ op[c].status = "none" => op[c].stage = "CLAIMED"
          /\ op[c].stage = "CASE_FINALIZED" => op[c].status = "COMPLETED"
          /\ Reserved(op[c]) => op[c].outcome \in FinancialOutcomes
    /\ \A r \in Requests : op[r].status # "none" => op[r].outcome \in {"PARTICIPANT_APPROVE"} \cup CancellationOutcomes

Linked(c) == IF c \in Requests THEN {c, request[c].report} ELSE {c}

\* At most one decision is reserved, and beside its own no case is open.
ReservationInv ==
    /\ \A c, d \in Cases : Reserved(op[c]) /\ Reserved(op[d]) => c = d
    /\ \A c \in Cases : Reserved(op[c]) => NoOtherBlockingCases(Linked(c))

CancelPCs == {"cancel_read", "cancel_tx"} \cup RefundPCs

\* What a request in flight carries out is what its operation says, and from
\* the reservation on it is reserved, or was completed by another request.
FlightOK(k, ops, requests) ==
    k.pc # "idle" =>
        IF k.outcome = "IMMEDIATE"
        THEN /\ k.case \in Requests /\ requests[k.case].immediate
             /\ k.pc \in CancelPCs \cup {"immediate_final"}
        ELSE /\ k.case \in Cases /\ ops[k.case].status # "none" /\ ops[k.case].outcome = k.outcome
             /\ k.pc # "immediate_final"
             /\ k.pc = "reserve" => k.outcome \in FinancialOutcomes
             /\ k.pc \in CancelPCs => k.outcome \in CancelOutcomes
             /\ k.pc = "settle" => k.outcome = ReleaseOutcome
             /\ k.pc \in CancelPCs \cup {"settle", "mark"} =>
                   Reserved(ops[k.case]) \/ ops[k.case].status = "COMPLETED"

\* A report's decision that is about to be reserved finds the booking, in
\* status s and remembering b, still paused, for a release with the completion
\* it disputes, or its effect reached.
ClaimOK(k, ops, s, b) ==
    k.pc = "reserve" /\ k.case \in Reports /\ ops[k.case].status # "COMPLETED" =>
        \/ s \in {"DISPUTED", "UNDER_REVIEW"} /\ (k.outcome = ReleaseOutcome => b = "AWAITING_CONFIRMATION")
        \/ Ends(k.outcome, s)

FlightInv == \A w \in Workers : FlightOK(worker[w], op, request)
ClaimInv  == \A w \in Workers : ClaimOK(worker[w], op, status, before)

\* A completed decision has its effect.
ClosedInv == \A c \in Cases : op[c].status = "COMPLETED" => Reached(op[c].outcome)

\* A reserved decision on the booking, a report or an escalation keeps it paused.
ProtectedInv == \A c \in Cases \ Requests : Reserved(op[c]) => Paused \/ Reached(op[c].outcome)

\* Something will resume a paused booking.
Awaited == ActiveReports \cup ActiveRequests # {} \/ \E c \in Cases : Reserved(op[c])
AwaitedInv == Paused => Awaited

\* What the rows say, and what the requests in flight rely on.
RowsInv == /\ BookingInv /\ ImmediateInv /\ ReportInv /\ OpInv /\ ReservationInv
           /\ ClosedInv /\ ProtectedInv /\ AwaitedInv
DecisionInv == RowsInv /\ FlightInv /\ ClaimInv

\* Under a test key a refund is reserved before PayMongo is asked and stays so
\* until it is booked: it cannot fail in between.
RefundInv ==
    ~LiveKey =>
        /\ refund.status # "FAILED"
        /\ refund.ref => status = "CANCELED"
        /\ refund.ref <=> refund.status = "SUBMITTED"
        /\ refund.status = "PROCESSING" => status # "COMPLETED"
        /\ gateway \/ (\E w \in Workers : worker[w].pc \in {"refund_gateway", "refund_final"}) =>
              refund.status # "none"
        /\ \A w \in Workers : worker[w].pc # "refund_failed"

-----------------------------------------------------------------------------
(* What the operations' writers do to a reservation                         *)

RowInv(o) ==
    /\ o.status = "none" => o.stage = "CLAIMED"
    /\ o.stage = "CASE_FINALIZED" => o.status = "COMPLETED"

\* Marking a stage: a reservation is made by marking one of its stages, and kept
\* by marking any other.
LEMMA MarkReserves ==
    ASSUME NEW o \in OpType, o.status # "none", RowInv(o)
    PROVE  /\ \A stage \in {"DECISION_READY", "FINANCIAL_EFFECT_RESERVED", "FINANCIAL_EFFECT_ESTABLISHED"} :
                 /\ RowInv(MarkStage(o, stage)) /\ MarkStage(o, stage).outcome = o.outcome
                 /\ o.status = "COMPLETED" => MarkStage(o, stage) = o
                 /\ o.status # "COMPLETED" => MarkStage(o, stage).status \in {"PROCESSING", "FAILED_RETRYABLE"}
           /\ Reserved(MarkStage(o, "DECISION_READY")) <=> Reserved(o)
           /\ o.status # "COMPLETED" => Reserved(MarkStage(o, "FINANCIAL_EFFECT_RESERVED"))
           /\ Reserved(o) => Reserved(MarkStage(o, "FINANCIAL_EFFECT_ESTABLISHED"))
<1>1. /\ StageOrder["CLAIMED"] = 0 /\ StageOrder["DECISION_READY"] = 1
      /\ StageOrder["FINANCIAL_EFFECT_RESERVED"] = 2
      /\ StageOrder["FINANCIAL_EFFECT_ESTABLISHED"] = 3 /\ StageOrder["CASE_FINALIZED"] = 4
      /\ o.stage \in {"CLAIMED", "DECISION_READY", "FINANCIAL_EFFECT_RESERVED",
                      "FINANCIAL_EFFECT_ESTABLISHED", "CASE_FINALIZED"}
      /\ o.status \in {"PROCESSING", "FAILED_RETRYABLE", "COMPLETED"}
  BY Stages DEF StageOrder, OpType
<1>2. ASSUME NEW stage \in {"DECISION_READY", "FINANCIAL_EFFECT_RESERVED", "FINANCIAL_EFFECT_ESTABLISHED"},
             NEW n, n = [o EXCEPT !.stage = stage, !.status = "PROCESSING"]
      PROVE  n.stage = stage /\ n.status = "PROCESSING" /\ n.outcome = o.outcome
  BY <1>2 DEF OpType
<1>3. ASSUME NEW stage \in {"DECISION_READY", "FINANCIAL_EFFECT_RESERVED", "FINANCIAL_EFFECT_ESTABLISHED"},
             NEW n, n = MarkStage(o, stage)
      PROVE  \/ n = o /\ (o.status = "COMPLETED" \/ StageOrder[stage] < StageOrder[o.stage])
             \/ /\ n.stage = stage /\ n.status = "PROCESSING" /\ n.outcome = o.outcome
                /\ o.status # "COMPLETED" /\ ~(StageOrder[stage] < StageOrder[o.stage])
  BY <1>2, <1>3 DEF MarkStage
<1>4. QED
  BY <1>1, <1>3 DEF RowInv, Reserved

\* A claim makes no reservation, and finds the one that was made before.
LEMMA ClaimReserves ==
    ASSUME TypeOK, NEW c \in Cases, RowInv(op[c]), NEW outcome \in Outcomes, NEW penalty \in {"none", "ban"},
           op[c].status # "COMPLETED", MayBegin(c, outcome, penalty),
           NEW n, n = BeginAdminResolution(c, outcome, penalty)
                    \/ n = ReconcileReserved(BeginAdminResolution(c, outcome, penalty), outcome)
    PROVE  /\ n \in OpType /\ RowInv(n) /\ n.status = "PROCESSING" /\ n.outcome = outcome
           /\ Reserved(n) <=> Reserved(op[c])
           /\ Established(n) => Reserved(op[c])
<1> DEFINE b == BeginAdminResolution(c, outcome, penalty)
<1>1. op[c] \in OpType /\ b \in OpType
  BY BeginType DEF TypeOK, OpType
<1>2. /\ b.status = "PROCESSING" /\ b.outcome = outcome
      /\ b.stage = IF op[c].status = "none" THEN "CLAIMED" ELSE op[c].stage
  BY <1>1 DEF BeginAdminResolution, MayBegin, OpType
<1>3. RowInv(b) /\ (Reserved(b) <=> Reserved(op[c])) /\ (Established(b) => Reserved(op[c]))
  BY <1>1, <1>2 DEF RowInv, Reserved, Established, OpType
<1> HIDE DEF b
<1>4. n = b \/ (b.stage = "FINANCIAL_EFFECT_RESERVED" /\ n = MarkStage(b, "FINANCIAL_EFFECT_ESTABLISHED"))
  BY DEF ReconcileReserved, b
<1>5. CASE n = b
  BY <1>1, <1>2, <1>3, <1>5
<1>6. CASE b.stage = "FINANCIAL_EFFECT_RESERVED" /\ n = MarkStage(b, "FINANCIAL_EFFECT_ESTABLISHED")
  <2>1. n = [b EXCEPT !.stage = "FINANCIAL_EFFECT_ESTABLISHED", !.status = "PROCESSING"]
    BY <1>2, <1>6 DEF MarkStage, StageOrder
  <2>2. n \in OpType
    BY <1>1, <1>6, OperationTypes, Stages
  <2>3. n.status = "PROCESSING" /\ n.stage = "FINANCIAL_EFFECT_ESTABLISHED" /\ n.outcome = outcome
    BY <1>1, <1>2, <2>1 DEF OpType
  <2>4. Reserved(b) /\ Reserved(n) /\ RowInv(n)
    BY <1>2, <1>6, <2>3 DEF Reserved, RowInv
  <2>5. QED
    BY <1>3, <2>2, <2>3, <2>4
<1>7. QED
  BY <1>4, <1>5, <1>6

-----------------------------------------------------------------------------
(* What a step may do to the status, the open cases and the reservations    *)

Stay    == UNCHANGED <<status, before, started>>
Advance == /\ before' = before
           /\ \/ status = "ACCEPTED" /\ status' = "ONGOING" /\ started' = TRUE
              \/ status = "ONGOING" /\ status' = "AWAITING_CONFIRMATION" /\ started' = started
Pause   == /\ status \in Resumable /\ status' \in {"DISPUTED", "UNDER_REVIEW"}
           /\ before' = status /\ started' = started
Resume  == /\ Paused /\ before # "none"
           /\ status' = before /\ before' = "none" /\ started' = started
Settles == /\ status = "AWAITING_CONFIRMATION" \/ (Paused /\ before = "AWAITING_CONFIRMATION")
           /\ status' = "COMPLETED" /\ before' = "none" /\ started' = started
Cancels == /\ status \notin Terminal
           /\ status' = "CANCELED" /\ before' = "none" /\ started' = started

\* No step opens a case or makes a reservation, the others resume the booking
\* only when nothing holds it, and end it only on behalf of a decision.
Warranted ==
    \/ Stay \/ Advance
    \/ /\ Resume
       /\ ActiveReports' = {} /\ ActiveRequests' = {} /\ \A c \in Cases \ Requests : ~Reserved(op[c])
    \/ /\ Settles
       /\ status = "AWAITING_CONFIRMATION" \/ \E c \in Cases : Reserved(op[c]) /\ op[c].outcome = ReleaseOutcome
    \/ /\ Cancels
       /\ \/ \E c \in Cases : Reserved(op[c]) /\ op[c].outcome \in CancelOutcomes
          \/ \E r \in Requests : request[r].immediate

Calm ==
    /\ ActiveReports' \subseteq ActiveReports /\ ActiveRequests' \subseteq ActiveRequests
    /\ ActiveEscalations' \subseteq ActiveEscalations
    /\ \A r \in Requests :
          /\ request'[r].report = request[r].report /\ request'[r].immediate = request[r].immediate
          /\ request[r].immediate => \/ request'[r].status = request[r].status
                                     \/ request'[r].status \in {"APPROVED", "RESOLVED"} /\ status = "CANCELED"
    /\ \A x \in Reports : report'[x].type = report[x].type /\ (report'[x].status = "none" <=> report[x].status = "none")

NoReservation == \A c \in Cases : Reserved(op'[c]) => Reserved(op[c])

OpsKept ==
    \A c \in Cases :
        /\ op[c].status # "none" => op'[c].status # "none" /\ op'[c].outcome = op[c].outcome
        /\ op[c].status = "COMPLETED" => op'[c].status = "COMPLETED"
        /\ Reserved(op[c]) => Reserved(op'[c]) \/ op'[c].status = "COMPLETED"

\* A report without a decision of its own has none after the step, and a
\* report with a decision under way is under review.
ReportOps ==
    \A x \in Reports :
        /\ report[x].status = "none" \/ report[x].type = "CANCELLATION_ESCALATION" => op'[x].status = "none"
        /\ op'[x].status \in {"PROCESSING", "FAILED_RETRYABLE"} => report'[x].status = "UNDER_REVIEW"

\* The decisions are written as the services write them, and completed with
\* their effect.
Orderly ==
    /\ NoReservation /\ OpsKept /\ ReportOps
    /\ \A c \in Cases :
          /\ RowInv(op'[c])
          /\ op'[c].status = "COMPLETED" => op[c].status = "COMPLETED" \/ Ends(op'[c].outcome, status)
    /\ \A r \in Requests : op'[r].status # "none" => op'[r].outcome \in {"PARTICIPANT_APPROVE"} \cup CancellationOutcomes

ImmediateStays == \A r \in Requests : request[r].immediate => request'[r].immediate

\* The status values, told apart.
LEMMA Statuses ==
    /\ Paused => status \notin Terminal \cup Resumable
    /\ status \in Resumable => status \notin Terminal /\ ~Paused
    /\ status \in Terminal => ~Paused
    /\ ReleaseOutcome \notin CancelOutcomes
    /\ \A o \in FinancialOutcomes : Reached(o) => status \in Terminal
    /\ \A o : status \in Terminal /\ Reached(o) /\ status' = status => Reached(o)'
BY DEF Paused, Terminal, Resumable, Reached, Ends, FinancialOutcomes, CancelOutcomes, ReleaseOutcome

\* A booking that has ended stays so.
LEMMA EndStays ==
    ASSUME BookingInv, Warranted \/ Pause, status \in Terminal
    PROVE  Stay
BY DEF BookingInv, Warranted, Pause, Stay, Advance, Resume, Settles, Cancels, Paused, Terminal, Resumable

\* So what a decision has reached stays reached.
LEMMA ReachedStays ==
    ASSUME BookingInv, Warranted \/ Pause, NEW o, Reached(o)
    PROVE  Reached(o)'
<1>1. CASE status \in Terminal
  BY <1>1, EndStays DEF Stay, Reached, Ends
<1>2. CASE status \notin Terminal
  <2>1. o \notin CancelOutcomes /\ o # ReleaseOutcome
    BY <1>2 DEF Reached, Ends, Terminal
  <2>2. QED
    BY <2>1 DEF Reached, Ends
<1>3. QED
  BY <1>1, <1>2

\* The remembered status is kept.
LEMMA BookingKept ==
    ASSUME TypeOK, BookingInv, Warranted \/ Pause
    PROVE  BookingInv'
<1>1. CASE Stay
  BY <1>1 DEF Stay, BookingInv, Paused
<1>2. CASE Advance
  BY <1>2 DEF Advance, BookingInv, Paused
<1>3. CASE Pause
  BY <1>3 DEF Pause, BookingInv, Paused, Resumable
<1>4. CASE Resume
  BY <1>4 DEF Resume, BookingInv, Paused, Resumable
<1>5. CASE Settles \/ Cancels
  BY <1>5 DEF Settles, Cancels, BookingInv, Paused, Resumable
<1>6. QED
  BY <1>1, <1>2, <1>3, <1>4, <1>5 DEF Warranted

\* Open cases and a reservation on the side of the immediate cancellation.
LEMMA ImmediateActive ==
    ASSUME ImmediateInv, NEW r \in Requests, request[r].immediate, status # "CANCELED"
    PROVE  /\ r \in ActiveRequests /\ status = "UNDER_REVIEW" /\ ~started
           /\ \A c \in Cases : Reserved(op[c]) /\ NoOtherBlockingCases(Linked(c)) => c \in Requests \/ r \in Linked(c)
BY DEF ImmediateInv, ActiveRequests, ActiveCancellation, NoOtherBlockingCases

\* A reserved decision on the booking, a report or an escalation leaves no
\* request open.
LEMMA NoRequestBeside ==
    ASSUME ReservationInv, NEW c \in Cases \ Requests, Reserved(op[c])
    PROVE  ActiveRequests = {}
BY CasesDisjoint DEF ReservationInv, NoOtherBlockingCases, Linked, ActiveRequests, Cases

\* An immediate cancellation keeps its hold until the booking is cancelled.
LEMMA ImmediateKept ==
    ASSUME TypeOK, BookingInv, ImmediateInv, Warranted, Calm
    PROVE  ImmediateInv'
<1> SUFFICES ASSUME NEW r \in Requests, request'[r].immediate
             PROVE  /\ request'[r].report = "none" /\ request'[r].status \in {"UNDER_REVIEW", "APPROVED", "RESOLVED"}
                    /\ \/ status' = "CANCELED"
                       \/ request'[r].status = "UNDER_REVIEW" /\ status' = "UNDER_REVIEW" /\ ~started'
  BY DEF ImmediateInv
<1>1. request[r].immediate /\ request'[r].report = request[r].report
      /\ \/ request'[r].status = request[r].status
         \/ request'[r].status \in {"APPROVED", "RESOLVED"} /\ status = "CANCELED"
  BY DEF Calm
<1>2. request[r].report = "none" /\ request[r].status \in {"UNDER_REVIEW", "APPROVED", "RESOLVED"}
      /\ (status = "CANCELED" \/ (request[r].status = "UNDER_REVIEW" /\ status = "UNDER_REVIEW" /\ ~started))
  BY <1>1 DEF ImmediateInv
<1>3. status = "CANCELED" => status' = "CANCELED"
  BY EndStays DEF Terminal, Stay
<1>4. CASE status = "CANCELED"
  BY <1>1, <1>2, <1>3, <1>4
<1>5. CASE status # "CANCELED"
  <2>1. request'[r].status = "UNDER_REVIEW" /\ status = "UNDER_REVIEW" /\ ~started
    BY <1>1, <1>2, <1>5
  <2>2. r \in ActiveRequests'
    BY <2>1 DEF ActiveRequests, ActiveCancellation
  <2>3. ~Resume \/ ActiveRequests' # {}
    BY <2>2
  <2>4. before \notin {"AWAITING_CONFIRMATION"}
    BY <2>1 DEF BookingInv
  <2>5. Stay \/ Cancels
    BY <2>1, <2>2, <2>4 DEF Warranted, Advance, Settles
  <2>6. QED
    BY <1>1, <1>2, <2>1, <2>5 DEF Stay, Cancels
<1>6. QED
  BY <1>4, <1>5

\* No second reservation appears, and no case opens beside one.
LEMMA ReservationKept ==
    ASSUME ReservationInv, Calm, NoReservation
    PROVE  ReservationInv'
<1>1. \A c, d \in Cases : Reserved(op'[c]) /\ Reserved(op'[d]) => c = d
  BY DEF ReservationInv, NoReservation
<1>2. ASSUME NEW c \in Cases, Reserved(op'[c]) PROVE NoOtherBlockingCases(Linked(c))'
  <2>1. NoOtherBlockingCases(Linked(c))
    BY <1>2 DEF ReservationInv, NoReservation
  <2>2. Linked(c)' = Linked(c)
    BY DEF Linked, Calm
  <2>3. QED
    BY <2>1, <2>2 DEF NoOtherBlockingCases, Calm
<1>3. QED
  BY <1>1, <1>2 DEF ReservationInv, Reserved

\* A reserved decision keeps the booking paused until its own effect.
LEMMA ProtectedKept ==
    ASSUME TypeOK, BookingInv, ImmediateInv, OpInv, ReservationInv, ProtectedInv,
           Warranted, Calm, NoReservation, OpsKept
    PROVE  ProtectedInv'
<1> SUFFICES ASSUME NEW c \in Cases \ Requests, Reserved(op'[c])
             PROVE  (Paused \/ Reached(op[c].outcome))'
  BY DEF ProtectedInv, Reserved
<1> DEFINE o == op[c].outcome
<1>1. Reserved(op[c]) /\ op[c].status # "none" /\ op'[c].outcome = o
  BY DEF NoReservation, OpsKept, Reserved
<1>2. o \in FinancialOutcomes /\ (Paused \/ Reached(o))
  BY <1>1 DEF OpInv, ProtectedInv
<1>3. ASSUME NEW out, out = o PROVE Paused' \/ Reached(out)'
  <2>1. CASE Reached(o)
    BY <1>3, <2>1, ReachedStays
  <2>2. CASE Paused /\ ~Reached(o)
    <3>1. CASE Stay
      BY <2>2, <3>1 DEF Stay, Paused
    <3>2. ~Advance
      BY <2>2 DEF Paused, Advance
    <3>3. ~(Resume /\ \A d \in Cases \ Requests : ~Reserved(op[d]))
      BY <1>1
    <3>4. ASSUME Settles, status = "AWAITING_CONFIRMATION" \/
                    \E d \in Cases : Reserved(op[d]) /\ op[d].outcome = ReleaseOutcome
          PROVE  Reached(out)'
      <4>1. PICK d \in Cases : Reserved(op[d]) /\ op[d].outcome = ReleaseOutcome
        BY <2>2, <3>4 DEF Paused
      <4>2. out = ReleaseOutcome
        BY <1>1, <1>3, <4>1 DEF ReservationInv
      <4>3. QED
        BY <3>4, <4>2, Statuses DEF Reached, Ends, Settles
    <3>5. ASSUME Cancels, \/ \E d \in Cases : Reserved(op[d]) /\ op[d].outcome \in CancelOutcomes
                          \/ \E r \in Requests : request[r].immediate
          PROVE  Reached(out)'
      <4>1. ASSUME NEW r \in Requests, request[r].immediate PROVE FALSE
        <5>1. status # "CANCELED"
          BY <3>5 DEF Cancels, Terminal
        <5>2. QED
          BY <1>1, <4>1, <5>1, ImmediateActive, NoRequestBeside
      <4>2. PICK d \in Cases : Reserved(op[d]) /\ op[d].outcome \in CancelOutcomes
        BY <3>5, <4>1
      <4>3. out \in CancelOutcomes
        BY <1>1, <1>3, <4>2 DEF ReservationInv
      <4>4. QED
        BY <3>5, <4>3, Statuses DEF Reached, Ends, Cancels
    <3>6. QED
      BY <3>1, <3>2, <3>3, <3>4, <3>5 DEF Warranted
  <2>3. QED
    BY <1>2, <2>1, <2>2
<1>4. QED
  BY <1>1, <1>3

\* What has ended stays ended.
LEMMA EndsStay ==
    ASSUME BookingInv, Warranted \/ Pause
    PROVE  \A o : Ends(o, status) => Ends(o, status')
BY ReachedStays DEF Reached

\* An open report that pauses the booking keeps it paused, or the booking ends.
LEMMA ReportKept ==
    ASSUME TypeOK, BookingInv, ReportInv, Warranted, Calm, ReportOps
    PROVE  ReportInv'
<1>1. \A r \in Requests : request'[r].report # "none" => report'[request'[r].report].type = "CANCELLATION_ESCALATION"
  <2> SUFFICES ASSUME NEW r \in Requests, request'[r].report # "none"
               PROVE  report'[request'[r].report].type = "CANCELLATION_ESCALATION"
    OBVIOUS
  <2>1. request'[r].report = request[r].report /\ report[request[r].report].type = "CANCELLATION_ESCALATION"
    BY DEF Calm, ReportInv
  <2>2. request[r].report \in Reports
    BY <2>1 DEF TypeOK
  <2>3. QED
    BY <2>1, <2>2 DEF Calm
<1>2. ASSUME NEW x \in Reports, x \in ActiveReports', report'[x].type # "CANCELLATION_ESCALATION"
      PROVE  Paused' \/ status' \in Terminal
  <2>1. x \in ActiveReports /\ report[x].type # "CANCELLATION_ESCALATION" /\ ActiveReports' # {}
    BY <1>2 DEF Calm
  <2>2. Paused \/ status \in Terminal
    BY <2>1 DEF ReportInv
  <2>3. Stay \/ Settles \/ Cancels
    BY <2>1, <2>2 DEF Warranted, Advance, Paused, Terminal
  <2>4. QED
    BY <2>2, <2>3 DEF Stay, Settles, Cancels, Paused, Terminal
<1>3. \A x \in Reports : /\ report'[x].status = "none" => report'[x].type = "none" /\ op'[x].status = "none"
                         /\ report'[x].type = "CANCELLATION_ESCALATION" => op'[x].status = "none"
                         /\ op'[x].status \in {"PROCESSING", "FAILED_RETRYABLE"} => report'[x].status = "UNDER_REVIEW"
  BY DEF ReportInv, Calm, ReportOps
<1>4. QED
  BY <1>1, <1>2, <1>3 DEF ReportInv

\* A paused booking that stays paused still waits for something.
LEMMA AwaitedKept ==
    ASSUME BookingInv, AwaitedInv, Warranted, Paused /\ Paused' /\ Awaited => Awaited'
    PROVE  AwaitedInv'
<1>1. Paused' => Paused
  BY DEF Warranted, Stay, Advance, Resume, Settles, Cancels, Paused, BookingInv, Resumable
<1>2. QED
  BY <1>1 DEF AwaitedInv

\* So a step that opens nothing keeps what the rows say.
LEMMA RowsKept ==
    ASSUME TypeOK, RowsInv, Warranted, Calm, Orderly, Paused /\ Paused' /\ Awaited => Awaited'
    PROVE  RowsInv'
<1>1. BookingInv' /\ ImmediateInv' /\ ReportInv'
  BY BookingKept, ImmediateKept, ReportKept DEF RowsInv, Orderly
<1>2. ReservationInv' /\ ProtectedInv'
  BY ReservationKept, ProtectedKept DEF RowsInv, Orderly
<1>3. AwaitedInv'
  BY AwaitedKept DEF RowsInv
<1>4. ClosedInv'
  <2>1. \A o : Ends(o, status) => Ends(o, status')
    BY EndsStay DEF RowsInv
  <2>2. \A c \in Cases : op'[c].status = "COMPLETED" => Ends(op'[c].outcome, status)
    BY DEF RowsInv, ClosedInv, Orderly, OpsKept, Reached
  <2>3. QED
    BY <2>1, <2>2 DEF ClosedInv, Reached
<1>5. OpInv'
  <2>1. ASSUME NEW c \in Cases, Reserved(op'[c]) PROVE op'[c].outcome \in FinancialOutcomes
    <3>1. Reserved(op[c]) /\ op[c].status # "none"
      BY <2>1 DEF Orderly, NoReservation, Reserved
    <3>2. QED
      BY <3>1 DEF Orderly, OpsKept, RowsInv, OpInv
  <2>2. QED
    BY <2>1 DEF OpInv, Orderly, RowInv
<1>6. QED
  BY <1>1, <1>2, <1>3, <1>4, <1>5 DEF RowsInv

\* What a request in flight carries out stays what its operation says.
LEMMA FlightKept ==
    ASSUME OpsKept, ImmediateStays, NEW k, FlightOK(k, op, request)
    PROVE  FlightOK(k, op', request')
BY DEF FlightOK, OpsKept, ImmediateStays

\* Beside an open report with a decision of its own nothing else is reserved.
LEMMA OnlyReport ==
    ASSUME ReservationInv, ReportInv, NEW x \in Reports, report[x].status = "UNDER_REVIEW",
           op[x].status # "none", NEW d \in Cases, Reserved(op[d])
    PROVE  d = x
<1>1. x \in ActiveReports
  BY DEF ActiveReports, ActiveReport
<1>2. x \in Linked(d)
  BY <1>1 DEF ReservationInv, NoOtherBlockingCases
<1>3. \A r \in Requests : request[r].report # x
  <2>1. x # "none" /\ report[x].type # "CANCELLATION_ESCALATION"
    BY NoneIsNoCase DEF ReportInv, Cases
  <2>2. QED
    BY <2>1 DEF ReportInv
<1>4. x \notin Requests
  BY CasesDisjoint
<1>5. QED
  BY <1>2, <1>3, <1>4 DEF Linked

\* A report's decision that is about to be reserved finds the booking as its
\* claim left it.
LEMMA ClaimKept ==
    ASSUME TypeOK, TypeOK', RowsInv, ReportOps, Warranted \/ Pause, OpsKept,
           NEW k, FlightOK(k, op, request), ClaimOK(k, op, status, before)
    PROVE  ClaimOK(k, op', status', before')
<1> SUFFICES ASSUME k.pc = "reserve", k.case \in Reports, op'[k.case].status # "COMPLETED"
             PROVE  \/ status' \in {"DISPUTED", "UNDER_REVIEW"}
                       /\ (k.outcome = ReleaseOutcome => before' = "AWAITING_CONFIRMATION")
                    \/ Ends(k.outcome, status')
  BY DEF ClaimOK
<1> DEFINE x == k.case
<1>0. x \in Reports /\ x \in Cases
  BY DEF Cases
<1>1. op[x].status # "none" /\ op[x].outcome = k.outcome /\ k.outcome \in FinancialOutcomes
  BY DEF FlightOK, CancelPCs, RefundPCs
<1>2. op[x].status \in {"PROCESSING", "FAILED_RETRYABLE"} /\ op'[x].status \in {"PROCESSING", "FAILED_RETRYABLE"}
  BY <1>0, <1>1 DEF OpsKept, TypeOK
<1>3. report[x].status = "UNDER_REVIEW" /\ report'[x].status = "UNDER_REVIEW" /\ ActiveReports' # {}
  BY <1>0, <1>2 DEF RowsInv, ReportInv, ReportOps, ActiveReports, ActiveReport
<1>4. \A d \in Cases : Reserved(op[d]) => d = x
  BY <1>0, <1>1, <1>3, OnlyReport DEF RowsInv
<1>5. CASE Ends(k.outcome, status)
  BY <1>5, EndsStay DEF RowsInv
<1>6. CASE ~Ends(k.outcome, status)
  <2>1. Paused /\ (k.outcome = ReleaseOutcome => before = "AWAITING_CONFIRMATION")
    BY <1>0, <1>2, <1>6 DEF ClaimOK, Paused
  <2>2. Stay \/ Settles \/ Cancels
    BY <1>3, <2>1 DEF Warranted, Pause, Advance, Paused, Resumable
  <2>3. CASE Stay
    BY <2>1, <2>3 DEF Stay, Paused
  <2>4. CASE Settles
    <3>1. PICK d \in Cases : Reserved(op[d]) /\ op[d].outcome = ReleaseOutcome
      BY <2>1, <2>4 DEF Warranted, Stay, Advance, Pause, Resume, Settles, Cancels, Paused, Resumable
    <3>2. k.outcome = ReleaseOutcome
      BY <1>1, <1>4, <3>1
    <3>3. QED
      BY <2>4, <3>2 DEF Ends, Settles, ReleaseOutcome, CancelOutcomes
  <2>5. CASE Cancels
    <3>1. CASE k.outcome \in CancelOutcomes
      BY <2>5, <3>1 DEF Ends, Cancels, ReleaseOutcome, CancelOutcomes
    <3>2. CASE k.outcome = ReleaseOutcome
      <4>1. before = "AWAITING_CONFIRMATION" /\ started /\ status # "CANCELED"
        BY <2>1, <3>2 DEF RowsInv, BookingInv, Paused
      <4>2. \A r \in Requests : ~request[r].immediate
        BY <4>1 DEF RowsInv, ImmediateInv
      <4>3. \E d \in Cases : Reserved(op[d]) /\ op[d].outcome \in CancelOutcomes
        BY <2>1, <2>5, <4>1, <4>2 DEF Warranted, Stay, Advance, Pause, Resume, Settles, Cancels, Paused, Resumable, Terminal
      <4>4. QED
        BY <1>1, <1>4, <3>2, <4>3 DEF ReleaseOutcome, CancelOutcomes
    <3>3. QED
      BY <1>1, <3>1, <3>2 DEF FinancialOutcomes
  <2>6. QED
    BY <2>2, <2>3, <2>4, <2>5
<1>7. QED
  BY <1>5, <1>6

-----------------------------------------------------------------------------
(* What a step leaves to show                                               *)

\* Where the request w is after it moved, and that no other moved.
LEMMA MovedTo ==
    ASSUME TypeOK, NEW w \in Workers
    PROVE  /\ \A pc : Goto(w, pc) =>
                 /\ worker'[w].pc = pc /\ worker'[w].case = worker[w].case /\ worker'[w].outcome = worker[w].outcome
                 /\ \A v \in Workers \ {w} : worker'[v] = worker[v]
           /\ \A c, outcome, pc : Spawn(w, c, outcome, pc) =>
                 /\ worker'[w].pc = pc /\ worker'[w].case = c /\ worker'[w].outcome = outcome
                 /\ \A v \in Workers \ {w} : worker'[v] = worker[v]
           /\ Done(w) => worker'[w].pc = "idle" /\ \A v \in Workers \ {w} : worker'[v] = worker[v]
           /\ Throw(w) => /\ \/ worker'[w].pc = "idle"
                             \/ /\ worker'[w].pc = "fail" /\ worker[w].outcome # "IMMEDIATE"
                                /\ worker'[w].case = worker[w].case /\ worker'[w].outcome = worker[w].outcome
                          /\ \A v \in Workers \ {w} : worker'[v] = worker[v]
<1>1. ASSUME NEW pc, Goto(w, pc)
      PROVE  /\ worker'[w].pc = pc /\ worker'[w].case = worker[w].case /\ worker'[w].outcome = worker[w].outcome
             /\ \A v \in Workers \ {w} : worker'[v] = worker[v]
  BY <1>1 DEF TypeOK, Goto
<1>2. ASSUME NEW c, NEW outcome, NEW pc, Spawn(w, c, outcome, pc)
      PROVE  /\ worker'[w].pc = pc /\ worker'[w].case = c /\ worker'[w].outcome = outcome
             /\ \A v \in Workers \ {w} : worker'[v] = worker[v]
  BY <1>2 DEF TypeOK, Spawn, Idle
<1>3. ASSUME Done(w) PROVE worker'[w].pc = "idle" /\ \A v \in Workers \ {w} : worker'[v] = worker[v]
  BY <1>3 DEF TypeOK, Done, Idle
<1>4. ASSUME Throw(w)
      PROVE  /\ \/ worker'[w].pc = "idle"
                \/ /\ worker'[w].pc = "fail" /\ worker[w].outcome # "IMMEDIATE"
                   /\ worker'[w].case = worker[w].case /\ worker'[w].outcome = worker[w].outcome
             /\ \A v \in Workers \ {w} : worker'[v] = worker[v]
  BY <1>1, <1>3, <1>4 DEF Throw
<1>5. QED
  BY <1>1, <1>2, <1>3, <1>4

\* A step that touches no case and no operation.
LEMMA Quiet ==
    ASSUME RowsInv, UNCHANGED <<request, report, escalation, op>>
    PROVE  Calm /\ Orderly /\ ImmediateStays /\ (Awaited => Awaited')
<1>1. Calm /\ ImmediateStays
  BY DEF Calm, ActiveReports, ActiveRequests, ActiveEscalations, ImmediateStays
<1>2. Awaited => Awaited'
  BY DEF Awaited, ActiveReports, ActiveRequests
<1>3. Orderly
  <2>1. NoReservation /\ OpsKept
    BY DEF NoReservation, OpsKept
  <2>2. ReportOps
    BY DEF ReportOps, RowsInv, ReportInv
  <2>3. QED
    BY <2>1, <2>2 DEF Orderly, RowsInv, OpInv, RowInv
<1>4. QED
  BY <1>1, <1>2, <1>3

\* A step that writes the operation of the case c, and reserves nothing new.
LEMMA OpWritten ==
    ASSUME TypeOK, RowsInv, NEW c \in Cases, NEW n, op' = [op EXCEPT ![c] = n],
           RowInv(n), n.status # "none", Reserved(n) => Reserved(op[c]),
           op[c].status # "none" => n.outcome = op[c].outcome,
           op[c].status = "COMPLETED" => n.status = "COMPLETED",
           Reserved(op[c]) => Reserved(n) \/ n.status = "COMPLETED",
           n.status = "COMPLETED" => op[c].status = "COMPLETED" \/ Ends(n.outcome, status),
           c \in Requests => n.outcome \in {"PARTICIPANT_APPROVE"} \cup CancellationOutcomes,
           c \in Reports => /\ report[c].status # "none" /\ report[c].type # "CANCELLATION_ESCALATION"
                            /\ n.status \in {"PROCESSING", "FAILED_RETRYABLE"} => report'[c].status = "UNDER_REVIEW",
           \A x \in Reports \ {c} : report[x].status = "UNDER_REVIEW" /\ report[x].type # "CANCELLATION_ESCALATION"
                                       => report'[x].status = "UNDER_REVIEW"
    PROVE  Orderly
<1>1. op'[c] = n /\ \A d \in Cases \ {c} : op'[d] = op[d]
  BY DEF TypeOK
<1>2. NoReservation /\ OpsKept
  BY <1>1 DEF NoReservation, OpsKept
<1>3. ReportOps
  <2> SUFFICES ASSUME NEW x \in Reports
               PROVE  /\ report[x].status = "none" \/ report[x].type = "CANCELLATION_ESCALATION" => op'[x].status = "none"
                      /\ op'[x].status \in {"PROCESSING", "FAILED_RETRYABLE"} => report'[x].status = "UNDER_REVIEW"
    BY DEF ReportOps
  <2>1. x \in Cases
    BY DEF Cases
  <2>2. CASE x = c
    BY <1>1, <2>2
  <2>3. CASE x # c
    BY <1>1, <2>1, <2>3 DEF RowsInv, ReportInv
  <2>4. QED
    BY <2>2, <2>3
<1>4. \A d \in Cases : /\ RowInv(op'[d])
                       /\ op'[d].status = "COMPLETED" => op[d].status = "COMPLETED" \/ Ends(op'[d].outcome, status)
  BY <1>1 DEF RowsInv, OpInv, RowInv
<1>5. \A r \in Requests : op'[r].status # "none" => op'[r].outcome \in {"PARTICIPANT_APPROVE"} \cup CancellationOutcomes
  BY <1>1 DEF RowsInv, OpInv, Cases
<1>6. QED
  BY <1>2, <1>3, <1>4, <1>5 DEF Orderly

\* The requests that did not move, and the one that did.
LEMMA FlightsKept ==
    ASSUME TypeOK, TypeOK', DecisionInv, ReportOps, Warranted \/ Pause, OpsKept, ImmediateStays
    PROVE  /\ UNCHANGED worker => FlightInv' /\ ClaimInv'
           /\ \A w \in Workers :
                 /\ \A v \in Workers \ {w} : worker'[v] = worker[v]
                 /\ FlightOK(worker'[w], op', request') /\ ClaimOK(worker'[w], op', status', before')
                 => FlightInv' /\ ClaimInv'
<1>1. \A v \in Workers : /\ FlightOK(worker[v], op', request')
                         /\ ClaimOK(worker[v], op', status', before')
  <2> TAKE v \in Workers
  <2>1. FlightOK(worker[v], op, request) /\ ClaimOK(worker[v], op, status, before)
    BY DEF DecisionInv, FlightInv, ClaimInv
  <2>2. QED
    BY <2>1, FlightKept, ClaimKept DEF DecisionInv
<1>2. QED
  BY <1>1 DEF FlightInv, ClaimInv

\* A request in flight goes on with what it carries out, or ends.
LEMMA Flies ==
    ASSUME NEW k, NEW n, NEW ops, NEW requests, FlightOK(k, ops, requests),
           \/ n.pc = "idle"
           \/ /\ k.pc # "idle" /\ n.case = k.case /\ n.outcome = k.outcome
              /\ \/ n.pc \in {"finalize", "fail"} /\ k.outcome # "IMMEDIATE"
                 \/ n.pc \in CancelPCs /\ k.pc \in CancelPCs
                 \/ n.pc = "mark" /\ k.pc \in CancelPCs \cup {"settle"} /\ k.outcome # "IMMEDIATE"
                 \/ n.pc = "immediate_final" /\ k.outcome = "IMMEDIATE"
    PROVE  FlightOK(n, ops, requests) /\ \A s, b : ClaimOK(n, ops, s, b)
BY DEF FlightOK, ClaimOK, CancelPCs, RefundPCs

\* A step of one request that opens nothing keeps the invariant.
LEMMA MoveKeeps ==
    ASSUME TypeOK, TypeOK', DecisionInv, NEW w \in Workers,
           Warranted, Calm, Orderly, Paused /\ Paused' /\ Awaited => Awaited',
           \A v \in Workers \ {w} : worker'[v] = worker[v],
           FlightOK(worker'[w], op', request'), ClaimOK(worker'[w], op', status', before')
    PROVE  DecisionInv'
<1>1. RowsInv'
  BY RowsKept DEF DecisionInv
<1>2. FlightInv' /\ ClaimInv'
  BY FlightsKept DEF Orderly, Calm, ImmediateStays
<1>3. QED
  BY <1>1, <1>2 DEF DecisionInv

-----------------------------------------------------------------------------
(* Steps that open a case                                                   *)

\* A step that opens a case finds nothing reserved, and pauses the booking or
\* leaves it alone.
LEMMA Opens ==
    ASSUME TypeOK, RowsInv, UNCHANGED op, NoFinancialResolutionReserved({}), Stay \/ Pause,
           ImmediateInv', ReportInv', Paused' => Awaited'
    PROVE  RowsInv' /\ ReportOps /\ OpsKept
<1>1. BookingInv'
  BY BookingKept DEF RowsInv, Warranted
<1>2. \A o : Ends(o, status) => Ends(o, status')
  BY EndsStay DEF RowsInv, Warranted
<1>3. ClosedInv'
  BY <1>2 DEF RowsInv, ClosedInv, Reached
<1>4. \A c \in Cases : ~Reserved(op'[c])
  BY DEF NoFinancialResolutionReserved
<1>5. ReservationInv' /\ ProtectedInv'
  BY <1>4 DEF ReservationInv, ProtectedInv
<1>6. AwaitedInv' /\ OpInv'
  BY DEF AwaitedInv, RowsInv, OpInv
<1>7. ReportOps /\ OpsKept
  BY DEF ReportOps, OpsKept, RowsInv, ReportInv
<1>8. QED
  BY <1>1, <1>3, <1>5, <1>6, <1>7 DEF RowsInv

\* A booking held by an immediate cancellation is not paused again.
LEMMA ImmediateBeside ==
    ASSUME ImmediateInv, Stay \/ Pause, NEW r \in Requests, request[r].immediate,
           request'[r] = request[r]
    PROVE  /\ request'[r].report = "none" /\ request'[r].status \in {"UNDER_REVIEW", "APPROVED", "RESOLVED"}
           /\ \/ status' = "CANCELED"
              \/ request'[r].status = "UNDER_REVIEW" /\ status' = "UNDER_REVIEW" /\ ~started'
<1>1. request[r].report = "none" /\ request[r].status \in {"UNDER_REVIEW", "APPROVED", "RESOLVED"}
      /\ (status = "CANCELED" \/ (request[r].status = "UNDER_REVIEW" /\ status = "UNDER_REVIEW" /\ ~started))
  BY DEF ImmediateInv
<1>2. Stay
  BY <1>1 DEF Pause, Resumable
<1>3. QED
  BY <1>1, <1>2 DEF Stay

\* A new report has no decision yet and no request points to it.
LEMMA ReportOpened ==
    ASSUME TypeOK, ReportInv, NEW x \in Reports, report[x].status = "none",
           NEW n, report' = [report EXCEPT ![x] = n], n.status = "PENDING", n.type # "none",
           n.type # "CANCELLATION_ESCALATION" => Paused' \/ status' \in Terminal,
           UNCHANGED op, Stay \/ Pause,
           \A r \in Requests : \/ request'[r].report = request[r].report
                               \/ request'[r].report = x /\ n.type = "CANCELLATION_ESCALATION"
    PROVE  ReportInv' /\ x \in ActiveReports' /\ ActiveReports \subseteq ActiveReports'
<1>1. report'[x] = n /\ \A y \in Reports \ {x} : report'[y] = report[y]
  BY DEF TypeOK
<1>2. report[x].type = "none" /\ op[x].status = "none"
  BY DEF ReportInv
<1>3. \A r \in Requests : request'[r].report # "none" => report'[request'[r].report].type = "CANCELLATION_ESCALATION"
  <2> SUFFICES ASSUME NEW r \in Requests, request'[r].report # "none"
               PROVE  report'[request'[r].report].type = "CANCELLATION_ESCALATION"
    OBVIOUS
  <2>1. CASE request'[r].report = x /\ n.type = "CANCELLATION_ESCALATION"
    BY <1>1, <2>1
  <2>2. CASE request'[r].report = request[r].report
    <3>1. request[r].report \in Reports /\ report[request[r].report].type = "CANCELLATION_ESCALATION"
      BY <2>2 DEF ReportInv, TypeOK
    <3>2. request[r].report # x
      BY <1>2, <3>1
    <3>3. QED
      BY <1>1, <2>2, <3>1, <3>2
  <2>3. QED
    BY <2>1, <2>2
<1>4. ASSUME NEW y \in Reports, y \in ActiveReports', report'[y].type # "CANCELLATION_ESCALATION"
      PROVE  Paused' \/ status' \in Terminal
  <2>1. CASE y = x
    BY <1>1, <1>4, <2>1
  <2>2. CASE y # x
    <3>1. y \in ActiveReports /\ report[y].type # "CANCELLATION_ESCALATION"
      BY <1>1, <1>4, <2>2 DEF ActiveReports
    <3>2. Paused \/ status \in Terminal
      BY <3>1 DEF ReportInv
    <3>3. QED
      BY <3>2 DEF Stay, Pause, Paused, Terminal
  <2>3. QED
    BY <2>1, <2>2
<1>5. \A y \in Reports : /\ report'[y].status = "none" => report'[y].type = "none" /\ op'[y].status = "none"
                         /\ report'[y].type = "CANCELLATION_ESCALATION" => op'[y].status = "none"
                         /\ op'[y].status \in {"PROCESSING", "FAILED_RETRYABLE"} => report'[y].status = "UNDER_REVIEW"
  BY <1>1, <1>2 DEF ReportInv
<1>6. ReportInv'
  BY <1>3, <1>4, <1>5 DEF ReportInv
<1>7. x \in ActiveReports' /\ ActiveReports \subseteq ActiveReports'
  BY <1>1 DEF ActiveReports, ActiveReport
<1>8. QED
  BY <1>6, <1>7

\* The participants' steps keep the invariant.
LEMMA ParticipantDecides ==
    ASSUME TypeOK, TypeOK', MoneyInv, DecisionInv, ParticipantStep
    PROVE  DecisionInv'
<1>a. ASSUME RowsInv', ReportOps, OpsKept, Warranted \/ Pause, UNCHANGED worker, ImmediateStays
      PROVE  DecisionInv'
  BY <1>a, FlightsKept DEF DecisionInv
<1>b. RowsInv
  BY DEF DecisionInv
<1>1. ASSUME Start \/ MarkJobComplete PROVE DecisionInv'
  <2>1. Advance
    BY <1>1 DEF Start, MarkJobComplete, Advance
  <2>2. UNCHANGED <<request, report, escalation, op, worker>>
    BY <1>1 DEF Start, MarkJobComplete, caseVars
  <2>3. RowsInv'
    BY <1>b, <2>1, <2>2, Quiet, RowsKept DEF Warranted
  <2>4. QED
    BY <1>a, <1>b, <2>1, <2>2, <2>3, Quiet DEF Warranted, Orderly
<1>2. CASE ConfirmCompletion
  <2>1. status = "AWAITING_CONFIRMATION" /\ Settles
    BY <1>2 DEF ConfirmCompletion, SettleAllowed, Settle, Settles
  <2>2. UNCHANGED <<request, report, op, worker>> /\ escalation' = ClosedEscalations("RESOLVED")
    BY <1>2 DEF ConfirmCompletion
  <2>3. ActiveEscalations' \subseteq ActiveEscalations
    BY <2>2 DEF ActiveEscalations, ClosedEscalations
  <2>4. Calm /\ ImmediateStays
    BY <2>2, <2>3 DEF Calm, ActiveReports, ActiveRequests, ImmediateStays
  <2>5. Orderly
    BY <1>b, <2>2 DEF Orderly, NoReservation, OpsKept, ReportOps, RowsInv, ReportInv, OpInv, RowInv
  <2>6. Awaited => Awaited'
    BY <2>2 DEF Awaited, ActiveReports, ActiveRequests
  <2>7. RowsInv'
    BY <1>b, <2>1, <2>4, <2>5, <2>6, RowsKept DEF Warranted
  <2>8. QED
    BY <1>a, <2>1, <2>2, <2>4, <2>5, <2>7 DEF Warranted, Orderly
<1>3. ASSUME NEW r \in Reports, NEW n, n.status = "PENDING", n.type \in {"SAFETY", "COMPLETION_DISPUTE"},
             report[r].status = "none", NoFinancialResolutionReserved({}), report' = [report EXCEPT ![r] = n],
             Pause \/ (Stay /\ status \notin Resumable), UNCHANGED <<request, op, worker>>
      PROVE  DecisionInv'
  <2>1. Paused' \/ status' \in Terminal
    BY <1>3 DEF Pause, Stay, Paused, Terminal, Resumable, TypeOK, BookingStatus
  <2>2. ReportInv' /\ r \in ActiveReports'
    BY <1>3, <1>b, <2>1, ReportOpened DEF RowsInv
  <2>3. ImmediateInv'
    BY <1>3, <1>b, ImmediateBeside DEF RowsInv, ImmediateInv
  <2>4. RowsInv' /\ ReportOps /\ OpsKept
    BY <1>3, <1>b, <2>2, <2>3, Opens DEF Awaited
  <2>5. QED
    BY <1>3, <1>a, <2>4 DEF Warranted, ImmediateStays
<1>4. ASSUME NEW r \in Reports, DisputeJob(r) PROVE DecisionInv'
  <2>1. Pause
    BY <1>4 DEF DisputeJob, Pause, Resumable
  <2> DEFINE n == [status |-> "PENDING", type |-> "COMPLETION_DISPUTE", against |-> "provider"]
  <2>2. /\ n.status = "PENDING" /\ n.type \in {"SAFETY", "COMPLETION_DISPUTE"}
        /\ report' = [report EXCEPT ![r] = n]
    BY <1>4 DEF DisputeJob
  <2> HIDE DEF n
  <2>3. QED
    BY <1>3, <1>4, <2>1, <2>2 DEF DisputeJob
<1>5. ASSUME NEW r \in Reports, NEW p \in Participants, CreateSafetyReport(p, r) PROVE DecisionInv'
  <2>1. Pause \/ (Stay /\ status \notin Resumable)
    BY <1>5 DEF CreateSafetyReport, Pause, Stay, Resumable, Pausable
  <2> DEFINE n == [status |-> "PENDING", type |-> "SAFETY", against |-> Other(p)]
  <2>2. /\ n.status = "PENDING" /\ n.type \in {"SAFETY", "COMPLETION_DISPUTE"}
        /\ report' = [report EXCEPT ![r] = n]
    BY <1>5 DEF CreateSafetyReport
  <2> HIDE DEF n
  <2>3. QED
    BY <1>3, <1>5, <2>1, <2>2 DEF CreateSafetyReport
<1>6. ASSUME NEW e \in Escalations, CreateCompletionEscalation(e) PROVE DecisionInv'
  <2>1. Stay /\ UNCHANGED <<request, report, op, worker>> /\ NoFinancialResolutionReserved({})
    BY <1>6 DEF CreateCompletionEscalation, bookingVars, Stay
  <2>2. ImmediateInv' /\ ReportInv' /\ (Paused' => Awaited')
    BY <1>b, <2>1 DEF Stay, RowsInv, ImmediateInv, ReportInv, AwaitedInv, Awaited, Paused, ActiveReports, ActiveRequests
  <2>3. RowsInv' /\ ReportOps /\ OpsKept
    BY <1>b, <2>1, <2>2, Opens
  <2>4. QED
    BY <1>a, <2>1, <2>3 DEF Warranted, ImmediateStays
<1>7. QED
  BY <1>1, <1>2, <1>4, <1>5, <1>6 DEF ParticipantStep

\* Moving an open request to another open status.
LEMMA RequestMoves ==
    ASSUME TypeOK, NEW r \in Requests, NEW t \in ActiveCancellation,
           request[r].status \in ActiveCancellation, request[r].immediate => t = request[r].status,
           request' = [request EXCEPT ![r].status = t]
    PROVE  /\ ActiveRequests' = ActiveRequests
           /\ \A q \in Requests :
                 /\ request'[q].report = request[q].report /\ request'[q].immediate = request[q].immediate
                 /\ request[q].immediate => request'[q].status = request[q].status
<1>1. /\ request'[r].status = t
      /\ request'[r].report = request[r].report /\ request'[r].immediate = request[r].immediate
      /\ \A q \in Requests \ {r} : request'[q] = request[q]
  BY DEF TypeOK
<1>2. QED
  BY <1>1 DEF ActiveRequests

\* A claim writes the row n of the operation of c.
Claims(c, outcome, penalty, n) ==
    /\ op[c].status # "COMPLETED" /\ MayBegin(c, outcome, penalty)
    /\ \/ n = BeginAdminResolution(c, outcome, penalty)
       \/ n = ReconcileReserved(BeginAdminResolution(c, outcome, penalty), outcome)
    /\ op' = [op EXCEPT ![c] = n]
    /\ c \in Requests => outcome \in {"PARTICIPANT_APPROVE"} \cup CancellationOutcomes

\* The reports under review stay so, and the report c becomes so.
ReportsFollow(c) ==
    /\ c \in Reports => /\ report[c].status # "none" /\ report[c].type # "CANCELLATION_ESCALATION"
                        /\ report'[c].status = "UNDER_REVIEW"
    /\ \A x \in Reports \ {c} : report[x].status = "UNDER_REVIEW" /\ report[x].type # "CANCELLATION_ESCALATION"
                                   => report'[x].status = "UNDER_REVIEW"

\* What is claimed is written to its operation, which is then under way.
LEMMA Claimed ==
    ASSUME TypeOK, RowsInv, NEW c \in Cases, NEW outcome \in Outcomes, NEW penalty \in {"none", "ban"},
           NEW n, Claims(c, outcome, penalty, n), ReportsFollow(c)
    PROVE  /\ Orderly /\ (Awaited /\ ActiveReports = ActiveReports' /\ ActiveRequests = ActiveRequests' => Awaited')
           /\ op'[c] = n /\ n.status = "PROCESSING" /\ n.outcome = outcome
           /\ (Reserved(n) <=> Reserved(op[c])) /\ (Established(n) => Reserved(op[c]))
<1>1. RowInv(op[c])
  BY DEF RowsInv, OpInv, RowInv
<1>2. /\ n \in OpType /\ RowInv(n) /\ n.status = "PROCESSING" /\ n.outcome = outcome
      /\ Reserved(n) <=> Reserved(op[c])
      /\ Established(n) => Reserved(op[c])
  BY <1>1, ClaimReserves DEF Claims
<1>3. op' = [op EXCEPT ![c] = n] /\ op'[c] = n /\ \A d \in Cases \ {c} : op'[d] = op[d]
  BY DEF TypeOK, Claims
<1>4. /\ op[c].status # "none" => op[c].outcome = outcome
      /\ op[c].status # "COMPLETED" /\ (c \in Requests => outcome \in {"PARTICIPANT_APPROVE"} \cup CancellationOutcomes)
  BY DEF MayBegin, Claims
<1>5. Orderly
  BY <1>2, <1>3, <1>4, OpWritten DEF ReportsFollow
<1>6. \A d \in Cases : Reserved(op[d]) => Reserved(op'[d])
  BY <1>2, <1>3
<1>7. Awaited /\ ActiveReports = ActiveReports' /\ ActiveRequests = ActiveRequests' => Awaited'
  BY <1>6 DEF Awaited
<1>8. QED
  BY <1>2, <1>3, <1>5, <1>7

\* Requests for cancellation, their answers and escalations keep the invariant.
LEMMA CancellationDecides ==
    ASSUME TypeOK, TypeOK', DecisionInv, CancellationStep
    PROVE  DecisionInv'
<1>0. PICK r \in Requests :
        \/ \E p \in Participants : RequestCancellation(p, r)
        \/ \E p \in Participants, w \in Workers : RequestImmediateCancellation(p, r, w)
        \/ \E w \in Workers : RetryImmediateCancellation(r, w) \/ ApproveCancellation(r, w)
        \/ DeclineCancellation(r)
        \/ \E x \in Reports : EscalateCancellation(r, x)
  BY DEF CancellationStep
<1>a. ASSUME RowsInv', ReportOps, OpsKept, Warranted \/ Pause, UNCHANGED worker, ImmediateStays
      PROVE  DecisionInv'
  BY <1>a, FlightsKept DEF DecisionInv
<1>b. RowsInv
  BY DEF DecisionInv
<1>c. r \in Cases /\ r \notin Reports
  BY CasesDisjoint DEF Cases
<1>1. ASSUME NEW n, n.status \in ActiveCancellation, n.report = "none", request[r].status = "none",
             request' = [request EXCEPT ![r] = n], UNCHANGED <<report, op>>,
             NoFinancialResolutionReserved({}),
             IF n.immediate THEN Pause /\ n.status = "UNDER_REVIEW" /\ status' = "UNDER_REVIEW" /\ ~started ELSE Stay
      PROVE  RowsInv' /\ ReportOps /\ OpsKept /\ ImmediateStays /\ request'[r] = n
  <2>1. request'[r] = n /\ \A q \in Requests \ {r} : request'[q] = request[q]
    BY <1>1 DEF TypeOK
  <2>2. ~request[r].immediate
    BY <1>1, <1>b DEF RowsInv, ImmediateInv
  <2>3. \A q \in Requests \ {r} : request'[q].immediate =>
           /\ request'[q].report = "none" /\ request'[q].status \in {"UNDER_REVIEW", "APPROVED", "RESOLVED"}
           /\ \/ status' = "CANCELED"
              \/ request'[q].status = "UNDER_REVIEW" /\ status' = "UNDER_REVIEW" /\ ~started'
    BY <1>1, <1>b, <2>1, ImmediateBeside DEF RowsInv
  <2>4. ImmediateInv'
    BY <1>1, <2>1, <2>3 DEF ImmediateInv, Pause
  <2>5. ReportInv'
    <3>1. \A q \in Requests : request'[q].report # "none" => request'[q].report = request[q].report
      BY <1>1, <2>1
    <3>2. \A x \in Reports : x \in ActiveReports' => x \in ActiveReports
      BY <1>1 DEF ActiveReports
    <3>3. Paused \/ status \in Terminal => Paused' \/ status' \in Terminal
      BY <1>1 DEF Stay, Pause, Paused
    <3>4. QED
      BY <1>1, <1>b, <3>1, <3>2, <3>3 DEF RowsInv, ReportInv
  <2>6. Awaited'
    BY <1>1, <2>1 DEF Awaited, ActiveRequests
  <2>7. QED
    BY <1>1, <1>b, <2>1, <2>2, <2>4, <2>5, <2>6, Opens DEF ImmediateStays
<1>2. ASSUME NEW p \in Participants, RequestCancellation(p, r) PROVE DecisionInv'
  <2> DEFINE n == [status |-> "PENDING", immediate |-> FALSE, by |-> p, report |-> "none"]
  <2>1. /\ n.status \in ActiveCancellation /\ n.report = "none" /\ ~n.immediate
        /\ request' = [request EXCEPT ![r] = n]
    BY <1>2 DEF RequestCancellation, ActiveCancellation
  <2>2. Stay /\ UNCHANGED <<report, op, worker>> /\ request[r].status = "none" /\ NoFinancialResolutionReserved({})
    BY <1>2 DEF RequestCancellation, Stay, bookingVars
  <2> HIDE DEF n
  <2>3. QED
    BY <1>1, <1>a, <2>1, <2>2 DEF Warranted
<1>3. ASSUME NEW p \in Participants, NEW w \in Workers, RequestImmediateCancellation(p, r, w)
      PROVE  DecisionInv'
  <2> DEFINE n == [status |-> "UNDER_REVIEW", immediate |-> TRUE, by |-> p, report |-> "none"]
  <2>1. /\ n.status = "UNDER_REVIEW" /\ n.status \in ActiveCancellation /\ n.report = "none" /\ n.immediate
        /\ request' = [request EXCEPT ![r] = n]
    BY <1>3 DEF RequestImmediateCancellation, ActiveCancellation
  <2>2. Pause /\ status' = "UNDER_REVIEW" /\ ~started
    BY <1>3 DEF RequestImmediateCancellation, Pause, Cancellable, Resumable, BookingStatus
  <2>3. /\ UNCHANGED <<report, op>> /\ request[r].status = "none" /\ NoFinancialResolutionReserved({})
        /\ Spawn(w, r, "IMMEDIATE", "cancel_read")
    BY <1>3 DEF RequestImmediateCancellation
  <2> HIDE DEF n
  <2>4. RowsInv' /\ ReportOps /\ OpsKept /\ ImmediateStays /\ request'[r].immediate
    BY <1>1, <2>1, <2>2, <2>3
  <2>5. /\ worker'[w].pc = "cancel_read" /\ worker'[w].case = r /\ worker'[w].outcome = "IMMEDIATE"
        /\ \A v \in Workers \ {w} : worker'[v] = worker[v]
    BY <2>3, MovedTo
  <2>6. FlightOK(worker'[w], op', request') /\ ClaimOK(worker'[w], op', status', before')
    BY <2>4, <2>5 DEF FlightOK, ClaimOK, CancelPCs
  <2>7. QED
    BY <2>2, <2>4, <2>5, <2>6, FlightsKept DEF DecisionInv
<1>4. ASSUME NEW w \in Workers, RetryImmediateCancellation(r, w) PROVE DecisionInv'
  <2>1. /\ Stay /\ UNCHANGED <<request, report, escalation, op>> /\ request[r].immediate
        /\ Spawn(w, r, "IMMEDIATE", "cancel_read")
    BY <1>4 DEF RetryImmediateCancellation, bookingVars, caseVars, Stay
  <2>2. /\ worker'[w].pc = "cancel_read" /\ worker'[w].case = r /\ worker'[w].outcome = "IMMEDIATE"
        /\ \A v \in Workers \ {w} : worker'[v] = worker[v]
    BY <2>1, MovedTo
  <2>3. FlightOK(worker'[w], op', request') /\ ClaimOK(worker'[w], op', status', before')
    BY <2>1, <2>2 DEF FlightOK, ClaimOK, CancelPCs
  <2>4. QED
    BY <1>b, <2>1, <2>2, <2>3, Quiet, MoveKeeps DEF Warranted
<1>5. ASSUME NEW w \in Workers, ApproveCancellation(r, w) PROVE DecisionInv'
  <2> DEFINE n == BeginAdminResolution(r, "PARTICIPANT_APPROVE", "none")
  <2>1. /\ Stay /\ UNCHANGED <<report, escalation>> /\ request[r].status \in {"PENDING", "UNDER_REVIEW"}
        /\ MayBegin(r, "PARTICIPANT_APPROVE", "none") /\ op[r].status # "COMPLETED"
        /\ op' = [op EXCEPT ![r] = n]
        /\ request' = [request EXCEPT ![r].status = "UNDER_REVIEW"]
        /\ \E pc \in {"finalize", "reserve"} : Spawn(w, r, "PARTICIPANT_APPROVE", pc)
    BY <1>5 DEF ApproveCancellation, bookingVars, Stay
  <2>2. "PARTICIPANT_APPROVE" \in Outcomes /\ "PARTICIPANT_APPROVE" \in FinancialOutcomes
    BY DEF Outcomes, FinancialOutcomes, CancelOutcomes
  <2>3. request[r].immediate => "UNDER_REVIEW" = request[r].status
    BY <1>b, <2>1 DEF RowsInv, ImmediateInv
  <2>4. /\ ActiveRequests' = ActiveRequests
        /\ \A q \in Requests :
              /\ request'[q].report = request[q].report /\ request'[q].immediate = request[q].immediate
              /\ request[q].immediate => request'[q].status = request[q].status
    BY <2>1, <2>3, RequestMoves DEF ActiveCancellation
  <2>5. ActiveReports' = ActiveReports /\ ActiveEscalations' = ActiveEscalations /\ Calm
    BY <2>1, <2>4 DEF ActiveReports, ActiveEscalations, Calm
  <2>6. /\ Orderly /\ (Awaited => Awaited')
        /\ op'[r].status = "PROCESSING" /\ op'[r].outcome = "PARTICIPANT_APPROVE"
    <3>1. Claims(r, "PARTICIPANT_APPROVE", "none", n)
      BY <2>1 DEF Claims
    <3>2. ReportsFollow(r)
      BY <1>c, <2>1 DEF ReportsFollow
    <3> HIDE DEF n
    <3>3. QED
      BY <1>b, <1>c, <2>2, <2>4, <2>5, <3>1, <3>2, Claimed
  <2> HIDE DEF n
  <2>7. /\ worker'[w].pc \in {"finalize", "reserve"} /\ worker'[w].case = r
        /\ worker'[w].outcome = "PARTICIPANT_APPROVE"
        /\ \A v \in Workers \ {w} : worker'[v] = worker[v]
    BY <2>1, MovedTo
  <2>8. FlightOK(worker'[w], op', request') /\ ClaimOK(worker'[w], op', status', before')
    BY <1>c, <2>2, <2>6, <2>7 DEF FlightOK, ClaimOK, CancelPCs, RefundPCs
  <2>9. QED
    BY <2>1, <2>5, <2>6, <2>7, <2>8, MoveKeeps DEF Warranted
<1>6. CASE DeclineCancellation(r)
  <2>1. /\ Stay /\ UNCHANGED <<report, escalation, op, worker>> /\ request[r].status = "PENDING"
        /\ request' = [request EXCEPT ![r].status = "DECLINED"]
    BY <1>6 DEF DeclineCancellation, bookingVars, Stay
  <2>2. ~request[r].immediate
    BY <1>b, <2>1 DEF RowsInv, ImmediateInv
  <2>3. /\ ActiveRequests' = ActiveRequests
        /\ \A q \in Requests :
              /\ request'[q].report = request[q].report /\ request'[q].immediate = request[q].immediate
              /\ request[q].immediate => request'[q].status = request[q].status
    BY <2>1, <2>2, RequestMoves DEF ActiveCancellation
  <2>4. Calm /\ ImmediateStays /\ (Awaited => Awaited')
    BY <2>1, <2>3 DEF ActiveReports, ActiveEscalations, Calm, ImmediateStays, Awaited
  <2>5. Orderly
    BY <1>b, <2>1 DEF Orderly, NoReservation, OpsKept, ReportOps, RowsInv, ReportInv, OpInv, RowInv
  <2>6. RowsInv'
    BY <1>b, <2>1, <2>4, <2>5, RowsKept DEF Warranted
  <2>7. QED
    BY <1>a, <2>1, <2>4, <2>5, <2>6 DEF Warranted, Orderly
<1>7. ASSUME NEW x \in Reports, EscalateCancellation(r, x) PROVE DecisionInv'
  <2> DEFINE n == [status |-> "PENDING", type |-> "CANCELLATION_ESCALATION", against |-> Other(request[r].by)]
  <2>1. /\ n.status = "PENDING" /\ n.type = "CANCELLATION_ESCALATION" /\ report' = [report EXCEPT ![x] = n]
    BY <1>7 DEF EscalateCancellation
  <2>2. /\ Stay /\ UNCHANGED <<op, worker>> /\ report[x].status = "none" /\ NoFinancialResolutionReserved({})
        /\ request[r].status = "DECLINED"
        /\ request' = [request EXCEPT ![r].status = "ESCALATED", ![r].report = x]
    BY <1>7 DEF EscalateCancellation, bookingVars, Stay
  <2> HIDE DEF n
  <2>3. /\ request'[r].report = x /\ request'[r].immediate = request[r].immediate
        /\ \A q \in Requests \ {r} : request'[q] = request[q]
    BY <2>2 DEF TypeOK
  <2>4. ~request[r].immediate
    BY <1>b, <2>2 DEF RowsInv, ImmediateInv
  <2>5. ReportInv' /\ x \in ActiveReports'
    BY <1>b, <2>1, <2>2, <2>3, ReportOpened DEF RowsInv
  <2>6. \A q \in Requests \ {r} : request'[q].immediate =>
           /\ request'[q].report = "none" /\ request'[q].status \in {"UNDER_REVIEW", "APPROVED", "RESOLVED"}
           /\ \/ status' = "CANCELED"
              \/ request'[q].status = "UNDER_REVIEW" /\ status' = "UNDER_REVIEW" /\ ~started'
    BY <1>b, <2>2, <2>3, ImmediateBeside DEF RowsInv
  <2>7. ImmediateInv' /\ ImmediateStays
    BY <2>3, <2>4, <2>6 DEF ImmediateInv, ImmediateStays
  <2>8. Awaited'
    BY <2>5 DEF Awaited
  <2>9. RowsInv' /\ ReportOps /\ OpsKept
    BY <1>b, <2>2, <2>5, <2>7, <2>8, Opens
  <2>10. QED
    BY <1>a, <2>2, <2>7, <2>9 DEF Warranted
<1>8. QED
  BY <1>0, <1>2, <1>3, <1>4, <1>5, <1>6, <1>7

-----------------------------------------------------------------------------
(* Administrator decisions                                                  *)

\* Moving an open report to another open status.
LEMMA ReportMoves ==
    ASSUME TypeOK, NEW x \in Reports,
           \/ report' = [report EXCEPT ![x].status = IF @ \in ActiveReport THEN "UNDER_REVIEW" ELSE @]
           \/ report[x].status \in ActiveReport /\ report' = [report EXCEPT ![x].status = "UNDER_REVIEW"]
    PROVE  /\ ActiveReports' = ActiveReports
           /\ \A y \in Reports : /\ report'[y].type = report[y].type
                                 /\ report'[y].status = "none" <=> report[y].status = "none"
                                 /\ report[y].status = "UNDER_REVIEW" => report'[y].status = "UNDER_REVIEW"
           /\ report[x].status \in ActiveReport => report'[x].status = "UNDER_REVIEW"
<1>1. /\ report'[x].status = IF report[x].status \in ActiveReport THEN "UNDER_REVIEW" ELSE report[x].status
      /\ report'[x].type = report[x].type
      /\ \A y \in Reports \ {x} : report'[y] = report[y]
  BY DEF TypeOK
<1>2. QED
  BY <1>1 DEF ActiveReports, ActiveReport

\* The operation of c becomes the only reserved one, and pauses the booking
\* unless a request for cancellation is decided.
LEMMA Reserves ==
    ASSUME TypeOK, RowsInv, NEW c \in Cases, NEW n, op' = [op EXCEPT ![c] = n],
           Reserved(n), RowInv(n), n.outcome \in FinancialOutcomes, op[c].status # "COMPLETED",
           op[c].status # "none" => n.outcome = op[c].outcome,
           c \in Requests => n.outcome \in {"PARTICIPANT_APPROVE"} \cup CancellationOutcomes,
           c \in Reports => report[c].status = "UNDER_REVIEW" /\ report[c].type # "CANCELLATION_ESCALATION",
           NoOtherBlockingCases(Linked(c)), \A d \in Cases \ {c} : ~Reserved(op[d]),
           UNCHANGED <<request, report, escalation>>, Stay \/ Pause,
           c \notin Requests => Paused' \/ Ends(n.outcome, status')
    PROVE  RowsInv' /\ ReportOps /\ OpsKept /\ ImmediateStays /\ op'[c] = n
<1>1. op'[c] = n /\ \A d \in Cases \ {c} : op'[d] = op[d]
  BY DEF TypeOK
<1>2. n.status \in {"PROCESSING", "FAILED_RETRYABLE"} /\ n.status # "none" /\ n.status # "COMPLETED"
  BY DEF Reserved
<1>3. BookingInv'
  BY BookingKept DEF RowsInv, Warranted
<1>4. ImmediateInv' /\ ImmediateStays
  BY ImmediateBeside DEF RowsInv, ImmediateInv, ImmediateStays
<1>5. ReportOps
  <2> SUFFICES ASSUME NEW x \in Reports
               PROVE  /\ report[x].status = "none" \/ report[x].type = "CANCELLATION_ESCALATION" => op'[x].status = "none"
                      /\ op'[x].status \in {"PROCESSING", "FAILED_RETRYABLE"} => report'[x].status = "UNDER_REVIEW"
    BY DEF ReportOps
  <2>1. x \in Cases
    BY DEF Cases
  <2>2. QED
    BY <1>1, <2>1 DEF RowsInv, ReportInv
<1>6. ReportInv'
  <2>1. \A x \in Reports : x \in ActiveReports' => x \in ActiveReports
    BY DEF ActiveReports
  <2>2. Paused \/ status \in Terminal => Paused' \/ status' \in Terminal
    BY DEF Stay, Pause, Paused
  <2>3. QED
    BY <1>5, <2>1, <2>2 DEF RowsInv, ReportInv, ReportOps
<1>7. OpInv'
  BY <1>1, <1>2 DEF RowsInv, OpInv, RowInv, Cases
<1>8. \A d \in Cases : Reserved(op'[d]) <=> d = c
  BY <1>1
<1>9. NoOtherBlockingCases(Linked(c))'
  BY DEF NoOtherBlockingCases, Linked, ActiveReports, ActiveRequests, ActiveEscalations
<1>10. ReservationInv'
  BY <1>8, <1>9 DEF ReservationInv
<1>11. ClosedInv'
  <2>1. \A o : Ends(o, status) => Ends(o, status')
    BY EndsStay DEF RowsInv, Warranted
  <2>2. QED
    BY <1>1, <1>2, <2>1 DEF RowsInv, ClosedInv, Reached
<1>12. ProtectedInv' /\ AwaitedInv'
  BY <1>1, <1>8 DEF ProtectedInv, AwaitedInv, Awaited, Reached
<1>13. OpsKept
  BY <1>1, <1>2 DEF OpsKept
<1>14. QED
  BY <1>1, <1>3, <1>4, <1>5, <1>6, <1>7, <1>10, <1>11, <1>12, <1>13 DEF RowsInv

\* Claiming the decision on an escalated cancellation request.
LEMMA AdminCancellationDecides ==
    ASSUME TypeOK, TypeOK', DecisionInv, NEW w \in Workers,
           NEW r \in Requests, NEW out \in CancellationOutcomes, AdminResolveCancellation(r, out, w)
    PROVE  DecisionInv'
<1> DEFINE n == BeginAdminResolution(r, out, "none")
           x == request[r].report
<1>a. RowsInv /\ r \in Cases /\ r \notin Reports
  BY CasesDisjoint DEF DecisionInv, Cases
<1>b. out \in Outcomes /\ (out = "ADMIN_APPROVE" => out \in FinancialOutcomes) /\ out # "IMMEDIATE"
  BY DEF CancellationOutcomes, Outcomes, FinancialOutcomes, CancelOutcomes
<1>1. /\ Stay /\ UNCHANGED escalation
      /\ request[r].status \in {"ESCALATED", "UNDER_REVIEW"} /\ request[r].report # "none"
      /\ Claims(r, out, "none", n)
      /\ request' = [request EXCEPT ![r].status = "UNDER_REVIEW"]
      /\ report' = [report EXCEPT ![x].status = IF @ \in ActiveReport THEN "UNDER_REVIEW" ELSE @]
      /\ \/ Spawn(w, r, out, "decide")
         \/ Spawn(w, r, out, "reserve") /\ out = "ADMIN_APPROVE"
  BY DEF AdminResolveCancellation, AdminCancellationAllowed, Claims, bookingVars, Stay
<1> HIDE DEF n
<1>2. x \in Reports /\ ~request[r].immediate
  BY <1>1, <1>a DEF TypeOK, RowsInv, ImmediateInv
<1>3. /\ ActiveRequests' = ActiveRequests
      /\ \A q \in Requests :
            /\ request'[q].report = request[q].report /\ request'[q].immediate = request[q].immediate
            /\ request[q].immediate => request'[q].status = request[q].status
  BY <1>1, <1>2, RequestMoves DEF ActiveCancellation
<1>4. /\ ActiveReports' = ActiveReports
      /\ \A y \in Reports : /\ report'[y].type = report[y].type
                            /\ report'[y].status = "none" <=> report[y].status = "none"
                            /\ report[y].status = "UNDER_REVIEW" => report'[y].status = "UNDER_REVIEW"
  BY <1>1, <1>2, ReportMoves
<1>5. Calm /\ ReportsFollow(r)
  BY <1>1, <1>3, <1>4, <1>a DEF Calm, ReportsFollow, ActiveEscalations
<1>6. Orderly /\ (Awaited => Awaited') /\ op'[r].status = "PROCESSING" /\ op'[r].outcome = out
  BY <1>1, <1>3, <1>4, <1>5, <1>a, <1>b, Claimed
<1>7. /\ worker'[w].pc = "decide" \/ (worker'[w].pc = "reserve" /\ out = "ADMIN_APPROVE")
      /\ worker'[w].case = r /\ worker'[w].outcome = out
      /\ \A v \in Workers \ {w} : worker'[v] = worker[v]
  BY <1>1, MovedTo
<1>8. FlightOK(worker'[w], op', request') /\ ClaimOK(worker'[w], op', status', before')
  BY <1>a, <1>b, <1>6, <1>7 DEF FlightOK, ClaimOK, CancelPCs, RefundPCs
<1>9. QED
  BY <1>1, <1>5, <1>6, <1>7, <1>8, MoveKeeps DEF Warranted

\* Claiming the decision on a report: one with a financial effect finds the
\* booking paused.
LEMMA ReportDecides ==
    ASSUME TypeOK, TypeOK', DecisionInv, NEW w \in Workers, NEW x \in Reports,
           NEW out \in ReportOutcomes, NEW penalty \in {"none", "ban"}, ResolveAdminReport(x, out, penalty, w)
    PROVE  DecisionInv'
<1> DEFINE n == ReconcileReserved(BeginAdminResolution(x, out, penalty), out)
<1>a. RowsInv /\ x \in Cases /\ x \notin Requests
  BY CasesDisjoint DEF DecisionInv, Cases
<1>b. out \in Outcomes /\ out # "IMMEDIATE" /\ (out \in FinancialOutcomes => out \in {"cancel_booking", ReleaseOutcome})
  BY DEF ReportOutcomes, Outcomes, FinancialOutcomes, CancelOutcomes, ReleaseOutcome
<1>1. /\ Stay /\ UNCHANGED <<request, escalation>>
      /\ report[x].type # "CANCELLATION_ESCALATION" /\ report[x].status \in ActiveReport
      /\ Claims(x, out, penalty, n)
      /\ report' = [report EXCEPT ![x].status = "UNDER_REVIEW"]
      /\ Reserved(op[x]) \/ ReportDecision(x, out)
  BY <1>a DEF ResolveAdminReport, ReportResolutionAllowed, Claims, bookingVars, Stay
<1>2. \/ Spawn(w, x, out, "decide")
      \/ Spawn(w, x, out, "reserve") /\ out \in FinancialOutcomes /\ (out = ReleaseOutcome => ReportDecision(x, out))
  BY DEF ResolveAdminReport, ReportResolutionAllowed
<1> HIDE DEF n
<1>3. /\ ActiveReports' = ActiveReports
      /\ \A y \in Reports : /\ report'[y].type = report[y].type
                            /\ report'[y].status = "none" <=> report[y].status = "none"
                            /\ report[y].status = "UNDER_REVIEW" => report'[y].status = "UNDER_REVIEW"
      /\ report'[x].status = "UNDER_REVIEW"
  BY <1>1, ReportMoves
<1>4. Calm /\ ActiveRequests' = ActiveRequests
  BY <1>1, <1>3 DEF Calm, ActiveRequests, ActiveEscalations
<1>5. ReportsFollow(x)
  BY <1>1, <1>3 DEF ReportsFollow, ActiveReport
<1>6. Orderly /\ (Awaited => Awaited') /\ op'[x].status = "PROCESSING" /\ op'[x].outcome = out
  BY <1>1, <1>3, <1>4, <1>5, <1>a, <1>b, Claimed
<1>7. /\ \/ worker'[w].pc = "decide"
         \/ /\ worker'[w].pc = "reserve" /\ out \in FinancialOutcomes
            /\ out = ReleaseOutcome => ReportDecision(x, out)
      /\ worker'[w].case = x /\ worker'[w].outcome = out
      /\ \A v \in Workers \ {w} : worker'[v] = worker[v]
  BY <1>2, MovedTo
<1>8. FlightOK(worker'[w], op', request')
  BY <1>a, <1>b, <1>6, <1>7 DEF FlightOK, CancelPCs, RefundPCs
<1>9. ClaimOK(worker'[w], op', status', before')
  <2> SUFFICES ASSUME worker'[w].pc = "reserve"
               PROVE  \/ status \in {"DISPUTED", "UNDER_REVIEW"}
                         /\ (out = ReleaseOutcome => before = "AWAITING_CONFIRMATION")
                      \/ Ends(out, status)
    BY <1>1, <1>7 DEF ClaimOK, Stay
  <2>1. out \in {"cancel_booking", ReleaseOutcome} /\ (out = ReleaseOutcome => before = "AWAITING_CONFIRMATION")
    BY <1>b, <1>7 DEF ReportDecision, ReleaseOutcome
  <2>2. CASE out = ReleaseOutcome
    BY <1>a, <2>1, <2>2 DEF RowsInv, BookingInv, Paused
  <2>3. CASE out = "cancel_booking" /\ Reserved(op[x])
    <3>1. op[x].outcome = out
      BY <1>1, <2>3 DEF Claims, MayBegin, Reserved
    <3>2. Paused \/ Ends(out, status)
      BY <1>a, <2>3, <3>1 DEF RowsInv, ProtectedInv, Reached
    <3>3. QED
      BY <2>1, <3>2 DEF Paused
  <2>4. CASE out = "cancel_booking" /\ ReportDecision(x, out)
    <3>1. x \in ActiveReports /\ status \notin Terminal
      BY <1>1, <2>4 DEF ActiveReports, ReportDecision, Terminal
    <3>2. Paused
      BY <1>1, <1>a, <3>1 DEF RowsInv, ReportInv
    <3>3. QED
      BY <2>1, <3>2 DEF Paused
  <2>5. QED
    BY <1>1, <2>1, <2>2, <2>3, <2>4
<1>10. QED
  BY <1>1, <1>4, <1>6, <1>7, <1>8, <1>9, MoveKeeps DEF Warranted

\* Claiming the decision on a completion escalation.
LEMMA EscalationDecides ==
    ASSUME TypeOK, TypeOK', DecisionInv, NEW w \in Workers, NEW e \in Escalations,
           NEW out \in EscalationOutcomes, ResolveCompletionEscalation(e, out, w)
    PROVE  DecisionInv'
<1> DEFINE n == ReconcileReserved(BeginAdminResolution(e, out, "none"), out)
<1>a. RowsInv /\ e \in Cases /\ e \notin Requests /\ e \notin Reports
  BY CasesDisjoint DEF DecisionInv, Cases
<1>b. out \in Outcomes /\ out # "IMMEDIATE"
  BY DEF EscalationOutcomes, Outcomes, FinancialOutcomes, CancelOutcomes, ReleaseOutcome
<1>1. /\ Stay /\ UNCHANGED <<request, report>>
      /\ escalation[e].status \in ActiveEscalation
      /\ Claims(e, out, "none", n)
      /\ escalation' = [escalation EXCEPT ![e].status = "UNDER_REVIEW"]
  BY <1>a DEF ResolveCompletionEscalation, EscalationResolutionAllowed, Claims, bookingVars, Stay
<1>2. \/ Spawn(w, e, out, "decide")
      \/ Spawn(w, e, out, "reserve") /\ out \in FinancialOutcomes
  BY DEF ResolveCompletionEscalation
<1> HIDE DEF n
<1>3. ActiveEscalations' = ActiveEscalations
  BY <1>1 DEF ActiveEscalations, ActiveEscalation, TypeOK
<1>4. Calm /\ ReportsFollow(e) /\ ActiveRequests' = ActiveRequests /\ ActiveReports' = ActiveReports
  BY <1>1, <1>3, <1>a DEF Calm, ReportsFollow, ActiveRequests, ActiveReports
<1>6. Orderly /\ (Awaited => Awaited') /\ op'[e].status = "PROCESSING" /\ op'[e].outcome = out
  BY <1>1, <1>4, <1>a, <1>b, Claimed
<1>7. /\ worker'[w].pc = "decide" \/ (worker'[w].pc = "reserve" /\ out \in FinancialOutcomes)
      /\ worker'[w].case = e /\ worker'[w].outcome = out
      /\ \A v \in Workers \ {w} : worker'[v] = worker[v]
  BY <1>2, MovedTo
<1>8. FlightOK(worker'[w], op', request') /\ ClaimOK(worker'[w], op', status', before')
  BY <1>a, <1>b, <1>6, <1>7 DEF FlightOK, ClaimOK, CancelPCs, RefundPCs
<1>9. QED
  BY <1>1, <1>4, <1>6, <1>7, <1>8, MoveKeeps DEF Warranted

\* Claiming a decision on the booking itself, which holds the booking and
\* reserves the effect at once.
LEMMA BookingDecides ==
    ASSUME TypeOK, TypeOK', DecisionInv, NEW w \in Workers,
           NEW out \in AdminBookingOutcomes, ResolveAdminBooking(out, w)
    PROVE  DecisionInv'
<1> DEFINE c == AdminBooking
           n == ReconcileReserved(BeginAdminResolution(c, out, "none"), out)
           m == MarkStage(n, "FINANCIAL_EFFECT_RESERVED")
           reserve == ~Established(n) /\ n.stage # "FINANCIAL_EFFECT_RESERVED"
<1>a. RowsInv /\ c \in Cases /\ c \notin Requests /\ c \notin Reports
  BY CasesDisjoint DEF DecisionInv, Cases
<1>b. /\ out \in Outcomes /\ out # "IMMEDIATE" /\ out \in FinancialOutcomes
      /\ out # ReleaseOutcome => out \in CancelOutcomes
      /\ out = ReleaseOutcome => out \notin CancelOutcomes
  BY DEF AdminBookingOutcomes, Outcomes, FinancialOutcomes, CancelOutcomes, ReleaseOutcome
<1>1. /\ UNCHANGED <<request, report, escalation, started>>
      /\ op[c].status # "COMPLETED" /\ MayBegin(c, out, "none")
      /\ op' = [op EXCEPT ![c] = IF reserve THEN m ELSE n]
      /\ status' = IF reserve THEN "UNDER_REVIEW" ELSE status
      /\ before' = IF reserve THEN status ELSE before
      /\ reserve => /\ AdminBookingOutcomeAllowed(out) /\ NoOtherBlockingCases({})
                    /\ NoFinancialResolutionReserved({c})
  BY DEF ResolveAdminBooking, AdminBookingResolutionAllowed, caseVars
<1>2. \/ Spawn(w, c, out, "finalize")
      \/ ~Established(n) /\ out = ReleaseOutcome /\ Spawn(w, c, out, "settle")
      \/ ~Established(n) /\ out # ReleaseOutcome /\ Spawn(w, c, out, "cancel_read")
  BY DEF ResolveAdminBooking
<1>3. RowInv(op[c]) /\ "none" \in {"none", "ban"}
  BY <1>a DEF RowsInv, OpInv, RowInv
<1>4. n \in OpType /\ RowInv(n) /\ n.status = "PROCESSING" /\ n.outcome = out
  BY <1>1, <1>3, <1>a, <1>b, ClaimReserves
<1>5. n = ReconcileReserved(BeginAdminResolution(c, out, "none"), out)
  OBVIOUS
<1> HIDE DEF n
<1>6. Reserved(m) /\ RowInv(m) /\ m.outcome = out
  BY <1>4, MarkReserves
<1> HIDE DEF m
<1>7. CASE reserve
  <2>1. Pause
    BY <1>1, <1>7 DEF AdminBookingOutcomeAllowed, Pause, Resumable
  <2>2. NoOtherBlockingCases(Linked(c)) /\ \A d \in Cases \ {c} : ~Reserved(op[d])
    BY <1>1, <1>7 DEF NoOtherBlockingCases, NoFinancialResolutionReserved
  <2>3. Paused'
    BY <2>1 DEF Pause, Paused
  <2>4. op' = [op EXCEPT ![c] = m] /\ (op[c].status # "none" => m.outcome = op[c].outcome)
    BY <1>1, <1>6, <1>7 DEF MayBegin
  <2>5. RowsInv' /\ ReportOps /\ OpsKept /\ ImmediateStays /\ op'[c] = m
    BY <1>1, <1>6, <1>a, <1>b, <2>1, <2>2, <2>3, <2>4, Reserves
  <2>6. /\ \/ worker'[w].pc = "finalize"
           \/ worker'[w].pc = "settle" /\ out = ReleaseOutcome
           \/ worker'[w].pc = "cancel_read" /\ out \in CancelOutcomes
        /\ worker'[w].case = c /\ worker'[w].outcome = out
        /\ \A v \in Workers \ {w} : worker'[v] = worker[v]
    BY <1>2, <1>b, MovedTo
  <2>7. m.status # "none"
    BY <1>6 DEF Reserved
  <2>8. FlightOK(worker'[w], op', request') /\ ClaimOK(worker'[w], op', status', before')
    BY <1>6, <1>a, <1>b, <2>5, <2>6, <2>7 DEF FlightOK, ClaimOK, CancelPCs, RefundPCs
  <2>9. QED
    BY <2>1, <2>5, <2>6, <2>8, FlightsKept DEF DecisionInv
<1>8. CASE ~reserve
  <2>1. Stay /\ Claims(c, out, "none", n)
    BY <1>1, <1>5, <1>8, <1>a DEF Stay, Claims
  <2>2. Calm /\ ReportsFollow(c) /\ ActiveRequests' = ActiveRequests /\ ActiveReports' = ActiveReports
    BY <1>1, <1>a DEF Calm, ReportsFollow, ActiveRequests, ActiveReports, ActiveEscalations
  <2>3. Orderly /\ (Awaited => Awaited') /\ op'[c] = n
    BY <1>a, <1>b, <1>3, <2>1, <2>2, Claimed
  <2>4. ~Established(n) => Reserved(n)
    BY <1>4, <1>8 DEF Reserved
  <2>5. /\ \/ worker'[w].pc = "finalize"
           \/ worker'[w].pc = "settle" /\ out = ReleaseOutcome /\ Reserved(n)
           \/ worker'[w].pc = "cancel_read" /\ out \in CancelOutcomes /\ Reserved(n)
        /\ worker'[w].case = c /\ worker'[w].outcome = out
        /\ \A v \in Workers \ {w} : worker'[v] = worker[v]
    BY <1>2, <1>b, <2>4, MovedTo
  <2>6. FlightOK(worker'[w], op', request') /\ ClaimOK(worker'[w], op', status', before')
    BY <1>4, <1>a, <1>b, <2>3, <2>5 DEF FlightOK, ClaimOK, CancelPCs, RefundPCs
  <2>7. QED
    BY <2>1, <2>2, <2>3, <2>5, <2>6, MoveKeeps DEF Warranted
<1>9. QED
  BY <1>7, <1>8

-----------------------------------------------------------------------------
(* The steps of an operation in flight                                      *)

\* The request w ends, or goes on with what it carries out.
Onward(w) ==
    /\ \A v \in Workers \ {w} : worker'[v] = worker[v]
    /\ \/ worker'[w].pc = "idle"
       \/ /\ worker[w].pc # "idle"
          /\ worker'[w].case = worker[w].case /\ worker'[w].outcome = worker[w].outcome
          /\ \/ worker'[w].pc \in {"finalize", "fail"} /\ worker[w].outcome # "IMMEDIATE"
             \/ worker'[w].pc \in CancelPCs /\ worker[w].pc \in CancelPCs
             \/ worker'[w].pc = "mark" /\ worker[w].pc \in CancelPCs \cup {"settle"} /\ worker[w].outcome # "IMMEDIATE"
             \/ worker'[w].pc = "immediate_final" /\ worker[w].outcome = "IMMEDIATE"

\* An error ends the request, or sends it to record the failure.
LEMMA Throws ==
    ASSUME TypeOK, NEW w \in Workers, worker[w].pc # "idle", Done(w) \/ Throw(w)
    PROVE  Onward(w)
BY MovedTo DEF Onward

\* What a request in flight carries out is backed by a reservation, unless the
\* booking has ended as it wants.
LEMMA Backed ==
    ASSUME DecisionInv, NEW w \in Workers
    PROVE  /\ worker[w].pc \in CancelPCs /\ status \notin Terminal =>
                 \/ \E c \in Cases : Reserved(op[c]) /\ op[c].outcome \in CancelOutcomes
                 \/ \E r \in Requests : request[r].immediate
           /\ worker[w].pc = "settle" /\ status # "COMPLETED" =>
                 \E c \in Cases : Reserved(op[c]) /\ op[c].outcome = ReleaseOutcome
<1>1. FlightOK(worker[w], op, request)
  BY DEF DecisionInv, FlightInv
<1>2. \A c \in Cases : op[c].status = "COMPLETED" => Ends(op[c].outcome, status)
  BY DEF DecisionInv, RowsInv, ClosedInv, Reached
<1>3. ASSUME worker[w].pc \in CancelPCs, status \notin Terminal
      PROVE  \/ \E c \in Cases : Reserved(op[c]) /\ op[c].outcome \in CancelOutcomes
             \/ \E r \in Requests : request[r].immediate
  <2>1. worker[w].pc # "idle"
    BY <1>3 DEF CancelPCs, RefundPCs
  <2>2. CASE worker[w].outcome = "IMMEDIATE"
    BY <1>1, <2>1, <2>2 DEF FlightOK
  <2>3. CASE worker[w].outcome # "IMMEDIATE"
    BY <1>1, <1>2, <1>3, <2>1, <2>3 DEF FlightOK, Ends, Terminal
  <2>4. QED
    BY <2>2, <2>3
<1>4. ASSUME worker[w].pc = "settle", status # "COMPLETED"
      PROVE  \E c \in Cases : Reserved(op[c]) /\ op[c].outcome = ReleaseOutcome
  <2>1. worker[w].outcome # "IMMEDIATE"
    BY <1>1, <1>4 DEF FlightOK, CancelPCs, RefundPCs
  <2>2. QED
    BY <1>1, <1>2, <1>4, <2>1 DEF FlightOK, Ends
<1>5. QED
  BY <1>3, <1>4

\* A step of a request in flight that touches no case and no operation.
LEMMA QuietMove ==
    ASSUME TypeOK, TypeOK', DecisionInv, NEW w \in Workers, Warranted,
           UNCHANGED <<request, report, escalation, op>>, Onward(w)
    PROVE  DecisionInv'
<1>1. FlightOK(worker[w], op', request')
  BY DEF DecisionInv, FlightInv
<1>2. FlightOK(worker'[w], op', request') /\ ClaimOK(worker'[w], op', status', before')
  BY <1>1, Flies DEF Onward
<1>3. QED
  BY <1>2, Quiet, MoveKeeps DEF Onward, DecisionInv

\* The reads, the refund, and the settlements.
LEMMA MoneySteps ==
    ASSUME TypeOK, TypeOK', MoneyInv, DecisionInv, NEW w \in Workers,
           \/ CancelRead(w) \/ RefundRead(w) \/ RefundReserve(w) \/ RefundGateway(w) \/ RefundFailed(w)
           \/ RefundFinal(w) \/ CancelTx(w) \/ SettleByAdmin(w)
           \/ Crash(w) \/ IntentLookupFails(w) \/ RefundGatewayFails(w)
    PROVE  DecisionInv'
<1>a. /\ \A pc \in {"cancel_read", "cancel_tx", "refund_read", "refund_reserve", "refund_gateway", "refund_failed",
                    "refund_final"} : pc \in CancelPCs /\ pc # "idle"
      /\ "settle" # "idle"
  BY DEF CancelPCs, RefundPCs
<1> USE DEF bookingVars, moneyVars, caseVars
<1>b. /\ \A pc : Goto(w, pc) =>
            /\ worker'[w].pc = pc /\ worker'[w].case = worker[w].case /\ worker'[w].outcome = worker[w].outcome
            /\ \A v \in Workers \ {w} : worker'[v] = worker[v]
      /\ worker[w].pc # "idle" /\ (Done(w) \/ Throw(w)) => Onward(w)
  BY MovedTo, Throws
<1>1. CASE Crash(w) \/ IntentLookupFails(w) \/ RefundGatewayFails(w) \/ RefundGateway(w) \/ RefundFailed(w) \/ RefundRead(w)
  <2>1. Stay /\ UNCHANGED <<request, report, escalation, op>>
    BY <1>1 DEF Crash, IntentLookupFails, RefundGatewayFails, RefundGateway, RefundFailed, RefundRead, StepOrThrow, Stay
  <2>2. worker[w].pc # "idle"
    BY <1>1 DEF Crash, IntentLookupFails, RefundGatewayFails, RefundGateway, RefundFailed, RefundRead, At
  <2>3. \/ Done(w) \/ Throw(w)
        \/ worker[w].pc \in CancelPCs /\ \E pc \in CancelPCs : Goto(w, pc)
    BY <1>1, <1>a DEF Crash, IntentLookupFails, RefundGatewayFails, RefundGateway, RefundFailed, RefundRead, StepOrThrow, At
  <2>4. Onward(w)
    BY <1>b, <2>2, <2>3 DEF Onward
  <2>5. QED
    BY <2>1, <2>4, QuietMove DEF Warranted
<1>2. CASE CancelRead(w)
  <2>1. Stay /\ UNCHANGED <<request, report, escalation, op>> /\ worker[w].pc = "cancel_read"
    BY <1>2 DEF CancelRead, StepOrThrow, Stay, At
  <2>2. \/ Throw(w)
        \/ worker' = [worker EXCEPT ![w].held = pay \in Held, ![w].pc = IF pay \in Held THEN "refund_read" ELSE "cancel_tx"]
    BY <1>2 DEF CancelRead, StepOrThrow
  <2>3. ASSUME worker' = [worker EXCEPT ![w].held = pay \in Held, ![w].pc = IF pay \in Held THEN "refund_read" ELSE "cancel_tx"]
        PROVE  Onward(w)
    <3>1. /\ worker'[w].pc \in {"refund_read", "cancel_tx"}
          /\ worker'[w].case = worker[w].case /\ worker'[w].outcome = worker[w].outcome
          /\ \A v \in Workers \ {w} : worker'[v] = worker[v]
      BY <2>3 DEF TypeOK
    <3>2. QED
      BY <1>a, <2>1, <3>1 DEF Onward
  <2>4. QED
    BY <1>b, <2>1, <2>2, <2>3, QuietMove DEF Warranted
<1>3. CASE RefundReserve(w)
  <2>1. Stay /\ UNCHANGED <<request, report, escalation, op>> /\ worker[w].pc = "refund_reserve"
    BY <1>3 DEF RefundReserve, StepOrThrow, Stay, At
  <2>2. \/ Throw(w)
        \/ worker' = [worker EXCEPT ![w].resumed = refund.ref, ![w].pc = IF refund.ref THEN "refund_final" ELSE "refund_gateway"]
    BY <1>3 DEF RefundReserve, StepOrThrow
  <2>3. ASSUME worker' = [worker EXCEPT ![w].resumed = refund.ref,
                                        ![w].pc = IF refund.ref THEN "refund_final" ELSE "refund_gateway"]
        PROVE  Onward(w)
    <3>1. /\ worker'[w].pc \in {"refund_final", "refund_gateway"}
          /\ worker'[w].case = worker[w].case /\ worker'[w].outcome = worker[w].outcome
          /\ \A v \in Workers \ {w} : worker'[v] = worker[v]
      BY <2>3 DEF TypeOK
    <3>2. QED
      BY <1>a, <2>1, <3>1 DEF Onward
  <2>4. QED
    BY <1>b, <2>1, <2>2, <2>3, QuietMove DEF Warranted
<1>4. CASE RefundFinal(w)
  <2>1. UNCHANGED <<request, report, escalation, op>> /\ worker[w].pc = "refund_final"
    BY <1>4 DEF RefundFinal, StepOrThrow, At
  <2>2. Throw(w) \/ Goto(w, "cancel_tx")
    BY <1>4 DEF RefundFinal, StepOrThrow
  <2>3. Stay \/ (pay \in Held /\ UNCHANGED started /\ status' = "CANCELED" /\ before' = "none")
    BY <1>4 DEF RefundFinal, StepOrThrow, Stay
  <2>4. Stay \/ (status \notin Terminal /\ Cancels)
    BY <2>3, HeldFacts DEF Cancels
  <2>5. Warranted
    BY <1>a, <2>1, <2>4, Backed DEF Warranted
  <2>6. Onward(w)
    BY <1>a, <1>b, <2>1, <2>2 DEF Onward
  <2>7. QED
    BY <2>1, <2>5, <2>6, QuietMove
<1>5. CASE CancelTx(w)
  <2>1. UNCHANGED <<request, report, escalation, op>> /\ worker[w].pc = "cancel_tx"
    BY <1>5 DEF CancelTx, StepOrThrow, At
  <2>2. \/ Throw(w)
        \/ Goto(w, "immediate_final") /\ worker[w].outcome = "IMMEDIATE"
        \/ Goto(w, "mark") /\ worker[w].outcome # "IMMEDIATE"
    BY <1>5 DEF CancelTx, StepOrThrow
  <2>3. Stay \/ (status \notin Terminal /\ Cancels)
    BY <1>5 DEF CancelTx, StepOrThrow, Stay, Terminal, Cancels
  <2>4. Warranted
    BY <1>a, <2>1, <2>3, Backed DEF Warranted
  <2>5. Onward(w)
    BY <1>a, <1>b, <2>1, <2>2 DEF Onward
  <2>6. QED
    BY <2>1, <2>4, <2>5, QuietMove
<1>6. CASE SettleByAdmin(w)
  <2>1. UNCHANGED <<request, report, escalation, op>> /\ worker[w].pc = "settle"
    BY <1>6 DEF SettleByAdmin, StepOrThrow, At
  <2>2. Throw(w) \/ Goto(w, "mark")
    BY <1>6 DEF SettleByAdmin, StepOrThrow
  <2>3. Stay \/ (status # "COMPLETED" /\ Settles)
    BY <1>6 DEF SettleByAdmin, StepOrThrow, Stay, SettleAllowed, Settle, Settles, Paused
  <2>4. Warranted
    BY <2>1, <2>3, Backed DEF Warranted
  <2>5. worker[w].outcome # "IMMEDIATE"
    BY <2>1 DEF DecisionInv, FlightInv, FlightOK, CancelPCs, RefundPCs
  <2>6. Onward(w)
    BY <1>a, <1>b, <2>1, <2>2, <2>5 DEF Onward
  <2>7. QED
    BY <2>1, <2>4, <2>6, QuietMove
<1>7. QED
  BY <1>1, <1>2, <1>3, <1>4, <1>5, <1>6

\* Rewriting a row without reserving, releasing or completing it.
LEMMA Rewritten ==
    ASSUME TypeOK, RowsInv, NEW c \in Cases, op[c].status # "none", NEW n, op' = [op EXCEPT ![c] = n],
           RowInv(n), n.status # "none", n.outcome = op[c].outcome, Reserved(n) <=> Reserved(op[c]),
           n.status = "COMPLETED" <=> op[c].status = "COMPLETED", UNCHANGED <<request, report, escalation>>
    PROVE  Calm /\ Orderly /\ (Awaited => Awaited')
<1>1. Calm
  BY DEF Calm, ActiveReports, ActiveRequests, ActiveEscalations
<1>2. c \in Reports => /\ report[c].status # "none" /\ report[c].type # "CANCELLATION_ESCALATION"
                       /\ n.status \in {"PROCESSING", "FAILED_RETRYABLE"} => report'[c].status = "UNDER_REVIEW"
  <2>1. op[c].status \in {"PROCESSING", "FAILED_RETRYABLE", "COMPLETED"}
    BY DEF TypeOK
  <2>2. QED
    BY <2>1 DEF RowsInv, ReportInv
<1>3. c \in Requests => n.outcome \in {"PARTICIPANT_APPROVE"} \cup CancellationOutcomes
  BY DEF RowsInv, OpInv
<1>4. Orderly
  BY <1>2, <1>3, OpWritten
<1>5. \A d \in Cases : Reserved(op'[d]) <=> Reserved(op[d])
  BY DEF TypeOK
<1>6. Awaited => Awaited'
  BY <1>5 DEF Awaited, ActiveReports, ActiveRequests
<1>7. QED
  BY <1>1, <1>4, <1>6

\* Marking a stage, and recording a failure.
LEMMA MarkSteps ==
    ASSUME TypeOK, TypeOK', DecisionInv, NEW w \in Workers, Mark(w) \/ Fail(w)
    PROVE  DecisionInv'
<1> DEFINE c == worker[w].case
<1>1. /\ Stay /\ UNCHANGED <<request, report, escalation>> /\ worker[w].pc \in {"mark", "decide", "fail"}
      /\ \E n : /\ op' = [op EXCEPT ![c] = n]
                /\ \/ worker[w].pc = "mark" /\ n = MarkStage(op[c], "FINANCIAL_EFFECT_ESTABLISHED")
                   \/ worker[w].pc = "decide" /\ n = MarkStage(op[c], "DECISION_READY")
                   \/ worker[w].pc = "fail" /\ n = MarkFailed(op[c])
      /\ Goto(w, "finalize") \/ Done(w)
  BY DEF Mark, Fail, Stay, bookingVars, caseVars, At
<1>2. FlightOK(worker[w], op, request)
  BY DEF DecisionInv, FlightInv
<1>3. /\ worker[w].outcome # "IMMEDIATE" /\ c \in Cases /\ op[c].status # "none"
      /\ worker[w].pc = "mark" => Reserved(op[c]) \/ op[c].status = "COMPLETED"
  BY <1>1, <1>2 DEF FlightOK, CancelPCs, RefundPCs
<1>4. op[c] \in OpType /\ RowInv(op[c]) /\ RowsInv
  BY <1>3 DEF TypeOK, OpType, DecisionInv, RowsInv, OpInv, RowInv
<1>5. PICK n : /\ op' = [op EXCEPT ![c] = n]
               /\ \/ worker[w].pc = "mark" /\ n = MarkStage(op[c], "FINANCIAL_EFFECT_ESTABLISHED")
                  \/ worker[w].pc = "decide" /\ n = MarkStage(op[c], "DECISION_READY")
                  \/ worker[w].pc = "fail" /\ n = MarkFailed(op[c])
  BY <1>1
<1>6. /\ RowInv(n) /\ n.status # "none" /\ n.outcome = op[c].outcome /\ (Reserved(n) <=> Reserved(op[c]))
      /\ n.status = "COMPLETED" <=> op[c].status = "COMPLETED"
  <2>1. CASE worker[w].pc = "mark" /\ n = MarkStage(op[c], "FINANCIAL_EFFECT_ESTABLISHED")
    BY <1>3, <1>4, <2>1, MarkReserves
  <2>2. CASE worker[w].pc = "decide" /\ n = MarkStage(op[c], "DECISION_READY")
    BY <1>3, <1>4, <2>2, MarkReserves
  <2>3. CASE n = MarkFailed(op[c])
    <3>1. \/ n = op[c] /\ op[c].status \notin {"PROCESSING", "FAILED_RETRYABLE"}
          \/ /\ n.status = "FAILED_RETRYABLE" /\ n.stage = op[c].stage /\ n.outcome = op[c].outcome
             /\ op[c].status \in {"PROCESSING", "FAILED_RETRYABLE"}
      BY <1>4, <2>3 DEF MarkFailed, OpType
    <3>2. QED
      BY <1>3, <1>4, <3>1 DEF RowInv, Reserved
  <2>4. QED
    BY <1>5, <2>1, <2>2, <2>3
<1>7. Calm /\ Orderly /\ (Awaited => Awaited')
  BY <1>1, <1>3, <1>4, <1>5, <1>6, Rewritten
<1>8. Onward(w)
  BY <1>1, <1>3, MovedTo DEF Onward
<1>9. FlightOK(worker[w], op', request')
  BY <1>2, <1>7, FlightKept DEF Orderly, Calm, ImmediateStays
<1>10. FlightOK(worker'[w], op', request') /\ ClaimOK(worker'[w], op', status', before')
  BY <1>8, <1>9, Flies DEF Onward
<1>11. QED
  BY <1>1, <1>7, <1>8, <1>10, MoveKeeps DEF Onward, Warranted

\* The last transaction of an immediate cancellation.
LEMMA ImmediateFinalStep ==
    ASSUME TypeOK, TypeOK', DecisionInv, NEW w \in Workers, ImmediateFinal(w)
    PROVE  DecisionInv'
<1> DEFINE c == worker[w].case
<1>1. /\ Stay /\ UNCHANGED <<report, escalation, op>> /\ worker[w].pc = "immediate_final" /\ Done(w)
      /\ \/ UNCHANGED request
         \/ status = "CANCELED" /\ request' = [request EXCEPT ![c].status = "APPROVED"]
  BY DEF ImmediateFinal, Stay, bookingVars, At
<1>2. Onward(w)
  BY <1>1, Throws
<1>3. CASE UNCHANGED request
  BY <1>1, <1>2, <1>3, QuietMove DEF Warranted
<1>4. CASE status = "CANCELED" /\ request' = [request EXCEPT ![c].status = "APPROVED"]
  <2>1. c \in Requests
    BY <1>1 DEF DecisionInv, FlightInv, FlightOK
  <2>2. /\ request'[c].status = "APPROVED" /\ request'[c].report = request[c].report
        /\ request'[c].immediate = request[c].immediate
        /\ \A r \in Requests \ {c} : request'[r] = request[r]
    BY <1>4, <2>1 DEF TypeOK
  <2>3. Calm
    BY <1>1, <1>4, <2>2 DEF Calm, ActiveReports, ActiveRequests, ActiveEscalations, ActiveCancellation
  <2>4. Orderly
    BY <1>1 DEF Orderly, NoReservation, OpsKept, ReportOps, DecisionInv, RowsInv, ReportInv, OpInv, RowInv
  <2>5. ~Paused
    BY <1>4 DEF Paused
  <2>6. FlightOK(worker'[w], op', request') /\ ClaimOK(worker'[w], op', status', before')
    BY <1>1, MovedTo DEF FlightOK, ClaimOK
  <2>7. QED
    BY <1>1, <1>2, <2>3, <2>4, <2>5, <2>6, MoveKeeps DEF Onward, Warranted
<1>5. QED
  BY <1>1, <1>3, <1>4

\* The second check before the effect: no other case is open, so none of their
\* decisions can be reserved either.
LEMMA ReserveStep ==
    ASSUME TypeOK, TypeOK', DecisionInv, NEW w \in Workers, Reserve(w)
    PROVE  DecisionInv'
<1> DEFINE c == worker[w].case
           out == worker[w].outcome
           n == MarkStage(op[c], "FINANCIAL_EFFECT_RESERVED")
           skip == op[c].status = "COMPLETED" \/ Established(op[c])
           next == IF out = ReleaseOutcome THEN "settle" ELSE "cancel_read"
<1>a. RowsInv /\ FlightOK(worker[w], op, request) /\ ClaimOK(worker[w], op, status, before)
  BY DEF DecisionInv, FlightInv, ClaimInv
<1>b. worker[w].pc = "reserve"
  BY DEF Reserve, At
<1>c. /\ out # "IMMEDIATE" /\ c \in Cases /\ op[c].status # "none" /\ op[c].outcome = out
      /\ out \in FinancialOutcomes
  BY <1>a, <1>b DEF FlightOK, CancelPCs, RefundPCs
<1>d. op[c] \in OpType /\ RowInv(op[c])
  BY <1>a, <1>c DEF TypeOK, OpType, RowsInv, OpInv, RowInv
<1>e. out # ReleaseOutcome => out \in CancelOutcomes
  BY <1>c DEF FinancialOutcomes
<1>f. UNCHANGED <<request, report, escalation, started>>
  BY DEF Reserve, StepOrThrow, bookingVars, caseVars
<1>1. CASE Throw(w) /\ UNCHANGED <<status, before, op>>
  <2>1. Onward(w)
    BY <1>1, <1>b, Throws
  <2>2. QED
    BY <1>1, <1>f, <2>1, QuietMove DEF Stay, Warranted
<1>2. CASE ~(Throw(w) /\ UNCHANGED <<status, before, op>>)
  <2> DEFINE caseOpen == \/ c \in Requests /\ request[c].status = "UNDER_REVIEW"
                         \/ c \in Reports /\ report[c].status = "UNDER_REVIEW"
                         \/ c \in Escalations /\ escalation[c].status = "UNDER_REVIEW"
             hold == c \in Escalations /\ ~skip /\ status = "AWAITING_CONFIRMATION"
  <2>1. /\ caseOpen
        /\ skip \/ /\ NoOtherBlockingCases(Linked(c))
                   /\ \/ c \notin Escalations
                      \/ status = "AWAITING_CONFIRMATION"
                      \/ status = "UNDER_REVIEW"
        /\ op' = IF skip THEN op ELSE [op EXCEPT ![c] = n]
        /\ status' = IF hold THEN "UNDER_REVIEW" ELSE status
        /\ before' = IF hold THEN "AWAITING_CONFIRMATION" ELSE before
        /\ Goto(w, next)
    BY <1>2 DEF Reserve, StillUnderReview, StepOrThrow, Linked, bookingVars, caseVars
  <2>2. /\ worker'[w].pc = next /\ worker'[w].case = c /\ worker'[w].outcome = out
        /\ \A v \in Workers \ {w} : worker'[v] = worker[v]
    BY <2>1, MovedTo
  <2>3. CASE skip
    <3>1. Stay /\ UNCHANGED op
      BY <1>f, <2>1, <2>3 DEF Stay
    <3>2. Reserved(op[c]) \/ op[c].status = "COMPLETED"
      BY <1>c, <1>d, <2>3 DEF Established, Reserved, RowInv, OpType
    <3>3. FlightOK(worker'[w], op', request') /\ ClaimOK(worker'[w], op', status', before')
      BY <1>c, <1>e, <2>2, <3>1, <3>2 DEF FlightOK, ClaimOK, CancelPCs, RefundPCs
    <3>4. QED
      BY <1>a, <1>f, <2>2, <3>1, <3>3, Quiet, MoveKeeps DEF Warranted
  <2>4. CASE ~skip
    <3>1. Reserved(n) /\ RowInv(n) /\ n.outcome = out /\ op[c].status # "COMPLETED"
      BY <1>c, <1>d, <2>4, MarkReserves
    <3>2. op' = [op EXCEPT ![c] = n] /\ NoOtherBlockingCases(Linked(c))
      BY <2>1, <2>4
    <3> HIDE DEF n, skip
    <3>3. Stay \/ Pause
      BY <1>f, <2>1 DEF Stay, Pause, Resumable
    <3>4. c \in Reports => report[c].status = "UNDER_REVIEW" /\ report[c].type # "CANCELLATION_ESCALATION"
      BY <1>a, <1>c, <2>1, CasesDisjoint DEF RowsInv, ReportInv
    <3>5. \A d \in Cases \ {c} : ~Reserved(op[d])
      <4> SUFFICES ASSUME NEW d \in Cases \ {c}, Reserved(op[d]) PROVE FALSE
        OBVIOUS
      <4>1. c \in Linked(d)
        BY <1>a, <2>1 DEF RowsInv, ReservationInv, NoOtherBlockingCases, ActiveReports, ActiveRequests,
           ActiveEscalations, ActiveReport, ActiveCancellation, ActiveEscalation
      <4>2. d \in Requests /\ c = request[d].report
        BY <4>1 DEF Linked
      <4>3. c \in Reports /\ report[c].type = "CANCELLATION_ESCALATION"
        BY <1>a, <1>c, <4>2, NoneIsNoCase DEF RowsInv, ReportInv, TypeOK
      <4>4. QED
        BY <3>4, <4>3
    <3>6. c \notin Requests => Paused' \/ Ends(out, status')
      <4>1. CASE c \in Reports
        <5>1. c \notin Escalations
          BY <4>1, CasesDisjoint
        <5>2. status' = status
          BY <2>1, <5>1
        <5>3. QED
          BY <1>a, <1>b, <3>1, <4>1, <5>2 DEF ClaimOK, Paused
      <4>2. CASE c \in Escalations
        BY <2>1, <2>4, <4>2 DEF Paused
      <4>3. QED
        BY <2>1, <4>1, <4>2
    <3>7. c \in Requests => out \in {"PARTICIPANT_APPROVE"} \cup CancellationOutcomes
      BY <1>a, <1>c DEF RowsInv, OpInv
    <3>8. RowsInv' /\ ReportOps /\ OpsKept /\ ImmediateStays /\ op'[c] = n
      BY <1>a, <1>c, <1>f, <3>1, <3>2, <3>3, <3>4, <3>5, <3>6, <3>7, Reserves
    <3>9. n.status # "none"
      BY <3>1 DEF Reserved
    <3>10. FlightOK(worker'[w], op', request') /\ ClaimOK(worker'[w], op', status', before')
      BY <1>c, <1>e, <2>2, <3>1, <3>8, <3>9 DEF FlightOK, ClaimOK, CancelPCs, RefundPCs
    <3>11. QED
      BY <2>2, <3>3, <3>8, <3>10, FlightsKept DEF DecisionInv, Warranted
  <2>5. QED
    BY <2>3, <2>4
<1>3. QED
  BY <1>1, <1>2

\* restoreBookingIfNoBlockingCases resumes a booking that nothing holds, and
\* leaves any other paused booking to what still holds it.
LEMMA Restores ==
    ASSUME TypeOK, BookingInv, RestoreBooking(request', report'),
           \A c \in Cases \ Requests : ~Reserved(op[c])
    PROVE  Warranted /\ (Paused /\ Paused' => Awaited')
<1>1. \A r \in Requests : r \in ActiveRequests' <=> request'[r].status \in ActiveCancellation
  BY DEF ActiveRequests
<1>2. \A x \in Reports : x \in ActiveReports' <=> report'[x].status \in ActiveReport
  BY DEF ActiveReports
<1>3. ActiveRequests' \subseteq Requests /\ ActiveReports' \subseteq Reports
  BY DEF ActiveRequests, ActiveReports
<1>4. CASE /\ \A r \in Requests : request'[r].status \notin ActiveCancellation
           /\ \A x \in Reports : report'[x].status \notin ActiveReport
           /\ Paused /\ before # "none"
  <2>1. Resume
    BY <1>4 DEF RestoreBooking, Resume, Paused
  <2>2. ActiveRequests' = {} /\ ActiveReports' = {}
    BY <1>1, <1>2, <1>3, <1>4
  <2>3. ~Paused'
    BY <2>1 DEF Resume, BookingInv, Paused, Resumable
  <2>4. QED
    BY <2>1, <2>2, <2>3 DEF Warranted
<1>5. CASE ~(/\ \A r \in Requests : request'[r].status \notin ActiveCancellation
             /\ \A x \in Reports : report'[x].status \notin ActiveReport
             /\ Paused /\ before # "none")
  <2>1. Stay
    BY <1>5 DEF RestoreBooking, Stay, bookingVars, Paused
  <2>2. Paused => ActiveRequests' # {} \/ ActiveReports' # {}
    BY <1>1, <1>2, <1>5 DEF BookingInv, Resumable
  <2>3. QED
    BY <2>1, <2>2 DEF Warranted, Awaited
<1>6. QED
  BY <1>4, <1>5

\* Closing a cancellation request, with the report that escalated it.
LEMMA RequestCloses ==
    ASSUME TypeOK, DecisionInv, NEW c \in Requests, NEW outcome, op[c].outcome = outcome,
           op[c].status # "none", EffectReached(outcome), FinalizeRequest(c, outcome),
           outcome # "PARTICIPANT_APPROVE" => request[c].status = "UNDER_REVIEW" /\ request[c].report # "none"
    PROVE  /\ Calm /\ Warranted /\ (Paused /\ Paused' /\ Awaited => Awaited')
           /\ \A x \in Reports : report[x].type # "CANCELLATION_ESCALATION" => report'[x] = report[x]
<1> DEFINE y == request[c].report
<1>1. RowsInv
  BY DEF DecisionInv
<1>2. /\ request'[c].status \in {"APPROVED", "RESOLVED"} /\ request'[c].report = request[c].report
      /\ request'[c].immediate = request[c].immediate
      /\ \A r \in Requests \ {c} : request'[r] = request[r]
  BY DEF FinalizeRequest, TypeOK
<1>3. y # "none" => y \in Reports /\ report[y].type = "CANCELLATION_ESCALATION" /\ report[y].status # "none"
  BY <1>1 DEF RowsInv, ReportInv, TypeOK
<1>4. \/ report' = report
      \/ \E s \in {"RESOLVED", "DISMISSED"} : y # "none" /\ report' = [report EXCEPT ![y].status = s]
  <2>1. y # "none" => [report EXCEPT ![y].status = report[y].status] = report
    BY <1>3 DEF TypeOK
  <2>2. QED
    BY <2>1 DEF FinalizeRequest
<1>5. \A x \in Reports : /\ report'[x].type = report[x].type
                         /\ report'[x].status = report[x].status \/ (x = y /\ report'[x].status \in {"RESOLVED", "DISMISSED"})
                         /\ x # y => report'[x] = report[x]
  BY <1>3, <1>4 DEF TypeOK
<1>6. \/ outcome = "ADMIN_DENY" /\ ~request[c].immediate /\ c \in ActiveRequests
      \/ outcome # "ADMIN_DENY" /\ status = "CANCELED"
  <2>1. outcome \in {"PARTICIPANT_APPROVE", "ADMIN_APPROVE", "ADMIN_DENY"}
    BY <1>1 DEF RowsInv, OpInv, CancellationOutcomes
  <2>2. CASE outcome = "ADMIN_DENY"
    BY <1>1, <2>2 DEF RowsInv, ImmediateInv, ActiveRequests, ActiveCancellation
  <2>3. CASE outcome # "ADMIN_DENY"
    BY <2>1, <2>3 DEF EffectReached, CancelOutcomes, Cancelled
  <2>4. QED
    BY <2>2, <2>3
<1>7. Calm
  <2>1. ActiveReports' \subseteq ActiveReports
    BY <1>5 DEF ActiveReports, ActiveReport
  <2>2. ActiveRequests' \subseteq ActiveRequests
    BY <1>2 DEF ActiveRequests, ActiveCancellation
  <2>3. ActiveEscalations' \subseteq ActiveEscalations
    BY DEF FinalizeRequest, ActiveEscalations
  <2>4. \A x \in Reports : report'[x].type = report[x].type /\ (report'[x].status = "none" <=> report[x].status = "none")
    BY <1>3, <1>5, NoneIsNoCase DEF Cases
  <2>5. \A r \in Requests :
          /\ request'[r].report = request[r].report /\ request'[r].immediate = request[r].immediate
          /\ request[r].immediate => \/ request'[r].status = request[r].status
                                     \/ request'[r].status \in {"APPROVED", "RESOLVED"} /\ status = "CANCELED"
    BY <1>2, <1>6
  <2>6. QED
    BY <2>1, <2>2, <2>3, <2>4, <2>5 DEF Calm
<1>8. Warranted /\ (Paused /\ Paused' /\ Awaited => Awaited')
  <2>1. CASE outcome = "ADMIN_DENY"
    <3>1. \A d \in Cases \ Requests : ~Reserved(op[d])
      BY <1>1, <1>6, <2>1, NoRequestBeside DEF RowsInv
    <3>2. RestoreBooking(request', report') /\ BookingInv
      BY <1>1, <2>1 DEF FinalizeRequest, RowsInv
    <3>3. QED
      BY <3>1, <3>2, Restores
  <2>2. CASE outcome # "ADMIN_DENY"
    BY <1>6, <2>2 DEF FinalizeRequest, Warranted, Stay, bookingVars, Paused
  <2>3. QED
    BY <2>1, <2>2
<1>9. QED
  BY <1>3, <1>5, <1>7, <1>8, NoneIsNoCase DEF Cases

\* Closing a report: a decision without a financial effect resumes the booking
\* if this report was the last case to hold it.
LEMMA ReportCloses ==
    ASSUME TypeOK, DecisionInv, NEW c \in Reports, NEW outcome, op[c].outcome = outcome,
           op[c].status \in {"PROCESSING", "FAILED_RETRYABLE"}, EffectReached(outcome), FinalizeReport(c, outcome)
    PROVE  /\ Calm /\ Warranted /\ (Paused /\ Paused' /\ Awaited => Awaited')
           /\ \A x \in Reports \ {c} : report'[x] = report[x]
<1>1. RowsInv /\ c \in Cases
  BY DEF DecisionInv, Cases
<1>2. report[c].status = "UNDER_REVIEW"
  BY <1>1 DEF RowsInv, ReportInv
<1>3. /\ report'[c].status \in {"RESOLVED", "DISMISSED"} /\ report'[c].type = report[c].type
      /\ \A x \in Reports \ {c} : report'[x] = report[x]
  BY DEF FinalizeReport, TypeOK
<1>4. UNCHANGED <<request, escalation>>
  BY DEF FinalizeReport
<1>5. Calm
  BY <1>2, <1>3, <1>4 DEF Calm, ActiveReports, ActiveReport, ActiveRequests, ActiveEscalations
<1>6. CASE outcome \in FinancialOutcomes
  <2>1. status \in Terminal
    BY <1>6 DEF EffectReached, Cancelled, Released, FinancialOutcomes, Terminal
  <2>2. Stay /\ ~Paused
    BY <1>6, <2>1, Statuses DEF FinalizeReport, Stay, bookingVars
  <2>3. QED
    BY <1>3, <1>5, <2>2 DEF Warranted
<1>7. CASE outcome \notin FinancialOutcomes
  <2>1. \A d \in Cases \ Requests : ~Reserved(op[d])
    <3>1. ~Reserved(op[c])
      BY <1>1, <1>7 DEF RowsInv, OpInv
    <3>2. \A d \in Cases : Reserved(op[d]) => d = c
      BY <1>1, <1>2, OnlyReport DEF RowsInv
    <3>3. QED
      BY <3>1, <3>2
  <2>2. RestoreBooking(request', report') /\ BookingInv
    BY <1>1, <1>4, <1>7 DEF FinalizeReport, RowsInv
  <2>3. QED
    BY <1>3, <1>5, <2>1, <2>2, Restores
<1>8. QED
  BY <1>6, <1>7

\* Finalizing a decision: the effect is there, the case closes, and the
\* operation is completed.
LEMMA FinalizeStep ==
    ASSUME TypeOK, TypeOK', DecisionInv, NEW w \in Workers, Finalize(w)
    PROVE  DecisionInv'
<1> DEFINE c == worker[w].case
           out == worker[w].outcome
           n == Finalized(op[c])
           caseOpen == /\ (c \in Requests /\ out # "PARTICIPANT_APPROVE")
                             => request[c].status = "UNDER_REVIEW" /\ request[c].report # "none"
                       /\ c \in Reports => report[c].status = "UNDER_REVIEW"
                       /\ c \in Escalations => escalation[c].status = "UNDER_REVIEW"
<1>a. RowsInv /\ FlightOK(worker[w], op, request)
  BY DEF DecisionInv, FlightInv
<1>b. worker[w].pc = "finalize"
  BY DEF Finalize, At
<1>c. out # "IMMEDIATE" /\ c \in Cases /\ op[c].status # "none" /\ op[c].outcome = out
  BY <1>a, <1>b DEF FlightOK, CancelPCs, RefundPCs
<1>1. \/ UNCHANGED <<bookingVars, caseVars, op>> /\ (Done(w) \/ Goto(w, "fail"))
      \/ /\ op[c].status # "COMPLETED" /\ caseOpen /\ EffectReached(out)
         /\ op' = [op EXCEPT ![c] = n] /\ Done(w)
         /\ \/ c \in Requests /\ FinalizeRequest(c, out)
            \/ c \in Reports /\ FinalizeReport(c, out)
            \/ c \in Escalations /\ FinalizeEscalation(c)
            \/ c \notin Requests \cup Reports /\ UNCHANGED <<bookingVars, caseVars>>
  BY DEF Finalize
<1>2. CASE UNCHANGED <<bookingVars, caseVars, op>> /\ (Done(w) \/ Goto(w, "fail"))
  <2>1. Stay /\ UNCHANGED <<request, report, escalation, op>>
    BY <1>2 DEF Stay, bookingVars, caseVars
  <2>2. Onward(w)
    <3>1. CASE Done(w)
      BY <1>b, <3>1, Throws
    <3>2. CASE Goto(w, "fail")
      BY <1>b, <1>c, <3>2, MovedTo DEF Onward
    <3>3. QED
      BY <1>2, <3>1, <3>2
  <2>3. QED
    BY <2>1, <2>2, QuietMove DEF Warranted
<1>3. CASE /\ op[c].status # "COMPLETED" /\ caseOpen /\ EffectReached(out)
           /\ op' = [op EXCEPT ![c] = n] /\ Done(w)
           /\ \/ c \in Requests /\ FinalizeRequest(c, out)
              \/ c \in Reports /\ FinalizeReport(c, out)
              \/ c \in Escalations /\ FinalizeEscalation(c)
              \/ c \notin Requests \cup Reports /\ UNCHANGED <<bookingVars, caseVars>>
  <2>1. n.status = "COMPLETED" /\ n.stage = "CASE_FINALIZED" /\ n.outcome = out
    BY <1>c DEF Finalized, TypeOK
  <2>2. RowInv(n) /\ ~Reserved(n) /\ Ends(out, status)
    BY <1>3, <2>1 DEF RowInv, Reserved, EffectReached, Cancelled, Released, Ends
  <2>3. op[c].status \in {"PROCESSING", "FAILED_RETRYABLE"}
    BY <1>3, <1>c DEF TypeOK
  <2>4. Reserved(op[c]) => ~Paused
    <3>1. Reserved(op[c]) => out \in FinancialOutcomes
      BY <1>a, <1>c DEF RowsInv, OpInv
    <3>2. QED
      BY <2>2, <3>1, Statuses DEF Reached
  <2>5. /\ Calm /\ Warranted /\ (Paused /\ Paused' /\ Awaited => Awaited')
        /\ \A x \in Reports \ {c} : report[x].type # "CANCELLATION_ESCALATION" => report'[x] = report[x]
    <3>1. CASE c \in Requests /\ FinalizeRequest(c, out)
      <4>1. out # "PARTICIPANT_APPROVE" => request[c].status = "UNDER_REVIEW" /\ request[c].report # "none"
        BY <1>3, <3>1
      <4>2. EffectReached(out)
        BY <1>3
      <4>3. QED
        BY <1>c, <3>1, <4>1, <4>2, RequestCloses
    <3>2. CASE c \in Reports /\ FinalizeReport(c, out)
      <4>1. EffectReached(out)
        BY <1>3
      <4>2. QED
        BY <1>c, <2>3, <3>2, <4>1, ReportCloses
    <3>3. CASE \/ c \in Escalations /\ FinalizeEscalation(c)
               \/ c \notin Requests \cup Reports /\ UNCHANGED <<bookingVars, caseVars>>
      <4>1. /\ Stay /\ UNCHANGED <<request, report>>
            /\ \A e \in Escalations : escalation'[e].status \in ActiveEscalation => escalation[e].status \in ActiveEscalation
        BY <3>3 DEF FinalizeEscalation, Stay, bookingVars, caseVars, ActiveEscalation, TypeOK
      <4>2. Calm
        BY <4>1 DEF Calm, ActiveReports, ActiveRequests, ActiveEscalations
      <4>3. Paused /\ Awaited => Awaited'
        <5>1. \A d \in Cases \ {c} : op'[d] = op[d]
          BY <1>3 DEF TypeOK
        <5>2. QED
          BY <2>4, <4>1, <5>1 DEF Awaited, ActiveReports, ActiveRequests
      <4>4. QED
        BY <4>1, <4>2, <4>3 DEF Warranted
    <3>4. QED
      BY <1>3, <3>1, <3>2, <3>3
  <2> HIDE DEF n
  <2>6. Orderly
    <3>1. c \in Requests => out \in {"PARTICIPANT_APPROVE"} \cup CancellationOutcomes
      BY <1>a, <1>c DEF RowsInv, OpInv
    <3>2. c \in Reports => report[c].status # "none" /\ report[c].type # "CANCELLATION_ESCALATION"
      BY <1>a, <1>c DEF RowsInv, ReportInv
    <3>3. op' = [op EXCEPT ![c] = n]
      BY <1>3
    <3>4. QED
      BY <1>a, <1>c, <2>1, <2>2, <2>5, <3>1, <3>2, <3>3, OpWritten
  <2>7. worker'[w].pc = "idle" /\ \A v \in Workers \ {w} : worker'[v] = worker[v]
    BY <1>3, MovedTo
  <2>8. FlightOK(worker'[w], op', request') /\ ClaimOK(worker'[w], op', status', before')
    BY <2>7 DEF FlightOK, ClaimOK
  <2>9. QED
    BY <2>5, <2>6, <2>7, <2>8, MoveKeeps
<1>4. QED
  BY <1>1, <1>2, <1>3

-----------------------------------------------------------------------------
(* The invariant, and what it says                                          *)

\* The participants' steps, the claims, the steps of the requests in flight.
LEMMA DecisionStep ==
    ASSUME TypeOK, TypeOK', MoneyInv, DecisionInv, [Next]_vars
    PROVE  DecisionInv'
<1>1. CASE ParticipantStep \/ CancellationStep
  BY <1>1, ParticipantDecides, CancellationDecides
<1>2. ASSUME NEW w \in Workers, AdminDecision(w) PROVE DecisionInv'
  BY <1>2, AdminCancellationDecides, ReportDecides, EscalationDecides, BookingDecides DEF AdminDecision
<1>3. ASSUME NEW w \in Workers, WorkerStep(w) \/ Outage(w) PROVE DecisionInv'
  <2>1. CASE \/ CancelRead(w) \/ RefundRead(w) \/ RefundReserve(w) \/ RefundGateway(w) \/ RefundFailed(w)
             \/ RefundFinal(w) \/ CancelTx(w) \/ SettleByAdmin(w)
             \/ Crash(w) \/ IntentLookupFails(w) \/ RefundGatewayFails(w)
    BY <2>1, MoneySteps
  <2>2. CASE Reserve(w)
    BY <2>2, ReserveStep
  <2>3. CASE ImmediateFinal(w)
    BY <2>3, ImmediateFinalStep
  <2>4. CASE Mark(w) \/ Fail(w)
    BY <2>4, MarkSteps
  <2>5. CASE Finalize(w)
    BY <2>5, FinalizeStep
  <2>6. QED
    BY <1>3, <2>1, <2>2, <2>3, <2>4, <2>5 DEF WorkerStep, Outage
<1>4. CASE (\E p \in Participants : Ban(p) \/ LiftBan(p)) \/ UNCHANGED vars
  <2>1. Stay /\ UNCHANGED <<request, report, escalation, op, worker>>
    BY <1>4 DEF Ban, LiftBan, vars, bookingVars, caseVars, Stay
  <2>2. Calm /\ Orderly /\ ImmediateStays /\ (Awaited => Awaited')
    BY <2>1, Quiet DEF DecisionInv
  <2>3. RowsInv'
    BY <2>1, <2>2, RowsKept DEF DecisionInv, Warranted
  <2>4. FlightInv' /\ ClaimInv'
    BY <2>1, <2>2, FlightsKept DEF Orderly, Warranted
  <2>5. QED
    BY <2>3, <2>4 DEF DecisionInv
<1>5. QED
  BY <1>1, <1>2, <1>3, <1>4 DEF Next

\* A booking starts without cases, decisions or requests in flight.
LEMMA InitDecisions == Init => DecisionInv
<1> SUFFICES ASSUME Init PROVE DecisionInv
  OBVIOUS
<1>1. /\ \A c \in Cases : op[c] = NoOp /\ ~Reserved(op[c])
      /\ \A r \in Requests : /\ request[r].status = "none" /\ ~request[r].immediate /\ request[r].report = "none"
      /\ \A x \in Reports : report[x].status = "none" /\ report[x].type = "none"
      /\ \A w \in Workers : worker[w].pc = "idle"
      /\ status = "ACCEPTED" /\ before = "none" /\ started = FALSE
  BY DEF Init, NoOp, Reserved, Idle
<1>2. \A x \in Reports : op[x].status = "none"
  BY <1>1 DEF Cases, NoOp
<1>3. BookingInv /\ ImmediateInv /\ ReportInv
  BY <1>1, <1>2 DEF BookingInv, ImmediateInv, ReportInv, Paused, ActiveReports, ActiveReport
<1>4. OpInv /\ ReservationInv /\ ClosedInv /\ ProtectedInv /\ AwaitedInv
  BY <1>1 DEF OpInv, NoOp, ReservationInv, ClosedInv, ProtectedInv, AwaitedInv, Paused, Cases
<1>5. FlightInv /\ ClaimInv
  BY <1>1 DEF FlightInv, ClaimInv, FlightOK, ClaimOK
<1>6. QED
  BY <1>3, <1>4, <1>5 DEF DecisionInv, RowsInv

\* All of the above, from the first state on.
LEMMA DecisionInvariant == Spec => [](TypeOK /\ MoneyInv /\ DecisionInv)
<1>1. Init => DecisionInv
  BY InitDecisions
<1>2. TypeOK /\ TypeOK' /\ MoneyInv /\ DecisionInv /\ [Next]_vars => DecisionInv'
  BY DecisionStep
<1>3. QED
  BY <1>1, <1>2, TypeCorrect, MoneyInvariant, PTL DEF Spec

\* A booking that has ended has moved its money with it.
LEMMA EndsReach ==
    ASSUME TypeOK, MoneyInv, NEW outcome, Ends(outcome, status)
    PROVE  EffectReached(outcome)
<1>1. status = "CANCELED" => Cancelled
  BY DEF MoneyInv, SettledConsistently, PayOf, Cancelled
<1>2. status = "COMPLETED" => Released
  BY DEF MoneyInv, SettledConsistently, PayOf, Released
<1>3. QED
  BY <1>1, <1>2 DEF Ends, EffectReached

\* At most one decision holds a financial reservation on the booking, and beside
\* it no case is open but its own and the report that escalated it.  A booking
\* on which an administrator's decision (not a cancellation) is reserved also
\* stays paused until its outcome is reached.  All this although claim,
\* reservation and settlement are separate transactions and every one of them
\* may be overtaken (assertNoOtherBlockingCases, assertNoFinancialResolutionReserved).
THEOREM DecisionsProtected == Spec => []ReservedDecisionProtected
<1>1. TypeOK /\ MoneyInv /\ DecisionInv => ReservedDecisionProtected
  BY EndsReach DEF DecisionInv, RowsInv, ReservationInv, Linked, ProtectedInv, Reached, Paused,
                   ReservedDecisionProtected
<1>2. QED
  BY <1>1, DecisionInvariant, PTL

\* No booking is left paused with nothing to unpause it: an open case or a
\* reserved decision is there, and the status it would return to is known
\* (restoreBookingIfNoBlockingCases).
THEOREM PausedCasesOpen == Spec => []PausedHasCase
<1>1. DecisionInv => PausedHasCase
  BY DEF DecisionInv, RowsInv, BookingInv, AwaitedInv, Awaited, Paused, Resumable, PausedHasCase
<1>2. QED
  BY <1>1, DecisionInvariant, PTL

-----------------------------------------------------------------------------
(* A booking under review                                                   *)

\* What puts a booking under review, and keeps it there.
HeldForReview ==
    \/ \E r \in Requests : request[r].immediate
    \/ \E c \in Escalations \cup {AdminBooking} : Reserved(op[c])

ReviewInv == status = "UNDER_REVIEW" => HeldForReview

\* A reservation lasts until the booking has ended.
LEMMA ReservationLasts ==
    ASSUME TypeOK, TypeOK', DecisionInv, DecisionInv', [Next]_vars, NEW c \in Cases, Reserved(op[c])
    PROVE  Reserved(op'[c]) \/ status' \in Terminal
<1>1. /\ op[c].status # "none" /\ op[c].outcome \in FinancialOutcomes
      /\ op[c].stage \in {"FINANCIAL_EFFECT_RESERVED", "FINANCIAL_EFFECT_ESTABLISHED"}
  BY DEF Reserved, DecisionInv, RowsInv, OpInv
<1>2. op'[c].outcome = op[c].outcome /\ StageOrder[op'[c].stage] >= StageOrder[op[c].stage]
  BY <1>1, NextForward DEF Forward
<1>3. /\ op'[c].stage \in DOMAIN StageOrder /\ op'[c].status \in {"none", "PROCESSING", "FAILED_RETRYABLE", "COMPLETED"}
  BY DEF TypeOK
<1>4. op'[c].stage \in {"FINANCIAL_EFFECT_RESERVED", "FINANCIAL_EFFECT_ESTABLISHED", "CASE_FINALIZED"}
  BY <1>1, <1>2, <1>3 DEF StageOrder
<1>5. /\ op'[c].status = "none" => op'[c].stage = "CLAIMED"
      /\ op'[c].stage = "CASE_FINALIZED" => op'[c].status = "COMPLETED"
  BY DEF DecisionInv, RowsInv, OpInv
<1>6. CASE op'[c].status = "COMPLETED"
  <2>1. Ends(op'[c].outcome, status')
    BY <1>6 DEF DecisionInv, RowsInv, ClosedInv, Reached
  <2>2. QED
    BY <1>1, <1>2, <2>1 DEF Ends, FinancialOutcomes, Terminal
<1>7. CASE op'[c].status # "COMPLETED"
  BY <1>3, <1>4, <1>5, <1>7 DEF Reserved
<1>8. QED
  BY <1>6, <1>7

\* No step disputes a booking under review, and a step that puts it there has
\* reserved a decision or opened an immediate cancellation.
ReviewStep ==
    /\ status' = "DISPUTED" => status = "DISPUTED" \/ status \in Resumable
    /\ status' = "UNDER_REVIEW" => status = "UNDER_REVIEW" \/ HeldForReview'
    /\ \A r \in Requests : request[r].immediate => request'[r].immediate

LEMMA ReviewSteps ==
    ASSUME TypeOK, TypeOK', MoneyInv, DecisionInv, [Next]_vars
    PROVE  ReviewStep
<1> USE DEF bookingVars, caseVars
<1>a. \A r \in Requests : \A x : request' = [request EXCEPT ![r].status = x]
         => \A q \in Requests : request'[q].immediate = request[q].immediate
  BY DEF TypeOK
<1>b. \A r \in Requests : request[r].immediate => request[r].status # "none"
  BY DEF DecisionInv, RowsInv, ImmediateInv
<1>c. before \in Resumable \cup {"none"}
  BY DEF MoneyInv
<1>d. ASSUME status' = status \/ status' \notin {"DISPUTED", "UNDER_REVIEW"},
             \A r \in Requests : request'[r].immediate = request[r].immediate
      PROVE  ReviewStep
  BY <1>d DEF ReviewStep
<1>1. CASE ParticipantStep
  BY <1>1 DEF ParticipantStep, Start, MarkJobComplete, ConfirmCompletion, Settle, DisputeJob, CreateSafetyReport,
              CreateCompletionEscalation, Pausable, Resumable, ReviewStep
<1>2. CASE CancellationStep
  <2>1. PICK r \in Requests :
        \/ \E p \in Participants : RequestCancellation(p, r)
        \/ \E p \in Participants, w \in Workers : RequestImmediateCancellation(p, r, w)
        \/ \E w \in Workers : RetryImmediateCancellation(r, w) \/ ApproveCancellation(r, w)
        \/ DeclineCancellation(r)
        \/ \E x \in Reports : EscalateCancellation(r, x)
    BY <1>2 DEF CancellationStep
  <2>2. ASSUME request[r].status = "none", \A q \in Requests \ {r} : request'[q] = request[q],
               status' = status \/ (status' = "UNDER_REVIEW" /\ request'[r].immediate)
        PROVE  ReviewStep
    BY <1>b, <2>2 DEF ReviewStep, HeldForReview
  <2>3. ASSUME NEW p \in Participants, RequestCancellation(p, r) PROVE ReviewStep
    <3>1. /\ request[r].status = "none" /\ status' = status
          /\ request'[r].immediate = FALSE /\ \A q \in Requests \ {r} : request'[q] = request[q]
      BY <2>3 DEF RequestCancellation, TypeOK
    <3>2. QED
      BY <2>2, <3>1
  <2>4. ASSUME NEW p \in Participants, NEW w \in Workers, RequestImmediateCancellation(p, r, w) PROVE ReviewStep
    <3>1. /\ request[r].status = "none" /\ status' = "UNDER_REVIEW"
          /\ request'[r].immediate = TRUE /\ \A q \in Requests \ {r} : request'[q] = request[q]
      BY <2>4 DEF RequestImmediateCancellation, TypeOK
    <3>2. QED
      BY <2>2, <3>1
  <2>5. ASSUME NEW w \in Workers, RetryImmediateCancellation(r, w) PROVE ReviewStep
    BY <1>d, <2>5 DEF RetryImmediateCancellation
  <2>6. ASSUME NEW w \in Workers, ApproveCancellation(r, w) PROVE ReviewStep
    BY <1>a, <1>d, <2>6 DEF ApproveCancellation
  <2>7. CASE DeclineCancellation(r)
    BY <1>a, <1>d, <2>7 DEF DeclineCancellation
  <2>8. ASSUME NEW x \in Reports, EscalateCancellation(r, x) PROVE ReviewStep
    <3>1. request' = [request EXCEPT ![r].status = "ESCALATED", ![r].report = x] /\ status' = status
      BY <2>8 DEF EscalateCancellation
    <3>2. \A q \in Requests : request'[q].immediate = request[q].immediate
      BY <3>1 DEF TypeOK
    <3>3. QED
      BY <1>d, <3>1, <3>2
  <2>9. QED
    BY <2>1, <2>3, <2>4, <2>5, <2>6, <2>7, <2>8
<1>3. ASSUME NEW w \in Workers, AdminDecision(w) PROVE ReviewStep
  <2>1. ASSUME NEW r \in Requests, NEW o \in CancellationOutcomes, AdminResolveCancellation(r, o, w) PROVE ReviewStep
    BY <1>a, <1>d, <2>1 DEF AdminResolveCancellation
  <2>2. ASSUME NEW x \in Reports, NEW o \in ReportOutcomes, NEW penalty \in {"none", "ban"},
               ResolveAdminReport(x, o, penalty, w)
        PROVE  ReviewStep
    BY <1>d, <2>2 DEF ResolveAdminReport
  <2>3. ASSUME NEW e \in Escalations, NEW o \in EscalationOutcomes, ResolveCompletionEscalation(e, o, w)
        PROVE  ReviewStep
    BY <1>d, <2>3 DEF ResolveCompletionEscalation
  <2>4. ASSUME NEW o \in AdminBookingOutcomes, ResolveAdminBooking(o, w) PROVE ReviewStep
    <3> DEFINE b == ReconcileReserved(BeginAdminResolution(AdminBooking, o, "none"), o)
               reserve == ~Established(b) /\ b.stage # "FINANCIAL_EFFECT_RESERVED"
    <3>1. /\ op' = [op EXCEPT ![AdminBooking] = IF reserve THEN MarkStage(b, "FINANCIAL_EFFECT_RESERVED") ELSE b]
          /\ status' = IF reserve THEN "UNDER_REVIEW" ELSE status
          /\ UNCHANGED request /\ op[AdminBooking].status # "COMPLETED" /\ MayBegin(AdminBooking, o, "none")
      BY <2>4 DEF ResolveAdminBooking, AdminBookingResolutionAllowed
    <3>2. b \in OpType /\ RowInv(b) /\ b.status = "PROCESSING"
      <4>1. AdminBooking \in Cases /\ o \in Outcomes /\ RowInv(op[AdminBooking])
        BY DEF Cases, Outcomes, FinancialOutcomes, CancelOutcomes, AdminBookingOutcomes, DecisionInv, RowsInv, OpInv,
               RowInv
      <4>2. QED
        BY <3>1, <4>1, ClaimReserves
    <3> HIDE DEF b
    <3>3. CASE reserve
      <4>1. Reserved(MarkStage(b, "FINANCIAL_EFFECT_RESERVED"))
        BY <3>2, MarkReserves
      <4>2. Reserved(op'[AdminBooking])
        BY <3>1, <3>3, <4>1 DEF TypeOK, Cases
      <4>3. QED
        BY <3>1, <3>3, <4>2 DEF ReviewStep, HeldForReview
    <3>4. CASE ~reserve
      BY <1>d, <3>1, <3>4
    <3>5. QED
      BY <3>3, <3>4
  <2>5. QED
    BY <1>3, <2>1, <2>2, <2>3, <2>4 DEF AdminDecision
<1>4. ASSUME NEW w \in Workers, Reserve(w) PROVE ReviewStep
  <2>1. CASE UNCHANGED <<status, request>>
    BY <1>d, <2>1
  <2>2. CASE ~UNCHANGED <<status, request>>
    <3> DEFINE c == worker[w].case
    <3>1. /\ c \in Escalations /\ op[c].status # "COMPLETED" /\ UNCHANGED request
          /\ op' = [op EXCEPT ![c] = MarkStage(@, "FINANCIAL_EFFECT_RESERVED")] /\ status' = "UNDER_REVIEW"
      BY <1>4, <2>2 DEF Reserve, StepOrThrow
    <3>2. c \in Cases /\ op[c] \in OpType /\ RowInv(op[c]) /\ op[c].status # "none"
      <4>1. c \in Cases /\ op[c] \in OpType
        BY <3>1 DEF Cases, TypeOK, OpType
      <4>2. RowInv(op[c])
        BY <4>1 DEF DecisionInv, RowsInv, OpInv, RowInv
      <4>3. worker[w].pc = "reserve"
        BY <1>4 DEF Reserve, At
      <4>4. op[c].status # "none"
        BY <4>3 DEF DecisionInv, FlightInv, FlightOK, CancelPCs, RefundPCs
      <4>5. QED
        BY <4>1, <4>2, <4>4
    <3>3. Reserved(MarkStage(op[c], "FINANCIAL_EFFECT_RESERVED"))
      BY <3>1, <3>2, MarkReserves
    <3>4. Reserved(op'[c])
      BY <3>1, <3>2, <3>3 DEF TypeOK
    <3>5. QED
      BY <3>1, <3>4 DEF ReviewStep, HeldForReview
  <2>3. QED
    BY <2>1, <2>2
<1>5. ASSUME NEW w \in Workers, Finalize(w) PROVE ReviewStep
  <2>1. status' = status \/ (status' = before /\ before # "none")
    <3>1. ASSUME NEW requests, NEW reports, RestoreBooking(requests, reports)
          PROVE  status' = status \/ (status' = before /\ before # "none")
      BY <3>1 DEF RestoreBooking
    <3>2. CASE UNCHANGED <<bookingVars, caseVars, banned>>
      BY <3>2
    <3>3. CASE FinalizeRequest(worker[w].case, worker[w].outcome)
      <4>1. UNCHANGED bookingVars \/ \E requests, reports : RestoreBooking(requests, reports)
        BY <3>3, Zenon DEF FinalizeRequest
      <4>2. QED
        BY <3>1, <4>1
    <3>4. CASE FinalizeReport(worker[w].case, worker[w].outcome)
      BY <3>1, <3>4 DEF FinalizeReport
    <3>5. CASE FinalizeEscalation(worker[w].case)
      BY <3>5 DEF FinalizeEscalation
    <3>6. QED
      BY <1>5, <3>2, <3>3, <3>4, <3>5 DEF Finalize
  <2>2. \A r \in Requests : request'[r].immediate = request[r].immediate
    <3>1. CASE UNCHANGED request
      BY <3>1
    <3>2. ASSUME worker[w].case \in Requests, FinalizeRequest(worker[w].case, worker[w].outcome)
          PROVE  \A r \in Requests : request'[r].immediate = request[r].immediate
      <4>1. \E x : request' = [request EXCEPT ![worker[w].case].status = x]
        BY <3>2 DEF FinalizeRequest
      <4>2. QED
        BY <1>a, <3>2, <4>1
    <3>3. UNCHANGED request \/ (worker[w].case \in Requests /\ FinalizeRequest(worker[w].case, worker[w].outcome))
      BY <1>5 DEF Finalize, FinalizeReport, FinalizeEscalation
    <3>4. QED
      BY <3>1, <3>2, <3>3
  <2>3. QED
    BY <1>c, <1>d, <2>1, <2>2 DEF Resumable
<1>6. ASSUME NEW w \in Workers, ImmediateFinal(w) PROVE ReviewStep
  <2>1. worker[w].case \in Requests
    BY <1>6 DEF ImmediateFinal, At, DecisionInv, FlightInv, FlightOK
  <2>2. QED
    BY <1>a, <1>d, <1>6, <2>1 DEF ImmediateFinal
<1>7. ASSUME NEW w \in Workers,
             \/ CancelRead(w) \/ RefundRead(w) \/ RefundReserve(w) \/ RefundGateway(w) \/ RefundFailed(w)
             \/ RefundFinal(w) \/ CancelTx(w) \/ SettleByAdmin(w) \/ Mark(w) \/ Fail(w)
             \/ Crash(w) \/ IntentLookupFails(w) \/ RefundGatewayFails(w)
      PROVE  ReviewStep
  BY <1>d, <1>7 DEF CancelRead, RefundRead, RefundReserve, RefundGateway, RefundFailed, RefundFinal, CancelTx,
                    SettleByAdmin, Settle, Mark, Fail, Crash, IntentLookupFails, RefundGatewayFails, StepOrThrow
<1>8. CASE (\E p \in Participants : Ban(p) \/ LiftBan(p)) \/ UNCHANGED vars
  BY <1>d, <1>8 DEF Ban, LiftBan, vars
<1>9. QED
  BY <1>1, <1>2, <1>3, <1>4, <1>5, <1>6, <1>7, <1>8 DEF Next, WorkerStep, Outage

\* What holds a booking under review holds it until it has ended.
LEMMA ReviewHeld ==
    ASSUME TypeOK, TypeOK', MoneyInv, DecisionInv, DecisionInv', [Next]_vars, HeldForReview, status = "UNDER_REVIEW"
    PROVE  /\ status' \in {"UNDER_REVIEW"} \cup Terminal
           /\ status' = "UNDER_REVIEW" => HeldForReview'
<1>1. ReviewStep
  BY ReviewSteps
<1>2. ASSUME NEW r \in Requests, request[r].immediate
      PROVE  request'[r].immediate /\ status' \in {"UNDER_REVIEW"} \cup Terminal
  BY <1>1, <1>2 DEF ReviewStep, DecisionInv, RowsInv, ImmediateInv, Terminal
<1>3. ASSUME NEW c \in Escalations \cup {AdminBooking}, Reserved(op[c])
      PROVE  /\ status' \in {"UNDER_REVIEW"} \cup Terminal
             /\ status' = "UNDER_REVIEW" => Reserved(op'[c])
  <2>1. c \in Cases \ Requests
    BY CasesDisjoint DEF Cases
  <2>2. Reserved(op'[c]) \/ status' \in Terminal
    BY <1>3, <2>1, ReservationLasts
  <2>3. CASE Reserved(op'[c])
    <3>1. op'[c].outcome \in FinancialOutcomes
      BY <2>1, <2>3 DEF DecisionInv, RowsInv, OpInv, Reserved
    <3>2. Paused' \/ Reached(op[c].outcome)'
      BY <2>1, <2>3 DEF DecisionInv, RowsInv, ProtectedInv, Reserved
    <3>3. status' \in {"DISPUTED", "UNDER_REVIEW"} \cup Terminal
      BY <3>1, <3>2 DEF Paused, Reached, Ends, FinancialOutcomes, Terminal
    <3>4. status' # "DISPUTED"
      BY <1>1 DEF ReviewStep, Resumable
    <3>5. QED
      BY <2>3, <3>3, <3>4
  <2>4. QED
    BY <2>2, <2>3 DEF Terminal
<1>4. QED
  BY <1>2, <1>3 DEF HeldForReview

\* A booking under review is never worked on again: the immediate cancellation
\* or the reserved decision that put it there outlasts every other case, and it
\* leaves the review completed or canceled (restoreBookingIfNoBlockingCases
\* restores whatever is paused, and nothing tells it about reservations).
THEOREM ReviewIsFinal == Spec => UnderReviewEnds
<1>1. Init => ReviewInv
  BY DEF Init, ReviewInv
<1>2. TypeOK /\ TypeOK' /\ MoneyInv /\ DecisionInv /\ DecisionInv' /\ ReviewInv /\ [Next]_vars => ReviewInv'
  BY ReviewSteps, ReviewHeld DEF ReviewInv, ReviewStep
<1>3. TypeOK /\ TypeOK' /\ MoneyInv /\ DecisionInv /\ DecisionInv' /\ ReviewInv /\ [Next]_vars
        => [status = "UNDER_REVIEW" => status' \in {"UNDER_REVIEW", "COMPLETED", "CANCELED"}]_vars
  BY ReviewHeld DEF ReviewInv, Terminal
<1>4. QED
  BY <1>1, <1>2, <1>3, DecisionInvariant, PTL DEF Spec, UnderReviewEnds

-----------------------------------------------------------------------------
(* A refund under a test key                                                *)

Refunding == {"refund_gateway", "refund_final"}

\* A step that leaves the refund and PayMongo alone, completes the booking only
\* when no refund is in progress, and takes no request into a refund.
LEMMA RefundUntouched ==
    ASSUME TypeOK, RefundInv, MoneyStep, UNCHANGED <<refund, gateway>>,
           status' = "COMPLETED" => status = "COMPLETED" \/ NoRefundInProgress,
           \A v \in Workers : /\ worker'[v].pc \in Refunding => worker[v].pc \in Refunding
                              /\ worker'[v].pc = "refund_failed" => worker[v].pc = "refund_failed"
    PROVE  RefundInv'
<1>1. status = "CANCELED" => status' = "CANCELED"
  BY CanceledStays
<1>2. QED
  BY <1>1 DEF RefundInv, Refunding, NoRefundInProgress

\* Under a test key no step takes the refund out of its order.
LEMMA RefundStep ==
    ASSUME TypeOK, MoneyInv, WorkerInv, RefundInv, [Next]_vars, ~LiveKey
    PROVE  RefundInv'
<1>a. MoneyStep
  BY NextMoney
<1>b. \A pc \in PCs \ (Refunding \cup {"refund_failed"}) : pc \notin Refunding \cup {"refund_failed"}
  OBVIOUS
<1>c. ASSUME NEW w \in Workers, UNCHANGED <<refund, gateway>>,
             status' = "COMPLETED" => status = "COMPLETED" \/ NoRefundInProgress,
             \/ \E pc \in PCs \ (Refunding \cup {"refund_failed"}) : Goto(w, pc)
             \/ \E c, outcome : \E pc \in PCs \ (Refunding \cup {"refund_failed"}) : Spawn(w, c, outcome, pc)
             \/ Done(w) \/ Throw(w)
      PROVE  RefundInv'
  <2>1. worker'[w].pc \notin Refunding \cup {"refund_failed"} /\ \A v \in Workers \ {w} : worker'[v] = worker[v]
    BY <1>c, MovedTo DEF Refunding
  <2>2. QED
    BY <1>a, <1>c, <2>1, RefundUntouched
<1>d. {"idle", "reserve", "cancel_read", "refund_read", "refund_reserve", "cancel_tx", "settle", "mark",
       "decide", "finalize", "immediate_final", "fail"} \subseteq PCs \ (Refunding \cup {"refund_failed"})
  BY DEF PCs, Refunding
<1>e. UNCHANGED <<refund, gateway, worker>> /\ (status' = "COMPLETED" => status = "COMPLETED" \/ NoRefundInProgress)
         => RefundInv'
  BY <1>a, RefundUntouched
<1> USE DEF moneyVars, bookingVars, caseVars
<1>1. CASE ParticipantStep
  BY <1>1, <1>e DEF ParticipantStep, Start, MarkJobComplete, ConfirmCompletion, SettleAllowed, Settle, DisputeJob,
                    CreateSafetyReport, CreateCompletionEscalation
<1>2. CASE CancellationStep
  <2>1. PICK r \in Requests :
        \/ \E p \in Participants : RequestCancellation(p, r)
        \/ \E p \in Participants, w \in Workers : RequestImmediateCancellation(p, r, w)
        \/ \E w \in Workers : RetryImmediateCancellation(r, w) \/ ApproveCancellation(r, w)
        \/ DeclineCancellation(r)
        \/ \E x \in Reports : EscalateCancellation(r, x)
    BY <1>2 DEF CancellationStep
  <2>2. \/ UNCHANGED <<refund, gateway, worker, status>>
        \/ UNCHANGED <<refund, gateway>> /\ status' \in {status, "UNDER_REVIEW"} /\
           \E w \in Workers : \E c, outcome : \E pc \in {"cancel_read", "finalize", "reserve"} : Spawn(w, c, outcome, pc)
    BY <2>1 DEF RequestCancellation, RequestImmediateCancellation, RetryImmediateCancellation,
                ApproveCancellation, DeclineCancellation, EscalateCancellation
  <2>3. QED
    BY <1>c, <1>d, <1>e, <2>2
<1>3. ASSUME NEW w \in Workers, AdminDecision(w) PROVE RefundInv'
  <2>1. UNCHANGED <<refund, gateway>> /\ status' \in {status, "UNDER_REVIEW"} /\ \E c, outcome :
           \E pc \in {"reserve", "decide", "finalize", "settle", "cancel_read"} : Spawn(w, c, outcome, pc)
    BY <1>3 DEF AdminDecision, AdminResolveCancellation, ResolveAdminReport, ResolveCompletionEscalation,
                ResolveAdminBooking
  <2>2. QED
    BY <1>c, <1>d, <2>1
<1>4. ASSUME NEW w \in Workers,
             Reserve(w) \/ CancelRead(w) \/ RefundRead(w) \/ CancelTx(w) \/ ImmediateFinal(w) \/ SettleByAdmin(w)
                \/ Mark(w) \/ Fail(w) \/ Finalize(w) \/ Crash(w) \/ IntentLookupFails(w)
      PROVE  RefundInv'
  <2>1. UNCHANGED <<refund, gateway>>
    BY <1>4 DEF Reserve, CancelRead, RefundRead, CancelTx, ImmediateFinal, SettleByAdmin, Mark, Fail, Finalize,
                Crash, IntentLookupFails, StepOrThrow, Settle
  <2>2. status' = "COMPLETED" => status = "COMPLETED" \/ NoRefundInProgress
    <3>1. CASE SettleByAdmin(w)
      BY <3>1 DEF SettleByAdmin, StepOrThrow
    <3>2. CASE Finalize(w)
      <4>1. UNCHANGED bookingVars \/ \E requests, reports : RestoreBooking(requests, reports)
        BY <3>2 DEF Finalize, FinalizeRequest, FinalizeReport, FinalizeEscalation
      <4>2. before # "COMPLETED"
        BY DEF MoneyInv, Resumable
      <4>3. QED
        BY <4>1, <4>2 DEF RestoreBooking
    <3>3. QED
      BY <1>4, <3>1, <3>2 DEF Reserve, CancelRead, RefundRead, CancelTx, ImmediateFinal, Mark, Fail,
                Crash, IntentLookupFails, StepOrThrow
  <2>3. \/ worker' = [worker EXCEPT ![w].held = pay \in Held, ![w].pc = IF pay \in Held THEN "refund_read" ELSE "cancel_tx"]
        \/ Done(w) \/ Throw(w)
        \/ \E pc \in {"settle", "cancel_read", "cancel_tx", "refund_reserve", "immediate_final", "mark", "finalize", "fail"} :
              Goto(w, pc)
    BY <1>4 DEF Reserve, CancelRead, RefundRead, CancelTx, ImmediateFinal, SettleByAdmin, Mark, Fail, Finalize,
                Crash, IntentLookupFails, StepOrThrow
  <2>4. ASSUME worker' = [worker EXCEPT ![w].held = pay \in Held,
                                        ![w].pc = IF pay \in Held THEN "refund_read" ELSE "cancel_tx"]
        PROVE  RefundInv'
    <3>1. worker'[w].pc \in {"refund_read", "cancel_tx"} /\ \A v \in Workers \ {w} : worker'[v] = worker[v]
      BY <2>4 DEF TypeOK
    <3>2. QED
      BY <1>a, <2>1, <2>2, <3>1, RefundUntouched DEF Refunding
  <2>5. QED
    BY <1>c, <1>d, <2>1, <2>2, <2>3, <2>4
<1>5. ASSUME NEW w \in Workers, RefundReserve(w) PROVE RefundInv'
  <2>1. CASE Throw(w) /\ UNCHANGED <<refund, gateway, status>>
    BY <1>c, <2>1
  <2>2. CASE ~(Throw(w) /\ UNCHANGED <<refund, gateway, status>>)
    <3>1. /\ status # "COMPLETED" /\ UNCHANGED <<status, gateway>>
          /\ refund' = IF refund.ref THEN refund ELSE [refund EXCEPT !.status = "PROCESSING"]
          /\ worker' = [worker EXCEPT ![w].resumed = refund.ref,
                                      ![w].pc = IF refund.ref THEN "refund_final" ELSE "refund_gateway"]
      BY <1>5, <2>2 DEF RefundReserve, StepOrThrow
    <3>2. /\ refund.ref => refund' = refund
          /\ ~refund.ref => refund'.status = "PROCESSING" /\ refund'.ref = refund.ref
      BY <3>1 DEF TypeOK
    <3>3. worker'[w].pc # "refund_failed" /\ \A v \in Workers \ {w} : worker'[v] = worker[v]
      BY <3>1 DEF TypeOK
    <3>4. QED
      BY <3>1, <3>2, <3>3 DEF RefundInv
  <2>3. QED
    BY <2>1, <2>2
<1>6. ASSUME NEW w \in Workers, RefundGateway(w) PROVE RefundInv'
  <2>1. UNCHANGED <<refund, status>> /\ worker[w].pc = "refund_gateway" /\ Goto(w, "refund_final")
    BY <1>6 DEF RefundGateway, At
  <2>2. worker'[w].pc = "refund_final" /\ \A v \in Workers \ {w} : worker'[v] = worker[v]
    BY <2>1, MovedTo
  <2>3. QED
    BY <2>1, <2>2 DEF RefundInv
<1>7. ASSUME NEW w \in Workers, RefundFinal(w) PROVE RefundInv'
  <2>1. CASE UNCHANGED <<refund, gateway, status>>
    BY <1>7, <1>c, <1>d, <2>1 DEF RefundFinal, StepOrThrow
  <2>2. CASE ~UNCHANGED <<refund, gateway, status>>
    <3>1. /\ status' = "CANCELED" /\ UNCHANGED gateway /\ refund' = [status |-> "SUBMITTED", ref |-> TRUE]
          /\ Goto(w, "cancel_tx")
      BY <1>7, <2>2 DEF RefundFinal, StepOrThrow, GatewayRefundStatus
    <3>2. worker'[w].pc = "cancel_tx" /\ \A v \in Workers \ {w} : worker'[v] = worker[v]
      BY <3>1, MovedTo
    <3>3. QED
      BY <3>1, <3>2 DEF RefundInv
  <2>3. QED
    BY <2>1, <2>2
<1>8. ASSUME NEW w \in Workers, RefundFailed(w) \/ RefundGatewayFails(w) PROVE RefundInv'
  BY <1>8 DEF RefundFailed, RefundGatewayFails, At, RefundInv
<1>9. ASSUME NEW p \in Participants, Ban(p) \/ LiftBan(p) PROVE RefundInv'
  BY <1>9, <1>e DEF Ban, LiftBan
<1>10. CASE UNCHANGED vars
  BY <1>10, <1>e DEF vars
<1>11. QED
  BY <1>1, <1>2, <1>3, <1>4, <1>5, <1>6, <1>7, <1>8, <1>9, <1>10 DEF Next, WorkerStep, Outage

\* Under a test key, money that PayMongo has been told to return is never
\* released to the provider as well, whatever retries and crashes do
\* (refundBookingPayment reserves the refund before it calls PayMongo).  With a
\* live key a timed-out call marks the reservation FAILED and the release goes
\* through.
THEOREM RefundNeverReleased ==
    ASSUME ~LiveKey
    PROVE  Spec => []RefundedNotReleased
<1>1. Init => RefundInv
  BY DEF Init, RefundInv, Idle
<1>2. TypeOK /\ MoneyInv /\ WorkerInv /\ RefundInv /\ [Next]_vars => RefundInv'
  BY RefundStep
<1>3. TypeOK /\ RefundInv => RefundedNotReleased
  BY DEF TypeOK, RefundInv, RefundedNotReleased
<1>4. QED
  BY <1>1, <1>2, <1>3, MoneyInvariant, PTL DEF Spec

=============================================================================
