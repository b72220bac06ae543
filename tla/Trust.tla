------------------------------- MODULE Trust -------------------------------
(***************************************************************************)
(* The trust scores of two verified accounts that book each other: rewards *)
(* for settled bookings, penalties decided in cases, appeals against       *)
(* penalties and an administrator's corrections.                           *)
(*                                                                         *)
(* A score never stands alone: each change of it is a TrustScoreEvent with *)
(* the change that was really applied.  Every operation below is one       *)
(* transaction under the booking's or the account's locks.  How a booking  *)
(* gets settled and how a case is carried out are in BookingCases; here a  *)
(* case is decided in its last transaction, the one that touches scores.   *)
(* Who the administrator is is left out.                                   *)
(***************************************************************************)
EXTENDS Integers, FiniteSets, FiniteSetsExt

CONSTANTS
    Users,          \* the two participants of every booking
    Bookings,       \* their bookings
    Cases,          \* reports, cancellations and escalations that can be opened
    Ops,            \* operationIds of an administrator's corrections
    PastScore       \* the score each account has from earlier bookings

ASSUME PairAssumption       == IsFiniteSet(Users) /\ Cardinality(Users) = 2
ASSUME PastScoreAssumption  == PastScore \in [Users -> 0 .. 100]
ASSUME NoneAssumption       == "none" \notin Bookings \cup Users

VARIABLES
    score,          \* User.trustScore
    events,         \* TrustScoreEvent rows of this history
    booking,        \* status and whether work was started
    case,           \* cases of the bookings
    appeals,        \* TrustCase rows: the penalty they are against, and their status
    restricted      \* suspended or banned accounts

vars == <<score, events, booking, case, appeals, restricted>>

Penalties  == {"REPORT_PENALTY", "CANCELLATION_PENALTY"}
Categories == Penalties \cup {"COMPLETION", "CORRECTION"}
CaseTypes  == {"SAFETY", "COMPLETION_DISPUTE", "CANCELLATION", "ESCALATION"}

NoKey  == <<"none", "none", "none">>
Keys   == {"completion"} \X Bookings \X Users \cup {"case"} \X Cases \X {"none"}
Events == [key : Keys \cup {"manual", "appeal"} \X (Ops \cup Cases) \X {"none"},
           user : Users, booking : Bookings, category : Categories, delta : -100 .. 100,
           reverses : Keys \cup {NoKey}, recent : BOOLEAN]

NoCase == [status |-> "none", type |-> "SAFETY", booking |-> "none", user |-> "none"]

\* Every variable stays within its type: no score leaves 0 .. 100, whatever
\* the order of rewards, penalties and corrections, and no key is used twice.
TypeOK ==
    /\ score \in [Users -> 0 .. 100]
    /\ events \subseteq Events
    /\ \A e, f \in events : e.key = f.key => e = f
    /\ booking \in [Bookings -> [status : {"ACCEPTED", "ONGOING", "COMPLETED", "CANCELED"},
                                 started : BOOLEAN]]
    /\ case \in [Cases -> [status : {"none", "PENDING", "RESOLVED"}, type : CaseTypes,
                           booking : Bookings \cup {"none"}, user : Users \cup {"none"}]]
    /\ appeals \subseteq [of : Keys, status : {"PENDING", "UPHELD", "REJECTED"}]
    /\ restricted \subseteq Users

Init ==
    /\ score = PastScore
    /\ events = {} /\ appeals = {} /\ restricted = {}
    /\ booking = [b \in Bookings |-> [status |-> "ACCEPTED", started |-> FALSE]]
    /\ case = [c \in Cases |-> NoCase]

-----------------------------------------------------------------------------
(* The ledger *)

ClampedScore(s) == Min({100, Max({0, s})})

Reversed(e) == \E r \in events : r.reverses = e.key

\* Mutated form: the event keeps the change that was asked for.
RequestedEvent(key, u, b, category, delta, reverses) ==
    [key |-> key, user |-> u, booking |-> b, category |-> category,
     delta |-> delta, reverses |-> reverses, recent |-> category = "COMPLETION"]

Event(key, u, b, category, delta, reverses) ==
    [key |-> key, user |-> u, booking |-> b, category |-> category,
     delta |-> ClampedScore(score[u] + delta) - score[u], reverses |-> reverses,
     recent |-> category = "COMPLETION"]

\* The events among es whose key is new are recorded and move their scores; an
\* event whose key exists changes nothing.  es has one event per account.
ApplyTrustEvents(es) ==
    LET new == {e \in es : \A f \in events : f.key # e.key}
    IN  /\ events' = events \cup new
        /\ score' = [u \in Users |-> LET mine == {e \in new : e.user = u}
                                     IN  IF mine = {} THEN score[u]
                                         ELSE ClampedScore(score[u] + (CHOOSE e \in mine : TRUE).delta)]

-----------------------------------------------------------------------------
(* Rewards and penalties *)

OpenCases(b) == {c \in Cases : case[c].status = "PENDING" /\ case[c].booking = b}

\* Mutated form: a corrected penalty no longer counts as the booking's penalty.
PenalizedStill(b, u) ==
    \E e \in events : e.category \in Penalties /\ e.booking = b /\ e.user = u /\ ~Reversed(e)

\* The booking-penalty key is taken: one penalty per booking and participant,
\* also when it was corrected later.
Penalized(b, u) ==
    \E e \in events : e.category \in Penalties /\ e.booking = b /\ e.user = u

BookingTrustPenalty(c, u, category) ==
    IF Penalized(case[c].booking, u) THEN {}
    ELSE {Event(<<"case", c, "none">>, u, case[c].booking, category,
                IF category = "CANCELLATION_PENALTY" THEN -5 ELSE -10, NoKey)}

\* Mutated form: only this booking's own events are looked at.
NotLimited(b) == FALSE

\* The pair was rewarded for another booking within seven days.
RewardedLately(b) ==
    \E e \in events : /\ e.category = "COMPLETION" /\ e.booking # b
                      /\ e.recent /\ ~Reversed(e)

AtFault(b, u, es) ==
    \E e \in events \cup es : /\ e.category \in Penalties /\ e.booking = b /\ e.user = u
                             /\ ~Reversed(e)

\* What the end of a case or of the work awards for b, which is COMPLETED: es are
\* penalties of the same transaction, closed the cases it closes.
BookingCompletionTrust(b, es, closed) ==
    IF OpenCases(b) \ closed # {} \/ RewardedLately(b) THEN {}
    ELSE {Event(<<"completion", b, u>>, u, b, "COMPLETION", 3, NoKey) :
             u \in {v \in Users \ restricted : ~AtFault(b, v, es)}}

\* The last transaction of a decision: the cases are closed, b has its final
\* status, the penalties es apply and a completed booking is rewarded.
CloseCases(closed, b, status, es) ==
    /\ case' = [c \in Cases |-> IF c \in closed THEN [case[c] EXCEPT !.status = "RESOLVED"]
                                ELSE case[c]]
    /\ booking' = [booking EXCEPT ![b].status = status]
    /\ ApplyTrustEvents(es \cup IF status = "COMPLETED" THEN BookingCompletionTrust(b, es, closed)
                                ELSE {})
    /\ UNCHANGED <<appeals, restricted>>

-----------------------------------------------------------------------------
(* Bookings and their cases *)

StartJob(b) ==
    /\ booking[b].status = "ACCEPTED" /\ OpenCases(b) = {}
    /\ booking' = [booking EXCEPT ![b] = [status |-> "ONGOING", started |-> TRUE]]
    /\ UNCHANGED <<score, events, case, appeals, restricted>>

\* settleCompletedBooking for the seeker, whose confirmation also ends a pending
\* escalation; other open cases refuse it.
SettleCompletedBooking(b) ==
    /\ booking[b].status = "ONGOING"
    /\ \A c \in OpenCases(b) : case[c].type = "ESCALATION"
    /\ CloseCases(OpenCases(b), b, "COMPLETED", {})

OpenCase(c, type, b, u) ==
    /\ case[c].status = "none"
    /\ \/ type = "SAFETY" /\ u \in Users /\ restricted \subseteq {u}
       \/ type = "COMPLETION_DISPUTE" /\ u \in Users /\ booking[b].status = "ONGOING"
       \/ type = "CANCELLATION" /\ u = "none" /\ booking[b].status \in {"ACCEPTED", "ONGOING"}
       \/ type = "ESCALATION" /\ u = "none" /\ booking[b].status = "ONGOING"
    /\ type # "SAFETY" => \A d \in OpenCases(b) : case[d].type # type
    /\ case' = [case EXCEPT ![c] = [status |-> "PENDING", type |-> type, booking |-> b, user |-> u]]
    /\ UNCHANGED <<score, events, booking, appeals, restricted>>

\* resolveAdminReport: a finding may carry a penalty, a dismissal may not.
ResolveAdminReport(c, outcome, penalty) ==
    LET b  == case[c].booking
        es == IF penalty THEN BookingTrustPenalty(c, case[c].user, "REPORT_PENALTY") ELSE {}
    IN  /\ case[c].status = "PENDING" /\ case[c].type \in {"SAFETY", "COMPLETION_DISPUTE"}
        /\ penalty => outcome # "dismiss"
        /\ \/ /\ outcome \in {"dismiss", "resolve_safety"}
              /\ outcome = "resolve_safety" => case[c].type = "SAFETY"
              /\ CloseCases({c}, b, booking[b].status, es)
           \/ /\ outcome = "cancel_booking" /\ booking[b].status \in {"ACCEPTED", "ONGOING"}
              /\ OpenCases(b) = {c}
              /\ CloseCases({c}, b, "CANCELED", es)
           \/ /\ outcome = "release_provider_and_complete" /\ case[c].type = "COMPLETION_DISPUTE"
              /\ booking[b].status = "ONGOING" /\ OpenCases(b) = {c}
              /\ CloseCases({c}, b, "COMPLETED", es)

\* adminResolveCancellationRequest: an approval may find a participant at fault
\* once work was started; a denial awards nothing, also if the booking was
\* completed meanwhile.
AdminResolveCancellationRequest(c, approve, fault) ==
    LET b == case[c].booking
    IN  /\ case[c].status = "PENDING" /\ case[c].type = "CANCELLATION"
        /\ fault \in Users => approve /\ booking[b].started
        /\ \/ /\ approve
              /\ OpenCases(b) = {c} /\ booking[b].status \in {"ACCEPTED", "ONGOING"}
              /\ CloseCases({c}, b, "CANCELED",
                            IF fault \in Users THEN BookingTrustPenalty(c, fault, "CANCELLATION_PENALTY")
                            ELSE {})
           \/ /\ ~approve
              /\ case' = [case EXCEPT ![c].status = "RESOLVED"]
              /\ UNCHANGED <<score, events, booking, appeals, restricted>>

ResolveCompletionEscalation(c, status) ==
    LET b == case[c].booking
    IN  /\ case[c].status = "PENDING" /\ case[c].type = "ESCALATION"
        /\ booking[b].status = "ONGOING" /\ OpenCases(b) = {c}
        /\ CloseCases({c}, b, status, {})

-----------------------------------------------------------------------------
(* Corrections, appeals and time *)

Reversal(key, e) == Event(key, e.user, e.booking, "CORRECTION", -e.delta, e.key)

\* applyManualTrustAdjustment: an original event that changed the score is undone.
\* A repeated operationId changes nothing, or is refused.
ApplyManualTrustAdjustment(o, e) ==
    /\ e.delta # 0 /\ e.reverses = NoKey /\ ~Reversed(e)
    /\ \A f \in events : f.key # <<"manual", o, "none">>
    /\ ApplyTrustEvents({Reversal(<<"manual", o, "none">>, e)})
    /\ UNCHANGED <<booking, case, appeals, restricted>>

SubmitTrustCase(e) ==
    /\ e.category \in Penalties /\ ~Reversed(e)
    /\ \A a \in appeals : a.of # e.key
    /\ appeals' = appeals \cup {[of |-> e.key, status |-> "PENDING"]}
    /\ UNCHANGED <<score, events, booking, case, restricted>>

\* Mutated form: an upheld appeal returns the points whatever happened before.
DecideTrustCaseAgain(a, uphold) ==
    LET e == CHOOSE f \in events : f.key = a.of
    IN  /\ a.status = "PENDING"
        /\ ApplyTrustEvents(IF uphold THEN {Reversal(<<"appeal", a.of[2], "none">>, e)} ELSE {})
        /\ appeals' = (appeals \ {a}) \cup
                      {[a EXCEPT !.status = IF uphold THEN "UPHELD" ELSE "REJECTED"]}
        /\ UNCHANGED <<booking, case, restricted>>

\* decideTrustCase: an upheld appeal undoes the penalty unless a correction did.
DecideTrustCase(a, uphold) ==
    LET e == CHOOSE f \in events : f.key = a.of
    IN  /\ a.status = "PENDING"
        /\ ApplyTrustEvents(IF uphold /\ ~Reversed(e)
                            THEN {Reversal(<<"appeal", a.of[2], "none">>, e)} ELSE {})
        /\ appeals' = (appeals \ {a}) \cup
                      {[a EXCEPT !.status = IF uphold THEN "UPHELD" ELSE "REJECTED"]}
        /\ UNCHANGED <<booking, case, restricted>>

\* An account is suspended or banned, or restored (Accounts).
Moderate(u) ==
    /\ restricted' = IF u \in restricted THEN restricted \ {u} ELSE restricted \cup {u}
    /\ UNCHANGED <<score, events, booking, case, appeals>>

\* Seven days after the reward for b.
WindowEnds(b) ==
    /\ \E e \in events : e.booking = b /\ e.recent
    /\ events' = {IF e.booking = b THEN [e EXCEPT !.recent = FALSE] ELSE e : e \in events}
    /\ UNCHANGED <<score, booking, case, appeals, restricted>>

Next ==
    \/ \E b \in Bookings : StartJob(b) \/ SettleCompletedBooking(b) \/ WindowEnds(b)
    \/ \E c \in Cases, b \in Bookings, type \in CaseTypes, u \in Users \cup {"none"} :
          OpenCase(c, type, b, u)
    \/ \E c \in Cases, penalty \in BOOLEAN,
          outcome \in {"dismiss", "resolve_safety", "cancel_booking", "release_provider_and_complete"} :
          ResolveAdminReport(c, outcome, penalty)
    \/ \E c \in Cases, approve \in BOOLEAN, fault \in Users \cup {"none"} :
          AdminResolveCancellationRequest(c, approve, fault)
    \/ \E c \in Cases, status \in {"ONGOING", "COMPLETED", "CANCELED"} :
          ResolveCompletionEscalation(c, status)
    \/ \E o \in Ops, e \in events : ApplyManualTrustAdjustment(o, e)
    \/ \E e \in events : SubmitTrustCase(e)
    \/ \E a \in appeals, uphold \in BOOLEAN : DecideTrustCase(a, uphold)
    \/ \E u \in Users : Moderate(u)

Spec == Init /\ [][Next]_vars

-----------------------------------------------------------------------------
(* Properties *)

\* The score stays on its scale and is the past score plus every recorded
\* change, also when rewards, penalties and corrections were cut off at 0 or
\* 100: trust.service.ts:52-57.
LedgerExplainsScore ==
    \A u \in Users :
        /\ score[u] \in 0 .. 100
        /\ score[u] = PastScore[u]
               + MapThenSumSet(LAMBDA e : e.delta, {e \in events : e.user = u})

\* A booking costs a participant at most one penalty, whatever reports and
\* cancellations are decided about it and whether or not the first penalty was
\* taken back in between: trust-policy.service.ts:57-58.
PenalizedOnce ==
    \A e, f \in events :
        /\ e.category \in Penalties /\ f.category \in Penalties
        /\ e.booking = f.booking /\ e.user = f.user
        => e = f

\* No event is undone twice, by an appeal and a correction, by two corrections or
\* by a retried one: trust.service.ts:123 and trust-cases.controller.ts:87.
ReversedOnce ==
    \A e, f \in events : e.reverses # NoKey /\ e.reverses = f.reverses => e = f

\* The pair has standing rewards of the last seven days for one booking only,
\* although cases delay rewards and closing a case tries again:
\* trust-policy.service.ts:26-34.
OneRewardPerWeek ==
    \A e, f \in events :
        e.recent /\ f.recent /\ ~Reversed(e) /\ ~Reversed(f) => e.booking = f.booking
=============================================================================
