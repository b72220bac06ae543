----------------------------- MODULE TrustProofs -----------------------------
(***************************************************************************)
(* Theorems about Trust, for any bookings, cases and corrections.  What a  *)
(* sum over a set of events is, follows from the smallest subset of the    *)
(* set on which a claim about it would fail.                               *)
(***************************************************************************)
EXTENDS Trust, FiniteSetTheorems, TLAPS

-----------------------------------------------------------------------------
(* The inductive invariant                                                  *)

\* A case that was opened is about a booking, and a report about a participant.
CaseInv ==
    \A c \in Cases :
        /\ case[c].status # "none" => case[c].booking \in Bookings
        /\ case[c].status # "none" /\ case[c].type \in {"SAFETY", "COMPLETION_DISPUTE"} =>
              case[c].user \in Users

\* The key of an event tells where it comes from; only corrections undo events,
\* and only recorded ones; only rewards count for the seven days.
EventInv ==
    \A e \in events :
        /\ e.category \in Penalties => e.reverses = NoKey /\ \E c \in Cases : e.key = <<"case", c, "none">>
        /\ e.category = "COMPLETION" => e.reverses = NoKey /\ e.key = <<"completion", e.booking, e.user>>
        /\ e.category = "CORRECTION" => e.key \notin Keys /\ \E f \in events : f.key = e.reverses
        /\ e.recent => e.category = "COMPLETION"

\* An appeal is against a recorded penalty.
AppealInv == \A a \in appeals : \E e \in events : e.key = a.of /\ e.category \in Penalties

IInv ==
    /\ TypeOK /\ CaseInv /\ EventInv /\ AppealInv
    /\ PenalizedOnce /\ ReversedOnce /\ OneRewardPerWeek

-----------------------------------------------------------------------------
(* Keys, scores and events                                                  *)

\* Where a key comes from can be told from it.
LEMMA KeyFacts ==
    /\ \A b \in Bookings, u \in Users : <<"completion", b, u>> \in Keys
    /\ \A c \in Cases : <<"case", c, "none">> \in Keys
    /\ \A k \in Keys : \/ \E b \in Bookings, u \in Users : k = <<"completion", b, u>>
                       \/ \E c \in Cases : k = <<"case", c, "none">>
    /\ NoKey \notin Keys
    /\ \A o, s : <<"manual", o, s>> \notin Keys /\ <<"appeal", o, s>> \notin Keys
    /\ \A b, c, u, s : <<"completion", b, u>> # <<"case", c, s>>
    /\ \A o, s : <<"manual", o, s>> # NoKey /\ <<"appeal", o, s>> # NoKey
BY DEF Keys, NoKey

\* A score stays on its scale, and one that is on it is not cut off.
LEMMA Clamped ==
    ASSUME NEW s \in Int
    PROVE  /\ ClampedScore(s) \in 0 .. 100
           /\ s \in 0 .. 100 => ClampedScore(s) = s
<1>1. Max({0, s}) = IF s >= 0 THEN s ELSE 0
  BY DEF Max
<1>2. \A t \in Int : Min({100, t}) = IF t <= 100 THEN t ELSE 100
  BY DEF Min
<1>3. QED
  BY <1>1, <1>2 DEF ClampedScore

\* TRUE and FALSE are the Booleans.
LEMMA Booleans == TRUE \in BOOLEAN /\ FALSE \in BOOLEAN
OBVIOUS

\* What an event records is well-formed, and leads to a score on the scale.
LEMMA NewEvent ==
    ASSUME TypeOK,
           NEW key \in Keys \cup {"manual", "appeal"} \X (Ops \cup Cases) \X {"none"},
           NEW u \in Users, NEW b \in Bookings, NEW category \in Categories, NEW delta \in Int,
           NEW reverses \in Keys \cup {NoKey},
           NEW e, e = Event(key, u, b, category, delta, reverses)
    PROVE  /\ e \in Events
           /\ e.key = key /\ e.user = u /\ e.booking = b /\ e.category = category
           /\ e.reverses = reverses /\ (e.recent <=> category = "COMPLETION")
           /\ score[u] + e.delta \in 0 .. 100
<1>1. score[u] \in 0 .. 100
  BY DEF TypeOK
<1>2. ClampedScore(score[u] + delta) \in 0 .. 100
  BY <1>1, Clamped
<1>3. ClampedScore(score[u] + delta) - score[u] \in -100 .. 100
  BY <1>1, <1>2, SMTT(30)
<1>4. e = [key |-> key, user |-> u, booking |-> b, category |-> category,
           delta |-> ClampedScore(score[u] + delta) - score[u], reverses |-> reverses,
           recent |-> category = "COMPLETION"]
  BY DEF Event
<1>5. e \in Events /\ (e.recent <=> category = "COMPLETION")
  <2> DEFINE d == ClampedScore(score[u] + delta) - score[u]
  <2>1. CASE category = "COMPLETION"
    <3>1. e = [key |-> key, user |-> u, booking |-> b, category |-> category,
               delta |-> d, reverses |-> reverses, recent |-> TRUE]
      BY <1>4, <2>1
    <3>2. e \in Events
      BY <1>3, <3>1, Booleans DEF Events
    <3>3. e.recent
      BY <3>1
    <3>4. QED
      BY <2>1, <3>2, <3>3
  <2>2. CASE category # "COMPLETION"
    <3>1. e = [key |-> key, user |-> u, booking |-> b, category |-> category,
               delta |-> d, reverses |-> reverses, recent |-> FALSE]
      BY <1>4, <2>2
    <3>2. QED
      BY <1>3, <2>2, <3>1 DEF Events
  <2>3. QED
    BY <2>1, <2>2
<1>6. score[u] + e.delta = ClampedScore(score[u] + delta)
  BY <1>1, <1>2, <1>4
<1>7. /\ e.key = key /\ e.user = u /\ e.booking = b /\ e.category = category
      /\ e.reverses = reverses
  BY <1>4
<1>8. QED
  BY <1>2, <1>5, <1>6, <1>7

\* Old and new events with their fields.
LEMMA EventFields ==
    ASSUME NEW e \in Events
    PROVE  /\ e.key \in Keys \cup {"manual", "appeal"} \X (Ops \cup Cases) \X {"none"}
           /\ e.user \in Users /\ e.booking \in Bookings /\ e.category \in Categories
           /\ e.delta \in Int /\ -e.delta \in Int /\ e.reverses \in Keys \cup {NoKey}
BY DEF Events

-----------------------------------------------------------------------------
(* The ledger                                                               *)

\* The events among es that ApplyTrustEvents records.
New(es) == {e \in es : \A f \in events : f.key # e.key}

\* Whatever well-formed events are applied, the ledger stays well-formed, its
\* keys unique and the scores on their scale.
LEMMA Applied ==
    ASSUME TypeOK, NEW es \in SUBSET Events, \A e, f \in es : e.key = f.key => e = f,
           ApplyTrustEvents(es)
    PROVE  /\ events' = events \cup New(es)
           /\ events' \subseteq Events
           /\ \A e, f \in events' : e.key = f.key => e = f
           /\ score' \in [Users -> 0 .. 100]
<1>1. events' = events \cup New(es)
  BY DEF ApplyTrustEvents, New
<1>2. events' \subseteq Events
  BY <1>1 DEF New, TypeOK
<1>3. \A e, f \in events' : e.key = f.key => e = f
  BY <1>1 DEF New, TypeOK
<1>4. ASSUME NEW u \in Users
      PROVE  LET mine == {e \in New(es) : e.user = u}
             IN  (IF mine = {} THEN score[u]
                  ELSE ClampedScore(score[u] + (CHOOSE e \in mine : TRUE).delta)) \in 0 .. 100
  <2> DEFINE mine == {e \in New(es) : e.user = u}
  <2>1. score[u] \in 0 .. 100
    BY DEF TypeOK
  <2>2. CASE mine # {}
    <3> DEFINE e == CHOOSE e \in mine : TRUE
    <3>1. e \in Events
      BY <2>2 DEF New
    <3>2. score[u] + e.delta \in Int
      BY <2>1, <3>1, EventFields
    <3>3. ClampedScore(score[u] + e.delta) \in 0 .. 100
      BY <3>2, Clamped
    <3>4. QED
      BY <2>2, <3>3
  <2>3. QED
    BY <2>1, <2>2
<1>5. score' \in [Users -> 0 .. 100]
  BY <1>4 DEF ApplyTrustEvents, New
<1>6. QED
  BY <1>1, <1>2, <1>3, <1>5

\* A correction of the recorded event e.
Correction(e, r) ==
    /\ e \in events /\ e.reverses = NoKey /\ ~Reversed(e)
    /\ r \in Events /\ r.category = "CORRECTION" /\ r.reverses = e.key /\ r.key \notin Keys
    /\ ~r.recent /\ score[r.user] + r.delta \in 0 .. 100

\* The events of the transaction that ends a case or the work of booking b: at
\* most one penalty, for a participant who had none, and rewards for the others.
Award(es, b) ==
    /\ es \in SUBSET Events
    /\ \A e, f \in es : e.key = f.key => e = f
    /\ \A e, f \in New(es) : e.user = f.user => e = f
    /\ \A e, f \in es : e.category \in Penalties /\ f.category \in Penalties => e = f
    /\ \A e \in es :
          /\ e.booking = b /\ e.reverses = NoKey /\ score[e.user] + e.delta \in 0 .. 100
          /\ e.category # "CORRECTION" /\ (e.recent => e.category = "COMPLETION")
          /\ e.category \in Penalties => /\ ~Penalized(b, e.user)
                                         /\ \E c \in Cases : e.key = <<"case", c, "none">>
          /\ e.category = "COMPLETION" => /\ ~RewardedLately(b)
                                          /\ e.key = <<"completion", b, e.user>>

\* At most one penalty, of a case, for a participant of b who had none.
Penalty(es, b) ==
    /\ es \in SUBSET Events
    /\ \A e, f \in es : e = f
    /\ \A e \in es : /\ e.category \in Penalties /\ e.booking = b /\ e.reverses = NoKey
                     /\ ~e.recent /\ ~Penalized(b, e.user)
                     /\ \E c \in Cases : e.key = <<"case", c, "none">>
                     /\ score[e.user] + e.delta \in 0 .. 100

\* BookingTrustPenalty is such a penalty.
LEMMA PenaltyFacts ==
    ASSUME TypeOK, NEW c \in Cases, NEW u \in Users, NEW category \in Penalties,
           case[c].booking \in Bookings
    PROVE  Penalty(BookingTrustPenalty(c, u, category), case[c].booking)
<1> DEFINE b == case[c].booking
           n == IF category = "CANCELLATION_PENALTY" THEN -5 ELSE -10
           e == Event(<<"case", c, "none">>, u, b, category, n, NoKey)
<1>1. CASE Penalized(b, u)
  BY <1>1 DEF BookingTrustPenalty, Penalty
<1>2. CASE ~Penalized(b, u)
  <2>1. BookingTrustPenalty(c, u, category) = {e}
    BY <1>2 DEF BookingTrustPenalty
  <2>2. /\ <<"case", c, "none">> \in Keys \cup {"manual", "appeal"} \X (Ops \cup Cases) \X {"none"}
        /\ NoKey \in Keys \cup {NoKey}
    BY KeyFacts
  <2>3. n \in Int /\ category \in Categories /\ category # "COMPLETION"
    BY DEF Categories, Penalties
  <2>4. /\ e \in Events
        /\ e.key = <<"case", c, "none">> /\ e.user = u /\ e.booking = b /\ e.category = category
        /\ e.reverses = NoKey /\ (e.recent <=> category = "COMPLETION")
        /\ score[u] + e.delta \in 0 .. 100
    BY <2>2, <2>3, NewEvent
  <2>5. QED
    BY <1>2, <2>1, <2>3, <2>4 DEF Penalty
<1>3. QED
  BY <1>1, <1>2

\* A reward of BookingCompletionTrust.
LEMMA RewardFacts ==
    ASSUME TypeOK, NEW b \in Bookings, NEW es, NEW closed, NEW e \in BookingCompletionTrust(b, es, closed)
    PROVE  /\ e \in Events /\ ~RewardedLately(b)
           /\ e.key = <<"completion", b, e.user>> /\ e.user \in Users /\ e.booking = b
           /\ e.category = "COMPLETION" /\ e.reverses = NoKey
           /\ score[e.user] + e.delta \in 0 .. 100
           /\ ~AtFault(b, e.user, es)
           /\ e = Event(<<"completion", b, e.user>>, e.user, b, "COMPLETION", 3, NoKey)
<1>1. ~RewardedLately(b)
  BY DEF BookingCompletionTrust
<1>2. PICK u \in Users : /\ e = Event(<<"completion", b, u>>, u, b, "COMPLETION", 3, NoKey)
                         /\ ~AtFault(b, u, es)
  BY DEF BookingCompletionTrust
<1>3. /\ <<"completion", b, u>> \in Keys \cup {"manual", "appeal"} \X (Ops \cup Cases) \X {"none"}
      /\ NoKey \in Keys \cup {NoKey} /\ "COMPLETION" \in Categories /\ 3 \in Int
  BY KeyFacts DEF Categories
<1>4. /\ e \in Events
      /\ e.key = <<"completion", b, u>> /\ e.user = u /\ e.booking = b /\ e.category = "COMPLETION"
      /\ e.reverses = NoKey /\ score[u] + e.delta \in 0 .. 100
  BY <1>2, <1>3, NewEvent
<1>5. QED
  BY <1>1, <1>2, <1>4

\* A penalty with the rewards of the same transaction.
LEMMA AwardFacts ==
    ASSUME TypeOK, EventInv, NEW b \in Bookings, NEW es, Penalty(es, b), NEW closed,
           NEW rewards, rewards \in {{}, BookingCompletionTrust(b, es, closed)}
    PROVE  Award(es \cup rewards, b)
<1> DEFINE all == es \cup rewards
<1>1. ASSUME NEW e \in rewards
      PROVE  /\ e \in Events /\ ~RewardedLately(b)
             /\ e.key = <<"completion", b, e.user>> /\ e.user \in Users /\ e.booking = b
             /\ e.category = "COMPLETION" /\ e.reverses = NoKey
             /\ score[e.user] + e.delta \in 0 .. 100
             /\ ~AtFault(b, e.user, es)
             /\ e = Event(<<"completion", b, e.user>>, e.user, b, "COMPLETION", 3, NoKey)
  <2>1. e \in BookingCompletionTrust(b, es, closed)
    OBVIOUS
  <2>2. QED
    BY <2>1, RewardFacts
<1>2. \A e \in es : e.category # "COMPLETION" /\ e.category # "CORRECTION"
  BY DEF Penalty, Penalties
<1>3. all \in SUBSET Events
  BY <1>1 DEF Penalty
<1>4. ASSUME NEW e \in all, NEW f \in all, e.key = f.key PROVE e = f
  <2>1. CASE e \in es /\ f \in es
    BY <2>1 DEF Penalty
  <2>2. CASE e \in rewards /\ f \in rewards
    <3>1. <<"completion", b, e.user>> = <<"completion", b, f.user>>
      BY <1>1, <1>4, <2>2
    <3>2. e.user = f.user
      BY <3>1
    <3>3. QED
      BY <1>1, <2>2, <3>2
  <2>3. ASSUME NEW x \in es, NEW y \in rewards PROVE x.key # y.key
    <3>1. PICK c \in Cases : x.key = <<"case", c, "none">>
      BY DEF Penalty
    <3>2. y.key = <<"completion", b, y.user>>
      BY <1>1
    <3>3. QED
      BY <3>1, <3>2
  <2>4. ~(e \in es /\ f \in rewards) /\ ~(e \in rewards /\ f \in es)
    BY <1>4, <2>3
  <2>5. QED
    BY <2>1, <2>2, <2>4
<1>5. ASSUME NEW e \in es, NEW f \in rewards, e.user = f.user, \A g \in events : g.key # e.key
      PROVE  FALSE
  <2>1. Reversed(e)
    BY <1>1, <1>5 DEF Penalty, AtFault
  <2>2. PICK r \in events : r.reverses = e.key
    BY <2>1 DEF Reversed
  <2>3. e.key # NoKey
    BY KeyFacts, SMTT(30) DEF Penalty
  <2>4. r.category \in Categories
    BY EventFields DEF TypeOK
  <2>5. r.category = "CORRECTION"
    BY <2>2, <2>3, <2>4 DEF EventInv, Categories
  <2>6. QED
    BY <1>5, <2>2, <2>5 DEF EventInv
<1>6. ASSUME NEW e \in New(all), NEW f \in New(all), e.user = f.user PROVE e = f
  <2>1. CASE e \in es /\ f \in es
    BY <2>1 DEF Penalty
  <2>2. CASE e \in rewards /\ f \in rewards
    BY <1>1, <1>6, <2>2
  <2>3. QED
    BY <1>5, <1>6, <2>1, <2>2 DEF New
<1>7. ASSUME NEW e \in all, NEW f \in all, e.category \in Penalties, f.category \in Penalties
      PROVE  e = f
  <2>1. e \in es /\ f \in es
    BY <1>1, <1>7 DEF Penalties
  <2>2. QED
    BY <2>1 DEF Penalty
<1>8. ASSUME NEW e \in all
      PROVE  /\ e.booking = b /\ e.reverses = NoKey /\ score[e.user] + e.delta \in 0 .. 100
             /\ e.category # "CORRECTION" /\ (e.recent => e.category = "COMPLETION")
             /\ e.category \in Penalties => /\ ~Penalized(b, e.user)
                                            /\ \E c \in Cases : e.key = <<"case", c, "none">>
             /\ e.category = "COMPLETION" => /\ ~RewardedLately(b)
                                             /\ e.key = <<"completion", b, e.user>>
  <2>1. CASE e \in es
    BY <1>2, <2>1 DEF Penalty
  <2>2. CASE e \in rewards
    BY <1>1, <2>2 DEF Penalties
  <2>3. QED
    BY <2>1, <2>2
<1>9. QED
  BY <1>3, <1>4, <1>6, <1>7, <1>8 DEF Award

-----------------------------------------------------------------------------
(* What a step does                                                         *)

BookingType == [status : {"ACCEPTED", "ONGOING", "COMPLETED", "CANCELED"}, started : BOOLEAN]
CaseType == [status : {"none", "PENDING", "RESOLVED"}, type : CaseTypes,
             booking : Bookings \cup {"none"}, user : Users \cup {"none"}]

\* The bookings and cases of a state are well-formed.
Rest ==
    /\ booking \in [Bookings -> BookingType] /\ case \in [Cases -> CaseType]
    /\ CaseInv /\ restricted \subseteq Users

\* No penalty is one, too.
LEMMA NoPenalty == \A b : Penalty({}, b)
BY DEF Penalty

\* The transaction that ends a case or the work of a booking.
LEMMA Closing ==
    ASSUME TypeOK, CaseInv, EventInv, NEW b \in Bookings, NEW es, Penalty(es, b),
           NEW closed, \A c \in closed \cap Cases : case[c].status = "PENDING",
           NEW status \in {"ACCEPTED", "ONGOING", "COMPLETED", "CANCELED"},
           CloseCases(closed, b, status, es)
    PROVE  /\ Rest' /\ appeals' = appeals
           /\ \E all \in SUBSET Events : Award(all, b) /\ ApplyTrustEvents(all)
<1>1. booking' \in [Bookings -> BookingType]
  BY DEF CloseCases, TypeOK, BookingType
<1>2. \A c \in Cases : case'[c] = IF c \in closed THEN [case[c] EXCEPT !.status = "RESOLVED"] ELSE case[c]
  BY DEF CloseCases
<1>3. \A c \in Cases : case'[c] \in CaseType
  <2>1. \A r \in CaseType : [r EXCEPT !.status = "RESOLVED"] \in CaseType
    BY DEF CaseType
  <2>2. \A c \in Cases : case[c] \in CaseType
    BY DEF TypeOK, CaseType
  <2>3. QED
    BY <1>2, <2>1, <2>2
<1>4. case' \in [Cases -> CaseType]
  BY <1>3 DEF CloseCases
<1>5. CaseInv'
  BY <1>2, ZenonT(60) DEF CaseInv, TypeOK
<1>6. \E all \in SUBSET Events : Award(all, b) /\ ApplyTrustEvents(all)
  <2> DEFINE rewards == IF status = "COMPLETED" THEN BookingCompletionTrust(b, es, closed) ELSE {}
  <2>1. Award(es \cup rewards, b)
    BY AwardFacts
  <2>2. ApplyTrustEvents(es \cup rewards)
    BY DEF CloseCases
  <2>3. QED
    BY <2>1, <2>2 DEF Award
<1>7. QED
  BY <1>1, <1>4, <1>5, <1>6 DEF CloseCases, Rest, TypeOK

\* A correction or an upheld appeal is recorded under a key of its own.
LEMMA Reversing ==
    ASSUME TypeOK, EventInv, NEW e \in events, e.reverses = NoKey, ~Reversed(e),
           NEW kind \in {"manual", "appeal"}, NEW o \in Ops \cup Cases
    PROVE  Correction(e, Reversal(<<kind, o, "none">>, e))
<1> DEFINE key == <<kind, o, "none">>
           r == Reversal(key, e)
<1>1. e \in Events /\ e.category \in Categories
  BY EventFields DEF TypeOK
<1>2. e.key \in Keys
  <2>1. CASE e.category = "CORRECTION"
    <3>1. PICK f \in events : f.key = NoKey
      BY <2>1 DEF EventInv
    <3>2. NoKey \in Keys \cup {"manual", "appeal"} \X (Ops \cup Cases) \X {"none"}
      BY <3>1, EventFields DEF TypeOK
    <3>3. QED
      BY <3>2, KeyFacts DEF NoKey
  <2>2. CASE e.category \in Penalties \cup {"COMPLETION"}
    BY <1>1, <2>2, KeyFacts, EventFields DEF EventInv
  <2>3. QED
    BY <1>1, <2>1, <2>2 DEF Categories
<1>3. key \in Keys \cup {"manual", "appeal"} \X (Ops \cup Cases) \X {"none"} /\ key \notin Keys
  BY KeyFacts
<1>4. /\ e.user \in Users /\ e.booking \in Bookings /\ -e.delta \in Int
      /\ "CORRECTION" \in Categories /\ e.key \in Keys \cup {NoKey}
  BY <1>1, <1>2, EventFields DEF Categories
<1>5. r = Event(key, e.user, e.booking, "CORRECTION", -e.delta, e.key)
  BY DEF Reversal
<1>6. /\ r \in Events /\ r.key = key /\ r.user = e.user /\ r.category = "CORRECTION"
      /\ r.reverses = e.key /\ ~r.recent /\ score[e.user] + r.delta \in 0 .. 100
  BY <1>3, <1>4, <1>5, NewEvent
<1>7. QED
  BY <1>3, <1>6 DEF Correction

\* Every step leaves the ledger alone, ends a reward's seven days, applies the
\* events of one booking or corrects one event.
LEMMA Steps ==
    ASSUME TypeOK, CaseInv, EventInv, AppealInv, [Next]_vars
    PROVE  /\ Rest'
           /\ \/ UNCHANGED <<events, score>>
              \/ \E b \in Bookings : WindowEnds(b)
              \/ \E b \in Bookings, all \in SUBSET Events : Award(all, b) /\ ApplyTrustEvents(all)
              \/ \E e \in events, r \in Events : Correction(e, r) /\ ApplyTrustEvents({r})
           /\ \A a \in appeals' : /\ a \in [of : Keys, status : {"PENDING", "UPHELD", "REJECTED"}]
                                  /\ \E e \in events : e.key = a.of /\ e.category \in Penalties
<1> DEFINE Ledger == \/ UNCHANGED <<events, score>>
                     \/ \E b \in Bookings : WindowEnds(b)
                     \/ \E b \in Bookings, all \in SUBSET Events : Award(all, b) /\ ApplyTrustEvents(all)
                     \/ \E e \in events, r \in Events : Correction(e, r) /\ ApplyTrustEvents({r})
           AppealOK(a) == /\ a \in [of : Keys, status : {"PENDING", "UPHELD", "REJECTED"}]
                          /\ \E e \in events : e.key = a.of /\ e.category \in Penalties
           Goal == Rest' /\ Ledger /\ \A a \in appeals' : AppealOK(a)
<1> HIDE DEF Ledger, AppealOK, Goal
<1>a. Rest
  BY DEF Rest, TypeOK, BookingType, CaseType
<1>b. \A a \in appeals : AppealOK(a)
  BY DEF AppealOK, TypeOK, AppealInv
<1>c. ASSUME NEW c \in Cases, case[c].status = "PENDING"
      PROVE  case[c].booking \in Bookings
             /\ (case[c].type \in {"SAFETY", "COMPLETION_DISPUTE"} => case[c].user \in Users)
  BY <1>c DEF CaseInv
<1>d. \A b \in Bookings : booking[b].status \in {"ACCEPTED", "ONGOING", "COMPLETED", "CANCELED"}
  BY DEF TypeOK
<1>e. ASSUME NEW b \in Bookings, NEW es, Penalty(es, b), NEW closed,
             \A c \in closed \cap Cases : case[c].status = "PENDING",
             NEW status \in {"ACCEPTED", "ONGOING", "COMPLETED", "CANCELED"},
             CloseCases(closed, b, status, es)
      PROVE  Goal
  <2>1. /\ Rest' /\ appeals' = appeals
        /\ \E all \in SUBSET Events : Award(all, b) /\ ApplyTrustEvents(all)
    BY <1>e, Closing
  <2>2. QED
    BY <1>b, <2>1 DEF Goal, Ledger
<1>1. ASSUME NEW b \in Bookings, StartJob(b) PROVE Goal
  <2>1. booking' \in [Bookings -> BookingType]
    BY <1>1, <1>a, Booleans DEF StartJob, Rest, BookingType
  <2>2. QED
    BY <1>1, <1>a, <1>b, <2>1 DEF StartJob, Goal, Ledger, Rest, CaseInv
<1>2. ASSUME NEW b \in Bookings, SettleCompletedBooking(b) PROVE Goal
  <2>1. \A c \in OpenCases(b) \cap Cases : case[c].status = "PENDING"
    BY DEF OpenCases
  <2>2. CloseCases(OpenCases(b), b, "COMPLETED", {})
    BY <1>2 DEF SettleCompletedBooking
  <2>3. QED
    BY <1>e, <2>1, <2>2, NoPenalty
<1>3. ASSUME NEW b \in Bookings, WindowEnds(b) PROVE Goal
  <2>1. UNCHANGED <<booking, case, appeals, restricted>>
    BY <1>3 DEF WindowEnds
  <2>2. QED
    BY <1>3, <1>a, <1>b, <2>1 DEF Goal, Ledger, Rest, CaseInv
<1>4. ASSUME NEW c \in Cases, NEW b \in Bookings, NEW type \in CaseTypes, NEW u \in Users \cup {"none"},
             OpenCase(c, type, b, u)
      PROVE  Goal
  <2>1. case' = [case EXCEPT ![c] = [status |-> "PENDING", type |-> type, booking |-> b, user |-> u]]
        /\ UNCHANGED <<score, events, booking, appeals, restricted>>
    BY <1>4 DEF OpenCase
  <2>2. case' \in [Cases -> CaseType]
    BY <1>a, <2>1 DEF Rest, CaseType
  <2>3. type \in {"SAFETY", "COMPLETION_DISPUTE"} => u \in Users
    BY <1>4 DEF OpenCase
  <2>4. CaseInv'
    BY <1>a, <2>1, <2>3 DEF CaseInv, Rest, CaseType
  <2>5. QED
    BY <1>a, <1>b, <2>1, <2>2, <2>4 DEF Goal, Ledger, Rest
<1>5. ASSUME NEW c \in Cases, NEW penalty \in BOOLEAN, NEW outcome, ResolveAdminReport(c, outcome, penalty)
      PROVE  Goal
  <2> DEFINE b  == case[c].booking
             es == IF penalty THEN BookingTrustPenalty(c, case[c].user, "REPORT_PENALTY") ELSE {}
  <2>1. b \in Bookings /\ case[c].user \in Users /\ case[c].status = "PENDING"
    BY <1>5, <1>c DEF ResolveAdminReport
  <2>2. Penalty(es, b)
    BY <2>1, NoPenalty, PenaltyFacts DEF Penalties
  <2>3. \A d \in {c} \cap Cases : case[d].status = "PENDING"
    BY <2>1
  <2>4. \E status \in {"ACCEPTED", "ONGOING", "COMPLETED", "CANCELED"} : CloseCases({c}, b, status, es)
    BY <1>5, <1>d, <2>1 DEF ResolveAdminReport
  <2>5. QED
    BY <1>e, <2>1, <2>2, <2>3, <2>4
<1>6. ASSUME NEW c \in Cases, NEW approve \in BOOLEAN, NEW fault \in Users \cup {"none"},
             AdminResolveCancellationRequest(c, approve, fault)
      PROVE  Goal
  <2> DEFINE b  == case[c].booking
  <2>1. b \in Bookings /\ case[c].status = "PENDING"
    BY <1>6, <1>c DEF AdminResolveCancellationRequest
  <2>2. \A d \in {c} \cap Cases : case[d].status = "PENDING"
    BY <2>1
  <2>3. CASE approve /\ fault \in Users
    <3>1. Penalty(BookingTrustPenalty(c, fault, "CANCELLATION_PENALTY"), b)
      BY <2>1, <2>3, PenaltyFacts DEF Penalties
    <3>2. CloseCases({c}, b, "CANCELED", BookingTrustPenalty(c, fault, "CANCELLATION_PENALTY"))
      BY <1>6, <2>3 DEF AdminResolveCancellationRequest
    <3>3. QED
      BY <1>e, <2>1, <2>2, <3>1, <3>2
  <2>4. CASE approve /\ fault \notin Users
    <3>1. CloseCases({c}, b, "CANCELED", {})
      BY <1>6, <2>4 DEF AdminResolveCancellationRequest
    <3>2. QED
      BY <1>e, <2>1, <2>2, <3>1, NoPenalty
  <2>5. CASE ~approve
    <3>1. case' = [case EXCEPT ![c].status = "RESOLVED"] /\ UNCHANGED <<score, events, booking, appeals, restricted>>
      BY <1>6, <2>5 DEF AdminResolveCancellationRequest
    <3> DEFINE r == [case[c] EXCEPT !.status = "RESOLVED"]
    <3>2. r \in CaseType /\ r.booking = b /\ r.type = case[c].type /\ r.user = case[c].user
      BY <1>a DEF Rest, CaseType
    <3>3. case' \in [Cases -> CaseType] /\ case'[c] = r /\ \A d \in Cases \ {c} : case'[d] = case[d]
      BY <1>a, <3>1, <3>2 DEF Rest
    <3>4. CaseInv'
      BY <1>a, <2>1, <3>2, <3>3 DEF Rest, CaseInv
    <3>5. QED
      BY <1>a, <1>b, <3>1, <3>3, <3>4 DEF Goal, Ledger, Rest
  <2>6. QED
    BY <2>3, <2>4, <2>5
<1>7. ASSUME NEW c \in Cases, NEW status \in {"ONGOING", "COMPLETED", "CANCELED"},
             ResolveCompletionEscalation(c, status)
      PROVE  Goal
  <2> DEFINE b  == case[c].booking
  <2>1. b \in Bookings /\ case[c].status = "PENDING" /\ CloseCases({c}, b, status, {})
    BY <1>7, <1>c DEF ResolveCompletionEscalation
  <2>2. \A d \in {c} \cap Cases : case[d].status = "PENDING"
    BY <2>1
  <2>3. QED
    BY <1>e, <2>1, <2>2, NoPenalty
<1>8. ASSUME NEW o \in Ops, NEW e \in events, ApplyManualTrustAdjustment(o, e) PROVE Goal
  <2> DEFINE r == Reversal(<<"manual", o, "none">>, e)
  <2>1. Correction(e, r)
    BY <1>8, Reversing DEF ApplyManualTrustAdjustment
  <2>2. ApplyTrustEvents({r}) /\ UNCHANGED <<booking, case, appeals, restricted>>
    BY <1>8 DEF ApplyManualTrustAdjustment
  <2>3. r \in Events
    BY <2>1 DEF Correction
  <2>4. Ledger
    BY <2>1, <2>2, <2>3 DEF Ledger
  <2>5. QED
    BY <1>a, <1>b, <2>2, <2>4 DEF Goal, Rest, CaseInv
<1>9. ASSUME NEW e \in events, SubmitTrustCase(e) PROVE Goal
  <2>1. e.key \in Keys
    BY <1>9, KeyFacts DEF SubmitTrustCase, EventInv
  <2>2. AppealOK([of |-> e.key, status |-> "PENDING"])
    BY <1>9, <2>1 DEF SubmitTrustCase, AppealOK
  <2>3. QED
    BY <1>9, <1>a, <1>b, <2>2 DEF SubmitTrustCase, Goal, Ledger, Rest, CaseInv
<1>10. ASSUME NEW a \in appeals, NEW uphold \in BOOLEAN, DecideTrustCase(a, uphold) PROVE Goal
  <2> DEFINE e == CHOOSE f \in events : f.key = a.of
             r == Reversal(<<"appeal", a.of[2], "none">>, e)
             d == [a EXCEPT !.status = IF uphold THEN "UPHELD" ELSE "REJECTED"]
  <2>1. PICK f \in events : f.key = a.of /\ f.category \in Penalties
    BY DEF AppealInv
  <2>2. e \in events /\ e.key = a.of
    BY <2>1
  <2>3. e = f
    BY <2>1, <2>2 DEF TypeOK
  <2>4. PICK c \in Cases : a.of = <<"case", c, "none">>
    BY <2>1 DEF EventInv
  <2>5. a.of[2] \in Cases
    BY <2>4
  <2>6. e.reverses = NoKey /\ e.booking \in Bookings
    BY <2>1, <2>3, EventFields DEF EventInv, TypeOK
  <2>7. Ledger
    <3>1. CASE uphold /\ ~Reversed(e)
      <4>1. Correction(e, r)
        BY <2>2, <2>5, <2>6, <3>1, Reversing
      <4>2. ApplyTrustEvents({r})
        BY <1>10, <3>1 DEF DecideTrustCase
      <4>3. r \in Events
        BY <4>1 DEF Correction
      <4>4. QED
        BY <2>2, <4>1, <4>2, <4>3 DEF Ledger
    <3>2. CASE ~(uphold /\ ~Reversed(e))
      <4>1. ApplyTrustEvents({})
        BY <1>10, <3>2 DEF DecideTrustCase
      <4>2. Award({}, e.booking)
        BY DEF Award, New
      <4>3. QED
        BY <2>6, <4>1, <4>2 DEF Ledger
    <3>3. QED
      BY <3>1, <3>2
  <2>8. AppealOK(d)
    BY <1>b DEF AppealOK
  <2>9. \A x \in appeals' : AppealOK(x)
    BY <1>10, <1>b, <2>8 DEF DecideTrustCase
  <2>10. QED
    BY <1>10, <1>a, <2>7, <2>9 DEF DecideTrustCase, Goal, Rest, CaseInv
<1>11. ASSUME NEW u \in Users, Moderate(u) PROVE Goal
  <2>1. UNCHANGED <<score, events, booking, case, appeals>> /\ restricted' \subseteq Users
    BY <1>11, <1>a DEF Moderate, Rest
  <2>2. Rest' /\ Ledger
    BY <1>a, <2>1 DEF Ledger, Rest, CaseInv
  <2>3. QED
    BY <1>b, <2>1, <2>2 DEF Goal
<1>12. ASSUME UNCHANGED vars PROVE Goal
  <2>1. UNCHANGED <<score, events, booking, case, appeals, restricted>>
    BY <1>12 DEF vars
  <2>2. Rest' /\ Ledger
    BY <1>a, <2>1 DEF Ledger, Rest, CaseInv
  <2>3. QED
    BY <1>b, <2>1, <2>2 DEF Goal
<1>13. Goal
  BY <1>1, <1>2, <1>3, <1>4, <1>5, <1>6, <1>7, <1>8, <1>9, <1>10, <1>11, <1>12 DEF Next
<1>14. QED
  BY <1>13 DEF Goal, Ledger, AppealOK

-----------------------------------------------------------------------------
(* The invariant is kept                                                    *)

\* Seven days after the reward for b.
Aged(b, e) == IF e.booking = b THEN [e EXCEPT !.recent = FALSE] ELSE e

\* Time changes nothing else of an event.
LEMMA AgedFields ==
    ASSUME NEW e \in Events, NEW b
    PROVE  /\ Aged(b, e) \in Events
           /\ Aged(b, e).key = e.key /\ Aged(b, e).user = e.user /\ Aged(b, e).booking = e.booking
           /\ Aged(b, e).category = e.category /\ Aged(b, e).delta = e.delta
           /\ Aged(b, e).reverses = e.reverses
           /\ Aged(b, e).recent => e.recent
<1>1. CASE e.booking = b
  <2>1. Aged(b, e) = [key |-> e.key, user |-> e.user, booking |-> e.booking, category |-> e.category,
                      delta |-> e.delta, reverses |-> e.reverses, recent |-> FALSE]
    BY <1>1 DEF Aged, Events
  <2>2. Aged(b, e) \in Events
    BY <2>1, Booleans DEF Events
  <2>3. QED
    BY <2>1, <2>2
<1>2. CASE e.booking # b
  BY <1>2 DEF Aged
<1>3. QED
  BY <1>1, <1>2

\* The events after the seven days are those before, aged.
LEMMA WindowFacts ==
    ASSUME TypeOK, NEW b, WindowEnds(b)
    PROVE  /\ \A f \in events' : \E e \in events : f = Aged(b, e)
           /\ \A e \in events : Aged(b, e) \in events'
           /\ events' \subseteq Events
           /\ score' = score
<1>1. events' = {Aged(b, e) : e \in events} /\ score' = score
  BY DEF WindowEnds, Aged
<1>2. QED
  BY <1>1, AgedFields DEF TypeOK

LedgerInv == EventInv /\ PenalizedOnce /\ ReversedOnce /\ OneRewardPerWeek

\* The events of every step keep the ledger's rules, and no event is lost.
LedgerKept ==
    /\ score' \in [Users -> 0 .. 100] /\ events' \subseteq Events
    /\ \A e, f \in events' : e.key = f.key => e = f
    /\ LedgerInv'
    /\ \A e \in events : \E f \in events' : f.key = e.key /\ f.category = e.category

\* The end of the seven days only shortens the list of standing rewards.
LEMMA WindowKeeps ==
    ASSUME TypeOK, LedgerInv, NEW b, WindowEnds(b)
    PROVE  LedgerKept
<1>1. ASSUME NEW f \in events'
      PROVE  \E e \in events :
                /\ e \in Events /\ f = Aged(b, e)
                /\ f.key = e.key /\ f.user = e.user /\ f.booking = e.booking
                /\ f.category = e.category /\ f.reverses = e.reverses /\ (f.recent => e.recent)
  BY <1>1, WindowFacts, AgedFields DEF TypeOK
<1>2. ASSUME NEW e \in events
      PROVE  \E f \in events' :
                /\ f.key = e.key /\ f.user = e.user /\ f.booking = e.booking
                /\ f.category = e.category /\ f.reverses = e.reverses
  BY <1>2, WindowFacts, AgedFields DEF TypeOK
<1>3. score' \in [Users -> 0 .. 100] /\ events' \subseteq Events
  BY WindowFacts DEF TypeOK
<1>4. \A e, f \in events' : e.key = f.key => e = f
  BY <1>1 DEF TypeOK
<1>5. EventInv'
  <2> SUFFICES ASSUME NEW f \in events'
      PROVE /\ f.category \in Penalties => f.reverses = NoKey /\ \E c \in Cases : f.key = <<"case", c, "none">>
            /\ f.category = "COMPLETION" => f.reverses = NoKey /\ f.key = <<"completion", f.booking, f.user>>
            /\ f.category = "CORRECTION" => f.key \notin Keys /\ \E g \in events' : g.key = f.reverses
            /\ f.recent => f.category = "COMPLETION"
    BY DEF EventInv
  <2>1. PICK e \in events : /\ f.key = e.key /\ f.user = e.user /\ f.booking = e.booking
                            /\ f.category = e.category /\ f.reverses = e.reverses /\ (f.recent => e.recent)
    BY <1>1
  <2>2. f.category = "CORRECTION" => \E g \in events' : g.key = f.reverses
    <3> SUFFICES ASSUME f.category = "CORRECTION" PROVE \E g \in events' : g.key = f.reverses
      OBVIOUS
    <3>1. PICK d \in events : d.key = e.reverses
      BY <2>1 DEF LedgerInv, EventInv
    <3>2. QED
      BY <1>2, <2>1, <3>1
  <2>3. QED
    BY <2>1, <2>2 DEF LedgerInv, EventInv
<1>6. PenalizedOnce'
  BY <1>1 DEF LedgerInv, PenalizedOnce
<1>7. ReversedOnce'
  BY <1>1 DEF LedgerInv, ReversedOnce
<1>8. OneRewardPerWeek'
  <2> SUFFICES ASSUME NEW f \in events', NEW g \in events', f.recent, g.recent,
                      \A r \in events' : r.reverses # f.key, \A r \in events' : r.reverses # g.key
               PROVE  f.booking = g.booking
    BY DEF OneRewardPerWeek, Reversed
  <2>1. PICK e \in events : f.key = e.key /\ f.booking = e.booking /\ e.recent
    BY <1>1
  <2>2. PICK d \in events : g.key = d.key /\ g.booking = d.booking /\ d.recent
    BY <1>1
  <2>3. ~Reversed(e) /\ ~Reversed(d)
    BY <1>2, <2>1, <2>2 DEF Reversed
  <2>4. QED
    BY <2>1, <2>2, <2>3 DEF LedgerInv, OneRewardPerWeek
<1>9. QED
  BY <1>2, <1>3, <1>4, <1>5, <1>6, <1>7, <1>8 DEF LedgerKept, LedgerInv

\* A transaction's penalty and rewards.
LEMMA AwardKeeps ==
    ASSUME TypeOK, LedgerInv, NEW b, NEW es, Award(es, b), ApplyTrustEvents(es)
    PROVE  LedgerKept
<1>1. /\ events' = events \cup New(es)
      /\ events' \subseteq Events
      /\ \A e, f \in events' : e.key = f.key => e = f
      /\ score' \in [Users -> 0 .. 100]
  BY Applied DEF Award
<1>2. \A e \in events' : e \in events \/ e \in es
  BY <1>1 DEF New
<1>3. EventInv'
  <2> SUFFICES ASSUME NEW f \in events'
      PROVE /\ f.category \in Penalties => f.reverses = NoKey /\ \E c \in Cases : f.key = <<"case", c, "none">>
            /\ f.category = "COMPLETION" => f.reverses = NoKey /\ f.key = <<"completion", f.booking, f.user>>
            /\ f.category = "CORRECTION" => f.key \notin Keys /\ \E g \in events' : g.key = f.reverses
            /\ f.recent => f.category = "COMPLETION"
    BY DEF EventInv
  <2>1. CASE f \in events
    BY <1>1, <2>1 DEF LedgerInv, EventInv
  <2>2. CASE f \in es
    BY <2>2 DEF Award
  <2>3. QED
    BY <1>2, <2>1, <2>2
<1>4. PenalizedOnce'
  <2>1. ASSUME NEW e \in events, NEW f \in es,
               e.category \in Penalties, f.category \in Penalties, e.booking = f.booking, e.user = f.user
        PROVE  FALSE
    <3>1. f.booking = b /\ ~Penalized(b, f.user)
      BY <2>1 DEF Award
    <3>2. QED
      BY <2>1, <3>1 DEF Penalized
  <2>2. \A e, f \in es : e.category \in Penalties /\ f.category \in Penalties => e = f
    BY DEF Award
  <2>3. QED
    BY <1>2, <2>1, <2>2 DEF LedgerInv, PenalizedOnce
<1>5. ReversedOnce'
  BY <1>2 DEF LedgerInv, ReversedOnce, Award
<1>6. OneRewardPerWeek'
  <2> SUFFICES ASSUME NEW f \in events', NEW g \in events', f.recent, g.recent,
                      \A r \in events' : r.reverses # f.key, \A r \in events' : r.reverses # g.key
               PROVE  f.booking = g.booking
    BY DEF OneRewardPerWeek, Reversed
  <2>1. ~Reversed(f) /\ ~Reversed(g)
    BY <1>1 DEF Reversed
  <2>2. ASSUME NEW e \in events, e.recent, ~Reversed(e), NEW d \in es, d.recent PROVE e.booking = d.booking
    <3>1. ~RewardedLately(b) /\ d.booking = b
      BY <2>2 DEF Award
    <3>2. e.category = "COMPLETION"
      BY <2>2 DEF LedgerInv, EventInv
    <3>3. QED
      BY <2>2, <3>1, <3>2 DEF RewardedLately
  <2>3. CASE f \in es /\ g \in es
    BY <2>3 DEF Award
  <2>4. CASE f \in events /\ g \in events
    BY <2>1, <2>4 DEF LedgerInv, OneRewardPerWeek
  <2>5. QED
    BY <1>2, <2>1, <2>2, <2>3, <2>4
<1>7. QED
  BY <1>1, <1>3, <1>4, <1>5, <1>6 DEF LedgerKept, LedgerInv

\* A correction undoes an event that stood.
LEMMA CorrectionKeeps ==
    ASSUME TypeOK, LedgerInv, NEW e, NEW r, Correction(e, r), ApplyTrustEvents({r})
    PROVE  LedgerKept
<1>0. {r} \in SUBSET Events /\ \A x, y \in {r} : x.key = y.key => x = y
  BY DEF Correction
<1>1. /\ events' = events \cup New({r})
      /\ events' \subseteq Events
      /\ \A x, y \in events' : x.key = y.key => x = y
      /\ score' \in [Users -> 0 .. 100]
  BY <1>0, Applied
<1>2. \A x \in events' : x \in events \/ x = r
  BY <1>1 DEF New
<1>3. r.category = "CORRECTION" /\ r.category \notin Penalties /\ ~r.recent /\ r.key \notin Keys
      /\ e \in events /\ r.reverses = e.key /\ \A x \in events : x.reverses # e.key
  BY DEF Correction, Penalties, Reversed
<1>4. EventInv'
  <2> SUFFICES ASSUME NEW f \in events'
      PROVE /\ f.category \in Penalties => f.reverses = NoKey /\ \E c \in Cases : f.key = <<"case", c, "none">>
            /\ f.category = "COMPLETION" => f.reverses = NoKey /\ f.key = <<"completion", f.booking, f.user>>
            /\ f.category = "CORRECTION" => f.key \notin Keys /\ \E g \in events' : g.key = f.reverses
            /\ f.recent => f.category = "COMPLETION"
    BY DEF EventInv
  <2>1. CASE f \in events
    BY <1>1, <2>1 DEF LedgerInv, EventInv
  <2>2. CASE f = r
    BY <1>1, <1>3, <2>2
  <2>3. QED
    BY <1>2, <2>1, <2>2
<1>5. PenalizedOnce'
  BY <1>2, <1>3 DEF LedgerInv, PenalizedOnce
<1>6. ReversedOnce'
  BY <1>2, <1>3 DEF LedgerInv, ReversedOnce
<1>7. OneRewardPerWeek'
  <2> SUFFICES ASSUME NEW f \in events', NEW g \in events', f.recent, g.recent,
                      \A x \in events' : x.reverses # f.key, \A x \in events' : x.reverses # g.key
               PROVE  f.booking = g.booking
    BY DEF OneRewardPerWeek, Reversed
  <2>1. f \in events /\ g \in events /\ ~Reversed(f) /\ ~Reversed(g)
    BY <1>1, <1>2, <1>3 DEF Reversed
  <2>2. QED
    BY <2>1 DEF LedgerInv, OneRewardPerWeek
<1>8. QED
  BY <1>1, <1>4, <1>5, <1>6, <1>7 DEF LedgerKept, LedgerInv

\* Every step keeps the invariant.
LEMMA NextInv == IInv /\ [Next]_vars => IInv'
<1> SUFFICES ASSUME IInv, [Next]_vars PROVE IInv'
  OBVIOUS
<1>0. TypeOK /\ CaseInv /\ AppealInv /\ LedgerInv /\ EventInv
  BY DEF IInv, LedgerInv
<1>1. LedgerKept
  <2>1. CASE UNCHANGED <<events, score>>
    <3>1. LedgerInv'
      BY <1>0, <2>1 DEF LedgerInv, EventInv, PenalizedOnce, ReversedOnce, OneRewardPerWeek, Reversed
    <3>2. QED
      BY <1>0, <2>1, <3>1 DEF LedgerKept, TypeOK
  <2>2. QED
    BY <1>0, <2>1, Steps, WindowKeeps, AwardKeeps, CorrectionKeeps
<1>2. /\ Rest'
      /\ \A a \in appeals' : /\ a \in [of : Keys, status : {"PENDING", "UPHELD", "REJECTED"}]
                             /\ \E e \in events : e.key = a.of /\ e.category \in Penalties
  BY <1>0, Steps
<1>3. AppealInv'
  BY <1>1, <1>2 DEF AppealInv, LedgerKept
<1>4. TypeOK'
  BY <1>1, <1>2 DEF TypeOK, LedgerKept, Rest, BookingType, CaseType
<1>5. QED
  BY <1>1, <1>2, <1>3, <1>4 DEF IInv, LedgerKept, LedgerInv, Rest

-----------------------------------------------------------------------------
(* Every change of a score is recorded                                      *)

\* The events recorded by a step.
NewEvents == {e \in events' : \A f \in events : f.key # e.key}

\* No recorded change is lost or altered, and a score moves by exactly the one
\* event that the step records for the account.
RecordedMoves ==
    /\ \A e \in events : \E f \in events' : f.key = e.key /\ f.user = e.user /\ f.delta = e.delta
    /\ \A u \in Users :
          \/ score'[u] = score[u] /\ \A e \in NewEvents : e.user # u
          \/ \E e \in NewEvents : /\ e.user = u /\ score'[u] = score[u] + e.delta
                                  /\ \A f \in NewEvents : f.user = u => f = e

\* ApplyTrustEvents moves the scores so, if its events are of different accounts
\* and their changes were already cut off at the ends of the scale.
LEMMA Moves ==
    ASSUME TypeOK, NEW es \in SUBSET Events,
           \A e, f \in es : e.key = f.key => e = f,
           \A e, f \in New(es) : e.user = f.user => e = f,
           \A e \in es : score[e.user] + e.delta \in 0 .. 100,
           ApplyTrustEvents(es)
    PROVE  RecordedMoves
<1>1. events' = events \cup New(es)
  BY Applied
<1>2. NewEvents = New(es)
  BY <1>1 DEF NewEvents, New
<1>3. ASSUME NEW u \in Users, \A e \in New(es) : e.user # u PROVE score'[u] = score[u]
  BY <1>3 DEF ApplyTrustEvents, New
<1>4. ASSUME NEW u \in Users, NEW e \in New(es), e.user = u PROVE score'[u] = score[u] + e.delta
  <2> DEFINE mine == {f \in New(es) : f.user = u}
  <2>1. mine = {e}
    BY <1>4
  <2>2. score'[u] = ClampedScore(score[u] + (CHOOSE f \in mine : TRUE).delta)
    BY <1>4, <2>1 DEF ApplyTrustEvents, New
  <2>3. (CHOOSE f \in mine : TRUE) = e
    BY <2>1
  <2>4. score[u] + e.delta \in 0 .. 100 /\ score[u] + e.delta \in Int
    BY <1>4 DEF New
  <2>5. QED
    BY <2>2, <2>3, <2>4, Clamped
<1>5. QED
  BY <1>1, <1>2, <1>3, <1>4 DEF RecordedMoves

\* Every step moves the scores so.
LEMMA NextMoves == IInv /\ [Next]_vars => RecordedMoves
<1> SUFFICES ASSUME IInv, [Next]_vars PROVE RecordedMoves
  OBVIOUS
<1>0. TypeOK /\ CaseInv /\ EventInv /\ AppealInv
  BY DEF IInv
<1>1. CASE UNCHANGED <<events, score>>
  BY <1>1 DEF RecordedMoves, NewEvents
<1>2. ASSUME NEW b \in Bookings, WindowEnds(b) PROVE RecordedMoves
  <2>1. ASSUME NEW e \in events
        PROVE  \E f \in events' : f.key = e.key /\ f.user = e.user /\ f.delta = e.delta
    BY <1>0, <1>2, WindowFacts, AgedFields DEF TypeOK
  <2>2. \A f \in events' : \E e \in events : f.key = e.key
    BY <1>0, <1>2, WindowFacts, AgedFields DEF TypeOK
  <2>3. score' = score
    BY <1>0, <1>2, WindowFacts
  <2>4. QED
    BY <2>1, <2>2, <2>3 DEF RecordedMoves, NewEvents
<1>3. ASSUME NEW b \in Bookings, NEW es \in SUBSET Events, Award(es, b), ApplyTrustEvents(es)
      PROVE  RecordedMoves
  <2>1. /\ \A e, f \in es : e.key = f.key => e = f
        /\ \A e, f \in New(es) : e.user = f.user => e = f
        /\ \A e \in es : score[e.user] + e.delta \in 0 .. 100
    BY <1>3 DEF Award
  <2>2. QED
    BY <1>0, <1>3, <2>1, Moves
<1>4. ASSUME NEW e \in events, NEW r \in Events, Correction(e, r), ApplyTrustEvents({r})
      PROVE  RecordedMoves
  <2>1. /\ {r} \in SUBSET Events
        /\ \A x, y \in {r} : x.key = y.key => x = y
        /\ \A x, y \in New({r}) : x.user = y.user => x = y
        /\ \A x \in {r} : score[x.user] + x.delta \in 0 .. 100
    BY <1>4 DEF Correction, New
  <2>2. QED
    BY <1>0, <1>4, <2>1, Moves
<1>5. QED
  BY <1>0, <1>1, <1>2, <1>3, <1>4, Steps

-----------------------------------------------------------------------------
(* Sums over the ledger                                                     *)

\* The sum of what events have changed, and the equation that computes it.
Total(T) == MapThenSumSet(LAMBDA e : e.delta, T)

First(s) == CHOOSE x \in s : TRUE
Sums(f, T) == f = [s \in SUBSET T |-> IF s = {} THEN 0 ELSE First(s).delta + f[s \ {First(s)}]]

\* Every collection of subsets of a finite set has a smallest member.
LEMMA Smallest ==
    ASSUME NEW T, IsFiniteSet(T), NEW C \in SUBSET SUBSET T, C # {}
    PROVE  \E s \in C : \A t \in C : t \subseteq s => t = s
<1> DEFINE R == StrictSubsetOrdering(T)
<1>1. IsWellFoundedOn(R, SUBSET T)
  BY FS_StrictSubsetOrderingWellFounded, FS_FiniteSubsetsOfFinite
<1>2. \E s \in C : \A t \in C : ~(<<t, s>> \in R)
  <2> HIDE DEF R
  <2>1. C \subseteq SUBSET T
    OBVIOUS
  <2>2. QED
    BY <1>1, <2>1, WFMin
<1>3. QED
  BY <1>2 DEF StrictSubsetOrdering

\* The equation determines the sum of every subset.
LEMMA SumsAgree ==
    ASSUME NEW T, IsFiniteSet(T), NEW U, NEW f, NEW g, Sums(f, T), Sums(g, U)
    PROVE  \A s \in SUBSET T : s \in SUBSET U => f[s] = g[s]
<1> DEFINE C == {s \in SUBSET T : s \in SUBSET U /\ f[s] # g[s]}
<1> SUFFICES ASSUME C # {} PROVE FALSE
  OBVIOUS
<1>1. PICK s \in C : \A t \in C : t \subseteq s => t = s
  <2>1. C \in SUBSET SUBSET T
    OBVIOUS
  <2> HIDE DEF C
  <2>2. QED
    BY <2>1, Smallest
<1>2. f[s] = IF s = {} THEN 0 ELSE First(s).delta + f[s \ {First(s)}]
  BY DEF Sums
<1>3. g[s] = IF s = {} THEN 0 ELSE First(s).delta + g[s \ {First(s)}]
  BY DEF Sums
<1>4. s # {}
  BY <1>2, <1>3
<1>5. First(s) \in s
  BY <1>4 DEF First
<1>6. s \ {First(s)} \notin C
  BY <1>1, <1>5
<1>7. f[s \ {First(s)}] = g[s \ {First(s)}]
  BY <1>6
<1>8. QED
  BY <1>2, <1>3, <1>7

\* Every finite set has a function that satisfies the equation.
LEMMA SumsExist ==
    ASSUME NEW T, IsFiniteSet(T)
    PROVE  \E f : Sums(f, T)
<1> DEFINE C == {s \in SUBSET T : \A f : ~Sums(f, s)}
<1> SUFFICES ASSUME C # {} PROVE FALSE
  OBVIOUS
<1>1. PICK U \in C : \A t \in C : t \subseteq U => t = U
  <2>1. C \in SUBSET SUBSET T
    OBVIOUS
  <2> HIDE DEF C
  <2>2. QED
    BY <2>1, Smallest
<1>2. U \in SUBSET T /\ \A f : ~Sums(f, U)
  OBVIOUS
<1> DEFINE F(s) == CHOOSE f : Sums(f, s)
           Others(s) == s \ {First(s)}
           f == [s \in SUBSET U |-> IF s = {} THEN 0 ELSE First(s).delta + F(Others(s))[Others(s)]]
<1>3. ASSUME NEW s \in SUBSET U, s # U PROVE Sums(F(s), s) /\ IsFiniteSet(s)
  <2>1. s \notin C /\ s \in SUBSET T
    BY <1>1, <1>2, <1>3
  <2>2. PICK g : Sums(g, s)
    BY <2>1
  <2>3. Sums(F(s), s)
    BY <2>2
  <2>4. QED
    BY <2>1, <2>3, FS_Subset
<1>4. ASSUME NEW s \in SUBSET U, s # {}
      PROVE  First(s) \in s /\ Others(s) \in SUBSET U /\ Others(s) # U /\ Others(s) \subseteq s
  BY <1>4 DEF First
<1>5. ASSUME NEW s \in SUBSET U, s # U PROVE f[s] = F(s)[s]
  <2>1. Sums(F(s), s) /\ IsFiniteSet(s)
    BY <1>3, <1>5
  <2>2. F(s)[s] = IF s = {} THEN 0 ELSE First(s).delta + F(s)[Others(s)]
    <3> HIDE DEF F
    <3>1. s \in SUBSET s
      OBVIOUS
    <3>2. QED
      BY <2>1, <3>1 DEF Sums
  <2>3. CASE s = {}
    BY <2>2, <2>3
  <2>4. CASE s # {}
    <3>1. Others(s) \in SUBSET U /\ Others(s) # U /\ Others(s) \in SUBSET s
      BY <1>4, <2>4
    <3>2. Sums(F(Others(s)), Others(s)) /\ IsFiniteSet(Others(s))
      BY <1>3, <3>1
    <3>3. F(Others(s))[Others(s)] = F(s)[Others(s)]
      <4> HIDE DEF F, Rest
      <4>1. Others(s) \in SUBSET Others(s)
        OBVIOUS
      <4>2. QED
        BY <2>1, <3>1, <3>2, <4>1, SumsAgree
    <3>4. QED
      BY <2>2, <2>4, <3>3
  <2>5. QED
    BY <2>3, <2>4
<1>6. ASSUME NEW s \in SUBSET U, s # {} PROVE f[Others(s)] = F(Others(s))[Others(s)]
  BY <1>4, <1>5, <1>6
<1>7. f = [s \in SUBSET U |-> IF s = {} THEN 0 ELSE First(s).delta + f[Others(s)]]
  <2> DEFINE g == [s \in SUBSET U |-> IF s = {} THEN 0 ELSE First(s).delta + f[Others(s)]]
  <2>1. ASSUME NEW s \in SUBSET U PROVE f[s] = g[s]
    <3>1. f[s] = IF s = {} THEN 0 ELSE First(s).delta + F(Others(s))[Others(s)]
      OBVIOUS
    <3>2. g[s] = IF s = {} THEN 0 ELSE First(s).delta + f[Others(s)]
      OBVIOUS
    <3> HIDE DEF f, g, F, Rest
    <3>3. QED
      BY <1>6, <3>1, <3>2
  <2>2. DOMAIN f = SUBSET U /\ DOMAIN g = SUBSET U /\ f = [s \in DOMAIN f |-> f[s]] /\ g = [s \in DOMAIN g |-> g[s]]
    OBVIOUS
  <2>3. f = g
    <3> HIDE DEF f, g
    <3>1. QED
      BY <2>1, <2>2
  <2>4. QED
    <3> HIDE DEF f
    <3>1. QED
      BY <2>3
<1>8. Sums(f, U)
  BY <1>7 DEF Sums
<1>9. QED
  BY <1>2, <1>8

\* The total is the one the equation gives.
LEMMA TotalSums ==
    ASSUME NEW T, IsFiniteSet(T), NEW f, Sums(f, T)
    PROVE  Total(T) = f[T]
<1> DEFINE g == CHOOSE h : Sums(h, T)
<1>1. Sums(g, T)
  BY SumsExist
<1>2. Total(T) = g[T]
  BY DEF Total, MapThenSumSet, MapThenFoldSet, Sums, First
<1>3. QED
  <2> HIDE DEF g
  <2>1. QED
    BY <1>1, <1>2, SumsAgree

\* The total of finitely many changes is a number.
LEMMA TotalType ==
    ASSUME NEW T, IsFiniteSet(T), \A e \in T : e.delta \in Int
    PROVE  Total(T) \in Int
<1>1. PICK f : Sums(f, T)
  BY SumsExist
<1> DEFINE C == {s \in SUBSET T : f[s] \notin Int}
<1>2. C = {}
  <2> SUFFICES ASSUME C # {} PROVE FALSE
    OBVIOUS
  <2>1. PICK s \in C : \A t \in C : t \subseteq s => t = s
    <3>1. C \in SUBSET SUBSET T
      OBVIOUS
    <3> HIDE DEF C
    <3>2. QED
      BY <3>1, Smallest
  <2>2. f[s] = IF s = {} THEN 0 ELSE First(s).delta + f[s \ {First(s)}]
    BY <1>1 DEF Sums
  <2>3. s # {}
    BY <2>2
  <2>4. First(s) \in s
    BY <2>3 DEF First
  <2>5. f[s \ {First(s)}] \in Int
    BY <2>1, <2>4
  <2>6. QED
    BY <2>2, <2>3, <2>4, <2>5
<1>3. QED
  BY <1>1, <1>2, TotalSums

\* Nothing recorded is no change.
LEMMA TotalEmpty == Total({}) = 0
<1>1. IsFiniteSet({})
  BY FS_EmptySet
<1>2. PICK f : Sums(f, {})
  BY <1>1, SumsExist
<1>3. f[{}] = 0
  BY <1>2 DEF Sums
<1>4. QED
  BY <1>1, <1>2, <1>3, TotalSums

\* The total of a set and of what is left of it without its first element.
LEMMA TotalFirst ==
    ASSUME NEW T, IsFiniteSet(T), T # {}
    PROVE  First(T) \in T /\ Total(T) = First(T).delta + Total(T \ {First(T)})
<1>1. First(T) \in T
  BY DEF First
<1>2. PICK f : Sums(f, T)
  BY SumsExist
<1> DEFINE U == T \ {First(T)}
<1>3. IsFiniteSet(U)
  BY FS_Subset
<1>4. PICK g : Sums(g, U)
  BY <1>3, SumsExist
<1>5. f[T] = First(T).delta + f[U]
  BY <1>2 DEF Sums
<1>6. f[U] = g[U]
  <2>1. U \in SUBSET T /\ U \in SUBSET U
    OBVIOUS
  <2> HIDE DEF U
  <2>2. QED
    BY <1>2, <1>4, <2>1, SumsAgree
<1>7. Total(T) = f[T] /\ Total(U) = g[U]
  BY <1>2, <1>3, <1>4, TotalSums
<1>8. QED
  BY <1>1, <1>5, <1>6, <1>7

\* An element counts once, whatever the order of the summation.
LEMMA TotalWithout ==
    ASSUME NEW T, IsFiniteSet(T), \A e \in T : e.delta \in Int, NEW x \in T
    PROVE  Total(T) = Total(T \ {x}) + x.delta
<1> DEFINE C == {s \in SUBSET T : \E y \in s : Total(s) # Total(s \ {y}) + y.delta}
<1> SUFFICES ASSUME C # {} PROVE FALSE
  OBVIOUS
<1>1. PICK s \in C : \A t \in C : t \subseteq s => t = s
  <2>1. C \in SUBSET SUBSET T
    OBVIOUS
  <2> HIDE DEF C
  <2>2. QED
    BY <2>1, Smallest
<1>2. PICK y \in s : Total(s) # Total(s \ {y}) + y.delta
  OBVIOUS
<1> DEFINE z == First(s)
<1>3. s \in SUBSET T /\ \A t \in SUBSET T : IsFiniteSet(t) /\ Total(t) \in Int
  BY FS_Subset, TotalType
<1>4. z \in s /\ Total(s) = z.delta + Total(s \ {z})
  BY <1>2, <1>3, TotalFirst
<1> HIDE DEF z
<1>5. z.delta \in Int /\ y.delta \in Int
  BY <1>2, <1>3, <1>4
<1>6. z # y
  <2>1. Total(s \ {z}) \in Int
    BY <1>3
  <2>2. Total(s) = Total(s \ {z}) + z.delta
    BY <1>4, <1>5, <2>1
  <2>3. QED
    BY <1>2, <2>2
<1>7. s \ {z} \notin C /\ s \ {y} \notin C
  BY <1>1, <1>2, <1>4
<1>8. Total(s \ {z}) = Total((s \ {z}) \ {y}) + y.delta
  BY <1>2, <1>3, <1>6, <1>7
<1>9. Total(s \ {y}) = Total((s \ {y}) \ {z}) + z.delta
  BY <1>3, <1>4, <1>6, <1>7
<1>10. (s \ {z}) \ {y} = (s \ {y}) \ {z} /\ (s \ {z}) \ {y} \in SUBSET T
  BY <1>3
<1>11. QED
  <2> DEFINE both == Total((s \ {z}) \ {y})
  <2>1. both \in Int /\ Total(s \ {y}) = both + z.delta /\ Total(s \ {z}) = both + y.delta
    BY <1>3, <1>8, <1>9, <1>10
  <2> HIDE DEF both
  <2>2. Total(s) = z.delta + (both + y.delta) /\ Total(s) # (both + z.delta) + y.delta
    BY <1>2, <1>4, <2>1
  <2>3. QED
    BY <1>5, <2>1, <2>2

\* A new element adds its change.
LEMMA TotalWith ==
    ASSUME NEW T, IsFiniteSet(T), \A e \in T : e.delta \in Int, NEW x, x \notin T, x.delta \in Int
    PROVE  Total(T \cup {x}) = Total(T) + x.delta
<1>1. IsFiniteSet(T \cup {x})
  BY FS_AddElement
<1>2. (T \cup {x}) \ {x} = T
  OBVIOUS
<1>3. QED
  BY <1>1, <1>2, TotalWithout

\* Events that are altered one by one, but not in what they changed.
LEMMA TotalRenamed ==
    ASSUME NEW T, IsFiniteSet(T), \A e \in T : e.delta \in Int, NEW h,
           \A e \in T : h[e].delta = e.delta,
           \A e, f \in T : h[e] = h[f] => e = f
    PROVE  Total({h[e] : e \in T}) = Total(T)
<1> DEFINE Image(s) == {h[e] : e \in s}
           C == {s \in SUBSET T : ~(IsFiniteSet(Image(s)) /\ Total(Image(s)) = Total(s))}
<1>0. C \in SUBSET SUBSET T
  OBVIOUS
<1> SUFFICES ASSUME C # {} PROVE FALSE
  <2>1. T \notin C => Total(Image(T)) = Total(T)
    OBVIOUS
  <2>2. QED
    BY <2>1
<1>1. PICK s \in C : \A t \in C : t \subseteq s => t = s
  <2> HIDE DEF C
  <2>2. QED
    BY <1>0, Smallest
<1>2. s \in SUBSET T /\ IsFiniteSet(s)
  BY FS_Subset
<1>3. s # {}
  <2>1. Image({}) = {}
    OBVIOUS
  <2>2. {} \notin C
    BY <2>1, FS_EmptySet
  <2>3. QED
    BY <2>2
<1>4. PICK x \in s : TRUE
  BY <1>3
<1>5. s \ {x} \in SUBSET T /\ s \ {x} \notin C
  BY <1>1, <1>2, <1>4
<1>6. IsFiniteSet(Image(s \ {x})) /\ Total(Image(s \ {x})) = Total(s \ {x})
  BY <1>5
<1>7. Image(s) = Image(s \ {x}) \cup {h[x]} /\ h[x] \notin Image(s \ {x})
  BY <1>2, <1>4
<1>8. h[x].delta = x.delta /\ x.delta \in Int /\ \A e \in Image(s \ {x}) : e.delta \in Int
  BY <1>2, <1>4
<1>9. Total(s) = Total(s \ {x}) + x.delta
  BY <1>2, <1>4, TotalWithout
<1>10. IsFiniteSet(Image(s)) /\ Total(Image(s)) = Total(s)
  <2> HIDE DEF Image
  <2>1. IsFiniteSet(Image(s))
    <3>1. IsFiniteSet(Image(s \ {x}) \cup {h[x]})
      BY <1>6, FS_AddElement
    <3>2. QED
      BY <1>7, <3>1
  <2>2. Total(Image(s)) = Total(Image(s \ {x})) + h[x].delta
    BY <1>6, <1>7, <1>8, TotalWith
  <2>3. QED
    BY <1>6, <1>8, <1>9, <2>1, <2>2
<1>11. QED
  BY <1>10

-----------------------------------------------------------------------------
(* The score is the sum of the recorded changes                             *)

EventsOf(u) == {e \in events : e.user = u}

\* LedgerExplainsScore, for a ledger that is finite.
SumInv ==
    /\ IsFiniteSet(events)
    /\ \A u \in Users : score[u] = PastScore[u] + Total(EventsOf(u))

\* The seven days alter events one by one, but not in what they changed.
LEMMA WindowSums ==
    ASSUME TypeOK, SumInv, NEW b, WindowEnds(b)
    PROVE  SumInv'
<1> DEFINE h == [e \in events |-> Aged(b, e)]
<1>1. \A e \in events : /\ h[e].key = e.key /\ h[e].user = e.user /\ h[e].delta = e.delta
                       /\ e.delta \in Int
  BY AgedFields, EventFields DEF TypeOK
<1>2. events' = {h[e] : e \in events} /\ score' = score
  BY DEF WindowEnds, Aged
<1>3. \A e, f \in events : h[e] = h[f] => e = f
  BY <1>1 DEF TypeOK
<1> HIDE DEF h
<1>4. IsFiniteSet(events')
  <2>1. h \in Surjection(events, events')
    <3>1. h = [e \in events |-> h[e]]
      BY DEF h
    <3>2. QED
      BY <1>2, <3>1 DEF Surjection
  <2>2. QED
    BY <2>1, FS_Surjection DEF SumInv
<1>5. ASSUME NEW u \in Users PROVE Total(EventsOf(u)') = Total(EventsOf(u))
  <2>1. EventsOf(u)' = {h[e] : e \in EventsOf(u)}
    BY <1>1, <1>2 DEF EventsOf
  <2>2. IsFiniteSet(EventsOf(u)) /\ EventsOf(u) \subseteq events
    BY FS_Subset DEF EventsOf, SumInv
  <2>3. QED
    BY <1>1, <1>3, <2>1, <2>2, TotalRenamed
<1>6. QED
  BY <1>2, <1>4, <1>5 DEF SumInv, EventsOf

\* A step that records its changes of the scores keeps the sums.
LEMMA RecordedSums ==
    ASSUME TypeOK, SumInv, NEW new, events' = events \cup new, IsFiniteSet(new),
           new \subseteq Events, \A e \in new : \A f \in events : f.key # e.key,
           RecordedMoves
    PROVE  SumInv'
<1>1. NewEvents = new
  BY DEF NewEvents
<1>2. IsFiniteSet(events')
  BY FS_Union DEF SumInv
<1>3. ASSUME NEW u \in Users PROVE score'[u] = PastScore[u] + Total(EventsOf(u)')
  <2>1. IsFiniteSet(EventsOf(u)) /\ \A e \in EventsOf(u) : e.delta \in Int
    BY FS_Subset, EventFields DEF EventsOf, SumInv, TypeOK
  <2>2. Total(EventsOf(u)) \in Int /\ PastScore[u] \in Int
    BY <2>1, TotalType, PastScoreAssumption
  <2>3. score[u] = PastScore[u] + Total(EventsOf(u))
    BY DEF SumInv
  <2>4. CASE score'[u] = score[u] /\ \A e \in new : e.user # u
    <3>1. EventsOf(u)' = EventsOf(u)
      BY <2>4 DEF EventsOf
    <3>2. QED
      BY <2>3, <2>4, <3>1
  <2>5. ASSUME NEW e \in new, e.user = u, score'[u] = score[u] + e.delta,
               \A f \in new : f.user = u => f = e
        PROVE  score'[u] = PastScore[u] + Total(EventsOf(u)')
    <3>1. EventsOf(u)' = EventsOf(u) \cup {e} /\ e \notin EventsOf(u)
      BY <2>5 DEF EventsOf
    <3>2. e.delta \in Int
      BY EventFields
    <3>3. Total(EventsOf(u)') = Total(EventsOf(u)) + e.delta
      BY <2>1, <3>1, <3>2, TotalWith
    <3>4. QED
      BY <2>2, <2>3, <2>5, <3>2, <3>3
  <2>6. QED
    BY <1>1, <2>4, <2>5 DEF RecordedMoves
<1>4. QED
  BY <1>2, <1>3 DEF SumInv, EventsOf

\* Every step keeps the sums.
LEMMA NextSums == IInv /\ SumInv /\ [Next]_vars => SumInv'
<1> SUFFICES ASSUME IInv, SumInv, [Next]_vars PROVE SumInv'
  OBVIOUS
<1>0. TypeOK /\ CaseInv /\ EventInv /\ AppealInv /\ RecordedMoves
  BY NextMoves DEF IInv
<1>1. CASE UNCHANGED <<events, score>>
  BY <1>1 DEF SumInv, EventsOf
<1>2. ASSUME NEW b \in Bookings, WindowEnds(b) PROVE SumInv'
  BY <1>0, <1>2, WindowSums
<1>3. ASSUME NEW es \in SUBSET Events, \A e, f \in es : e.key = f.key => e = f,
             IsFiniteSet(New(es)), ApplyTrustEvents(es)
      PROVE  SumInv'
  <2>1. events' = events \cup New(es)
    BY <1>0, <1>3, Applied
  <2>2. New(es) \subseteq Events /\ \A e \in New(es) : \A f \in events : f.key # e.key
    BY DEF New
  <2>3. QED
    BY <1>0, <1>3, <2>1, <2>2, RecordedSums
<1>4. ASSUME NEW b \in Bookings, NEW es \in SUBSET Events, Award(es, b), ApplyTrustEvents(es)
      PROVE  SumInv'
  <2> DEFINE f == [e \in New(es) |-> e.user]
  <2>1. f \in Injection(New(es), Users)
    <3>1. \A e \in New(es) : e.user \in Users
      BY EventFields DEF New
    <3>2. \A d, e \in New(es) : d.user = e.user => d = e
      BY <1>4 DEF Award
    <3>3. QED
      BY <3>1, <3>2 DEF Injection, IsInjective
  <2> HIDE DEF f
  <2>2. IsFiniteSet(New(es))
    BY <2>1, FS_Injection, PairAssumption
  <2>3. \A d, e \in es : d.key = e.key => d = e
    BY <1>4 DEF Award
  <2>4. QED
    BY <1>3, <1>4, <2>2, <2>3
<1>5. ASSUME NEW e \in events, NEW r \in Events, Correction(e, r), ApplyTrustEvents({r})
      PROVE  SumInv'
  <2>1. IsFiniteSet(New({r}))
    <3>1. IsFiniteSet({r}) /\ New({r}) \in SUBSET {r}
      BY FS_Singleton DEF New
    <3>2. QED
      BY <3>1, FS_Subset
  <2>2. QED
    BY <1>3, <1>5, <2>1
<1>6. QED
  BY <1>0, <1>1, <1>2, <1>4, <1>5, Steps

-----------------------------------------------------------------------------
(* Every reachable state                                                    *)

\* The history starts in the invariant.
LEMMA InitInv == Init => IInv
<1> SUFFICES ASSUME Init PROVE IInv
  OBVIOUS
<1>1. TypeOK
  <2>1. booking \in [Bookings -> BookingType]
    BY Booleans DEF Init, BookingType
  <2>2. case \in [Cases -> CaseType]
    BY DEF Init, NoCase, CaseType, CaseTypes
  <2>3. QED
    BY <2>1, <2>2, PastScoreAssumption DEF Init, TypeOK, BookingType, CaseType
<1>2. CaseInv
  BY DEF Init, NoCase, CaseInv
<1>3. QED
  BY <1>1, <1>2 DEF Init, IInv, EventInv, AppealInv, PenalizedOnce, ReversedOnce, OneRewardPerWeek

\* The invariant holds in every reachable state of the trust scores.
THEOREM Invariance == Spec => []IInv
<1>1. QED
  BY InitInv, NextInv, PTL DEF Spec

\* No score leaves 0 .. 100 and no event key is used twice, whatever the order of
\* rewards, penalties, appeals and corrections.
THEOREM TypeCorrect == Spec => []TypeOK
<1>1. IInv => TypeOK
  BY DEF IInv
<1>2. QED
  BY <1>1, Invariance, PTL

\* However many cases are decided about a booking, bookingTrustPenalty finds the
\* first penalty of a participant, also a corrected one.
THEOREM OnePenalty == Spec => []PenalizedOnce
<1>1. IInv => PenalizedOnce
  BY DEF IInv
<1>2. QED
  BY <1>1, Invariance, PTL

\* Appeals and corrections look for each other's reversal in the transaction
\* that records theirs.
THEOREM OneReversal == Spec => []ReversedOnce
<1>1. IInv => ReversedOnce
  BY DEF IInv
<1>2. QED
  BY <1>1, Invariance, PTL

\* However many bookings the pair settles and however late the cases close, their
\* standing rewards of seven days are of one booking.
THEOREM OneRewardStands == Spec => []OneRewardPerWeek
<1>1. IInv => OneRewardPerWeek
  BY DEF IInv
<1>2. QED
  BY <1>1, Invariance, PTL

\* Nothing is recorded at first.
LEMMA InitSums == Init => SumInv
<1> SUFFICES ASSUME Init PROVE SumInv
  OBVIOUS
<1>1. IsFiniteSet(events)
  BY FS_EmptySet DEF Init
<1>2. ASSUME NEW u \in Users PROVE score[u] = PastScore[u] + Total(EventsOf(u))
  <2>1. EventsOf(u) = {} /\ score[u] = PastScore[u] /\ PastScore[u] \in Int
    BY PastScoreAssumption DEF Init, EventsOf
  <2>2. QED
    BY <2>1, TotalEmpty
<1>3. QED
  BY <1>1, <1>2 DEF SumInv

\* However rewards, penalties, appeals and corrections alternate, and whatever
\* was cut off at 0 or 100, a score is the past score plus every recorded change
\* and stays on its scale.
THEOREM LedgerExplains == Spec => []LedgerExplainsScore
<1>1. IInv /\ SumInv => LedgerExplainsScore
  <2> SUFFICES ASSUME IInv, SumInv, NEW u \in Users
               PROVE  /\ score[u] \in 0 .. 100
                      /\ score[u] = PastScore[u]
                            + MapThenSumSet(LAMBDA e : e.delta, {e \in events : e.user = u})
    BY DEF LedgerExplainsScore
  <2>1. score[u] \in 0 .. 100
    BY DEF IInv, TypeOK
  <2>2. QED
    BY <2>1 DEF SumInv, Total, EventsOf
<1>2. IInv /\ SumInv /\ [Next]_vars => SumInv'
  BY NextSums
<1>3. QED
  BY <1>1, <1>2, InitSums, Invariance, PTL DEF Spec

\* The step of LedgerExplainsScore: applyTrustScoreEvent writes the score and its
\* event together, and the event holds the change that was really applied.
THEOREM ScoreMovesWithLedger == Spec => [][RecordedMoves]_vars
<1>1. IInv /\ [Next]_vars => [RecordedMoves]_vars
  BY NextMoves
<1>2. QED
  BY <1>1, Invariance, PTL DEF Spec
=============================================================================
