# ServiceHub verification

TLA+ models of the ServiceHub backend (`src/src`, an Express/Prisma/PostgreSQL
API with PayMongo as the payment gateway), TLC configurations that check them
on small instances, and TLAPS proofs of their safety properties for instances
of any size.  `PROJECT.json` maps every definition to the lines it models.

## 1. The system

A *seeker* posts a service request or picks a provider's listing.  Providers
make offers on the request.  The seeker takes one offer, or books a listing,
with cash on site or with GCash through PayMongo.  A GCash payment is held by
the platform while the provider does the job, and is released when the seeker
confirms completion or refunded when the booking is canceled.  Either side can
open a case (cancellation request, report, dispute, completion escalation) and
an administrator decides it.

### Inventory

| Part | State | Operations | What makes it correct |
|---|---|---|---|
| **Booking cases and settlement** (`cancellation`, `payment-refund`, `bookings/completion`, `case-resolution`, `admin-*-resolution`, `admin-report`, `safety-report`, `completion-escalation` services) | `Booking`, its `Queue` row, `PaymentRefund`, `CompletedService`, ledger, `CancellationRequest`, `Report`, `CompletionEscalation`, `AdminResolutionOperation` | start, complete, confirm, dispute, report, escalate, request/approve/decline/escalate a cancellation, four kinds of administrator decision, ban | money goes one way, once; a booking under review ends; two decisions never both reserve an outcome; a paused booking can be unpaused; a decision survives a crash |
| **Offers and checkout** (`offers`, `requests`, `listing-inquiries`, `payment-attempt`, `paymongo`, `direct-bookings` services, payment controllers) | `ServiceRequest`, `Offer`, `PaymentAttempt`, `Booking`, refund of an attempt, PayMongo's intents and undelivered events | make, withdraw, decline an offer; take it with cash; start, return from, confirm, expire, retry a payment; pause, reopen, cancel, remove, restore a request | one selection per request; every hold ends; a captured payment buys a booking or is refunded, never both and never neither |
| **Work queue and waitlist** (`queue`, `waitlist`, `provider-operations` services, workload controller) | `Queue` rows with position and estimated wait, `Booking.queuePosition`, `onlineQueueLimit`, `QueueNotify` | admit, start, complete, cancel, pause, restore, set capacity, join the waitlist, delete a listing | contiguous unique positions, first come first served, one job at work, everybody is served |
| **Memberships and listings** (`subscriptions`, `subscription-policy`, `provider-membership`, `services`, `public-content-actions`) | plan, trial, paid period, quote, `SubscriptionPayment`, status of each listing | enrol, quote, start, return from, cancel, reconcile a checkout; cancel the plan; maintenance; create, publish, pause, edit, delete, remove, restore a listing | a payment buys one period or is refunded, on the membership it was priced for; published listings never exceed the plan |
| **Authentication and sessions** (`auth/*`, `socket`, controllers) | `User` password and Google account, `RefreshToken`, `PasswordResetToken`, sockets | register, sign in, refresh, sign out; verify; forget, reset, change, set up a password; connect Google; open a socket | sessions match the password in force; tokens and links are used once; the Google account is connected once; sockets end with sessions |
| **Account moderation** (`auth.middleware`, admin users, ban appeals) | moderation status, suspension end, audit entries, appeals | suspend, ban, restore, appeal, decide, lift a suspension that is over | only an administrator ends a ban; a waiting appeal can be decided |
| **Trust** (`trust`, `trust-policy`, trust cases) | `TrustScoreEvent`, score, `TrustCase` | reward, penalise, correct, appeal, decide | the score is the sum of what was applied; each cause counts once and is undone once; a pair farms no points |
| **Verification, content cases, account deletion** | submissions, content cases, the account itself | submit, review; report, appeal, decide; confirm and carry out a deletion | status follows submissions; no account that owes something is deleted |
| Messages and reviews | `Message`, `Review` | send, mark read; write, edit | rows guarded by one statement or one unique index each; not modelled |
| Read models, search, AI, uploads, e-mail, HTTP plumbing | none of their own | queries, external calls | not modelled |

### How the parts interact

All state is in PostgreSQL.  Services call each other inside a Prisma
transaction and serialise with transaction-scoped advisory locks: one per
booking lifecycle, per request, per account, per provider start and per
provider queue.  PayMongo is called *between* transactions.  It answers, or
fails, or the process dies before the answer is stored; its webhooks arrive
late, repeatedly, or beside the browser's own return.  Timers expire stale
payment attempts and mark memberships that are over.  A request that needs
bcrypt or Google works outside any lock and rechecks, or fails to recheck, what
it read when its transaction begins.

### What is hard

* Operations of several transactions with a gateway call in between, whose
  second transaction meets a booking that others have changed (refunds,
  immediate cancellation, administrator decisions, checkout).
* A crash after the effect and before the marker that records it.
* Values read before a lock and used under it: the payment in
  `performImmediateCancel`, the running job in `providerStartJob`, the capacity
  in `joinWaitlist`, the active work in `deleteService`, the suspension in
  `authenticate`, the password hash in every sign-in, the membership in the
  maintenance job.
* Money that is captured after everything around it has changed: an expired
  attempt, a plan that ended, an account that is being deleted.
* Several transactions that write the same fields from different sides: a
  request's status (nine transactions of five services), the status a paused
  booking returns to, queue positions.

`PROJECT.json` lists the hazards at their lines with the properties aimed at
them.  What the models show to go wrong without a property is in section 5.

## 2. Modules

| Module | What it is |
|---|---|
| `Settlement` | abstract promise about one booking's money: open, then completed with release and counted as a service, or canceled with refund, in one step and once |
| `BookingCases` | one accepted booking, all its cases and decisions; states that it implements `Settlement` |
| `BookingCasesProofs`, `DecisionProofs` | theorems about `BookingCases`: its money; its cases and decisions |
| `Purchases` | abstract promise to those who buy: a captured payment buys one booking or is given back, a request is matched once, a listing has one booking at work at a time (one under review is on its way out and does not count) |
| `Checkout` | offers on one request, direct bookings of listings (paid ones and requests with cash), payment attempts, PayMongo, refunds of captured payments; states that it implements `Purchases` |
| `Line` | abstract promise to those who wait: a line joined once and at its end, left from anywhere, served from its front one at a time, and cash only when it is empty |
| `WorkQueue` | one provider's paid queue, cash jobs, capacity, waitlist, listing deletion; states that it implements `Line` |
| `Sessions` | one account: sign-in, refresh tokens, password and reset links, Google, sockets |
| `Providers` | one provider: trial, plans, plan payments, maintenance, and the listings the plan limits |
| `Trust` | two participants: the ledger of trust events, cases, appeals and corrections |
| `Accounts` | one account: moderation, appeals, verification, content cases, obligations, deletion |
| `CheckoutProofs`, `WorkQueueProofs`, `SessionsProofs`, `ProvidersProofs`, `TrustProofs`, `AccountsProofs` | theorems about these modules |
| `MCBookingCases`, `MCCheckout`, `MCWorkQueue`, `MCSessions`, `MCProviders`, `MCTrust`, `MCAccounts` | instances for TLC (symmetry sets, the bound `TwoDeals`) |

The modules meet at facts that one of them keeps and another only observes.
`Checkout` and `WorkQueue` let eligibility of an account change at any time;
`Accounts` says when it does.  `WorkQueue` only knows whether new customers are
admitted; `Providers` says when they are.  `Trust` decides a case in its last
transaction; `BookingCases` has the way there.  `Sessions` knows only bans;
`Accounts` has suspensions.  They are not composed in one instance: the
product of two of them is out of TLC's reach, and each of these facts may
change between any two steps of the observing module.

Conventions.  A transaction that locks and re-reads its rows is **one action**;
a failed check rolls it back, so a guard that is false means nothing happens.
An operation of several transactions is a **worker**, a record whose `pc` names
the next transaction or gateway call and whose other fields are what the code
carries from an earlier read.  `Crash` sends a worker back to idle and keeps
what was committed.  Names follow the code: `RefundReserve`, `RefundGateway`
and `RefundFinal` are the three parts of `refundBookingPayment`;
`BeginAdminResolution`, `MarkStage`, `MarkFailed` and `ReconcileReserved` are
functions of `admin-resolution-operation.service.ts`; and so on.  Definitions
marked *Mutated form* are wrong variants used to show that a property notices
the bug; no specification uses them.

### BookingCases

Starts with an accepted booking (GCash: payment held and queued).  Participants'
steps are single actions (`Start`, `MarkJobComplete`, `ConfirmCompletion`,
`DisputeJob`, `CreateSafetyReport`, `CreateCompletionEscalation`, the
cancellation requests).  Administrators' decisions begin with an action that
claims the operation and spawns a worker, which then runs `Reserve`, the
cancellation or refund or settlement, `Mark`, `Finalize`, or `Fail`.
PayMongo is two facts, `gateway` (it has executed the refund) and the answer
the worker gets.  With a test key `createRefund` is simulated and never fails; with
`LiveKey` the request can fail before or after PayMongo moved the money, and
`GatewayRefundStatus` is what an answer may say: executed or still under way, or
*failed*, which the code stores on the refund's row without looking at it.
Notices are left out; trust points are in `Trust` and penalties other than a ban
in `Accounts`.

### Checkout

One request, public or private inquiry (chosen at the start), its offers, and
listings for direct booking.  A `PaymentAttempt` is created by
`InitiateOnlinePayment` with the hold on the offer; `CreateIntent`,
`StoreIntent`, `InitiationFailed` are the gateway part.  Confirmations come
from the webhook, from the browser's return or from an administrator's retry,
and all run `Finalize*`: books, refuses, or finds the attempt final already.

A booking of a listing with cash is a `CashRequests` row of its own, for the
listing `ListingOf` says.  `createDirectRequest` looks for a live booking of the
listing twice: before its transaction, UNDER_REVIEW included, and again under its
lock, UNDER_REVIEW left out.  The first look may be arbitrarily old when the
transaction begins, so only the second is a guard.  `ReviewBooking` is the moment
at which a booking comes under review: a cancellation before the start, or a
reserved decision (in `BookingCases`, `UnderReviewEnds` says that it then ends).
Bookings paused as DISPUTED block both looks and count as at work.

`Lapse` is the passing of `expiresAt` and `ExpireStalePaymentAttempt` the timer.
Whether accounts, listing and queue still admit the booking belongs to other
components and can change at any time, so `Finalize*` may find either answer.

`PaymentOf` is what `Purchases` sees of an attempt: nothing, *open* while it may
still be paid, *captured* once PayMongo has the money, then *booked* or
*refunded*.  Holds, events, workers and the gateway's answers are not seen.

`DoubleSubmit = FALSE` is an assumption about the environment: the seeker's
browser does not send a second checkout request for the same target while the
first one runs.  The run BookedAndRefunded shows what happens without it.

### WorkQueue

Jobs of one provider.  `Reindex` is the write of a queue transaction followed
by `recalculateQueueInTransaction`; `IndexesHold` is what PostgreSQL's partial
unique indexes demand after each single-row update of that recalculation.
`StartCheck`/`StartCommit`, `JoinRead`/`JoinCommit` and
`DeleteCheck`/`DeleteCommit` are the pairs of a read and the locked write that
uses it.  Every job lasts one unit of time, so `estimatedWait` is a count.
`Keeping` is the waitlist after a `deleteMany`: the rows at the places that stay,
in their order.  `CreateCash` has the guard of `createDirectRequest` under its lock,
in which a job under review does not block, as in `Checkout`.

`LineOf`, `Underway` and `Customers` are what `Line` sees: for each waiting row the
rows ahead of it, the booking being worked on (also while a case pauses it),
and the jobs that were ever admitted or, being cash, started.

### Sessions

A request runs in a slot of `Calls`.  `LoginRead`, `GoogleRead`, `ResetRead`,
`ChangeRead`, `RefreshRead` and `SocketHandshake` are what a request reads
without a lock; `IssueTokens`, `LinkGoogle`, `GoogleCreate`, `ResetCommit`,
`ChangeCommit`, `RotateToken` and `SocketJoin` are the statements that use it,
with exactly the rechecks the code makes.  A hash is the number of times the
password was set: two hashes are equal when no change came between them.
`forgotPassword` is two actions because it deletes and creates in two
statements.  `disconnectUserSockets` and its two relatives run after the
transaction that made them necessary.  `late` records the sockets that joined
after their session or account had lost access (section 5).

### Providers

A lock is held by `editing` only where it matters: between the read of a
listing and its write, because `deleteService` takes no lock.  Requests about a
payment have no identity, since each statement is conditional on the row it
writes.  `current` says that the membership has not changed since the payment
was priced (`subscriptionUpdatedAt` is compared by value); amounts are left
out.  The history field `month`, which no action's guard reads, names the payment
that began the membership's paid month, and of a quote or a payment the month it
was priced on.  PayMongo's intent is `awaiting` a method, `open` for payment,
`succeeded` or `cancelled`, and can succeed as late as it likes.  `CloseCheckout`
writes FAILED or EXPIRED after an earlier look at the intent: `WasOpen` says what
that look may have found, and the intent may have succeeded since.

### Trust

Every action is a transaction that ends in `ApplyTrustEvents`, which is
idempotent by key and records the change that was really applied.  Scores are
integers from 0 to 100; `PastScore` puts one account near each end.  `WindowEnds` is
the end of the seven days in which a pair is rewarded once.

### Accounts

The account is a provider's; the market around it is the little that moderation
and deletion look at: one listing, one booking with its payment, a report, a
content case.  `Authenticate` and `LiftSuspension` are the read and the
unconditional write of the authentication middleware.  `ConfirmDeletion` is the
proof of identity, `DeleteOwnAccount` and `RefuseDeletion` the transaction that
follows.

## 3. Runs

Deadlock is not checked in any run: bookings end and requests are closed, so
these systems may stop.

| Run | Instance | Shows | Distinct states |
|---|---|---|---|
| BookingCasesGCash | 2 workers, 1 cancellation request, 1 report, 1 escalation | a settled booking, its queue row, its record and its ledger agree; a refunded payment is not released; one decision at a time has reserved an outcome, no other case is open beside it, and the booking stays paused for it; a paused booking has somebody to unpause it; a booking under review ends completed or canceled; decisions only move forward; `Settlement` is implemented, so settled is final | 707,352 |
| BookingCasesRetry | 1 worker, report, escalation, live key, fairness | a reserved decision is carried out in the end, also after refunds that failed or whose answer was lost | 27,036 |
| CheckoutOffers | 2 offers, 1 listing, 1 cash request for it, two deals at once, 1 worker, 1 attempt, public and inquiry, fairness | one selection, in agreement with the request's status; one booking at work for a listing, also when cash and online bookings of it meet, or a second one begins beside one under review; siblings untouched while a payment runs; `Purchases` is implemented; captured payments settle and holds end | 80,599 |
| CheckoutConcurrent | 1 offer, 2 workers, 2 attempts | what is booked is not refunded; what is captured ends as its booking or its refund; every hold has a pending attempt | 2,747,239 |
| QueuePaid | 3 paid, 2 cash jobs, capacity up to 3 | positions are contiguous and no unique index ever collides; one job at work; queue rows follow bookings; no wait understated; `Line` is implemented, so nobody overtakes | 225,108 |
| QueueLiveness | 2 paid jobs, 1 cash job, 1 seeker, 1 listing, capacity 1, fairness | nobody waits for a listing on which they hold paid work; no paid job waits forever once cases stop being opened | 146,442 |
| Sessions | 2 sessions, 2 links, 2 Google accounts, 2 concurrent requests | no session outlives the password it was opened with; a refresh token is exchanged once; a link works once, and not above Google; the Google account never changes; sockets end with their session | 1,043,830 |
| Providers | 2 payments, 2 listings, Basic limit 1 | a payment counts once and is not refunded then; a payment takes effect only on the month it was priced for, however late it is captured; a month that runs gives access; listings stay within the plan | 2,377,324 |
| Trust | 2 users, 2 bookings, 2 cases, 1 correction, past scores 4 and 99 | the ledger explains the score; one penalty per booking and participant; nothing is undone twice; one reward per pair and week | 1,149,836 |
| Accounts | 2 bans, 2 submissions | only administrators end a ban; waiting appeals can be decided; the status follows the submissions; a deleted account owes nothing | 166,864 |

`TypeOK` is the type invariant of each module.  The runs spend their properties
on the hazards; `TypeOK` holds on the same instances and is proved for every
module (section 4).

Two runs show a disagreement between the code and its own comments or docs:

* **RefundTimeout** (`RefundedNotReleased`, `LiveKey = TRUE`).  PayMongo executes
  the refund of an approved cancellation but its answer is lost.  The catch
  writes FAILED, `assertNoRefundInProgress` passes, and the seeker's confirmation
  completes the booking and releases the refunded money
  (`payment-refund.service.ts:118`), where `docs/SERVICEHUB_MASTER_PROMPT.md:494`
  says that approval cancels the booking.  With a test
  key the property holds (BookingCasesGCash).
* **BookedAndRefunded** (`BookedNotRefunded`, `DoubleSubmit = TRUE`).  Of two
  overlapping checkout requests on one attempt, the failing one writes FAILED
  over SUCCEEDED; the next report of the payment finds the attempt's own
  booking in the way and refunds it (`payment-attempt.service.ts:302`).

### Why the bounds are enough

Two workers are the smallest number with a race between multi-transaction
operations, and each race in the code is between two.  One row per kind of
case makes every pair of kinds meet, and the administrator's own decision on
the booking is always a further case.  Two offers are a winner and a sibling;
two attempts (CheckoutConcurrent) are an old one and the one that replaced it.
Three paid jobs are one served and two waiting, so
that something leaves the middle of the queue.  `MaxLimit` is at most 3 (the
schema allows 10): a capacity matters only by comparison with the jobs
waiting.  With fairness there are fewer rows: TLC's liveness check admits
no symmetry.  `CheckoutOffers` therefore bounds what the seeker has been drawn
into (`TwoDeals` in `MCCheckout`): two offers that compete, an offer and a booking
of the listing, or a booking with cash and one with GCash of the listing.  An
offer and a booking of a listing share no row but the payment attempt, and no
action that fairness speaks of begins a deal, so the bound never holds one back.
All six properties also held with two cash requests (122,288 states, too slow to
repeat).

In `Sessions` two rows of a kind are an old one and its successor, two requests
are one that has read and one that writes, and `MaxHash = 2` is one change of
the password, `MaxToken = 2` one exchange of a token.  In `Providers` two
payments are one that is late and the one made instead; with `BasicLimit = 1`
two listings exceed both the free and the Basic plan and fit Pro.  In `Trust`
the scores 4 and 99 are cut off by one penalty and by one reward; two cases
are a penalty and what would repeat it, or a delay and what it delays.  In
`Accounts` two bans and two submissions are a decided and an undecided one.
A cash booking of `BookingCases` has no run: the proofs below hold for either
payment method, and the run with a GCash booking has the larger behaviour.

### Fairness

* `BookingCases!FairSpec`: the server goes on executing a request it accepted
  (weak), an administrator retries a decision that stays open (strong; the case
  is listed until it is closed), and outages and crashes stop eventually.
* `Checkout!FairSpec`: PayMongo redelivers a paid event until the endpoint
  answers 200; a worker goes on unless it crashes, no step crashes every time it
  is tried and PayMongo does not refuse a refund forever (strong, since a crash
  disables the step until the next delivery); time passes and the timer runs.
* `WorkQueue!FairSpec`: the provider starts a job whose turn it is, finishes what
  runs, transactions end, and a case that paused a job ends.  The property
  itself assumes that cases stop being opened: a participant who disputes
  again and again does block the queue.

`Sessions`, `Providers`, `Trust` and `Accounts` state no liveness: nothing in their
code promises to happen without a request of a person.

## 4. Proofs

Every theorem below holds for all values of the constants that satisfy the
named assumptions of its module; there is no bound on workers, rows or calls.
Each was model-checked first, and so was each inductive invariant.

| Module | Assumptions |
|---|---|
| `BookingCases` | `PaymentMethodAssumption`, `LiveKeyAssumption`, `CasesDisjoint`, `NoneIsNoCase`: the rows of different tables are different |
| `Checkout` | `MaxAttemptsAssumption`, `DoubleSubmitAssumption`, `TargetsAssumption`, `ListingOfAssumption`: offers, listings, cash requests and numbers of attempts are different things, and a cash request is for a listing |
| `WorkQueue` | `MaxLimitAssumption` (the schema's 1 to 10), `JobsAssumption`, `ListingsAssumption` |
| `Sessions` | `BoundsAssumption`, `NamesAssumption` |
| `Providers` | `BasicLimitAssumption`, `PaymentsAssumption`, `ListingsAssumption`: there are finitely many listings, without which they could not be counted |
| `Trust` | `PairAssumption` (two users), `PastScoreAssumption`, `NoneAssumption` |
| `Accounts` | `BoundsAssumption` |

### BookingCases: the money (`BookingCasesProofs`)

| Theorem | Says |
|---|---|
| `TypeCorrect` | `Spec => []TypeOK` |
| `SettlesConsistently` | `Spec => []SettledConsistently`: status, payment, queue row, record and ledger agree |
| `SettledForGood` | `Spec => TerminalStays`: a settled booking keeps its status, payment and ledger |
| `SettlementImplemented` | `Spec => ImplementsSettlement`: refinement of `Settlement` |
| `DecisionsMoveForward` | `Spec => DecisionMonotone` |

`SettledConsistently` is not inductive.  A worker may carry the fact that the
payment was held, read in an earlier transaction, and a booking returns to the
status it remembered.  The inductive invariant is
`TypeOK /\ MoneyInv /\ WorkerInv` (lemma `MoneyInvariant`):

* `WorkerInv`: a worker inside a refund has seen the payment held, and a worker
  that is about to cancel without a refund does so for a cash booking, or finds
  the booking canceled already;
* `MoneyInv`: the consistency itself, with `before` always a status to which a
  booking may return and a cash booking without a queue row.

The argument classifies each action as one of four kinds of step on the money
(keep, continue, release, return), proves once that each kind preserves
`MoneyInv` (`MoneyStepPreserves`), and then shows per action of which kind it is
(`ParticipantMoney`, `CancellationMoney`, `AdminMoney`, `WorkerMoney`).  The
refinement and `TerminalStays` follow from the same classification.
`DecisionMonotone` needs only types and the order of the stages.

### BookingCases: the decisions (`DecisionProofs`)

| Theorem | Says |
|---|---|
| `DecisionsProtected` | `Spec => []ReservedDecisionProtected` |
| `PausedCasesOpen` | `Spec => []PausedHasCase` |
| `ReviewIsFinal` | `Spec => UnderReviewEnds` |
| `RefundNeverReleased` | `~LiveKey => (Spec => []RefundedNotReleased)` |

No service checks the whole invariant.  A claim looks at the other cases, the
reservation in a later transaction looks again, and new cases look for
reservations.  That this suffices is `DecisionInv`: which cases pause a booking
(`ReportInv`, `ImmediateInv`), what a request in flight may still do (`FlightInv`,
`ClaimInv`), that beside a reservation nothing blocking is open
(`ReservationInv`), and that a paused booking has something left to resume it
(`AwaitedInv`).  `PausedCasesOpen` rests on `DecisionsProtected`: a case that closes
without a reservation resumes the booking, and a reservation keeps it paused.

`ReviewIsFinal` is about `restoreBookingIfNoBlockingCases`, which resumes any paused
booking.  `ReviewInv` says what holds a booking under review: a cancellation before
the start, or a reserved decision on the booking or an escalation.  Such a
reservation lasts until the booking has ended (`ReservationLasts`), and such a
cancellation is a case that `restoreBookingIfNoBlockingCases` finds open.

`RefundNeverReleased` needs `~LiveKey` because with a live key it is false; the
run RefundTimeout shows how.  `RefundInv` says why the test key saves it: the
reservation made before PayMongo is asked stays until the refund is booked.

### Checkout (`CheckoutProofs`)

| Theorem | Says |
|---|---|
| `TypeCorrect` | `Spec => []TypeOK` |
| `OneSelected` | `Spec => []OneSelection` |
| `OneActive` | `Spec => []OneActiveBooking` |
| `HoldsHaveAttempts` | `Spec => []HoldHasAttempt` |
| `SiblingsKept` | `Spec => SiblingsWait` |
| `BookedKept` | `~DoubleSubmit => (Spec => []BookedNotRefunded)` |
| `CapturedKept` | `~DoubleSubmit => (Spec => []CapturedNotLost)` |
| `SellsAsPromised` | `~DoubleSubmit => (Spec => ImplementsPurchases)`: refinement of `Purchases` |

There are two inductive invariants.  The first, `IInv`, is about the rows and
holds with `DoubleSubmit` too:

* `RequestInv` ties the request to the one booking ever made from it and to its one
  selected offer.  `OneSelection` alone is not inductive: that a canceled or
  restored request is free to be booked again depends on what became of the
  booking it had, and a removed request must have had none;
* `ListingInv` is `OneActiveBooking` for listings, pairwise among the bookings at
  work; one under review is not among them and never comes back;
* `ShapeInv`: an attempt that was not created has no booking, no event and no
  worker, and no worker refunds an attempt that is still pending.  Without the
  last part the end of a refund could leave a hold without its attempt.

`FinalizeWithoutHold` writes REJECTED to an offer only when it is held and its
request PAYMENT_PENDING, and `RequestInv` shows that in those states the hold is
valid: the write never happens, which is what `SiblingsKept` needs.

The second, `PaymentInv`, needs `~DoubleSubmit`.  There is one initiating
worker per target (`OneCheckout`), nobody can pay before it is through
(`PaymentWorker`), so that its catch cannot write FAILED over an attempt that
was paid; and an attempt's status, booking, intent, event and refund agree
(`Money`).  With `DoubleSubmit` the first of these fails, and BookedAndRefunded
shows what follows.  Each action changes the payment of one attempt at most, and
takes back nothing that is known of it (`Forward`); `PaymentGoes` proves once that
such a step keeps `PaymentInv`.

`SellsAsPromised` needs both.  A step of `Checkout` is one step of `Purchases` or is
not seen by it (`SaleStep`): the creation of an attempt, PayMongo's capture,
`Finalize*`, the end of a refund and the end of a booking each move one payment or
one booking (`SaleGoes`, `SaleStatus`).  That a booking is made only of what is
free follows from `RequestInv` and `ListingInv` (`OfferFree`, `ListingFree`), and
that a worker which is about to book or to give back still finds the payment
captured follows from `PaymentInv`.

### WorkQueue (`WorkQueueProofs`)

| Theorem | Says |
|---|---|
| `TypeCorrect` | `Spec => []TypeOK` |
| `OneAtWork` | `Spec => []OneJobAtWork` |
| `QueueFollows` | `Spec => []QueueFollowsBooking` |
| `NeverCollide` | `Spec => []NeverCollides` |
| `WaitsHonest` | `Spec => []NoWaitUnderstated` |
| `NotBookedAndWaiting` | `Spec => []BookedNotWaitlisted` |
| `ServesInOrder` | `Spec => ImplementsLine`: refinement of `Line` |
| `NoOvertaking` | `Spec => NobodyOvertakes`: the same order in terms of the positions |

The rows a transaction finds were left by a recalculation (`Compact`): it would
not change them again.  `AdmittedRow`, `StartedRow` and `ClosingRow` show that the
rows stay compact under the three kinds of write.  A position is one more than
the number of rows ahead, so `RowsOK` also keeps the active rows finitely many,
however many jobs there may ever be.
`StartInv` closes the gap between `StartCheck` and `StartCommit`: while a job is
being started it stays ready and nobody else works.  The estimates (`WaitInv`)
are a lower bound only, as section 5 says.

The refinement rests on what a recalculation preserves: the rows that wait and
who is ahead of whom (`LineAfter`), whatever positions it writes.  A closed row is
then taken out of the line (`LineWithout`), an admitted one put at its end
(`LineAdmit`), and a started one was its front, with nobody at work (`LineStart`,
from `StartInv`).  Every other action leaves all three parts of the line alone.

The waitlist has an invariant of its own (`WInv`, on top of `IInv`): it stays a list
of requests, none of them for what the seeker holds a live paid booking of.  A
bulk delete keeps some rows in their order, and `KeepingKeeps` says what `Keeping`
returns; that each rank has a row (`EveryRank`) is an argument about a bijection,
with no induction over the list.

### Sessions, Providers, Trust, Accounts

| Theorem | Says |
|---|---|
| `SessionsProofs!TypeCorrect` | `Spec => []TypeOK` |
| `SessionsMatch`, `TokensUsedOnce`, `SocketsFollow` | `Spec => []SessionsMatchPassword`, `[]UsedOnce`, `[]SocketsFollowSessions` |
| `GoogleStays` | `Spec => GoogleKept` |
| `ProvidersProofs!TypeCorrect` | `Spec => []TypeOK` |
| `PaymentsCountOnce`, `RunningMonthsCount`, `ListingLimitHolds` | `Spec => []PaymentCountsOnce`, `[]RunningMonthCounts`, `[]ListingLimitKept` |
| `PaymentsAsPriced` | `Spec => AppliedAsPriced` |
| `TrustProofs!TypeCorrect` | `Spec => []TypeOK` |
| `OnePenalty`, `OneReversal`, `OneRewardStands` | `Spec => []PenalizedOnce`, `[]ReversedOnce`, `[]OneRewardPerWeek` |
| `LedgerExplains` | `Spec => []LedgerExplainsScore` |
| `ScoreMovesWithLedger` | every step that changes a score adds the event that records the change |
| `AccountsProofs!TypeCorrect` | `Spec => []TypeOK` |
| `BansHold`, `AppealsDecidable`, `VerificationFollows` | `Spec => []BanHolds`, `[]AppealCanBeDecided`, `[]VerificationFollowsSubmissions` |
| `DeletionOwesNothing` | `Spec => DeletedOwesNothing` |

Each has one inductive invariant, the checked ones with what they rest on.
`Sessions`: what a request in flight knows (`CallInv`), that an account that does
not exist has nothing (`AccountInv`), and that a stored token has no heir and a
fresh link has set no password (`TokenInv`).  `Providers`: what the maintenance job
has read is still so while nothing changed (`ScanInv`), only what must be refunded
is (`PaymentInv`), a price that still compares equal was made on the month that is
running (`QuoteInv`), and what an edit is about to publish still fits (`EditInv`).
`Trust`: an event's key tells where it comes from (`EventInv`), so that two
penalties of one case are one event.  `Accounts`: a ban has its audit entry,
against which alone an appeal waits (`BanInv`).

That a score is a sum over the ledger (`LedgerExplains`) needs an induction over a
finite set of events, done without the library's induction theorems: if an event
did not count once in every sum, whatever the order of the summation
(`TotalWithout`), there would be a smallest set of events where it does not
(`Smallest`), and taking one out of it gives a smaller one.

### Only model-checked

* Every liveness property: `ReservedDecisionCompletes`, `CapturedSettles`,
  `HoldEnds`, `EveryPaidJobServed`.  The prover does not reason about fairness.

`RefundedNotReleased` with a live key, and `BookedNotRefunded`, `CapturedNotLost` and
`ImplementsPurchases` with `DoubleSubmit`, are false, not unproved.  Every other
property of a run is a theorem.

## 5. Disagreements seen in the models without a run of their own

* `settleCompletedBooking` leaves a pending cancellation request open: a seeker's
  confirmation can overtake an approved cancellation, which then never cancels
  (`bookings/completion.service.ts:83`; `docs/SERVICEHUB_MASTER_PROMPT.md:494`).
* A cancellation request that waits for a participant banned meanwhile blocks
  every administrator decision on an ongoing booking
  (`admin-booking-resolution.service.ts:81`; master prompt line 201).
* Starting a job or raising the capacity opens a place but notifies nobody on
  the waitlist (`bookings/provider-operations.service.ts:151`; line 474).
* Canceling a cash job in progress leaves the paid jobs' estimates too high
  (`cancellation.service.ts:102`; line 456).  They are never too low
  (`NoWaitUnderstated`).
* `deleteService` looks for active work before its transaction, so a payment
  confirmed in between leaves live work on a deleted listing
  (`services.service.ts:488`).
* `releaseOfferHold` does not ask whose hold it releases.  A late confirmation
  of an expired attempt removes the hold of the newer attempt on the same
  offer, which can then be withdrawn while it is being paid
  (`payment-attempt.service.ts:445`, against the comment at line 251).  The
  money is not lost: the newer payment is refunded (`CapturedSettles`).
* `authenticate` lifts a suspension it has read as over by an update on the
  account's id alone.  An account that is banned between the two statements
  becomes active again; an appeal pending then cannot be decided while the account
  is active, and blocks its deletion (`auth.middleware.ts:99`; master
  prompt lines 203 and 1117).  `BanHolds` and `AppealCanBeDecided` hold up to
  this step, which `overrun` records.
* A socket whose session is revoked, or whose account is banned, between its
  handshake and its `join` stays connected: the disconnect found no room to
  look in, and nothing checks again (`lib/socket.ts:46` and 68; lines 579 and
  1117).  `SocketsFollowSessions` holds for every other socket.
* A live refund that PayMongo answers with *failed* is stored as such and the
  booking is still marked REFUNDED, so no release follows, but nothing sends the
  refund again (`payment-refund.service.ts:148`).  The models have this answer; no
  property calls it wrong, since the money is not promised to anyone twice.
* `createDirectRequest` repeats its look for a live booking of the listing under the
  lock without UNDER_REVIEW (`direct-bookings.service.ts:113`, against 89 and master
  prompt line 717).  A booking made and put under review between the two looks
  does not stop a second one.  `OneActiveBooking` therefore counts the bookings at
  work, and `UnderReviewEnds` says that the other one never goes back to work.
* `forgotPassword` deletes the old links and creates the new one in two
  statements; two requests leave two valid links
  (`auth/authentication.service.ts:353`).  Each works at most once.
* `deleteService` takes no account lock.  An edit, a resumption or an
  administrator's restoration that has read the listing before writes its
  status back, and the deleted listing is public again
  (`services.service.ts:509`).
* `account-deletion.service.ts:25` tests `isActive`, which a ban leaves true: an
  owner who confirmed a deletion before a ban deletes the banned account, and
  with it the audit of the ban.
* A plan payment that is captured after the account was deleted finds no row and
  is never refunded: the deletion waits for PENDING and REFUND_REQUIRED payments,
  not for FAILED, EXPIRED or CANCELLED ones whose intent can still succeed
  (`subscriptions.service.ts:196`, which expects such delayed charges).
* Reversals of changes that were cut off at 0 or 100 do not commute: undoing a
  penalty of an account at 4 points returns the 4 it lost, but if it was
  rewarded up to 100 in between, the reversal is cut off again
  (`trust.service.ts:52`).  The ledger always says what was applied.

## 6. Plan

Done: the models `BookingCases`, `Checkout` and `WorkQueue` with the abstract
specifications they implement (`Settlement`, `Purchases`, `Line`), the models
`Sessions`, `Providers`, `Trust` and `Accounts`, and the theorems of section 4, which
cover every safety property of the runs.  What could come next:

1. Abstract specifications of `Sessions` (a session is opened, exchanged and
   ended) and `Providers` (a month is bought, runs and is over).
2. `Providers` and `WorkQueue` in one instance: the capacity and the membership
   admit new customers together, and here each is free to change beside the other.

### Not modelled

* Messages and reviews: each operation is one statement, conditional or under a
  unique index, and no property relates two of them.
* Read models and search: no state changes.
* The texts of listings, requests and reports, photos, categories, and the
  text rules of moderation, which match string patterns.
* AI, uploads and e-mail: external calls on whose order no marketplace state
  depends.  Routing, validation schemas, login throttling and rate limits.
* Changing the phone number, which looks for active bookings before it takes
  its locks (`auth/profile.service.ts:135`); no modelled state depends on the
  number.
