----------------------------- MODULE WorkQueue ------------------------------
(***************************************************************************)
(* One provider's workload: the paid work queue, the cash jobs beside it,  *)
(* the waiting capacity, and the "Notify Me" waitlist.                     *)
(*                                                                         *)
(* A transaction that holds the provider's queue lock reads and writes the *)
(* queue as one action.  What a request reads before it has that lock and  *)
(* uses afterwards is an action of its own: the check that no other job is *)
(* running (starting a job), the capacity (joining the waitlist) and the   *)
(* check that a listing has no work (deleting it).  A check that fails     *)
(* rolls its transaction back and changes nothing.                         *)
(*                                                                         *)
(* Payments, cases and refunds are in BookingCases and Checkout: here a    *)
(* case pauses a job and later restores, cancels or settles it.  Every job *)
(* lasts one unit, so estimatedWait counts the jobs ahead.                 *)
(***************************************************************************)
EXTENDS Naturals, FiniteSets, Sequences

CONSTANTS
    PaidJobs, CashJobs,     \* bookings that can be made with the provider
    Seekers, Listings,
    MaxLimit                \* onlineQueueLimit is 1 .. 10 in the schema

ASSUME MaxLimitAssumption == MaxLimit \in 1 .. 10
ASSUME JobsAssumption == PaidJobs \cap CashJobs = {} /\ "none" \notin PaidJobs \cup CashJobs
ASSUME ListingsAssumption == {"none", "offer"} \cap (Seekers \cup Listings) = {}

Jobs    == PaidJobs \cup CashJobs
Sources == Listings \cup {"offer"}      \* what a booking was made from

VARIABLES
    job,        \* Booking rows
    row,        \* Queue rows of the paid jobs
    mirror,     \* Booking.queuePosition
    limit,      \* User.onlineQueueLimit
    access,     \* the provider's membership admits new customers
    waitlist,   \* QueueNotify rows, oldest first
    deleted,    \* listings that are deleted
    starting,   \* the job whose start transaction holds the provider-start lock
    joining,    \* requests to join the waitlist that have read the listing
    deleting    \* requests to delete a listing that found no work on it

queueVars    == <<row, mirror>>
requestVars  == <<starting, joining, deleting>>
settingVars  == <<limit, access, deleted>>
vars == <<job, queueVars, settingVars, waitlist, requestVars>>

NoJob == [status |-> "none", before |-> "none", started |-> FALSE, seeker |-> "none", source |-> "none"]
NoRow == [status |-> "none", position |-> 0, wait |-> 0]
NotJoining == [source |-> "none", limit |-> 0]

Paused   == {"PAUSED"}                       \* DISPUTED and UNDER_REVIEW
Live     == {"PENDING_APPROVAL", "ACCEPTED", "ONGOING", "AWAITING_CONFIRMATION"} \cup Paused
Statuses == Live \cup {"none", "DECLINED", "COMPLETED", "CANCELED"}

\* Every variable stays within its type, and a queue row has a positive
\* position, as its check constraint demands.
TypeOK ==
    /\ job \in [Jobs -> [status : Statuses, before : Statuses, started : BOOLEAN,
                         seeker : Seekers \cup {"none"}, source : Sources \cup {"none"}]]
    /\ row \in [PaidJobs -> [status : {"none", "WAITING", "SERVING", "DONE", "CANCELLED"},
                             position : Nat, wait : Nat]]
    /\ \A j \in PaidJobs : row[j].status # "none" => row[j].position > 0
    /\ mirror \in [PaidJobs -> Nat]
    /\ limit \in 1 .. MaxLimit
    /\ access \in BOOLEAN
    /\ waitlist \in Seq(Listings \X Seekers)
    /\ deleted \in SUBSET Listings /\ deleting \in SUBSET Listings
    /\ starting \in Jobs \cup {"none"}
    /\ joining \in [Seekers -> [source : Listings \cup {"none"}, limit : 0 .. MaxLimit]]

Init ==
    /\ job = [j \in Jobs |-> NoJob]
    /\ row = [j \in PaidJobs |-> NoRow]
    /\ mirror = [j \in PaidJobs |-> 0]
    /\ limit \in 1 .. MaxLimit
    /\ access = TRUE
    /\ waitlist = <<>>
    /\ deleted = {} /\ deleting = {}
    /\ starting = "none"
    /\ joining = [s \in Seekers |-> NotJoining]

-----------------------------------------------------------------------------
(* The queue rows.                                                         *)

WaitingIn(rows) == {j \in PaidJobs : rows[j].status = "WAITING"}
ServingIn(rows) == {j \in PaidJobs : rows[j].status = "SERVING"}
ActiveIn(rows)  == WaitingIn(rows) \cup ServingIn(rows)

\* Rows ahead of j among the waiting ones, in the order of their positions.
Ahead(rows, j) == {k \in WaitingIn(rows) : rows[k].position < rows[j].position}

\* Mutated form: a paused cash job is not in progress.
CashOngoing(jobs) == \E j \in CashJobs : jobs[j].started /\ jobs[j].status = "ONGOING"

CashInProgress(jobs) ==
    \E j \in CashJobs : jobs[j].started /\ jobs[j].status \in {"ONGOING"} \cup Paused

NewPosition(rows, j) ==
    (IF ServingIn(rows) # {} THEN 2 ELSE 1) + Cardinality(Ahead(rows, j))

\* recalculateQueueInTransaction
Recalculated(rows, jobs) ==
    LET first == IF ServingIn(rows) # {} \/ CashInProgress(jobs) THEN 1 ELSE 0
    IN  [j \in PaidJobs |->
            IF j \in WaitingIn(rows)
            THEN [rows[j] EXCEPT !.position = NewPosition(rows, j),
                                 !.wait = first + Cardinality(Ahead(rows, j))]
            ELSE IF j \in ServingIn(rows) THEN [rows[j] EXCEPT !.position = 1, !.wait = 0]
            ELSE rows[j]]

\* queues_provider_active_position_key and queues_one_serving_per_provider_key
\* hold after every statement: as rows stand, and while the recalculation
\* moves one row at a time, front to back, the rows behind still in place.
IndexesHold(rows) ==
    /\ \A j, k \in ActiveIn(rows) : rows[j].position = rows[k].position => j = k
    /\ Cardinality(ServingIn(rows)) <= 1
    /\ \A j \in ServingIn(rows), k \in WaitingIn(rows) : rows[k].position # 1
    /\ \A j, k \in WaitingIn(rows) :
          rows[j].position < rows[k].position => NewPosition(rows, j) # rows[k].position

\* The transaction writes rows, jobs and their positions, then recalculates; a
\* violated index aborts it.
Reindex(rows, jobs, positions) ==
    /\ IndexesHold(rows)
    /\ job' = jobs
    /\ row' = Recalculated(rows, jobs)
    /\ mirror' = [j \in PaidJobs |-> IF j \in WaitingIn(rows) THEN row'[j].position ELSE positions[j]]

\* notifyWaitlistInTransaction: the oldest request is consumed if there is room.
NotifyWaitlist ==
    waitlist' = IF access /\ Cardinality(WaitingIn(row')) < limit /\ waitlist # <<>>
                THEN Tail(waitlist) ELSE waitlist

\* What is left of the waitlist when the requests at the other places are deleted.
Keeping(places) ==
    [n \in 1 .. Cardinality(places) |->
        waitlist[CHOOSE i \in places : Cardinality({k \in places : k <= i}) = n]]

JobIn(statuses, s, source) ==
    \E j \in Jobs : job[j].seeker = s /\ job[j].source = source /\ job[j].status \in statuses

LiveJob(s, source) == JobIn(Live, s, source)

-----------------------------------------------------------------------------
(* Bookings enter.                                                         *)

NewJob(s, source, status) ==
    [status |-> status, before |-> "none", started |-> FALSE, seeker |-> s, source |-> source]

HasRoom == Cardinality(WaitingIn(row)) < limit

\* Mutated form: the seeker's own waitlist requests survive the booking.
WaitlistKept(s) == waitlist

WaitlistWithout(s) == Keeping({i \in DOMAIN waitlist : waitlist[i][2] # s})

\* Mutated form: the job being served is not counted.
NextWaitingPosition == Cardinality(WaitingIn(row)) + 1

NextPosition == Cardinality(ServingIn(row)) + Cardinality(WaitingIn(row)) + 1

\* The payment finalizer admits a paid booking at the end of the queue.
Admit(j, s, source) ==
    /\ job[j].status = "none"
    /\ access /\ HasRoom /\ source \notin deleted
    /\ source \in Listings => ~LiveJob(s, source)
    /\ Reindex([row EXCEPT ![j] = [status |-> "WAITING", position |-> NextPosition, wait |-> 0]],
               [job EXCEPT ![j] = NewJob(s, source, "ACCEPTED")],
               [mirror EXCEPT ![j] = NextPosition])
    /\ waitlist' = WaitlistWithout(s)
    /\ UNCHANGED <<settingVars, requestVars>>

\* A cash request waits for the provider; a cash offer is an agreement already.
\* The check for other bookings of the listing under the lock leaves those
\* UNDER_REVIEW out, so a paused one need not stand in the way; the fuller check
\* before the lock may have been made before that booking existed.
CreateCash(j, s, source) ==
    /\ job[j].status = "none"
    /\ access /\ source \notin deleted
    /\ source \in Listings => ~JobIn(Live \ Paused, s, source)
    /\ job' = [job EXCEPT ![j] = NewJob(s, source, IF source = "offer" THEN "ACCEPTED" ELSE "PENDING_APPROVAL")]
    /\ UNCHANGED <<queueVars, settingVars, waitlist, requestVars>>

AcceptDirectBooking(j) ==
    /\ job[j].status = "PENDING_APPROVAL" /\ access
    /\ job' = [job EXCEPT ![j].status = "ACCEPTED"]
    /\ UNCHANGED <<queueVars, settingVars, waitlist, requestVars>>

DeclineDirectBooking(j) ==
    /\ job[j].status = "PENDING_APPROVAL"
    /\ job' = [job EXCEPT ![j].status = "DECLINED"]
    /\ UNCHANGED <<queueVars, settingVars, waitlist, requestVars>>

RespondToDirectBooking(j) == AcceptDirectBooking(j) \/ DeclineDirectBooking(j)

-----------------------------------------------------------------------------
(* providerStartJob.                                                       *)

Ready(j) ==
    /\ job[j].status = "ACCEPTED" /\ ~job[j].started
    /\ j \in PaidJobs => row[j].status = "WAITING"

\* Mutated form: a paused job does not count as the provider's current job.
OnlyOngoing(j) == \E k \in Jobs \ {j} : job[k].status = "ONGOING"

OtherOngoing(j) ==
    \E k \in Jobs \ {j} :
        \/ job[k].status = "ONGOING"
        \/ k \in CashJobs /\ job[k].started /\ job[k].status \in Paused
        \/ k \in PaidJobs /\ row[k].status = "SERVING"

\* The job's lifecycle lock and the provider-start lock, not the queue's.
StartCheck(j) ==
    /\ starting = "none"
    /\ Ready(j)
    /\ ~OtherOngoing(j)
    /\ starting' = j
    /\ UNCHANGED <<job, queueVars, settingVars, waitlist, joining, deleting>>

\* Mutated form: a cash job does not yield to paid jobs that wait.
CashAnyTime(j) == j \in PaidJobs => Ahead(row, j) = {} /\ ServingIn(row) = {}

\* Under the queue lock: the first waiting job, or cash when none waits.
Turn(j) ==
    IF j \in PaidJobs THEN Ahead(row, j) = {} /\ ServingIn(row) = {}
                      ELSE WaitingIn(row) = {}

Started(j) == [job EXCEPT ![j].status = "ONGOING", ![j].started = TRUE]

StartCommit ==
    LET j == starting
    IN  /\ j \in Jobs
        /\ Turn(j)
        /\ IF j \in PaidJobs
           THEN Reindex([row EXCEPT ![j] = [status |-> "SERVING", position |-> 1, wait |-> 0]],
                        Started(j), [mirror EXCEPT ![j] = 1])
           ELSE job' = Started(j) /\ UNCHANGED queueVars
        /\ starting' = "none"
        /\ UNCHANGED <<settingVars, waitlist, joining, deleting>>

\* It is not the job's turn, or the transaction dies.
StartAborted ==
    /\ starting # "none"
    /\ starting' = "none"
    /\ UNCHANGED <<job, queueVars, settingVars, waitlist, joining, deleting>>

-----------------------------------------------------------------------------
(* A job goes on.  Each of these takes the job's lifecycle lock first, so  *)
(* none of them runs while the job is being started.                       *)

\* Mutated form: the row of a job being served stays open.
KeepsServing(j, status) ==
    IF j \in PaidJobs /\ row[j].status # "SERVING" THEN [row EXCEPT ![j].status = status] ELSE row

\* The queue row of a paid job is closed; a cash job has none.
Closed(j, status) == IF j \in PaidJobs THEN [row EXCEPT ![j].status = status] ELSE row

MarkJobComplete(j) ==
    /\ starting # j
    /\ job[j].status = "ONGOING"
    /\ Reindex(Closed(j, "DONE"), [job EXCEPT ![j].status = "AWAITING_CONFIRMATION"], mirror)
    /\ IF j \in PaidJobs THEN NotifyWaitlist ELSE UNCHANGED waitlist
    /\ UNCHANGED <<settingVars, requestVars>>

\* Confirmed by the seeker, or settled by an administrator after a dispute.
SettleCompletion(j) ==
    /\ starting # j
    /\ \/ job[j].status = "AWAITING_CONFIRMATION"
       \/ job[j].status \in Paused /\ job[j].before = "AWAITING_CONFIRMATION"
    /\ LET settled == [job EXCEPT ![j].status = "COMPLETED", ![j].before = "none"]
       IN  IF j \in PaidJobs THEN Reindex(Closed(j, "DONE"), settled, mirror)
                             ELSE job' = settled /\ UNCHANGED queueVars
    /\ UNCHANGED <<settingVars, waitlist, requestVars>>

\* A report, a dispute or a cancellation reservation.
PauseForCase(j) ==
    /\ starting # j
    /\ job[j].status \in {"ACCEPTED", "ONGOING", "AWAITING_CONFIRMATION"}
    /\ job' = [job EXCEPT ![j].status = "PAUSED", ![j].before = job[j].status]
    /\ UNCHANGED <<queueVars, settingVars, waitlist, requestVars>>

RestoreBooking(j) ==
    /\ starting # j
    /\ job[j].status \in Paused
    /\ job' = [job EXCEPT ![j].status = job[j].before, ![j].before = "none"]
    /\ UNCHANGED <<queueVars, settingVars, waitlist, requestVars>>

\* Canceled with or without a refund: a cash job leaves the queue alone.
CancelJob(j) ==
    /\ starting # j
    /\ job[j].status \in Live
    /\ LET canceled == [job EXCEPT ![j].status = "CANCELED", ![j].before = "none"]
       IN  IF j \in PaidJobs
           THEN Reindex(Closed(j, "CANCELLED"), canceled, mirror) /\ NotifyWaitlist
           ELSE job' = canceled /\ UNCHANGED <<queueVars, waitlist>>
    /\ UNCHANGED <<settingVars, requestVars>>

-----------------------------------------------------------------------------
(* Capacity, membership, waitlist and listings.                            *)

SetProviderWorkloadCapacity(n) ==
    /\ n # limit
    /\ limit' = n
    /\ Reindex(row, job, mirror)
    /\ UNCHANGED <<access, deleted, waitlist, requestVars>>

\* The membership expires or is bought again (external to this module).
ChangeMembership ==
    /\ access' = ~access
    /\ UNCHANGED <<job, queueVars, limit, deleted, waitlist, requestVars>>

\* joinWaitlist reads the listing and the capacity before it takes the lock.
JoinRead(s, l) ==
    /\ joining[s] = NotJoining
    /\ access /\ l \notin deleted
    /\ joining' = [joining EXCEPT ![s] = [source |-> l, limit |-> limit]]
    /\ UNCHANGED <<job, queueVars, settingVars, waitlist, starting, deleting>>

OnWaitlist(s, l) == \E i \in DOMAIN waitlist : waitlist[i] = <<l, s>>

JoinCommit(s) ==
    LET l == joining[s].source
    IN  /\ l # "none"
        /\ ~LiveJob(s, l)
        /\ ~OnWaitlist(s, l)
        /\ Cardinality(WaitingIn(row)) >= joining[s].limit
        /\ waitlist' = Append(waitlist, <<l, s>>)
        /\ joining' = [joining EXCEPT ![s] = NotJoining]
        /\ UNCHANGED <<job, queueVars, settingVars, starting, deleting>>

JoinRefused(s) ==
    /\ joining[s] # NotJoining
    /\ joining' = [joining EXCEPT ![s] = NotJoining]
    /\ UNCHANGED <<job, queueVars, settingVars, waitlist, starting, deleting>>

\* deleteServiceService looks for active work before its transaction.
DeleteCheck(l) ==
    /\ l \notin deleted \cup deleting
    /\ \A s \in Seekers : ~LiveJob(s, l)
    /\ deleting' = deleting \cup {l}
    /\ UNCHANGED <<job, queueVars, settingVars, waitlist, starting, joining>>

DeleteCommit(l) ==
    /\ l \in deleting
    /\ deleting' = deleting \ {l}
    /\ deleted' = deleted \cup {l}
    /\ waitlist' = Keeping({i \in DOMAIN waitlist : waitlist[i][1] # l})
    /\ UNCHANGED <<job, queueVars, limit, access, starting, joining>>

-----------------------------------------------------------------------------
JobStep(j) ==
    \/ StartCheck(j) \/ MarkJobComplete(j) \/ SettleCompletion(j)
    \/ PauseForCase(j) \/ RestoreBooking(j) \/ CancelJob(j)

\* A cash booking of a listing: the seeker asks, the provider answers.
DirectBooking(j) ==
    \/ \E s \in Seekers, source \in Sources : CreateCash(j, s, source)
    \/ RespondToDirectBooking(j)

Next ==
    \/ \E s \in Seekers, source \in Sources, j \in PaidJobs : Admit(j, s, source)
    \/ \E j \in CashJobs : DirectBooking(j)
    \/ \E j \in Jobs : JobStep(j)
    \/ StartCommit \/ StartAborted
    \/ \E n \in 1 .. MaxLimit : SetProviderWorkloadCapacity(n)
    \/ ChangeMembership
    \/ \E s \in Seekers : (\E l \in Listings : JoinRead(s, l)) \/ JoinCommit(s) \/ JoinRefused(s)
    \/ \E l \in Listings : DeleteCheck(l) \/ DeleteCommit(l)

Spec == Init /\ [][Next]_vars

\* A provider who keeps working: a job that can start is started in the end,
\* also when earlier tries were aborted, a running job is completed, finished
\* work is confirmed, a case that paused a job ends, and no transaction hangs.
Fairness ==
    /\ WF_vars(StartCommit \/ StartAborted)
    /\ SF_vars(StartCommit)
    /\ \A j \in PaidJobs : SF_vars(StartCheck(j))
    /\ SF_vars(\E j \in Jobs : MarkJobComplete(j))
    /\ SF_vars(\E j \in Jobs : SettleCompletion(j))
    /\ WF_vars(\E j \in Jobs : job[j].status \in Paused /\ (RestoreBooking(j) \/ CancelJob(j)))

FairSpec == Spec /\ Fairness

-----------------------------------------------------------------------------
(* Properties.                                                             *)

\* The active rows stand at 1, 2, ... with the job being served first, each
\* booking's own copy of its position agrees, and no transaction on the queue is
\* ever aborted by its unique indexes: not an admission, not a start, not a
\* closed row anywhere, nor any single update of the recalculation ("positions
\* only compress downward").
NeverCollides ==
    /\ {row[j].position : j \in ActiveIn(row)} = 1 .. Cardinality(ActiveIn(row))
    /\ \A j \in ServingIn(row) : row[j].position = 1
    /\ \A j \in ActiveIn(row) : mirror[j] = row[j].position
    /\ \A j \in ActiveIn(row), s \in {"DONE", "CANCELLED"} : IndexesHold(Closed(j, s))
    /\ \A j \in PaidJobs : row[j].status = "none" =>
          IndexesHold([row EXCEPT ![j] = [status |-> "WAITING", position |-> NextPosition, wait |-> 0]])
    /\ \A j \in WaitingIn(row) : Turn(j) =>
          IndexesHold([row EXCEPT ![j] = [status |-> "SERVING", position |-> 1, wait |-> 0]])

\* The provider works on one job at a time over all listings, paid or cash: a
\* job paused in the middle of the work still occupies the provider, so that it
\* can be restored.  The check reads other jobs before the queue is locked.
AtWork(j) == job[j].status = "ONGOING" \/ (job[j].status \in Paused /\ job[j].before = "ONGOING")
OneJobAtWork == Cardinality({j \in Jobs : AtWork(j)}) <= 1

\* A paid job is being served exactly while the provider is at work on it, and
\* waits exactly while it is agreed and not started: the booking's life and
\* the queue row's, written by six services, never come apart.
QueueFollowsBooking ==
    \A j \in PaidJobs :
        /\ row[j].status = "SERVING" <=> AtWork(j)
        /\ row[j].status = "WAITING" <=> \/ job[j].status = "ACCEPTED"
                                         \/ job[j].status \in Paused /\ job[j].before = "ACCEPTED"

\* No seeker waits for a place on a listing for which a paid booking is live:
\* a booking consumes the request, and no request is made beside a booking.
BookedNotWaitlisted ==
    \A i \in DOMAIN waitlist, j \in PaidJobs :
        job[j].status \in Live => waitlist[i] # <<job[j].source, job[j].seeker>>

\* If cases stop being opened, no paid job waits forever, neither behind other
\* paid jobs nor behind a cash job or a paused one.
EveryPaidJobServed ==
    <>[][\A j \in Jobs : job'[j].status \in Paused => job[j].status \in Paused]_vars
        => \A j \in PaidJobs : row[j].status = "WAITING" ~> row[j].status # "WAITING"

\* No waiting job is promised an earlier start than the jobs ahead allow: its
\* estimate counts every paid job before it and the job at work, cash included,
\* also when that job is paused and whatever left the queue since.
NoWaitUnderstated ==
    \A j \in WaitingIn(row) :
        row[j].wait >= Cardinality(Ahead(row, j)) + Cardinality({k \in Jobs : AtWork(k)})

\* The line that the queue rows stand for, the job under way, and the jobs that
\* have been in the queue or were started without it.
LineOf(rows) == [j \in WaitingIn(rows) |-> Ahead(rows, j)]
Underway  == {j \in Jobs : AtWork(j)}
Customers == {j \in PaidJobs : row[j].status # "none"} \cup {c \in CashJobs : job[c].started}

Service == INSTANCE Line WITH Paid <- PaidJobs, Cash <- CashJobs,
               line <- LineOf(row), atWork <- Underway, came <- Customers

\* First come, first served, whatever becomes of the others: admissions,
\* starts, cases, cancellations and capacity changes amount to a line that
\* is joined once and at its end, left from anywhere and served from its
\* front, one job at a time, with cash jobs only while nobody is in it.
ImplementsLine == Service!Spec
=============================================================================
