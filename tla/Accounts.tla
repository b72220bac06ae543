------------------------------ MODULE Accounts ------------------------------
(***************************************************************************)
(* One marketplace account: its suspensions, bans and ban appeals, its     *)
(* residency verification, the content case about its listing, and its     *)
(* deletion by the owner.                                                  *)
(*                                                                         *)
(* Every transaction below holds the account's lifecycle lock or the       *)
(* verification lock and is one action.  Two requests do not: authenticate *)
(* reads the account and lifts a finished suspension in a second           *)
(* statement, and the deletion confirms the owner's identity before it     *)
(* locks anything.  What these read stays in lifting and deletion until    *)
(* the step that uses it.  The account's sessions and credentials are in   *)
(* Sessions; here only whether the deleting session is still open and      *)
(* whether the credentials changed since they were confirmed.              *)
(***************************************************************************)
EXTENDS Naturals

CONSTANTS
    MaxBans,        \* bound: ban decisions
    MaxSubmissions  \* bound: verification submissions

ASSUME BoundsAssumption == MaxBans \in Nat \ {0} /\ MaxSubmissions \in Nat \ {0}

VARIABLES
    user,           \* the User row
    audit,          \* AdminAuditLog: bans decided, whether the last one still stands
    overrun,        \* ghost: authenticate has activated a banned account
    appeal,         \* BanAppeal row of each ban
    submission,     \* ServiceVerification rows, in the order they were submitted
    bonus,          \* TrustScoreEvent rows for the approved verification
    listing, content,   \* the account's listing; the open case about it
    booking, report,    \* the account's booking; whether a report about it is open
    lifting,        \* a request read a suspension that is over
    deletion        \* the deletion request in progress

moderation == <<audit, overrun, appeal>>
identity   == <<submission, bonus>>
market     == <<listing, content, booking, report>>
requests   == <<lifting, deletion>>
vars == <<user, moderation, identity, market, requests>>

Bans        == 1 .. MaxBans
Submissions == 1 .. MaxSubmissions

\* Every variable stays within its type, and only a suspended account has a date
\* at which its suspension ends.
TypeOK ==
    /\ user \in [exists : BOOLEAN, status : {"ACTIVE", "SUSPENDED", "BANNED"}, over : BOOLEAN,
                 emailVerified : BOOLEAN,
                 verification : {"UNVERIFIED", "PENDING_REVIEW", "APPROVED", "REJECTED"}]
    /\ user.over => user.status = "SUSPENDED"
    /\ audit \in [bans : 0 .. MaxBans, banned : BOOLEAN] /\ overrun \in BOOLEAN
    /\ appeal \in [Bans -> {"none", "PENDING", "APPROVED", "REJECTED"}]
    /\ submission \in [Submissions -> {"none", "PENDING_REVIEW", "APPROVED", "REJECTED"}]
    /\ bonus \in 0 .. 1
    /\ listing \in {"none", "ACTIVE", "INACTIVE", "REMOVED"}
    /\ content \in {"none", "REPORT", "APPEAL"}
    /\ booking \in {"none", "paying", "refund", "ACCEPTED", "ONGOING", "closed"}
    /\ report \in BOOLEAN /\ lifting \in BOOLEAN
    /\ deletion \in {"none", "confirmed", "outdated"}

NewUser == [exists |-> TRUE, status |-> "ACTIVE", over |-> FALSE, emailVerified |-> FALSE,
            verification |-> "UNVERIFIED"]

Init ==
    /\ user = NewUser /\ audit = [bans |-> 0, banned |-> FALSE] /\ overrun = FALSE
    /\ appeal = [k \in Bans |-> "none"]
    /\ submission = [v \in Submissions |-> "none"] /\ bonus = 0
    /\ listing = "none" /\ content = "none" /\ booking = "none" /\ report = FALSE
    /\ lifting = FALSE /\ deletion = "none"

\* assertActiveMarketplaceAccount
Active == user.exists /\ user.status = "ACTIVE"

\* marketplaceParticipantsEligible, of this participant
Eligible == Active /\ user.emailVerified /\ user.verification = "APPROVED"

-----------------------------------------------------------------------------
(* Authentication and moderation *)

\* Any request of an account whose suspension is over.
Authenticate ==
    /\ user.exists /\ user.status = "SUSPENDED" /\ user.over
    /\ lifting' = TRUE
    /\ UNCHANGED <<user, moderation, identity, market, deletion>>

\* The update by id that follows; it fails when the account is gone.
LiftSuspension ==
    /\ lifting
    /\ lifting' = FALSE
    /\ IF user.exists
       THEN /\ user' = [user EXCEPT !.status = "ACTIVE", !.over = FALSE]
            /\ overrun' = (overrun \/ audit.banned)
       ELSE UNCHANGED <<user, overrun>>
    /\ UNCHANGED <<audit, appeal, identity, market, deletion>>

\* Time passes.
SuspensionEnds ==
    /\ user.status = "SUSPENDED"
    /\ user' = [user EXCEPT !.over = TRUE]
    /\ UNCHANGED <<moderation, identity, market, requests>>

Suspended == [user EXCEPT !.status = "SUSPENDED", !.over = FALSE]

Banned == [user EXCEPT !.status = "BANNED", !.over = FALSE]

Reactivated == [user EXCEPT !.status = "ACTIVE", !.over = FALSE]

\* What an administrator's penalty does to the account: nothing, a suspension of
\* an active account, or a ban with its audit entry.
Penalize(penalty) ==
    \/ penalty = "none" /\ UNCHANGED <<user, audit>>
    \/ /\ penalty = "suspend" /\ user.status = "ACTIVE" /\ booking # "ACCEPTED"
       /\ user' = Suspended /\ UNCHANGED audit
    \/ /\ penalty = "ban" /\ user.status # "BANNED" /\ audit.bans < MaxBans
       /\ user' = Banned /\ audit' = [bans |-> audit.bans + 1, banned |-> TRUE]

\* Mutated form: a banned account can be suspended, which ends the ban with the
\* suspension.
SuspendUserAlways ==
    /\ user.exists
    /\ user' = Suspended
    /\ UNCHANGED <<moderation, identity, market, requests>>

SuspendUser ==
    /\ user.exists /\ user.status = "ACTIVE"
    /\ user' = Suspended
    /\ UNCHANGED <<moderation, identity, market, requests>>

BanUser ==
    /\ user.exists /\ Penalize("ban")
    /\ UNCHANGED <<overrun, appeal, identity, market, requests>>

\* Mutated form: the pending appeal is left open.
RestoreUserOnly ==
    /\ user.exists /\ user.status # "ACTIVE"
    /\ user' = Reactivated
    /\ audit' = [audit EXCEPT !.banned = FALSE]
    /\ UNCHANGED <<overrun, appeal, identity, market, requests>>

RestoreUser ==
    /\ user.exists /\ user.status # "ACTIVE"
    /\ user' = Reactivated
    /\ audit' = [audit EXCEPT !.banned = FALSE]
    /\ appeal' = [k \in Bans |-> IF appeal[k] = "PENDING" THEN "APPROVED" ELSE appeal[k]]
    /\ UNCHANGED <<overrun, identity, market, requests>>

\* One appeal per audit entry, while the account is banned.
SubmitBanAppeal ==
    /\ user.exists /\ user.status = "BANNED"
    /\ appeal[audit.bans] = "none"
    /\ appeal' = [appeal EXCEPT ![audit.bans] = "PENDING"]
    /\ UNCHANGED <<user, audit, overrun, identity, market, requests>>

DecideBanAppeal(k, decision) ==
    /\ user.exists /\ appeal[k] = "PENDING" /\ user.status = "BANNED"
    /\ appeal' = [appeal EXCEPT ![k] = decision]
    /\ IF decision = "APPROVED"
       THEN user' = Reactivated /\ audit' = [audit EXCEPT !.banned = FALSE]
       ELSE UNCHANGED <<user, audit>>
    /\ UNCHANGED <<overrun, identity, market, requests>>

-----------------------------------------------------------------------------
(* Verification *)

VerifyEmail ==
    /\ user.exists /\ ~user.emailVerified
    /\ user' = [user EXCEPT !.emailVerified = TRUE]
    /\ UNCHANGED <<moderation, identity, market, requests>>

Pending == {v \in Submissions : submission[v] = "PENDING_REVIEW"}

NextSubmission(v) == submission[v] = "none" /\ \A w \in 1 .. v - 1 : submission[w] # "none"

\* Mutated form: an approved account can submit again.
SubmitVerificationAgain(v) ==
    /\ user.exists /\ user.status # "BANNED" /\ user.emailVerified
    /\ Pending = {} /\ NextSubmission(v)
    /\ submission' = [submission EXCEPT ![v] = "PENDING_REVIEW"]
    /\ user' = [user EXCEPT !.verification = "PENDING_REVIEW"]
    /\ UNCHANGED <<moderation, bonus, market, requests>>

\* A pending submission is returned as it is.
SubmitVerification(v) ==
    /\ user.exists /\ user.status # "BANNED" /\ user.emailVerified
    /\ user.verification # "APPROVED" /\ Pending = {} /\ NextSubmission(v)
    /\ submission' = [submission EXCEPT ![v] = "PENDING_REVIEW"]
    /\ user' = [user EXCEPT !.verification = "PENDING_REVIEW"]
    /\ UNCHANGED <<moderation, bonus, market, requests>>

\* Only the latest pending submission, once; an approval is rewarded under a key
\* of the account, so one reward exists at most.
ReviewVerification(v, decision) ==
    /\ user.exists /\ v \in Pending /\ \A w \in Pending : w <= v
    /\ user.verification # "APPROVED"
    /\ submission' = [w \in Submissions |-> IF w = v THEN decision
                                            ELSE IF w \in Pending THEN "REJECTED" ELSE submission[w]]
    /\ user' = [user EXCEPT !.verification = decision]
    /\ bonus' = IF decision = "APPROVED" THEN 1 ELSE bonus
    /\ UNCHANGED <<moderation, market, requests>>

-----------------------------------------------------------------------------
(* What the account owes: its listing, its booking as a provider, their cases *)

SetListing(from, to) ==
    /\ Eligible /\ listing = from
    /\ listing' = to
    /\ UNCHANGED <<user, moderation, identity, content, booking, report, requests>>

\* A public listing is reported, or its removal appealed by the owner.
SubmitContentCase(type) ==
    /\ content = "none" /\ Active
    /\ \/ type = "REPORT" /\ listing = "ACTIVE"
       \/ type = "APPEAL" /\ listing = "REMOVED"
    /\ content' = type
    /\ UNCHANGED <<user, moderation, identity, listing, booking, report, requests>>

ApplyPublicContentAction(action) ==
    \/ action = "REMOVE" /\ listing \in {"ACTIVE", "INACTIVE"} /\ listing' = "REMOVED"
    \/ action = "RESTORE" /\ listing = "REMOVED" /\ Eligible /\ listing' = "ACTIVE"

\* An administrator removes or restores the listing outside a case.
ChangeWorkspaceContent(action) ==
    /\ user.exists /\ ApplyPublicContentAction(action)
    /\ UNCHANGED <<user, moderation, identity, content, booking, report, requests>>

DecideWorkspaceCase(decision, penalty) ==
    /\ user.exists /\ content # "none"
    /\ listing = "none" => decision = "GUIDANCE"
    /\ decision = "GUIDANCE" \/ content = "APPEAL" => penalty = "none"
    /\ content = "APPEAL" => decision \notin {"REMOVE", "KEEP"}
    /\ content = "REPORT" => decision # "RESTORE"
    /\ decision = "KEEP_REMOVED" => listing = "REMOVED"
    /\ IF decision \in {"REMOVE", "RESTORE"} THEN ApplyPublicContentAction(decision)
       ELSE UNCHANGED listing
    /\ Penalize(penalty)
    /\ content' = "none"
    /\ UNCHANGED <<overrun, appeal, identity, booking, report, requests>>

\* A seeker's checkout begins, under the locks of both accounts.
BeginCheckout ==
    /\ booking \in {"none", "closed"} /\ listing = "ACTIVE" /\ Eligible
    /\ booking' = "paying"
    /\ UNCHANGED <<user, moderation, identity, listing, content, report, requests>>

\* The payment is captured: a booking, or a refund when the provider may no longer
\* work; or the attempt ends without one.
ConfirmPayment(captured) ==
    /\ user.exists /\ booking = "paying"
    /\ booking' = IF ~captured THEN "closed" ELSE IF Eligible THEN "ACCEPTED" ELSE "refund"
    /\ UNCHANGED <<user, moderation, identity, listing, content, report, requests>>

RefundPayment ==
    /\ booking = "refund"
    /\ booking' = "closed"
    /\ UNCHANGED <<user, moderation, identity, listing, content, report, requests>>

StartJob ==
    /\ Active /\ booking = "ACCEPTED" /\ ~report
    /\ booking' = "ONGOING"
    /\ UNCHANGED <<user, moderation, identity, listing, content, report, requests>>

CloseBooking ==
    /\ booking \in {"ACCEPTED", "ONGOING"} /\ ~report
    /\ booking' = "closed"
    /\ UNCHANGED <<user, moderation, identity, listing, content, report, requests>>

\* The seeker reports the provider; a closed booking can be reported, too.
CreateSafetyReport ==
    /\ user.exists /\ booking \in {"ACCEPTED", "ONGOING", "closed"} /\ ~report
    /\ report' = TRUE
    /\ UNCHANGED <<user, moderation, identity, listing, content, booking, requests>>

\* The report is decided: the booking goes on or is canceled, and a penalty the
\* account can no longer receive is dropped.
ResolveAdminReport(cancel, penalty) ==
    /\ report
    /\ Penalize(penalty)
    /\ report' = FALSE
    /\ booking' = IF cancel THEN "closed" ELSE booking
    /\ UNCHANGED <<overrun, appeal, identity, listing, content, requests>>

-----------------------------------------------------------------------------
(* Deletion by the owner *)

\* The account is read and the password or the Google account confirmed.
ConfirmDeletion ==
    /\ user.exists /\ user.status # "BANNED" /\ deletion = "none"
    /\ deletion' = "confirmed"
    /\ UNCHANGED <<user, moderation, identity, market, lifting>>

\* The password, the e-mail address or the session changes meanwhile.
ChangeCredentials ==
    /\ deletion = "confirmed"
    /\ deletion' = "outdated"
    /\ UNCHANGED <<user, moderation, identity, market, lifting>>

\* Mutated form: only bookings block a deletion.
EligibleWithoutBookings == booking \notin {"ACCEPTED", "ONGOING"}

\* getDeletionEligibilityInTransaction
DeletionEligibility ==
    /\ listing # "ACTIVE" /\ booking \in {"none", "closed"} /\ ~report
    /\ content = "none" /\ \A k \in Bans : appeal[k] # "PENDING"

\* Everything is purged in one transaction, the account last.
DeleteOwnAccount ==
    /\ user.exists /\ deletion = "confirmed" /\ DeletionEligibility
    /\ user' = [NewUser EXCEPT !.exists = FALSE]
    /\ audit' = [bans |-> 0, banned |-> FALSE] /\ UNCHANGED overrun
    /\ appeal' = [k \in Bans |-> "none"]
    /\ submission' = [v \in Submissions |-> "none"] /\ bonus' = 0
    /\ listing' = "none" /\ content' = "none" /\ booking' = "none" /\ report' = FALSE
    /\ deletion' = "none" /\ UNCHANGED lifting

\* The account changed or something blocks its deletion.
RefuseDeletion ==
    /\ deletion # "none"
    /\ deletion = "outdated" \/ ~user.exists \/ ~DeletionEligibility
    /\ deletion' = "none"
    /\ UNCHANGED <<user, moderation, identity, market, lifting>>

Next ==
    \/ Authenticate \/ LiftSuspension \/ SuspensionEnds
    \/ SuspendUser \/ BanUser \/ RestoreUser
    \/ SubmitBanAppeal
    \/ \E k \in Bans, decision \in {"APPROVED", "REJECTED"} : DecideBanAppeal(k, decision)
    \/ VerifyEmail
    \/ \E v \in Submissions : SubmitVerification(v)
    \/ \E v \in Submissions, decision \in {"APPROVED", "REJECTED"} : ReviewVerification(v, decision)
    \/ SetListing("none", "ACTIVE") \/ SetListing("ACTIVE", "INACTIVE")
    \/ SetListing("INACTIVE", "ACTIVE")
    \/ \E type \in {"REPORT", "APPEAL"} : SubmitContentCase(type)
    \/ \E action \in {"REMOVE", "RESTORE"} : ChangeWorkspaceContent(action)
    \/ \E decision \in {"KEEP", "REMOVE", "RESTORE", "KEEP_REMOVED", "GUIDANCE"},
          penalty \in {"none", "suspend", "ban"} : DecideWorkspaceCase(decision, penalty)
    \/ BeginCheckout \/ RefundPayment \/ StartJob \/ CloseBooking \/ CreateSafetyReport
    \/ \E captured \in BOOLEAN : ConfirmPayment(captured)
    \/ \E cancel \in BOOLEAN, penalty \in {"none", "suspend", "ban"} :
          ResolveAdminReport(cancel, penalty)
    \/ ConfirmDeletion \/ ChangeCredentials \/ DeleteOwnAccount \/ RefuseDeletion

Spec == Init /\ [][Next]_vars

-----------------------------------------------------------------------------
(* Properties *)

\* Nothing but an administrator's decision ends a ban, whatever suspensions came
\* before it, except that authenticate overruns it with the suspension it read
\* before: auth.middleware.ts:94-107 against users.controller.ts:158.
BanHolds == audit.banned /\ ~overrun => user.status = "BANNED"

\* An appeal waits only while the ban it is against stands: a decision on it is
\* still possible, and it does not block the deletion of a restored account
\* forever, unless authenticate overran a ban: users.controller.ts:187-188,
\* admin/ban-appeals.controller.ts:48.
AppealCanBeDecided ==
    (\E k \in Bans : appeal[k] = "PENDING") /\ ~overrun => user.status = "BANNED"

\* The account's status is that of its submissions, at most one of which waits,
\* and the reward goes with the approval: verification.service.ts:58-80, 179-203.
VerificationFollowsSubmissions ==
    /\ user.verification = "PENDING_REVIEW" <=> Pending # {}
    /\ user.verification = "APPROVED" <=> \E v \in Submissions : submission[v] = "APPROVED"
    /\ user.verification = "APPROVED" <=> bonus = 1
    /\ \A v, w \in Pending : v = w

\* Only an account that owes nothing is deleted: no payment is on its way or to
\* be returned, nobody waits for its work or for a decision about it, although
\* the owner confirmed the deletion at an earlier time:
\* account-deletion.service.ts:30-64, 143-154.
DeletedOwesNothing ==
    [][user.exists /\ ~user'.exists =>
         /\ booking \notin {"paying", "refund", "ACCEPTED", "ONGOING"}
         /\ ~report /\ content = "none"
         /\ \A k \in Bans : appeal[k] # "PENDING"]_vars
=============================================================================
