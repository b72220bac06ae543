--------------------------- MODULE AccountsProofs ---------------------------
(***************************************************************************)
(* Theorems about Accounts, for any number of bans and of verification     *)
(* submissions.                                                            *)
(***************************************************************************)
EXTENDS Accounts, TLAPS

-----------------------------------------------------------------------------
(* The inductive invariant                                                  *)

UserType == [exists : BOOLEAN, status : {"ACTIVE", "SUSPENDED", "BANNED"}, over : BOOLEAN,
             emailVerified : BOOLEAN,
             verification : {"UNVERIFIED", "PENDING_REVIEW", "APPROVED", "REJECTED"}]

\* A banned account has the audit entry of its ban, against which alone an
\* appeal can wait.
BanInv ==
    /\ user.status = "BANNED" => audit.banned /\ audit.bans \in Bans
    /\ ~overrun => \A k \in Bans : appeal[k] = "PENDING" => k = audit.bans

IInv == TypeOK /\ BanInv /\ BanHolds /\ AppealCanBeDecided /\ VerificationFollowsSubmissions

-----------------------------------------------------------------------------
(* What the operations write                                                *)

\* The User rows that an operation can write are well-formed; a change of the
\* moderation status leaves the rest of the row, a verification its status.
LEMMA NewUsers ==
    ASSUME TypeOK
    PROVE  /\ NewUser \in UserType
           /\ [NewUser EXCEPT !.exists = FALSE] \in UserType
           /\ user \in UserType
           /\ Suspended \in UserType /\ Suspended.status = "SUSPENDED" /\ ~Suspended.over
           /\ Banned \in UserType /\ Banned.status = "BANNED" /\ ~Banned.over
           /\ Reactivated \in UserType /\ Reactivated.status = "ACTIVE" /\ ~Reactivated.over
           /\ \A u \in {Suspended, Banned, Reactivated} :
                 u.exists = user.exists /\ u.verification = user.verification
BY DEF TypeOK, UserType, NewUser, Suspended, Banned, Reactivated

\* A penalty neither deletes nor verifies an account, and what it does to it
\* agrees with the audit log.
LEMMA Penalties ==
    ASSUME TypeOK, NEW penalty \in {"none", "suspend", "ban"}, Penalize(penalty)
    PROVE  /\ user' \in UserType /\ (user'.over => user'.status = "SUSPENDED")
           /\ audit' \in [bans : 0 .. MaxBans, banned : BOOLEAN]
           /\ user'.exists = user.exists /\ user'.verification = user.verification
           /\ \/ user'.status = user.status /\ audit' = audit
              \/ user.status = "ACTIVE" /\ user'.status = "SUSPENDED" /\ audit' = audit
              \/ /\ user.status # "BANNED" /\ user'.status = "BANNED"
                 /\ audit'.banned /\ audit'.bans \in Bans
<1> USE NewUsers
<1>1. CASE penalty = "none"
  BY <1>1 DEF Penalize, TypeOK
<1>2. CASE penalty = "suspend"
  BY <1>2 DEF Penalize, TypeOK
<1>3. CASE penalty = "ban"
  <2>1. user' = Banned /\ audit' = [bans |-> audit.bans + 1, banned |-> TRUE] /\ audit.bans < MaxBans
        /\ user.status # "BANNED"
    BY <1>3 DEF Penalize
  <2>2. audit.bans + 1 \in 1 .. MaxBans
    BY <2>1, BoundsAssumption DEF TypeOK
  <2>3. QED
    BY <2>1, <2>2 DEF Bans
<1>4. QED
  BY <1>1, <1>2, <1>3

\* The parts of TypeOK, in the next state.
LEMMA TypeParts ==
    ASSUME user' \in UserType /\ (user'.over => user'.status = "SUSPENDED"),
           audit' \in [bans : 0 .. MaxBans, banned : BOOLEAN], overrun' \in BOOLEAN,
           appeal' \in [Bans -> {"none", "PENDING", "APPROVED", "REJECTED"}],
           submission' \in [Submissions -> {"none", "PENDING_REVIEW", "APPROVED", "REJECTED"}],
           bonus' \in 0 .. 1,
           listing' \in {"none", "ACTIVE", "INACTIVE", "REMOVED"},
           content' \in {"none", "REPORT", "APPEAL"},
           booking' \in {"none", "paying", "refund", "ACCEPTED", "ONGOING", "closed"},
           report' \in BOOLEAN, lifting' \in BOOLEAN,
           deletion' \in {"none", "confirmed", "outdated"}
    PROVE  TypeOK'
BY DEF TypeOK, UserType

\* A Boolean is one.
LEMMA Booleans == TRUE \in BOOLEAN /\ FALSE \in BOOLEAN /\ \A p, q \in BOOLEAN : (p \/ q) \in BOOLEAN
OBVIOUS

\* Everything the operations write is well-formed.
LEMMA NextType == TypeOK /\ [Next]_vars => TypeOK'
<1> SUFFICES ASSUME TypeOK, [Next]_vars PROVE TypeOK'
  OBVIOUS
<1> USE NewUsers
<1> DEFINE UserOK == user' \in UserType /\ (user'.over => user'.status = "SUSPENDED")
           AuditOK == audit' \in [bans : 0 .. MaxBans, banned : BOOLEAN]
<1>a. UserOK /\ AuditOK /\ UNCHANGED <<overrun, appeal, identity, market, requests>> => TypeOK'
  BY DEF TypeOK, UserType, identity, market, requests
<1>b. UserOK /\ UNCHANGED <<moderation, identity, market, requests>> => TypeOK'
  BY DEF TypeOK, UserType, moderation, identity, market, requests
<1>c. UNCHANGED user => UserOK
  BY DEF TypeOK, UserType
<1>d. UNCHANGED audit => AuditOK
  BY DEF TypeOK
<1>1. CASE Authenticate \/ ConfirmDeletion \/ ChangeCredentials \/ RefuseDeletion
  <2>1. UNCHANGED <<user, moderation, identity, market>>
    BY <1>1 DEF Authenticate, ConfirmDeletion, ChangeCredentials, RefuseDeletion
  <2>2. lifting' \in BOOLEAN
    BY <1>1, Booleans DEF Authenticate, ConfirmDeletion, ChangeCredentials, RefuseDeletion, TypeOK
  <2>3. deletion' \in {"none", "confirmed", "outdated"}
    BY <1>1 DEF Authenticate, ConfirmDeletion, ChangeCredentials, RefuseDeletion, TypeOK
  <2>4. QED
    BY <1>c, <2>1, <2>2, <2>3, TypeParts DEF TypeOK, moderation, identity, market
<1>2. CASE LiftSuspension
  <2>1. UserOK
    BY <1>2, <1>c DEF LiftSuspension, Reactivated
  <2>2. overrun' \in BOOLEAN /\ lifting' \in BOOLEAN
    <3>1. audit.banned \in BOOLEAN /\ overrun \in BOOLEAN
      BY DEF TypeOK
    <3>2. overrun' = (overrun \/ audit.banned) \/ overrun' = overrun
      BY <1>2 DEF LiftSuspension
    <3>3. lifting' = FALSE
      BY <1>2 DEF LiftSuspension
    <3>4. QED
      BY <3>1, <3>2, <3>3, Booleans, Zenon
  <2>3. QED
    BY <1>2, <1>d, <2>1, <2>2, TypeParts DEF LiftSuspension, TypeOK, identity, market
<1>3. CASE SuspensionEnds
  <2>1. UserOK
    BY <1>3 DEF SuspensionEnds, UserType
  <2>2. QED
    BY <1>3, <1>b, <2>1 DEF SuspensionEnds
<1>4. CASE SuspendUser
  BY <1>4, <1>b DEF SuspendUser
<1>5. CASE BanUser
  BY <1>5, <1>a, Penalties DEF BanUser
<1>6. CASE RestoreUser
  <2>1. UserOK /\ AuditOK /\ appeal' \in [Bans -> {"none", "PENDING", "APPROVED", "REJECTED"}]
    BY <1>6 DEF RestoreUser, TypeOK
  <2>2. QED
    BY <1>6, <2>1 DEF RestoreUser, TypeOK, UserType, identity, market, requests
<1>7. CASE SubmitBanAppeal
  <2>1. appeal' \in [Bans -> {"none", "PENDING", "APPROVED", "REJECTED"}]
    BY <1>7 DEF SubmitBanAppeal, TypeOK
  <2>2. QED
    BY <1>7, <1>c, <1>d, <2>1, TypeParts DEF SubmitBanAppeal, TypeOK, identity, market, requests
<1>8. ASSUME NEW k \in Bans, NEW decision \in {"APPROVED", "REJECTED"}, DecideBanAppeal(k, decision)
      PROVE  TypeOK'
  <2>1. UserOK /\ AuditOK
    BY <1>8, <1>c, <1>d DEF DecideBanAppeal, TypeOK
  <2>2. QED
    BY <1>8, <2>1 DEF DecideBanAppeal, TypeOK, UserType, identity, market, requests
<1>9. CASE VerifyEmail
  <2>1. UserOK
    BY <1>9 DEF VerifyEmail, UserType, TypeOK
  <2>2. QED
    BY <1>9, <1>b, <2>1 DEF VerifyEmail
<1>10. ASSUME NEW v \in Submissions, SubmitVerification(v) PROVE TypeOK'
  <2>1. UserOK
    BY <1>10 DEF SubmitVerification, UserType, TypeOK
  <2>2. QED
    BY <1>10, <2>1 DEF SubmitVerification, TypeOK, UserType, moderation, market, requests
<1>11. ASSUME NEW v \in Submissions, NEW decision \in {"APPROVED", "REJECTED"},
              ReviewVerification(v, decision)
       PROVE  TypeOK'
  <2>1. UserOK /\ bonus' \in 0 .. 1
    BY <1>11 DEF ReviewVerification, UserType, TypeOK
  <2>2. submission' \in [Submissions -> {"none", "PENDING_REVIEW", "APPROVED", "REJECTED"}]
    BY <1>11 DEF ReviewVerification, TypeOK
  <2>3. QED
    BY <1>11, <2>1, <2>2 DEF ReviewVerification, TypeOK, UserType, moderation, market, requests
<1>12. CASE SetListing("none", "ACTIVE") \/ SetListing("ACTIVE", "INACTIVE") \/ SetListing("INACTIVE", "ACTIVE")
  BY <1>12 DEF SetListing, TypeOK, moderation, identity, requests
<1>13. ASSUME NEW type \in {"REPORT", "APPEAL"}, SubmitContentCase(type) PROVE TypeOK'
  BY <1>13 DEF SubmitContentCase, TypeOK, moderation, identity, requests
<1>14. ASSUME NEW action \in {"REMOVE", "RESTORE"}, ChangeWorkspaceContent(action) PROVE TypeOK'
  BY <1>14 DEF ChangeWorkspaceContent, ApplyPublicContentAction, TypeOK, moderation, identity, requests
<1>15. ASSUME NEW decision, NEW penalty \in {"none", "suspend", "ban"}, DecideWorkspaceCase(decision, penalty)
       PROVE  TypeOK'
  <2>1. UserOK /\ AuditOK
    BY <1>15, Penalties DEF DecideWorkspaceCase
  <2>2. listing' \in {"none", "ACTIVE", "INACTIVE", "REMOVED"}
    BY <1>15 DEF DecideWorkspaceCase, ApplyPublicContentAction, TypeOK
  <2>3. QED
    BY <1>15, <2>1, <2>2 DEF DecideWorkspaceCase, TypeOK, UserType, identity, requests
<1>16. CASE BeginCheckout \/ RefundPayment \/ StartJob \/ CloseBooking \/ CreateSafetyReport
  <2>1. UNCHANGED <<user, moderation, identity, listing, content, requests>>
    BY <1>16 DEF BeginCheckout, RefundPayment, StartJob, CloseBooking, CreateSafetyReport
  <2>2. booking' \in {"none", "paying", "refund", "ACCEPTED", "ONGOING", "closed"}
    BY <1>16 DEF BeginCheckout, RefundPayment, StartJob, CloseBooking, CreateSafetyReport, TypeOK
  <2>3. report' = report \/ report' = TRUE
    BY <1>16 DEF BeginCheckout, RefundPayment, StartJob, CloseBooking, CreateSafetyReport
  <2>4. report' \in BOOLEAN
    BY <2>3, Booleans DEF TypeOK
  <2>5. QED
    BY <1>c, <1>d, <2>1, <2>2, <2>4, TypeParts DEF TypeOK, moderation, identity, requests
<1>17. ASSUME NEW captured \in BOOLEAN, ConfirmPayment(captured) PROVE TypeOK'
  BY <1>17 DEF ConfirmPayment, TypeOK, moderation, identity, requests
<1>18. ASSUME NEW cancel \in BOOLEAN, NEW penalty \in {"none", "suspend", "ban"},
              ResolveAdminReport(cancel, penalty)
       PROVE  TypeOK'
  <2>1. UserOK /\ AuditOK
    BY <1>18, Penalties DEF ResolveAdminReport
  <2>2. /\ booking' \in {"none", "paying", "refund", "ACCEPTED", "ONGOING", "closed"} /\ report' \in BOOLEAN
        /\ UNCHANGED <<overrun, appeal, submission, bonus, listing, content, lifting, deletion>>
    BY <1>18, Booleans DEF ResolveAdminReport, TypeOK, identity, requests
  <2>3. QED
    BY <2>1, <2>2, TypeParts DEF TypeOK
<1>19. CASE DeleteOwnAccount
  <2>1. UserOK /\ AuditOK
    BY <1>19, BoundsAssumption DEF DeleteOwnAccount, NewUser
  <2>2. report' \in BOOLEAN
    BY <1>19, Booleans DEF DeleteOwnAccount
  <2>3. /\ appeal' \in [Bans -> {"none", "PENDING", "APPROVED", "REJECTED"}]
        /\ submission' \in [Submissions -> {"none", "PENDING_REVIEW", "APPROVED", "REJECTED"}]
    BY <1>19 DEF DeleteOwnAccount
  <2>4. QED
    BY <1>19, <2>1, <2>2, <2>3, TypeParts DEF DeleteOwnAccount, TypeOK
<1>20. CASE UNCHANGED vars
  BY <1>20, <1>b, <1>c DEF vars
<1>21. QED
  BY <1>1, <1>2, <1>3, <1>4, <1>5, <1>6, <1>7, <1>8, <1>9, <1>10, <1>11, <1>12, <1>13, <1>14, <1>15,
     <1>16, <1>17, <1>18, <1>19, <1>20 DEF Next

\* The steps that move the account's moderation; all others leave its status,
\* the audit log and the appeals alone.
LEMMA ModerationSteps ==
    ASSUME TypeOK, [Next]_vars
    PROVE  \/ LiftSuspension \/ RestoreUser \/ SubmitBanAppeal \/ DeleteOwnAccount
           \/ \E k \in Bans, decision \in {"APPROVED", "REJECTED"} : DecideBanAppeal(k, decision)
           \/ user'.status = user.status /\ UNCHANGED moderation
           \/ user.status = "ACTIVE" /\ user'.status = "SUSPENDED" /\ UNCHANGED moderation
           \/ /\ user.status # "BANNED" /\ user'.status = "BANNED"
              /\ audit'.banned /\ audit'.bans \in Bans /\ UNCHANGED <<overrun, appeal>>
<1> USE NewUsers
<1>1. CASE SuspendUser
  BY <1>1 DEF SuspendUser
<1>2. CASE BanUser
  BY <1>2, Penalties DEF BanUser, moderation
<1>3. CASE \E decision \in {"KEEP", "REMOVE", "RESTORE", "KEEP_REMOVED", "GUIDANCE"},
              penalty \in {"none", "suspend", "ban"} : DecideWorkspaceCase(decision, penalty)
  BY <1>3, Penalties DEF DecideWorkspaceCase, moderation
<1>4. CASE \E cancel \in BOOLEAN, penalty \in {"none", "suspend", "ban"} : ResolveAdminReport(cancel, penalty)
  BY <1>4, Penalties DEF ResolveAdminReport, moderation
<1>5. CASE SuspensionEnds \/ VerifyEmail
  BY <1>5 DEF SuspensionEnds, VerifyEmail, UserType
<1>6. CASE (\E v \in Submissions : SubmitVerification(v))
           \/ (\E v \in Submissions, decision \in {"APPROVED", "REJECTED"} : ReviewVerification(v, decision))
  BY <1>6 DEF SubmitVerification, ReviewVerification, UserType
<1>7. CASE UNCHANGED <<user, moderation>>
  BY <1>7
<1>8. QED
  BY <1>1, <1>2, <1>3, <1>4, <1>5, <1>6, <1>7
  DEF Next, vars, Authenticate, SetListing, SubmitContentCase, ChangeWorkspaceContent, BeginCheckout,
      RefundPayment, StartJob, CloseBooking, CreateSafetyReport, ConfirmPayment, ConfirmDeletion,
      ChangeCredentials, RefuseDeletion

\* The steps that move its verification.
LEMMA VerificationSteps ==
    ASSUME TypeOK, [Next]_vars
    PROVE  \/ DeleteOwnAccount
           \/ \E v \in Submissions : SubmitVerification(v)
           \/ \E v \in Submissions, decision \in {"APPROVED", "REJECTED"} : ReviewVerification(v, decision)
           \/ user'.verification = user.verification /\ UNCHANGED identity
<1> USE NewUsers
<1>1. CASE LiftSuspension \/ SuspensionEnds \/ SuspendUser \/ RestoreUser \/ VerifyEmail
           \/ \E k \in Bans, decision \in {"APPROVED", "REJECTED"} : DecideBanAppeal(k, decision)
  BY <1>1, ZenonT(60) DEF LiftSuspension, SuspensionEnds, SuspendUser, RestoreUser, VerifyEmail, DecideBanAppeal, UserType
<1>2. CASE BanUser
  BY <1>2, Penalties DEF BanUser
<1>3. CASE \E decision \in {"KEEP", "REMOVE", "RESTORE", "KEEP_REMOVED", "GUIDANCE"},
              penalty \in {"none", "suspend", "ban"} : DecideWorkspaceCase(decision, penalty)
  BY <1>3, Penalties DEF DecideWorkspaceCase
<1>4. CASE \E cancel \in BOOLEAN, penalty \in {"none", "suspend", "ban"} : ResolveAdminReport(cancel, penalty)
  BY <1>4, Penalties DEF ResolveAdminReport
<1>5. CASE UNCHANGED <<user, identity>>
  BY <1>5
<1>6. QED
  BY <1>1, <1>2, <1>3, <1>4, <1>5
  DEF Next, vars, Authenticate, SubmitBanAppeal, SetListing, SubmitContentCase, ChangeWorkspaceContent,
      BeginCheckout, RefundPayment, StartJob, CloseBooking, CreateSafetyReport, ConfirmPayment,
      ConfirmDeletion, ChangeCredentials, RefuseDeletion

-----------------------------------------------------------------------------
(* Bans, appeals and verification                                           *)

\* Only a decision, or a suspension lifted by a request that read it before,
\* ends a ban; a decision settles the appeal that waits, and a new ban finds
\* none waiting.
LEMMA NextBans ==
    ASSUME TypeOK, BanInv, BanHolds, AppealCanBeDecided, [Next]_vars
    PROVE  (BanInv /\ BanHolds /\ AppealCanBeDecided)'
<1> USE NewUsers
<1>1. CASE LiftSuspension
  BY <1>1 DEF LiftSuspension, Reactivated, BanInv, BanHolds, AppealCanBeDecided
<1>2. CASE RestoreUser
  <2>1. \A k \in Bans : appeal'[k] # "PENDING"
    BY <1>2 DEF RestoreUser
  <2>2. user'.status = "ACTIVE" /\ ~audit'.banned
    BY <1>2 DEF RestoreUser, TypeOK
  <2>3. QED
    BY <2>1, <2>2 DEF BanInv, BanHolds, AppealCanBeDecided
<1>3. CASE SubmitBanAppeal
  BY <1>3 DEF SubmitBanAppeal, BanInv, BanHolds, AppealCanBeDecided, TypeOK
<1>4. ASSUME NEW k \in Bans, NEW decision \in {"APPROVED", "REJECTED"}, DecideBanAppeal(k, decision)
      PROVE  (BanInv /\ BanHolds /\ AppealCanBeDecided)'
  <2>1. \A j \in Bans : appeal'[j] = "PENDING" => j # k /\ appeal[j] = "PENDING"
    BY <1>4 DEF DecideBanAppeal, TypeOK
  <2>2. ~overrun => \A j \in Bans : appeal'[j] # "PENDING"
    BY <1>4, <2>1 DEF DecideBanAppeal, BanInv
  <2>3. overrun' = overrun
    BY <1>4 DEF DecideBanAppeal
  <2>4. CASE decision = "APPROVED"
    <3>1. user'.status = "ACTIVE" /\ ~audit'.banned
      BY <1>4, <2>4 DEF DecideBanAppeal, TypeOK
    <3>2. QED
      BY <2>2, <2>3, <3>1 DEF BanInv, BanHolds, AppealCanBeDecided
  <2>5. CASE decision = "REJECTED"
    <3>1. UNCHANGED <<user, audit>>
      BY <1>4, <2>5 DEF DecideBanAppeal
    <3>2. QED
      BY <2>2, <2>3, <3>1 DEF BanInv, BanHolds, AppealCanBeDecided
  <2>6. QED
    BY <2>4, <2>5
<1>5. CASE DeleteOwnAccount
  BY <1>5 DEF DeleteOwnAccount, NewUser, BanInv, BanHolds, AppealCanBeDecided
<1>6. CASE user'.status = user.status /\ UNCHANGED moderation
  BY <1>6 DEF moderation, BanInv, BanHolds, AppealCanBeDecided
<1>7. CASE user.status = "ACTIVE" /\ user'.status = "SUSPENDED" /\ UNCHANGED moderation
  BY <1>7 DEF moderation, BanInv, BanHolds, AppealCanBeDecided
<1>8. CASE /\ user.status # "BANNED" /\ user'.status = "BANNED"
           /\ audit'.banned /\ audit'.bans \in Bans /\ UNCHANGED <<overrun, appeal>>
  BY <1>8 DEF BanInv, BanHolds, AppealCanBeDecided
<1>9. QED
  BY <1>1, <1>2, <1>3, <1>4, <1>5, <1>6, <1>7, <1>8, ModerationSteps

\* A submission is opened when none waits, and deciding it settles every one.
LEMMA NextVerification ==
    ASSUME TypeOK, VerificationFollowsSubmissions, [Next]_vars
    PROVE  VerificationFollowsSubmissions'
<1> USE NewUsers DEF Pending
<1>1. CASE DeleteOwnAccount
  BY <1>1 DEF DeleteOwnAccount, NewUser, VerificationFollowsSubmissions
<1>2. ASSUME NEW v \in Submissions, SubmitVerification(v) PROVE VerificationFollowsSubmissions'
  <2>1. user'.verification = "PENDING_REVIEW" /\ bonus' = bonus
    BY <1>2 DEF SubmitVerification, UserType
  <2>2. \A w \in Submissions : submission'[w] = IF w = v THEN "PENDING_REVIEW" ELSE submission[w]
    BY <1>2 DEF SubmitVerification, TypeOK
  <2>3. \A w \in Submissions : submission[w] \notin {"PENDING_REVIEW", "APPROVED"}
    BY <1>2 DEF SubmitVerification, VerificationFollowsSubmissions
  <2>4. bonus # 1
    BY <1>2 DEF SubmitVerification, VerificationFollowsSubmissions
  <2>5. QED
    BY <2>1, <2>2, <2>3, <2>4 DEF VerificationFollowsSubmissions
<1>3. ASSUME NEW v \in Submissions, NEW decision \in {"APPROVED", "REJECTED"},
             ReviewVerification(v, decision)
      PROVE  VerificationFollowsSubmissions'
  <2>1. user'.verification = decision
    BY <1>3 DEF ReviewVerification, UserType
  <2>2. bonus' = IF decision = "APPROVED" THEN 1 ELSE bonus
    BY <1>3 DEF ReviewVerification
  <2>3. \A w \in Submissions : submission'[w] =
             IF w = v THEN decision ELSE IF w \in Pending THEN "REJECTED" ELSE submission[w]
    BY <1>3 DEF ReviewVerification
  <2>4. bonus # 1 /\ \A w \in Submissions : submission[w] # "APPROVED"
    BY <1>3 DEF ReviewVerification, VerificationFollowsSubmissions
  <2>5. QED
    BY <2>1, <2>2, <2>3, <2>4 DEF VerificationFollowsSubmissions
<1>4. CASE user'.verification = user.verification /\ UNCHANGED identity
  BY <1>4 DEF identity, VerificationFollowsSubmissions
<1>5. QED
  BY <1>1, <1>2, <1>3, <1>4, VerificationSteps

-----------------------------------------------------------------------------
(* Every reachable state                                                    *)

\* A new account satisfies the invariant.
LEMMA InitInv == Init => IInv
<1> SUFFICES ASSUME Init PROVE IInv
  OBVIOUS
<1>1. TypeOK
  <2>1. user \in UserType /\ ~user.over
    BY DEF Init, NewUser, UserType
  <2>2. audit \in [bans : 0 .. MaxBans, banned : BOOLEAN]
    BY BoundsAssumption DEF Init
  <2>3. overrun \in BOOLEAN /\ report \in BOOLEAN /\ lifting \in BOOLEAN
    BY Booleans DEF Init
  <2>4. /\ appeal \in [Bans -> {"none", "PENDING", "APPROVED", "REJECTED"}]
        /\ submission \in [Submissions -> {"none", "PENDING_REVIEW", "APPROVED", "REJECTED"}]
    BY DEF Init
  <2>5. QED
    BY <2>1, <2>2, <2>3, <2>4 DEF Init, TypeOK, UserType
<1>2. BanInv /\ BanHolds /\ AppealCanBeDecided
  BY DEF Init, NewUser, BanInv, BanHolds, AppealCanBeDecided
<1>3. VerificationFollowsSubmissions
  BY DEF Init, NewUser, VerificationFollowsSubmissions, Pending
<1>4. QED
  BY <1>1, <1>2, <1>3 DEF IInv

\* The invariant holds in every reachable state of an account.
THEOREM Invariance == Spec => []IInv
<1>1. IInv /\ [Next]_vars => IInv'
  BY NextType, NextBans, NextVerification DEF IInv
<1>2. QED
  BY <1>1, InitInv, PTL DEF Spec

\* Every row of the account stays well-formed, and only a suspended account has
\* a date at which its suspension ends.
THEOREM TypeCorrect == Spec => []TypeOK
<1>1. IInv => TypeOK
  BY DEF IInv
<1>2. QED
  BY <1>1, Invariance, PTL

\* However many bans are decided, a ban stands until an administrator ends it,
\* as long as authenticate has not lifted a suspension it read before the ban.
THEOREM BansHold == Spec => []BanHolds
<1>1. IInv => BanHolds
  BY DEF IInv
<1>2. QED
  BY <1>1, Invariance, PTL

\* restoreUser and decideBanAppeal leave no appeal of an earlier ban waiting.
THEOREM AppealsDecidable == Spec => []AppealCanBeDecided
<1>1. IInv => AppealCanBeDecided
  BY DEF IInv
<1>2. QED
  BY <1>1, Invariance, PTL

\* The status that gates the marketplace is that of the submissions, however
\* often the account submits and whichever of them the review names.
THEOREM VerificationFollows == Spec => []VerificationFollowsSubmissions
<1>1. IInv => VerificationFollowsSubmissions
  BY DEF IInv
<1>2. QED
  BY <1>1, Invariance, PTL

\* The deletion checks what the account owes in the transaction that purges it,
\* and nothing else removes an account.
THEOREM DeletionOwesNothing == Spec => DeletedOwesNothing
<1>1. ASSUME TypeOK, [Next]_vars, user.exists, ~user'.exists
      PROVE  /\ booking \notin {"paying", "refund", "ACCEPTED", "ONGOING"}
             /\ ~report /\ content = "none"
             /\ \A k \in Bans : appeal[k] # "PENDING"
  <2> USE NewUsers
  <2>1. CASE DeleteOwnAccount
    BY <2>1 DEF DeleteOwnAccount, DeletionEligibility
  <2>2. user'.exists = user.exists \/ DeleteOwnAccount
    <3>1. CASE \/ LiftSuspension \/ SuspensionEnds \/ SuspendUser \/ RestoreUser \/ VerifyEmail
               \/ \E k \in Bans, decision \in {"APPROVED", "REJECTED"} : DecideBanAppeal(k, decision)
               \/ \E v \in Submissions : SubmitVerification(v)
               \/ \E v \in Submissions, decision \in {"APPROVED", "REJECTED"} : ReviewVerification(v, decision)
      BY <1>1, <3>1, ZenonT(60) DEF LiftSuspension, SuspensionEnds, SuspendUser, RestoreUser, VerifyEmail,
         DecideBanAppeal, SubmitVerification, ReviewVerification, UserType
    <3>2. CASE BanUser
      BY <1>1, <3>2, Penalties DEF BanUser
    <3>3. CASE \E decision \in {"KEEP", "REMOVE", "RESTORE", "KEEP_REMOVED", "GUIDANCE"},
                  penalty \in {"none", "suspend", "ban"} : DecideWorkspaceCase(decision, penalty)
      BY <1>1, <3>3, Penalties DEF DecideWorkspaceCase
    <3>4. CASE \E cancel \in BOOLEAN, penalty \in {"none", "suspend", "ban"} : ResolveAdminReport(cancel, penalty)
      BY <1>1, <3>4, Penalties DEF ResolveAdminReport
    <3>5. CASE UNCHANGED user
      BY <3>5
    <3>6. QED
      BY <1>1, <3>1, <3>2, <3>3, <3>4, <3>5
      DEF Next, vars, Authenticate, SubmitBanAppeal, SetListing, SubmitContentCase,
          ChangeWorkspaceContent, BeginCheckout, RefundPayment, StartJob, CloseBooking,
          CreateSafetyReport, ConfirmPayment, ConfirmDeletion, ChangeCredentials, RefuseDeletion
  <2>3. QED
    BY <1>1, <2>1, <2>2
<1>2. TypeOK /\ [Next]_vars =>
        [user.exists /\ ~user'.exists =>
           /\ booking \notin {"paying", "refund", "ACCEPTED", "ONGOING"}
           /\ ~report /\ content = "none"
           /\ \A k \in Bans : appeal[k] # "PENDING"]_vars
  BY <1>1
<1>3. QED
  BY <1>2, TypeCorrect, PTL DEF Spec, DeletedOwesNothing
=============================================================================
