------------------------------ MODULE Sessions ------------------------------
(***************************************************************************)
(* One account: how it is created and signed in to, its refresh-token rows *)
(* (the sessions), its password and its reset links, its connected Google  *)
(* account and its sockets.  Of the account's moderation only the ban      *)
(* matters here: every check of this code lets a suspended account through *)
(* like an active one.  Suspensions and appeals are in Accounts.           *)
(*                                                                         *)
(* A request runs in a slot of Calls.  What it reads without a lock stays  *)
(* in its record until the statement or transaction that uses it, which is *)
(* an action of its own; a transaction that rechecks under the account and *)
(* session locks is one action, and one whose recheck fails only frees its *)
(* slot (GiveUp).  A bcrypt hash is the number of times the password was   *)
(* set, so two hashes are equal exactly when no change came between them.  *)
(* A restart of the server drops every request and every socket.           *)
(***************************************************************************)
EXTENDS Naturals, FiniteSets

CONSTANTS
    Sids,           \* RefreshToken rows that can be created
    Links,          \* PasswordResetToken rows that can be created
    Subjects,       \* Google accounts that hold the account's e-mail address
    Calls,          \* requests in progress at once
    MaxHash,        \* bound: no request to set a password begins once it was set so often
    MaxToken        \* bound: no refresh begins once a session had so many tokens

ASSUME BoundsAssumption == MaxHash \in Nat \ {0} /\ MaxToken \in Nat \ {0}
ASSUME NamesAssumption  == "none" \notin Sids \cup Links \cup Subjects

VARIABLES
    user,           \* the User row
    session,        \* RefreshToken rows
    heirs,          \* ghost: tokens issued in exchange for each token of a session
    link,           \* PasswordResetToken rows; resets counts the passwords it set
    sockets, late,  \* sessions with a socket; ghost: those joined after losing access
    call            \* requests in progress

rows == <<user, session, heirs, link>>
live == <<sockets, late>>
vars == <<rows, live, call>>

PasswordStates == {"NONE", "LEGACY_UNCONFIRMED", "SET"}
Ops == {"idle", "register", "googleCreate", "link", "issue", "issuePassword", "rotate",
        "forgot", "reset", "change", "challenge", "grant", "handshake",
        "kickUser", "kickOthers", "kickSession"}

NoUser    == [exists |-> FALSE, hash |-> 0, passwordState |-> "NONE", google |-> "none",
              banned |-> FALSE, emailVerified |-> FALSE]
NoSession == [state |-> "none", token |-> 0, hash |-> 0]
NoLink    == [state |-> "none", resets |-> 0]
NoCall    == [op |-> "idle", sid |-> "none", token |-> 0, link |-> "none",
              subject |-> "none", hash |-> 0]

\* Every variable stays within its type, and an account without a password can
\* be signed in to with Google; the hash of a session row is a ghost:
\* the password in force when the session was opened, or confirmed by it.
TypeOK ==
    /\ user \in [exists : BOOLEAN, hash : Nat, passwordState : PasswordStates,
                 google : Subjects \cup {"none"}, banned : BOOLEAN, emailVerified : BOOLEAN]
    /\ user.exists /\ user.passwordState = "NONE" => user.google # "none"
    /\ session \in [Sids -> [state : {"none", "live", "expired", "gone"},
                             token : Nat, hash : Nat]]
    /\ heirs \in [Sids -> [1 .. MaxToken -> Nat]]
    /\ link \in [Links -> [state : {"none", "fresh", "used", "gone"}, resets : Nat]]
    /\ sockets \subseteq Sids /\ late \subseteq Sids
    /\ call \in [Calls -> [op : Ops, sid : Sids \cup {"none"}, token : Nat,
                           link : Links \cup {"none"}, subject : Subjects \cup {"none"},
                           hash : Nat]]

\* The account does not exist yet, or is one from before password states were
\* recorded, with or without a Google account.
Init ==
    /\ \/ user = NoUser
       \/ \E g \in Subjects \cup {"none"}, v \in BOOLEAN :
             user = [NoUser EXCEPT !.exists = TRUE, !.hash = 1, !.google = g,
                                   !.passwordState = "LEGACY_UNCONFIRMED",
                                   !.emailVerified = v]
    /\ session = [s \in Sids |-> NoSession]
    /\ heirs = [s \in Sids |-> [n \in 1 .. MaxToken |-> 0]]
    /\ link = [l \in Links |-> NoLink]
    /\ sockets = {} /\ late = {}
    /\ call = [c \in Calls |-> NoCall]

-----------------------------------------------------------------------------
(* What the code asks of the rows.                                         *)

Stored(s) == session[s].state \in {"live", "expired"}   \* the row is in the table
Valid(s)  == session[s].state = "live"                  \* and has not expired

Idle(c)      == call[c].op = "idle"
Begin(c, r)  == call' = [call EXCEPT ![c] = r]
End(c)       == call' = [call EXCEPT ![c] = NoCall]

\* A reset link may set the password of neither an account without one nor a
\* legacy account that signs in with Google.
Resettable(u) ==
    u.exists /\ u.passwordState # "NONE" /\ ~(u.passwordState = "LEGACY_UNCONFIRMED" /\ u.google # "none")

\* The requested Google account is the connected one, or none is connected.
SameGoogle(u, g) == u.google \in {"none", g}

\* deleteMany on the rows of the account, except those in Keep.
Revoke(Keep) == [s \in Sids |-> IF Stored(s) /\ s \notin Keep
                                THEN [session[s] EXCEPT !.state = "gone"] ELSE session[s]]
DropLinks    == [l \in Links |-> IF link[l].state = "none" THEN link[l]
                                 ELSE [link[l] EXCEPT !.state = "gone"]]
NewPassword(u) == [u EXCEPT !.hash = @ + 1, !.passwordState = "SET"]

-----------------------------------------------------------------------------
(* Registration and sign-in.                                               *)

RegisterRead(c) ==
    /\ Idle(c)
    /\ ~user.exists
    /\ Begin(c, [NoCall EXCEPT !.op = "register"])
    /\ UNCHANGED <<rows, live>>

\* The e-mail address is unique: another creation that came first wins.
RegisterCreate(c) ==
    /\ call[c].op = "register"
    /\ ~user.exists
    /\ user' = [NoUser EXCEPT !.exists = TRUE, !.hash = 1, !.passwordState = "SET"]
    /\ Begin(c, [NoCall EXCEPT !.op = "issue", !.hash = 1])
    /\ UNCHANGED <<session, heirs, link, live>>

LoginRead(c) ==
    /\ Idle(c)
    /\ user.exists
    /\ user.passwordState # "NONE"
    /\ Begin(c, [NoCall EXCEPT !.op = "issuePassword", !.hash = user.hash])
    /\ UNCHANGED <<rows, live>>

\* Google has confirmed that the caller is g; the account is looked up by g and
\* then by the e-mail address.
GoogleRead(c, g) ==
    /\ Idle(c)
    /\ IF user.exists
       THEN SameGoogle(user, g) /\ Begin(c, [NoCall EXCEPT !.op = "link", !.subject = g])
       ELSE Begin(c, [NoCall EXCEPT !.op = "googleCreate", !.subject = g])
    /\ UNCHANGED <<rows, live>>

\* Mutated form: the connected account is not compared again under the lock.
LinkGoogleStale(c) ==
    /\ call[c].op = "link"
    /\ user' = [user EXCEPT !.google = call[c].subject, !.emailVerified = TRUE]
    /\ Begin(c, [NoCall EXCEPT !.op = "issue", !.hash = user.hash])
    /\ UNCHANGED <<session, heirs, link, live>>

LinkGoogle(c) ==
    /\ call[c].op = "link"
    /\ SameGoogle(user, call[c].subject)
    /\ user' = [user EXCEPT !.google = call[c].subject, !.emailVerified = TRUE]
    /\ Begin(c, [NoCall EXCEPT !.op = "issue", !.hash = user.hash])
    /\ UNCHANGED <<session, heirs, link, live>>

GoogleCreate(c) ==
    /\ call[c].op = "googleCreate"
    /\ ~user.exists
    /\ user' = [NoUser EXCEPT !.exists = TRUE, !.hash = 1, !.google = call[c].subject,
                              !.emailVerified = TRUE]
    /\ Begin(c, [NoCall EXCEPT !.op = "issue", !.hash = 1])
    /\ UNCHANGED <<session, heirs, link, live>>

\* Signing in with a password confirms it, and opens a session.
OpenSession(c, s) ==
    /\ user' = IF call[c].op = "issuePassword" THEN [user EXCEPT !.passwordState = "SET"] ELSE user
    /\ session' = [session EXCEPT ![s] = [state |-> "live", token |-> 1, hash |-> call[c].hash]]
    /\ End(c)
    /\ UNCHANGED <<heirs, link, live>>

\* Mutated form: the password checked before the transaction is trusted.
IssueTokensUnchecked(c, s) ==
    /\ call[c].op \in {"issue", "issuePassword"}
    /\ session[s].state = "none"
    /\ OpenSession(c, s)

\* A banned account may sign in, to appeal.
IssueTokens(c, s) ==
    /\ call[c].op \in {"issue", "issuePassword"}
    /\ user.hash = call[c].hash
    /\ call[c].op = "issuePassword" => user.passwordState # "NONE"
    /\ session[s].state = "none"
    /\ OpenSession(c, s)

-----------------------------------------------------------------------------
(* Refresh and sign-out.                                                   *)

\* The token of the cookie is one the server signed for the session and must be
\* the stored one.  recoverSession (the page-load probe) reads the same and
\* writes nothing.
RefreshRead(c, s) ==
    /\ Idle(c)
    /\ Valid(s)
    /\ session[s].token < MaxToken
    /\ Begin(c, [NoCall EXCEPT !.op = "rotate", !.sid = s, !.token = session[s].token])
    /\ UNCHANGED <<rows, live>>

Exchange(c, s) ==
    /\ session' = [session EXCEPT ![s].token = @ + 1]
    /\ heirs' = [heirs EXCEPT ![s][call[c].token] = @ + 1]
    /\ End(c)
    /\ UNCHANGED <<user, link, live>>

\* Mutated form: the row is replaced by its id alone.
RotateTokenById(c) ==
    /\ call[c].op = "rotate"
    /\ Valid(call[c].sid)
    /\ Exchange(c, call[c].sid)

\* One conditional update: the row must still hold the token that was read.
RotateToken(c) ==
    /\ call[c].op = "rotate"
    /\ Valid(call[c].sid)
    /\ session[call[c].sid].token = call[c].token
    /\ Exchange(c, call[c].sid)

\* Mutated form: signing out leaves the sockets of the session open.
LogoutQuietly(c, s) ==
    /\ Idle(c)
    /\ Stored(s)
    /\ session' = [session EXCEPT ![s].state = "gone"]
    /\ UNCHANGED <<user, heirs, link, live, call>>

\* The session is found by the ids signed into the cookie, so any token of it
\* will do; its sockets are disconnected afterwards.
Logout(c, s) ==
    /\ Idle(c)
    /\ Stored(s)
    /\ session' = [session EXCEPT ![s].state = "gone"]
    /\ Begin(c, [NoCall EXCEPT !.op = "kickSession", !.sid = s])
    /\ UNCHANGED <<user, heirs, link, live>>

SessionExpires(s) ==
    /\ Valid(s)
    /\ session' = [session EXCEPT ![s].state = "expired"]
    /\ UNCHANGED <<user, heirs, link, live, call>>

-----------------------------------------------------------------------------
(* E-mail verification and password reset.                                 *)

VerifyEmail ==
    /\ user.exists /\ ~user.emailVerified
    /\ user' = [user EXCEPT !.emailVerified = TRUE]
    /\ UNCHANGED <<session, heirs, link, live, call>>

\* The old links are deleted and the new one is created by two statements.
ForgotDelete(c) ==
    /\ Idle(c)
    /\ Resettable(user)
    /\ link' = DropLinks
    /\ Begin(c, [NoCall EXCEPT !.op = "forgot"])
    /\ UNCHANGED <<user, session, heirs, live>>

ForgotCreate(c, l) ==
    /\ call[c].op = "forgot"
    /\ link[l].state = "none"
    /\ link' = [link EXCEPT ![l].state = "fresh"]
    /\ End(c)
    /\ UNCHANGED <<user, session, heirs, live>>

LinkExpires(l) ==
    /\ link[l].state = "fresh"
    /\ link' = [link EXCEPT ![l].state = "gone"]
    /\ UNCHANGED <<user, session, heirs, live, call>>

ResetRead(c, l) ==
    /\ Idle(c)
    /\ link[l].state = "fresh"
    /\ user.hash < MaxHash
    /\ Begin(c, [NoCall EXCEPT !.op = "reset", !.link = l])
    /\ UNCHANGED <<rows, live>>

Reset(c, l) ==
    /\ link' = [link EXCEPT ![l] = [state |-> "used", resets |-> @.resets + 1]]
    /\ user' = NewPassword(user)
    /\ session' = Revoke({})
    /\ Begin(c, [NoCall EXCEPT !.op = "kickUser"])
    /\ UNCHANGED <<heirs, live>>

ResetCommit(c) ==
    /\ call[c].op = "reset"
    /\ Resettable(user)
    /\ link[call[c].link].state = "fresh"
    /\ Reset(c, call[c].link)

-----------------------------------------------------------------------------
(* Signed in: changing the password, and setting one up with Google.       *)

\* requireAuth has found the session's row and an account that is not banned;
\* the current password is compared with the hash read here.
ChangeRead(c, s) ==
    /\ Idle(c)
    /\ Valid(s)
    /\ ~user.banned
    /\ user.passwordState # "NONE"
    /\ user.hash < MaxHash
    /\ Begin(c, [NoCall EXCEPT !.op = "change", !.sid = s, !.hash = user.hash])
    /\ UNCHANGED <<rows, live>>

ChangeCommit(c) ==
    /\ call[c].op = "change"
    /\ Valid(call[c].sid)
    /\ user.hash = call[c].hash
    /\ user' = NewPassword(user)
    /\ link' = DropLinks
    /\ session' = Revoke({})
    /\ Begin(c, [NoCall EXCEPT !.op = "kickUser"])
    /\ UNCHANGED <<heirs, live>>

\* activeSession: the account's own check inside every password-setup transaction.
ActiveSession(s) == Valid(s) /\ ~user.banned

\* The proofs are signed by the server and kept by the browser.
StartSetup(c, s) ==
    /\ Idle(c)
    /\ ActiveSession(s)
    /\ user.passwordState # "SET"
    /\ user.google # "none" \/ user.passwordState = "LEGACY_UNCONFIRMED"
    /\ user.hash < MaxHash
    /\ Begin(c, [NoCall EXCEPT !.op = "challenge", !.sid = s, !.subject = user.google])
    /\ UNCHANGED <<rows, live>>

\* g is the Google account that answered the challenge: the one it names, or, if
\* it names none, one with the account's e-mail address.
VerifySetup(c, g) ==
    /\ call[c].op = "challenge"
    /\ call[c].subject \in {"none", g}
    /\ ActiveSession(call[c].sid)
    /\ user.passwordState # "SET"
    /\ SameGoogle(user, g)
    /\ user.google = "none" => user.passwordState = "LEGACY_UNCONFIRMED"
    /\ user' = IF user.google = "none" THEN [user EXCEPT !.google = g, !.emailVerified = TRUE] ELSE user
    /\ call' = [call EXCEPT ![c].op = "grant", ![c].subject = g, ![c].hash = user.hash]
    /\ UNCHANGED <<session, heirs, link, live>>

\* Every other session ends; the one that answered to Google is kept.
SetPassword(c) ==
    /\ call[c].op = "grant"
    /\ ActiveSession(call[c].sid)
    /\ user.passwordState # "SET"
    /\ user.google = call[c].subject
    /\ user.hash = call[c].hash
    /\ user' = NewPassword(user)
    /\ link' = DropLinks
    /\ session' = [Revoke({call[c].sid}) EXCEPT ![call[c].sid].hash = user.hash + 1]
    /\ Begin(c, [NoCall EXCEPT !.op = "kickOthers", !.sid = call[c].sid])
    /\ UNCHANGED <<heirs, live>>

\* A recheck fails, a proof expires, or the client goes away.
GiveUp(c) ==
    /\ call[c].op \notin {"idle", "kickUser", "kickOthers", "kickSession"}
    /\ End(c)
    /\ UNCHANGED <<rows, live>>

-----------------------------------------------------------------------------
(* Sockets.                                                                *)

SocketHandshake(c, s) ==
    /\ Idle(c)
    /\ Valid(s)
    /\ ~user.banned /\ user.emailVerified
    /\ Begin(c, [NoCall EXCEPT !.op = "handshake", !.sid = s])
    /\ UNCHANGED <<rows, live>>

\* The socket joins the rooms by which it can be found and disconnected.
SocketJoin(c) ==
    /\ call[c].op = "handshake"
    /\ sockets' = sockets \cup {call[c].sid}
    /\ late' = IF Stored(call[c].sid) /\ ~user.banned THEN late ELSE late \cup {call[c].sid}
    /\ End(c)
    /\ UNCHANGED <<rows>>

Disconnect(c, gone) ==
    /\ sockets' = sockets \ gone
    /\ late' = late \ gone
    /\ End(c)
    /\ UNCHANGED <<rows>>

disconnectUserSockets(c)       == call[c].op = "kickUser"    /\ Disconnect(c, Sids)
disconnectOtherUserSessions(c) == call[c].op = "kickOthers"  /\ Disconnect(c, Sids \ {call[c].sid})
disconnectSessionSockets(c)    == call[c].op = "kickSession" /\ Disconnect(c, {call[c].sid})

SocketCloses(s) ==
    /\ s \in sockets
    /\ sockets' = sockets \ {s} /\ late' = late \ {s}
    /\ UNCHANGED <<rows, call>>

Restart ==
    /\ sockets' = {} /\ late' = {}
    /\ call' = [c \in Calls |-> NoCall]
    /\ UNCHANGED <<rows>>

-----------------------------------------------------------------------------
(* Administrators.                                                         *)

\* The sessions stay, for the appeal; the sockets are disconnected.
BanUser(c) ==
    /\ Idle(c)
    /\ user.exists /\ ~user.banned
    /\ user' = [user EXCEPT !.banned = TRUE]
    /\ Begin(c, [NoCall EXCEPT !.op = "kickUser"])
    /\ UNCHANGED <<session, heirs, link, live>>

\* Manually or by an approved appeal.
RestoreUser ==
    /\ user.banned
    /\ user' = [user EXCEPT !.banned = FALSE]
    /\ UNCHANGED <<session, heirs, link, live, call>>

-----------------------------------------------------------------------------
SignIn(c) ==
    \/ RegisterRead(c) \/ RegisterCreate(c) \/ LoginRead(c) \/ LinkGoogle(c) \/ GoogleCreate(c)
    \/ \E g \in Subjects : GoogleRead(c, g)
    \/ \E s \in Sids : IssueTokens(c, s) \/ RefreshRead(c, s) \/ Logout(c, s)
    \/ RotateToken(c)

Password(c) ==
    \/ ForgotDelete(c) \/ ResetCommit(c) \/ ChangeCommit(c) \/ SetPassword(c)
    \/ \E l \in Links : ForgotCreate(c, l) \/ ResetRead(c, l)
    \/ \E s \in Sids : ChangeRead(c, s) \/ StartSetup(c, s)
    \/ \E g \in Subjects : VerifySetup(c, g)

Access(c) ==
    \/ \E s \in Sids : SocketHandshake(c, s)
    \/ SocketJoin(c) \/ GiveUp(c) \/ BanUser(c)
    \/ disconnectUserSockets(c) \/ disconnectOtherUserSessions(c) \/ disconnectSessionSockets(c)

Environment ==
    \/ VerifyEmail \/ RestoreUser \/ Restart
    \/ \E s \in Sids : SessionExpires(s) \/ SocketCloses(s)
    \/ \E l \in Links : LinkExpires(l)

Next ==
    \/ \E c \in Calls : SignIn(c) \/ Password(c) \/ Access(c)
    \/ Environment

Spec == Init /\ [][Next]_vars

-----------------------------------------------------------------------------
(* Properties.                                                             *)

\* A session that can still be used was opened, or confirmed, with the password
\* in force: no sign-in that checked the old password, by password or through
\* Google, leaves a session behind a change, a reset or a setup.
SessionsMatchPassword ==
    \A s \in Sids : Stored(s) => session[s].hash = user.hash

\* "Each token can only be used once": however many requests present a refresh
\* token at the same time, at most one gets a new token for it; and a reset link
\* sets a password at most once, also when it is submitted twice.
UsedOnce ==
    /\ \A s \in Sids, n \in 1 .. MaxToken : heirs[s][n] <= 1
    /\ \A l \in Links : link[l].resets <= 1

\* The connected Google account never changes, also when two Google accounts
\* with the same address sign in together or during a password setup; and a link
\* mailed before it was connected sets no password above it.
GoogleKept ==
    [][user.google # "none" =>
          /\ user'.google = user.google
          /\ user.passwordState # "SET" =>
                \A l \in Links : link'[l].resets = link[l].resets]_vars

\* A socket whose session was revoked or whose account is banned is about to be
\* disconnected, unless its handshake read the rows before and joined after.
SocketsFollowSessions ==
    \A s \in sockets \ late :
        \/ Stored(s) /\ ~user.banned
        \/ \E c \in Calls : \/ call[c].op = "kickUser"
                            \/ call[c].op = "kickOthers" /\ call[c].sid # s
                            \/ call[c].op = "kickSession" /\ call[c].sid = s
=============================================================================
