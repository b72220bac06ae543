--------------------------- MODULE SessionsProofs ---------------------------
(***************************************************************************)
(* Theorems about Sessions, for any number of concurrent requests, session *)
(* rows, reset links, Google accounts, passwords and tokens.               *)
(***************************************************************************)
EXTENDS Sessions, TLAPS

-----------------------------------------------------------------------------
(* The inductive invariant                                                  *)

UserType == [exists : BOOLEAN, hash : Nat, passwordState : PasswordStates,
             google : Subjects \cup {"none"}, banned : BOOLEAN, emailVerified : BOOLEAN]
SessionType == [state : {"none", "live", "expired", "gone"}, token : Nat, hash : Nat]
LinkType == [state : {"none", "fresh", "used", "gone"}, resets : Nat]
CallType == [op : Ops, sid : Sids \cup {"none"}, token : Nat, link : Links \cup {"none"},
             subject : Subjects \cup {"none"}, hash : Nat]

\* A request in progress knows the rows it works on, and opens a session only
\* for an account.
Knows(r, u) ==
    /\ r.op \in {"link", "googleCreate", "grant"} => r.subject \in Subjects
    /\ r.op \in {"rotate", "change", "challenge", "grant", "handshake",
                 "kickOthers", "kickSession"} => r.sid \in Sids
    /\ r.op = "reset" => r.link \in Links
    /\ r.op \in {"link", "issue", "issuePassword"} => u.exists

CallInv == \A c \in Calls : Knows(call[c], user)

\* Before the account exists it has nothing, and no session.
AccountInv ==
    ~user.exists => user = NoUser /\ \A s \in Sids : ~Stored(s)

\* A token that is stored, or still to be issued, has not been exchanged; a link
\* that is not used has set no password.
TokenInv ==
    /\ \A s \in Sids : session[s].state = "none" => session[s].token = 0
    /\ \A s \in Sids, n \in 1 .. MaxToken :
          heirs[s][n] <= 1 /\ (n >= session[s].token => heirs[s][n] = 0)
    /\ \A l \in Links :
          link[l].resets <= 1 /\ (link[l].state \in {"none", "fresh"} => link[l].resets = 0)

IInv ==
    /\ TypeOK /\ CallInv /\ AccountInv /\ TokenInv
    /\ SessionsMatchPassword /\ SocketsFollowSessions

-----------------------------------------------------------------------------
(* Type correctness                                                         *)

\* A request's record when it is given an operation and what it reads.
LEMMA NewCalls ==
    /\ NoCall \in CallType
    /\ \A op \in Ops : [NoCall EXCEPT !.op = op] \in CallType
    /\ \A op \in Ops, n \in Nat : [NoCall EXCEPT !.op = op, !.hash = n] \in CallType
    /\ \A op \in Ops, g \in Subjects : [NoCall EXCEPT !.op = op, !.subject = g] \in CallType
    /\ \A op \in Ops, l \in Links : [NoCall EXCEPT !.op = op, !.link = l] \in CallType
    /\ \A op \in Ops, s \in Sids :
          /\ [NoCall EXCEPT !.op = op, !.sid = s] \in CallType
          /\ \A n \in Nat : /\ [NoCall EXCEPT !.op = op, !.sid = s, !.token = n] \in CallType
                            /\ [NoCall EXCEPT !.op = op, !.sid = s, !.hash = n] \in CallType
          /\ \A g \in Subjects \cup {"none"} :
                [NoCall EXCEPT !.op = op, !.sid = s, !.subject = g] \in CallType
<1>1. NoCall \in CallType
  BY DEF NoCall, CallType, Ops
<1>2. QED
  BY <1>1, ZenonT(60) DEF CallType

\* A counter of a table of counters is increased.
LEMMA CountOneMore ==
    ASSUME NEW S, NEW f \in [S -> Nat], NEW n
    PROVE  [f EXCEPT ![n] = @ + 1] \in [S -> Nat]
<1> DEFINE g == [f EXCEPT ![n] = @ + 1]
<1>1. \A m \in S : g[m] \in Nat
  <2> TAKE m \in S
  <2>1. f[m] \in Nat
    OBVIOUS
  <2>2. g[m] = IF m = n THEN f[n] + 1 ELSE f[m]
    OBVIOUS
  <2>3. QED
    BY <2>1, <2>2
<1>2. g = [m \in S |-> g[m]]
  OBVIOUS
<1>3. QED
  BY <1>1, <1>2

\* A session row whose password is confirmed.
LEMMA Confirmed == \A r \in SessionType, n \in Nat : [r EXCEPT !.hash = n + 1] \in SessionType
BY DEF SessionType

\* What the code writes into the other rows.
LEMMA NewRows ==
    ASSUME TypeOK
    PROVE  /\ user \in UserType /\ session \in [Sids -> SessionType]
           /\ link \in [Links -> LinkType] /\ call \in [Calls -> CallType]
           /\ NoUser \in UserType /\ NewPassword(user) \in UserType
           /\ DropLinks \in [Links -> LinkType]
           /\ \A Keep : Revoke(Keep) \in [Sids -> SessionType]
<1>1. /\ user \in UserType /\ session \in [Sids -> SessionType]
      /\ link \in [Links -> LinkType] /\ call \in [Calls -> CallType]
  BY DEF TypeOK, UserType, SessionType, LinkType, CallType
<1>2. NoUser \in UserType
  BY DEF NoUser, UserType, PasswordStates
<1>3. NewPassword(user) \in UserType
  <2>1. user.hash + 1 \in Nat
    BY <1>1 DEF UserType
  <2>2. QED
    BY <1>1, <2>1 DEF NewPassword, UserType, PasswordStates
<1>4. DropLinks \in [Links -> LinkType]
  BY <1>1 DEF DropLinks, LinkType
<1>5. \A Keep : Revoke(Keep) \in [Sids -> SessionType]
  <2>1. \A s \in Sids : [session[s] EXCEPT !.state = "gone"] \in SessionType
    BY <1>1 DEF SessionType
  <2>2. QED
    BY <1>1, <2>1 DEF Revoke
<1>6. QED
  BY <1>1, <1>2, <1>3, <1>4, <1>5

\* The parts of TypeOK, in the next state.
LEMMA TypeParts ==
    ASSUME user' \in UserType,
           user'.exists /\ user'.passwordState = "NONE" => user'.google # "none",
           session' \in [Sids -> SessionType],
           heirs' \in [Sids -> [1 .. MaxToken -> Nat]],
           link' \in [Links -> LinkType],
           sockets' \subseteq Sids, late' \subseteq Sids,
           call' \in [Calls -> CallType]
    PROVE  TypeOK'
BY DEF TypeOK, UserType, SessionType, LinkType, CallType

\* An account that nobody has signed in to is well typed.
LEMMA InitType == Init => TypeOK
<1> SUFFICES ASSUME Init PROVE TypeOK
  OBVIOUS
<1>1. user \in UserType /\ (user.exists /\ user.passwordState = "NONE" => user.google # "none")
  <2>1. CASE user = NoUser
    BY <2>1 DEF NoUser, UserType, PasswordStates
  <2>2. ASSUME NEW g \in Subjects \cup {"none"}, NEW v \in BOOLEAN,
               user = [NoUser EXCEPT !.exists = TRUE, !.hash = 1, !.google = g,
                                     !.passwordState = "LEGACY_UNCONFIRMED",
                                     !.emailVerified = v]
        PROVE  user \in UserType /\ user.passwordState # "NONE"
    <3>1. user = [exists |-> TRUE, hash |-> 1, passwordState |-> "LEGACY_UNCONFIRMED",
                  google |-> g, banned |-> FALSE, emailVerified |-> v]
      BY <2>2 DEF NoUser
    <3>2. QED
      BY <3>1 DEF UserType, PasswordStates
  <2>3. QED
    BY <2>1, <2>2 DEF Init
<1>2. session \in [Sids -> SessionType] /\ link \in [Links -> LinkType]
  BY DEF Init, NoSession, SessionType, NoLink, LinkType
<1>3. call \in [Calls -> CallType]
  BY NewCalls DEF Init
<1>4. QED
  BY <1>1, <1>2, <1>3 DEF Init, TypeOK, UserType, SessionType, LinkType, CallType

\* Everything a sign-in, a refresh or a sign-out writes is well-formed.
LEMMA SignInType ==
    ASSUME TypeOK, CallInv, NEW c \in Calls, SignIn(c)
    PROVE  TypeOK'
<1> USE NewRows
<1> DEFINE CallsOK == call' \in [Calls -> CallType]
           RestOK  == UNCHANGED <<user, session, heirs, link, sockets, late>>
<1>a. CallsOK /\ RestOK => TypeOK'
  BY TypeParts DEF TypeOK, UserType, SessionType, LinkType
<1>b. \A r \in CallType : Begin(c, r) => CallsOK
  BY DEF Begin
<1>c. End(c) => CallsOK
  BY NewCalls DEF End
<1>1. CASE RegisterRead(c)
  BY <1>a, <1>b, <1>1, NewCalls DEF RegisterRead, rows, live, Ops
<1>2. CASE RegisterCreate(c)
  <2>1. CallsOK
    BY <1>b, <1>2, NewCalls DEF RegisterCreate, Ops
  <2>2. user' = [exists |-> TRUE, hash |-> 1, passwordState |-> "SET", google |-> "none",
                 banned |-> FALSE, emailVerified |-> FALSE]
    BY <1>2 DEF RegisterCreate, NoUser
  <2>3. user' \in UserType /\ user'.passwordState # "NONE"
    BY <2>2 DEF UserType, PasswordStates
  <2>4. QED
    BY <1>2, <2>1, <2>3, TypeParts DEF RegisterCreate, live, TypeOK
<1>3. CASE LoginRead(c)
  <2>1. user.hash \in Nat
    BY DEF UserType
  <2>2. QED
    BY <1>a, <1>b, <1>3, <2>1, NewCalls DEF LoginRead, rows, live, Ops
<1>4. CASE LinkGoogle(c)
  <2>1. CallsOK
    BY <1>b, <1>4, NewCalls DEF LinkGoogle, Ops, UserType
  <2>2. call[c].subject \in Subjects
    BY <1>4 DEF LinkGoogle, CallInv, Knows
  <2>3. user' \in UserType /\ user'.google # "none"
    BY <1>4, <2>2, NamesAssumption DEF LinkGoogle, UserType
  <2>4. QED
    BY <1>4, <2>1, <2>3, TypeParts DEF LinkGoogle, live, TypeOK
<1>5. CASE GoogleCreate(c)
  <2>1. CallsOK
    BY <1>b, <1>5, NewCalls DEF GoogleCreate, Ops
  <2>2. call[c].subject \in Subjects
    BY <1>5 DEF GoogleCreate, CallInv, Knows
  <2>3. user' = [exists |-> TRUE, hash |-> 1, passwordState |-> "NONE", google |-> call[c].subject,
                 banned |-> FALSE, emailVerified |-> TRUE]
    BY <1>5 DEF GoogleCreate, NoUser
  <2>4. user' \in UserType /\ user'.google # "none"
    BY <2>2, <2>3, NamesAssumption DEF UserType, PasswordStates
  <2>5. QED
    BY <1>5, <2>1, <2>4, TypeParts DEF GoogleCreate, live, TypeOK
<1>6. ASSUME NEW g \in Subjects, GoogleRead(c, g) PROVE TypeOK'
  BY <1>a, <1>b, <1>6, NewCalls DEF GoogleRead, rows, live, Ops
<1>7. ASSUME NEW s \in Sids, IssueTokens(c, s) PROVE TypeOK'
  <2>1. call[c].hash \in Nat
    BY DEF CallType
  <2>2. session' \in [Sids -> SessionType]
    BY <1>7, <2>1 DEF IssueTokens, OpenSession, SessionType
  <2>3. /\ user' \in UserType
        /\ user'.exists /\ user'.passwordState = "NONE" => user'.google # "none"
    BY <1>7 DEF IssueTokens, OpenSession, TypeOK, UserType, PasswordStates
  <2>4. QED
    BY <1>c, <1>7, <2>2, <2>3, TypeParts DEF IssueTokens, OpenSession, live, TypeOK
<1>8. ASSUME NEW s \in Sids, RefreshRead(c, s) PROVE TypeOK'
  <2>1. session[s].token \in Nat
    BY DEF SessionType
  <2>2. QED
    BY <1>a, <1>b, <1>8, <2>1, NewCalls DEF RefreshRead, rows, live, Ops
<1>9. ASSUME NEW s \in Sids, Logout(c, s) PROVE TypeOK'
  <2>1. CallsOK
    BY <1>b, <1>9, NewCalls DEF Logout, Ops
  <2>2. session' \in [Sids -> SessionType]
    BY <1>9 DEF Logout, SessionType
  <2>3. QED
    BY <1>9, <2>1, <2>2, TypeParts DEF Logout, live, TypeOK
<1>10. CASE RotateToken(c)
  <2> DEFINE s == call[c].sid
  <2>0. s \in Sids
    BY <1>10 DEF RotateToken, CallInv, Knows
  <2>1. session' \in [Sids -> SessionType]
    <3>1. [session[s] EXCEPT !.token = @ + 1] \in SessionType
      BY <2>0 DEF SessionType
    <3>2. QED
      BY <1>10, <3>1 DEF RotateToken, Exchange
  <2>2. heirs' \in [Sids -> [1 .. MaxToken -> Nat]]
    <3>1. heirs[s] \in [1 .. MaxToken -> Nat]
      BY <2>0 DEF TypeOK
    <3>2. [heirs[s] EXCEPT ![call[c].token] = @ + 1] \in [1 .. MaxToken -> Nat]
      BY <3>1, CountOneMore
    <3>3. QED
      BY <1>10, <3>2 DEF RotateToken, Exchange, TypeOK
  <2>3. QED
    BY <1>c, <1>10, <2>1, <2>2, TypeParts DEF RotateToken, Exchange, live, TypeOK
<1>11. QED
  BY <1>1, <1>2, <1>3, <1>4, <1>5, <1>6, <1>7, <1>8, <1>9, <1>10 DEF SignIn

\* Everything the password routes write is well-formed.
LEMMA PasswordType ==
    ASSUME TypeOK, CallInv, NEW c \in Calls, Password(c)
    PROVE  TypeOK'
<1> USE NewRows
<1> DEFINE CallsOK == call' \in [Calls -> CallType]
           RestOK  == UNCHANGED <<user, session, heirs, link, sockets, late>>
<1>a. CallsOK /\ RestOK => TypeOK'
  BY TypeParts DEF TypeOK, UserType, SessionType, LinkType
<1>b. \A r \in CallType : Begin(c, r) => CallsOK
  BY DEF Begin
<1>c. End(c) => CallsOK
  BY NewCalls DEF End
<1>d. NewPassword(user).passwordState # "NONE" /\ user.hash \in Nat
  BY DEF NewPassword, UserType
<1>1. CASE ForgotDelete(c)
  <2>1. CallsOK
    BY <1>b, <1>1, NewCalls DEF ForgotDelete, Ops
  <2>2. QED
    BY <1>1, <2>1, TypeParts DEF ForgotDelete, live, TypeOK
<1>2. ASSUME NEW l \in Links, ForgotCreate(c, l) PROVE TypeOK'
  <2>1. link' \in [Links -> LinkType]
    BY <1>2 DEF ForgotCreate, LinkType
  <2>2. QED
    BY <1>c, <1>2, <2>1, TypeParts DEF ForgotCreate, live, TypeOK
<1>3. ASSUME NEW l \in Links, ResetRead(c, l) PROVE TypeOK'
  BY <1>a, <1>b, <1>3, NewCalls DEF ResetRead, rows, live, Ops
<1>4. CASE ResetCommit(c)
  <2> DEFINE l == call[c].link
  <2>0. l \in Links
    BY <1>4 DEF ResetCommit, CallInv, Knows
  <2>1. CallsOK
    BY <1>b, <1>4, NewCalls DEF ResetCommit, Reset, Ops
  <2>2. link' \in [Links -> LinkType]
    <3>1. [state |-> "used", resets |-> link[l].resets + 1] \in LinkType
      BY <2>0 DEF LinkType
    <3>2. QED
      BY <1>4, <3>1 DEF ResetCommit, Reset
  <2>3. QED
    BY <1>d, <1>4, <2>1, <2>2, TypeParts DEF ResetCommit, Reset, live, TypeOK
<1>5. ASSUME NEW s \in Sids, ChangeRead(c, s) PROVE TypeOK'
  BY <1>a, <1>b, <1>d, <1>5, NewCalls DEF ChangeRead, rows, live, Ops
<1>6. CASE ChangeCommit(c)
  <2>1. CallsOK
    BY <1>b, <1>6, NewCalls DEF ChangeCommit, Ops
  <2>2. QED
    BY <1>d, <1>6, <2>1, TypeParts DEF ChangeCommit, live, TypeOK
<1>7. ASSUME NEW s \in Sids, StartSetup(c, s) PROVE TypeOK'
  <2>1. user.google \in Subjects \cup {"none"}
    BY DEF UserType
  <2>2. QED
    BY <1>a, <1>b, <1>7, <2>1, NewCalls DEF StartSetup, rows, live, Ops
<1>8. ASSUME NEW g \in Subjects, VerifySetup(c, g) PROVE TypeOK'
  <2>1. CallsOK
    <3>1. [call[c] EXCEPT !.op = "grant", !.subject = g, !.hash = user.hash] \in CallType
      BY <1>d, ZenonT(60) DEF CallType, Ops
    <3>2. call' = [call EXCEPT ![c] = [call[c] EXCEPT !.op = "grant", !.subject = g, !.hash = user.hash]]
      BY <1>8 DEF VerifySetup
    <3>3. QED
      BY <3>1, <3>2
  <2>2. user' \in UserType /\ (user'.google # "none" \/ user' = user)
    BY <1>8, NamesAssumption DEF VerifySetup, UserType
  <2>3. QED
    BY <1>8, <2>1, <2>2, TypeParts DEF VerifySetup, live, TypeOK
<1>9. CASE SetPassword(c)
  <2> DEFINE s == call[c].sid
  <2>0. s \in Sids
    BY <1>9 DEF SetPassword, CallInv, Knows
  <2>1. CallsOK
    BY <1>b, <1>9, <2>0, NewCalls DEF SetPassword, Ops
  <2>2. session' \in [Sids -> SessionType]
    <3>1. Revoke({s}) \in [Sids -> SessionType]
      OBVIOUS
    <3>2. Revoke({s})[s] \in SessionType
      BY <2>0, <3>1
    <3>3. [Revoke({s})[s] EXCEPT !.hash = user.hash + 1] \in SessionType
      BY <1>d, <3>2, Confirmed
    <3>4. QED
      BY <1>9, <3>1, <3>3 DEF SetPassword
  <2>3. QED
    BY <1>d, <1>9, <2>1, <2>2, TypeParts DEF SetPassword, live, TypeOK
<1>10. QED
  BY <1>1, <1>2, <1>3, <1>4, <1>5, <1>6, <1>7, <1>8, <1>9 DEF Password

\* What sockets, bans and the passing of time write is well-formed.
LEMMA AccessType ==
    ASSUME TypeOK, CallInv, (\E c \in Calls : Access(c)) \/ Environment
    PROVE  TypeOK'
<1> USE NewRows
<1> DEFINE CallsOK == call' \in [Calls -> CallType]
<1>a. \A c \in Calls, r \in CallType : Begin(c, r) => CallsOK
  BY DEF Begin
<1>b. \A c \in Calls : End(c) => CallsOK
  BY NewCalls DEF End
<1>1. ASSUME NEW c \in Calls, NEW s \in Sids, SocketHandshake(c, s) PROVE TypeOK'
  BY <1>a, <1>1, NewCalls, TypeParts DEF SocketHandshake, rows, live, Ops, TypeOK
<1>2. ASSUME NEW c \in Calls, SocketJoin(c) PROVE TypeOK'
  <2>1. call[c].sid \in Sids
    BY <1>2 DEF SocketJoin, CallInv, Knows
  <2>2. sockets' \subseteq Sids /\ late' \subseteq Sids
    BY <1>2, <2>1 DEF SocketJoin, TypeOK
  <2>3. QED
    BY <1>b, <1>2, <2>2, TypeParts DEF SocketJoin, rows, TypeOK
<1>3. ASSUME NEW c \in Calls, GiveUp(c) PROVE TypeOK'
  BY <1>b, <1>3, TypeParts DEF GiveUp, rows, live, TypeOK
<1>4. ASSUME NEW c \in Calls, BanUser(c) PROVE TypeOK'
  <2>1. CallsOK
    BY <1>a, <1>4, NewCalls DEF BanUser, Ops
  <2>2. user' \in UserType /\ user'.google = user.google /\ user'.passwordState = user.passwordState
        /\ user'.exists = user.exists
    BY <1>4 DEF BanUser, UserType
  <2>3. QED
    BY <1>4, <2>1, <2>2, TypeParts DEF BanUser, live, TypeOK
<1>5. ASSUME NEW c \in Calls, NEW gone, Disconnect(c, gone) PROVE TypeOK'
  <2>1. sockets' \subseteq Sids /\ late' \subseteq Sids
    BY <1>5 DEF Disconnect, TypeOK
  <2>2. QED
    BY <1>b, <1>5, <2>1, TypeParts DEF Disconnect, rows, TypeOK
<1>6. CASE VerifyEmail \/ RestoreUser
  <2>1. user' \in UserType /\ user'.google = user.google /\ user'.passwordState = user.passwordState
        /\ user'.exists = user.exists
    BY <1>6 DEF VerifyEmail, RestoreUser, UserType
  <2>2. QED
    BY <1>6, <2>1, TypeParts DEF VerifyEmail, RestoreUser, live, TypeOK
<1>7. CASE Restart
  BY <1>7, NewCalls, TypeParts DEF Restart, rows, TypeOK
<1>8. ASSUME NEW s \in Sids, SessionExpires(s) PROVE TypeOK'
  <2>1. session' \in [Sids -> SessionType]
    BY <1>8 DEF SessionExpires, SessionType
  <2>2. QED
    BY <1>8, <2>1, TypeParts DEF SessionExpires, live, TypeOK
<1>9. ASSUME NEW s \in Sids, SocketCloses(s) PROVE TypeOK'
  BY <1>9, TypeParts DEF SocketCloses, rows, TypeOK
<1>10. ASSUME NEW l \in Links, LinkExpires(l) PROVE TypeOK'
  <2>1. link' \in [Links -> LinkType]
    BY <1>10 DEF LinkExpires, LinkType
  <2>2. QED
    BY <1>10, <2>1, TypeParts DEF LinkExpires, live, TypeOK
<1>11. QED
  BY <1>1, <1>2, <1>3, <1>4, <1>5, <1>6, <1>7, <1>8, <1>9, <1>10
  DEF Access, Environment, disconnectUserSockets, disconnectOtherUserSessions, disconnectSessionSockets

\* Every step keeps the state well-formed.
LEMMA NextType == TypeOK /\ CallInv /\ [Next]_vars => TypeOK'
<1> SUFFICES ASSUME TypeOK, CallInv, [Next]_vars PROVE TypeOK'
  OBVIOUS
<1>1. CASE UNCHANGED vars
  BY <1>1 DEF vars, rows, live, TypeOK
<1>2. QED
  BY <1>1, SignInType, PasswordType, AccessType DEF Next

-----------------------------------------------------------------------------
(* What a request knows, and the account before it exists                   *)

\* The account is never deleted here.
LEMMA AccountStays ==
    ASSUME TypeOK, [Next]_vars, user.exists
    PROVE  user'.exists
<1>0. user \in UserType
  BY NewRows
<1>1. ASSUME NEW c \in Calls, SignIn(c) PROVE user'.exists
  BY <1>0, <1>1 DEF SignIn, RegisterRead, RegisterCreate, LoginRead, GoogleRead, LinkGoogle,
     GoogleCreate, IssueTokens, OpenSession, RefreshRead, RotateToken, Exchange, Logout, rows, UserType
<1>2. ASSUME NEW c \in Calls, Password(c) PROVE user'.exists
  BY <1>0, <1>2 DEF Password, ForgotDelete, ForgotCreate, ResetRead, ResetCommit, Reset,
     ChangeRead, ChangeCommit, StartSetup, VerifySetup, SetPassword, NewPassword, rows, UserType
<1>3. ASSUME NEW c \in Calls, Access(c) PROVE user'.exists
  BY <1>0, <1>3 DEF Access, SocketHandshake, SocketJoin, GiveUp, BanUser, Disconnect,
     disconnectUserSockets, disconnectOtherUserSessions, disconnectSessionSockets, rows, UserType
<1>4. CASE Environment
  BY <1>0, <1>4 DEF Environment, VerifyEmail, RestoreUser, Restart, SessionExpires,
     SocketCloses, LinkExpires, rows, UserType
<1>5. QED
  BY <1>1, <1>2, <1>3, <1>4 DEF Next, vars, rows

\* A request learns only what it has read.
LEMMA NextCalls ==
    ASSUME TypeOK, CallInv, [Next]_vars
    PROVE  CallInv'
<1>0. user.exists => user'.exists
  BY AccountStays
<1>a. ASSUME NEW c \in Calls, NEW r, Begin(c, r), Knows(r, user') PROVE CallInv'
  <2> SUFFICES ASSUME NEW d \in Calls PROVE Knows(call'[d], user')
    BY DEF CallInv
  <2>1. call'[d] = IF d = c THEN r ELSE call[d]
    BY <1>a DEF Begin, TypeOK
  <2>2. QED
    BY <1>0, <1>a, <2>1 DEF CallInv, Knows
<1>b. \A u : Knows(NoCall, u)
  BY DEF Knows, NoCall
<1>c. ASSUME NEW c \in Calls, End(c) PROVE CallInv'
  BY <1>a, <1>b, <1>c DEF Begin, End
<1>d. call' = call => CallInv'
  BY <1>0 DEF CallInv, Knows
<1>1. ASSUME NEW c \in Calls, SignIn(c) PROVE CallInv'
  <2>1. CASE RegisterRead(c)
    BY <1>a, <2>1 DEF RegisterRead, Knows, NoCall
  <2>2. CASE RegisterCreate(c)
    <3>1. user'.exists
      BY <2>2 DEF RegisterCreate, NoUser
    <3>2. QED
      BY <1>a, <2>2, <3>1 DEF RegisterCreate, Knows, NoCall
  <2>3. CASE LoginRead(c)
    BY <1>0, <1>a, <2>3 DEF LoginRead, Knows, NoCall
  <2>4. CASE LinkGoogle(c)
    <3>1. user'.exists
      BY <1>0, <2>4 DEF LinkGoogle, CallInv, Knows
    <3>2. QED
      BY <1>a, <2>4, <3>1 DEF LinkGoogle, Knows, NoCall
  <2>5. CASE GoogleCreate(c)
    <3>1. user'.exists
      BY <2>5 DEF GoogleCreate, NoUser
    <3>2. QED
      BY <1>a, <2>5, <3>1 DEF GoogleCreate, Knows, NoCall
  <2>6. ASSUME NEW g \in Subjects, GoogleRead(c, g) PROVE CallInv'
    BY <1>0, <1>a, <2>6 DEF GoogleRead, Knows, NoCall
  <2>7. ASSUME NEW s \in Sids, RefreshRead(c, s) PROVE CallInv'
    BY <1>a, <2>7 DEF RefreshRead, Knows, NoCall
  <2>8. ASSUME NEW s \in Sids, Logout(c, s) PROVE CallInv'
    BY <1>a, <2>8 DEF Logout, Knows, NoCall
  <2>9. QED
    BY <1>1, <1>c, <2>1, <2>2, <2>3, <2>4, <2>5, <2>6, <2>7, <2>8
    DEF SignIn, IssueTokens, OpenSession, RotateToken, Exchange
<1>2. ASSUME NEW c \in Calls, Password(c) PROVE CallInv'
  <2>1. ASSUME NEW l \in Links, ResetRead(c, l) PROVE CallInv'
    BY <1>a, <2>1 DEF ResetRead, Knows, NoCall
  <2>2. CASE ForgotDelete(c) \/ ResetCommit(c) \/ ChangeCommit(c)
    BY <1>a, <2>2 DEF ForgotDelete, ResetCommit, Reset, ChangeCommit, Knows, NoCall
  <2>3. ASSUME NEW s \in Sids, ChangeRead(c, s) PROVE CallInv'
    BY <1>a, <2>3 DEF ChangeRead, Knows, NoCall
  <2>4. ASSUME NEW s \in Sids, StartSetup(c, s) PROVE CallInv'
    BY <1>a, <2>4 DEF StartSetup, Knows, NoCall
  <2>5. ASSUME NEW g \in Subjects, VerifySetup(c, g) PROVE CallInv'
    <3> DEFINE r == [call[c] EXCEPT !.op = "grant", !.subject = g, !.hash = user.hash]
    <3>1. r.op = "grant" /\ r.subject = g /\ r.sid = call[c].sid
      BY NewRows DEF CallType
    <3>2. call[c].sid \in Sids
      BY <2>5 DEF VerifySetup, CallInv, Knows
    <3>3. call' = [call EXCEPT ![c] = r]
      BY <2>5 DEF VerifySetup
    <3>4. QED
      BY <1>a, <3>1, <3>2, <3>3 DEF Begin, Knows
  <2>6. CASE SetPassword(c)
    <3>1. call[c].sid \in Sids
      BY <2>6 DEF SetPassword, CallInv, Knows
    <3>2. QED
      BY <1>a, <2>6, <3>1 DEF SetPassword, Knows, NoCall
  <2>7. QED
    BY <1>2, <1>c, <2>1, <2>2, <2>3, <2>4, <2>5, <2>6 DEF Password, ForgotCreate
<1>3. ASSUME NEW c \in Calls, Access(c) PROVE CallInv'
  <2>1. ASSUME NEW s \in Sids, SocketHandshake(c, s) PROVE CallInv'
    BY <1>a, <2>1 DEF SocketHandshake, Knows, NoCall
  <2>2. CASE BanUser(c)
    BY <1>a, <2>2 DEF BanUser, Knows, NoCall
  <2>3. QED
    BY <1>3, <1>c, <2>1, <2>2 DEF Access, SocketJoin, GiveUp, Disconnect,
       disconnectUserSockets, disconnectOtherUserSessions, disconnectSessionSockets
<1>4. CASE Environment
  BY <1>4, <1>b, <1>d DEF Environment, VerifyEmail, RestoreUser, Restart, SessionExpires,
     SocketCloses, LinkExpires, CallInv
<1>5. QED
  BY <1>1, <1>2, <1>3, <1>4, <1>d DEF Next, vars

\* The steps that write a row; the others only read.
LEMMA RowSteps ==
    ASSUME [Next]_vars
    PROVE  \/ UNCHANGED rows
           \/ \E c \in Calls : \/ RegisterCreate(c) \/ LinkGoogle(c) \/ GoogleCreate(c)
                               \/ \E s \in Sids : IssueTokens(c, s) \/ Logout(c, s)
                               \/ RotateToken(c)
           \/ \E c \in Calls : \/ ForgotDelete(c) \/ ResetCommit(c) \/ ChangeCommit(c)
                               \/ \E l \in Links : ForgotCreate(c, l)
                               \/ \E g \in Subjects : VerifySetup(c, g)
                               \/ SetPassword(c)
           \/ VerifyEmail \/ RestoreUser \/ \E c \in Calls : BanUser(c)
           \/ \E s \in Sids : SessionExpires(s)
           \/ \E l \in Links : LinkExpires(l)
<1>1. ASSUME NEW c \in Calls, SignIn(c)
      PROVE  \/ UNCHANGED rows
             \/ RegisterCreate(c) \/ LinkGoogle(c) \/ GoogleCreate(c) \/ RotateToken(c)
             \/ \E s \in Sids : IssueTokens(c, s) \/ Logout(c, s)
  BY <1>1 DEF SignIn, RegisterRead, LoginRead, GoogleRead, RefreshRead
<1>2. ASSUME NEW c \in Calls, Password(c)
      PROVE  \/ UNCHANGED rows
             \/ ForgotDelete(c) \/ ResetCommit(c) \/ ChangeCommit(c) \/ SetPassword(c)
             \/ \E l \in Links : ForgotCreate(c, l)
             \/ \E g \in Subjects : VerifySetup(c, g)
  BY <1>2 DEF Password, ResetRead, ChangeRead, StartSetup
<1>3. ASSUME NEW c \in Calls, Access(c) PROVE UNCHANGED rows \/ BanUser(c)
  BY <1>3 DEF Access, SocketHandshake, SocketJoin, GiveUp, Disconnect,
     disconnectUserSockets, disconnectOtherUserSessions, disconnectSessionSockets
<1>4. CASE Environment
  BY <1>4 DEF Environment, Restart, SocketCloses
<1>5. QED
  BY <1>1, <1>2, <1>3, <1>4 DEF Next, vars

\* Until the account is created nothing but its creation can happen to it.
LEMMA NextAccount ==
    ASSUME TypeOK, CallInv, AccountInv, [Next]_vars
    PROVE  AccountInv'
<1> USE NewRows
<1> SUFFICES ASSUME ~user'.exists
             PROVE  user' = NoUser /\ \A s \in Sids : session'[s].state \notin {"live", "expired"}
  BY DEF AccountInv, Stored
<1>0. ~user.exists /\ user = NoUser /\ \A s \in Sids : ~Stored(s)
  BY AccountStays DEF AccountInv
<1>1. CASE UNCHANGED <<user, session>>
  BY <1>0, <1>1 DEF Stored
<1>2. ASSUME NEW c \in Calls, RegisterCreate(c) \/ GoogleCreate(c) PROVE FALSE
  BY <1>2 DEF RegisterCreate, GoogleCreate, NoUser
<1>3. ASSUME NEW c \in Calls, LinkGoogle(c) \/ \E s \in Sids : IssueTokens(c, s) PROVE FALSE
  BY <1>0, <1>3 DEF LinkGoogle, IssueTokens, CallInv, Knows
<1>4. ASSUME NEW c \in Calls, RotateToken(c) \/ \E s \in Sids : Logout(c, s) PROVE FALSE
  BY <1>0, <1>4 DEF RotateToken, Logout, CallInv, Knows, Stored, Valid
<1>5. ASSUME NEW c \in Calls,
             ResetCommit(c) \/ ChangeCommit(c) \/ SetPassword(c) \/ \E g \in Subjects : VerifySetup(c, g)
      PROVE  FALSE
  BY <1>0, <1>5 DEF ResetCommit, Resettable, ChangeCommit, SetPassword, VerifySetup, ActiveSession,
     CallInv, Knows, Stored, Valid
<1>6. CASE VerifyEmail \/ RestoreUser \/ \E c \in Calls : BanUser(c)
  BY <1>0, <1>6 DEF VerifyEmail, RestoreUser, BanUser, NoUser
<1>7. ASSUME NEW s \in Sids, SessionExpires(s) PROVE FALSE
  BY <1>0, <1>7 DEF SessionExpires, Stored, Valid
<1>8. QED
  BY <1>1, <1>2, <1>3, <1>4, <1>5, <1>6, <1>7, RowSteps
  DEF rows, ForgotDelete, ForgotCreate, LinkExpires

-----------------------------------------------------------------------------
(* Tokens and links                                                         *)

\* One entry of a table of counters is increased, the others stay.
LEMMA OneMore ==
    ASSUME NEW S, NEW f \in [S -> Nat], NEW n, NEW m \in S
    PROVE  [f EXCEPT ![n] = @ + 1][m] = IF m = n THEN f[m] + 1 ELSE f[m]
OBVIOUS

\* A refresh token is exchanged only while it is the stored one, which the
\* exchange replaces; a link sets a password only while it is fresh.
LEMMA NextTokens ==
    ASSUME TypeOK, CallInv, TokenInv, [Next]_vars
    PROVE  TokenInv'
<1> USE NewRows
<1> DEFINE TokensKept == \A s \in Sids : /\ session'[s].token = session[s].token
                                         /\ session'[s].state = "none" => session[s].state = "none"
           NewOK   == \A s \in Sids : session'[s].state = "none" => session'[s].token = 0
           HeirsOK == \A s \in Sids, n \in 1 .. MaxToken :
                         heirs'[s][n] <= 1 /\ (n >= session'[s].token => heirs'[s][n] = 0)
           LinksOK == \A l \in Links :
                         link'[l].resets <= 1 /\ (link'[l].state \in {"none", "fresh"} => link'[l].resets = 0)
<1>1. NewOK /\ HeirsOK
  <2>1. heirs' = heirs /\ TokensKept => NewOK /\ HeirsOK
    <3> SUFFICES ASSUME heirs' = heirs, TokensKept, NEW s \in Sids
                 PROVE  /\ session'[s].state = "none" => session'[s].token = 0
                        /\ \A n \in 1 .. MaxToken :
                              heirs'[s][n] <= 1 /\ (n >= session'[s].token => heirs'[s][n] = 0)
      OBVIOUS
    <3>1. QED
      BY DEF TokenInv
  <2>2. ASSUME NEW c \in Calls, NEW s \in Sids, IssueTokens(c, s) PROVE NewOK /\ HeirsOK
    <3>0. session[s].token = 0
      BY <2>2 DEF IssueTokens, TokenInv
    <3>1. \A n \in 1 .. MaxToken : n >= session[s].token /\ heirs[s][n] = 0
      BY <3>0, BoundsAssumption DEF TokenInv
    <3>2. session'[s].state = "live" /\ session'[s].token = 1
      BY <2>2 DEF IssueTokens, OpenSession
    <3>3. \A t \in Sids \ {s} : session'[t] = session[t]
      BY <2>2 DEF IssueTokens, OpenSession
    <3>4. heirs' = heirs
      BY <2>2 DEF IssueTokens, OpenSession
    <3>5. \A t \in Sids \ {s} :
             /\ session'[t].state = "none" => session'[t].token = 0
             /\ \A n \in 1 .. MaxToken : heirs'[t][n] <= 1 /\ (n >= session'[t].token => heirs'[t][n] = 0)
      BY <3>3, <3>4 DEF TokenInv
    <3>6. QED
      BY <3>1, <3>2, <3>4, <3>5
  <2>3. ASSUME NEW c \in Calls, RotateToken(c) PROVE NewOK /\ HeirsOK
    <3> DEFINE s == call[c].sid
               k == session[s].token
    <3>1. s \in Sids /\ k \in Nat /\ session[s].state = "live" /\ k = call[c].token
      BY <2>3 DEF RotateToken, Valid, CallInv, Knows, SessionType
    <3>2. session'[s].state = "live" /\ session'[s].token = k + 1
      BY <2>3, <3>1 DEF RotateToken, Exchange, SessionType
    <3>3. \A t \in Sids \ {s} : session'[t] = session[t] /\ heirs'[t] = heirs[t]
      BY <2>3, <3>1 DEF RotateToken, Exchange, TypeOK
    <3>4. heirs'[s] = [heirs[s] EXCEPT ![k] = @ + 1]
      BY <2>3, <3>1 DEF RotateToken, Exchange, TypeOK
    <3>5. heirs[s] \in [1 .. MaxToken -> Nat]
      BY <3>1 DEF TypeOK
    <3>6. \A n \in 1 .. MaxToken : heirs'[s][n] = IF n = k THEN heirs[s][n] + 1 ELSE heirs[s][n]
      BY <3>4, <3>5, OneMore, ZenonT(60)
    <3>7. \A n \in 1 .. MaxToken : heirs[s][n] <= 1 /\ (n >= k => heirs[s][n] = 0)
      BY <3>1 DEF TokenInv
    <3>8. \A n \in 1 .. MaxToken : heirs'[s][n] <= 1 /\ (n >= k + 1 => heirs'[s][n] = 0)
      BY <3>1, <3>5, <3>6, <3>7
    <3>9. \A t \in Sids \ {s} :
             /\ session'[t].state = "none" => session'[t].token = 0
             /\ \A n \in 1 .. MaxToken : heirs'[t][n] <= 1 /\ (n >= session'[t].token => heirs'[t][n] = 0)
      BY <3>3 DEF TokenInv
    <3>10. QED
      BY <3>2, <3>8, <3>9
  <2>4. ASSUME NEW Keep
        PROVE  \A s \in Sids : /\ Revoke(Keep)[s].token = session[s].token
                               /\ Revoke(Keep)[s].state = "none" => session[s].state = "none"
    BY DEF Revoke, SessionType
  <2>5. ASSUME NEW c \in Calls, ResetCommit(c) \/ ChangeCommit(c) PROVE heirs' = heirs /\ TokensKept
    BY <2>4, <2>5 DEF ResetCommit, Reset, ChangeCommit
  <2>6. ASSUME NEW c \in Calls, SetPassword(c) PROVE heirs' = heirs /\ TokensKept
    <3>1. Revoke({call[c].sid}) \in [Sids -> SessionType]
      OBVIOUS
    <3>2. \A s \in Sids : /\ session'[s].token = Revoke({call[c].sid})[s].token
                          /\ session'[s].state = Revoke({call[c].sid})[s].state
      BY <2>6, <3>1 DEF SetPassword, SessionType
    <3>3. QED
      BY <2>4, <2>6, <3>2 DEF SetPassword
  <2>7. ASSUME NEW c \in Calls, NEW s \in Sids, Logout(c, s) PROVE heirs' = heirs /\ TokensKept
    BY <2>7 DEF Logout, SessionType
  <2>8. ASSUME NEW s \in Sids, SessionExpires(s) PROVE heirs' = heirs /\ TokensKept
    BY <2>8 DEF SessionExpires, SessionType
  <2>9. CASE UNCHANGED <<session, heirs>>
    BY <2>1, <2>9
  <2>10. QED
    BY <2>1, <2>2, <2>3, <2>5, <2>6, <2>7, <2>8, <2>9, RowSteps
    DEF rows, RegisterCreate, LinkGoogle, GoogleCreate, ForgotDelete, ForgotCreate, VerifySetup,
        VerifyEmail, RestoreUser, BanUser, LinkExpires
<1>2. LinksOK
  <2>1. CASE UNCHANGED link
    BY <2>1 DEF TokenInv
  <2>2. \A l \in Links : /\ DropLinks[l].resets = link[l].resets
                         /\ DropLinks[l].state \in {"none", "fresh"} => link[l].state = "none"
    BY DEF DropLinks, LinkType
  <2>3. link' = DropLinks => LinksOK
    BY <2>2 DEF TokenInv
  <2>4. ASSUME NEW c \in Calls, NEW l \in Links, ForgotCreate(c, l) PROVE LinksOK
    BY <2>4 DEF ForgotCreate, LinkType, TokenInv
  <2>5. ASSUME NEW l \in Links, LinkExpires(l) PROVE LinksOK
    BY <2>5 DEF LinkExpires, LinkType, TokenInv
  <2>6. ASSUME NEW c \in Calls, ResetCommit(c) PROVE LinksOK
    <3> DEFINE l == call[c].link
    <3>1. l \in Links /\ link[l].resets = 0
      BY <2>6 DEF ResetCommit, CallInv, Knows, TokenInv
    <3>2. link'[l].state = "used" /\ link'[l].resets = 1
      BY <2>6, <3>1 DEF ResetCommit, Reset
    <3>3. \A m \in Links \ {l} : link'[m] = link[m]
      BY <2>6, <3>1 DEF ResetCommit, Reset
    <3>4. QED
      BY <3>2, <3>3 DEF TokenInv
  <2>7. QED
    BY <2>1, <2>3, <2>4, <2>5, <2>6, RowSteps
    DEF rows, RegisterCreate, LinkGoogle, GoogleCreate, IssueTokens, OpenSession, RotateToken, Exchange,
        Logout, ForgotDelete, ChangeCommit, VerifySetup, SetPassword, VerifyEmail, RestoreUser, BanUser,
        SessionExpires
<1>3. QED
  BY <1>1, <1>2 DEF TokenInv

-----------------------------------------------------------------------------
(* Sessions and the password                                                *)

\* Rows that stay, with the password they had, still match an unchanged password.
LEMMA SamePassword ==
    ASSUME SessionsMatchPassword, user'.hash = user.hash,
           \A s \in Sids : Stored(s)' => Stored(s) /\ session'[s].hash = session[s].hash
    PROVE  SessionsMatchPassword'
BY DEF SessionsMatchPassword

\* deleteMany keeps of the sessions only those it is told to.
LEMMA OnlyKept ==
    ASSUME TypeOK, NEW Keep, NEW s \in Sids,
           Revoke(Keep)[s].state \in {"live", "expired"}
    PROVE  s \in Keep /\ Revoke(Keep)[s] = session[s]
<1>1. Stored(s) /\ s \notin Keep => Revoke(Keep)[s].state = "gone"
  BY NewRows DEF Revoke, SessionType
<1>2. ~(Stored(s) /\ s \notin Keep) => Revoke(Keep)[s] = session[s]
  BY DEF Revoke
<1>3. QED
  BY <1>1, <1>2 DEF Stored

\* A sign-in opens its session only if the password it checked is still the
\* one in force, and whatever changes the password revokes the other sessions.
LEMMA NextMatches ==
    ASSUME TypeOK, CallInv, AccountInv, SessionsMatchPassword, [Next]_vars
    PROVE  SessionsMatchPassword'
<1> USE NewRows
<1> DEFINE RowsKept == \A s \in Sids : Stored(s)' => Stored(s) /\ session'[s].hash = session[s].hash
<1>1. session' = session => RowsKept
  BY DEF Stored
<1>2. ASSUME NEW c \in Calls, RegisterCreate(c) \/ GoogleCreate(c) PROVE SessionsMatchPassword'
  BY <1>2 DEF RegisterCreate, GoogleCreate, AccountInv, SessionsMatchPassword, Stored
<1>3. ASSUME NEW c \in Calls, LinkGoogle(c) \/ BanUser(c) \/ \E g \in Subjects : VerifySetup(c, g)
      PROVE  SessionsMatchPassword'
  <2>1. user'.hash = user.hash /\ session' = session
    BY <1>3 DEF LinkGoogle, BanUser, VerifySetup, UserType
  <2>2. QED
    BY <1>1, <2>1, SamePassword
<1>4. CASE VerifyEmail \/ RestoreUser
  <2>1. user'.hash = user.hash /\ session' = session
    BY <1>4 DEF VerifyEmail, RestoreUser, UserType
  <2>2. QED
    BY <1>1, <2>1, SamePassword
<1>5. CASE UNCHANGED <<user, session>>
  BY <1>1, <1>5, SamePassword
<1>6. ASSUME NEW c \in Calls, NEW s \in Sids, IssueTokens(c, s) PROVE SessionsMatchPassword'
  <2>1. user'.hash = user.hash
    BY <1>6 DEF IssueTokens, OpenSession, UserType
  <2>2. session'[s].hash = user.hash /\ \A t \in Sids \ {s} : session'[t] = session[t]
    BY <1>6 DEF IssueTokens, OpenSession
  <2>3. QED
    BY <2>1, <2>2 DEF SessionsMatchPassword, Stored
<1>7. ASSUME NEW c \in Calls, NEW s \in Sids, Logout(c, s) PROVE SessionsMatchPassword'
  <2>1. RowsKept
    BY <1>7 DEF Logout, Stored, SessionType
  <2>2. QED
    BY <1>7, <2>1, SamePassword DEF Logout
<1>8. ASSUME NEW s \in Sids, SessionExpires(s) PROVE SessionsMatchPassword'
  <2>1. RowsKept
    BY <1>8 DEF SessionExpires, Valid, Stored, SessionType
  <2>2. QED
    BY <1>8, <2>1, SamePassword DEF SessionExpires
<1>9. ASSUME NEW c \in Calls, RotateToken(c) PROVE SessionsMatchPassword'
  <2>1. RowsKept
    BY <1>9 DEF RotateToken, Exchange, Stored, SessionType
  <2>2. QED
    BY <1>9, <2>1, SamePassword DEF RotateToken, Exchange
<1>10. ASSUME NEW c \in Calls, ResetCommit(c) \/ ChangeCommit(c) PROVE SessionsMatchPassword'
  <2>1. session' = Revoke({})
    BY <1>10 DEF ResetCommit, Reset, ChangeCommit
  <2>2. \A s \in Sids : session'[s].state \notin {"live", "expired"}
    BY <2>1, OnlyKept
  <2>3. QED
    BY <2>2 DEF SessionsMatchPassword, Stored
<1>11. ASSUME NEW c \in Calls, SetPassword(c) PROVE SessionsMatchPassword'
  <2> DEFINE s == call[c].sid
             R == Revoke({s})
  <2>1. s \in Sids
    BY <1>11 DEF SetPassword, CallInv, Knows
  <2>2. R \in [Sids -> SessionType] /\ user.hash \in Nat
    BY DEF UserType
  <2>3. session' = [R EXCEPT ![s].hash = user.hash + 1] /\ user' = NewPassword(user)
    BY <1>11 DEF SetPassword
  <2>4. user'.hash = user.hash + 1
    BY <2>2, <2>3 DEF NewPassword, UserType
  <2>5. session'[s].hash = user.hash + 1
    BY <2>1, <2>2, <2>3 DEF SessionType
  <2>6. ASSUME NEW t \in Sids \ {s} PROVE session'[t].state \notin {"live", "expired"}
    <3>1. session'[t] = R[t]
      BY <2>2, <2>3
    <3>2. QED
      BY <3>1, OnlyKept
  <2>7. QED
    BY <2>4, <2>5, <2>6 DEF SessionsMatchPassword, Stored
<1>12. QED
  BY <1>2, <1>3, <1>4, <1>5, <1>6, <1>7, <1>8, <1>9, <1>10, <1>11, RowSteps
  DEF rows, ForgotDelete, ForgotCreate, LinkExpires

-----------------------------------------------------------------------------
(* Sockets                                                                  *)

Kicks == {"kickUser", "kickOthers", "kickSession"}

\* Request c is about to disconnect the sockets of session s.
WillKick(c, s) ==
    \/ call[c].op = "kickUser"
    \/ call[c].op = "kickOthers" /\ call[c].sid # s
    \/ call[c].op = "kickSession" /\ call[c].sid = s

Served(s) == Stored(s) /\ ~user.banned

\* The property, in these words.
LEMMA SocketsInWords ==
    SocketsFollowSessions <=> \A s \in sockets \ late : Served(s) \/ \E c \in Calls : WillKick(c, s)
BY DEF SocketsFollowSessions, Served, WillKick

\* A request that is not about to disconnect sockets may go on or end.
LEMMA OtherKicks ==
    ASSUME TypeOK, NEW c \in Calls, NEW r, Begin(c, r), call[c].op \notin Kicks
    PROVE  \A d \in Calls : call[d].op \in Kicks => call'[d] = call[d]
BY DEF Begin, TypeOK

\* Sessions that stay served, and disconnections that stay due, keep it.
LEMMA SameSockets ==
    ASSUME SocketsFollowSessions, TypeOK,
           \A s \in Sids : Served(s) => Served(s)',
           \A d \in Calls : call[d].op \in Kicks => call'[d] = call[d],
           (sockets \ late)' \subseteq sockets \ late
    PROVE  SocketsFollowSessions'
<1>1. \A s \in (sockets \ late)' : Served(s)' \/ \E c \in Calls : WillKick(c, s)'
  <2> TAKE s \in (sockets \ late)'
  <2>1. s \in sockets \ late /\ s \in Sids
    BY DEF TypeOK
  <2>2. CASE Served(s)
    BY <2>1, <2>2
  <2>3. ASSUME NEW c \in Calls, WillKick(c, s) PROVE WillKick(c, s)'
    BY <2>3 DEF WillKick, Kicks
  <2>4. QED
    BY <2>1, <2>2, <2>3, SocketsInWords
<1>2. QED
  BY <1>1 DEF SocketsFollowSessions, Served, WillKick

\* Whatever revokes a session or bans the account disconnects its sockets next.
LEMMA NextSockets ==
    ASSUME TypeOK, CallInv, SocketsFollowSessions, [Next]_vars
    PROVE  SocketsFollowSessions'
<1> USE NewRows
<1> DEFINE RowsServed == \A s \in Sids : Served(s) => Served(s)'
           KicksKept  == \A d \in Calls : call[d].op \in Kicks => call'[d] = call[d]
<1>a. UNCHANGED <<user, session>> => RowsServed
  BY DEF Served, Stored
<1>b. UNCHANGED live => (sockets \ late)' \subseteq sockets \ late
  BY DEF live
<1>c. ASSUME NEW c \in Calls, NEW r, Begin(c, r), call[c].op \notin Kicks, RowsServed, UNCHANGED live
      PROVE  SocketsFollowSessions'
  BY <1>b, <1>c, OtherKicks, SameSockets
<1>d. ASSUME NEW c \in Calls, NEW r, Begin(c, r), r.op = "kickUser"
      PROVE  SocketsFollowSessions'
  <2>1. call'[c].op = "kickUser"
    BY <1>d DEF Begin, TypeOK
  <2>2. QED
    BY <2>1 DEF SocketsFollowSessions
<1>1. ASSUME NEW c \in Calls, SignIn(c) PROVE SocketsFollowSessions'
  <2>1. CASE RegisterCreate(c)
    <3>1. RowsServed
      BY <2>1 DEF RegisterCreate, NoUser, Served, Stored
    <3>2. QED
      BY <1>c, <2>1, <3>1 DEF RegisterCreate, Kicks
  <2>2. CASE GoogleCreate(c)
    <3>1. RowsServed
      BY <2>2 DEF GoogleCreate, NoUser, Served, Stored
    <3>2. QED
      BY <1>c, <2>2, <3>1 DEF GoogleCreate, Kicks
  <2>3. CASE LinkGoogle(c)
    <3>1. RowsServed
      BY <2>3 DEF LinkGoogle, Served, Stored, UserType
    <3>2. QED
      BY <1>c, <2>3, <3>1 DEF LinkGoogle, Kicks
  <2>4. ASSUME NEW s \in Sids, IssueTokens(c, s) PROVE SocketsFollowSessions'
    <3>1. RowsServed
      BY <2>4 DEF IssueTokens, OpenSession, Served, Stored, UserType
    <3>2. QED
      BY <1>c, <2>4, <3>1 DEF IssueTokens, OpenSession, End, Begin, Kicks
  <2>5. CASE RotateToken(c)
    <3>1. RowsServed
      BY <2>5 DEF RotateToken, Exchange, Served, Stored, SessionType
    <3>2. QED
      BY <1>c, <2>5, <3>1 DEF RotateToken, Exchange, End, Begin, Kicks
  <2>6. ASSUME NEW s \in Sids, Logout(c, s) PROVE SocketsFollowSessions'
    <3>1. call'[c].op = "kickSession" /\ call'[c].sid = s
      BY <2>6 DEF Logout, Begin, TypeOK, NoCall
    <3>2. \A d \in Calls : call[d].op \in Kicks => call'[d] = call[d]
      BY <2>6, OtherKicks DEF Logout, Idle, Kicks
    <3>3. \A t \in Sids \ {s} : Served(t) => Served(t)'
      BY <2>6 DEF Logout, Served, Stored
    <3>4. UNCHANGED <<sockets, late>>
      BY <2>6 DEF Logout, live
    <3>5. \A t \in sockets \ late : Served(t)' \/ \E d \in Calls : WillKick(d, t)'
      <4> TAKE t \in sockets \ late
      <4>1. CASE t = s
        BY <3>1, <4>1 DEF WillKick
      <4>2. CASE t # s /\ Served(t)
        BY <3>3, <4>2 DEF TypeOK
      <4>3. ASSUME NEW d \in Calls, WillKick(d, t) PROVE WillKick(d, t)'
        BY <3>2, <4>3 DEF WillKick, Kicks
      <4>4. QED
        BY <4>1, <4>2, <4>3, SocketsInWords
    <3>6. QED
      BY <3>4, <3>5 DEF SocketsFollowSessions, Served, WillKick
  <2>7. CASE RegisterRead(c) \/ LoginRead(c) \/ \E s \in Sids : RefreshRead(c, s)
    BY <1>a, <1>c, <2>7 DEF RegisterRead, LoginRead, RefreshRead, Idle, rows, Kicks
  <2>8. ASSUME NEW g \in Subjects, GoogleRead(c, g) PROVE SocketsFollowSessions'
    BY <1>a, <1>c, <2>8 DEF GoogleRead, Idle, rows, Kicks
  <2>9. QED
    BY <1>1, <2>1, <2>2, <2>3, <2>4, <2>5, <2>6, <2>7, <2>8 DEF SignIn
<1>2. ASSUME NEW c \in Calls, Password(c) PROVE SocketsFollowSessions'
  <2>1. CASE ResetCommit(c) \/ ChangeCommit(c)
    BY <1>d, <2>1 DEF ResetCommit, Reset, ChangeCommit, NoCall
  <2>2. CASE SetPassword(c)
    <3> DEFINE s == call[c].sid
    <3>0. s \in Sids /\ call[c].op = "grant" /\ Served(s)
      BY <2>2 DEF SetPassword, CallInv, Knows, ActiveSession, Valid, Served, Stored
    <3>1. call'[c].op = "kickOthers" /\ call'[c].sid = s
      BY <2>2 DEF SetPassword, Begin, TypeOK, NoCall
    <3>2. \A t \in Sids \ {s} : WillKick(c, t)'
      BY <3>1 DEF WillKick
    <3>3. ASSUME NEW t \in Sids, t = s PROVE Served(t)'
      <4>1. ~user'.banned
        BY <2>2, <3>0 DEF SetPassword, NewPassword, Served, UserType
      <4>2. Revoke({s})[s] = session[s] /\ Revoke({s}) \in [Sids -> SessionType]
        BY <3>0 DEF Revoke
      <4>3. session'[s].state = session[s].state
        BY <2>2, <3>0, <4>2 DEF SetPassword, SessionType
      <4>4. QED
        BY <3>0, <3>3, <4>1, <4>3 DEF Served, Stored
    <3>4. sockets' \subseteq Sids
      BY <2>2 DEF SetPassword, live, TypeOK
    <3>5. QED
      BY <3>2, <3>3, <3>4 DEF SocketsFollowSessions, Served, WillKick
  <2>3. ASSUME NEW g \in Subjects, VerifySetup(c, g) PROVE SocketsFollowSessions'
    <3>1. RowsServed
      BY <2>3 DEF VerifySetup, Served, Stored, UserType
    <3>2. KicksKept
      BY <2>3 DEF VerifySetup, Kicks, TypeOK
    <3>3. QED
      BY <1>b, <2>3, <3>1, <3>2, SameSockets DEF VerifySetup
  <2>4. CASE ForgotDelete(c) \/ \E l \in Links : ResetRead(c, l)
    BY <1>a, <1>c, <2>4 DEF ForgotDelete, ResetRead, Idle, rows, Kicks
  <2>5. ASSUME NEW s \in Sids, ChangeRead(c, s) \/ StartSetup(c, s) PROVE SocketsFollowSessions'
    BY <1>a, <1>c, <2>5 DEF ChangeRead, StartSetup, Idle, rows, Kicks
  <2>6. ASSUME NEW l \in Links, ForgotCreate(c, l) PROVE SocketsFollowSessions'
    BY <1>a, <1>c, <2>6 DEF ForgotCreate, End, Begin, Kicks
  <2>7. QED
    BY <1>2, <2>1, <2>2, <2>3, <2>4, <2>5, <2>6 DEF Password
<1>3. ASSUME NEW c \in Calls, Access(c) PROVE SocketsFollowSessions'
  <2>1. ASSUME NEW s \in Sids, SocketHandshake(c, s) PROVE SocketsFollowSessions'
    BY <1>a, <1>c, <2>1 DEF SocketHandshake, Idle, rows, Kicks
  <2>2. CASE SocketJoin(c)
    <3> DEFINE s == call[c].sid
    <3>0. s \in Sids /\ UNCHANGED <<user, session>>
      BY <2>2 DEF SocketJoin, CallInv, Knows, rows
    <3>1. \A t \in Sids : Served(t)' <=> Served(t)
      BY <3>0 DEF Served, Stored
    <3>2. \A d \in Calls : call[d].op \in Kicks => call'[d] = call[d]
      BY <2>2, OtherKicks DEF SocketJoin, End, Begin, Kicks
    <3>3. \A t \in (sockets \ late)' : t \in sockets \ late \/ (t = s /\ Served(s))
      BY <2>2, <3>0 DEF SocketJoin, Served
    <3>4. \A t \in (sockets \ late)' : Served(t)' \/ \E d \in Calls : WillKick(d, t)'
      <4> TAKE t \in (sockets \ late)'
      <4>1. CASE t = s /\ Served(s)
        BY <3>0, <3>1, <4>1
      <4>2. CASE t \in sockets \ late /\ Served(t)
        BY <3>1, <4>2 DEF TypeOK
      <4>3. ASSUME NEW d \in Calls, WillKick(d, t) PROVE WillKick(d, t)'
        BY <3>2, <4>3 DEF WillKick, Kicks
      <4>4. QED
        BY <3>3, <4>1, <4>2, <4>3, SocketsInWords
    <3>5. QED
      BY <3>4 DEF SocketsFollowSessions, Served, WillKick
  <2>3. CASE GiveUp(c)
    BY <1>a, <1>c, <2>3 DEF GiveUp, End, Begin, rows, Kicks
  <2>4. CASE BanUser(c)
    BY <1>d, <2>4 DEF BanUser, NoCall
  <2>5. ASSUME NEW gone, Disconnect(c, gone), \A s \in Sids : WillKick(c, s) => s \in gone
        PROVE  SocketsFollowSessions'
    <3>1. \A t \in Sids : Served(t)' <=> Served(t)
      BY <2>5 DEF Disconnect, rows, Served, Stored
    <3>2. \A d \in Calls \ {c} : call'[d] = call[d]
      BY <2>5 DEF Disconnect, End, TypeOK
    <3>3. \A t \in (sockets \ late)' : Served(t)' \/ \E d \in Calls : WillKick(d, t)'
      <4> TAKE t \in (sockets \ late)'
      <4>1. t \in sockets \ late /\ t \notin gone /\ t \in Sids
        BY <2>5 DEF Disconnect, TypeOK
      <4>2. CASE Served(t)
        BY <3>1, <4>1, <4>2
      <4>3. ASSUME NEW d \in Calls, WillKick(d, t) PROVE WillKick(d, t)'
        <5>1. d # c
          BY <2>5, <4>1, <4>3
        <5>2. QED
          BY <3>2, <4>3, <5>1 DEF WillKick
      <4>4. QED
        BY <4>1, <4>2, <4>3, SocketsInWords
    <3>4. QED
      BY <3>3 DEF SocketsFollowSessions, Served, WillKick
  <2>6. CASE disconnectUserSockets(c)
    BY <2>5, <2>6 DEF disconnectUserSockets
  <2>7. CASE disconnectOtherUserSessions(c)
    <3>1. \A s \in Sids : WillKick(c, s) => s \in Sids \ {call[c].sid}
      BY <2>7 DEF disconnectOtherUserSessions, WillKick
    <3>2. QED
      BY <2>5, <2>7, <3>1 DEF disconnectOtherUserSessions
  <2>8. CASE disconnectSessionSockets(c)
    <3>1. \A s \in Sids : WillKick(c, s) => s \in {call[c].sid}
      BY <2>8 DEF disconnectSessionSockets, WillKick
    <3>2. QED
      BY <2>5, <2>8, <3>1 DEF disconnectSessionSockets
  <2>9. QED
    BY <1>3, <2>1, <2>2, <2>3, <2>4, <2>6, <2>7, <2>8 DEF Access
<1>4. CASE Environment
  <2>1. CASE VerifyEmail \/ RestoreUser
    <3>1. RowsServed
      BY <2>1 DEF VerifyEmail, RestoreUser, Served, Stored, UserType
    <3>2. QED
      BY <1>b, <2>1, <3>1, SameSockets DEF VerifyEmail, RestoreUser
  <2>2. CASE Restart
    BY <2>2 DEF Restart, SocketsFollowSessions
  <2>3. ASSUME NEW s \in Sids, SessionExpires(s) PROVE SocketsFollowSessions'
    <3>1. RowsServed
      BY <2>3 DEF SessionExpires, Valid, Served, Stored, SessionType
    <3>2. QED
      BY <1>b, <2>3, <3>1, SameSockets DEF SessionExpires
  <2>4. ASSUME NEW s \in Sids, SocketCloses(s) PROVE SocketsFollowSessions'
    <3>1. RowsServed /\ call' = call
      BY <1>a, <2>4 DEF SocketCloses, rows
    <3>2. (sockets \ late)' \subseteq sockets \ late
      BY <2>4 DEF SocketCloses
    <3>3. QED
      BY <3>1, <3>2, SameSockets
  <2>5. ASSUME NEW l \in Links, LinkExpires(l) PROVE SocketsFollowSessions'
    BY <1>a, <1>b, <2>5, SameSockets DEF LinkExpires
  <2>6. QED
    BY <1>4, <2>1, <2>2, <2>3, <2>4, <2>5 DEF Environment
<1>5. CASE UNCHANGED vars
  BY <1>a, <1>b, <1>5, SameSockets DEF vars, rows
<1>6. QED
  BY <1>1, <1>2, <1>3, <1>4, <1>5 DEF Next

-----------------------------------------------------------------------------
(* Every reachable state                                                    *)

\* The program starts in the invariant.
LEMMA InitInv == Init => IInv
<1> SUFFICES ASSUME Init PROVE IInv
  OBVIOUS
<1>1. TypeOK
  BY InitType
<1>2. CallInv
  BY DEF Init, CallInv, Knows, NoCall
<1>3. AccountInv
  <2>1. user # NoUser => user.exists
    BY DEF Init, NoUser
  <2>2. QED
    BY <2>1 DEF Init, AccountInv, Stored, NoSession
<1>4. TokenInv
  <2>1. \A s \in Sids : session[s].token = 0 /\ heirs[s] = [n \in 1 .. MaxToken |-> 0]
    BY DEF Init, NoSession
  <2>2. \A s \in Sids, n \in 1 .. MaxToken : heirs[s][n] = 0
    BY <2>1
  <2>3. \A l \in Links : link[l].resets = 0
    BY DEF Init, NoLink
  <2>4. QED
    BY <2>1, <2>2, <2>3 DEF TokenInv
<1>5. SessionsMatchPassword /\ SocketsFollowSessions
  BY DEF Init, SessionsMatchPassword, SocketsFollowSessions, Stored, NoSession
<1>6. QED
  BY <1>1, <1>2, <1>3, <1>4, <1>5 DEF IInv

\* Every step keeps it.
LEMMA NextInv == IInv /\ [Next]_vars => IInv'
BY NextType, NextCalls, NextAccount, NextTokens, NextMatches, NextSockets DEF IInv

\* The invariant holds in every reachable state of the authentication code.
THEOREM Invariance == Spec => []IInv
<1>1. QED
  BY InitInv, NextInv, PTL DEF Spec

\* Every row and every request in progress stays well-formed, and an account
\* without a password keeps a Google account to sign in with.
THEOREM TypeCorrect == Spec => []TypeOK
<1>1. IInv => TypeOK
  BY DEF IInv
<1>2. QED
  BY <1>1, Invariance, PTL

\* No sign-in in progress leaves a usable session behind a change, a reset or a
\* setup of the password: issueTokens compares the hash it checked again, and
\* the others delete the rows in the transaction that writes the hash.
THEOREM SessionsMatch == Spec => []SessionsMatchPassword
<1>1. IInv => SessionsMatchPassword
  BY DEF IInv
<1>2. QED
  BY <1>1, Invariance, PTL

\* However many requests present a refresh token or a reset link, the
\* conditional updates of refreshAccessToken and resetPassword let one through.
THEOREM TokensUsedOnce == Spec => []UsedOnce
<1>1. IInv => UsedOnce
  BY DEF IInv, TokenInv, UsedOnce
<1>2. QED
  BY <1>1, Invariance, PTL

\* Every route that revokes sessions or bans the account goes on to disconnect
\* the sockets, whichever requests run beside it.
THEOREM SocketsFollow == Spec => []SocketsFollowSessions
<1>1. IInv => SocketsFollowSessions
  BY DEF IInv
<1>2. QED
  BY <1>1, Invariance, PTL

\* The connected Google account, once there is one, is compared again under the
\* account's lock by every transaction that writes one, and resetPassword refuses
\* the links mailed before it.
THEOREM GoogleStays == Spec => GoogleKept
<1>1. ASSUME IInv, [Next]_vars, user.google # "none"
      PROVE  /\ user'.google = user.google
             /\ user.passwordState # "SET" => \A l \in Links : link'[l].resets = link[l].resets
  <2> USE NewRows
  <2>0. TypeOK /\ CallInv /\ AccountInv /\ user.exists
    BY <1>1 DEF IInv, AccountInv, NoUser
  <2>1. user'.google = user.google
    <3>1. ASSUME NEW c \in Calls, RegisterCreate(c) \/ GoogleCreate(c) PROVE FALSE
      BY <2>0, <3>1 DEF RegisterCreate, GoogleCreate
    <3>2. ASSUME NEW c \in Calls, LinkGoogle(c) PROVE user'.google = user.google
      BY <1>1, <2>0, <3>2 DEF LinkGoogle, SameGoogle, UserType
    <3>3. ASSUME NEW c \in Calls, (\E g \in Subjects : VerifySetup(c, g)) \/ BanUser(c)
          PROVE  user'.google = user.google
      BY <1>1, <2>0, <3>3 DEF VerifySetup, BanUser, UserType
    <3>4. ASSUME NEW c \in Calls, \/ \E s \in Sids : IssueTokens(c, s)
                                  \/ ResetCommit(c) \/ ChangeCommit(c) \/ SetPassword(c)
          PROVE  user'.google = user.google
      BY <2>0, <3>4 DEF IssueTokens, OpenSession, ResetCommit, Reset, ChangeCommit, SetPassword,
         NewPassword, UserType
    <3>5. CASE VerifyEmail \/ RestoreUser
      BY <2>0, <3>5 DEF VerifyEmail, RestoreUser, UserType
    <3>6. QED
      BY <1>1, <3>1, <3>2, <3>3, <3>4, <3>5, RowSteps
      DEF rows, RotateToken, Exchange, Logout, ForgotDelete, ForgotCreate, SessionExpires, LinkExpires
  <2>2. ASSUME user.passwordState # "SET", NEW l \in Links PROVE link'[l].resets = link[l].resets
    <3>1. ASSUME NEW c \in Calls, ResetCommit(c) PROVE FALSE
      BY <1>1, <2>0, <2>2, <3>1 DEF ResetCommit, Resettable, UserType, PasswordStates
    <3>2. DropLinks[l].resets = link[l].resets
      BY <2>0 DEF DropLinks, LinkType
    <3>3. ASSUME NEW c \in Calls, NEW m \in Links, ForgotCreate(c, m) PROVE link'[l].resets = link[l].resets
      BY <2>0, <3>3 DEF ForgotCreate, LinkType
    <3>4. ASSUME NEW m \in Links, LinkExpires(m) PROVE link'[l].resets = link[l].resets
      BY <2>0, <3>4 DEF LinkExpires, LinkType
    <3>5. QED
      BY <1>1, <3>1, <3>2, <3>3, <3>4, RowSteps
      DEF rows, RegisterCreate, LinkGoogle, GoogleCreate, IssueTokens, OpenSession, RotateToken, Exchange,
          Logout, ForgotDelete, ChangeCommit, VerifySetup, SetPassword, VerifyEmail, RestoreUser, BanUser,
          SessionExpires
  <2>3. QED
    BY <2>1, <2>2
<1>2. IInv /\ [Next]_vars =>
        [user.google # "none" =>
           /\ user'.google = user.google
           /\ user.passwordState # "SET" =>
                 \A l \in Links : link'[l].resets = link[l].resets]_vars
  BY <1>1
<1>3. QED
  BY <1>2, Invariance, PTL DEF Spec, GoogleKept
=============================================================================
