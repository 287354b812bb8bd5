------------------------------- MODULE Sessions -------------------------------
(***************************************************************************)
(* User accounts: e-mail verification by link or code, login, refresh      *)
(* rotation with reuse detection, logout and password reset.               *)
(*                                                                         *)
(* A handler first reads without a lock and then runs one transaction, so  *)
(* it is two steps with op[r] naming the second.  Writes are column        *)
(* updates (no whole-row Save).  The e-mail that carries a link, a code or *)
(* a reset token is a job of the transaction that inserts the row: a row   *)
(* that exists was mailed.  Welcome mail and login_attempts are write-only *)
(* records and are left out; so is users.status, which no code changes.    *)
(***************************************************************************)
EXTENDS Integers, FiniteSets

CONSTANTS
    Requests,       \* concurrent requests
    Users,          \* users, by e-mail address
    Passwords,      \* passwords
    NoPassword,     \* credential of an address that is not registered
    SessionIds,     \* session ids
    TokenIds,       \* refresh token ids
    ResetIds,       \* password reset ids
    MaxIssues,      \* bound: verification mails ever sent
    NoUser, NoSession,
    OTPMaxAttempts  \* wrong guesses that lock a code

ASSUME SessionsAssumption ==
    /\ NoUser \notin Users /\ NoSession \notin SessionIds /\ NoPassword \notin Passwords
    /\ MaxIssues \in Nat /\ OTPMaxAttempts \in Nat \ {0}
    /\ IsFiniteSet(Requests)

VARIABLES
    users,      \* users and credentials
    mails,      \* mails[n]: the n-th link and code issued together
    recent,     \* users whose last verification mail is under a minute old
    sessions,   \* the sessions table
    tokens,     \* the refresh_tokens table
    resets,     \* the password_resets table
    op          \* op[r]: the transaction request r is about to run

vars == <<users, mails, recent, sessions, tokens, resets, op>>

Issues == 1..MaxIssues

UserRow == [pwd: Passwords \cup {NoPassword}, verified: BOOLEAN]

\* email_verifications and email_otp_codes: rows are always inserted in pairs.
MailRow == [user: Users \cup {NoUser}, linkUsed: BOOLEAN, linkLapsed: BOOLEAN,
            codeUsed: BOOLEAN, codeLapsed: BOOLEAN, attempts: Nat]

\* pwd: the password that opened the session; stale: it had been changed by
\* the time the session was inserted (both history, not columns).
SessionRow == [user: Users \cup {NoUser}, revoked: BOOLEAN, lapsed: BOOLEAN,
               pwd: Passwords \cup {NoPassword}, stale: BOOLEAN]

TokenRow == [session: SessionIds \cup {NoSession}, revoked: BOOLEAN]

ResetRow == [user: Users \cup {NoUser}, used: BOOLEAN, lapsed: BOOLEAN]

NoMail == [user |-> NoUser, linkUsed |-> FALSE, linkLapsed |-> FALSE,
           codeUsed |-> FALSE, codeLapsed |-> FALSE, attempts |-> 0]
NoSessionRow == [user |-> NoUser, revoked |-> FALSE, lapsed |-> FALSE,
                 pwd |-> NoPassword, stale |-> FALSE]
NoToken == [session |-> NoSession, revoked |-> FALSE]
NoReset == [user |-> NoUser, used |-> FALSE, lapsed |-> FALSE]

\* What a request remembers between its reads and its transaction.
Op == [do: {"idle"}]
      \cup [do: {"verifyLink", "countGuess", "verifyCode"}, mail: Issues]
      \cup [do: {"resend"}, user: Users, known: SUBSET Issues]
      \cup [do: {"login"}, user: Users, pwd: Passwords]
      \cup [do: {"rotate"}, token: TokenIds]
      \cup [do: {"revokeTokens"}, session: SessionIds]
      \cup [do: {"forgot"}, user: Users, known: SUBSET ResetIds]
      \cup [do: {"reset"}, reset: ResetIds, pwd: Passwords]

IdleOp == [do |-> "idle"]

Idle(r) == op[r] = IdleOp
Doing(r, what) == op[r].do = what
Hold(r, next) == op' = [op EXCEPT ![r] = next]
Done(r) == Hold(r, IdleOp)

Registered(u) == users[u].pwd # NoPassword

Issued(u) == {n \in Issues : mails[n].user = u}

MailsLeft == {n \in Issues : mails[n] = NoMail}

(***************************************************************************)
(* Registration and verification                                           *)
(***************************************************************************)
\* Rows are created in the order of their ids.
NextMail(n) == n \in MailsLeft /\ \A m \in MailsLeft : n <= m

\* The e-mail is unique in the table, so the early check decides nothing more.
Register(r, u, p) ==
    /\ Idle(r)
    /\ ~Registered(u)
    /\ users' = [users EXCEPT ![u].pwd = p]
    /\ \E n \in Issues : NextMail(n) /\ mails' = [mails EXCEPT ![n].user = u]
    /\ recent' = recent \cup {u}
    /\ UNCHANGED <<sessions, tokens, resets, op>>

VerifyEmail(r, n) ==
    /\ Idle(r)
    /\ mails[n].user # NoUser
    /\ ~mails[n].linkUsed /\ ~mails[n].linkLapsed
    /\ Hold(r, [do |-> "verifyLink", mail |-> n])
    /\ UNCHANGED <<users, mails, recent, sessions, tokens, resets>>

CommitVerifyEmail(r) ==
    /\ Doing(r, "verifyLink")
    /\ LET n == op[r].mail IN
        /\ users' = [users EXCEPT ![mails[n].user].verified = TRUE]
        /\ mails' = [mails EXCEPT ![n].linkUsed = TRUE]
    /\ Done(r)
    /\ UNCHANGED <<recent, sessions, tokens, resets>>

\* Newest unconsumed code of u.
LatestPendingOTP(u, n) ==
    /\ n \in Issued(u)
    /\ ~mails[n].codeUsed
    /\ \A m \in Issued(u) : m > n => mails[m].codeUsed

\* Mutant: one guess too many.
OpenForOneMoreGuess(n) == ~mails[n].codeLapsed /\ mails[n].attempts <= OTPMaxAttempts

OpenForGuess(n) == ~mails[n].codeLapsed /\ mails[n].attempts < OTPMaxAttempts

VerifyByCode(r, u, right) ==
    /\ Idle(r)
    /\ Registered(u) /\ ~users[u].verified
    /\ \E n \in Issues :
        /\ LatestPendingOTP(u, n)
        /\ OpenForGuess(n)
        /\ Hold(r, [do |-> IF right THEN "verifyCode" ELSE "countGuess", mail |-> n])
    /\ UNCHANGED <<users, mails, recent, sessions, tokens, resets>>

IncrementOTPAttempts(r) ==
    /\ Doing(r, "countGuess")
    /\ mails' = [mails EXCEPT ![op[r].mail].attempts = @ + 1]
    /\ Done(r)
    /\ UNCHANGED <<users, recent, sessions, tokens, resets>>

\* InvalidateUserEmailVerifications
UseLinks(m, ns) == [n \in Issues |-> [m[n] EXCEPT !.linkUsed = @ \/ n \in ns]]

\* InvalidateUserOTPs
UseCodes(m, ns) == [n \in Issues |-> [m[n] EXCEPT !.codeUsed = @ \/ n \in ns]]

CommitVerifyByCode(r) ==
    /\ Doing(r, "verifyCode")
    /\ LET n == op[r].mail
           u == mails[n].user IN
        /\ users' = [users EXCEPT ![u].verified = TRUE]
        /\ mails' = UseLinks([mails EXCEPT ![n].codeUsed = TRUE], Issued(u))
    /\ Done(r)
    /\ UNCHANGED <<recent, sessions, tokens, resets>>

ResendVerification(r, u) ==
    /\ Idle(r)
    /\ Registered(u) /\ ~users[u].verified
    /\ u \notin recent
    /\ MailsLeft # {}
    /\ Hold(r, [do |-> "resend", user |-> u, known |-> Issued(u)])
    /\ UNCHANGED <<users, mails, recent, sessions, tokens, resets>>

\* Mutant: the fresh rows are inserted first and invalidated with the rest.
ReissueThenInvalidate(u, n, seen) ==
    UseCodes(UseLinks([mails EXCEPT ![n].user = u], seen \cup {n}), seen \cup {n})

Reissue(u, n, seen) == [UseCodes(UseLinks(mails, seen), seen) EXCEPT ![n].user = u]

\* An UPDATE does not see rows an overlapping transaction inserts: of the
\* rows that appeared since the request read, any number may be missed.
CommitResend(r) ==
    /\ Doing(r, "resend")
    /\ LET u == op[r].user IN
        /\ \E n \in Issues, seen \in SUBSET Issued(u) :
            /\ NextMail(n)
            /\ op[r].known \subseteq seen
            /\ mails' = Reissue(u, n, seen)
        /\ recent' = recent \cup {u}
    /\ Done(r)
    /\ UNCHANGED <<users, sessions, tokens, resets>>

(***************************************************************************)
(* Sessions                                                                *)
(***************************************************************************)
FreshSession(s) == sessions[s] = NoSessionRow
FreshToken(t) == tokens[t] = NoToken

SessionsOf(u) == {s \in SessionIds : sessions[s].user = u}

\* revoked_at of the tokens of a set of sessions.
RevokeTokensOf(ss) ==
    tokens' = [t \in TokenIds |->
        [tokens[t] EXCEPT !.revoked = @ \/ tokens[t].session \in ss]]

RevokeSessions(ss) ==
    sessions' = [s \in SessionIds |-> [sessions[s] EXCEPT !.revoked = @ \/ s \in ss]]

Login(r, u, p) ==
    /\ Idle(r)
    /\ Registered(u)
    /\ users[u].pwd = p
    /\ users[u].verified
    /\ Hold(r, [do |-> "login", user |-> u, pwd |-> p])
    /\ UNCHANGED <<users, mails, recent, sessions, tokens, resets>>

CommitLogin(r) ==
    /\ Doing(r, "login")
    /\ \E s \in SessionIds, t \in TokenIds :
        /\ FreshSession(s) /\ FreshToken(t)
        /\ sessions' = [sessions EXCEPT ![s] =
                [user |-> op[r].user, revoked |-> FALSE, lapsed |-> FALSE,
                 pwd |-> op[r].pwd, stale |-> users[op[r].user].pwd # op[r].pwd]]
        /\ tokens' = [tokens EXCEPT ![t] = [session |-> s, revoked |-> FALSE]]
    /\ Done(r)
    /\ UNCHANGED <<users, mails, recent, resets>>

\* A token never expires before its session does (same lifetime, started
\* later), so the session's expiry stands for both.
Refresh(r, t) ==
    /\ Idle(r)
    /\ ~FreshToken(t)
    /\ ~tokens[t].revoked
    /\ LET row == sessions[tokens[t].session] IN ~row.revoked /\ ~row.lapsed
    /\ Hold(r, [do |-> "rotate", token |-> t])
    /\ UNCHANGED <<users, mails, recent, sessions, tokens, resets>>

\* A revoked token comes back: two statements outside a transaction.
RefreshReused(r, t) ==
    /\ Idle(r)
    /\ tokens[t].revoked
    /\ RevokeSessions({tokens[t].session})
    /\ Hold(r, [do |-> "revokeTokens", session |-> tokens[t].session])
    /\ UNCHANGED <<users, mails, recent, tokens, resets>>

RevokeSessionTokens(r) ==
    /\ Doing(r, "revokeTokens")
    /\ RevokeTokensOf({op[r].session})
    /\ Done(r)
    /\ UNCHANGED <<users, mails, recent, sessions, resets>>

\* Mutant: the session row read before the checks is saved whole.
TouchSessionSaved(s) == sessions' = [sessions EXCEPT ![s].revoked = FALSE]

\* last_active_at only.
TouchSession(s) == UNCHANGED sessions

CommitRefresh(r) ==
    /\ Doing(r, "rotate")
    /\ LET old == op[r].token
           s == tokens[old].session IN
        /\ \E t \in TokenIds :
            /\ FreshToken(t)
            /\ tokens' = [tokens EXCEPT ![old].revoked = TRUE,
                                        ![t] = [session |-> s, revoked |-> FALSE]]
        /\ TouchSession(s)
    /\ Done(r)
    /\ UNCHANGED <<users, mails, recent, resets>>

\* The middleware in front of every signed-in route.  The session's expiry
\* is not looked at: the access token has its own.
RequireAuth(s) == sessions[s].user # NoUser /\ ~sessions[s].revoked

Logout(s) ==
    /\ RequireAuth(s)
    /\ RevokeSessions({s})
    /\ RevokeTokensOf({s})
    /\ UNCHANGED <<users, mails, recent, resets, op>>

(***************************************************************************)
(* Password reset                                                          *)
(***************************************************************************)
ResetsOf(u) == {k \in ResetIds : resets[k].user = u}

UseResets(ks) == [k \in ResetIds |-> [resets[k] EXCEPT !.used = @ \/ k \in ks]]

ForgotPassword(r, u) ==
    /\ Idle(r)
    /\ Registered(u)
    /\ Hold(r, [do |-> "forgot", user |-> u, known |-> ResetsOf(u)])
    /\ UNCHANGED <<users, mails, recent, sessions, tokens, resets>>

CommitForgot(r) ==
    /\ Doing(r, "forgot")
    /\ LET u == op[r].user IN
        \E k \in ResetIds, seen \in SUBSET ResetsOf(u) :
            /\ resets[k] = NoReset
            /\ op[r].known \subseteq seen
            /\ resets' = [UseResets(seen) EXCEPT ![k].user = u]
    /\ Done(r)
    /\ UNCHANGED <<users, mails, recent, sessions, tokens>>

ResetPassword(r, k, p) ==
    /\ Idle(r)
    /\ resets[k].user # NoUser
    /\ ~resets[k].used /\ ~resets[k].lapsed
    /\ Hold(r, [do |-> "reset", reset |-> k, pwd |-> p])
    /\ UNCHANGED <<users, mails, recent, sessions, tokens, resets>>

\* Mutant: only the refresh tokens of the user are revoked.
CommitResetKeepsSessions(r) ==
    /\ Doing(r, "reset")
    /\ LET u == resets[op[r].reset].user IN
        /\ users' = [users EXCEPT ![u].pwd = op[r].pwd]
        /\ resets' = UseResets(ResetsOf(u))
        /\ RevokeTokensOf(SessionsOf(u))
    /\ Done(r)
    /\ UNCHANGED <<mails, recent, sessions>>

CommitReset(r) ==
    /\ Doing(r, "reset")
    /\ LET u == resets[op[r].reset].user IN
        /\ users' = [users EXCEPT ![u].pwd = op[r].pwd]
        /\ resets' = UseResets(ResetsOf(u))
        /\ RevokeSessions(SessionsOf(u))
        /\ RevokeTokensOf(SessionsOf(u))
    /\ Done(r)
    /\ UNCHANGED <<mails, recent>>

(***************************************************************************)
(* Time and failures                                                       *)
(***************************************************************************)
\* A minute passes.
ThrottleEnds(u) ==
    /\ u \in recent
    /\ recent' = recent \ {u}
    /\ UNCHANGED <<users, mails, sessions, tokens, resets, op>>

\* A lifetime passes: ten minutes for a code, a day for a link, an hour for
\* a reset, the refresh lifetime for a session.  The expiry of a row that is
\* used or revoked already changes no answer and is not a step.
CodeLapses(n) ==
    /\ mails[n].user # NoUser /\ ~mails[n].codeLapsed /\ ~mails[n].codeUsed
    /\ mails' = [mails EXCEPT ![n].codeLapsed = TRUE]
    /\ UNCHANGED <<users, recent, sessions, tokens, resets, op>>

\* A link outlives the code it was sent with.
LinkLapses(n) ==
    /\ mails[n].codeLapsed \/ mails[n].codeUsed
    /\ ~mails[n].linkLapsed /\ ~mails[n].linkUsed
    /\ mails' = [mails EXCEPT ![n].linkLapsed = TRUE]
    /\ UNCHANGED <<users, recent, sessions, tokens, resets, op>>

ResetLapses(k) ==
    /\ resets[k].user # NoUser /\ ~resets[k].lapsed /\ ~resets[k].used
    /\ resets' = [resets EXCEPT ![k].lapsed = TRUE]
    /\ UNCHANGED <<users, mails, recent, sessions, tokens, op>>

SessionLapses(s) ==
    /\ RequireAuth(s) /\ ~sessions[s].lapsed
    /\ sessions' = [sessions EXCEPT ![s].lapsed = TRUE]
    /\ UNCHANGED <<users, mails, recent, tokens, resets, op>>

\* The process dies or the transaction fails: nothing of it is kept.
Abandon(r) ==
    /\ ~Idle(r)
    /\ Done(r)
    /\ UNCHANGED <<users, mails, recent, sessions, tokens, resets>>

-----------------------------------------------------------------------------
Init ==
    /\ users = [u \in Users |-> [pwd |-> NoPassword, verified |-> FALSE]]
    /\ mails = [n \in Issues |-> NoMail]
    /\ recent = {}
    /\ sessions = [s \in SessionIds |-> NoSessionRow]
    /\ tokens = [t \in TokenIds |-> NoToken]
    /\ resets = [k \in ResetIds |-> NoReset]
    /\ op = [r \in Requests |-> IdleOp]

Verification(r) ==
    \/ \E u \in Users, p \in Passwords : Register(r, u, p)
    \/ \E n \in Issues : VerifyEmail(r, n)
    \/ CommitVerifyEmail(r)
    \/ \E u \in Users, right \in BOOLEAN : VerifyByCode(r, u, right)
    \/ IncrementOTPAttempts(r)
    \/ CommitVerifyByCode(r)
    \/ \E u \in Users : ResendVerification(r, u)
    \/ CommitResend(r)

SignIn(r) ==
    \/ \E u \in Users, p \in Passwords : Login(r, u, p)
    \/ CommitLogin(r)
    \/ \E t \in TokenIds : Refresh(r, t) \/ RefreshReused(r, t)
    \/ RevokeSessionTokens(r)
    \/ CommitRefresh(r)

Recovery(r) ==
    \/ \E u \in Users : ForgotPassword(r, u)
    \/ CommitForgot(r)
    \/ \E k \in ResetIds, p \in Passwords : ResetPassword(r, k, p)
    \/ CommitReset(r)

Time ==
    \/ \E u \in Users : ThrottleEnds(u)
    \/ \E n \in Issues : CodeLapses(n) \/ LinkLapses(n)
    \/ \E k \in ResetIds : ResetLapses(k)
    \/ \E s \in SessionIds : SessionLapses(s)

Next ==
    \/ \E r \in Requests : Verification(r) \/ SignIn(r) \/ Recovery(r) \/ Abandon(r)
    \/ \E s \in SessionIds : Logout(s)
    \/ Time

Spec == Init /\ [][Next]_vars

-----------------------------------------------------------------------------
\* Rows and pending transactions have the types the tables give them.
TypeOK ==
    /\ users \in [Users -> UserRow]
    /\ mails \in [Issues -> MailRow]
    /\ recent \subseteq Users
    /\ sessions \in [SessionIds -> SessionRow]
    /\ tokens \in [TokenIds -> TokenRow]
    /\ resets \in [ResetIds -> ResetRow]
    /\ op \in [Requests -> Op]

(***************************************************************************)
(* "revokes every session ... so the user re-logs in everywhere": no       *)
(* session that was opened with the password of its time stays usable      *)
(* once the password is another one, whatever refreshes are in flight.     *)
(***************************************************************************)
ResetEndsSessions ==
    \A s \in SessionIds :
        RequireAuth(s) /\ ~sessions[s].stale =>
            sessions[s].pwd = users[sessions[s].user].pwd

(***************************************************************************)
(* The counter of a code is read before the guess and incremented after    *)
(* it: OTPMaxAttempts is exceeded by at most the guesses that were in      *)
(* flight when it was reached.                                             *)
(***************************************************************************)
GuessesBounded ==
    \A n \in Issues :
        mails[n].attempts + Cardinality({r \in Requests :
                    Doing(r, "countGuess") /\ op[r].mail = n})
            <= OTPMaxAttempts + Cardinality(Requests) - 1

(***************************************************************************)
(* Resends rotate link and code: however verifications, resends and        *)
(* crashes interleave, a user who is registered and not verified holds a   *)
(* link and a code that nothing has consumed.                              *)
(***************************************************************************)
UnverifiedHoldsMail ==
    \A u \in Users :
        Registered(u) /\ ~users[u].verified =>
            \E n \in Issued(u) : ~mails[n].linkUsed /\ ~mails[n].codeUsed

(***************************************************************************)
(* Logout, reuse detection and reset are final: a revoked session or       *)
(* refresh token never becomes usable again, also when a refresh that      *)
(* passed its checks earlier commits afterwards.                           *)
(***************************************************************************)
RevocationIsFinal ==
    [][/\ \A s \in SessionIds : sessions[s].revoked => sessions'[s].revoked
       /\ \A t \in TokenIds : tokens[t].revoked => tokens'[t].revoked]_vars
=============================================================================
