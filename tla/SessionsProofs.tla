---------------------------- MODULE SessionsProofs ----------------------------
(***************************************************************************)
(* Accounts for any number of users, sessions, tokens and concurrent       *)
(* requests.                                                               *)
(***************************************************************************)
EXTENDS Sessions, FiniteSetTheorems, TLAPS

\* Rows and pending transactions point at rows that exist, and rows that
\* belong to a user belong to a registered one.
Linked ==
    /\ \A r \in Requests : op[r].do \in {"verifyLink", "countGuess", "verifyCode"} =>
            mails[op[r].mail].user \in Users
    /\ \A r \in Requests : op[r].do \in {"login", "forgot"} => Registered(op[r].user)
    /\ \A r \in Requests : op[r].do = "rotate" => tokens[op[r].token].session \in SessionIds
    /\ \A r \in Requests : op[r].do = "reset" => resets[op[r].reset].user \in Users
    /\ \A t \in TokenIds : tokens[t].revoked => tokens[t].session \in SessionIds
    /\ \A s \in SessionIds : sessions[s].user \in Users => Registered(sessions[s].user)
    /\ \A k \in ResetIds : resets[k].user \in Users => Registered(resets[k].user)

\* What a pending transaction remembers, by its name.
LEMMA OpFields ==
    ASSUME TypeOK, NEW r \in Requests
    PROVE  /\ op[r].do \in {"verifyLink", "countGuess", "verifyCode"} => op[r].mail \in Issues
           /\ op[r].do = "resend" => op[r].user \in Users /\ op[r].known \subseteq Issues
           /\ op[r].do = "login" => op[r].user \in Users /\ op[r].pwd \in Passwords
           /\ op[r].do = "rotate" => op[r].token \in TokenIds
           /\ op[r].do = "revokeTokens" => op[r].session \in SessionIds
           /\ op[r].do = "forgot" => op[r].user \in Users /\ op[r].known \subseteq ResetIds
           /\ op[r].do = "reset" => op[r].reset \in ResetIds /\ op[r].pwd \in Passwords
<1>1. op[r] \in Op
  BY DEF TypeOK
<1>2. QED
  BY <1>1 DEF Op

\* A request that takes up or drops a transaction of the right shape keeps op typed.
LEMMA HoldTyped ==
    ASSUME TypeOK, NEW r \in Requests, NEW next \in Op, Hold(r, next)
    PROVE  op' \in [Requests -> Op]
  BY DEF TypeOK, Hold

LEMMA DoneTyped ==
    ASSUME TypeOK, NEW r \in Requests, Done(r)
    PROVE  op' \in [Requests -> Op]
<1>1. IdleOp \in Op
  BY DEF IdleOp, Op
<1>2. QED
  BY <1>1, HoldTyped DEF Done

LEMMA IssuesAreNat == Issues \subseteq Nat
  BY DEF Issues

(***************************************************************************)
(* Types                                                                   *)
(***************************************************************************)
\* A read step of the right shape keeps every type.
LEMMA ReadTyped ==
    ASSUME TypeOK, NEW r \in Requests, NEW next \in Op, Hold(r, next),
           UNCHANGED <<users, mails, recent, sessions, tokens, resets>>
    PROVE  TypeOK'
<1>1. op' \in [Requests -> Op]
  BY HoldTyped
<1>2. QED
  BY <1>1 DEF TypeOK

\* Column updates of mails, sessions, tokens and resets keep their types.
LEMMA UpdatesTyped ==
    ASSUME TypeOK
    PROVE  /\ \A m \in [Issues -> MailRow] : \A ns :
                /\ UseLinks(m, ns) \in [Issues -> MailRow]
                /\ UseCodes(m, ns) \in [Issues -> MailRow]
           /\ \A ss : RevokeSessions(ss) => sessions' \in [SessionIds -> SessionRow]
           /\ \A ss : RevokeTokensOf(ss) => tokens' \in [TokenIds -> TokenRow]
           /\ \A ks : UseResets(ks) \in [ResetIds -> ResetRow]
<1>1. ASSUME NEW m \in [Issues -> MailRow], NEW ns
      PROVE  /\ UseLinks(m, ns) \in [Issues -> MailRow]
             /\ UseCodes(m, ns) \in [Issues -> MailRow]
  BY <1>1 DEF UseLinks, UseCodes, MailRow
<1>2. ASSUME NEW ss, RevokeSessions(ss) PROVE sessions' \in [SessionIds -> SessionRow]
  BY <1>2 DEF TypeOK, RevokeSessions, SessionRow
<1>3. ASSUME NEW ss, RevokeTokensOf(ss) PROVE tokens' \in [TokenIds -> TokenRow]
  BY <1>3 DEF TypeOK, RevokeTokensOf, TokenRow
<1>4. ASSUME NEW ks PROVE UseResets(ks) \in [ResetIds -> ResetRow]
  BY <1>4 DEF TypeOK, UseResets, ResetRow
<1>5. QED
  BY <1>1, <1>2, <1>3, <1>4

\* Marking a code as used changes nothing else.
LEMMA CodeSpent ==
    ASSUME TypeOK, NEW n \in Issues
    PROVE  /\ [mails EXCEPT ![n].codeUsed = TRUE] \in [Issues -> MailRow]
           /\ \A i \in Issues :
                /\ [mails EXCEPT ![n].codeUsed = TRUE][i].user = mails[i].user
                /\ [mails EXCEPT ![n].codeUsed = TRUE][i].attempts = mails[i].attempts
                /\ i # n => [mails EXCEPT ![n].codeUsed = TRUE][i] = mails[i]
<1>1. mails \in [Issues -> MailRow]
  BY DEF TypeOK
<1>2. QED
  BY <1>1 DEF MailRow

LEMMA VerificationTyped ==
    ASSUME TypeOK, Linked, NEW r \in Requests, Verification(r)
    PROVE  TypeOK'
<1>1. ASSUME NEW u \in Users, NEW p \in Passwords, Register(r, u, p) PROVE TypeOK'
  BY <1>1 DEF TypeOK, Register, UserRow, MailRow
<1>2. ASSUME NEW n \in Issues, VerifyEmail(r, n) PROVE TypeOK'
  <2>1. [do |-> "verifyLink", mail |-> n] \in Op
    BY DEF Op
  <2>2. QED
    BY <1>2, <2>1, ReadTyped DEF VerifyEmail
<1>3. CASE CommitVerifyEmail(r)
  <2>1. op[r].mail \in Issues /\ mails[op[r].mail].user \in Users
    BY <1>3, OpFields DEF CommitVerifyEmail, Doing, Linked
  <2>2. op' \in [Requests -> Op]
    BY <1>3, DoneTyped DEF CommitVerifyEmail
  <2>3. users' \in [Users -> UserRow]
    BY <1>3, <2>1 DEF CommitVerifyEmail, TypeOK, UserRow
  <2>4. mails' \in [Issues -> MailRow]
    <3>1. mails \in [Issues -> MailRow]
      BY DEF TypeOK
    <3>2. QED
      BY <1>3, <2>1, <3>1 DEF CommitVerifyEmail, MailRow
  <2>5. QED
    BY <1>3, <2>2, <2>3, <2>4 DEF CommitVerifyEmail, TypeOK
<1>4. ASSUME NEW u \in Users, NEW right \in BOOLEAN, VerifyByCode(r, u, right) PROVE TypeOK'
  <2>1. PICK n \in Issues :
            Hold(r, [do |-> IF right THEN "verifyCode" ELSE "countGuess", mail |-> n])
    BY <1>4 DEF VerifyByCode
  <2>2. [do |-> IF right THEN "verifyCode" ELSE "countGuess", mail |-> n] \in Op
    BY DEF Op
  <2>3. QED
    BY <1>4, <2>1, <2>2, ReadTyped DEF VerifyByCode
<1>5. CASE IncrementOTPAttempts(r)
  <2>1. op[r].mail \in Issues
    BY <1>5, OpFields DEF IncrementOTPAttempts, Doing
  <2>2. op' \in [Requests -> Op]
    BY <1>5, DoneTyped DEF IncrementOTPAttempts
  <2>3. mails' \in [Issues -> MailRow]
    BY <1>5, <2>1 DEF IncrementOTPAttempts, TypeOK, MailRow
  <2>4. QED
    BY <1>5, <2>2, <2>3 DEF IncrementOTPAttempts, TypeOK
<1>6. CASE CommitVerifyByCode(r)
  <2> DEFINE n == op[r].mail
             u == mails[n].user
  <2>1. n \in Issues /\ u \in Users
    BY <1>6, OpFields DEF CommitVerifyByCode, Doing, Linked
  <2>2. op' \in [Requests -> Op]
    BY <1>6, DoneTyped DEF CommitVerifyByCode
  <2>3. users' \in [Users -> UserRow]
    BY <1>6, <2>1 DEF CommitVerifyByCode, TypeOK, UserRow
  <2>4. [mails EXCEPT ![n].codeUsed = TRUE] \in [Issues -> MailRow]
    BY <2>1, CodeSpent
  <2>5. mails' \in [Issues -> MailRow]
    BY <1>6, <2>4, UpdatesTyped DEF CommitVerifyByCode
  <2>6. QED
    BY <1>6, <2>2, <2>3, <2>5 DEF CommitVerifyByCode, TypeOK
<1>7. ASSUME NEW u \in Users, ResendVerification(r, u) PROVE TypeOK'
  <2>1. [do |-> "resend", user |-> u, known |-> Issued(u)] \in Op
    BY DEF Op, Issued
  <2>2. QED
    BY <1>7, <2>1, ReadTyped DEF ResendVerification
<1>8. CASE CommitResend(r)
  <2>1. op[r].user \in Users
    BY <1>8, OpFields DEF CommitResend, Doing
  <2>2. PICK n \in Issues, seen \in SUBSET Issued(op[r].user) :
            mails' = Reissue(op[r].user, n, seen)
    BY <1>8 DEF CommitResend
  <2>3. UseCodes(UseLinks(mails, seen), seen) \in [Issues -> MailRow]
    BY UpdatesTyped DEF TypeOK
  <2>4. mails' \in [Issues -> MailRow]
    <3> DEFINE m == UseCodes(UseLinks(mails, seen), seen)
    <3>1. m \in [Issues -> MailRow] /\ mails' = [m EXCEPT ![n].user = op[r].user]
      BY <2>2, <2>3 DEF Reissue
    <3> HIDE DEF m
    <3>2. QED
      BY <3>1, <2>1 DEF MailRow
  <2>5. op' \in [Requests -> Op]
    BY <1>8, DoneTyped DEF CommitResend
  <2>6. recent' \subseteq Users
    BY <1>8, <2>1 DEF CommitResend, TypeOK
  <2>7. QED
    BY <1>8, <2>4, <2>5, <2>6 DEF CommitResend, TypeOK
<1>9. QED
  BY <1>1, <1>2, <1>3, <1>4, <1>5, <1>6, <1>7, <1>8 DEF Verification

LEMMA SignInTyped ==
    ASSUME TypeOK, Linked, NEW r \in Requests, SignIn(r)
    PROVE  TypeOK'
<1>1. ASSUME NEW u \in Users, NEW p \in Passwords, Login(r, u, p) PROVE TypeOK'
  <2>1. [do |-> "login", user |-> u, pwd |-> p] \in Op
    BY DEF Op
  <2>2. QED
    BY <1>1, <2>1, ReadTyped DEF Login
<1>2. CASE CommitLogin(r)
  <2>1. op[r].user \in Users /\ op[r].pwd \in Passwords
    BY <1>2, OpFields DEF CommitLogin, Doing
  <2>2. op' \in [Requests -> Op]
    BY <1>2, DoneTyped DEF CommitLogin
  <2>3. sessions' \in [SessionIds -> SessionRow] /\ tokens' \in [TokenIds -> TokenRow]
    BY <1>2, <2>1 DEF CommitLogin, TypeOK, SessionRow, TokenRow
  <2>4. QED
    BY <1>2, <2>2, <2>3 DEF CommitLogin, TypeOK
<1>3. ASSUME NEW t \in TokenIds, Refresh(r, t) PROVE TypeOK'
  <2>1. [do |-> "rotate", token |-> t] \in Op
    BY DEF Op
  <2>2. QED
    BY <1>3, <2>1, ReadTyped DEF Refresh
<1>4. ASSUME NEW t \in TokenIds, RefreshReused(r, t) PROVE TypeOK'
  <2>1. tokens[t].session \in SessionIds
    BY <1>4 DEF RefreshReused, Linked
  <2>2. [do |-> "revokeTokens", session |-> tokens[t].session] \in Op
    BY <2>1 DEF Op
  <2>3. op' \in [Requests -> Op]
    BY <1>4, <2>2, HoldTyped DEF RefreshReused
  <2>4. sessions' \in [SessionIds -> SessionRow]
    BY <1>4, UpdatesTyped DEF RefreshReused
  <2>5. QED
    BY <1>4, <2>3, <2>4 DEF RefreshReused, TypeOK
<1>5. CASE RevokeSessionTokens(r)
  <2>1. op' \in [Requests -> Op]
    BY <1>5, DoneTyped DEF RevokeSessionTokens
  <2>2. tokens' \in [TokenIds -> TokenRow]
    BY <1>5, UpdatesTyped DEF RevokeSessionTokens
  <2>3. QED
    BY <1>5, <2>1, <2>2 DEF RevokeSessionTokens, TypeOK
<1>6. CASE CommitRefresh(r)
  <2>1. op[r].token \in TokenIds /\ tokens[op[r].token].session \in SessionIds
    BY <1>6, OpFields DEF CommitRefresh, Doing, Linked
  <2>2. op' \in [Requests -> Op]
    BY <1>6, DoneTyped DEF CommitRefresh
  <2>3. tokens' \in [TokenIds -> TokenRow]
    <3> DEFINE once == [tokens EXCEPT ![op[r].token].revoked = TRUE]
    <3>1. once \in [TokenIds -> TokenRow]
      BY <2>1 DEF TypeOK, TokenRow
    <3>2. PICK t \in TokenIds : tokens' =
            [once EXCEPT ![t] = [session |-> tokens[op[r].token].session, revoked |-> FALSE]]
      BY <1>6 DEF CommitRefresh
    <3> HIDE DEF once
    <3>3. QED
      BY <2>1, <3>1, <3>2 DEF TokenRow
  <2>4. QED
    BY <1>6, <2>2, <2>3 DEF CommitRefresh, TouchSession, TypeOK
<1>7. QED
  BY <1>1, <1>2, <1>3, <1>4, <1>5, <1>6 DEF SignIn

LEMMA RecoveryTyped ==
    ASSUME TypeOK, Linked, NEW r \in Requests, Recovery(r)
    PROVE  TypeOK'
<1>1. ASSUME NEW u \in Users, ForgotPassword(r, u) PROVE TypeOK'
  <2>1. [do |-> "forgot", user |-> u, known |-> ResetsOf(u)] \in Op
    BY DEF Op, ResetsOf
  <2>2. QED
    BY <1>1, <2>1, ReadTyped DEF ForgotPassword
<1>2. CASE CommitForgot(r)
  <2>1. op[r].user \in Users
    BY <1>2, OpFields DEF CommitForgot, Doing
  <2>2. PICK k \in ResetIds, seen \in SUBSET ResetsOf(op[r].user) :
            resets' = [UseResets(seen) EXCEPT ![k].user = op[r].user]
    BY <1>2 DEF CommitForgot
  <2>3. UseResets(seen) \in [ResetIds -> ResetRow]
    BY UpdatesTyped
  <2>4. resets' \in [ResetIds -> ResetRow]
    BY <2>1, <2>2, <2>3 DEF ResetRow
  <2>5. op' \in [Requests -> Op]
    BY <1>2, DoneTyped DEF CommitForgot
  <2>6. QED
    BY <1>2, <2>4, <2>5 DEF CommitForgot, TypeOK
<1>3. ASSUME NEW k \in ResetIds, NEW p \in Passwords, ResetPassword(r, k, p) PROVE TypeOK'
  <2>1. [do |-> "reset", reset |-> k, pwd |-> p] \in Op
    BY DEF Op
  <2>2. QED
    BY <1>3, <2>1, ReadTyped DEF ResetPassword
<1>4. CASE CommitReset(r)
  <2>1. op[r].pwd \in Passwords /\ resets[op[r].reset].user \in Users
    BY <1>4, OpFields DEF CommitReset, Doing, Linked
  <2>2. op' \in [Requests -> Op]
    BY <1>4, DoneTyped DEF CommitReset
  <2>3. users' \in [Users -> UserRow]
    BY <1>4, <2>1 DEF CommitReset, TypeOK, UserRow
  <2>4. /\ sessions' \in [SessionIds -> SessionRow]
        /\ tokens' \in [TokenIds -> TokenRow]
        /\ resets' \in [ResetIds -> ResetRow]
    BY <1>4, UpdatesTyped DEF CommitReset
  <2>5. QED
    BY <1>4, <2>2, <2>3, <2>4 DEF CommitReset, TypeOK
<1>5. QED
  BY <1>1, <1>2, <1>3, <1>4 DEF Recovery

LEMMA RestTyped ==
    ASSUME TypeOK
    PROVE  /\ Time => TypeOK'
           /\ \A s \in SessionIds : Logout(s) => TypeOK'
           /\ \A r \in Requests : Abandon(r) => TypeOK'
<1>1. ASSUME Time PROVE TypeOK'
  <2>1. ASSUME NEW u \in Users, ThrottleEnds(u) PROVE TypeOK'
    BY <2>1 DEF ThrottleEnds, TypeOK
  <2>2. ASSUME NEW n \in Issues, CodeLapses(n) \/ LinkLapses(n) PROVE TypeOK'
    <3>1. mails \in [Issues -> MailRow]
      BY DEF TypeOK
    <3>2. mails' \in [Issues -> MailRow]
      <4>1. /\ [mails EXCEPT ![n].codeLapsed = TRUE] \in [Issues -> MailRow]
            /\ [mails EXCEPT ![n].linkLapsed = TRUE] \in [Issues -> MailRow]
        BY <3>1 DEF MailRow
      <4>2. QED
        BY <2>2, <4>1 DEF CodeLapses, LinkLapses
    <3>3. QED
      BY <2>2, <3>2 DEF CodeLapses, LinkLapses, TypeOK
  <2>3. ASSUME NEW k \in ResetIds, ResetLapses(k) PROVE TypeOK'
    BY <2>3 DEF ResetLapses, TypeOK, ResetRow
  <2>4. ASSUME NEW s \in SessionIds, SessionLapses(s) PROVE TypeOK'
    BY <2>4 DEF SessionLapses, TypeOK, SessionRow
  <2>5. QED
    BY <1>1, <2>1, <2>2, <2>3, <2>4 DEF Time
<1>2. ASSUME NEW s \in SessionIds, Logout(s) PROVE TypeOK'
  <2>1. sessions' \in [SessionIds -> SessionRow] /\ tokens' \in [TokenIds -> TokenRow]
    BY <1>2, UpdatesTyped DEF Logout
  <2>2. QED
    BY <1>2, <2>1 DEF Logout, TypeOK
<1>3. ASSUME NEW r \in Requests, Abandon(r) PROVE TypeOK'
  <2>1. op' \in [Requests -> Op]
    BY <1>3, DoneTyped DEF Abandon
  <2>2. QED
    BY <1>3, <2>1 DEF Abandon, TypeOK
<1>4. QED
  BY <1>1, <1>2, <1>3

(***************************************************************************)
(* References and registration                                             *)
(***************************************************************************)
\* A step after which every row still has its owner, no account vanished and
\* only request r, if any, changed what it is about to do.
LEMMA LinkedStep ==
    ASSUME TypeOK, TypeOK', Linked, NEW r \in Requests,
           \A q \in Requests \ {r} : op'[q] = op[q],
           op'[r].do \in {"verifyLink", "countGuess", "verifyCode"} =>
                mails'[op'[r].mail].user \in Users,
           op'[r].do \in {"login", "forgot"} => Registered(op'[r].user),
           op'[r].do = "rotate" => tokens'[op'[r].token].session \in SessionIds,
           op'[r].do = "reset" => resets'[op'[r].reset].user \in Users,
           \A u \in Users : Registered(u) => users'[u].pwd # NoPassword,
           \A n \in Issues : mails[n].user \in Users => mails'[n].user \in Users,
           \A t \in TokenIds : tokens[t].session \in SessionIds =>
                                    tokens'[t].session \in SessionIds,
           \A t \in TokenIds : tokens'[t].revoked => tokens'[t].session \in SessionIds,
           \A s \in SessionIds : sessions'[s].user \in Users => Registered(sessions'[s].user),
           \A k \in ResetIds : resets[k].user \in Users => resets'[k].user \in Users,
           \A k \in ResetIds : resets'[k].user \in Users => Registered(resets'[k].user)
    PROVE  Linked'
<1>1. \A q \in Requests : op'[q].do \in {"verifyLink", "countGuess", "verifyCode"} =>
            mails'[op'[q].mail].user \in Users
  <2>1. ASSUME NEW q \in Requests \ {r},
               op[q].do \in {"verifyLink", "countGuess", "verifyCode"}
        PROVE  mails'[op[q].mail].user \in Users
    BY <2>1, OpFields DEF Linked
  <2>2. QED
    BY <2>1
<1>2. \A q \in Requests : op'[q].do \in {"login", "forgot"} => users'[op'[q].user].pwd # NoPassword
  <2>1. ASSUME NEW q \in Requests \ {r}, op[q].do \in {"login", "forgot"}
        PROVE  users'[op[q].user].pwd # NoPassword
    BY <2>1, OpFields DEF Linked
  <2>2. ASSUME op'[r].do \in {"login", "forgot"}
        PROVE  users'[op'[r].user].pwd # NoPassword
    <3>1. op'[r] \in Op
      BY DEF TypeOK
    <3>2. op'[r].user \in Users
      BY <2>2, <3>1 DEF Op
    <3>3. QED
      BY <2>2, <3>2
  <2>3. QED
    BY <2>1, <2>2
<1>3. \A q \in Requests : op'[q].do = "rotate" => tokens'[op'[q].token].session \in SessionIds
  <2>1. ASSUME NEW q \in Requests \ {r}, op[q].do = "rotate"
        PROVE  tokens'[op[q].token].session \in SessionIds
    BY <2>1, OpFields DEF Linked
  <2>2. QED
    BY <2>1
<1>4. \A q \in Requests : op'[q].do = "reset" => resets'[op'[q].reset].user \in Users
  <2>1. ASSUME NEW q \in Requests \ {r}, op[q].do = "reset"
        PROVE  resets'[op[q].reset].user \in Users
    BY <2>1, OpFields DEF Linked
  <2>2. QED
    BY <2>1
<1>5. \A s \in SessionIds : sessions'[s].user \in Users => users'[sessions'[s].user].pwd # NoPassword
  OBVIOUS
<1>6. \A k \in ResetIds : resets'[k].user \in Users => users'[resets'[k].user].pwd # NoPassword
  OBVIOUS
<1>7. QED
  BY <1>1, <1>2, <1>3, <1>4, <1>5, <1>6 DEF Linked, Registered

\* What Hold and Done do to the other requests.
LEMMA OthersKeepOp ==
    ASSUME TypeOK, NEW r \in Requests, NEW next, Hold(r, next)
    PROVE  op'[r] = next /\ \A q \in Requests \ {r} : op'[q] = op[q]
  BY DEF TypeOK, Hold

LEMMA DoneIsIdle ==
    ASSUME TypeOK, NEW r \in Requests, Done(r)
    PROVE  op'[r].do = "idle" /\ \A q \in Requests \ {r} : op'[q] = op[q]
  BY OthersKeepOp DEF Done, IdleOp

\* A read step: the tables stay, and what r remembers is a row that exists.
LEMMA ReadLinked ==
    ASSUME TypeOK, TypeOK', Linked, NEW r \in Requests, NEW next, Hold(r, next),
           UNCHANGED <<users, mails, recent, sessions, tokens, resets>>,
           next.do \in {"verifyLink", "countGuess", "verifyCode"} =>
                mails[next.mail].user \in Users,
           next.do \in {"login", "forgot"} => Registered(next.user),
           next.do = "rotate" => tokens[next.token].session \in SessionIds,
           next.do = "reset" => resets[next.reset].user \in Users
    PROVE  Linked'
<1>1. op'[r] = next /\ \A q \in Requests \ {r} : op'[q] = op[q]
  BY OthersKeepOp
<1>2. \A q \in Requests : op'[q] = IF q = r THEN next ELSE op[q]
  BY <1>1
<1>3. QED
  BY <1>2 DEF Linked, Registered

\* A transaction of r that only adds to the tables.
LEMMA WriteLinked ==
    ASSUME TypeOK, TypeOK', Linked, NEW r \in Requests, Done(r),
           \A u \in Users : Registered(u) => users'[u].pwd # NoPassword,
           \A n \in Issues : mails[n].user \in Users => mails'[n].user \in Users,
           \A t \in TokenIds : tokens[t].session \in SessionIds =>
                                    tokens'[t].session \in SessionIds,
           \A t \in TokenIds : tokens'[t].revoked => tokens'[t].session \in SessionIds,
           \A s \in SessionIds : sessions'[s].user \in Users => Registered(sessions'[s].user),
           \A k \in ResetIds : resets[k].user \in Users => resets'[k].user \in Users,
           \A k \in ResetIds : resets'[k].user \in Users => Registered(resets'[k].user)
    PROVE  Linked'
<1>1. op'[r].do = "idle" /\ \A q \in Requests \ {r} : op'[q] = op[q]
  BY DoneIsIdle
<1>2. QED
  BY <1>1, LinkedStep

\* Rows that are revoked or used keep their owner.
LEMMA UpdatesKeepOwner ==
    ASSUME TypeOK
    PROVE  /\ \A m \in [Issues -> MailRow] : \A ns : \A n \in Issues :
                /\ UseLinks(m, ns)[n].user = m[n].user
                /\ UseCodes(m, ns)[n].user = m[n].user
           /\ \A ss : RevokeSessions(ss) =>
                \A s \in SessionIds : sessions'[s].user = sessions[s].user
           /\ \A ss \in SUBSET SessionIds : RevokeTokensOf(ss) =>
                \A t \in TokenIds :
                    /\ tokens'[t].session = tokens[t].session
                    /\ tokens'[t].revoked => tokens[t].revoked \/ tokens[t].session \in SessionIds
           /\ \A ks : \A k \in ResetIds : UseResets(ks)[k].user = resets[k].user
<1>1. ASSUME NEW m \in [Issues -> MailRow], NEW ns, NEW n \in Issues
      PROVE  UseLinks(m, ns)[n].user = m[n].user /\ UseCodes(m, ns)[n].user = m[n].user
  BY DEF UseLinks, UseCodes, MailRow
<1>2. ASSUME NEW ss, RevokeSessions(ss), NEW s \in SessionIds
      PROVE  sessions'[s].user = sessions[s].user
  BY <1>2 DEF RevokeSessions, TypeOK, SessionRow
<1>3. ASSUME NEW ss \in SUBSET SessionIds, RevokeTokensOf(ss), NEW t \in TokenIds
      PROVE  /\ tokens'[t].session = tokens[t].session
             /\ tokens'[t].revoked => tokens[t].revoked \/ tokens[t].session \in SessionIds
  <2>1. tokens[t] \in TokenRow
    BY DEF TypeOK
  <2>2. tokens'[t] = [tokens[t] EXCEPT !.revoked = @ \/ tokens[t].session \in ss]
    BY <1>3 DEF RevokeTokensOf
  <2>3. QED
    BY <2>1, <2>2 DEF TokenRow
<1>4. ASSUME NEW ks, NEW k \in ResetIds PROVE UseResets(ks)[k].user = resets[k].user
  BY DEF UseResets, TypeOK, ResetRow
<1>5. QED
  BY <1>1, <1>2, <1>3, <1>4

LEMMA VerificationLinked ==
    ASSUME TypeOK, TypeOK', Linked, NEW r \in Requests, Verification(r)
    PROVE  Linked'
<1>1. ASSUME NEW u \in Users, NEW p \in Passwords, Register(r, u, p) PROVE Linked'
  <2>1. op' = op /\ sessions' = sessions /\ tokens' = tokens /\ resets' = resets
    BY <1>1 DEF Register
  <2>2. \A v \in Users : users'[v].pwd = IF v = u THEN p ELSE users[v].pwd
    BY <1>1 DEF Register, TypeOK, UserRow
  <2>3. \A n \in Issues : mails[n].user \in Users => mails'[n].user \in Users
    BY <1>1 DEF Register, TypeOK, MailRow
  <2>4. p # NoPassword
    BY SessionsAssumption
  <2>5. \A s \in SessionIds : sessions[s].user \in Users => Registered(sessions[s].user)
    BY DEF Linked
  <2>6. \A k \in ResetIds : resets[k].user \in Users => Registered(resets[k].user)
    BY DEF Linked
  <2>7. \A t \in TokenIds : tokens[t].revoked => tokens[t].session \in SessionIds
    BY DEF Linked
  <2>8. \A v \in Users : Registered(v) => users'[v].pwd # NoPassword
    BY <2>2, <2>4 DEF Registered
  <2>9. /\ op[r].do \in {"verifyLink", "countGuess", "verifyCode"} =>
                mails'[op[r].mail].user \in Users
        /\ op[r].do \in {"login", "forgot"} => Registered(op[r].user)
        /\ op[r].do = "rotate" => tokens[op[r].token].session \in SessionIds
        /\ op[r].do = "reset" => resets[op[r].reset].user \in Users
    BY <2>3, OpFields DEF Linked
  <2>10. QED
    BY <2>1, <2>3, <2>5, <2>6, <2>7, <2>8, <2>9, LinkedStep
<1>2. ASSUME NEW n \in Issues, VerifyEmail(r, n) PROVE Linked'
  <2>1. mails[n].user \in Users
    BY <1>2 DEF VerifyEmail, TypeOK, MailRow
  <2>2. QED
    BY <1>2, <2>1, ReadLinked DEF VerifyEmail
<1>3. CASE CommitVerifyEmail(r)
  <2>1. op[r].mail \in Issues /\ mails[op[r].mail].user \in Users
    BY <1>3, OpFields DEF CommitVerifyEmail, Doing, Linked
  <2>2. \A v \in Users : users'[v].pwd = users[v].pwd
    BY <1>3, <2>1 DEF CommitVerifyEmail, TypeOK, UserRow
  <2>3. \A n \in Issues : mails'[n].user = mails[n].user
    BY <1>3, <2>1 DEF CommitVerifyEmail, TypeOK, MailRow
  <2>4. QED
    BY <1>3, <2>2, <2>3, WriteLinked DEF CommitVerifyEmail, Linked, Registered
<1>4. ASSUME NEW u \in Users, NEW right \in BOOLEAN, VerifyByCode(r, u, right) PROVE Linked'
  <2>1. PICK n \in Issues :
            /\ mails[n].user = u
            /\ Hold(r, [do |-> IF right THEN "verifyCode" ELSE "countGuess", mail |-> n])
    BY <1>4 DEF VerifyByCode, LatestPendingOTP, Issued
  <2>2. QED
    BY <1>4, <2>1, ReadLinked DEF VerifyByCode
<1>5. CASE IncrementOTPAttempts(r)
  <2>1. op[r].mail \in Issues
    BY <1>5, OpFields DEF IncrementOTPAttempts, Doing
  <2>2. \A n \in Issues : mails'[n].user = mails[n].user
    BY <1>5, <2>1 DEF IncrementOTPAttempts, TypeOK, MailRow
  <2>3. QED
    BY <1>5, <2>2, WriteLinked DEF IncrementOTPAttempts, Linked, Registered
<1>6. CASE CommitVerifyByCode(r)
  <2> DEFINE m == [mails EXCEPT ![op[r].mail].codeUsed = TRUE]
  <2>1. op[r].mail \in Issues /\ mails[op[r].mail].user \in Users
    BY <1>6, OpFields DEF CommitVerifyByCode, Doing, Linked
  <2>2. \A v \in Users : users'[v].pwd = users[v].pwd
    BY <1>6, <2>1 DEF CommitVerifyByCode, TypeOK, UserRow
  <2>3. m \in [Issues -> MailRow] /\ \A n \in Issues : m[n].user = mails[n].user
    BY <2>1, CodeSpent
  <2>4. mails' = UseLinks(m, Issued(mails[op[r].mail].user))
    BY <1>6 DEF CommitVerifyByCode
  <2> HIDE DEF m
  <2>5. \A n \in Issues : mails'[n].user = mails[n].user
    BY <2>3, <2>4, UpdatesKeepOwner
  <2>6. QED
    BY <1>6, <2>2, <2>5, WriteLinked DEF CommitVerifyByCode, Linked, Registered
<1>7. ASSUME NEW u \in Users, ResendVerification(r, u) PROVE Linked'
  BY <1>7, ReadLinked DEF ResendVerification
<1>8. CASE CommitResend(r)
  <2>1. op[r].user \in Users
    BY <1>8, OpFields DEF CommitResend, Doing
  <2>2. PICK n \in Issues, seen \in SUBSET Issued(op[r].user) :
            mails' = Reissue(op[r].user, n, seen)
    BY <1>8 DEF CommitResend
  <2> DEFINE m == UseCodes(UseLinks(mails, seen), seen)
  <2>3. m \in [Issues -> MailRow] /\ \A i \in Issues : m[i].user = mails[i].user
    BY UpdatesTyped, UpdatesKeepOwner DEF TypeOK
  <2>4. mails' = [m EXCEPT ![n].user = op[r].user]
    BY <2>2 DEF Reissue
  <2> HIDE DEF m
  <2>5. \A i \in Issues : mails[i].user \in Users => mails'[i].user \in Users
    BY <2>1, <2>3, <2>4 DEF MailRow
  <2>6. QED
    BY <1>8, <2>5, WriteLinked DEF CommitResend, Linked, Registered
<1>9. QED
  BY <1>1, <1>2, <1>3, <1>4, <1>5, <1>6, <1>7, <1>8 DEF Verification

LEMMA SignInLinked ==
    ASSUME TypeOK, TypeOK', Linked, NEW r \in Requests, SignIn(r)
    PROVE  Linked'
<1>1. ASSUME NEW u \in Users, NEW p \in Passwords, Login(r, u, p) PROVE Linked'
  BY <1>1, ReadLinked DEF Login
<1>2. CASE CommitLogin(r)
  <2>1. op[r].user \in Users /\ Registered(op[r].user)
    BY <1>2, OpFields DEF CommitLogin, Doing, Linked
  <2>2. PICK s \in SessionIds, t \in TokenIds :
            /\ sessions' = [sessions EXCEPT ![s] =
                    [user |-> op[r].user, revoked |-> FALSE, lapsed |-> FALSE,
                     pwd |-> op[r].pwd, stale |-> users[op[r].user].pwd # op[r].pwd]]
            /\ tokens' = [tokens EXCEPT ![t] = [session |-> s, revoked |-> FALSE]]
    BY <1>2 DEF CommitLogin
  <2>3. \A i \in SessionIds :
            sessions'[i].user = IF i = s THEN op[r].user ELSE sessions[i].user
    BY <2>2 DEF TypeOK
  <2>4. \A i \in TokenIds : tokens'[i] =
            IF i = t THEN [session |-> s, revoked |-> FALSE] ELSE tokens[i]
    BY <2>2 DEF TypeOK
  <2>5. QED
    BY <1>2, <2>1, <2>3, <2>4, WriteLinked DEF CommitLogin, Linked, Registered
<1>3. ASSUME NEW t \in TokenIds, Refresh(r, t) PROVE Linked'
  <2>1. tokens[t].session \in SessionIds
    BY <1>3 DEF Refresh, FreshToken, NoToken, TypeOK, TokenRow, Linked
  <2>2. QED
    BY <1>3, <2>1, ReadLinked DEF Refresh
<1>4. ASSUME NEW t \in TokenIds, RefreshReused(r, t) PROVE Linked'
  <2> DEFINE next == [do |-> "revokeTokens", session |-> tokens[t].session]
  <2>1. op'[r] = next /\ \A q \in Requests \ {r} : op'[q] = op[q]
    BY <1>4, OthersKeepOp DEF RefreshReused
  <2>2. op'[r].do = "revokeTokens"
    BY <2>1
  <2>3. \A s \in SessionIds : sessions'[s].user = sessions[s].user
    BY <1>4, UpdatesKeepOwner DEF RefreshReused
  <2>4. users' = users /\ mails' = mails /\ tokens' = tokens /\ resets' = resets
    BY <1>4 DEF RefreshReused
  <2>5. \A s \in SessionIds : sessions'[s].user \in Users => Registered(sessions'[s].user)
    BY <2>3 DEF Linked
  <2>6. \A k \in ResetIds : resets'[k].user \in Users => Registered(resets'[k].user)
    BY <2>4 DEF Linked
  <2>7. \A i \in TokenIds : tokens'[i].revoked => tokens'[i].session \in SessionIds
    BY <2>4 DEF Linked
  <2>8. \A u \in Users : Registered(u) => users'[u].pwd # NoPassword
    BY <2>4 DEF Registered
  <2> HIDE DEF next
  <2>9. QED
    BY <2>1, <2>2, <2>4, <2>5, <2>6, <2>7, <2>8, LinkedStep
<1>5. CASE RevokeSessionTokens(r)
  <2>1. {op[r].session} \in SUBSET SessionIds
    BY <1>5, OpFields DEF RevokeSessionTokens, Doing
  <2>2. \A t \in TokenIds :
            /\ tokens'[t].session = tokens[t].session
            /\ tokens'[t].revoked => tokens[t].revoked \/ tokens[t].session \in SessionIds
    BY <1>5, <2>1, UpdatesKeepOwner DEF RevokeSessionTokens
  <2>3. QED
    BY <1>5, <2>2, WriteLinked DEF RevokeSessionTokens, Linked, Registered
<1>6. CASE CommitRefresh(r)
  <2> DEFINE old == op[r].token
  <2>1. old \in TokenIds /\ tokens[old].session \in SessionIds
    BY <1>6, OpFields DEF CommitRefresh, Doing, Linked
  <2>2. PICK t \in TokenIds : tokens' =
            [tokens EXCEPT ![old].revoked = TRUE,
                           ![t] = [session |-> tokens[old].session, revoked |-> FALSE]]
    BY <1>6 DEF CommitRefresh
  <2>3. \A i \in TokenIds : i # t /\ i # old => tokens'[i] = tokens[i]
    BY <2>1, <2>2 DEF TypeOK
  <2>4. tokens'[t].session = tokens[old].session /\ tokens'[old].session = tokens[old].session
    BY <2>1, <2>2 DEF TypeOK, TokenRow
  <2> HIDE DEF old
  <2>5. \A i \in TokenIds :
            /\ tokens[i].session \in SessionIds => tokens'[i].session \in SessionIds
            /\ tokens'[i].revoked => tokens'[i].session \in SessionIds
    BY <2>1, <2>3, <2>4 DEF Linked
  <2>6. QED
    BY <1>6, <2>5, WriteLinked DEF CommitRefresh, TouchSession, Linked, Registered
<1>7. QED
  BY <1>1, <1>2, <1>3, <1>4, <1>5, <1>6 DEF SignIn

LEMMA RecoveryLinked ==
    ASSUME TypeOK, TypeOK', Linked, NEW r \in Requests, Recovery(r)
    PROVE  Linked'
<1>1. ASSUME NEW u \in Users, ForgotPassword(r, u) PROVE Linked'
  BY <1>1, ReadLinked DEF ForgotPassword
<1>2. CASE CommitForgot(r)
  <2>1. op[r].user \in Users /\ Registered(op[r].user)
    BY <1>2, OpFields DEF CommitForgot, Doing, Linked
  <2>2. PICK k \in ResetIds, seen \in SUBSET ResetsOf(op[r].user) :
            resets' = [UseResets(seen) EXCEPT ![k].user = op[r].user]
    BY <1>2 DEF CommitForgot
  <2>3. \A i \in ResetIds :
            resets'[i].user = IF i = k THEN op[r].user ELSE resets[i].user
    <3>1. UseResets(seen) \in [ResetIds -> ResetRow]
      BY UpdatesTyped
    <3>2. \A i \in ResetIds : UseResets(seen)[i].user = resets[i].user
      BY UpdatesKeepOwner
    <3>3. QED
      BY <2>2, <3>1, <3>2 DEF ResetRow
  <2>4. QED
    BY <1>2, <2>1, <2>3, WriteLinked DEF CommitForgot, Linked, Registered
<1>3. ASSUME NEW k \in ResetIds, NEW p \in Passwords, ResetPassword(r, k, p) PROVE Linked'
  <2>1. resets[k].user \in Users
    BY <1>3 DEF ResetPassword, TypeOK, ResetRow
  <2>2. QED
    BY <1>3, <2>1, ReadLinked DEF ResetPassword
<1>4. CASE CommitReset(r)
  <2> DEFINE u == resets[op[r].reset].user
  <2>1. op[r].pwd \in Passwords /\ u \in Users
    BY <1>4, OpFields DEF CommitReset, Doing, Linked
  <2>2. op[r].pwd # NoPassword
    BY <2>1, SessionsAssumption
  <2>3. \A v \in Users : users'[v].pwd = IF v = u THEN op[r].pwd ELSE users[v].pwd
    BY <1>4, <2>1 DEF CommitReset, TypeOK, UserRow
  <2>4. SessionsOf(u) \in SUBSET SessionIds
    BY DEF SessionsOf
  <2>5. \A s \in SessionIds : sessions'[s].user = sessions[s].user
    BY <1>4, UpdatesKeepOwner DEF CommitReset
  <2>6. \A t \in TokenIds :
            /\ tokens'[t].session = tokens[t].session
            /\ tokens'[t].revoked => tokens[t].revoked \/ tokens[t].session \in SessionIds
    BY <1>4, <2>4, UpdatesKeepOwner DEF CommitReset
  <2>7. \A k \in ResetIds : resets'[k].user = resets[k].user
    BY <1>4, UpdatesKeepOwner DEF CommitReset
  <2>8. mails' = mails /\ Done(r)
    BY <1>4 DEF CommitReset
  <2>9. \A v \in Users : Registered(v) => users'[v].pwd # NoPassword
    BY <2>2, <2>3 DEF Registered
  <2>10. QED
    BY <2>5, <2>6, <2>7, <2>8, <2>9, WriteLinked DEF Linked
<1>5. QED
  BY <1>1, <1>2, <1>3, <1>4 DEF Recovery

LEMMA RestLinked ==
    ASSUME TypeOK, Linked
    PROVE  /\ Time => Linked'
           /\ \A s \in SessionIds : Logout(s) => Linked'
           /\ \A r \in Requests : TypeOK' /\ Abandon(r) => Linked'
<1>1. ASSUME Time PROVE Linked'
  <2>1. ASSUME NEW u \in Users, ThrottleEnds(u) PROVE Linked'
    BY <2>1 DEF ThrottleEnds, Linked, Registered
  <2>2. ASSUME NEW n \in Issues, CodeLapses(n) \/ LinkLapses(n) PROVE Linked'
    <3>1. \A i \in Issues : mails'[i].user = mails[i].user
      BY <2>2 DEF CodeLapses, LinkLapses, TypeOK, MailRow
    <3>2. UNCHANGED <<users, sessions, tokens, resets, op>>
      BY <2>2 DEF CodeLapses, LinkLapses
    <3>3. QED
      BY <3>1, <3>2, OpFields DEF Linked, Registered
  <2>3. ASSUME NEW k \in ResetIds, ResetLapses(k) PROVE Linked'
    <3>1. \A i \in ResetIds : resets'[i].user = resets[i].user
      BY <2>3 DEF ResetLapses, TypeOK, ResetRow
    <3>2. QED
      BY <2>3, <3>1, OpFields DEF ResetLapses, Linked, Registered
  <2>4. ASSUME NEW s \in SessionIds, SessionLapses(s) PROVE Linked'
    <3>1. \A i \in SessionIds : sessions'[i].user = sessions[i].user
      BY <2>4 DEF SessionLapses, TypeOK, SessionRow
    <3>2. QED
      BY <2>4, <3>1 DEF SessionLapses, Linked, Registered
  <2>5. QED
    BY <1>1, <2>1, <2>2, <2>3, <2>4 DEF Time
<1>2. ASSUME NEW s \in SessionIds, Logout(s) PROVE Linked'
  <2>1. \A i \in SessionIds : sessions'[i].user = sessions[i].user
    BY <1>2, UpdatesKeepOwner DEF Logout
  <2>2. \A t \in TokenIds :
            /\ tokens'[t].session = tokens[t].session
            /\ tokens'[t].revoked => tokens[t].revoked \/ tokens[t].session \in SessionIds
    BY <1>2, UpdatesKeepOwner DEF Logout
  <2>3. UNCHANGED <<users, mails, resets, op>>
    BY <1>2 DEF Logout
  <2>4. QED
    BY <2>1, <2>2, <2>3, OpFields DEF Linked, Registered
<1>3. ASSUME NEW r \in Requests, TypeOK', Abandon(r) PROVE Linked'
  BY <1>3, WriteLinked DEF Abandon, Linked, Registered
<1>4. QED
  BY <1>1, <1>2, <1>3

(***************************************************************************)
(* Types and references hold of every reachable state.                     *)
(***************************************************************************)
LEMMA BaseInit == Init => TypeOK /\ Linked
<1> SUFFICES ASSUME Init PROVE TypeOK /\ Linked
  OBVIOUS
<1>1. TypeOK
  <2>1. IdleOp \in Op
    BY DEF IdleOp, Op
  <2>2. QED
    BY <2>1 DEF Init, TypeOK, UserRow, MailRow, NoMail, SessionRow, NoSessionRow,
                TokenRow, NoToken, ResetRow, NoReset
<1>2. Linked
  BY SessionsAssumption DEF Init, Linked, IdleOp, NoSessionRow, NoToken, NoReset
<1>3. QED
  BY <1>1, <1>2

LEMMA BaseStep ==
    ASSUME TypeOK, Linked, [Next]_vars
    PROVE  TypeOK' /\ Linked'
<1>1. ASSUME NEW r \in Requests, Verification(r) PROVE TypeOK' /\ Linked'
  BY <1>1, VerificationTyped, VerificationLinked
<1>2. ASSUME NEW r \in Requests, SignIn(r) PROVE TypeOK' /\ Linked'
  BY <1>2, SignInTyped, SignInLinked
<1>3. ASSUME NEW r \in Requests, Recovery(r) PROVE TypeOK' /\ Linked'
  BY <1>3, RecoveryTyped, RecoveryLinked
<1>4. ASSUME NEW r \in Requests, Abandon(r) PROVE TypeOK' /\ Linked'
  BY <1>4, RestTyped, RestLinked
<1>5. ASSUME NEW s \in SessionIds, Logout(s) PROVE TypeOK' /\ Linked'
  BY <1>5, RestTyped, RestLinked
<1>6. CASE Time
  BY <1>6, RestTyped, RestLinked
<1>7. CASE UNCHANGED vars
  BY <1>7 DEF vars, TypeOK, Linked, Registered
<1>8. QED
  BY <1>1, <1>2, <1>3, <1>4, <1>5, <1>6, <1>7 DEF Next

\* Types of the account tables and of every pending transaction (TypeOK).
THEOREM AccountsTyped == Spec => []TypeOK
<1>1. Spec => [](TypeOK /\ Linked)
  BY BaseInit, BaseStep, PTL DEF Spec
<1>2. QED
  BY <1>1, PTL

(***************************************************************************)
(* Password changes                                                        *)
(***************************************************************************)
\* Verification touches neither sessions nor the password of an account.
LEMMA VerificationKeepsSessions ==
    ASSUME TypeOK, Linked, NEW r \in Requests, Verification(r)
    PROVE  /\ sessions' = sessions
           /\ tokens' = tokens
           /\ \A u \in Users : Registered(u) => users'[u].pwd = users[u].pwd
<1>1. ASSUME NEW u \in Users, NEW p \in Passwords, Register(r, u, p)
      PROVE  /\ sessions' = sessions /\ tokens' = tokens
             /\ \A v \in Users : Registered(v) => users'[v].pwd = users[v].pwd
  BY <1>1 DEF Register, Registered, TypeOK, UserRow
<1>2. ASSUME CommitVerifyEmail(r) \/ CommitVerifyByCode(r)
      PROVE  /\ sessions' = sessions /\ tokens' = tokens
             /\ \A v \in Users : Registered(v) => users'[v].pwd = users[v].pwd
  <2>1. op[r].mail \in Issues /\ mails[op[r].mail].user \in Users
    BY <1>2, OpFields DEF CommitVerifyEmail, CommitVerifyByCode, Doing, Linked
  <2>2. QED
    BY <1>2, <2>1 DEF CommitVerifyEmail, CommitVerifyByCode, TypeOK, UserRow
<1>3. ASSUME \/ \E n \in Issues : VerifyEmail(r, n)
             \/ \E u \in Users, right \in BOOLEAN : VerifyByCode(r, u, right)
             \/ IncrementOTPAttempts(r)
             \/ \E u \in Users : ResendVerification(r, u)
             \/ CommitResend(r)
      PROVE  sessions' = sessions /\ tokens' = tokens /\ users' = users
  BY <1>3 DEF VerifyEmail, VerifyByCode, IncrementOTPAttempts, ResendVerification,
              CommitResend
<1>4. QED
  BY <1>1, <1>2, <1>3 DEF Verification

\* A step that only takes sessions away, and changes no password of theirs.
LEMMA FewerSessions ==
    ASSUME TypeOK, ResetEndsSessions,
           \A s \in SessionIds : RequireAuth(s)' =>
                /\ RequireAuth(s)
                /\ sessions'[s].stale = sessions[s].stale
                /\ sessions'[s].user = sessions[s].user
                /\ sessions'[s].pwd = sessions[s].pwd
                /\ users'[sessions[s].user].pwd = users[sessions[s].user].pwd
    PROVE  ResetEndsSessions'
  BY DEF ResetEndsSessions

\* What revoking does to a session row.
LEMMA RevokedRows ==
    ASSUME TypeOK, NEW ss, RevokeSessions(ss), NEW s \in SessionIds
    PROVE  /\ sessions'[s].user = sessions[s].user
           /\ sessions'[s].pwd = sessions[s].pwd
           /\ sessions'[s].stale = sessions[s].stale
           /\ sessions'[s].revoked <=> (sessions[s].revoked \/ s \in ss)
<1>1. sessions[s] \in SessionRow
  BY DEF TypeOK
<1>2. sessions'[s] = [sessions[s] EXCEPT !.revoked = @ \/ s \in ss]
  BY DEF RevokeSessions
<1>3. QED
  BY <1>1, <1>2 DEF SessionRow

LEMMA ResetEndsSessionsStep ==
    ASSUME TypeOK, Linked, ResetEndsSessions, [Next]_vars
    PROVE  ResetEndsSessions'
<1>1. ASSUME NEW r \in Requests, Verification(r) PROVE ResetEndsSessions'
  <2>1. ASSUME NEW s \in SessionIds, RequireAuth(s)
        PROVE  users'[sessions[s].user].pwd = users[sessions[s].user].pwd
    <3>1. sessions[s].user \in Users
      BY <2>1 DEF RequireAuth, TypeOK, SessionRow
    <3>2. Registered(sessions[s].user)
      BY <3>1 DEF Linked
    <3>3. QED
      BY <1>1, <3>1, <3>2, VerificationKeepsSessions
  <2>2. sessions' = sessions
    BY <1>1, VerificationKeepsSessions
  <2>3. QED
    BY <2>1, <2>2, FewerSessions DEF RequireAuth
<1>2. ASSUME NEW r \in Requests, SignIn(r) PROVE ResetEndsSessions'
  <2>1. CASE CommitLogin(r)
    <3>1. PICK s \in SessionIds : sessions' = [sessions EXCEPT ![s] =
                [user |-> op[r].user, revoked |-> FALSE, lapsed |-> FALSE,
                 pwd |-> op[r].pwd, stale |-> users[op[r].user].pwd # op[r].pwd]]
      BY <2>1 DEF CommitLogin
    <3>2. users' = users
      BY <2>1 DEF CommitLogin
    <3>3. \A i \in SessionIds : i # s => sessions'[i] = sessions[i]
      BY <3>1 DEF TypeOK
    <3>4. /\ sessions'[s].user = op[r].user
          /\ sessions'[s].pwd = op[r].pwd
          /\ sessions'[s].stale = (users[op[r].user].pwd # op[r].pwd)
      BY <3>1 DEF TypeOK
    <3>5. QED
      BY <3>2, <3>3, <3>4 DEF ResetEndsSessions, RequireAuth
  <2>2. ASSUME NEW t \in TokenIds, RefreshReused(r, t) PROVE ResetEndsSessions'
    <3>1. users' = users /\ RevokeSessions({tokens[t].session})
      BY <2>2 DEF RefreshReused
    <3>2. QED
      BY <3>1, RevokedRows, FewerSessions DEF RequireAuth
  <2>3. ASSUME \/ \E u \in Users, p \in Passwords : Login(r, u, p)
               \/ \E t \in TokenIds : Refresh(r, t)
               \/ RevokeSessionTokens(r)
               \/ CommitRefresh(r)
        PROVE  users' = users /\ sessions' = sessions
    BY <2>3 DEF Login, Refresh, RevokeSessionTokens, CommitRefresh, TouchSession
  <2>4. ASSUME users' = users, sessions' = sessions PROVE ResetEndsSessions'
    BY <2>4 DEF ResetEndsSessions, RequireAuth
  <2>5. QED
    BY <1>2, <2>1, <2>2, <2>3, <2>4 DEF SignIn
<1>3. ASSUME NEW r \in Requests, Recovery(r) PROVE ResetEndsSessions'
  <2>1. CASE CommitReset(r)
    <3> DEFINE u == resets[op[r].reset].user
    <3>1. u \in Users
      BY <2>1 DEF CommitReset, Doing, Linked
    <3>2. \A v \in Users : v # u => users'[v].pwd = users[v].pwd
      BY <2>1, <3>1 DEF CommitReset, TypeOK, UserRow
    <3>3. RevokeSessions(SessionsOf(u))
      BY <2>1 DEF CommitReset
    <3> HIDE DEF u
    <3>4. ASSUME NEW s \in SessionIds, RequireAuth(s)'
          PROVE  /\ RequireAuth(s)
                 /\ sessions'[s].stale = sessions[s].stale
                 /\ sessions'[s].user = sessions[s].user
                 /\ sessions'[s].pwd = sessions[s].pwd
                 /\ users'[sessions[s].user].pwd = users[sessions[s].user].pwd
      <4>1. /\ sessions'[s].stale = sessions[s].stale
            /\ sessions'[s].user = sessions[s].user
            /\ sessions'[s].pwd = sessions[s].pwd
            /\ ~sessions[s].revoked /\ s \notin SessionsOf(u)
        BY <3>3, <3>4, RevokedRows DEF RequireAuth
      <4>2. sessions[s].user \in Users /\ sessions[s].user # u
        BY <3>4, <4>1 DEF RequireAuth, SessionsOf, TypeOK, SessionRow
      <4>3. QED
        BY <3>2, <3>4, <4>1, <4>2 DEF RequireAuth
    <3>5. QED
      BY <3>4, FewerSessions
  <2>2. ASSUME \/ \E u \in Users : ForgotPassword(r, u)
               \/ CommitForgot(r)
               \/ \E k \in ResetIds, p \in Passwords : ResetPassword(r, k, p)
        PROVE  users' = users /\ sessions' = sessions
    BY <2>2 DEF ForgotPassword, CommitForgot, ResetPassword
  <2>3. ASSUME users' = users, sessions' = sessions PROVE ResetEndsSessions'
    BY <2>3 DEF ResetEndsSessions, RequireAuth
  <2>4. QED
    BY <1>3, <2>1, <2>2, <2>3 DEF Recovery
<1>4. ASSUME NEW s \in SessionIds, Logout(s) PROVE ResetEndsSessions'
  <2>1. users' = users /\ RevokeSessions({s})
    BY <1>4 DEF Logout
  <2>2. QED
    BY <2>1, RevokedRows, FewerSessions DEF RequireAuth
<1>5. ASSUME NEW s \in SessionIds, SessionLapses(s) PROVE ResetEndsSessions'
  <2>1. \A i \in SessionIds :
            /\ sessions'[i].user = sessions[i].user
            /\ sessions'[i].pwd = sessions[i].pwd
            /\ sessions'[i].stale = sessions[i].stale
            /\ sessions'[i].revoked = sessions[i].revoked
    BY <1>5 DEF SessionLapses, TypeOK, SessionRow
  <2>2. users' = users
    BY <1>5 DEF SessionLapses
  <2>3. QED
    BY <2>1, <2>2, FewerSessions DEF RequireAuth
<1>6. ASSUME \/ \E r \in Requests : Abandon(r)
             \/ \E u \in Users : ThrottleEnds(u)
             \/ \E n \in Issues : CodeLapses(n) \/ LinkLapses(n)
             \/ \E k \in ResetIds : ResetLapses(k)
             \/ UNCHANGED vars
      PROVE  ResetEndsSessions'
  <2>1. users' = users /\ sessions' = sessions
    BY <1>6 DEF Abandon, ThrottleEnds, CodeLapses, LinkLapses, ResetLapses, vars
  <2>2. QED
    BY <2>1 DEF ResetEndsSessions, RequireAuth
<1>7. QED
  BY <1>1, <1>2, <1>3, <1>4, <1>5, <1>6 DEF Next, Time

(***************************************************************************)
(* No session that was opened with the password of its time outlives a     *)
(* reset, for any number of requests in flight.                            *)
(***************************************************************************)
THEOREM ResetsAreThorough == Spec => []ResetEndsSessions
<1>1. Init => ResetEndsSessions
  BY DEF Init, ResetEndsSessions, RequireAuth, NoSessionRow
<1>2. TypeOK /\ Linked /\ ResetEndsSessions /\ [Next]_vars => ResetEndsSessions'
  BY ResetEndsSessionsStep
<1>3. TypeOK /\ Linked /\ [Next]_vars => TypeOK' /\ Linked'
  BY BaseStep
<1>4. QED
  BY <1>1, <1>2, <1>3, BaseInit, PTL DEF Spec

(***************************************************************************)
(* Revocation                                                              *)
(***************************************************************************)
Final ==
    /\ \A s \in SessionIds : sessions[s].revoked => sessions'[s].revoked
    /\ \A t \in TokenIds : tokens[t].revoked => tokens'[t].revoked

LEMMA RevokedTokens ==
    ASSUME TypeOK, NEW ss, RevokeTokensOf(ss), NEW t \in TokenIds, tokens[t].revoked
    PROVE  tokens'[t].revoked
<1>1. tokens[t] \in TokenRow
  BY DEF TypeOK
<1>2. tokens'[t] = [tokens[t] EXCEPT !.revoked = @ \/ tokens[t].session \in ss]
  BY DEF RevokeTokensOf
<1>3. QED
  BY <1>1, <1>2 DEF TokenRow

LEMMA FinalStep ==
    ASSUME TypeOK, Linked, Next
    PROVE  Final
<1>1. ASSUME NEW r \in Requests, Verification(r) PROVE Final
  BY <1>1, VerificationKeepsSessions DEF Final
<1>2. ASSUME NEW r \in Requests, CommitLogin(r) PROVE Final
  <2>1. PICK s \in SessionIds, t \in TokenIds :
            /\ FreshSession(s) /\ FreshToken(t)
            /\ \A i \in SessionIds : i # s => sessions'[i] = sessions[i]
            /\ \A i \in TokenIds : i # t => tokens'[i] = tokens[i]
    BY <1>2 DEF CommitLogin, TypeOK
  <2>2. ~sessions[s].revoked /\ ~tokens[t].revoked
    BY <2>1 DEF FreshSession, FreshToken, NoSessionRow, NoToken
  <2>3. QED
    BY <2>1, <2>2 DEF Final
<1>3. ASSUME NEW r \in Requests, CommitRefresh(r) PROVE Final
  <2> DEFINE old == op[r].token
  <2>1. old \in TokenIds
    BY <1>3, OpFields DEF CommitRefresh, Doing
  <2>2. PICK t \in TokenIds :
            /\ FreshToken(t)
            /\ tokens' = [tokens EXCEPT ![old].revoked = TRUE,
                            ![t] = [session |-> tokens[old].session, revoked |-> FALSE]]
    BY <1>3 DEF CommitRefresh
  <2>3. \A i \in TokenIds : i # t /\ i # old => tokens'[i] = tokens[i]
    BY <2>1, <2>2 DEF TypeOK
  <2>4. old # t => tokens'[old].revoked
    BY <2>1, <2>2 DEF TypeOK, TokenRow
  <2>5. ~tokens[t].revoked
    BY <2>2 DEF FreshToken, NoToken
  <2>6. sessions' = sessions
    BY <1>3 DEF CommitRefresh, TouchSession
  <2> HIDE DEF old
  <2>7. QED
    BY <2>3, <2>4, <2>5, <2>6 DEF Final
<1>4. ASSUME NEW r \in Requests, NEW t \in TokenIds, RefreshReused(r, t) PROVE Final
  <2>1. tokens' = tokens /\ RevokeSessions({tokens[t].session})
    BY <1>4 DEF RefreshReused
  <2>2. QED
    BY <2>1, RevokedRows DEF Final
<1>5. ASSUME NEW r \in Requests, RevokeSessionTokens(r) PROVE Final
  <2>1. sessions' = sessions /\ RevokeTokensOf({op[r].session})
    BY <1>5 DEF RevokeSessionTokens
  <2>2. QED
    BY <2>1, RevokedTokens DEF Final
<1>6. ASSUME NEW r \in Requests, CommitReset(r) PROVE Final
  <2> DEFINE ss == SessionsOf(resets[op[r].reset].user)
  <2>1. RevokeSessions(ss) /\ RevokeTokensOf(ss)
    BY <1>6 DEF CommitReset
  <2> HIDE DEF ss
  <2>2. QED
    BY <2>1, RevokedRows, RevokedTokens DEF Final
<1>7. ASSUME NEW s \in SessionIds, Logout(s) PROVE Final
  <2>1. RevokeSessions({s}) /\ RevokeTokensOf({s})
    BY <1>7 DEF Logout
  <2>2. QED
    BY <2>1, RevokedRows, RevokedTokens DEF Final
<1>8. ASSUME NEW s \in SessionIds, SessionLapses(s) PROVE Final
  BY <1>8 DEF SessionLapses, Final, TypeOK, SessionRow
<1>9. ASSUME \/ \E r \in Requests :
                  \/ \E u \in Users, p \in Passwords : Login(r, u, p)
                  \/ \E t \in TokenIds : Refresh(r, t)
                  \/ \E u \in Users : ForgotPassword(r, u)
                  \/ CommitForgot(r)
                  \/ \E k \in ResetIds, p \in Passwords : ResetPassword(r, k, p)
                  \/ Abandon(r)
             \/ \E u \in Users : ThrottleEnds(u)
             \/ \E n \in Issues : CodeLapses(n) \/ LinkLapses(n)
             \/ \E k \in ResetIds : ResetLapses(k)
      PROVE  Final
  <2>1. sessions' = sessions /\ tokens' = tokens
    BY <1>9 DEF Login, Refresh, ForgotPassword, CommitForgot, ResetPassword, Abandon,
                ThrottleEnds, CodeLapses, LinkLapses, ResetLapses
  <2>2. QED
    BY <2>1 DEF Final
<1>10. QED
  BY <1>1, <1>2, <1>3, <1>4, <1>5, <1>6, <1>7, <1>8, <1>9
     DEF Next, SignIn, Recovery, Time

(***************************************************************************)
(* A revoked session or token stays revoked, whichever refreshes that      *)
(* passed their checks before commit afterwards.                           *)
(***************************************************************************)
THEOREM RevocationsAreFinal == Spec => RevocationIsFinal
<1>1. TypeOK /\ Linked /\ [Next]_vars => [Final]_vars
  BY FinalStep
<1>2. TypeOK /\ Linked /\ [Next]_vars => TypeOK' /\ Linked'
  BY BaseStep
<1>3. QED
  BY <1>1, <1>2, BaseInit, PTL DEF Spec, RevocationIsFinal, Final

(***************************************************************************)
(* Verification mail                                                       *)
(***************************************************************************)
\* A step that consumes no mail of an unverified account.
LEMMA MailKept ==
    ASSUME TypeOK, UnverifiedHoldsMail,
           \A u \in Users : users'[u].pwd # NoPassword /\ ~users'[u].verified =>
                /\ Registered(u) /\ ~users[u].verified
                /\ \A n \in Issued(u) :
                    /\ mails'[n].user = u
                    /\ mails'[n].linkUsed => mails[n].linkUsed
                    /\ mails'[n].codeUsed => mails[n].codeUsed
    PROVE  UnverifiedHoldsMail'
  BY DEF UnverifiedHoldsMail, Registered, Issued

LEMMA VerificationHoldsMail ==
    ASSUME TypeOK, Linked, UnverifiedHoldsMail, NEW r \in Requests, Verification(r)
    PROVE  UnverifiedHoldsMail'
<1>1. ASSUME NEW u \in Users, NEW p \in Passwords, Register(r, u, p)
      PROVE  UnverifiedHoldsMail'
  <2>1. PICK n \in Issues : mails[n] = NoMail /\ mails' = [mails EXCEPT ![n].user = u]
    BY <1>1 DEF Register, NextMail, MailsLeft
  <2>2. /\ mails'[n].user = u /\ ~mails'[n].linkUsed /\ ~mails'[n].codeUsed
        /\ \A i \in Issues : i # n => mails'[i] = mails[i]
    BY <2>1 DEF NoMail, TypeOK, MailRow
  <2>3. \A v \in Users : v # u => users'[v] = users[v]
    BY <1>1 DEF Register, TypeOK
  <2>4. \A v \in Users : n \notin Issued(v)
    BY <2>1, SessionsAssumption DEF Issued, NoMail
  <2>5. ASSUME NEW v \in Users, users'[v].pwd # NoPassword, ~users'[v].verified
        PROVE  \E i \in Issues : mails'[i].user = v /\ ~mails'[i].linkUsed /\ ~mails'[i].codeUsed
    <3>1. CASE v = u
      BY <2>2, <3>1
    <3>2. CASE v # u
      <4>1. PICK i \in Issued(v) : ~mails[i].linkUsed /\ ~mails[i].codeUsed
        BY <2>3, <2>5, <3>2 DEF UnverifiedHoldsMail, Registered
      <4>2. i \in Issues /\ i # n /\ mails[i].user = v
        BY <2>4, <4>1 DEF Issued
      <4>3. QED
        BY <2>2, <4>1, <4>2
    <3>3. QED
      BY <3>1, <3>2
  <2>6. QED
    BY <2>5 DEF UnverifiedHoldsMail, Registered, Issued
<1>2. CASE CommitVerifyEmail(r)
  <2> DEFINE n == op[r].mail
             u == mails[n].user
  <2>1. n \in Issues /\ u \in Users
    BY <1>2, OpFields DEF CommitVerifyEmail, Doing, Linked
  <2>2. users'[u].verified /\ \A v \in Users : v # u => users'[v] = users[v]
    BY <1>2, <2>1 DEF CommitVerifyEmail, TypeOK, UserRow
  <2>3. \A i \in Issues : i # n => mails'[i] = mails[i]
    BY <1>2, <2>1 DEF CommitVerifyEmail, TypeOK
  <2>4. \A v \in Users : v # u => n \notin Issued(v)
    BY DEF Issued
  <2>5. ASSUME NEW v \in Users, v # u, NEW i \in Issued(v)
        PROVE  mails'[i] = mails[i] /\ mails[i].user = v
    <3>1. i \in Issues /\ i # n /\ mails[i].user = v
      BY <2>4, <2>5 DEF Issued
    <3>2. QED
      BY <2>3, <3>1
  <2> HIDE DEF u, n
  <2>6. QED
    BY <2>2, <2>5, MailKept DEF Registered
<1>3. CASE IncrementOTPAttempts(r)
  <2>1. op[r].mail \in Issues
    BY <1>3, OpFields DEF IncrementOTPAttempts, Doing
  <2>2. \A i \in Issues : /\ mails'[i].user = mails[i].user
                          /\ mails'[i].linkUsed = mails[i].linkUsed
                          /\ mails'[i].codeUsed = mails[i].codeUsed
    BY <1>3, <2>1 DEF IncrementOTPAttempts, TypeOK, MailRow
  <2>3. users' = users
    BY <1>3 DEF IncrementOTPAttempts
  <2>4. QED
    BY <2>2, <2>3, MailKept DEF Registered, Issued
<1>4. CASE CommitVerifyByCode(r)
  <2> DEFINE n == op[r].mail
             u == mails[n].user
             m == [mails EXCEPT ![n].codeUsed = TRUE]
  <2>1. n \in Issues /\ u \in Users
    BY <1>4, OpFields DEF CommitVerifyByCode, Doing, Linked
  <2>2. users'[u].verified /\ \A v \in Users : v # u => users'[v] = users[v]
    BY <1>4, <2>1 DEF CommitVerifyByCode, TypeOK, UserRow
  <2>3. mails' = UseLinks(m, Issued(u))
    BY <1>4 DEF CommitVerifyByCode
  <2>4. /\ m \in [Issues -> MailRow]
        /\ \A i \in Issues : i # n => m[i] = mails[i]
    BY <2>1, CodeSpent
  <2>5. ASSUME NEW v \in Users, v # u, NEW i \in Issued(v)
        PROVE  /\ mails'[i].user = v
               /\ mails'[i].linkUsed => mails[i].linkUsed
               /\ mails'[i].codeUsed => mails[i].codeUsed
    <3>1. i \in Issues /\ i # n /\ mails[i].user = v /\ i \notin Issued(u)
      BY <2>5 DEF Issued
    <3>2. m[i] = mails[i] /\ mails[i] \in MailRow
      BY <2>4, <3>1 DEF TypeOK
    <3>3. mails'[i] = [m[i] EXCEPT !.linkUsed = @ \/ i \in Issued(u)]
      BY <2>3, <3>1 DEF UseLinks
    <3> HIDE DEF m, u, n
    <3>4. QED
      BY <3>1, <3>2, <3>3 DEF MailRow
  <2> HIDE DEF m, u, n
  <2>6. QED
    BY <2>2, <2>5, MailKept DEF Registered
<1>5. CASE CommitResend(r)
  <2> DEFINE u == op[r].user
  <2>1. u \in Users
    BY <1>5, OpFields DEF CommitResend, Doing
  <2>2. PICK n \in Issues, seen \in SUBSET Issued(u) :
            mails[n] = NoMail /\ mails' = Reissue(u, n, seen)
    BY <1>5 DEF CommitResend, NextMail, MailsLeft
  <2> DEFINE m == UseCodes(UseLinks(mails, seen), seen)
  <2>3. mails' = [m EXCEPT ![n].user = u] /\ m \in [Issues -> MailRow]
    BY <2>2, UpdatesTyped DEF Reissue, TypeOK
  <2>4. ASSUME NEW i \in Issues, i \notin seen PROVE m[i] = mails[i]
    BY <2>4 DEF UseCodes, UseLinks, TypeOK, MailRow
  <2>5. \A v \in Users : n \notin Issued(v)
    BY <2>2, SessionsAssumption DEF Issued, NoMail
  <2>6. n \notin seen
    BY <2>1, <2>5
  <2>7. users' = users
    BY <1>5 DEF CommitResend
  <2>8. m[n] = NoMail
    BY <2>2, <2>4, <2>6
  <2> HIDE DEF m
  <2>9. mails'[n].user = u /\ ~mails'[n].linkUsed /\ ~mails'[n].codeUsed
    BY <2>3, <2>8 DEF NoMail, MailRow
  <2>10. ASSUME NEW v \in Users, users'[v].pwd # NoPassword, ~users'[v].verified
         PROVE  \E i \in Issues : mails'[i].user = v /\ ~mails'[i].linkUsed /\ ~mails'[i].codeUsed
    <3>1. CASE v = u
      BY <2>9, <3>1
    <3>2. CASE v # u
      <4>1. PICK i \in Issued(v) : ~mails[i].linkUsed /\ ~mails[i].codeUsed
        BY <2>7, <2>10 DEF UnverifiedHoldsMail, Registered
      <4>2. i \in Issues /\ i # n /\ mails[i].user = v /\ i \notin seen
        BY <2>5, <3>2, <4>1 DEF Issued
      <4>3. mails'[i] = mails[i]
        BY <2>3, <2>4, <4>2
      <4>4. QED
        BY <4>1, <4>2, <4>3
    <3>3. QED
      BY <3>1, <3>2
  <2>11. QED
    BY <2>10 DEF UnverifiedHoldsMail, Registered, Issued
<1>6. ASSUME \/ \E n \in Issues : VerifyEmail(r, n)
             \/ \E u \in Users, right \in BOOLEAN : VerifyByCode(r, u, right)
             \/ \E u \in Users : ResendVerification(r, u)
      PROVE  UnverifiedHoldsMail'
  <2>1. users' = users /\ mails' = mails
    BY <1>6 DEF VerifyEmail, VerifyByCode, ResendVerification
  <2>2. QED
    BY <2>1 DEF UnverifiedHoldsMail, Registered, Issued
<1>7. QED
  BY <1>1, <1>2, <1>3, <1>4, <1>5, <1>6 DEF Verification

LEMMA HoldsMailStep ==
    ASSUME TypeOK, Linked, UnverifiedHoldsMail, [Next]_vars
    PROVE  UnverifiedHoldsMail'
<1>1. ASSUME NEW r \in Requests, Verification(r) PROVE UnverifiedHoldsMail'
  BY <1>1, VerificationHoldsMail
<1>2. ASSUME NEW r \in Requests, CommitReset(r) PROVE UnverifiedHoldsMail'
  <2> DEFINE u == resets[op[r].reset].user
  <2>1. op[r].reset \in ResetIds /\ u \in Users
    BY <1>2, OpFields DEF CommitReset, Doing, Linked
  <2>2. Registered(u)
    BY <2>1 DEF Linked
  <2>3. \A v \in Users : /\ users'[v].verified = users[v].verified
                         /\ v # u => users'[v] = users[v]
    BY <1>2, <2>1 DEF CommitReset, TypeOK, UserRow
  <2>4. mails' = mails
    BY <1>2 DEF CommitReset
  <2> HIDE DEF u
  <2>5. QED
    BY <2>2, <2>3, <2>4, MailKept DEF Registered, Issued
<1>3. ASSUME NEW n \in Issues, CodeLapses(n) \/ LinkLapses(n) PROVE UnverifiedHoldsMail'
  <2>1. \A i \in Issues : /\ mails'[i].user = mails[i].user
                          /\ mails'[i].linkUsed = mails[i].linkUsed
                          /\ mails'[i].codeUsed = mails[i].codeUsed
    BY <1>3 DEF CodeLapses, LinkLapses, TypeOK, MailRow
  <2>2. users' = users
    BY <1>3 DEF CodeLapses, LinkLapses
  <2>3. QED
    BY <2>1, <2>2, MailKept DEF Registered, Issued
<1>4. ASSUME \/ \E r \in Requests :
                  \/ SignIn(r)
                  \/ \E u \in Users : ForgotPassword(r, u)
                  \/ CommitForgot(r)
                  \/ \E k \in ResetIds, p \in Passwords : ResetPassword(r, k, p)
                  \/ Abandon(r)
             \/ \E s \in SessionIds : Logout(s) \/ SessionLapses(s)
             \/ \E u \in Users : ThrottleEnds(u)
             \/ \E k \in ResetIds : ResetLapses(k)
             \/ UNCHANGED vars
      PROVE  UnverifiedHoldsMail'
  <2>1. users' = users /\ mails' = mails
    BY <1>4 DEF SignIn, Login, CommitLogin, Refresh, RefreshReused, RevokeSessionTokens,
                CommitRefresh, ForgotPassword, CommitForgot, ResetPassword, Abandon,
                Logout, SessionLapses, ThrottleEnds, ResetLapses, vars
  <2>2. QED
    BY <2>1 DEF UnverifiedHoldsMail, Registered, Issued
<1>5. QED
  BY <1>1, <1>2, <1>3, <1>4 DEF Next, Recovery, Time

(***************************************************************************)
(* An account that is not verified can still be: it holds a link and a     *)
(* code that nothing consumed, under any overlap of resends.               *)
(***************************************************************************)
THEOREM NobodyIsLockedOut == Spec => []UnverifiedHoldsMail
<1>1. Init => UnverifiedHoldsMail
  BY DEF Init, UnverifiedHoldsMail, Registered
<1>2. TypeOK /\ Linked /\ UnverifiedHoldsMail /\ [Next]_vars => UnverifiedHoldsMail'
  BY HoldsMailStep
<1>3. TypeOK /\ Linked /\ [Next]_vars => TypeOK' /\ Linked'
  BY BaseStep
<1>4. QED
  BY <1>1, <1>2, <1>3, BaseInit, PTL DEF Spec

(***************************************************************************)
(* Guesses                                                                 *)
(***************************************************************************)
\* The requests whose wrong guess of code n is still to be counted.
Guessing(n) == {r \in Requests : Doing(r, "countGuess") /\ op[r].mail = n}

LEMMA GuessingFinite ==
    ASSUME NEW n \in Issues
    PROVE  /\ IsFiniteSet(Guessing(n)) /\ Cardinality(Guessing(n)) \in Nat
           /\ IsFiniteSet(Guessing(n))' /\ Cardinality(Guessing(n)') \in Nat
           /\ Cardinality(Guessing(n)') <= Cardinality(Requests)
           /\ Cardinality(Requests) \in Nat
<1>1. Guessing(n) \subseteq Requests /\ Guessing(n)' \subseteq Requests
  BY DEF Guessing
<1>2. QED
  BY <1>1, SessionsAssumption, FS_Subset, FS_CardinalityType

\* A step that adds no guess and no attempt.
LEMMA NoNewGuess ==
    ASSUME TypeOK, TypeOK', GuessesBounded,
           \A n \in Issues : mails'[n].attempts = mails[n].attempts,
           \A r \in Requests : op'[r].do = "countGuess" => op'[r] = op[r]
    PROVE  GuessesBounded'
<1> SUFFICES ASSUME NEW n \in Issues
             PROVE  mails'[n].attempts + Cardinality(Guessing(n)')
                        <= OTPMaxAttempts + Cardinality(Requests) - 1
  BY DEF GuessesBounded, Guessing
<1>1. Guessing(n)' \subseteq Guessing(n)
  BY DEF Guessing, Doing
<1>2. Cardinality(Guessing(n)') <= Cardinality(Guessing(n))
  BY <1>1, GuessingFinite, FS_Subset
<1>3. mails[n].attempts + Cardinality(Guessing(n)) <= OTPMaxAttempts + Cardinality(Requests) - 1
  BY DEF GuessesBounded, Guessing
<1>4. mails[n].attempts \in Nat
  BY DEF TypeOK, MailRow
<1>5. QED
  BY <1>2, <1>3, <1>4, GuessingFinite, SessionsAssumption

\* Holding anything but a guess, or dropping one, adds none.
LEMMA HoldNoGuess ==
    ASSUME TypeOK, NEW r \in Requests, NEW next, Hold(r, next), next.do # "countGuess"
    PROVE  \A q \in Requests : op'[q].do = "countGuess" => op'[q] = op[q]
  BY OthersKeepOp

LEMMA DoneNoGuess ==
    ASSUME TypeOK, NEW r \in Requests, Done(r)
    PROVE  \A q \in Requests : op'[q].do = "countGuess" => op'[q] = op[q]
  BY HoldNoGuess DEF Done, IdleOp

\* A wrong guess is taken up while the counter is below the limit.
LEMMA GuessTakenUp ==
    ASSUME TypeOK, TypeOK', GuessesBounded, NEW r \in Requests, NEW u \in Users,
           VerifyByCode(r, u, FALSE)
    PROVE  GuessesBounded'
<1>1. PICK n \in Issues :
        mails[n].attempts < OTPMaxAttempts /\ Hold(r, [do |-> "countGuess", mail |-> n])
  BY DEF VerifyByCode, OpenForGuess
<1>2. mails' = mails
  BY DEF VerifyByCode
<1> SUFFICES ASSUME NEW i \in Issues
             PROVE  mails'[i].attempts + Cardinality(Guessing(i)')
                        <= OTPMaxAttempts + Cardinality(Requests) - 1
  BY DEF GuessesBounded, Guessing
<1>3. mails[i].attempts \in Nat
  BY DEF TypeOK, MailRow
<1>4. CASE i = n
  BY <1>1, <1>2, <1>3, <1>4, GuessingFinite, SessionsAssumption
<1>5. CASE i # n
  <2>1. op'[r] = [do |-> "countGuess", mail |-> n] /\ \A q \in Requests \ {r} : op'[q] = op[q]
    BY <1>1, OthersKeepOp
  <2>2. Guessing(i)' \subseteq Guessing(i)
    BY <1>5, <2>1 DEF Guessing, Doing
  <2>3. Cardinality(Guessing(i)') <= Cardinality(Guessing(i))
    BY <2>2, GuessingFinite, FS_Subset
  <2>4. mails[i].attempts + Cardinality(Guessing(i)) <= OTPMaxAttempts + Cardinality(Requests) - 1
    BY DEF GuessesBounded, Guessing
  <2>5. QED
    BY <1>2, <1>3, <2>3, <2>4, GuessingFinite, SessionsAssumption
<1>6. QED
  BY <1>4, <1>5

\* Counting a guess moves it from the requests to the row.
LEMMA GuessCounted ==
    ASSUME TypeOK, TypeOK', GuessesBounded, NEW r \in Requests, IncrementOTPAttempts(r)
    PROVE  GuessesBounded'
<1> DEFINE n == op[r].mail
<1>1. n \in Issues
  BY OpFields DEF IncrementOTPAttempts, Doing
<1>2. op'[r].do = "idle" /\ \A q \in Requests \ {r} : op'[q] = op[q]
  BY DoneIsIdle DEF IncrementOTPAttempts
<1>3. \A i \in Issues : mails'[i].attempts =
            IF i = n THEN mails[i].attempts + 1 ELSE mails[i].attempts
  BY <1>1 DEF IncrementOTPAttempts, TypeOK, MailRow
<1>4. op[r].do = "countGuess"
  BY DEF IncrementOTPAttempts, Doing
<1> SUFFICES ASSUME NEW i \in Issues
             PROVE  mails'[i].attempts + Cardinality(Guessing(i)')
                        <= OTPMaxAttempts + Cardinality(Requests) - 1
  BY DEF GuessesBounded, Guessing
<1>5. mails[i].attempts \in Nat
  BY DEF TypeOK, MailRow
<1>6. mails[i].attempts + Cardinality(Guessing(i)) <= OTPMaxAttempts + Cardinality(Requests) - 1
  BY DEF GuessesBounded, Guessing
<1>7. CASE i = n
  <2>1. r \in Guessing(i)
    BY <1>4, <1>7 DEF Guessing, Doing
  <2>2. Guessing(i)' = Guessing(i) \ {r}
    BY <1>2 DEF Guessing, Doing
  <2>3. Cardinality(Guessing(i)') = Cardinality(Guessing(i)) - 1
    BY <2>1, <2>2, GuessingFinite, FS_RemoveElement
  <2> HIDE DEF n
  <2>4. QED
    BY <1>3, <1>5, <1>6, <1>7, <2>3, GuessingFinite, SessionsAssumption
<1>8. CASE i # n
  <2>1. Guessing(i)' \subseteq Guessing(i)
    BY <1>2 DEF Guessing, Doing
  <2>2. Cardinality(Guessing(i)') <= Cardinality(Guessing(i))
    BY <2>1, GuessingFinite, FS_Subset
  <2> HIDE DEF n
  <2>3. QED
    BY <1>3, <1>5, <1>6, <1>8, <2>2, GuessingFinite, SessionsAssumption
<1>9. QED
  BY <1>7, <1>8

LEMMA AttemptsKept ==
    ASSUME TypeOK, NEW m \in [Issues -> MailRow], NEW ns, NEW n \in Issues
    PROVE  /\ UseLinks(m, ns)[n].attempts = m[n].attempts
           /\ UseCodes(m, ns)[n].attempts = m[n].attempts
  BY DEF UseLinks, UseCodes, MailRow

LEMMA VerificationGuesses ==
    ASSUME TypeOK, TypeOK', Linked, GuessesBounded, NEW r \in Requests, Verification(r)
    PROVE  GuessesBounded'
<1>1. ASSUME NEW u \in Users, NEW p \in Passwords, Register(r, u, p) PROVE GuessesBounded'
  <2>1. \A n \in Issues : mails'[n].attempts = mails[n].attempts
    BY <1>1 DEF Register, TypeOK, MailRow
  <2>2. QED
    BY <1>1, <2>1, NoNewGuess DEF Register
<1>2. ASSUME NEW n \in Issues, VerifyEmail(r, n) PROVE GuessesBounded'
  <2>1. Hold(r, [do |-> "verifyLink", mail |-> n]) /\ mails' = mails
    BY <1>2 DEF VerifyEmail
  <2>2. QED
    BY <2>1, HoldNoGuess, NoNewGuess
<1>3. CASE CommitVerifyEmail(r)
  <2>1. op[r].mail \in Issues
    BY <1>3, OpFields DEF CommitVerifyEmail, Doing
  <2>2. \A n \in Issues : mails'[n].attempts = mails[n].attempts
    BY <1>3, <2>1 DEF CommitVerifyEmail, TypeOK, MailRow
  <2>3. QED
    BY <1>3, <2>2, DoneNoGuess, NoNewGuess DEF CommitVerifyEmail
<1>4. ASSUME NEW u \in Users, VerifyByCode(r, u, FALSE) PROVE GuessesBounded'
  BY <1>4, GuessTakenUp
<1>5. ASSUME NEW u \in Users, VerifyByCode(r, u, TRUE) PROVE GuessesBounded'
  <2>1. PICK n \in Issues : Hold(r, [do |-> "verifyCode", mail |-> n])
    BY <1>5 DEF VerifyByCode
  <2>2. mails' = mails
    BY <1>5 DEF VerifyByCode
  <2>3. QED
    BY <2>1, <2>2, HoldNoGuess, NoNewGuess
<1>6. CASE IncrementOTPAttempts(r)
  BY <1>6, GuessCounted
<1>7. CASE CommitVerifyByCode(r)
  <2> DEFINE m == [mails EXCEPT ![op[r].mail].codeUsed = TRUE]
  <2>1. op[r].mail \in Issues
    BY <1>7, OpFields DEF CommitVerifyByCode, Doing
  <2>2. m \in [Issues -> MailRow] /\ \A n \in Issues : m[n].attempts = mails[n].attempts
    BY <2>1, CodeSpent
  <2>3. mails' = UseLinks(m, Issued(mails[op[r].mail].user)) /\ Done(r)
    BY <1>7 DEF CommitVerifyByCode
  <2> HIDE DEF m
  <2>4. \A n \in Issues : mails'[n].attempts = mails[n].attempts
    BY <2>2, <2>3, AttemptsKept
  <2>5. QED
    BY <2>3, <2>4, DoneNoGuess, NoNewGuess
<1>8. ASSUME NEW u \in Users, ResendVerification(r, u) PROVE GuessesBounded'
  <2>1. Hold(r, [do |-> "resend", user |-> u, known |-> Issued(u)]) /\ mails' = mails
    BY <1>8 DEF ResendVerification
  <2>2. QED
    BY <2>1, HoldNoGuess, NoNewGuess
<1>9. CASE CommitResend(r)
  <2>1. PICK n \in Issues, seen \in SUBSET Issued(op[r].user) :
            mails' = Reissue(op[r].user, n, seen)
    BY <1>9 DEF CommitResend
  <2> DEFINE m == UseCodes(UseLinks(mails, seen), seen)
  <2>2. m \in [Issues -> MailRow] /\ \A i \in Issues : m[i].attempts = mails[i].attempts
    <3>1. mails \in [Issues -> MailRow]
      BY DEF TypeOK
    <3> DEFINE k == UseLinks(mails, seen)
    <3>2. k \in [Issues -> MailRow] /\ \A i \in Issues : k[i].attempts = mails[i].attempts
      BY <3>1, UpdatesTyped, AttemptsKept
    <3> HIDE DEF k
    <3>3. /\ UseCodes(k, seen) \in [Issues -> MailRow]
          /\ \A i \in Issues : UseCodes(k, seen)[i].attempts = k[i].attempts
      BY <3>2, UpdatesTyped, AttemptsKept
    <3>4. QED
      BY <3>2, <3>3 DEF k
  <2>3. mails' = [m EXCEPT ![n].user = op[r].user]
    BY <2>1 DEF Reissue
  <2> HIDE DEF m
  <2>4. \A i \in Issues : mails'[i].attempts = mails[i].attempts
    BY <2>2, <2>3 DEF MailRow
  <2>5. QED
    BY <1>9, <2>4, DoneNoGuess, NoNewGuess DEF CommitResend
<1>10. ASSUME NEW u \in Users, NEW right \in BOOLEAN, VerifyByCode(r, u, right)
       PROVE  GuessesBounded'
  <2>1. CASE right = TRUE
    BY <1>5, <1>10, <2>1
  <2>2. CASE right = FALSE
    BY <1>4, <1>10, <2>2
  <2>3. QED
    BY <2>1, <2>2
<1>11. QED
  BY <1>1, <1>2, <1>3, <1>6, <1>7, <1>8, <1>9, <1>10 DEF Verification

LEMMA GuessesStep ==
    ASSUME TypeOK, TypeOK', Linked, GuessesBounded, [Next]_vars
    PROVE  GuessesBounded'
<1>1. ASSUME NEW r \in Requests, Verification(r) PROVE GuessesBounded'
  BY <1>1, VerificationGuesses
<1>2. ASSUME NEW r \in Requests, SignIn(r) \/ Recovery(r) \/ Abandon(r)
      PROVE  GuessesBounded'
  <2>1. mails' = mails
    BY <1>2 DEF SignIn, Login, CommitLogin, Refresh, RefreshReused, RevokeSessionTokens,
                CommitRefresh, Recovery, ForgotPassword, CommitForgot, ResetPassword,
                CommitReset, Abandon
  <2>2. \/ Done(r)
        \/ \E next : Hold(r, next) /\ next.do # "countGuess"
    <3>1. ASSUME NEW u \in Users, NEW p \in Passwords, Login(r, u, p)
          PROVE  \E next : Hold(r, next) /\ next.do # "countGuess"
      <4>1. Hold(r, [do |-> "login", user |-> u, pwd |-> p])
        BY <3>1 DEF Login
      <4>2. QED
        BY <4>1
    <3>2. ASSUME NEW t \in TokenIds, Refresh(r, t)
          PROVE  \E next : Hold(r, next) /\ next.do # "countGuess"
      <4>1. Hold(r, [do |-> "rotate", token |-> t])
        BY <3>2 DEF Refresh
      <4>2. QED
        BY <4>1
    <3>3. ASSUME NEW t \in TokenIds, RefreshReused(r, t)
          PROVE  \E next : Hold(r, next) /\ next.do # "countGuess"
      <4>1. Hold(r, [do |-> "revokeTokens", session |-> tokens[t].session])
        BY <3>3 DEF RefreshReused
      <4>2. QED
        BY <4>1
    <3>4. ASSUME NEW u \in Users, ForgotPassword(r, u)
          PROVE  \E next : Hold(r, next) /\ next.do # "countGuess"
      <4>1. Hold(r, [do |-> "forgot", user |-> u, known |-> ResetsOf(u)])
        BY <3>4 DEF ForgotPassword
      <4>2. QED
        BY <4>1
    <3>5. ASSUME NEW k \in ResetIds, NEW p \in Passwords, ResetPassword(r, k, p)
          PROVE  \E next : Hold(r, next) /\ next.do # "countGuess"
      <4>1. Hold(r, [do |-> "reset", reset |-> k, pwd |-> p])
        BY <3>5 DEF ResetPassword
      <4>2. QED
        BY <4>1
    <3>6. ASSUME \/ CommitLogin(r) \/ RevokeSessionTokens(r) \/ CommitRefresh(r)
                 \/ CommitForgot(r) \/ CommitReset(r) \/ Abandon(r)
          PROVE  Done(r)
      BY <3>6 DEF CommitLogin, RevokeSessionTokens, CommitRefresh, CommitForgot,
                  CommitReset, Abandon
    <3>7. QED
      BY <1>2, <3>1, <3>2, <3>3, <3>4, <3>5, <3>6 DEF SignIn, Recovery
  <2>3. \A q \in Requests : op'[q].do = "countGuess" => op'[q] = op[q]
    BY <2>2, HoldNoGuess, DoneNoGuess
  <2>4. QED
    BY <2>1, <2>3, NoNewGuess
<1>3. ASSUME (\E s \in SessionIds : Logout(s)) \/ Time \/ UNCHANGED vars
      PROVE  GuessesBounded'
  <2>1. op' = op
    BY <1>3 DEF Logout, Time, ThrottleEnds, CodeLapses, LinkLapses, ResetLapses,
                SessionLapses, vars
  <2>2. \A n \in Issues : mails'[n].attempts = mails[n].attempts
    <3>1. ASSUME NEW i \in Issues, CodeLapses(i) \/ LinkLapses(i)
          PROVE  \A n \in Issues : mails'[n].attempts = mails[n].attempts
      BY <3>1 DEF CodeLapses, LinkLapses, TypeOK, MailRow
    <3>2. ASSUME \/ \E s \in SessionIds : Logout(s) \/ SessionLapses(s)
                 \/ \E u \in Users : ThrottleEnds(u)
                 \/ \E k \in ResetIds : ResetLapses(k)
                 \/ UNCHANGED vars
          PROVE  mails' = mails
      BY <3>2 DEF Logout, SessionLapses, ThrottleEnds, ResetLapses, vars
    <3>3. QED
      BY <1>3, <3>1, <3>2 DEF Time
  <2>3. QED
    BY <2>1, <2>2, NoNewGuess
<1>4. QED
  BY <1>1, <1>2, <1>3 DEF Next

(***************************************************************************)
(* A code takes at most OTPMaxAttempts wrong guesses, and those that were  *)
(* in flight when the limit was reached, for any number of requests.       *)
(***************************************************************************)
THEOREM GuessesAreBounded == Spec => []GuessesBounded
<1>1. Init => GuessesBounded
  <2> SUFFICES ASSUME Init, NEW n \in Issues
               PROVE  mails[n].attempts + Cardinality(Guessing(n))
                        <= OTPMaxAttempts + Cardinality(Requests) - 1
    BY DEF GuessesBounded, Guessing
  <2>1. Guessing(n) = {}
    BY DEF Init, Guessing, Doing, IdleOp
  <2>2. Cardinality(Guessing(n)) = 0 /\ mails[n].attempts = 0
    BY <2>1, FS_EmptySet DEF Init, NoMail
  <2>3. QED
    BY <2>2, GuessingFinite, SessionsAssumption
<1>2. TypeOK /\ TypeOK' /\ Linked /\ GuessesBounded /\ [Next]_vars => GuessesBounded'
  BY GuessesStep
<1>3. TypeOK /\ Linked /\ [Next]_vars => TypeOK' /\ Linked'
  BY BaseStep
<1>4. QED
  BY <1>1, <1>2, <1>3, BaseInit, PTL DEF Spec
=============================================================================
