------------------------------- MODULE SignIn -------------------------------
(***************************************************************************)
(* Registration by e-mail code (auth/local.ts, auth/email-codes.ts), login *)
(* with a password, and the second factor (auth/login-2fa.ts,              *)
(* auth/totp.ts).                                                          *)
(***************************************************************************)
EXTENDS AccountDb

-----------------------------------------------------------------------------
(* Registration: a check, the hash of the password, a code, a pending row. *)
StartRegistration(r, e) ==
    /\ CanBegin(r)
    /\ LiveWith(e) = {}
    /\ Begin(r, Request("register", 0, e))
    /\ UNCHANGED <<docVars, consumed>>

IssueRegistrationCode(r) ==
    /\ flight[r].op = "register"
    /\ Issue(Secret("register", 0, flight[r].email), {})
    /\ Continue(r, [flight[r] EXCEPT !.op = "registerPend", !.code = issued + 1])
    /\ UNCHANGED <<acct, sessions, identities, pendingReg, change, pendingTotp, consumed>>

\* The pending row of the address is replaced; the older codes stay.
StorePending(r) ==
    /\ flight[r].op = "registerPend"
    /\ pendingReg' = [pendingReg EXCEPT ![flight[r].email] = flight[r].code]
    /\ Finish(r, {})
    /\ UNCHANGED <<acct, sessions, identities, secrets, issued, change, pendingTotp, uses, consumed>>

\* Seeded fault: the address is not looked at again.
VerifyUnchecked(r, e) ==
    /\ CanBegin(r)
    /\ pendingReg[e] # 0
    /\ Begin(r, [Request("verify", 0, e) EXCEPT !.code = pendingReg[e]])
    /\ UNCHANGED <<docVars, consumed>>

\* verifyRegistration, first half: a pending row, and the address is free.
VerifyRegistration(r, e) ==
    /\ CanBegin(r)
    /\ pendingReg[e] # 0
    /\ LiveWith(e) = {}
    /\ Begin(r, [Request("verify", 0, e) EXCEPT !.code = pendingReg[e]])
    /\ UNCHANGED <<docVars, consumed>>

\* ... then verifyCode, which takes any code of the address that is the
\* newest, whichever registration it was sent for.
VerifyRegistrationCode(r, typed) ==
    LET e == flight[r].email IN
    /\ flight[r].op = "verify"
    /\ \/ /\ CodeIsRight("register", e, typed)
          /\ Continue(r, [flight[r] EXCEPT !.op = "create"])
       \/ /\ CodeIsWrong("register", e, typed)
          /\ Finish(r, {})
    /\ UNCHANGED <<acct, sessions, identities, pendingReg, change, pendingTotp, consumed>>

\* ... then the user, a session and the end of that pending row in one update,
\* which does not ask again whether the address is free.
CreateUser(r) ==
    LET e == flight[r].email
        unused == {u \in Users : acct[u].state = "free"}
        u == Least(unused) IN
    /\ flight[r].op = "create"
    /\ unused # {}
    /\ acct' = [acct EXCEPT ![u] =
           [state |-> "live", email |-> e, password |-> TRUE, totp |-> FALSE]]
    /\ sessions' = sessions \cup {[user |-> u, kind |-> "full", weak |-> FALSE]}
    /\ pendingReg' = [pendingReg EXCEPT ![e] = IF @ = flight[r].code THEN 0 ELSE @]
    /\ Finish(r, {e})
    /\ UNCHANGED <<identities, secrets, issued, change, pendingTotp, uses, consumed>>

-----------------------------------------------------------------------------
(* Login: the first user with the address, deleted or not, and a password. *)
StartLogin(r, e) ==
    LET having == {u \in Users : HasAddress(u, e)}
        u == Least(having) IN
    /\ CanBegin(r)
    /\ having # {}
    /\ Live(u) /\ acct[u].password
    /\ Begin(r, Request(IF acct[u].totp THEN "login2fa" ELSE "login", u, e))
    /\ UNCHANGED <<docVars, consumed>>

\* The session of a user whose password was right, on what was read before.
OpenSession(r) ==
    /\ flight[r].op = "login"
    /\ sessions' = sessions \cup {Opened(flight[r].user, "full")}
    /\ Finish(r, {flight[r].user})
    /\ UNCHANGED <<acct, identities, secrets, issued, pendingReg, change, pendingTotp, uses, consumed>>

\* Seeded fault: the intermediate session is a full one.
IntermediateIsFull(r) ==
    /\ flight[r].op = "login2fa"
    /\ sessions' = sessions \cup {Opened(flight[r].user, "full")}
    /\ Finish(r, {})
    /\ UNCHANGED <<acct, identities, secrets, issued, pendingReg, change, pendingTotp, uses, consumed>>

IssueIntermediateSession(r) ==
    /\ flight[r].op = "login2fa"
    /\ sessions' = sessions \cup {Opened(flight[r].user, "2fa")}
    /\ Finish(r, {flight[r].user})
    /\ UNCHANGED <<acct, identities, secrets, issued, pendingReg, change, pendingTotp, uses, consumed>>

\* login2FA: the intermediate session, then a TOTP code of an enrolled user ...
Login2FA(r, u) ==
    /\ CanBegin(r)
    /\ \E s \in sessions : s.user = u /\ s.kind = "2fa"
    /\ acct[u].totp
    /\ Begin(r, Request("rotate", u, None))
    /\ UNCHANGED <<docVars, consumed>>

\* ... or a recovery code, which is taken out of the list in the same update.
ConsumeRecoveryCode(r, s) ==
    /\ CanBegin(r)
    /\ s.kind = "recovery"
    /\ \E t \in sessions : t.user = s.user /\ t.kind = "2fa"
    /\ Begin(r, Request("rotate", s.user, None))
    /\ Accept(s)
    /\ UNCHANGED <<acct, sessions, identities, pendingReg, change, pendingTotp, consumed>>

\* rotateSession: the intermediate session goes (others of the user may stay),
\* a full one comes; if it is gone already, nothing happens.
RotateSession(r) ==
    LET u == flight[r].user
        old == {s \in sessions : s.user = u /\ s.kind = "2fa"} IN
    /\ flight[r].op = "rotate"
    /\ IF old = {} THEN UNCHANGED sessions
       ELSE \E gone \in {old, {}} :
            sessions' = (sessions \ gone) \cup {[user |-> u, kind |-> "full", weak |-> FALSE]}
    /\ Finish(r, {u})
    /\ UNCHANGED <<acct, identities, secrets, issued, pendingReg, change, pendingTotp, uses, consumed>>

-----------------------------------------------------------------------------
(* The second factor: enrol, confirm, disable, new recovery codes.         *)
EnrollTotp(r, u) ==
    /\ CanBegin(r)
    /\ Resolves(u) /\ ~acct[u].totp
    /\ Begin(r, Request("enroll", u, None))
    /\ UNCHANGED <<docVars, consumed>>

StoreEnrollment(r) ==
    /\ flight[r].op = "enroll"
    /\ pendingTotp' = pendingTotp \cup {flight[r].user}
    /\ Finish(r, {})
    /\ UNCHANGED <<acct, sessions, identities, secrets, issued, pendingReg, change, uses, consumed>>

ConfirmTotp(r, u) ==
    /\ CanBegin(r)
    /\ Resolves(u) /\ u \in pendingTotp
    /\ Begin(r, Request("confirmTotp", u, None))
    /\ UNCHANGED <<docVars, consumed>>

RecoveryCodes(u) == {s \in secrets : s.kind = "recovery" /\ s.user = u}

EnableTotp(r) ==
    LET u == flight[r].user IN
    /\ flight[r].op = "confirmTotp"
    /\ acct' = [acct EXCEPT ![u].totp = TRUE]
    /\ Issue(Secret("recovery", u, None), RecoveryCodes(u))
    /\ pendingTotp' = pendingTotp \ {u}
    /\ Finish(r, {u})
    /\ UNCHANGED <<sessions, identities, pendingReg, change, consumed>>

\* The route asks for the password or a code again, then disableTotp.
DisableTotp(r, u) ==
    /\ CanBegin(r)
    /\ Resolves(u) /\ acct[u].totp
    /\ Begin(r, Request("disableTotp", u, None))
    /\ UNCHANGED <<docVars, consumed>>

DropTotp(r) ==
    LET u == flight[r].user IN
    /\ flight[r].op = "disableTotp"
    /\ acct' = [acct EXCEPT ![u].totp = FALSE]
    /\ secrets' = secrets \ RecoveryCodes(u)
    /\ pendingTotp' = pendingTotp \ {u}
    /\ Finish(r, {u})
    /\ UNCHANGED <<sessions, identities, issued, pendingReg, change, uses, consumed>>

RegenerateRecoveryCodes(u) ==
    /\ AtOnce({})
    /\ Resolves(u) /\ acct[u].totp
    /\ Issue(Secret("recovery", u, None), RecoveryCodes(u))
    /\ UNCHANGED <<acct, sessions, identities, pendingReg, change, pendingTotp, consumed>>

-----------------------------------------------------------------------------
SignInNext ==
    \/ \E r \in Requests, e \in Emails :
           StartRegistration(r, e) \/ VerifyRegistration(r, e) \/ StartLogin(r, e)
    \/ \E r \in Requests :
           \/ IssueRegistrationCode(r) \/ StorePending(r) \/ CreateUser(r)
           \/ OpenSession(r) \/ IssueIntermediateSession(r) \/ RotateSession(r)
           \/ StoreEnrollment(r) \/ EnableTotp(r) \/ DropTotp(r)
           \/ \E n \in 0..MaxIssued : VerifyRegistrationCode(r, n)
           \/ \E s \in secrets : ConsumeRecoveryCode(r, s)
           \/ \E u \in Users :
                  Login2FA(r, u) \/ EnrollTotp(r, u) \/ ConfirmTotp(r, u) \/ DisableTotp(r, u)
    \/ \E u \in Users : RegenerateRecoveryCodes(u)
=============================================================================
