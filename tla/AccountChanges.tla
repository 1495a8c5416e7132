--------------------------- MODULE AccountChanges ---------------------------
(***************************************************************************)
(* What a user, or an administrator, changes about an account:             *)
(* auth/password-reset.ts, auth/account.ts and the routes /api/me and      *)
(* /api/admin/users of routes.ts.                                          *)
(***************************************************************************)
EXTENDS SignIn

-----------------------------------------------------------------------------
(* Password reset by a link.                                               *)
RequestReset(r, e) ==
    /\ CanBegin(r)
    /\ \E u \in LiveWith(e) :
        /\ u = Least(LiveWith(e)) /\ acct[u].password
        /\ Begin(r, Request("requestReset", u, e))
    /\ UNCHANGED <<docVars, consumed>>

IssueReset(r) ==
    LET u == flight[r].user IN
    /\ flight[r].op = "requestReset"
    /\ Issue(Secret("reset", u, None), {s \in secrets : s.kind = "reset" /\ s.user = u})
    /\ Finish(r, {})
    /\ UNCHANGED <<acct, sessions, identities, pendingReg, change, pendingTotp, consumed>>

\* confirmPasswordReset up to the hash: the row is there and not used.
ConfirmReset(r, s) ==
    /\ CanBegin(r)
    /\ s.kind = "reset" /\ Live(s.user)
    /\ Begin(r, [Request("reset", s.user, None) EXCEPT !.code = s.id])
    /\ UNCHANGED <<docVars, consumed>>

\* ... and after it: the password, the mark on the row if it is still there,
\* the end of all sessions.  Nothing is checked again.
SetPassword(r) ==
    LET f == flight[r] IN
    /\ f.op = "reset"
    /\ acct' = [acct EXCEPT ![f.user].password = TRUE]
    /\ sessions' = {s \in sessions : s.user # f.user}
    /\ secrets' = {s \in secrets : s.id # f.code}
    /\ Used([id |-> f.code, kind |-> "reset", user |-> f.user])
    /\ Finish(r, {f.user})
    /\ UNCHANGED <<identities, issued, pendingReg, change, pendingTotp, consumed>>

-----------------------------------------------------------------------------
(* Changing the e-mail address: a check, a code to the new one, a pending   *)
(* row; then the same check, the code, the write.                           *)
RequestEmailChange(r, u, e) ==
    /\ CanBegin(r)
    /\ Resolves(u)
    /\ acct[u].email # e
    /\ LiveWith(e) \subseteq {u}
    /\ Begin(r, Request("emailChange", u, e))
    /\ UNCHANGED <<docVars, consumed>>

IssueEmailChangeCode(r) ==
    LET f == flight[r] IN
    /\ f.op = "emailChange"
    /\ Issue(Secret("email-change", f.user, f.email), {})
    /\ Continue(r, [f EXCEPT !.op = "emailChangePend", !.code = issued + 1])
    /\ UNCHANGED <<acct, sessions, identities, pendingReg, change, pendingTotp, consumed>>

StoreEmailChange(r) ==
    LET f == flight[r] IN
    /\ f.op = "emailChangePend"
    /\ change' = [change EXCEPT ![f.user] = [code |-> f.code, email |-> f.email]]
    /\ Finish(r, {})
    /\ UNCHANGED <<acct, sessions, identities, secrets, issued, pendingReg, pendingTotp, uses, consumed>>

ConfirmEmailChange(r, u) ==
    LET c == change[u] IN
    /\ CanBegin(r)
    /\ Resolves(u)
    /\ c # NoChange
    /\ LiveWith(c.email) \subseteq {u}
    /\ Begin(r, [Request("confirmChange", u, c.email) EXCEPT !.code = c.code])
    /\ UNCHANGED <<docVars, consumed>>

VerifyEmailChangeCode(r, typed) ==
    LET f == flight[r] IN
    /\ f.op = "confirmChange"
    /\ \/ CodeIsRight("email-change", f.email, typed) /\ Continue(r, [f EXCEPT !.op = "writeEmail"])
       \/ CodeIsWrong("email-change", f.email, typed) /\ Finish(r, {})
    /\ UNCHANGED <<acct, sessions, identities, pendingReg, change, pendingTotp, consumed>>

WriteEmail(r) ==
    LET f == flight[r] IN
    /\ f.op = "writeEmail"
    /\ acct' = [acct EXCEPT ![f.user].email = f.email]
    /\ change' = [change EXCEPT ![f.user] = IF @.code = f.code THEN NoChange ELSE @]
    /\ Finish(r, {f.email, f.user})
    /\ UNCHANGED <<sessions, identities, secrets, issued, pendingReg, pendingTotp, uses, consumed>>

-----------------------------------------------------------------------------
(* POST /api/me/password: the old password, or TOTP for a first password.  *)
ChangePassword(r, u) ==
    /\ CanBegin(r)
    /\ Resolves(u)
    /\ acct[u].password \/ acct[u].totp
    /\ Begin(r, Request("password", u, None))
    /\ UNCHANGED <<docVars, consumed>>

StorePassword(r) ==
    LET u == flight[r].user IN
    /\ flight[r].op = "password"
    /\ acct' = [acct EXCEPT ![u].password = TRUE]
    /\ Finish(r, {u})
    /\ UNCHANGED <<sessions, identities, secrets, issued, pendingReg, change, pendingTotp, uses, consumed>>

\* DELETE /api/me: the password or TOTP again, then softDeleteUser (roles, and
\* the check for another administrator, are left out).
DeleteAccount(r, u) ==
    /\ CanBegin(r)
    /\ Resolves(u)
    /\ acct[u].password \/ acct[u].totp
    /\ Begin(r, Request("delete", u, None))
    /\ UNCHANGED <<docVars, consumed>>

\* Seeded fault: the sessions of the user stay.
SoftDeleteKeepsSessions(r) ==
    LET u == flight[r].user IN
    /\ flight[r].op = "delete"
    /\ acct' = [acct EXCEPT ![u].state = "deleted", ![u].totp = FALSE]
    /\ secrets' = secrets \ RecoveryCodes(u)
    /\ pendingTotp' = pendingTotp \ {u}
    /\ change' = [change EXCEPT ![u] = NoChange]
    /\ Finish(r, {u})
    /\ UNCHANGED <<sessions, identities, issued, pendingReg, uses, consumed>>

SoftDelete(r) ==
    LET u == flight[r].user IN
    /\ flight[r].op = "delete"
    /\ acct' = [acct EXCEPT ![u].state = "deleted", ![u].totp = FALSE]
    /\ sessions' = {s \in sessions : s.user # u}
    /\ secrets' = secrets \ RecoveryCodes(u)
    /\ pendingTotp' = pendingTotp \ {u}
    /\ change' = [change EXCEPT ![u] = NoChange]
    /\ Finish(r, {u})
    /\ UNCHANGED <<identities, issued, pendingReg, uses, consumed>>

\* POST /api/admin/users/:id/toggle-lock: deletedAt is set or taken away; the
\* sessions stay, and nobody asks who has the address by now.
ToggleLock(u) ==
    LET S == {u, acct[u].email} IN
    /\ begun < MaxRequests
    /\ acct[u].state # "free"
    /\ acct' = [acct EXCEPT ![u].state = IF @ = "live" THEN "locked" ELSE "live"]
    /\ begun' = begun + 1
    /\ late' = late \cup {q \in Requests : About(flight[q]) \cap S # {}}
    /\ raced' = raced \cup (IF Live(u) THEN {} ELSE S)
    /\ UNCHANGED <<sessions, identities, secrets, issued, pendingReg, change, pendingTotp, uses,
                   consumed, flight, restarts>>

-----------------------------------------------------------------------------
ChangesNext ==
    \/ \E r \in Requests :
           \/ IssueReset(r) \/ SetPassword(r) \/ IssueEmailChangeCode(r) \/ StoreEmailChange(r)
           \/ WriteEmail(r) \/ StorePassword(r) \/ SoftDelete(r)
           \/ \E e \in Emails : RequestReset(r, e)
           \/ \E s \in secrets : ConfirmReset(r, s)
           \/ \E n \in 0..MaxIssued : VerifyEmailChangeCode(r, n)
           \/ \E u \in Users :
                  \/ ConfirmEmailChange(r, u) \/ ChangePassword(r, u) \/ DeleteAccount(r, u)
                  \/ \E e \in Emails : RequestEmailChange(r, u, e)
    \/ \E u \in Users : ToggleLock(u)
=============================================================================
