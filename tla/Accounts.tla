------------------------------ MODULE Accounts ------------------------------
(***************************************************************************)
(* Accounts as a whole: registration, login and second factor (SignIn),    *)
(* changes (AccountChanges) and OAuth identities (auth/identity.ts,        *)
(* auth/oauth/state.ts, the callbacks in routes.ts).                       *)
(***************************************************************************)
EXTENDS AccountChanges

vars == <<docVars, consumed, flight, ghostVars>>

Owners(x) == {u \in Users : <<x, u>> \in identities}

-----------------------------------------------------------------------------
(* GET /api/auth/github and /google, and their variants that link a user.  *)
CreateState(u) ==
    /\ AtOnce({})
    /\ u = 0 \/ (u \in Users /\ Resolves(u))
    /\ Issue(Secret("state", u, None), {})
    /\ UNCHANGED <<acct, sessions, identities, pendingReg, change, pendingTotp, consumed>>

\* verifyState: signed, not too old, and not seen by this process.
VerifyState(s) ==
    /\ s.kind = "state" /\ s.id \notin consumed
    /\ consumed' = consumed \cup {s.id}

\* A callback: the state is used up, the profile fetched from the provider; the
\* purpose in the state says whether to log in or to link.
Callback(r, s, profile) ==
    /\ CanBegin(r)
    /\ VerifyState(s)
    /\ Used(s)
    /\ Begin(r, [Request(IF s.user = 0 THEN "oauth" ELSE "link", s.user, profile.email)
                    EXCEPT !.ext = profile.id])
    /\ UNCHANGED <<acct, sessions, identities, secrets, issued, pendingReg, change, pendingTotp>>

\* What the providers answer: the account, and an address if there is one.
GitHubProfiles == [id : GitHubs, email : Emails \cup {None}]
GoogleProfiles == [id : Googles, email : Emails \cup {None}]

GitHubCallback(r, s) == \E p \in GitHubProfiles : Callback(r, s, p)
GoogleCallback(r, s) == \E p \in GoogleProfiles : Callback(r, s, p)

\* findOrCreateFromOAuth, the identity: that of a live user signs it in; one of
\* a user who is not there any more is dropped.
FindByIdentity(r) ==
    LET f == flight[r] IN
    /\ f.op = "oauth"
    /\ \/ /\ Owners(f.ext) = {}
          /\ Continue(r, [f EXCEPT !.op = "byEmail"])
          /\ UNCHANGED identities
       \/ \E u \in Owners(f.ext) :
          IF Live(u)
          THEN /\ Continue(r, [f EXCEPT !.op = "oauthSession", !.user = u])
               /\ UNCHANGED identities
          ELSE /\ Continue(r, [f EXCEPT !.op = "byEmail"])
               /\ identities' = identities \ {<<f.ext, u>>}
    /\ UNCHANGED <<acct, sessions, secrets, issued, pendingReg, change, pendingTotp, uses, consumed>>

\* ... the address: the live user who has it gets the identity.
FindByEmail(r) ==
    LET f == flight[r] IN
    /\ f.op = "byEmail"
    /\ IF f.email # None /\ LiveWith(f.email) # {}
       THEN Continue(r, [f EXCEPT !.op = "autoLink", !.user = Least(LiveWith(f.email))])
       ELSE Continue(r, [f EXCEPT !.op = "oauthCreate"])
    /\ UNCHANGED <<docVars, consumed>>

\* createUserFromOAuth: user and identity in one update, without another look.
CreateUserFromOAuth(r) ==
    LET f == flight[r]
        unused == {u \in Users : acct[u].state = "free"}
        u == Least(unused) IN
    /\ f.op = "oauthCreate"
    /\ unused # {}
    /\ acct' = [acct EXCEPT ![u] = [Free EXCEPT !.state = "live", !.email = f.email]]
    /\ identities' = identities \cup {<<f.ext, u>>}
    /\ flight' = [flight EXCEPT ![r] = [f EXCEPT !.op = "oauthSession", !.user = u]]
    /\ late' = late \cup {q \in Requests \ {r} : About(flight[q]) \cap {f.email, f.ext} # {}}
    /\ raced' = raced \cup (IF r \in late THEN {f.email, f.ext} ELSE {})
    /\ UNCHANGED <<sessions, secrets, issued, pendingReg, change, pendingTotp, uses, consumed,
                   begun, restarts>>

\* linkIdentityToUser, its look-up: of another live user, refuse; of this user,
\* nothing to do; of nobody live, drop it and go on.
LinkLookUp(r) ==
    LET f == flight[r]
        insert == [f EXCEPT !.op = IF f.op = "link" THEN "linkInsert" ELSE "autoLinkInsert"] IN
    /\ f.op \in {"link", "autoLink"}
    /\ \/ /\ Owners(f.ext) = {}
          /\ Continue(r, insert)
          /\ UNCHANGED identities
       \/ \E u \in Owners(f.ext) :
          \/ /\ ~Live(u)
             /\ Continue(r, insert)
             /\ identities' = identities \ {<<f.ext, u>>}
          \/ /\ Live(u)
             /\ IF f.op = "autoLink" /\ u = f.user
                THEN Continue(r, [f EXCEPT !.op = "oauthSession"])
                ELSE Finish(r, {})
             /\ UNCHANGED identities
    /\ UNCHANGED <<acct, sessions, secrets, issued, pendingReg, change, pendingTotp, uses, consumed>>

\* ... and its insertion, in a later update.
InsertIdentity(r) ==
    LET f == flight[r] IN
    /\ f.op \in {"linkInsert", "autoLinkInsert"}
    /\ identities' = identities \cup {<<f.ext, f.user>>}
    /\ flight' = [flight EXCEPT ![r] =
           IF f.op = "linkInsert" THEN NoRequest ELSE [f EXCEPT !.op = "oauthSession"]]
    /\ late' = late \cup {q \in Requests \ {r} : About(flight[q]) \cap {f.ext} # {}}
    /\ raced' = raced \cup (IF r \in late THEN {f.ext} ELSE {})
    /\ UNCHANGED <<acct, sessions, secrets, issued, pendingReg, change, pendingTotp, uses, consumed,
                   begun, restarts>>

\* The callback reads the user again and opens the session that fits.
OAuthReadUser(r) ==
    LET f == flight[r] IN
    /\ f.op = "oauthSession"
    /\ Continue(r, [f EXCEPT !.op = IF acct[f.user].totp THEN "login2fa" ELSE "login"])
    /\ UNCHANGED <<docVars, consumed>>

\* Seeded fault: what would be left is not counted.
UnlinkAnyway(u, x) ==
    /\ AtOnce({x, u})
    /\ Resolves(u) /\ <<x, u>> \in identities
    /\ identities' = identities \ {<<x, u>>}
    /\ UNCHANGED <<acct, sessions, secrets, issued, pendingReg, change, pendingTotp, uses, consumed>>

\* unlinkIdentity: one update that counts what would be left.
UnlinkIdentity(u, x) ==
    /\ AtOnce({x, u})
    /\ Resolves(u) /\ <<x, u>> \in identities
    /\ acct[u].password \/ \E y \in Externals \ {x} : <<y, u>> \in identities
    /\ identities' = identities \ {<<x, u>>}
    /\ UNCHANGED <<acct, sessions, secrets, issued, pendingReg, change, pendingTotp, uses, consumed>>

-----------------------------------------------------------------------------
OAuthNext ==
    \/ \E u \in {0} \cup Users : CreateState(u)
    \/ \E r \in Requests, s \in secrets : GitHubCallback(r, s) \/ GoogleCallback(r, s)
    \/ \E r \in Requests :
           \/ FindByIdentity(r) \/ FindByEmail(r) \/ CreateUserFromOAuth(r)
           \/ LinkLookUp(r) \/ InsertIdentity(r) \/ OAuthReadUser(r)
    \/ \E u \in Users, x \in Externals : UnlinkIdentity(u, x)

Next == SignInNext \/ ChangesNext \/ OAuthNext \/ Expire \/ Restart

Spec == Init /\ [][Next]_vars

-----------------------------------------------------------------------------
(* Properties.                                                             *)

AccountTypeOK ==
    /\ acct \in [Users -> [state : {"free", "live", "deleted", "locked"},
                           email : Emails \cup {None}, password : BOOLEAN, totp : BOOLEAN]]
    /\ sessions \subseteq [user : Users, kind : {"full", "2fa"}, weak : BOOLEAN]
    /\ identities \subseteq Externals \X Users
    /\ pendingTotp \subseteq Users
    /\ late \subseteq Requests

\* Two live users share an address, and two live users an external account,
\* only after a request wrote it on checks that another request, or the unlocking of a
\* user, had made obsolete (the checks of local.ts:179, account.ts:175 and
\* identity.ts:97 are made before an await and never again).
SharedOnlyByRace ==
    \A u, v \in {w \in Users : Live(w)} : u # v =>
        /\ acct[u].email = acct[v].email /\ acct[u].email # None => acct[u].email \in raced
        /\ \A x \in Externals : {<<x, u>>, <<x, v>>} \subseteq identities => x \in raced

\* A code, a recovery code, a reset link or an OAuth state is accepted once.
\* Two confirmations of one reset link that overlap both succeed
\* (password-reset.ts:182), and a restart forgets the states it has seen.
OneTimeSecrets ==
    \A n \in 1..MaxIssued : uses[n].times > 1 =>
        \/ uses[n].kind = "reset" /\ uses[n].user \in raced
        \/ uses[n].kind = "state" /\ restarts > 0

\* A full session of a user with TOTP was opened before TOTP was switched on,
\* or with the second factor, or by a login that overlapped the switching on.
NoWeakSession == \A s \in sessions : s.weak => s.user \in raced

\* The sessions of a user who deleted the account are gone for good, except
\* for those of a login that was under way.
DeletionEndsSessions ==
    \A s \in sessions : acct[s.user].state = "deleted" => s.user \in raced

\* A live user can log in somehow: a password or an identity is left, whatever
\* is unlinked, linked or dropped as stale, unless an unlock raced with it.
NobodyLockedOut ==
    \A u \in Users : Live(u) =>
        acct[u].password \/ (\E x \in Externals : <<x, u>> \in identities) \/ u \in raced
=============================================================================
