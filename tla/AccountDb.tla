------------------------------ MODULE AccountDb ------------------------------
(***************************************************************************)
(* The part of the runtime document that the modules of                    *)
(* src/apps/api/src/auth keep: users, sessions, identities, and the codes, *)
(* links and tokens that are good for one use.  A handler that awaits      *)
(* between what it reads and what it writes is a request in flight; the    *)
(* updates themselves are atomic (DocumentStore).                          *)
(*                                                                         *)
(* Ghosts: uses counts what a secret was accepted for; late holds the      *)
(* requests whose subject was written by another one after they began;     *)
(* raced the subjects that a late request wrote all the same.              *)
(***************************************************************************)
EXTENDS Naturals, FiniteSets

CONSTANTS
    NUsers,       \* users are 1..NUsers, in the order in which they are created
    Emails,       \* addresses
    GitHubs,      \* accounts at GitHub
    Googles,      \* accounts at Google
    Requests,     \* requests that may be in flight at a time
    MaxTries,     \* MAX_ATTEMPTS of email-codes.ts
    MaxIssued,    \* bound: secrets ever issued
    MaxRequests,  \* bound: requests ever begun
    None

Externals == GitHubs \cup Googles

\* There is room for what Init starts from: two users, two addresses, an account at
\* GitHub and a recovery code.
ASSUME AccountAssumption ==
    /\ {NUsers, MaxTries, MaxIssued, MaxRequests} \subseteq Nat
    /\ NUsers > 1 /\ MaxTries > 0 /\ MaxIssued > 0
    /\ GitHubs # {}
    /\ \A e \in Emails : \E f \in Emails : f # e
    /\ None \notin Emails \cup Externals \cup Nat

VARIABLES
    acct,       \* users: state, email, whether there is a password and TOTP
    sessions,   \* set of [user, kind, weak]
    identities, \* set of <<external account, user>>
    secrets,    \* secrets that are still good
    consumed,   \* OAuth states seen by this process (memory)
    issued,     \* how many secrets were issued
    pendingReg, \* pendingRegistrations: the code issued with each, 0 for none
    change,     \* pendingEmailChanges of each user: [code, email]
    pendingTotp,\* users with a pending TOTP enrollment
    flight, begun, late, raced, uses, restarts

docVars == <<acct, sessions, identities, secrets, issued, pendingReg, change, pendingTotp, uses>>
ghostVars == <<begun, late, raced, restarts>>

Users == 1..NUsers
Subjects == Emails \cup Externals \cup Users
Free == [state |-> "free", email |-> None, password |-> FALSE, totp |-> FALSE]
NoChange == [code |-> 0, email |-> None]
NoRequest == [op |-> "none", user |-> 0, email |-> None, ext |-> None, code |-> 0]
Request(o, u, e) == [NoRequest EXCEPT !.op = o, !.user = u, !.email = e]
About(f) == {f.user, f.email, f.ext} \ {None}

Live(u) == acct[u].state = "live"
HasAddress(u, e) == acct[u].email = e
LiveWith(e) == {u \in Users : Live(u) /\ HasAddress(u, e)}
Least(S) == CHOOSE x \in S : \A y \in S : x <= y

\* The server's data at first: user 1 has registered and is signed in, perhaps
\* with TOTP and a recovery code left; user 2 may be there, with GitHub only.
Init ==
    \E totp \in BOOLEAN, second \in {"free", "live"}, e \in Emails :
        /\ acct = [u \in Users |->
               IF u = 1 THEN [state |-> "live", email |-> e, password |-> TRUE, totp |-> totp]
               ELSE IF u = 2 /\ second = "live"
               THEN [Free EXCEPT !.state = "live", !.email = CHOOSE f \in Emails : f # e]
               ELSE Free]
        /\ sessions = {[user |-> 1, kind |-> "full", weak |-> FALSE]}
        /\ identities = {<<x, 2>> : x \in {y \in GitHubs : second = "live"}}
        /\ consumed = {} /\ issued = IF totp THEN 1 ELSE 0
        /\ secrets = {[id |-> n, kind |-> "recovery", user |-> 1, email |-> None, tries |-> 0] :
                          n \in 1..issued}
        /\ pendingReg = [f \in Emails |-> 0]
        /\ change = [u \in Users |-> NoChange]
        /\ pendingTotp = {}
        /\ flight = [r \in Requests |-> NoRequest]
        /\ begun = 0 /\ late = {} /\ raced = {} /\ restarts = 0
        /\ uses = [n \in 1..MaxIssued |-> [times |-> 0, kind |-> None, user |-> 0]]

-----------------------------------------------------------------------------
(* Requests.                                                               *)

\* r is free to start.
CanBegin(r) == begun < MaxRequests /\ flight[r].op = "none"

\* r starts: what it read let it go on.
Begin(r, f) ==
    /\ flight' = [flight EXCEPT ![r] = f]
    /\ begun' = begun + 1
    /\ late' = late \ {r}
    /\ UNCHANGED <<raced, restarts>>

\* r goes on to its next await.
Continue(r, f) ==
    /\ flight' = [flight EXCEPT ![r] = f]
    /\ UNCHANGED ghostVars

\* r answers, after a write about the subjects S (none if it was refused).
Finish(r, S) ==
    /\ flight' = [flight EXCEPT ![r] = NoRequest]
    /\ late' = (late \cup {q \in Requests : About(flight[q]) \cap S # {}}) \ {r}
    /\ raced' = raced \cup (IF r \in late THEN S ELSE {})
    /\ UNCHANGED <<begun, restarts>>

\* A handler that is one update: nothing lies between its check and its write.
AtOnce(S) ==
    /\ begun < MaxRequests
    /\ begun' = begun + 1
    /\ late' = late \cup {q \in Requests : About(flight[q]) \cap S # {}}
    /\ UNCHANGED <<flight, raced, restarts>>

\* resolveSession: a session that waits for its second factor resolves to
\* nobody; whether the user was deleted or locked is not looked at.
Resolves(u) == \E s \in sessions : s.user = u /\ s.kind = "full"

\* The new session of a login: full, or waiting for the second factor.
Opened(u, kind) ==
    [user |-> u, kind |-> kind, weak |-> kind = "full" /\ acct[u].totp]

-----------------------------------------------------------------------------
(* Secrets: e-mail codes, reset links, recovery codes, OAuth states.       *)
Secret(k, u, e) == [id |-> issued + 1, kind |-> k, user |-> u, email |-> e, tries |-> 0]

CanIssue == issued < MaxIssued

\* Issue one, and withdraw the secrets in W.
Issue(s, W) ==
    /\ CanIssue
    /\ issued' = issued + 1
    /\ secrets' = (secrets \ W) \cup {s}
    /\ UNCHANGED uses

Used(s) ==
    uses' = [uses EXCEPT ![s.id] = [times |-> @.times + 1, kind |-> s.kind, user |-> s.user]]

Accept(s) ==
    /\ secrets' = secrets \ {s}
    /\ Used(s)
    /\ UNCHANGED issued

CodesFor(k, e) == {s \in secrets : s.kind = k /\ s.email = e}
NewestCode(k, e) == CHOOSE s \in CodesFor(k, e) : \A t \in CodesFor(k, e) : t.id <= s.id

\* Seeded fault: a code that was right is not marked as used.
CodeStaysGood(k, e, typed) ==
    /\ CodesFor(k, e) # {}
    /\ NewestCode(k, e).id = typed
    /\ Used(NewestCode(k, e))
    /\ UNCHANGED <<secrets, issued>>

\* verifyCode in its one update: only the newest code of the address counts.
CodeIsRight(k, e, typed) ==
    /\ CodesFor(k, e) # {}
    /\ NewestCode(k, e).id = typed
    /\ Accept(NewestCode(k, e))

CodeIsWrong(k, e, typed) ==
    /\ CodesFor(k, e) # {} => NewestCode(k, e).id # typed
    /\ IF CodesFor(k, e) = {} THEN UNCHANGED secrets
       ELSE LET s == NewestCode(k, e) IN
            secrets' = (secrets \ {s}) \cup
                {t \in {[s EXCEPT !.tries = @ + 1]} : t.tries < MaxTries}
    /\ UNCHANGED <<issued, uses>>

\* Time passes, or the clean-up of index.ts runs: what reads an expired row
\* treats it as one that is not there, so it might as well be gone.
Expire ==
    /\ \/ \E s \in secrets : s.kind # "recovery" /\ secrets' = secrets \ {s}
          /\ UNCHANGED <<sessions, pendingReg, pendingTotp>>
       \/ \E s \in sessions : sessions' = sessions \ {s}
          /\ UNCHANGED <<secrets, pendingReg, pendingTotp>>
       \/ \E e \in Emails : pendingReg[e] # 0 /\ pendingReg' = [pendingReg EXCEPT ![e] = 0]
          /\ UNCHANGED <<secrets, sessions, pendingTotp>>
       \/ \E u \in pendingTotp : pendingTotp' = pendingTotp \ {u}
          /\ UNCHANGED <<secrets, sessions, pendingReg>>
    /\ UNCHANGED <<acct, identities, issued, change, uses, consumed, flight, ghostVars>>

\* A restart: requests in flight are lost, and so is what OAuth states were seen.
Restart ==
    /\ restarts = 0
    /\ restarts' = 1
    /\ flight' = [r \in Requests |-> NoRequest]
    /\ consumed' = {}
    /\ late' = {}
    /\ UNCHANGED <<docVars, begun, raced>>
=============================================================================
