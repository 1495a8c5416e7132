---------------------------- MODULE Accounts_proofs ----------------------------
(***************************************************************************)
(* The five invariants of Accounts, for any numbers of users, addresses,   *)
(* external accounts, requests in flight and secrets.                      *)
(*                                                                         *)
(* A handler checks, awaits and writes.  The heart of the inductive        *)
(* invariant is what the checks of each request in flight established (its *)
(* promises): it still holds when the request writes, unless the request   *)
(* is late or its subject was raced.  Every write about a subject makes    *)
(* the other requests about it late, so the promises survive all steps.    *)
(***************************************************************************)
EXTENDS Accounts, TLAPS, Induction

Kinds == {"register", "reset", "email-change", "recovery", "state"}
Ops == {"none", "register", "registerPend", "verify", "create", "login", "login2fa", "rotate",
        "enroll", "confirmTotp", "disableTotp", "requestReset", "reset", "emailChange",
        "emailChangePend", "confirmChange", "writeEmail", "password", "delete", "oauth", "byEmail",
        "oauthCreate", "oauthSession", "autoLink", "autoLinkInsert", "link", "linkInsert"}

\* Requests about no user yet, about an address, and about an account elsewhere.
AnonOps == {"none", "register", "registerPend", "verify", "create", "oauth", "byEmail", "oauthCreate"}
EmailOps == {"register", "registerPend", "verify", "create", "emailChange", "emailChangePend",
             "confirmChange", "writeEmail"}
ExternalOps == {"oauth", "byEmail", "oauthCreate", "autoLink", "autoLinkInsert", "link", "linkInsert"}

Flights ==
    {f \in [op : Ops, user : Users \cup {0}, email : Emails \cup {None},
            ext : Externals \cup {None}, code : Nat] :
        /\ IF f.op \in AnonOps THEN f.user = 0 ELSE f.user \in Users
        /\ f.op \in EmailOps => f.email \in Emails
        /\ f.op \in ExternalOps => f.ext \in Externals}

SecretRows ==
    {s \in [id : 1..MaxIssued, kind : Kinds, user : Users \cup {0},
            email : Emails \cup {None}, tries : Nat] :
        s.kind \in {"reset", "recovery"} => s.user \in Users}

Accts == [state : {"free", "live", "deleted", "locked"}, email : Emails \cup {None},
          password : BOOLEAN, totp : BOOLEAN]
SessionRows == [user : Users, kind : {"full", "2fa"}, weak : BOOLEAN]
Changes == [code : Nat, email : Emails \cup {None}]
Uses == [times : Nat, kind : Kinds \cup {None}, user : Users \cup {0}]

TypeInv ==
    /\ acct \in [Users -> Accts]
    /\ sessions \subseteq SessionRows
    /\ identities \subseteq Externals \X Users
    /\ secrets \subseteq SecretRows
    /\ issued \in 0..MaxIssued
    /\ pendingReg \in [Emails -> Nat]
    /\ change \in [Users -> Changes]
    /\ \A u \in Users : change[u] # NoChange => change[u].email \in Emails
    /\ pendingTotp \subseteq Users
    /\ flight \in [Requests -> Flights]
    /\ late \subseteq Requests
    /\ uses \in [1..MaxIssued -> Uses]
    /\ restarts \in Nat

-----------------------------------------------------------------------------
\* What the checks of a request in flight established: while it is not late, and its
\* subject not raced, they still hold.
Excused(r, x) == r \in late \/ x \in raced

AddressIsFree(r) ==
    LET f == flight[r] IN
    f.op \in {"verify", "create", "oauthCreate", "confirmChange", "writeEmail"} /\ f.email # None =>
        LiveWith(f.email) \subseteq {f.user} \/ Excused(r, f.email)

ExternalIsFree(r) ==
    LET f == flight[r] IN
    f.op \in {"byEmail", "oauthCreate", "linkInsert", "autoLinkInsert"} =>
        Owners(f.ext) = {} \/ Excused(r, f.ext)

PasswordIsEnough(r) ==
    LET f == flight[r] IN
    f.op = "login" => ~acct[f.user].totp \/ Excused(r, f.user)

UserIsThere(r) ==
    LET f == flight[r] IN
    f.op \in {"login", "login2fa", "rotate", "oauthSession", "autoLink", "autoLinkInsert"} =>
        acct[f.user].state # "deleted" \/ Excused(r, f.user)

\* The link of a reset in flight: no other secret has its number, if another request
\* used it, this one is late, and whoever brought it resets the same user.
LinkIsGood(r) ==
    LET f == flight[r] IN
    f.op = "reset" =>
        /\ f.code \in 1..issued
        /\ \A s \in secrets : s.id = f.code => s.kind = "reset" /\ s.user = f.user
        /\ uses[f.code].times > 0 =>
               r \in late /\ uses[f.code].kind = "reset" /\ uses[f.code].user = f.user
        /\ \A q \in Requests :
               flight[q].op = "reset" /\ flight[q].code = f.code => flight[q].user = f.user

Promises(r) ==
    /\ AddressIsFree(r)
    /\ ExternalIsFree(r)
    /\ PasswordIsEnough(r)
    /\ UserIsThere(r)
    /\ LinkIsGood(r)

AddressInv ==
    /\ \A u, v \in Users :
           Live(u) /\ Live(v) /\ u # v /\ acct[u].email = acct[v].email /\ acct[u].email # None =>
               acct[u].email \in raced
    /\ \A r \in Requests : AddressIsFree(r)

IdentityInv ==
    /\ \A u, v \in Users, x \in Externals :
           u # v /\ <<x, u>> \in identities /\ <<x, v>> \in identities => x \in raced
    /\ \A r \in Requests : ExternalIsFree(r)

SessionInv ==
    /\ \A s \in sessions : s.weak => s.user \in raced
    /\ \A s \in sessions : acct[s.user].state = "deleted" => s.user \in raced
    /\ \A r \in Requests : PasswordIsEnough(r) /\ UserIsThere(r)

SecretInv ==
    /\ \A s \in secrets : s.id <= issued
    /\ \A s, t \in secrets : s.id = t.id => s = t
    /\ \A n \in 1..MaxIssued : n > issued => uses[n].times = 0
    /\ \A s \in secrets : uses[s.id].times > 0 =>
           s.kind = "state" /\ uses[s.id].kind = "state" /\ (s.id \in consumed \/ restarts > 0)
    /\ \A r \in Requests : LinkIsGood(r)
    /\ OneTimeSecrets

AccountInv ==
    /\ TypeInv
    /\ AddressInv
    /\ IdentityInv
    /\ SessionInv
    /\ SecretInv
    /\ NobodyLockedOut

-----------------------------------------------------------------------------
(* Least and newest.                                                        *)

LEMMA LeastUser ==
    ASSUME NEW T \in SUBSET Users, T # {}
    PROVE  Least(T) \in T
<1>1. T \subseteq Nat
  BY AccountAssumption DEF Users
<1> QED
  BY <1>1, LeastNatural DEF Least

\* Among the codes of an address there is a newest one: their numbers are bounded.
LEMMA NewestIsIn ==
    ASSUME TypeInv, NEW k, NEW e, CodesFor(k, e) # {}
    PROVE  /\ NewestCode(k, e) \in secrets
           /\ NewestCode(k, e).kind = k
           /\ NewestCode(k, e).email = e
<1> DEFINE T == {MaxIssued - s.id : s \in CodesFor(k, e)}
<1>1. \A s \in CodesFor(k, e) : s.id \in 1..MaxIssued
  BY DEF TypeInv, SecretRows, CodesFor
<1>2. MaxIssued \in Nat
  BY AccountAssumption
<1>3. T \in SUBSET Nat /\ T # {}
  BY <1>1, <1>2
<1>4. PICK x \in T : \A y \in T : x <= y
  BY <1>3, LeastNatural
<1>5. PICK s \in CodesFor(k, e) : x = MaxIssued - s.id
  OBVIOUS
<1>6. \A t \in CodesFor(k, e) : t.id <= s.id
  BY <1>1, <1>2, <1>4, <1>5
<1>7. NewestCode(k, e) \in CodesFor(k, e)
  BY <1>5, <1>6 DEF NewestCode
<1> QED
  BY <1>7 DEF CodesFor

-----------------------------------------------------------------------------
(* Requests that move.                                                      *)

\* A request that did not move, and is as late as before.
Still(q) == flight'[q] = flight[q] /\ (q \in late => q \in late')

\* Requests whose operation established nothing.
PromiseOps ==
    {"verify", "create", "oauthCreate", "confirmChange", "writeEmail", "byEmail", "linkInsert",
     "autoLinkInsert", "login", "login2fa", "rotate", "oauthSession", "autoLink", "reset"}

LEMMA NothingPromised ==
    ASSUME NEW r, flight'[r].op \notin PromiseOps
    PROVE  Promises(r)'
BY DEF Promises, AddressIsFree, ExternalIsFree, PasswordIsEnough, UserIsThere, LinkIsGood, PromiseOps

\* What a step on behalf of request r does to the requests.
Moved(r) ==
    /\ flight' \in [Requests -> Flights]
    /\ late' \subseteq Requests
    /\ raced \subseteq raced'
    /\ restarts' = restarts
    /\ \A q \in Requests \ {r} : Still(q)

\* A write about S makes the requests about one of S late, but for those that keep their
\* promises anyway.
Told(S) == \A q \in Requests : (About(flight[q]) \cap S # {} => q \in late') \/ Promises(q)'

LEMMA NoRequestTyped == NoRequest \in Flights /\ NoRequest.op = "none"
BY DEF NoRequest, Flights, Ops, AnonOps, EmailOps, ExternalOps

LEMMA BeginMoves ==
    ASSUME TypeInv, NEW r \in Requests, NEW f \in Flights, Begin(r, f)
    PROVE  Moved(r) /\ flight'[r] = f /\ r \notin late' /\ raced' = raced
BY DEF TypeInv, Begin, Moved, Still

LEMMA ContinueMoves ==
    ASSUME TypeInv, NEW r \in Requests, NEW f \in Flights, Continue(r, f)
    PROVE  Moved(r) /\ flight'[r] = f /\ late' = late /\ raced' = raced
BY DEF TypeInv, Continue, Moved, Still, ghostVars

LEMMA FinishMoves ==
    ASSUME TypeInv, NEW r \in Requests, NEW S, Finish(r, S)
    PROVE  /\ Moved(r) /\ flight'[r] = NoRequest /\ Promises(r)'
           /\ r \in late => S \subseteq raced'
           /\ Told(S)
<1>1. flight'[r] = NoRequest /\ Moved(r)
  BY NoRequestTyped DEF TypeInv, Finish, Moved, Still
<1>2. Promises(r)'
  BY <1>1, NoRequestTyped, NothingPromised DEF PromiseOps
<1> QED
  BY <1>1, <1>2 DEF Finish, Told

LEMMA AtOnceMoves ==
    ASSUME TypeInv, NEW S, AtOnce(S)
    PROVE  /\ \A r : Moved(r)
           /\ \A q \in Requests : Still(q)
           /\ Told(S)
           /\ UNCHANGED <<flight, raced>>
BY DEF TypeInv, AtOnce, Moved, Still, Told

-----------------------------------------------------------------------------
(* Each part of the invariant survives the steps that write nothing of it.  *)

\* Every request keeps its promises, or did not move.
Steady ==
    /\ raced \subseteq raced'
    /\ \A q \in Requests : Still(q) \/ Promises(q)'

LEMMA MovedIsSteady ==
    ASSUME NEW r, Moved(r), Promises(r)'
    PROVE  Steady
BY DEF Moved, Steady

LEMMA ExcuseStays ==
    ASSUME Steady, NEW q, NEW x, Still(q), Excused(q, x)
    PROVE  q \in late' \/ x \in raced'
BY DEF Steady, Still, Excused

\* Nobody gets an address, or comes to life.
AddressesKept ==
    \A u \in Users : Live(u)' => Live(u) /\ acct'[u].email = acct[u].email

LEMMA AddressFrame ==
    ASSUME AddressInv, Steady, AddressesKept
    PROVE  AddressInv'
<1>1. ASSUME NEW u \in Users, NEW v \in Users, Live(u)', Live(v)', u # v,
             acct'[u].email = acct'[v].email, acct'[u].email # None
      PROVE  acct'[u].email \in raced'
  BY <1>1 DEF AddressInv, AddressesKept, Steady
<1>2. \A e : LiveWith(e)' \subseteq LiveWith(e)
  BY DEF LiveWith, HasAddress, AddressesKept
<1>3. ASSUME NEW q \in Requests PROVE AddressIsFree(q)'
  <2>1. CASE Promises(q)'
    BY <2>1 DEF Promises
  <2>2. CASE Still(q)
    <3>1. AddressIsFree(q)
      BY DEF AddressInv
    <3> QED
      BY <1>2, <2>2, <3>1, ExcuseStays DEF AddressIsFree, Still, Excused
  <2> QED
    BY <2>1, <2>2 DEF Steady
<1> QED
  BY <1>1, <1>3 DEF AddressInv

LEMMA IdentityFrame ==
    ASSUME IdentityInv, Steady, identities' \subseteq identities
    PROVE  IdentityInv'
<1>1. ASSUME NEW u \in Users, NEW v \in Users, NEW x \in Externals, u # v,
             <<x, u>> \in identities', <<x, v>> \in identities'
      PROVE  x \in raced'
  BY <1>1 DEF IdentityInv, Steady
<1>2. \A x : Owners(x)' \subseteq Owners(x)
  BY DEF Owners
<1>3. ASSUME NEW q \in Requests PROVE ExternalIsFree(q)'
  <2>1. CASE Promises(q)'
    BY <2>1 DEF Promises
  <2>2. CASE Still(q)
    <3>1. ExternalIsFree(q)
      BY DEF IdentityInv
    <3> QED
      BY <1>2, <2>2, <3>1, ExcuseStays DEF ExternalIsFree, Still, Excused
  <2> QED
    BY <2>1, <2>2 DEF Steady
<1> QED
  BY <1>1, <1>3 DEF IdentityInv

\* Nobody gets a second factor, and nobody is deleted.
AccountsKept ==
    \A u \in Users :
        /\ acct'[u].totp => acct[u].totp
        /\ acct'[u].state = "deleted" => acct[u].state = "deleted"

LEMMA UserOfFlight ==
    ASSUME TypeInv, NEW q \in Requests, flight[q].op \notin AnonOps
    PROVE  flight[q].user \in Users
BY DEF TypeInv, Flights

\* The promises about the user of a request that did not move.
LEMMA KeptPromises ==
    ASSUME TypeInv, SessionInv, Steady, AccountsKept, NEW q \in Requests, Still(q)
    PROVE  PasswordIsEnough(q)' /\ UserIsThere(q)'
<1>1. PasswordIsEnough(q) /\ UserIsThere(q)
  BY DEF SessionInv
<1>2. PasswordIsEnough(q)'
  BY <1>1, ExcuseStays, UserOfFlight
     DEF PasswordIsEnough, Still, AccountsKept, Excused, AnonOps
<1>3. UserIsThere(q)'
  BY <1>1, ExcuseStays, UserOfFlight
     DEF UserIsThere, Still, AccountsKept, Excused, AnonOps
<1> QED
  BY <1>2, <1>3

LEMMA SessionFrame ==
    ASSUME TypeInv, SessionInv, Steady, AccountsKept, sessions' \subseteq sessions
    PROVE  SessionInv'
<1>1. ASSUME NEW s \in sessions'
      PROVE  /\ s.weak => s.user \in raced'
             /\ acct'[s.user].state = "deleted" => s.user \in raced'
  <2>1. s \in sessions /\ s.user \in Users
    BY DEF TypeInv, SessionRows
  <2> QED
    BY <2>1 DEF SessionInv, Steady, AccountsKept
<1>2. ASSUME NEW q \in Requests PROVE PasswordIsEnough(q)' /\ UserIsThere(q)'
  <2>1. CASE Promises(q)'
    BY <2>1 DEF Promises
  <2>2. CASE Still(q)
    BY <2>2, KeptPromises
  <2> QED
    BY <2>1, <2>2 DEF Steady
<1> QED
  BY <1>1, <1>2 DEF SessionInv

\* Secrets may go, nothing is issued or accepted.
SecretsKept ==
    /\ secrets' \subseteq secrets
    /\ UNCHANGED <<issued, uses>>
    /\ consumed \subseteq consumed' \/ restarts' > 0
    /\ restarts > 0 => restarts' > 0

\* The promise of a reset that did not move.
LEMMA LinkFrame ==
    ASSUME SecretInv, Steady, NEW q \in Requests, Still(q),
           flight[q].op = "reset" =>
               /\ flight[q].code \in 1..issued'
               /\ \A s \in secrets' : s.id = flight[q].code =>
                      s.kind = "reset" /\ s.user = flight[q].user
               /\ uses'[flight[q].code].times > 0 =>
                      /\ q \in late'
                      /\ uses'[flight[q].code].kind = "reset"
                      /\ uses'[flight[q].code].user = flight[q].user
    PROVE  LinkIsGood(q)'
<1> SUFFICES ASSUME flight[q].op = "reset",
                    NEW p \in Requests, flight'[p].op = "reset",
                    flight'[p].code = flight[q].code
             PROVE  flight'[p].user = flight[q].user
  BY DEF LinkIsGood, Still
<1>1. CASE Still(p)
  BY <1>1 DEF SecretInv, LinkIsGood, Still
<1>2. CASE Promises(p)'
  BY <1>2 DEF Promises, LinkIsGood, Still
<1> QED
  BY <1>1, <1>2 DEF Steady

LEMMA SecretFrame ==
    ASSUME TypeInv, SecretInv, Steady, SecretsKept
    PROVE  SecretInv'
<1>1. ASSUME NEW q \in Requests PROVE LinkIsGood(q)'
  <2>1. CASE Promises(q)'
    BY <2>1 DEF Promises
  <2>2. CASE Still(q)
    BY <2>2, LinkFrame DEF SecretInv, LinkIsGood, SecretsKept, Still
  <2> QED
    BY <2>1, <2>2 DEF Steady
<1>2. OneTimeSecrets'
  BY DEF SecretInv, OneTimeSecrets, SecretsKept, Steady
<1>3. ASSUME NEW s \in secrets', uses'[s.id].times > 0
      PROVE  s.kind = "state" /\ uses'[s.id].kind = "state"
             /\ (s.id \in consumed' \/ restarts' > 0)
  BY <1>3 DEF SecretInv, SecretsKept
<1>4. /\ \A s \in secrets' : s.id <= issued'
      /\ \A s, t \in secrets' : s.id = t.id => s = t
      /\ \A n \in 1..MaxIssued : n > issued' => uses'[n].times = 0
  BY DEF SecretInv, SecretsKept
<1> QED
  BY <1>1, <1>2, <1>3, <1>4 DEF SecretInv

\* Nobody who is live loses the password or an external account.
WaysInKept ==
    \A u \in Users : Live(u)' =>
        /\ Live(u)
        /\ acct[u].password => acct'[u].password
        /\ \A x \in Externals : <<x, u>> \in identities => <<x, u>> \in identities'

LEMMA WayInFrame ==
    ASSUME NobodyLockedOut, Steady, WaysInKept
    PROVE  NobodyLockedOut'
BY DEF NobodyLockedOut, Steady, WaysInKept

\* All of them at once, for a step that only moves requests, ends sessions or drops
\* secrets.
LEMMA QuietStep ==
    ASSUME AccountInv, TypeInv', Steady, sessions' \subseteq sessions, SecretsKept,
           UNCHANGED <<acct, identities>>
    PROVE  AccountInv'
<1>1. AddressesKept /\ AccountsKept /\ WaysInKept
  BY DEF AddressesKept, AccountsKept, WaysInKept, Live
<1> QED
  BY <1>1, AddressFrame, IdentityFrame, SessionFrame, SecretFrame, WayInFrame DEF AccountInv

-----------------------------------------------------------------------------
(* Steps that read and go on.                                               *)

LEMMA RequestFields ==
    ASSUME NEW o, NEW u, NEW e
    PROVE  Request(o, u, e) = [op |-> o, user |-> u, email |-> e, ext |-> None, code |-> 0]
<1> DEFINE rec(x, y, z) == [op |-> x, user |-> y, email |-> z, ext |-> None, code |-> 0]
<1>1. [rec("none", 0, None) EXCEPT !.op = o] = rec(o, 0, None)
  OBVIOUS
<1>2. [rec(o, 0, None) EXCEPT !.user = u] = rec(o, u, None)
  OBVIOUS
<1>3. [rec(o, u, None) EXCEPT !.email = e] = rec(o, u, e)
  OBVIOUS
<1> QED
  BY <1>1, <1>2, <1>3 DEF Request, NoRequest

LEMMA QuietMove ==
    ASSUME AccountInv, NEW r, Moved(r), Promises(r)', UNCHANGED <<docVars, consumed>>
    PROVE  AccountInv'
<1>1. TypeInv'
  BY DEF AccountInv, TypeInv, docVars, Moved
<1>2. SecretsKept
  BY DEF SecretsKept, docVars, Moved
<1> QED
  BY <1>1, <1>2, MovedIsSteady, QuietStep DEF docVars, AccountInv

\* A request begins or goes on without a write: what it read gives its promises.
LEMMA ReadStep ==
    ASSUME AccountInv, NEW r \in Requests, NEW f \in Flights,
           Begin(r, f) \/ Continue(r, f), UNCHANGED <<docVars, consumed>>,
           f.op \in PromiseOps => Promises(r)'
    PROVE  AccountInv'
<1>1. Moved(r) /\ flight'[r] = f
  BY BeginMoves, ContinueMoves DEF AccountInv
<1>2. Promises(r)'
  BY <1>1, NothingPromised
<1> QED
  BY <1>1, <1>2, QuietMove

\* ... and without a promise.
LEMMA ReadNothing ==
    ASSUME AccountInv, NEW r \in Requests, NEW f \in Flights,
           Begin(r, f) \/ Continue(r, f), UNCHANGED <<docVars, consumed>>,
           f.op \notin PromiseOps
    PROVE  AccountInv'
BY ReadStep

LEMMA StartRegistrationKeepsInv ==
    ASSUME AccountInv, NEW r \in Requests, NEW e \in Emails, StartRegistration(r, e)
    PROVE  AccountInv'
<1> DEFINE f == Request("register", 0, e)
<1>1. f \in Flights /\ f.op \notin PromiseOps
  BY RequestFields DEF Flights, Ops, AnonOps, EmailOps, ExternalOps, PromiseOps
<1> QED
  BY <1>1, ReadNothing DEF StartRegistration

\* The address is free when a confirmation of it begins.
LEMMA VerifyRegistrationKeepsInv ==
    ASSUME AccountInv, NEW r \in Requests, NEW e \in Emails, VerifyRegistration(r, e)
    PROVE  AccountInv'
<1> DEFINE f == [Request("verify", 0, e) EXCEPT !.code = pendingReg[e]]
<1>1. f = [op |-> "verify", user |-> 0, email |-> e, ext |-> None, code |-> pendingReg[e]]
  BY RequestFields
<1>2. f \in Flights
  BY <1>1 DEF AccountInv, TypeInv, Flights, Ops, AnonOps, EmailOps, ExternalOps
<1>3. /\ Begin(r, f) /\ LiveWith(e) = {}
      /\ UNCHANGED <<docVars, consumed>>
  BY DEF VerifyRegistration
<1>4. flight'[r] = f /\ acct' = acct
  BY <1>2, <1>3, BeginMoves DEF AccountInv, docVars
<1>5. Promises(r)'
  BY <1>1, <1>3, <1>4 DEF Promises, AddressIsFree, ExternalIsFree, PasswordIsEnough, UserIsThere,
     LinkIsGood, LiveWith, Live, HasAddress
<1> QED
  BY <1>2, <1>3, <1>5, ReadStep

LEMMA StartLoginKeepsInv ==
    ASSUME AccountInv, NEW r \in Requests, NEW e \in Emails, StartLogin(r, e)
    PROVE  AccountInv'
<1> DEFINE having == {u \in Users : HasAddress(u, e)}
<1>1. PICK u \in Users :
          /\ Live(u)
          /\ Begin(r, Request(IF acct[u].totp THEN "login2fa" ELSE "login", u, e))
          /\ UNCHANGED <<docVars, consumed>>
  BY LeastUser DEF StartLogin
<1> DEFINE f == Request(IF acct[u].totp THEN "login2fa" ELSE "login", u, e)
<1>2. f = [op |-> IF acct[u].totp THEN "login2fa" ELSE "login", user |-> u, email |-> e,
           ext |-> None, code |-> 0]
  BY RequestFields
<1>3. f \in Flights
  BY <1>2 DEF Flights, Ops, AnonOps, EmailOps, ExternalOps
<1>4. flight'[r] = f /\ acct' = acct
  BY <1>1, <1>3, BeginMoves DEF AccountInv, docVars
<1> HIDE DEF f
<1>5. Promises(r)'
  BY <1>1, <1>2, <1>4 DEF Promises, AddressIsFree, ExternalIsFree, PasswordIsEnough, UserIsThere,
     LinkIsGood, Live
<1> QED
  BY <1>1, <1>3, <1>5, ReadStep DEF f

\* Whoever has an intermediate session was not deleted, or raced.
LEMMA RotationBegins ==
    ASSUME AccountInv, NEW u \in Users, NEW s \in sessions, s.user = u,
           NEW r \in Requests, flight'[r] = Request("rotate", u, None),
           UNCHANGED <<acct, raced>>
    PROVE  Request("rotate", u, None) \in Flights /\ Promises(r)'
<1>1. Request("rotate", u, None) = [op |-> "rotate", user |-> u, email |-> None, ext |-> None, code |-> 0]
  BY RequestFields
<1>2. Request("rotate", u, None) \in Flights
  BY <1>1 DEF Flights, Ops, AnonOps, EmailOps, ExternalOps
<1>3. acct[u].state # "deleted" \/ u \in raced
  BY DEF AccountInv, SessionInv
<1>4. Promises(r)'
  BY <1>1, <1>3 DEF Promises, AddressIsFree, ExternalIsFree, PasswordIsEnough, UserIsThere,
     LinkIsGood, Excused
<1> QED
  BY <1>2, <1>4

LEMMA RotateIsFlight ==
    ASSUME NEW u \in Users
    PROVE  Request("rotate", u, None) \in Flights
BY RequestFields DEF Flights, Ops, AnonOps, EmailOps, ExternalOps

LEMMA Login2FAKeepsInv ==
    ASSUME AccountInv, NEW r \in Requests, NEW u \in Users, Login2FA(r, u)
    PROVE  AccountInv'
<1>1. PICK s \in sessions : s.user = u
  BY DEF Login2FA
<1>2. /\ Begin(r, Request("rotate", u, None))
      /\ UNCHANGED <<docVars, consumed>>
  BY DEF Login2FA
<1>3. flight'[r] = Request("rotate", u, None) /\ UNCHANGED <<acct, raced>>
  BY <1>2, RotateIsFlight, BeginMoves DEF AccountInv, docVars
<1> QED
  BY <1>1, <1>2, <1>3, RotateIsFlight, RotationBegins, ReadStep

LEMMA BeginForUser ==
    ASSUME AccountInv, NEW r \in Requests, NEW u \in Users, NEW e \in Emails \cup {None},
           NEW o \in {"enroll", "confirmTotp", "disableTotp", "requestReset", "password", "delete"},
           Begin(r, Request(o, u, e)), UNCHANGED <<docVars, consumed>>
    PROVE  AccountInv'
<1>1. Request(o, u, e) = [op |-> o, user |-> u, email |-> e, ext |-> None, code |-> 0]
  BY RequestFields
<1>2. Request(o, u, e) \in Flights /\ Request(o, u, e).op \notin PromiseOps
  BY <1>1 DEF Flights, Ops, AnonOps, EmailOps, ExternalOps, PromiseOps
<1> QED
  BY <1>2, ReadNothing

\* A link that is there was not used, and whoever brings it resets its user.
LEMMA ConfirmResetKeepsInv ==
    ASSUME AccountInv, NEW r \in Requests, NEW s \in secrets, ConfirmReset(r, s)
    PROVE  AccountInv'
<1> DEFINE f == [Request("reset", s.user, None) EXCEPT !.code = s.id]
<1>1. s \in SecretRows /\ s.kind = "reset"
  BY DEF AccountInv, TypeInv, ConfirmReset
<1>2. f = [op |-> "reset", user |-> s.user, email |-> None, ext |-> None, code |-> s.id]
  BY RequestFields
<1>3. f \in Flights
  BY <1>1, <1>2 DEF SecretRows, Flights, Ops, AnonOps, EmailOps, ExternalOps
<1>4. Begin(r, f) /\ UNCHANGED <<docVars, consumed>>
  BY DEF ConfirmReset
<1>5. flight'[r] = f /\ \A q \in Requests \ {r} : flight'[q] = flight[q]
  BY <1>3, <1>4, BeginMoves DEF AccountInv, Moved, Still
<1>6. /\ s.id \in 1..issued
      /\ \A t \in secrets : t.id = s.id => t = s
      /\ uses[s.id].times = 0
  BY <1>1, AccountAssumption DEF AccountInv, TypeInv, SecretInv, SecretRows, Uses
<1>7. ASSUME NEW q \in Requests, flight'[q].op = "reset", flight'[q].code = s.id
      PROVE  flight'[q].user = s.user
  <2>1. CASE q = r
    BY <1>2, <1>5, <2>1
  <2>2. CASE q # r
    BY <1>5, <1>7, <2>2 DEF AccountInv, SecretInv, LinkIsGood
  <2> QED
    BY <2>1, <2>2
<1> HIDE DEF f
<1>8. LinkIsGood(r)'
  BY <1>1, <1>2, <1>4, <1>5, <1>6, <1>7 DEF LinkIsGood, docVars
<1>9. Promises(r)'
  BY <1>2, <1>5, <1>8 DEF Promises, AddressIsFree, ExternalIsFree, PasswordIsEnough, UserIsThere
<1> QED
  BY <1>3, <1>4, <1>9, ReadStep

LEMMA RequestEmailChangeKeepsInv ==
    ASSUME AccountInv, NEW r \in Requests, NEW u \in Users, NEW e \in Emails,
           RequestEmailChange(r, u, e)
    PROVE  AccountInv'
<1>1. Request("emailChange", u, e) = [op |-> "emailChange", user |-> u, email |-> e,
                                      ext |-> None, code |-> 0]
  BY RequestFields
<1>2. /\ Request("emailChange", u, e) \in Flights
      /\ Request("emailChange", u, e).op \notin PromiseOps
  BY <1>1 DEF Flights, Ops, AnonOps, EmailOps, ExternalOps, PromiseOps
<1> QED
  BY <1>2, ReadNothing DEF RequestEmailChange

LEMMA ConfirmEmailChangeKeepsInv ==
    ASSUME AccountInv, NEW r \in Requests, NEW u \in Users, ConfirmEmailChange(r, u)
    PROVE  AccountInv'
<1> DEFINE c == change[u]
           f == [Request("confirmChange", u, c.email) EXCEPT !.code = c.code]
<1>1. f = [op |-> "confirmChange", user |-> u, email |-> c.email, ext |-> None, code |-> c.code]
  BY RequestFields
<1>2. c \in Changes /\ c.email \in Emails
  BY DEF AccountInv, TypeInv, ConfirmEmailChange
<1>3. f \in Flights
  BY <1>1, <1>2 DEF Changes, Flights, Ops, AnonOps, EmailOps, ExternalOps
<1>4. /\ Begin(r, f) /\ LiveWith(c.email) \subseteq {u}
      /\ UNCHANGED <<docVars, consumed>>
  BY DEF ConfirmEmailChange
<1>5. flight'[r] = f /\ acct' = acct /\ change' = change
  BY <1>3, <1>4, BeginMoves DEF AccountInv, docVars
<1>6. Promises(r)'
  BY <1>1, <1>4, <1>5 DEF Promises, AddressIsFree, ExternalIsFree, PasswordIsEnough, UserIsThere,
     LinkIsGood, LiveWith, Live, HasAddress
<1> QED
  BY <1>3, <1>4, <1>6, ReadStep

-----------------------------------------------------------------------------
(* Secrets that are issued, accepted, and refused.                          *)

LEMMA SecretIsRow ==
    ASSUME TypeInv, CanIssue, NEW k \in Kinds, NEW u \in Users \cup {0},
           NEW e \in Emails \cup {None}, k \in {"reset", "recovery"} => u \in Users
    PROVE  /\ Secret(k, u, e) \in SecretRows
           /\ Secret(k, u, e).id = issued + 1
<1>1. issued + 1 \in 1..MaxIssued
  BY AccountAssumption DEF TypeInv, CanIssue
<1> QED
  BY <1>1 DEF Secret, SecretRows

LEMMA IssueTyped ==
    ASSUME TypeInv, NEW s \in SecretRows, NEW W, Issue(s, W)
    PROVE  secrets' \subseteq SecretRows /\ issued' \in 0..MaxIssued /\ uses' = uses
BY AccountAssumption DEF TypeInv, Issue, CanIssue

\* A new secret has a new number.
LEMMA IssueKeepsSecrets ==
    ASSUME TypeInv, SecretInv, Steady, NEW s \in SecretRows, s.id = issued + 1, NEW W,
           Issue(s, W), UNCHANGED <<consumed, restarts>>
    PROVE  SecretInv'
<1>1. /\ issued \in Nat /\ MaxIssued \in Nat /\ issued' = issued + 1 /\ uses' = uses
      /\ secrets' \subseteq secrets \cup {s}
      /\ s.id \in 1..MaxIssued
  BY AccountAssumption DEF TypeInv, Issue, SecretRows
<1>2. \A t \in secrets : t.id \in Nat /\ t.id <= issued
  BY DEF TypeInv, SecretInv, SecretRows
<1>3. \A t \in secrets' : t.id <= issued'
  BY <1>1, <1>2
<1>4. \A t, v \in secrets' : t.id = v.id => t = v
  BY <1>1, <1>2 DEF SecretInv
<1>5. \A n \in 1..MaxIssued : n > issued' => uses'[n].times = 0
  BY <1>1 DEF SecretInv
<1>6. ASSUME NEW t \in secrets', uses'[t.id].times > 0
      PROVE  t.kind = "state" /\ uses'[t.id].kind = "state" /\ (t.id \in consumed' \/ restarts' > 0)
  <2>1. t # s
    <3>1. uses[s.id].times = 0
      BY <1>1 DEF SecretInv
    <3> QED
      BY <1>1, <1>6, <3>1
  <2> QED
    BY <1>1, <1>6, <2>1 DEF SecretInv
<1>7. ASSUME NEW q \in Requests PROVE LinkIsGood(q)'
  <2>1. CASE Promises(q)'
    BY <2>1 DEF Promises
  <2>2. CASE Still(q) /\ flight[q].op = "reset"
    <3>1. LinkIsGood(q)
      BY DEF SecretInv
    <3>2. flight[q].code \in 1..issued
      BY <2>2, <3>1 DEF LinkIsGood
    <3>3. flight[q].code \in 1..issued' /\ s.id # flight[q].code
      BY <1>1, <3>2
    <3>4. \A t \in secrets' : t.id = flight[q].code => t.kind = "reset" /\ t.user = flight[q].user
      BY <1>1, <2>2, <3>1, <3>3 DEF LinkIsGood
    <3>5. uses'[flight[q].code].times > 0 =>
              /\ q \in late'
              /\ uses'[flight[q].code].kind = "reset"
              /\ uses'[flight[q].code].user = flight[q].user
      BY <1>1, <2>2, <3>1 DEF LinkIsGood, Still
    <3> QED
      BY <2>2, <3>3, <3>4, <3>5, LinkFrame
  <2>3. CASE Still(q) /\ flight[q].op # "reset"
    BY <2>3 DEF LinkIsGood, Still
  <2> QED
    BY <2>1, <2>2, <2>3 DEF Steady
<1>8. OneTimeSecrets'
  BY <1>1 DEF SecretInv, OneTimeSecrets, Steady
<1> QED
  BY <1>3, <1>4, <1>5, <1>6, <1>7, <1>8 DEF SecretInv

LEMMA UsedTyped ==
    ASSUME TypeInv, NEW s, s.id \in 1..MaxIssued, s.kind \in Kinds, s.user \in Users \cup {0},
           Used(s)
    PROVE  /\ uses' \in [1..MaxIssued -> Uses]
           /\ uses'[s.id] = [times |-> uses[s.id].times + 1, kind |-> s.kind, user |-> s.user]
           /\ \A n \in 1..MaxIssued : n # s.id => uses'[n] = uses[n]
           /\ uses[s.id].times \in Nat
<1>1. uses[s.id] \in Uses /\ uses \in [1..MaxIssued -> Uses]
  BY DEF TypeInv
<1>2. uses[s.id].times \in Nat
  BY <1>1 DEF Uses
<1>3. [times |-> uses[s.id].times + 1, kind |-> s.kind, user |-> s.user] \in Uses
  BY <1>2 DEF Uses
<1> QED
  BY <1>1, <1>2, <1>3 DEF Used

\* A code or a recovery code is good until it is accepted, and gone then.
LEMMA AcceptKeepsSecrets ==
    ASSUME TypeInv, SecretInv, Steady, NEW s \in secrets, s.kind \notin {"reset", "state"},
           Accept(s), UNCHANGED <<consumed, restarts>>
    PROVE  SecretInv' /\ uses' \in [1..MaxIssued -> Uses]
<1>1. s.id \in 1..MaxIssued /\ s.kind \in Kinds /\ s.user \in Users \cup {0}
  BY DEF TypeInv, SecretRows
<1>2. /\ secrets' = secrets \ {s} /\ issued' = issued /\ Used(s)
      /\ uses[s.id].times = 0
  <2>1. ~(uses[s.id].times > 0) /\ uses[s.id].times \in Nat
    BY <1>1 DEF SecretInv, TypeInv, Uses
  <2> QED
    BY <2>1 DEF Accept
<1>3. /\ uses' \in [1..MaxIssued -> Uses]
      /\ uses'[s.id].times = 1
      /\ \A n \in 1..MaxIssued : n # s.id => uses'[n] = uses[n]
  <2>1. /\ uses' \in [1..MaxIssued -> Uses]
        /\ uses'[s.id] = [times |-> uses[s.id].times + 1, kind |-> s.kind, user |-> s.user]
        /\ \A n \in 1..MaxIssued : n # s.id => uses'[n] = uses[n]
    BY <1>1, <1>2, UsedTyped
  <2>2. uses'[s.id].times = uses[s.id].times + 1
    BY <2>1
  <2> QED
    BY <1>2, <2>1, <2>2
<1>4. \A t \in secrets' : t.id # s.id /\ t.id \in 1..MaxIssued /\ t \in secrets
  BY <1>2 DEF SecretInv, TypeInv, SecretRows
<1>5. /\ \A t \in secrets' : t.id <= issued'
      /\ \A t, v \in secrets' : t.id = v.id => t = v
  BY <1>2 DEF SecretInv
<1>6. \A n \in 1..MaxIssued : n > issued' => uses'[n].times = 0
  <2>1. s.id <= issued
    BY DEF SecretInv
  <2> QED
    BY <1>1, <1>2, <1>3, <2>1 DEF SecretInv, TypeInv
<1>7. \A t \in secrets' : uses'[t.id].times > 0 =>
          t.kind = "state" /\ uses'[t.id].kind = "state" /\ (t.id \in consumed' \/ restarts' > 0)
  BY <1>3, <1>4 DEF SecretInv
<1>8. ASSUME NEW q \in Requests PROVE LinkIsGood(q)'
  <2>1. CASE Promises(q)'
    BY <2>1 DEF Promises
  <2>2. CASE Still(q) /\ flight[q].op = "reset"
    <3>1. LinkIsGood(q)
      BY DEF SecretInv
    <3>2. flight[q].code \in 1..issued /\ flight[q].code # s.id
      BY <2>2, <3>1 DEF LinkIsGood
    <3>3. flight[q].code \in 1..MaxIssued
      BY <3>2, AccountAssumption DEF TypeInv
    <3>4. uses'[flight[q].code] = uses[flight[q].code]
      BY <1>3, <3>2, <3>3
    <3> QED
      BY <1>2, <2>2, <3>1, <3>2, <3>4, LinkFrame DEF LinkIsGood, Still
  <2>3. CASE Still(q) /\ flight[q].op # "reset"
    BY <2>3 DEF LinkIsGood, Still
  <2> QED
    BY <2>1, <2>2, <2>3 DEF Steady
<1>9. OneTimeSecrets'
  <2>1. ASSUME NEW n \in 1..MaxIssued, uses'[n].times > 1
        PROVE  \/ uses'[n].kind = "reset" /\ uses'[n].user \in raced'
               \/ uses'[n].kind = "state" /\ restarts' > 0
    <3>1. n # s.id
      BY <1>3, <2>1
    <3> QED
      BY <1>3, <2>1, <3>1 DEF SecretInv, OneTimeSecrets, Steady
  <2> QED
    BY <2>1 DEF OneTimeSecrets
<1> QED
  BY <1>3, <1>5, <1>6, <1>7, <1>8, <1>9 DEF SecretInv

\* The newest code of an address is one of its codes when it is right.
LEMMA RightCodeKeepsSecrets ==
    ASSUME TypeInv, SecretInv, Steady, NEW k \in {"register", "email-change"}, NEW e, NEW typed,
           CodeIsRight(k, e, typed), UNCHANGED <<consumed, restarts>>
    PROVE  /\ SecretInv'
           /\ uses' \in [1..MaxIssued -> Uses]
           /\ secrets' \subseteq SecretRows
           /\ issued' = issued
<1>1. /\ NewestCode(k, e) \in secrets
      /\ NewestCode(k, e).kind = k
      /\ Accept(NewestCode(k, e))
  BY NewestIsIn DEF CodeIsRight
<1>2. SecretInv' /\ uses' \in [1..MaxIssued -> Uses]
  BY <1>1, AcceptKeepsSecrets
<1> QED
  BY <1>1, <1>2 DEF Accept, TypeInv

\* A wrong code counts against the newest, which may be used up by that.
LEMMA WrongCodeKeepsSecrets ==
    ASSUME TypeInv, SecretInv, Steady, NEW k \in {"register", "email-change"}, NEW e, NEW typed,
           CodeIsWrong(k, e, typed), UNCHANGED <<consumed, restarts>>
    PROVE  /\ SecretInv'
           /\ uses' = uses
           /\ secrets' \subseteq SecretRows
           /\ issued' = issued
<1>1. issued' = issued /\ uses' = uses
  BY DEF CodeIsWrong
<1>2. CASE secrets' \subseteq secrets
  <2>1. SecretsKept
    BY <1>1, <1>2 DEF SecretsKept
  <2> QED
    BY <1>1, <1>2, <2>1, SecretFrame DEF TypeInv
<1>3. CASE ~(secrets' \subseteq secrets)
  <2> DEFINE s == NewestCode(k, e)
             t == [s EXCEPT !.tries = @ + 1]
  <2>1. CodesFor(k, e) # {}
    BY <1>3 DEF CodeIsWrong
  <2>2. s \in secrets /\ s \in SecretRows /\ s.kind = k
    BY <2>1, NewestIsIn DEF TypeInv
  <2>3. secrets' \subseteq (secrets \ {s}) \cup {t}
    BY <2>1 DEF CodeIsWrong
  <2>4. t \in SecretRows /\ t.id = s.id /\ t.kind = k
    BY <2>2 DEF SecretRows
  <2> HIDE DEF s, t
  <2>5. /\ \A v \in secrets' : v.id <= issued'
        /\ \A v, w \in secrets' : v.id = w.id => v = w
    BY <1>1, <2>2, <2>3, <2>4 DEF SecretInv
  <2>6. \A n \in 1..MaxIssued : n > issued' => uses'[n].times = 0
    BY <1>1 DEF SecretInv
  <2>7. \A v \in secrets' : uses'[v.id].times > 0 =>
            v.kind = "state" /\ uses'[v.id].kind = "state" /\ (v.id \in consumed' \/ restarts' > 0)
    BY <1>1, <2>2, <2>3, <2>4 DEF SecretInv
  <2>8. ASSUME NEW q \in Requests PROVE LinkIsGood(q)'
    <3>1. CASE Promises(q)'
      BY <3>1 DEF Promises
    <3>2. CASE Still(q) /\ flight[q].op = "reset"
      <4>1. LinkIsGood(q)
        BY DEF SecretInv
      <4>2. t.id # flight[q].code
        BY <2>2, <2>4, <3>2, <4>1 DEF LinkIsGood
      <4> QED
        BY <1>1, <2>3, <3>2, <4>1, <4>2, LinkFrame DEF LinkIsGood, Still
    <3>3. CASE Still(q) /\ flight[q].op # "reset"
      BY <3>3 DEF LinkIsGood, Still
    <3> QED
      BY <3>1, <3>2, <3>3 DEF Steady
  <2>9. OneTimeSecrets'
    BY <1>1 DEF SecretInv, OneTimeSecrets, Steady
  <2>10. secrets' \subseteq SecretRows
    BY <2>3, <2>4 DEF TypeInv
  <2> QED
    BY <1>1, <2>5, <2>6, <2>7, <2>8, <2>9, <2>10 DEF SecretInv
<1> QED
  BY <1>2, <1>3

\* A step about secrets and requests only.
LEMMA SecretStep ==
    ASSUME AccountInv, TypeInv', Steady, SecretInv',
           UNCHANGED <<acct, sessions, identities>>
    PROVE  AccountInv'
<1>1. AddressesKept /\ AccountsKept /\ WaysInKept
  BY DEF AddressesKept, AccountsKept, WaysInKept, Live
<1> QED
  BY <1>1, AddressFrame, IdentityFrame, SessionFrame, WayInFrame DEF AccountInv

-----------------------------------------------------------------------------
(* Registration, login and the second factor.                               *)

\* The fields of a request that goes on.
LEMMA GoesOnWithCode ==
    ASSUME NEW f \in Flights, NEW o, NEW n
    PROVE  [f EXCEPT !.op = o, !.code = n] =
               [op |-> o, user |-> f.user, email |-> f.email, ext |-> f.ext, code |-> n]
<1>1. [f EXCEPT !.op = o] =
          [op |-> o, user |-> f.user, email |-> f.email, ext |-> f.ext, code |-> f.code]
  BY DEF Flights
<1>2. [[op |-> o, user |-> f.user, email |-> f.email, ext |-> f.ext, code |-> f.code]
          EXCEPT !.code = n] =
          [op |-> o, user |-> f.user, email |-> f.email, ext |-> f.ext, code |-> n]
  OBVIOUS
<1>3. [f EXCEPT !.op = o, !.code = n] = [[f EXCEPT !.op = o] EXCEPT !.code = n]
  OBVIOUS
<1> QED
  BY <1>1, <1>2, <1>3

LEMMA IssueRegistrationCodeKeepsInv ==
    ASSUME AccountInv, NEW r \in Requests, IssueRegistrationCode(r)
    PROVE  AccountInv'
<1> DEFINE s == Secret("register", 0, flight[r].email)
           f == [flight[r] EXCEPT !.op = "registerPend", !.code = issued + 1]
<1>1. /\ TypeInv /\ SecretInv
      /\ flight[r] \in Flights /\ flight[r].op = "register" /\ issued \in Nat
  BY DEF AccountInv, TypeInv, IssueRegistrationCode
<1>2. s \in SecretRows /\ s.id = issued + 1
  BY <1>1, SecretIsRow DEF IssueRegistrationCode, Issue, Kinds, Flights
<1>3. f \in Flights /\ f.op = "registerPend"
  <2>1. f = [op |-> "registerPend", user |-> flight[r].user, email |-> flight[r].email,
             ext |-> flight[r].ext, code |-> issued + 1]
    BY <1>1, GoesOnWithCode
  <2> QED
    BY <1>1, <2>1 DEF Flights, Ops, AnonOps, EmailOps, ExternalOps
<1>4. Issue(s, {}) /\ Continue(r, f)
      /\ UNCHANGED <<acct, sessions, identities, pendingReg, change, pendingTotp, consumed>>
  BY DEF IssueRegistrationCode
<1> HIDE DEF s, f
<1>5. Moved(r) /\ Promises(r)' /\ restarts' = restarts
  BY <1>1, <1>3, <1>4, ContinueMoves, NothingPromised DEF PromiseOps, Moved
<1>6. TypeInv'
  BY <1>1, <1>2, <1>4, <1>5, IssueTyped DEF TypeInv, Moved
<1>7. SecretInv'
  BY <1>1, <1>2, <1>4, <1>5, MovedIsSteady, IssueKeepsSecrets
<1> QED
  BY <1>4, <1>5, <1>6, <1>7, MovedIsSteady, SecretStep

\* Only rows that no part but TypeInv speaks of are written at the end.
LEMMA RowStep ==
    ASSUME AccountInv, NEW r \in Requests, NEW S, Finish(r, S),
           pendingReg' \in [Emails -> Nat], pendingTotp' \subseteq Users,
           change' \in [Users -> Changes],
           \A u \in Users : change'[u] # NoChange => change'[u].email \in Emails,
           UNCHANGED <<acct, sessions, identities, secrets, issued, uses, consumed>>
    PROVE  AccountInv'
<1>1. Moved(r) /\ Promises(r)'
  BY FinishMoves DEF AccountInv
<1>2. TypeInv'
  BY <1>1 DEF AccountInv, TypeInv, Moved
<1>3. SecretsKept
  BY <1>1 DEF SecretsKept, Moved
<1> QED
  BY <1>1, <1>2, <1>3, MovedIsSteady, QuietStep

LEMMA StorePendingKeepsInv ==
    ASSUME AccountInv, NEW r \in Requests, StorePending(r)
    PROVE  AccountInv'
<1>1. flight[r] \in Flights /\ flight[r].code \in Nat
  BY DEF AccountInv, TypeInv, Flights
<1>2. pendingReg' \in [Emails -> Nat]
  BY <1>1 DEF AccountInv, TypeInv, StorePending
<1> QED
  BY <1>2, RowStep DEF StorePending, AccountInv, TypeInv

LEMMA StoreEnrollmentKeepsInv ==
    ASSUME AccountInv, NEW r \in Requests, StoreEnrollment(r)
    PROVE  AccountInv'
<1>1. flight[r].user \in Users
  BY UserOfFlight DEF AccountInv, StoreEnrollment, AnonOps
<1>2. pendingTotp' \subseteq Users
  BY <1>1 DEF AccountInv, TypeInv, StoreEnrollment
<1> QED
  BY <1>2, RowStep DEF StoreEnrollment, AccountInv, TypeInv

\* A code is verified, right or wrong; right, the request goes on as before.
LEMMA VerifyCodeStep ==
    ASSUME AccountInv, NEW r \in Requests, NEW k \in {"register", "email-change"}, NEW e, NEW typed,
           NEW f \in Flights,
           \/ /\ CodeIsRight(k, e, typed)
              /\ Continue(r, f)
              /\ Promises(r)'
           \/ /\ CodeIsWrong(k, e, typed)
              /\ Finish(r, {}),
           UNCHANGED <<acct, sessions, identities, pendingReg, change, pendingTotp, consumed>>
    PROVE  AccountInv'
<1>1. Moved(r) /\ Promises(r)' /\ restarts' = restarts
  BY ContinueMoves, FinishMoves DEF AccountInv, Moved
<1>2. Steady
  BY <1>1, MovedIsSteady
<1>3. /\ SecretInv'
      /\ uses' \in [1..MaxIssued -> Uses]
      /\ secrets' \subseteq SecretRows
      /\ issued' = issued
  BY <1>1, <1>2, RightCodeKeepsSecrets, WrongCodeKeepsSecrets DEF AccountInv, TypeInv
<1>4. TypeInv'
  BY <1>1, <1>3 DEF AccountInv, TypeInv, Moved
<1> QED
  BY <1>2, <1>3, <1>4, SecretStep

LEMMA VerifyRegistrationCodeKeepsInv ==
    ASSUME AccountInv, NEW r \in Requests, NEW typed, VerifyRegistrationCode(r, typed)
    PROVE  AccountInv'
<1> DEFINE e == flight[r].email
           f == [flight[r] EXCEPT !.op = "create"]
<1>1. flight[r] \in Flights /\ flight[r].op = "verify"
  BY DEF AccountInv, TypeInv, VerifyRegistrationCode
<1>2. f \in Flights /\ f.op = "create" /\ f.email = e /\ f.user = flight[r].user
  BY <1>1 DEF Flights, Ops, AnonOps, EmailOps, ExternalOps
<1>3. UNCHANGED <<acct, sessions, identities, pendingReg, change, pendingTotp, consumed>>
  BY DEF VerifyRegistrationCode
<1>4. ASSUME Continue(r, f) PROVE Promises(r)'
  <2>1. flight'[r] = f /\ UNCHANGED <<late, raced>>
    BY <1>2, <1>4, ContinueMoves DEF AccountInv
  <2>2. AddressIsFree(r)
    BY DEF AccountInv, AddressInv
  <2>3. AddressIsFree(r)'
    BY <1>1, <1>2, <1>3, <2>1, <2>2
       DEF AddressIsFree, LiveWith, Live, HasAddress, Excused
  <2> QED
    BY <1>2, <2>1, <2>3 DEF Promises, ExternalIsFree, PasswordIsEnough, UserIsThere, LinkIsGood
<1> QED
  BY <1>2, <1>3, <1>4, VerifyCodeStep DEF VerifyRegistrationCode

\* A session is opened for a user who is excused, or has no second factor and is there.
LEMMA SessionStep ==
    ASSUME AccountInv, NEW r \in Requests, NEW s \in SessionRows,
           Finish(r, {s.user}), sessions' \subseteq sessions \cup {s},
           s.weak => Excused(r, s.user),
           acct[s.user].state # "deleted" \/ Excused(r, s.user),
           UNCHANGED <<acct, identities, secrets, issued, pendingReg, change, pendingTotp, uses,
                       consumed>>
    PROVE  AccountInv'
<1>1. Moved(r) /\ Promises(r)' /\ (r \in late => s.user \in raced')
  BY FinishMoves DEF AccountInv
<1>2. Steady
  BY <1>1, MovedIsSteady
<1>3. TypeInv'
  BY <1>1 DEF AccountInv, TypeInv, Moved
<1>4. ASSUME NEW t \in sessions'
      PROVE  /\ t.weak => t.user \in raced'
             /\ acct'[t.user].state = "deleted" => t.user \in raced'
  <2>1. CASE t \in sessions
    BY <1>2, <2>1 DEF AccountInv, SessionInv, Steady
  <2>2. CASE t = s
    BY <1>1, <1>2, <2>2 DEF Excused, Steady
  <2> QED
    BY <2>1, <2>2
<1>5. SessionInv'
  <2>1. ASSUME NEW q \in Requests PROVE PasswordIsEnough(q)' /\ UserIsThere(q)'
    <3>1. CASE Promises(q)'
      BY <3>1 DEF Promises
    <3>2. CASE Still(q)
      <4>1. PasswordIsEnough(q) /\ UserIsThere(q)
        BY DEF AccountInv, SessionInv
      <4>2. PasswordIsEnough(q)'
        BY <1>2, <3>2, <4>1, ExcuseStays DEF PasswordIsEnough, Still, Excused
      <4>3. UserIsThere(q)'
        BY <1>2, <3>2, <4>1, ExcuseStays DEF UserIsThere, Still, Excused
      <4> QED
        BY <4>2, <4>3
    <3> QED
      BY <1>2, <3>1, <3>2 DEF Steady
  <2> QED
    BY <1>4, <2>1 DEF SessionInv
<1>6. AddressesKept /\ WaysInKept /\ SecretsKept
  BY <1>1 DEF AddressesKept, WaysInKept, SecretsKept, Live, Moved
<1> QED
  BY <1>2, <1>3, <1>5, <1>6, AddressFrame, IdentityFrame, SecretFrame, WayInFrame DEF AccountInv

LEMMA OpenSessionKeepsInv ==
    ASSUME AccountInv, NEW r \in Requests, OpenSession(r)
    PROVE  AccountInv'
<1> DEFINE u == flight[r].user
           s == Opened(u, "full")
<1>1. u \in Users /\ acct[u] \in Accts
  BY UserOfFlight DEF AccountInv, OpenSession, AnonOps, TypeInv
<1>2. s \in SessionRows /\ s.user = u /\ s.weak = acct[u].totp
  BY <1>1 DEF Opened, SessionRows, Accts
<1>3. /\ acct[u].totp => Excused(r, u)
      /\ acct[u].state # "deleted" \/ Excused(r, u)
  BY DEF AccountInv, SessionInv, PasswordIsEnough, UserIsThere, OpenSession
<1> QED
  BY <1>2, <1>3, SessionStep DEF OpenSession

LEMMA IssueIntermediateSessionKeepsInv ==
    ASSUME AccountInv, NEW r \in Requests, IssueIntermediateSession(r)
    PROVE  AccountInv'
<1> DEFINE u == flight[r].user
           s == Opened(u, "2fa")
<1>1. u \in Users /\ acct[u] \in Accts
  BY UserOfFlight DEF AccountInv, IssueIntermediateSession, AnonOps, TypeInv
<1>2. s \in SessionRows /\ s.user = u /\ ~s.weak
  BY <1>1 DEF Opened, SessionRows, Accts
<1>3. acct[u].state # "deleted" \/ Excused(r, u)
  BY DEF AccountInv, SessionInv, UserIsThere, IssueIntermediateSession
<1> QED
  BY <1>2, <1>3, SessionStep DEF IssueIntermediateSession

LEMMA RotateSessionKeepsInv ==
    ASSUME AccountInv, NEW r \in Requests, RotateSession(r)
    PROVE  AccountInv'
<1> DEFINE u == flight[r].user
           s == [user |-> u, kind |-> "full", weak |-> FALSE]
<1>1. u \in Users
  BY UserOfFlight DEF AccountInv, RotateSession, AnonOps
<1>2. s \in SessionRows /\ s.user = u /\ ~s.weak
  BY <1>1 DEF SessionRows
<1>3. acct[u].state # "deleted" \/ Excused(r, u)
  BY DEF AccountInv, SessionInv, UserIsThere, RotateSession
<1>4. sessions' \subseteq sessions \cup {s}
  BY DEF RotateSession
<1> QED
  BY <1>2, <1>3, <1>4, SessionStep DEF RotateSession

LEMMA ConsumeRecoveryCodeKeepsInv ==
    ASSUME AccountInv, NEW r \in Requests, NEW s \in secrets, ConsumeRecoveryCode(r, s)
    PROVE  AccountInv'
<1> DEFINE u == s.user
<1>1. PICK t \in sessions : t.user = u
  BY DEF ConsumeRecoveryCode
<1>2. u \in Users /\ s.kind = "recovery"
  BY DEF AccountInv, TypeInv, SecretRows, ConsumeRecoveryCode
<1>3. /\ Begin(r, Request("rotate", u, None)) /\ Accept(s)
      /\ UNCHANGED <<acct, sessions, identities, pendingReg, change, pendingTotp, consumed>>
  BY DEF ConsumeRecoveryCode
<1>4. Moved(r) /\ flight'[r] = Request("rotate", u, None) /\ raced' = raced
  BY <1>2, <1>3, RotateIsFlight, BeginMoves DEF AccountInv
<1>5. Promises(r)'
  BY <1>1, <1>2, <1>3, <1>4, RotationBegins
<1>6. Steady
  BY <1>4, <1>5, MovedIsSteady
<1>7. SecretInv' /\ uses' \in [1..MaxIssued -> Uses]
  BY <1>2, <1>3, <1>4, <1>6, AcceptKeepsSecrets DEF AccountInv, Moved
<1>8. TypeInv'
  BY <1>3, <1>4, <1>7 DEF AccountInv, TypeInv, Moved, Accept
<1> QED
  BY <1>3, <1>6, <1>7, <1>8, SecretStep

LEMMA UserIsSomebody ==
    ASSUME NEW u \in Users
    PROVE  u # None
BY AccountAssumption DEF Users

\* A request about one of S is late after a write about S.
LEMMA OthersAreLate ==
    ASSUME NEW S, Told(S), NEW q \in Requests, ~Promises(q)', NEW x \in S, x \in About(flight[q])
    PROVE  q \in late'
<1>1. x \in About(flight[q]) \cap S
  OBVIOUS
<1> QED
  BY <1>1 DEF Told

\* A new or changed account takes an address, or comes to life: requests about the
\* address are late, and who held it is left alone only if the request is excused.
LEMMA AddressTaken ==
    ASSUME AccountInv, Steady, NEW u \in Users, NEW S, NEW e \in Emails \cup {None},
           \A v \in Users \ {u} : acct'[v] = acct[v],
           acct'[u].email = e,
           e # None => e \in S,
           Told(S),
           e # None => LiveWith(e) \subseteq {u} \/ e \in raced'
    PROVE  AddressInv'
<1>1. \A v \in Users \ {u} : Live(v)' = Live(v)
  BY DEF Live
<1>2. ASSUME NEW v \in Users, v # u, Live(v), acct[v].email = e, e # None
      PROVE  e \in raced'
  BY <1>2 DEF LiveWith, HasAddress
<1>3. ASSUME NEW v \in Users, NEW w \in Users, Live(v)', Live(w)', v # w,
             acct'[v].email = acct'[w].email, acct'[v].email # None
      PROVE  acct'[v].email \in raced'
  <2>1. CASE v = u \/ w = u
    BY <1>1, <1>2, <1>3, <2>1
  <2>2. CASE v # u /\ w # u
    BY <1>1, <1>3, <2>2 DEF AccountInv, AddressInv, Steady
  <2> QED
    BY <2>1, <2>2
<1>4. ASSUME NEW q \in Requests PROVE AddressIsFree(q)'
  <2>1. CASE Promises(q)'
    BY <2>1 DEF Promises
  <2>2. CASE ~Promises(q)'
    <3>1. Still(q)
      BY <2>2 DEF Steady
    <3>2. AddressIsFree(q)
      BY DEF AccountInv, AddressInv
    <3>3. CASE flight[q].email = e /\ e # None
      <4>1. q \in late'
        BY <2>2, <3>3, OthersAreLate DEF About
      <4> QED
        BY <4>1 DEF AddressIsFree, Excused
    <3>4. CASE flight[q].email # e /\ flight[q].email # None
      <4>1. LiveWith(flight[q].email)' \subseteq LiveWith(flight[q].email)
        <5>1. ASSUME NEW v \in Users, Live(v)', acct'[v].email = flight'[q].email
              PROVE  Live(v) /\ acct[v].email = flight[q].email
          BY <1>1, <3>1, <3>4, <5>1 DEF Still
        <5> QED
          BY <3>1, <5>1 DEF LiveWith, HasAddress, Still
      <4> QED
        BY <3>1, <3>2, <4>1, ExcuseStays DEF AddressIsFree, Still, Excused
    <3>5. CASE flight[q].email = None
      BY <3>1, <3>5 DEF AddressIsFree, Still
    <3> QED
      BY <3>3, <3>4, <3>5
  <2> QED
    BY <2>1, <2>2
<1> QED
  BY <1>3, <1>4 DEF AddressInv

\* The account of a registration: the address was looked at before, the request is late,
\* or raced.
LEMMA CreateUserKeepsInv ==
    ASSUME AccountInv, NEW r \in Requests, CreateUser(r)
    PROVE  AccountInv'
<1>1. flight[r] \in Flights /\ flight[r].op = "create"
  BY DEF AccountInv, TypeInv, CreateUser
<1>2. PICK e \in Emails : e = flight[r].email
  BY <1>1 DEF Flights, EmailOps
<1>3. PICK u \in Users :
          /\ acct[u].state = "free"
          /\ acct' = [acct EXCEPT ![u] =
                 [state |-> "live", email |-> e, password |-> TRUE, totp |-> FALSE]]
          /\ sessions' = sessions \cup {[user |-> u, kind |-> "full", weak |-> FALSE]}
  <2> DEFINE unused == {v \in Users : acct[v].state = "free"}
  <2>1. Least(unused) \in unused
    BY LeastUser DEF CreateUser
  <2> QED
    BY <1>2, <2>1 DEF CreateUser
<1>4. /\ pendingReg' = [pendingReg EXCEPT ![e] = IF @ = flight[r].code THEN 0 ELSE @]
      /\ Finish(r, {e})
      /\ UNCHANGED <<identities, secrets, issued, change, pendingTotp, uses, consumed>>
  BY <1>2 DEF CreateUser
<1>5. /\ Moved(r) /\ Promises(r)' /\ (r \in late => e \in raced')
      /\ Told({e})
  BY <1>4, FinishMoves DEF AccountInv
<1>6. Steady
  BY <1>5, MovedIsSteady
<1>7. /\ acct'[u] = [state |-> "live", email |-> e, password |-> TRUE, totp |-> FALSE]
      /\ \A v \in Users \ {u} : acct'[v] = acct[v]
      /\ acct' \in [Users -> Accts]
  BY <1>3 DEF AccountInv, TypeInv, Accts
<1>8. TypeInv'
  <2>1. [user |-> u, kind |-> "full", weak |-> FALSE] \in SessionRows
    BY DEF SessionRows
  <2>2. sessions' \subseteq SessionRows
    BY <1>3, <2>1 DEF AccountInv, TypeInv
  <2>3. pendingReg' \in [Emails -> Nat]
    BY <1>4 DEF AccountInv, TypeInv
  <2> QED
    BY <1>4, <1>5, <1>7, <2>2, <2>3 DEF AccountInv, TypeInv, Moved
<1>9. AddressInv'
  <2>1. LiveWith(e) \subseteq {u} \/ e \in raced'
    <3>1. AddressIsFree(r) /\ flight[r].user = 0 /\ 0 \notin Users
      BY <1>1, AccountAssumption DEF AccountInv, AddressInv, Flights, AnonOps, Users
    <3>2. LiveWith(e) \subseteq {0} \/ Excused(r, e)
      BY <1>1, <1>2, <3>1, AccountAssumption DEF AddressIsFree
    <3>3. LiveWith(e) \subseteq Users
      BY DEF LiveWith
    <3> QED
      BY <1>5, <3>1, <3>2, <3>3 DEF Excused, Moved
  <2>2. acct'[u].email = e /\ (e # None => e \in {e})
    BY <1>7
  <2>3. \A v \in Users \ {u} : acct'[v] = acct[v]
    BY <1>7
  <2> QED
    BY <1>5, <1>6, <2>1, <2>2, <2>3, AddressTaken
<1>10. SessionInv'
  <2>1. AccountsKept
    BY <1>7 DEF AccountsKept
  <2>2. \A t \in sessions' :
            /\ t.weak => t.user \in raced'
            /\ acct'[t.user].state = "deleted" => t.user \in raced'
    <3>1. ASSUME NEW t \in sessions, t.user \in Users
          PROVE  /\ t.weak => t.user \in raced'
                 /\ acct'[t.user].state = "deleted" => t.user \in raced'
      BY <1>6, <2>1, <3>1 DEF AccountInv, SessionInv, Steady, AccountsKept
    <3>2. \A t \in sessions : t.user \in Users
      BY DEF AccountInv, TypeInv, SessionRows
    <3> QED
      BY <1>3, <1>7, <3>1, <3>2
  <2>3. ASSUME NEW q \in Requests PROVE PasswordIsEnough(q)' /\ UserIsThere(q)'
    <3>1. CASE Promises(q)'
      BY <3>1 DEF Promises
    <3>2. CASE Still(q)
      BY <1>6, <2>1, <3>2, KeptPromises DEF AccountInv
    <3> QED
      BY <1>6, <3>1, <3>2 DEF Steady
  <2> QED
    BY <2>2, <2>3 DEF SessionInv
<1>11. NobodyLockedOut'
  BY <1>4, <1>6, <1>7 DEF AccountInv, NobodyLockedOut, Live, Steady
<1>12. SecretsKept
  BY <1>4, <1>5 DEF SecretsKept, Moved
<1> QED
  BY <1>4, <1>6, <1>8, <1>9, <1>10, <1>11, <1>12, IdentityFrame, SecretFrame DEF AccountInv

\* The account of one user is written: requests about the user are late.
LEMMA UserWritten ==
    ASSUME AccountInv, Steady, NEW u \in Users, NEW S, u \in S, Told(S),
           \A v \in Users \ {u} : acct'[v] = acct[v],
           sessions' \subseteq sessions,
           acct'[u].state = "deleted" =>
               acct[u].state = "deleted" \/ \A s \in sessions' : s.user # u
    PROVE  SessionInv'
<1>1. ASSUME NEW s \in sessions'
      PROVE  /\ s.weak => s.user \in raced'
             /\ acct'[s.user].state = "deleted" => s.user \in raced'
  <2>1. s \in sessions /\ s.user \in Users
    BY DEF AccountInv, TypeInv, SessionRows
  <2>2. acct'[s.user].state = "deleted" => acct[s.user].state = "deleted"
    BY <2>1
  <2> QED
    BY <2>1, <2>2 DEF AccountInv, SessionInv, Steady
<1>2. ASSUME NEW q \in Requests PROVE PasswordIsEnough(q)' /\ UserIsThere(q)'
  <2>1. CASE Promises(q)'
    BY <2>1 DEF Promises
  <2>2. CASE ~Promises(q)' /\ flight[q].user = u
    <3>1. q \in late'
      BY <2>2, OthersAreLate, UserIsSomebody DEF About
    <3> QED
      BY <3>1 DEF PasswordIsEnough, UserIsThere, Excused
  <2>3. CASE ~Promises(q)' /\ flight[q].user # u
    <3>1. Still(q) /\ PasswordIsEnough(q) /\ UserIsThere(q)
      BY <2>3 DEF Steady, AccountInv, SessionInv
    <3>2. flight[q].op \notin AnonOps => acct'[flight[q].user] = acct[flight[q].user]
      BY <2>3, UserOfFlight DEF AccountInv
    <3>3. PasswordIsEnough(q)'
      BY <3>1, <3>2, ExcuseStays DEF PasswordIsEnough, Still, Excused, AnonOps
    <3>4. UserIsThere(q)'
      BY <3>1, <3>2, ExcuseStays DEF UserIsThere, Still, Excused, AnonOps
    <3> QED
      BY <3>3, <3>4
  <2> QED
    BY <2>1, <2>2, <2>3
<1> QED
  BY <1>1, <1>2 DEF SessionInv

\* A handler ends with a write to the account of its user that leaves the address and the
\* password alone and brings nobody to life.
LEMMA AccountStep ==
    ASSUME AccountInv, NEW r \in Requests, NEW u \in Users, Finish(r, {u}), TypeInv',
           \A v \in Users \ {u} : acct'[v] = acct[v],
           Live(u)' => Live(u),
           acct'[u].email = acct[u].email,
           acct[u].password => acct'[u].password,
           sessions' \subseteq sessions,
           acct'[u].state = "deleted" =>
               acct[u].state = "deleted" \/ \A s \in sessions' : s.user # u,
           identities' = identities,
           SecretInv'
    PROVE  AccountInv'
<1>1. Moved(r) /\ Promises(r)' /\ Told({u})
  BY FinishMoves DEF AccountInv
<1>2. Steady
  BY <1>1, MovedIsSteady
<1>3. AddressesKept /\ WaysInKept
  BY DEF AddressesKept, WaysInKept, Live
<1>4. SessionInv'
  BY <1>1, <1>2, UserWritten
<1> QED
  BY <1>2, <1>3, <1>4, AddressFrame, IdentityFrame, WayInFrame DEF AccountInv

LEMMA FinishIsSteady ==
    ASSUME TypeInv, NEW r \in Requests, NEW S, Finish(r, S)
    PROVE  /\ Steady
           /\ restarts' = restarts
           /\ flight' \in [Requests -> Flights]
           /\ late' \subseteq Requests
BY FinishMoves, MovedIsSteady DEF Moved

LEMMA EnableTotpKeepsInv ==
    ASSUME AccountInv, NEW r \in Requests, EnableTotp(r)
    PROVE  AccountInv'
<1>1. PICK u \in Users : u = flight[r].user
  BY UserOfFlight DEF AccountInv, EnableTotp, AnonOps
<1> DEFINE s == Secret("recovery", u, None)
<1>2. /\ acct' = [acct EXCEPT ![u].totp = TRUE]
      /\ Issue(s, RecoveryCodes(u))
      /\ pendingTotp' = pendingTotp \ {u}
      /\ Finish(r, {u})
      /\ UNCHANGED <<sessions, identities, pendingReg, change, consumed>>
  BY <1>1 DEF EnableTotp
<1>3. TypeInv /\ SecretInv /\ s \in SecretRows /\ s.id = issued + 1
  BY <1>2, SecretIsRow DEF AccountInv, Issue, Kinds
<1>4. Steady /\ restarts' = restarts /\ flight' \in [Requests -> Flights] /\ late' \subseteq Requests
  BY <1>2, <1>3, FinishIsSteady
<1> HIDE DEF s
<1>5. /\ acct' \in [Users -> Accts]
      /\ \A v \in Users \ {u} : acct'[v] = acct[v]
      /\ acct'[u].state = acct[u].state /\ acct'[u].email = acct[u].email
      /\ acct'[u].password = acct[u].password
  BY <1>2, <1>3 DEF TypeInv, Accts
<1>6. TypeInv'
  BY <1>2, <1>3, <1>4, <1>5, IssueTyped DEF TypeInv
<1>7. SecretInv'
  BY <1>2, <1>3, <1>4, IssueKeepsSecrets
<1> QED
  BY <1>2, <1>5, <1>6, <1>7, AccountStep DEF Live

LEMMA DropTotpKeepsInv ==
    ASSUME AccountInv, NEW r \in Requests, DropTotp(r)
    PROVE  AccountInv'
<1>1. PICK u \in Users : u = flight[r].user
  BY UserOfFlight DEF AccountInv, DropTotp, AnonOps
<1>2. /\ acct' = [acct EXCEPT ![u].totp = FALSE]
      /\ secrets' = secrets \ RecoveryCodes(u)
      /\ pendingTotp' = pendingTotp \ {u}
      /\ Finish(r, {u})
      /\ UNCHANGED <<sessions, identities, issued, pendingReg, change, uses, consumed>>
  BY <1>1 DEF DropTotp
<1>3. Steady /\ restarts' = restarts /\ flight' \in [Requests -> Flights] /\ late' \subseteq Requests
  BY <1>2, FinishIsSteady DEF AccountInv
<1>4. /\ acct' \in [Users -> Accts]
      /\ \A v \in Users \ {u} : acct'[v] = acct[v]
      /\ acct'[u].state = acct[u].state /\ acct'[u].email = acct[u].email
      /\ acct'[u].password = acct[u].password
  BY <1>2 DEF AccountInv, TypeInv, Accts
<1>5. TypeInv'
  BY <1>2, <1>3, <1>4 DEF AccountInv, TypeInv
<1>6. SecretInv'
  BY <1>2, <1>3, SecretFrame DEF AccountInv, SecretsKept
<1> QED
  BY <1>2, <1>4, <1>5, <1>6, AccountStep DEF Live

LEMMA RegenerateRecoveryCodesKeepsInv ==
    ASSUME AccountInv, NEW u \in Users, RegenerateRecoveryCodes(u)
    PROVE  AccountInv'
<1> DEFINE s == Secret("recovery", u, None)
<1>1. /\ AtOnce({}) /\ Issue(s, RecoveryCodes(u))
      /\ UNCHANGED <<acct, sessions, identities, pendingReg, change, pendingTotp, consumed>>
  BY DEF RegenerateRecoveryCodes
<1>2. TypeInv /\ SecretInv /\ s \in SecretRows /\ s.id = issued + 1
  BY <1>1, SecretIsRow DEF AccountInv, Issue, Kinds
<1> HIDE DEF s
<1>3. /\ flight' \in [Requests -> Flights] /\ late' \subseteq Requests /\ restarts' = restarts
      /\ Steady
  BY <1>1, <1>2, AtOnceMoves DEF Moved, Steady
<1>4. TypeInv'
  BY <1>1, <1>2, <1>3, IssueTyped DEF TypeInv
<1>5. SecretInv'
  BY <1>1, <1>2, <1>3, IssueKeepsSecrets
<1> QED
  BY <1>1, <1>3, <1>4, <1>5, SecretStep

-----------------------------------------------------------------------------
(* What is changed about an account.                                        *)

LEMMA IssueResetKeepsInv ==
    ASSUME AccountInv, NEW r \in Requests, IssueReset(r)
    PROVE  AccountInv'
<1>1. PICK u \in Users : u = flight[r].user
  BY UserOfFlight DEF AccountInv, IssueReset, AnonOps
<1> DEFINE s == Secret("reset", u, None)
           W == {t \in secrets : t.kind = "reset" /\ t.user = u}
<1>2. /\ Issue(s, W) /\ Finish(r, {})
      /\ UNCHANGED <<acct, sessions, identities, pendingReg, change, pendingTotp, consumed>>
  BY <1>1 DEF IssueReset
<1>3. TypeInv /\ SecretInv /\ s \in SecretRows /\ s.id = issued + 1
  BY <1>2, SecretIsRow DEF AccountInv, Issue, Kinds
<1> HIDE DEF s, W
<1>4. Steady /\ restarts' = restarts /\ flight' \in [Requests -> Flights] /\ late' \subseteq Requests
  BY <1>2, <1>3, FinishIsSteady
<1>5. TypeInv'
  BY <1>2, <1>3, <1>4, IssueTyped DEF TypeInv
<1>6. SecretInv'
  BY <1>2, <1>3, <1>4, IssueKeepsSecrets
<1> QED
  BY <1>2, <1>4, <1>5, <1>6, SecretStep

LEMMA IssueEmailChangeCodeKeepsInv ==
    ASSUME AccountInv, NEW r \in Requests, IssueEmailChangeCode(r)
    PROVE  AccountInv'
<1> DEFINE s == Secret("email-change", flight[r].user, flight[r].email)
           f == [flight[r] EXCEPT !.op = "emailChangePend", !.code = issued + 1]
<1>1. /\ TypeInv /\ SecretInv
      /\ flight[r] \in Flights /\ flight[r].op = "emailChange" /\ issued \in Nat
  BY DEF AccountInv, TypeInv, IssueEmailChangeCode
<1>2. s \in SecretRows /\ s.id = issued + 1
  BY <1>1, SecretIsRow DEF IssueEmailChangeCode, Issue, Kinds, Flights
<1>3. f \in Flights /\ f.op = "emailChangePend"
  <2>1. f = [op |-> "emailChangePend", user |-> flight[r].user, email |-> flight[r].email,
             ext |-> flight[r].ext, code |-> issued + 1]
    BY <1>1, GoesOnWithCode
  <2> QED
    BY <1>1, <2>1 DEF Flights, Ops, AnonOps, EmailOps, ExternalOps
<1>4. Issue(s, {}) /\ Continue(r, f)
      /\ UNCHANGED <<acct, sessions, identities, pendingReg, change, pendingTotp, consumed>>
  BY DEF IssueEmailChangeCode
<1> HIDE DEF s, f
<1>5. Moved(r) /\ Promises(r)' /\ restarts' = restarts
  BY <1>1, <1>3, <1>4, ContinueMoves, NothingPromised DEF PromiseOps, Moved
<1>6. TypeInv'
  BY <1>1, <1>2, <1>4, <1>5, IssueTyped DEF TypeInv, Moved
<1>7. SecretInv'
  BY <1>1, <1>2, <1>4, <1>5, MovedIsSteady, IssueKeepsSecrets
<1> QED
  BY <1>4, <1>5, <1>6, <1>7, MovedIsSteady, SecretStep

LEMMA StoreEmailChangeKeepsInv ==
    ASSUME AccountInv, NEW r \in Requests, StoreEmailChange(r)
    PROVE  AccountInv'
<1> DEFINE f == flight[r]
           c == [code |-> f.code, email |-> f.email]
<1>1. f \in Flights /\ f.op = "emailChangePend" /\ f.user \in Users
  BY UserOfFlight DEF AccountInv, TypeInv, StoreEmailChange, AnonOps
<1>2. c \in Changes /\ c.email \in Emails
  BY <1>1 DEF Changes, Flights, EmailOps
<1>3. change' = [change EXCEPT ![f.user] = c]
  BY DEF StoreEmailChange
<1> HIDE DEF c
<1>4. /\ change' \in [Users -> Changes]
      /\ \A u \in Users : change'[u] # NoChange => change'[u].email \in Emails
  BY <1>1, <1>2, <1>3 DEF AccountInv, TypeInv
<1> QED
  BY <1>4, RowStep DEF StoreEmailChange, AccountInv, TypeInv

LEMMA VerifyEmailChangeCodeKeepsInv ==
    ASSUME AccountInv, NEW r \in Requests, NEW typed, VerifyEmailChangeCode(r, typed)
    PROVE  AccountInv'
<1> DEFINE e == flight[r].email
           f == [flight[r] EXCEPT !.op = "writeEmail"]
<1>1. flight[r] \in Flights /\ flight[r].op = "confirmChange"
  BY DEF AccountInv, TypeInv, VerifyEmailChangeCode
<1>2. f \in Flights /\ f.op = "writeEmail" /\ f.email = e /\ f.user = flight[r].user
  BY <1>1 DEF Flights, Ops, AnonOps, EmailOps, ExternalOps
<1>3. UNCHANGED <<acct, sessions, identities, pendingReg, change, pendingTotp, consumed>>
  BY DEF VerifyEmailChangeCode
<1>4. ASSUME Continue(r, f) PROVE Promises(r)'
  <2>1. flight'[r] = f /\ UNCHANGED <<late, raced>>
    BY <1>2, <1>4, ContinueMoves DEF AccountInv
  <2>2. AddressIsFree(r)
    BY DEF AccountInv, AddressInv
  <2>3. AddressIsFree(r)'
    BY <1>1, <1>2, <1>3, <2>1, <2>2
       DEF AddressIsFree, LiveWith, Live, HasAddress, Excused
  <2> QED
    BY <1>2, <2>1, <2>3 DEF Promises, ExternalIsFree, PasswordIsEnough, UserIsThere, LinkIsGood
<1> QED
  BY <1>2, <1>3, <1>4, VerifyCodeStep DEF VerifyEmailChangeCode

LEMMA StorePasswordKeepsInv ==
    ASSUME AccountInv, NEW r \in Requests, StorePassword(r)
    PROVE  AccountInv'
<1>1. PICK u \in Users : u = flight[r].user
  BY UserOfFlight DEF AccountInv, StorePassword, AnonOps
<1>2. /\ acct' = [acct EXCEPT ![u].password = TRUE]
      /\ Finish(r, {u})
      /\ UNCHANGED <<sessions, identities, secrets, issued, pendingReg, change, pendingTotp, uses,
                     consumed>>
  BY <1>1 DEF StorePassword
<1>3. Steady /\ restarts' = restarts /\ flight' \in [Requests -> Flights] /\ late' \subseteq Requests
  BY <1>2, FinishIsSteady DEF AccountInv
<1>4. /\ acct' \in [Users -> Accts]
      /\ \A v \in Users \ {u} : acct'[v] = acct[v]
      /\ acct'[u].state = acct[u].state /\ acct'[u].email = acct[u].email
      /\ acct'[u].password
  BY <1>2 DEF AccountInv, TypeInv, Accts
<1>5. TypeInv'
  BY <1>2, <1>3, <1>4 DEF AccountInv, TypeInv
<1>6. SecretInv'
  BY <1>2, <1>3, SecretFrame DEF AccountInv, SecretsKept
<1> QED
  BY <1>2, <1>4, <1>5, <1>6, AccountStep DEF Live

\* The sessions go with the account.
LEMMA SoftDeleteKeepsInv ==
    ASSUME AccountInv, NEW r \in Requests, SoftDelete(r)
    PROVE  AccountInv'
<1>1. PICK u \in Users : u = flight[r].user
  BY UserOfFlight DEF AccountInv, SoftDelete, AnonOps
<1>2. /\ acct' = [acct EXCEPT ![u].state = "deleted", ![u].totp = FALSE]
      /\ sessions' = {s \in sessions : s.user # u}
      /\ secrets' = secrets \ RecoveryCodes(u)
      /\ pendingTotp' = pendingTotp \ {u}
      /\ change' = [change EXCEPT ![u] = NoChange]
      /\ Finish(r, {u})
      /\ UNCHANGED <<identities, issued, pendingReg, uses, consumed>>
  BY <1>1 DEF SoftDelete
<1>3. Steady /\ restarts' = restarts /\ flight' \in [Requests -> Flights] /\ late' \subseteq Requests
  BY <1>2, FinishIsSteady DEF AccountInv
<1>4. /\ acct' \in [Users -> Accts]
      /\ \A v \in Users \ {u} : acct'[v] = acct[v]
      /\ acct'[u].state = "deleted" /\ acct'[u].email = acct[u].email
      /\ acct'[u].password = acct[u].password
  BY <1>2 DEF AccountInv, TypeInv, Accts
<1>5. /\ change' \in [Users -> Changes]
      /\ \A v \in Users : change'[v] # NoChange => change'[v].email \in Emails
  <2>1. NoChange \in Changes
    BY DEF NoChange, Changes
  <2> QED
    BY <1>2, <2>1 DEF AccountInv, TypeInv
<1>6. TypeInv'
  BY <1>2, <1>3, <1>4, <1>5 DEF AccountInv, TypeInv
<1>7. SecretInv'
  BY <1>2, <1>3, SecretFrame DEF AccountInv, SecretsKept
<1> QED
  BY <1>2, <1>4, <1>6, <1>7, AccountStep DEF Live

\* The second of two resets by one link is late, and so its user is raced.
LEMMA SetPasswordKeepsInv ==
    ASSUME AccountInv, NEW r \in Requests, SetPassword(r)
    PROVE  AccountInv'
<1>1. PICK u \in Users : u = flight[r].user
  BY UserOfFlight DEF AccountInv, SetPassword, AnonOps
<1>2. PICK n \in 1..issued : n = flight[r].code
  BY DEF AccountInv, SecretInv, LinkIsGood, SetPassword
<1> DEFINE used == [id |-> n, kind |-> "reset", user |-> u]
<1>3. /\ flight[r].op = "reset"
      /\ acct' = [acct EXCEPT ![u].password = TRUE]
      /\ sessions' = {s \in sessions : s.user # u}
      /\ secrets' = {s \in secrets : s.id # n}
      /\ Used(used)
      /\ Finish(r, {u})
      /\ UNCHANGED <<identities, issued, pendingReg, change, pendingTotp, consumed>>
  BY <1>1, <1>2 DEF SetPassword
<1>4. /\ TypeInv /\ SecretInv
      /\ Steady /\ restarts' = restarts /\ flight' \in [Requests -> Flights] /\ late' \subseteq Requests
  BY <1>3, FinishIsSteady DEF AccountInv
<1>5. Promises(r)' /\ Told({u}) /\ (r \in late => u \in raced')
  BY <1>3, <1>4, FinishMoves
<1>6. /\ acct' \in [Users -> Accts]
      /\ \A v \in Users \ {u} : acct'[v] = acct[v]
      /\ acct'[u].state = acct[u].state /\ acct'[u].email = acct[u].email
      /\ acct'[u].password
  BY <1>3, <1>4 DEF TypeInv, Accts
<1>7. n \in 1..MaxIssued
  BY <1>4, AccountAssumption DEF TypeInv
<1>8. /\ uses' \in [1..MaxIssued -> Uses]
      /\ uses'[n].times = uses[n].times + 1
      /\ uses'[n].kind = "reset" /\ uses'[n].user = u
      /\ \A m \in 1..MaxIssued : m # n => uses'[m] = uses[m]
      /\ uses[n].times \in Nat
  <2>1. /\ used.id \in 1..MaxIssued /\ used.kind \in Kinds /\ used.user \in Users \cup {0}
        /\ used.id = n /\ used.kind = "reset" /\ used.user = u
    BY <1>7 DEF Kinds
  <2> HIDE DEF used
  <2>2. /\ uses' \in [1..MaxIssued -> Uses]
        /\ uses'[n] = [times |-> uses[n].times + 1, kind |-> "reset", user |-> u]
        /\ \A m \in 1..MaxIssued : m # n => uses'[m] = uses[m]
        /\ uses[n].times \in Nat
    BY <1>3, <1>4, <2>1, UsedTyped
  <2> QED
    BY <2>2
<1>9. TypeInv'
  BY <1>3, <1>4, <1>6, <1>8 DEF TypeInv
<1>10. LinkIsGood(r)
  BY <1>4 DEF SecretInv
<1>11. OneTimeSecrets'
  <2>1. uses'[n].times > 1 => u \in raced'
    <3>1. uses'[n].times > 1 => uses[n].times > 0
      BY <1>8
    <3> QED
      BY <1>2, <1>3, <1>5, <1>10, <3>1 DEF LinkIsGood
  <2>2. ASSUME NEW m \in 1..MaxIssued, uses'[m].times > 1
        PROVE  \/ uses'[m].kind = "reset" /\ uses'[m].user \in raced'
               \/ uses'[m].kind = "state" /\ restarts' > 0
    <3>1. CASE m = n
      BY <1>8, <2>1, <2>2, <3>1
    <3>2. CASE m # n
      BY <1>4, <1>8, <2>2, <3>2 DEF SecretInv, OneTimeSecrets, Steady
    <3> QED
      BY <3>1, <3>2
  <2> QED
    BY <2>2 DEF OneTimeSecrets
<1>12. ASSUME NEW q \in Requests PROVE LinkIsGood(q)'
  <2>1. CASE Promises(q)'
    BY <2>1 DEF Promises
  <2>2. CASE ~Promises(q)' /\ flight[q].op = "reset"
    <3>1. Still(q) /\ LinkIsGood(q)
      BY <1>4, <2>2 DEF Steady, SecretInv
    <3>2. flight[q].code \in 1..issued' /\ flight[q].code \in 1..MaxIssued
      BY <1>3, <1>4, <2>2, <3>1, AccountAssumption DEF LinkIsGood, TypeInv
    <3>3. \A s \in secrets' : s.id = flight[q].code => s.kind = "reset" /\ s.user = flight[q].user
      BY <1>3, <2>2, <3>1 DEF LinkIsGood
    <3>4. CASE flight[q].code = n
      <4>1. flight[q].user = u
        BY <1>1, <1>2, <1>3, <1>10, <2>2, <3>4 DEF LinkIsGood
      <4>2. q \in late'
        BY <1>5, <2>2, <4>1, OthersAreLate, UserIsSomebody DEF About
      <4> QED
        BY <1>4, <1>8, <3>1, <3>2, <3>3, <3>4, <4>1, <4>2, LinkFrame
    <3>5. CASE flight[q].code # n
      <4>1. uses'[flight[q].code] = uses[flight[q].code]
        BY <1>8, <3>2, <3>5
      <4> QED
        BY <1>4, <2>2, <3>1, <3>2, <3>3, <4>1, LinkFrame DEF LinkIsGood, Still
    <3> QED
      BY <3>4, <3>5
  <2>3. CASE ~Promises(q)' /\ flight[q].op # "reset"
    BY <1>4, <2>3 DEF Steady, Still, LinkIsGood
  <2> QED
    BY <2>1, <2>2, <2>3
<1>13. /\ \A s \in secrets' : s.id <= issued'
       /\ \A s, t \in secrets' : s.id = t.id => s = t
  BY <1>3, <1>4 DEF SecretInv
<1>14. ASSUME NEW m \in 1..MaxIssued, m > issued'
       PROVE  uses'[m].times = 0
  <2>1. issued' = issued /\ issued \in Nat
    BY <1>3, <1>4 DEF TypeInv
  <2>2. m # n /\ m > issued
    BY <1>14, <2>1
  <2> QED
    BY <1>4, <1>8, <2>2 DEF SecretInv
<1>15. ASSUME NEW s \in secrets', uses'[s.id].times > 0
       PROVE  s.kind = "state" /\ uses'[s.id].kind = "state" /\ (s.id \in consumed' \/ restarts' > 0)
  <2>1. s \in secrets /\ s.id # n /\ s.id \in 1..MaxIssued
    BY <1>3, <1>4 DEF TypeInv, SecretRows
  <2> QED
    BY <1>3, <1>4, <1>8, <1>15, <2>1 DEF SecretInv
<1>16. SecretInv'
  BY <1>11, <1>12, <1>13, <1>14, <1>15 DEF SecretInv
<1> QED
  BY <1>3, <1>6, <1>9, <1>16, AccountStep DEF Live

\* The address was looked at before the code was verified; since then the request is late,
\* or nobody else has it.
LEMMA WriteEmailKeepsInv ==
    ASSUME AccountInv, NEW r \in Requests, WriteEmail(r)
    PROVE  AccountInv'
<1>1. flight[r] \in Flights /\ flight[r].op = "writeEmail"
  BY DEF AccountInv, TypeInv, WriteEmail
<1>2. PICK u \in Users : u = flight[r].user
  BY <1>1, UserOfFlight DEF AccountInv, AnonOps
<1>3. PICK e \in Emails : e = flight[r].email
  BY <1>1 DEF Flights, EmailOps
<1>4. /\ acct' = [acct EXCEPT ![u].email = e]
      /\ change' = [change EXCEPT ![u] = IF @.code = flight[r].code THEN NoChange ELSE @]
      /\ Finish(r, {e, u})
      /\ UNCHANGED <<sessions, identities, secrets, issued, pendingReg, pendingTotp, uses, consumed>>
  BY <1>2, <1>3 DEF WriteEmail
<1>5. /\ Steady /\ restarts' = restarts /\ flight' \in [Requests -> Flights] /\ late' \subseteq Requests
      /\ Told({e, u}) /\ (r \in late => e \in raced')
  BY <1>4, FinishIsSteady, FinishMoves DEF AccountInv
<1>6. /\ acct' \in [Users -> Accts]
      /\ \A v \in Users \ {u} : acct'[v] = acct[v]
      /\ acct'[u].state = acct[u].state /\ acct'[u].email = e
      /\ acct'[u].password = acct[u].password
  BY <1>4 DEF AccountInv, TypeInv, Accts
<1>7. /\ change' \in [Users -> Changes]
      /\ \A v \in Users : change'[v] # NoChange => change'[v].email \in Emails
  <2>1. NoChange \in Changes
    BY DEF NoChange, Changes
  <2> QED
    BY <1>4, <2>1 DEF AccountInv, TypeInv
<1>8. TypeInv'
  BY <1>4, <1>5, <1>6, <1>7 DEF AccountInv, TypeInv
<1>9. AddressInv'
  <2>1. e # None
    BY AccountAssumption
  <2>2. LiveWith(e) \subseteq {u} \/ Excused(r, e)
    BY <1>1, <1>2, <1>3, <2>1 DEF AccountInv, AddressInv, AddressIsFree
  <2>3. LiveWith(e) \subseteq {u} \/ e \in raced'
    BY <1>5, <2>2 DEF Excused, Steady
  <2>4. e \in {e, u} /\ acct'[u].email = e /\ \A v \in Users \ {u} : acct'[v] = acct[v]
    BY <1>6
  <2> QED
    BY <1>5, <2>3, <2>4, AddressTaken
<1>10. SessionInv'
  <2>1. u \in {e, u} /\ acct'[u].state = acct[u].state /\ \A v \in Users \ {u} : acct'[v] = acct[v]
    BY <1>6
  <2> QED
    BY <1>4, <1>5, <2>1, UserWritten
<1>11. WaysInKept /\ SecretsKept
  BY <1>4, <1>5, <1>6 DEF WaysInKept, SecretsKept, Live
<1> QED
  BY <1>4, <1>5, <1>8, <1>9, <1>10, <1>11, IdentityFrame, SecretFrame, WayInFrame DEF AccountInv

\* Unlocking looks at nothing, so the user and the address are raced.
LEMMA ToggleLockKeepsInv ==
    ASSUME AccountInv, NEW u \in Users, ToggleLock(u)
    PROVE  AccountInv'
<1> DEFINE e == acct[u].email
           S == {u, acct[u].email}
<1>1. /\ acct[u].state # "free"
      /\ acct' = [acct EXCEPT ![u].state = IF @ = "live" THEN "locked" ELSE "live"]
      /\ late' = late \cup {q \in Requests : About(flight[q]) \cap S # {}}
      /\ raced' = raced \cup (IF Live(u) THEN {} ELSE S)
      /\ UNCHANGED <<sessions, identities, secrets, issued, pendingReg, change, pendingTotp, uses,
                     consumed, flight, restarts>>
  BY DEF ToggleLock
<1>2. /\ acct' \in [Users -> Accts]
      /\ \A v \in Users \ {u} : acct'[v] = acct[v]
      /\ acct'[u].state = (IF Live(u) THEN "locked" ELSE "live")
      /\ acct'[u].email = acct[u].email /\ acct'[u].password = acct[u].password
      /\ acct[u].email \in Emails \cup {None}
  BY <1>1 DEF AccountInv, TypeInv, Accts, Live
<1>3. Steady /\ Told(S)
  BY <1>1 DEF Steady, Told, Still
<1>4. TypeInv'
  BY <1>1, <1>2 DEF AccountInv, TypeInv
<1>5. AddressInv'
  <2>1. CASE Live(u)
    <3>1. AddressesKept
      BY <1>2, <2>1 DEF AddressesKept, Live
    <3> QED
      BY <1>3, <3>1, AddressFrame DEF AccountInv
  <2>2. CASE ~Live(u)
    <3>1. e \in raced' /\ acct'[u].email = e /\ e \in S /\ e \in Emails \cup {None}
      BY <1>1, <1>2, <2>2
    <3> QED
      BY <1>2, <1>3, <3>1, AddressTaken
  <2> QED
    BY <2>1, <2>2
<1>6. SessionInv'
  <2>1. acct'[u].state # "deleted" /\ u \in S
    BY <1>2
  <2> QED
    BY <1>1, <1>2, <1>3, <2>1, UserWritten
<1>7. NobodyLockedOut'
  <2>1. ASSUME NEW v \in Users, Live(v)'
        PROVE  \/ acct'[v].password
               \/ \E x \in Externals : <<x, v>> \in identities'
               \/ v \in raced'
    <3>1. CASE Live(v)
      BY <1>1, <1>2, <3>1 DEF AccountInv, NobodyLockedOut
    <3>2. CASE ~Live(v)
      BY <1>1, <1>2, <2>1, <3>2 DEF Live
    <3> QED
      BY <3>1, <3>2
  <2> QED
    BY <2>1 DEF NobodyLockedOut
<1>8. SecretsKept
  BY <1>1 DEF SecretsKept
<1> QED
  BY <1>1, <1>3, <1>4, <1>5, <1>6, <1>7, <1>8, IdentityFrame, SecretFrame DEF AccountInv


-----------------------------------------------------------------------------
(* OAuth: states, callbacks, identities.                                    *)

LEMMA CreateStateKeepsInv ==
    ASSUME AccountInv, NEW u \in Users \cup {0}, CreateState(u)
    PROVE  AccountInv'
<1> DEFINE s == Secret("state", u, None)
<1>1. /\ AtOnce({}) /\ Issue(s, {})
      /\ UNCHANGED <<acct, sessions, identities, pendingReg, change, pendingTotp, consumed>>
  BY DEF CreateState
<1>2. TypeInv /\ SecretInv /\ s \in SecretRows /\ s.id = issued + 1
  BY <1>1, SecretIsRow DEF AccountInv, Issue, Kinds
<1> HIDE DEF s
<1>3. /\ flight' \in [Requests -> Flights] /\ late' \subseteq Requests /\ restarts' = restarts
      /\ Steady
  BY <1>1, <1>2, AtOnceMoves DEF Moved, Steady
<1>4. TypeInv'
  BY <1>1, <1>2, <1>3, IssueTyped DEF TypeInv
<1>5. SecretInv'
  BY <1>1, <1>2, <1>3, IssueKeepsSecrets
<1> QED
  BY <1>1, <1>3, <1>4, <1>5, SecretStep

\* A state is not taken out of anything when it is used: what stops its second use is the
\* list of those that were seen, until a restart.
LEMMA CallbackKeepsInv ==
    ASSUME AccountInv, NEW r \in Requests, NEW s \in secrets,
           NEW x \in Externals, NEW e \in Emails \cup {None},
           Callback(r, s, [id |-> x, email |-> e])
    PROVE  AccountInv'
<1> DEFINE o == IF s.user = 0 THEN "oauth" ELSE "link"
           f == [Request(o, s.user, e) EXCEPT !.ext = x]
<1>1. /\ TypeInv /\ SecretInv
      /\ s \in SecretRows /\ s.id \in 1..MaxIssued /\ s.user \in Users \cup {0}
      /\ s.kind = "state" /\ s.kind \in Kinds
  BY DEF AccountInv, TypeInv, SecretRows, Callback, VerifyState
<1>2. f = [op |-> o, user |-> s.user, email |-> e, ext |-> x, code |-> 0]
  BY RequestFields
<1>3. f \in Flights /\ f.op \notin PromiseOps
  BY <1>1, <1>2, AccountAssumption DEF Flights, Ops, AnonOps, EmailOps, ExternalOps, PromiseOps, Users
<1>4. /\ s.id \notin consumed /\ consumed' = consumed \cup {s.id}
      /\ Used(s) /\ Begin(r, f)
      /\ UNCHANGED <<acct, sessions, identities, secrets, issued, pendingReg, change, pendingTotp>>
  BY DEF Callback, VerifyState
<1> HIDE DEF f
<1>5. Moved(r) /\ Promises(r)' /\ restarts' = restarts
  BY <1>1, <1>3, <1>4, BeginMoves, NothingPromised DEF Moved
<1>6. Steady
  BY <1>5, MovedIsSteady
<1>7. /\ uses' \in [1..MaxIssued -> Uses]
      /\ uses'[s.id] = [times |-> uses[s.id].times + 1, kind |-> s.kind, user |-> s.user]
      /\ \A n \in 1..MaxIssued : n # s.id => uses'[n] = uses[n]
      /\ uses[s.id].times \in Nat
  BY <1>1, <1>4, UsedTyped
<1>8. uses'[s.id].times = uses[s.id].times + 1 /\ uses'[s.id].kind = "state"
  BY <1>1, <1>7
<1>9. TypeInv'
  BY <1>1, <1>4, <1>5, <1>7 DEF TypeInv, Moved
<1>10. OneTimeSecrets'
  <2>1. uses[s.id].times > 0 => restarts > 0
    BY <1>1, <1>4 DEF SecretInv
  <2>2. ASSUME NEW n \in 1..MaxIssued, uses'[n].times > 1
        PROVE  \/ uses'[n].kind = "reset" /\ uses'[n].user \in raced'
               \/ uses'[n].kind = "state" /\ restarts' > 0
    <3>1. CASE n = s.id
      <4>1. uses[s.id].times > 0
        BY <1>7, <1>8, <2>2, <3>1
      <4> QED
        BY <1>5, <1>8, <2>1, <3>1, <4>1
    <3>2. CASE n # s.id
      BY <1>1, <1>5, <1>6, <1>7, <2>2, <3>2 DEF SecretInv, OneTimeSecrets, Steady
    <3> QED
      BY <3>1, <3>2
  <2> QED
    BY <2>2 DEF OneTimeSecrets
<1>11. ASSUME NEW q \in Requests PROVE LinkIsGood(q)'
  <2>1. CASE Promises(q)'
    BY <2>1 DEF Promises
  <2>2. CASE Still(q) /\ flight[q].op = "reset"
    <3>1. LinkIsGood(q)
      BY <1>1 DEF SecretInv
    <3>2. flight[q].code # s.id /\ flight[q].code \in 1..issued
      BY <1>1, <2>2, <3>1 DEF LinkIsGood
    <3>3. flight[q].code \in 1..MaxIssued
      BY <1>1, <3>2, AccountAssumption DEF TypeInv
    <3>4. uses'[flight[q].code] = uses[flight[q].code]
      BY <1>7, <3>2, <3>3
    <3> QED
      BY <1>1, <1>4, <1>6, <2>2, <3>1, <3>2, <3>4, LinkFrame DEF LinkIsGood, Still
  <2>3. CASE Still(q) /\ flight[q].op # "reset"
    BY <2>3 DEF LinkIsGood, Still
  <2> QED
    BY <1>6, <2>1, <2>2, <2>3 DEF Steady
<1>12. /\ \A t \in secrets' : t.id <= issued'
       /\ \A t, v \in secrets' : t.id = v.id => t = v
  BY <1>1, <1>4 DEF SecretInv
<1>13. ASSUME NEW n \in 1..MaxIssued, n > issued'
       PROVE  uses'[n].times = 0
  <2>1. s.id <= issued /\ issued' = issued /\ issued \in Nat
    BY <1>1, <1>4 DEF SecretInv, TypeInv
  <2>2. n # s.id /\ n > issued
    BY <1>1, <1>13, <2>1
  <2> QED
    BY <1>1, <1>7, <2>2 DEF SecretInv
<1>14. ASSUME NEW t \in secrets', uses'[t.id].times > 0
       PROVE  t.kind = "state" /\ uses'[t.id].kind = "state" /\ (t.id \in consumed' \/ restarts' > 0)
  <2>1. t \in secrets /\ t.id \in 1..MaxIssued
    BY <1>1, <1>4 DEF TypeInv, SecretRows
  <2>2. CASE t.id = s.id
    BY <1>1, <1>4, <1>8, <2>1, <2>2 DEF SecretInv
  <2>3. CASE t.id # s.id
    BY <1>1, <1>4, <1>5, <1>7, <1>14, <2>1, <2>3 DEF SecretInv
  <2> QED
    BY <2>2, <2>3
<1>15. SecretInv'
  BY <1>10, <1>11, <1>12, <1>13, <1>14 DEF SecretInv
<1> QED
  BY <1>4, <1>6, <1>9, <1>15, SecretStep

\* What an identity's removal leaves as it was: those who are live keep theirs.
LEMMA StaleIdentityGoes ==
    ASSUME AccountInv, NEW r \in Requests, NEW f \in Flights, NEW x, NEW u \in Users, ~Live(u),
           Continue(r, f), identities' = identities \ {<<x, u>>},
           f.op \in PromiseOps => Promises(r)',
           UNCHANGED <<acct, sessions, secrets, issued, pendingReg, change, pendingTotp, uses,
                       consumed>>
    PROVE  AccountInv'
<1>1. Moved(r) /\ Promises(r)'
  BY ContinueMoves, NothingPromised DEF AccountInv
<1>2. TypeInv'
  BY <1>1 DEF AccountInv, TypeInv, Moved
<1>3. Steady /\ SecretsKept
  BY <1>1, MovedIsSteady DEF SecretsKept, Moved
<1>4. AddressesKept /\ AccountsKept /\ WaysInKept
  BY DEF AddressesKept, AccountsKept, WaysInKept, Live
<1> QED
  BY <1>2, <1>3, <1>4, AddressFrame, IdentityFrame, SessionFrame, SecretFrame, WayInFrame
     DEF AccountInv

\* The fields of a request that goes on as another user's, or as its own.
LEMMA GoesOnAs ==
    ASSUME NEW f \in Flights, NEW o \in Ops, f.op \in ExternalOps, o \in ExternalOps \cup {"oauthSession"},
           NEW u, IF o \in AnonOps THEN u = 0 ELSE u \in Users
    PROVE  /\ [f EXCEPT !.op = o, !.user = u] \in Flights
           /\ [f EXCEPT !.op = o, !.user = u] =
                  [op |-> o, user |-> u, email |-> f.email, ext |-> f.ext, code |-> f.code]
<1> DEFINE g == [op |-> o, user |-> u, email |-> f.email, ext |-> f.ext, code |-> f.code]
<1>1. [f EXCEPT !.op = o] =
          [op |-> o, user |-> f.user, email |-> f.email, ext |-> f.ext, code |-> f.code]
  BY DEF Flights
<1>2. [[op |-> o, user |-> f.user, email |-> f.email, ext |-> f.ext, code |-> f.code]
          EXCEPT !.user = u] = g
  OBVIOUS
<1>3. [f EXCEPT !.op = o, !.user = u] = [[f EXCEPT !.op = o] EXCEPT !.user = u]
  OBVIOUS
<1>4. g \in Flights
  <2>1. f.email \in Emails \cup {None} /\ f.ext \in Externals /\ f.code \in Nat
    BY DEF Flights
  <2>2. u \in Users \cup {0} /\ o \notin EmailOps
    BY DEF AnonOps, EmailOps, ExternalOps
  <2> QED
    BY <2>1, <2>2 DEF Flights
<1> QED
  BY <1>1, <1>2, <1>3, <1>4

LEMMA GoesOnAsBefore ==
    ASSUME NEW f \in Flights, NEW o \in Ops, f.op \in ExternalOps, o \in ExternalOps \cup {"oauthSession"},
           IF o \in AnonOps THEN f.user = 0 ELSE f.user \in Users
    PROVE  /\ [f EXCEPT !.op = o] \in Flights
           /\ [f EXCEPT !.op = o] =
                  [op |-> o, user |-> f.user, email |-> f.email, ext |-> f.ext, code |-> f.code]
<1>1. [f EXCEPT !.op = o] =
          [op |-> o, user |-> f.user, email |-> f.email, ext |-> f.ext, code |-> f.code]
  BY DEF Flights
<1>2. /\ [f EXCEPT !.op = o, !.user = f.user] \in Flights
      /\ [f EXCEPT !.op = o, !.user = f.user] =
             [op |-> o, user |-> f.user, email |-> f.email, ext |-> f.ext, code |-> f.code]
  BY GoesOnAs
<1> QED
  BY <1>1, <1>2, Zenon

LEMMA GoesOnAsUser ==
    ASSUME NEW f \in Flights, f.op \in ExternalOps, NEW o \in {"oauthSession", "autoLink"},
           NEW u \in Users
    PROVE  /\ [f EXCEPT !.op = o, !.user = u] \in Flights
           /\ [f EXCEPT !.op = o, !.user = u] =
                  [op |-> o, user |-> u, email |-> f.email, ext |-> f.ext, code |-> f.code]
<1>1. o \in Ops /\ o \in ExternalOps \cup {"oauthSession"} /\ o \notin AnonOps
  BY DEF Ops, AnonOps, ExternalOps
<1> QED
  BY <1>1, GoesOnAs

\* Of an identity that is looked up: it signs its user in, or nobody has it, or it goes.
LEMMA FindByIdentityKeepsInv ==
    ASSUME AccountInv, NEW r \in Requests, FindByIdentity(r)
    PROVE  AccountInv'
<1> DEFINE f == flight[r]
           g == [f EXCEPT !.op = "byEmail"]
<1>1. f \in Flights /\ f.op = "oauth" /\ f.user = 0 /\ f.ext \in Externals
  BY DEF AccountInv, TypeInv, FindByIdentity, Flights, AnonOps, ExternalOps
<1>2. PICK x \in Externals : x = f.ext
  BY <1>1
<1>3. g \in Flights /\ g = [op |-> "byEmail", user |-> 0, email |-> f.email, ext |-> f.ext,
                            code |-> f.code]
  BY <1>1, GoesOnAsBefore DEF Ops, AnonOps, ExternalOps
<1>4. UNCHANGED <<acct, sessions, secrets, issued, pendingReg, change, pendingTotp, uses, consumed>>
  BY DEF FindByIdentity
<1>5. ASSUME Continue(r, g), Owners(x)' = {} \/ Excused(r, x)
      PROVE  Promises(r)'
  <2>1. flight'[r] = g /\ UNCHANGED <<late, raced>>
    BY <1>3, <1>5, ContinueMoves DEF AccountInv
  <2>2. ExternalIsFree(r)'
    BY <1>2, <1>3, <1>5, <2>1 DEF ExternalIsFree, Excused
  <2> QED
    BY <1>3, <2>1, <2>2 DEF Promises, AddressIsFree, PasswordIsEnough, UserIsThere, LinkIsGood
<1>6. CASE Owners(x) = {} /\ Continue(r, g) /\ UNCHANGED identities
  <2>1. Promises(r)'
    BY <1>5, <1>6 DEF Owners
  <2> QED
    BY <1>3, <1>4, <1>6, <2>1, ReadStep DEF docVars
<1>7. ASSUME NEW u \in Owners(x), Live(u),
             Continue(r, [f EXCEPT !.op = "oauthSession", !.user = u]), UNCHANGED identities
      PROVE  AccountInv'
  <2> DEFINE h == [f EXCEPT !.op = "oauthSession", !.user = u]
  <2>1. u \in Users
    BY DEF Owners
  <2>2. h \in Flights /\ h = [op |-> "oauthSession", user |-> u, email |-> f.email, ext |-> f.ext,
                              code |-> f.code]
    BY <1>1, <2>1, GoesOnAsUser DEF ExternalOps
  <2> HIDE DEF h
  <2>3. flight'[r] = h
    BY <1>7, <2>2, ContinueMoves DEF AccountInv, h
  <2>4. Promises(r)'
    BY <1>4, <1>7, <2>2, <2>3
       DEF Promises, AddressIsFree, ExternalIsFree, PasswordIsEnough, UserIsThere, LinkIsGood, Live
  <2> QED
    BY <1>4, <1>7, <2>2, <2>4, ReadStep DEF docVars, h
<1>8. ASSUME NEW u \in Owners(x), ~Live(u), Continue(r, g),
             identities' = identities \ {<<x, u>>}
      PROVE  AccountInv'
  <2>1. u \in Users /\ <<x, u>> \in identities
    BY DEF Owners
  <2>2. Owners(x)' = {} \/ Excused(r, x)
    <3>1. ASSUME NEW v \in Users, <<x, v>> \in identities' PROVE x \in raced
      <4>1. v # u /\ <<x, v>> \in identities
        BY <1>8, <3>1
      <4> QED
        BY <2>1, <4>1 DEF AccountInv, IdentityInv
    <3> QED
      BY <3>1 DEF Owners, Excused
  <2> QED
    BY <1>3, <1>4, <1>5, <1>8, <2>1, <2>2, StaleIdentityGoes
<1> QED
  BY <1>2, <1>6, <1>7, <1>8 DEF FindByIdentity

\* Of an address that is looked up: its user is there, or nobody has it.
LEMMA FindByEmailKeepsInv ==
    ASSUME AccountInv, NEW r \in Requests, FindByEmail(r)
    PROVE  AccountInv'
<1> DEFINE f == flight[r]
<1>1. f \in Flights /\ f.op = "byEmail" /\ f.user = 0 /\ f.ext \in Externals
  BY DEF AccountInv, TypeInv, FindByEmail, Flights, AnonOps, ExternalOps
<1>2. UNCHANGED <<docVars, consumed>>
  BY DEF FindByEmail
<1>3. ASSUME f.email # None, LiveWith(f.email) # {},
             Continue(r, [f EXCEPT !.op = "autoLink", !.user = Least(LiveWith(f.email))])
      PROVE  AccountInv'
  <2>1. PICK u \in Users : u = Least(LiveWith(f.email)) /\ Live(u)
    <3>1. Least(LiveWith(f.email)) \in LiveWith(f.email)
      BY <1>3, LeastUser DEF LiveWith
    <3> QED
      BY <3>1 DEF LiveWith
  <2> DEFINE h == [f EXCEPT !.op = "autoLink", !.user = u]
  <2>2. h \in Flights /\ h = [op |-> "autoLink", user |-> u, email |-> f.email, ext |-> f.ext,
                              code |-> f.code]
    BY <1>1, <2>1, GoesOnAsUser DEF ExternalOps
  <2>3. Continue(r, h)
    BY <1>3, <2>1
  <2> HIDE DEF h
  <2>4. flight'[r] = h
    BY <2>2, <2>3, ContinueMoves DEF AccountInv
  <2>5. Promises(r)'
    BY <1>2, <2>1, <2>2, <2>4
       DEF Promises, AddressIsFree, ExternalIsFree, PasswordIsEnough, UserIsThere, LinkIsGood, Live,
           docVars
  <2> QED
    BY <1>2, <2>2, <2>3, <2>5, ReadStep
<1>4. ASSUME ~(f.email # None /\ LiveWith(f.email) # {}),
             Continue(r, [f EXCEPT !.op = "oauthCreate"])
      PROVE  AccountInv'
  <2> DEFINE h == [f EXCEPT !.op = "oauthCreate"]
  <2>1. h \in Flights /\ h = [op |-> "oauthCreate", user |-> 0, email |-> f.email, ext |-> f.ext,
                              code |-> f.code]
    BY <1>1, GoesOnAsBefore DEF Ops, AnonOps, ExternalOps
  <2> HIDE DEF h
  <2>2. flight'[r] = h /\ UNCHANGED <<late, raced>>
    BY <1>4, <2>1, ContinueMoves DEF AccountInv, h
  <2>3. AddressIsFree(r)'
    BY <1>2, <1>4, <2>1, <2>2 DEF AddressIsFree, LiveWith, Live, HasAddress, docVars
  <2>4. ExternalIsFree(r)'
    <3>1. ExternalIsFree(r)
      BY DEF AccountInv, IdentityInv
    <3> QED
      BY <1>1, <1>2, <2>1, <2>2, <3>1 DEF ExternalIsFree, Excused, Owners, docVars
  <2>5. Promises(r)'
    BY <2>1, <2>2, <2>3, <2>4 DEF Promises, PasswordIsEnough, UserIsThere, LinkIsGood
  <2> QED
    BY <1>2, <1>4, <2>1, <2>5, ReadStep DEF h
<1> QED
  BY <1>3, <1>4 DEF FindByEmail

\* An identity is given to a user: requests about the account are late, and whoever else
\* has it raced.
LEMMA IdentityTaken ==
    ASSUME AccountInv, Steady, NEW u \in Users, NEW x \in Externals, NEW S, x \in S, Told(S),
           identities' = identities \cup {<<x, u>>},
           Owners(x) = {} \/ x \in raced'
    PROVE  IdentityInv'
<1>1. ASSUME NEW v \in Users, NEW w \in Users, NEW y \in Externals, v # w,
             <<y, v>> \in identities', <<y, w>> \in identities'
      PROVE  y \in raced'
  <2>1. CASE y = x
    BY <1>1, <2>1 DEF Owners
  <2>2. CASE y # x
    BY <1>1, <2>2 DEF AccountInv, IdentityInv, Steady
  <2> QED
    BY <2>1, <2>2
<1>2. ASSUME NEW q \in Requests PROVE ExternalIsFree(q)'
  <2>1. CASE Promises(q)'
    BY <2>1 DEF Promises
  <2>2. CASE ~Promises(q)' /\ flight[q].ext = x
    <3>1. q \in late'
      BY <2>2, OthersAreLate, AccountAssumption DEF About
    <3> QED
      BY <3>1 DEF ExternalIsFree, Excused
  <2>3. CASE ~Promises(q)' /\ flight[q].ext # x
    <3>1. Still(q) /\ ExternalIsFree(q)
      BY <2>3 DEF Steady, AccountInv, IdentityInv
    <3>2. Owners(flight[q].ext)' = Owners(flight'[q].ext)
      BY <2>3, <3>1 DEF Owners, Still
    <3> QED
      BY <2>3, <3>1, <3>2, ExcuseStays DEF ExternalIsFree, Still, Excused, Owners
  <2> QED
    BY <2>1, <2>2, <2>3
<1> QED
  BY <1>1, <1>2 DEF IdentityInv

\* The row of a user who comes without a password.
LEMMA FreshAccount ==
    ASSUME NEW e
    PROVE  [Free EXCEPT !.state = "live", !.email = e] =
               [state |-> "live", email |-> e, password |-> FALSE, totp |-> FALSE]
<1> DEFINE row(x, y, b) == [state |-> x, email |-> y, password |-> b, totp |-> b]
<1>1. PICK b : b = FALSE
  OBVIOUS
<1>2. [row("free", None, b) EXCEPT !.state = "live"] = row("live", None, b)
  OBVIOUS
<1>3. [row("live", None, b) EXCEPT !.email = e] = row("live", e, b)
  OBVIOUS
<1>4. [row("free", None, b) EXCEPT !.state = "live", !.email = e] = row("live", e, b)
  BY <1>2, <1>3
<1>5. Free = row("free", None, b)
  BY <1>1, Zenon DEF Free
<1>6. [Free EXCEPT !.state = "live", !.email = e] = row("live", e, b)
  BY <1>4, <1>5, Zenon
<1> QED
  BY <1>1, <1>6, Zenon

\* The user and the identity of a first sign-in: the address and the account elsewhere were
\* looked at before, the request is late, or they are raced.
LEMMA CreateUserFromOAuthKeepsInv ==
    ASSUME AccountInv, NEW r \in Requests, CreateUserFromOAuth(r)
    PROVE  AccountInv'
<1>1. flight[r] \in Flights /\ flight[r].op = "oauthCreate" /\ flight[r].user = 0
  BY DEF AccountInv, TypeInv, CreateUserFromOAuth, Flights, AnonOps
<1>2. PICK e \in Emails \cup {None}, x \in Externals : e = flight[r].email /\ x = flight[r].ext
  BY <1>1 DEF Flights, ExternalOps
<1>3. PICK u \in Users :
          /\ acct[u].state = "free"
          /\ acct' = [acct EXCEPT ![u] = [Free EXCEPT !.state = "live", !.email = e]]
          /\ identities' = identities \cup {<<x, u>>}
          /\ flight' = [flight EXCEPT ![r] = [flight[r] EXCEPT !.op = "oauthSession", !.user = u]]
  <2> DEFINE unused == {v \in Users : acct[v].state = "free"}
  <2>1. Least(unused) \in unused
    BY LeastUser DEF CreateUserFromOAuth
  <2> QED
    BY <1>2, <2>1 DEF CreateUserFromOAuth
<1> DEFINE h == [flight[r] EXCEPT !.op = "oauthSession", !.user = u]
           S == {e, x}
<1>4. /\ late' = late \cup {q \in Requests \ {r} : About(flight[q]) \cap S # {}}
      /\ raced' = raced \cup (IF r \in late THEN S ELSE {})
      /\ UNCHANGED <<sessions, secrets, issued, pendingReg, change, pendingTotp, uses, consumed,
                     restarts>>
  BY <1>2 DEF CreateUserFromOAuth
<1>5. h \in Flights /\ h = [op |-> "oauthSession", user |-> u, email |-> e, ext |-> x,
                            code |-> flight[r].code]
  BY <1>1, <1>2, GoesOnAsUser DEF ExternalOps
<1>6. flight' = [flight EXCEPT ![r] = h]
  BY <1>3
<1> HIDE DEF h
<1>7. /\ acct'[u] = [state |-> "live", email |-> e, password |-> FALSE, totp |-> FALSE]
      /\ \A v \in Users \ {u} : acct'[v] = acct[v]
      /\ acct' \in [Users -> Accts]
  <2>1. [Free EXCEPT !.state = "live", !.email = e] =
            [state |-> "live", email |-> e, password |-> FALSE, totp |-> FALSE]
    BY FreshAccount
  <2> DEFINE a == [state |-> "live", email |-> e, password |-> FALSE, totp |-> FALSE]
  <2>2. a \in Accts
    BY DEF Accts
  <2>3. acct' = [acct EXCEPT ![u] = a]
    BY <1>3, <2>1, Zenon
  <2> HIDE DEF a
  <2>4. acct'[u] = a /\ (\A v \in Users \ {u} : acct'[v] = acct[v]) /\ acct' \in [Users -> Accts]
    BY <2>2, <2>3 DEF AccountInv, TypeInv
  <2> QED
    BY <2>4 DEF a
<1>8. Moved(r) /\ flight'[r] = h /\ (r \in late => S \subseteq raced')
  BY <1>4, <1>5, <1>6 DEF AccountInv, TypeInv, Moved, Still
<1>9. Promises(r)'
  <2>1. UserIsThere(r)'
    BY <1>5, <1>7, <1>8 DEF UserIsThere
  <2> QED
    BY <1>5, <1>8, <2>1 DEF Promises, AddressIsFree, ExternalIsFree, PasswordIsEnough, LinkIsGood
<1>10. Steady /\ Told(S)
  BY <1>4, <1>8, <1>9, MovedIsSteady DEF Told
<1>11. TypeInv'
  BY <1>3, <1>4, <1>7, <1>8 DEF AccountInv, TypeInv, Moved
<1>12. AddressInv'
  <2>1. e # None => LiveWith(e) \subseteq {u} \/ e \in raced'
    <3>1. AddressIsFree(r) /\ 0 \notin Users
      BY AccountAssumption DEF AccountInv, AddressInv, Users
    <3>2. e # None => LiveWith(e) \subseteq {0} \/ Excused(r, e)
      BY <1>1, <1>2, <3>1 DEF AddressIsFree
    <3>3. LiveWith(e) \subseteq Users
      BY DEF LiveWith
    <3> QED
      BY <1>8, <3>1, <3>2, <3>3 DEF Excused, Moved
  <2>2. acct'[u].email = e /\ (e # None => e \in S) /\ \A v \in Users \ {u} : acct'[v] = acct[v]
    BY <1>7
  <2> QED
    BY <1>10, <2>1, <2>2, AddressTaken
<1>13. IdentityInv'
  <2>1. ExternalIsFree(r)
    BY DEF AccountInv, IdentityInv
  <2>2. Owners(x) = {} \/ x \in raced'
    BY <1>1, <1>2, <1>8, <2>1 DEF ExternalIsFree, Excused, Moved
  <2> QED
    BY <1>3, <1>10, <2>2, IdentityTaken
<1>14. SessionInv'
  <2>1. AccountsKept
    BY <1>7 DEF AccountsKept
  <2> QED
    BY <1>4, <1>10, <2>1, SessionFrame DEF AccountInv
<1>15. NobodyLockedOut'
  BY <1>3, <1>7, <1>10 DEF AccountInv, NobodyLockedOut, Live, Steady
<1>16. SecretsKept
  BY <1>4 DEF SecretsKept
<1> QED
  BY <1>10, <1>11, <1>12, <1>13, <1>14, <1>15, <1>16, SecretFrame DEF AccountInv

\* Of an account elsewhere that is to be linked: it is nobody's, or that of somebody who is
\* not there any more, and then it goes.
LEMMA LinkLookUpKeepsInv ==
    ASSUME AccountInv, NEW r \in Requests, LinkLookUp(r)
    PROVE  AccountInv'
<1> DEFINE f == flight[r]
           o == IF f.op = "link" THEN "linkInsert" ELSE "autoLinkInsert"
           g == [f EXCEPT !.op = o]
<1>1. f \in Flights /\ f.op \in {"link", "autoLink"}
  BY DEF AccountInv, TypeInv, LinkLookUp
<1>2. f.user \in Users
  BY <1>1, UserOfFlight DEF AnonOps, AccountInv
<1>3. PICK x \in Externals : x = f.ext
  BY <1>1 DEF Flights, ExternalOps
<1>4. g \in Flights /\ g = [op |-> o, user |-> f.user, email |-> f.email, ext |-> x, code |-> f.code]
  BY <1>1, <1>2, <1>3, GoesOnAsBefore DEF Ops, AnonOps, ExternalOps
<1>5. UNCHANGED <<acct, sessions, secrets, issued, pendingReg, change, pendingTotp, uses, consumed>>
  BY DEF LinkLookUp
<1>6. f.op = "autoLink" => acct[f.user].state # "deleted" \/ Excused(r, f.user)
  BY DEF AccountInv, SessionInv, UserIsThere
<1>7. ASSUME Continue(r, g), Owners(x)' = {} \/ Excused(r, x)
      PROVE  Promises(r)'
  <2>1. flight'[r] = g /\ UNCHANGED <<late, raced>>
    BY <1>4, <1>7, ContinueMoves DEF AccountInv
  <2>2. ExternalIsFree(r)'
    BY <1>4, <1>7, <2>1 DEF ExternalIsFree, Excused
  <2>3. UserIsThere(r)'
    BY <1>1, <1>4, <1>5, <1>6, <2>1 DEF UserIsThere, Excused
  <2> QED
    BY <1>4, <2>1, <2>2, <2>3 DEF Promises, AddressIsFree, PasswordIsEnough, LinkIsGood
<1>8. CASE Owners(x) = {} /\ Continue(r, g) /\ UNCHANGED identities
  <2>1. Promises(r)'
    BY <1>7, <1>8 DEF Owners
  <2> QED
    BY <1>4, <1>5, <1>8, <2>1, ReadStep DEF docVars
<1>9. ASSUME NEW u \in Owners(x), ~Live(u), Continue(r, g),
             identities' = identities \ {<<x, u>>}
      PROVE  AccountInv'
  <2>1. u \in Users /\ <<x, u>> \in identities
    BY DEF Owners
  <2>2. Owners(x)' = {} \/ Excused(r, x)
    <3>1. ASSUME NEW v \in Users, <<x, v>> \in identities' PROVE x \in raced
      <4>1. v # u /\ <<x, v>> \in identities
        BY <1>9, <3>1
      <4> QED
        BY <2>1, <4>1 DEF AccountInv, IdentityInv
    <3> QED
      BY <3>1 DEF Owners, Excused
  <2> QED
    BY <1>4, <1>5, <1>7, <1>9, <2>1, <2>2, StaleIdentityGoes
<1>10. ASSUME f.op = "autoLink", Continue(r, [f EXCEPT !.op = "oauthSession"]), UNCHANGED identities
       PROVE  AccountInv'
  <2> DEFINE h == [f EXCEPT !.op = "oauthSession"]
  <2>1. h \in Flights /\ h = [op |-> "oauthSession", user |-> f.user, email |-> f.email,
                              ext |-> f.ext, code |-> f.code]
    BY <1>1, <1>2, GoesOnAsBefore DEF Ops, AnonOps, ExternalOps
  <2> HIDE DEF h
  <2>2. flight'[r] = h /\ UNCHANGED <<late, raced>>
    BY <1>10, <2>1, ContinueMoves DEF AccountInv, h
  <2>3. UserIsThere(r)'
    BY <1>5, <1>6, <1>10, <2>1, <2>2 DEF UserIsThere, Excused
  <2>4. Promises(r)'
    BY <2>1, <2>2, <2>3 DEF Promises, AddressIsFree, ExternalIsFree, PasswordIsEnough, LinkIsGood
  <2> QED
    BY <1>5, <1>10, <2>1, <2>4, ReadStep DEF docVars, h
<1>11. CASE Finish(r, {}) /\ UNCHANGED identities
  BY <1>5, <1>11, RowStep DEF AccountInv, TypeInv
<1> QED
  BY <1>3, <1>8, <1>9, <1>10, <1>11 DEF LinkLookUp

LEMMA InsertIdentityKeepsInv ==
    ASSUME AccountInv, NEW r \in Requests, InsertIdentity(r)
    PROVE  AccountInv'
<1> DEFINE f == flight[r]
           h == IF f.op = "linkInsert" THEN NoRequest ELSE [f EXCEPT !.op = "oauthSession"]
<1>1. f \in Flights /\ f.op \in {"linkInsert", "autoLinkInsert"}
  BY DEF AccountInv, TypeInv, InsertIdentity
<1>2. PICK u \in Users : u = f.user
  BY <1>1, UserOfFlight DEF AnonOps, AccountInv
<1>3. PICK x \in Externals : x = f.ext
  BY <1>1 DEF Flights, ExternalOps
<1>4. /\ h \in Flights
      /\ h.op \in {"none", "oauthSession"}
      /\ h.op = "oauthSession" => h.user = u /\ f.op = "autoLinkInsert"
  <2>1. CASE f.op = "linkInsert"
    BY <2>1, NoRequestTyped
  <2>2. CASE f.op = "autoLinkInsert"
    <3> DEFINE g == [f EXCEPT !.op = "oauthSession"]
    <3>1. g \in Flights /\ g = [op |-> "oauthSession", user |-> f.user, email |-> f.email,
                                ext |-> f.ext, code |-> f.code]
      BY <1>1, <1>2, GoesOnAsBefore DEF Ops, AnonOps, ExternalOps
    <3>2. h = g
      BY <2>2
    <3> QED
      BY <1>2, <2>2, <3>1, <3>2
  <2> QED
    BY <1>1, <2>1, <2>2
<1>5. /\ identities' = identities \cup {<<x, u>>}
      /\ flight' = [flight EXCEPT ![r] = h]
      /\ late' = late \cup {q \in Requests \ {r} : About(flight[q]) \cap {x} # {}}
      /\ raced' = raced \cup (IF r \in late THEN {x} ELSE {})
      /\ UNCHANGED <<acct, sessions, secrets, issued, pendingReg, change, pendingTotp, uses,
                     consumed, restarts>>
  BY <1>2, <1>3 DEF InsertIdentity
<1> HIDE DEF h
<1>6. Moved(r) /\ flight'[r] = h /\ (r \in late => x \in raced' /\ r \in late')
  BY <1>4, <1>5 DEF AccountInv, TypeInv, Moved, Still
<1>7. Promises(r)'
  <2>1. UserIsThere(r)
    BY DEF AccountInv, SessionInv
  <2>2. UserIsThere(r)'
    BY <1>2, <1>4, <1>5, <1>6, <2>1 DEF UserIsThere, Excused, Moved
  <2> QED
    BY <1>4, <1>6, <2>2 DEF Promises, AddressIsFree, ExternalIsFree, PasswordIsEnough, LinkIsGood
<1>8. Steady /\ Told({x})
  BY <1>5, <1>6, <1>7, MovedIsSteady DEF Told
<1>9. TypeInv'
  BY <1>5, <1>6 DEF AccountInv, TypeInv, Moved
<1>10. IdentityInv'
  <2>1. ExternalIsFree(r)
    BY DEF AccountInv, IdentityInv
  <2>2. (Owners(x) = {} \/ x \in raced') /\ x \in {x}
    BY <1>1, <1>3, <1>6, <2>1 DEF ExternalIsFree, Excused, Moved
  <2> QED
    BY <1>5, <1>8, <2>2, IdentityTaken
<1>11. AddressesKept /\ AccountsKept /\ WaysInKept /\ SecretsKept
  BY <1>5 DEF AddressesKept, AccountsKept, WaysInKept, SecretsKept, Live
<1> QED
  BY <1>5, <1>8, <1>9, <1>10, <1>11, AddressFrame, SessionFrame, SecretFrame, WayInFrame
     DEF AccountInv

LEMMA OAuthReadUserKeepsInv ==
    ASSUME AccountInv, NEW r \in Requests, OAuthReadUser(r)
    PROVE  AccountInv'
<1> DEFINE f == flight[r]
           o == IF acct[f.user].totp THEN "login2fa" ELSE "login"
           h == [f EXCEPT !.op = o]
<1>1. f \in Flights /\ f.op = "oauthSession" /\ f.user \in Users
  BY UserOfFlight DEF AccountInv, TypeInv, OAuthReadUser, AnonOps
<1>2. h = [op |-> o, user |-> f.user, email |-> f.email, ext |-> f.ext, code |-> f.code]
  BY <1>1 DEF Flights
<1>3. h \in Flights
  BY <1>1, <1>2 DEF Flights, Ops, AnonOps, EmailOps, ExternalOps
<1>4. Continue(r, h) /\ UNCHANGED <<docVars, consumed>>
  BY DEF OAuthReadUser
<1> HIDE DEF h
<1>5. flight'[r] = h /\ UNCHANGED <<late, raced>> /\ acct' = acct
  BY <1>3, <1>4, ContinueMoves DEF AccountInv, docVars
<1>6. acct[f.user].state # "deleted" \/ Excused(r, f.user)
  BY <1>1 DEF AccountInv, SessionInv, UserIsThere
<1>7. UserIsThere(r)' /\ PasswordIsEnough(r)'
  BY <1>2, <1>5, <1>6 DEF UserIsThere, PasswordIsEnough, Excused
<1>8. Promises(r)'
  BY <1>2, <1>5, <1>7 DEF Promises, AddressIsFree, ExternalIsFree, LinkIsGood
<1> QED
  BY <1>3, <1>4, <1>8, ReadStep

\* What is left is counted in the update that unlinks.
LEMMA UnlinkIdentityKeepsInv ==
    ASSUME AccountInv, NEW u \in Users, NEW x \in Externals, UnlinkIdentity(u, x)
    PROVE  AccountInv'
<1>1. /\ AtOnce({x, u})
      /\ acct[u].password \/ \E y \in Externals \ {x} : <<y, u>> \in identities
      /\ identities' = identities \ {<<x, u>>}
      /\ UNCHANGED <<acct, sessions, secrets, issued, pendingReg, change, pendingTotp, uses, consumed>>
  BY DEF UnlinkIdentity
<1>2. /\ flight' \in [Requests -> Flights] /\ late' \subseteq Requests /\ restarts' = restarts
      /\ Steady
  BY <1>1, AtOnceMoves DEF Moved, Steady, AccountInv, TypeInv
<1>3. TypeInv'
  BY <1>1, <1>2 DEF AccountInv, TypeInv
<1>4. ASSUME NEW v \in Users, Live(v)'
      PROVE  \/ acct'[v].password
             \/ \E y \in Externals : <<y, v>> \in identities'
             \/ v \in raced'
  <2>1. Live(v)
    BY <1>1, <1>4 DEF Live
  <2>2. CASE v = u
    BY <1>1, <2>2
  <2>3. CASE v # u
    BY <1>1, <1>2, <2>1, <2>3 DEF AccountInv, NobodyLockedOut, Steady
  <2> QED
    BY <2>2, <2>3
<1>5. AddressesKept /\ AccountsKept /\ SecretsKept
  BY <1>1, <1>2 DEF AddressesKept, AccountsKept, SecretsKept, Live
<1> QED
  BY <1>1, <1>2, <1>3, <1>4, <1>5, AddressFrame, IdentityFrame, SessionFrame, SecretFrame
     DEF AccountInv, NobodyLockedOut

-----------------------------------------------------------------------------
(* Expiry and restarts.                                                     *)

LEMMA ExpireKeepsInv ==
    ASSUME AccountInv, Expire
    PROVE  AccountInv'
<1>1. /\ secrets' \subseteq secrets /\ sessions' \subseteq sessions /\ pendingTotp' \subseteq pendingTotp
      /\ pendingReg' \in [Emails -> Nat]
      /\ UNCHANGED <<acct, identities, issued, change, uses, consumed, flight, late, raced, restarts>>
  BY DEF Expire, AccountInv, TypeInv, ghostVars
<1>2. TypeInv'
  BY <1>1 DEF AccountInv, TypeInv
<1>3. Steady /\ SecretsKept
  BY <1>1 DEF Steady, Still, SecretsKept
<1> QED
  BY <1>1, <1>2, <1>3, QuietStep

LEMMA RestartKeepsInv ==
    ASSUME AccountInv, Restart
    PROVE  AccountInv'
<1>1. /\ restarts' = 1 /\ flight' = [r \in Requests |-> NoRequest]
      /\ consumed' = {} /\ late' = {} /\ raced' = raced
      /\ UNCHANGED docVars
  BY DEF Restart
<1>2. TypeInv'
  BY <1>1, NoRequestTyped DEF AccountInv, TypeInv, docVars
<1>3. ASSUME NEW q \in Requests PROVE Promises(q)'
  <2>1. flight'[q].op = "none"
    BY <1>1, NoRequestTyped
  <2> QED
    BY <2>1, NothingPromised DEF PromiseOps
<1>4. Steady /\ SecretsKept
  BY <1>1, <1>3 DEF Steady, SecretsKept, docVars
<1> QED
  BY <1>1, <1>2, <1>4, QuietStep DEF docVars

-----------------------------------------------------------------------------
(* The invariant.                                                           *)

LEMMA FirstAddress ==
    ASSUME NEW e \in Emails
    PROVE  (CHOOSE f \in Emails : f # e) \in Emails /\ (CHOOSE f \in Emails : f # e) # e
BY AccountAssumption

LEMMA InitAccountInv == Init => AccountInv
<1> SUFFICES ASSUME Init PROVE AccountInv
  OBVIOUS
<1>1. PICK totp \in BOOLEAN, second \in {"free", "live"}, e \in Emails :
          /\ acct = [u \in Users |->
                 IF u = 1 THEN [state |-> "live", email |-> e, password |-> TRUE, totp |-> totp]
                 ELSE IF u = 2 /\ second = "live"
                 THEN [Free EXCEPT !.state = "live", !.email = CHOOSE f \in Emails : f # e]
                 ELSE Free]
          /\ sessions = {[user |-> 1, kind |-> "full", weak |-> FALSE]}
          /\ identities = {<<x, 2>> : x \in {y \in GitHubs : second = "live"}}
          /\ consumed = {} /\ issued = IF totp THEN 1 ELSE 0
          /\ secrets = {[id |-> n, kind |-> "recovery", user |-> 1, email |-> None, tries |-> 0] :
                            n \in 1..issued}
          /\ pendingReg = [f \in Emails |-> 0]
          /\ change = [u \in Users |-> NoChange]
          /\ pendingTotp = {}
          /\ flight = [r \in Requests |-> NoRequest]
          /\ begun = 0 /\ late = {} /\ raced = {} /\ restarts = 0
          /\ uses = [n \in 1..MaxIssued |-> [times |-> 0, kind |-> None, user |-> 0]]
  BY DEF Init
<1>2. issued \in {0, 1}
  <2>1. CASE totp
    BY <1>1, <2>1
  <2>2. CASE ~totp
    BY <1>1, <2>2
  <2> QED
    BY <2>1, <2>2
<1>3. PICK f \in Emails : f = (CHOOSE x \in Emails : x # e) /\ f # e
  BY FirstAddress
<1> DEFINE a1 == [state |-> "live", email |-> e, password |-> TRUE, totp |-> totp]
           a2 == [state |-> "live", email |-> f, password |-> FALSE, totp |-> FALSE]
           a3 == [state |-> "free", email |-> None, password |-> FALSE, totp |-> FALSE]
<1>4. [Free EXCEPT !.state = "live", !.email = f] = a2 /\ Free = a3
  BY FreshAccount DEF Free
<1>5. acct = [u \in Users |-> IF u = 1 THEN a1 ELSE IF u = 2 /\ second = "live" THEN a2 ELSE a3]
  BY <1>1, <1>3, <1>4, Zenon
<1>6. 1 \in Users /\ 2 \in Users /\ 0 \notin Users /\ 1 # 2
  BY AccountAssumption DEF Users
<1>7. a1 \in Accts /\ a2 \in Accts /\ a3 \in Accts
  BY DEF Accts
<1>8. /\ acct \in [Users -> Accts]
      /\ acct[1] = a1
      /\ acct[2] = IF second = "live" THEN a2 ELSE a3
      /\ \A u \in Users \ {1, 2} : acct[u] = a3
  BY <1>5, <1>6, <1>7
<1>9. \A s \in secrets : \E n \in 1..issued :
          s = [id |-> n, kind |-> "recovery", user |-> 1, email |-> None, tries |-> 0]
  <2>1. secrets = {[id |-> n, kind |-> "recovery", user |-> 1, email |-> None, tries |-> 0] :
                       n \in 1..issued}
    BY <1>1
  <2> QED
    BY <2>1
<1>10. TypeInv
  <2>1. sessions \subseteq SessionRows /\ identities \subseteq Externals \X Users
    <3>1. [user |-> 1, kind |-> "full", weak |-> FALSE] \in SessionRows
      BY <1>6 DEF SessionRows
    <3>2. sessions \subseteq SessionRows
      BY <1>1, <3>1
    <3>3. identities \subseteq Externals \X Users
      <4>1. identities = {<<x, 2>> : x \in {y \in GitHubs : second = "live"}}
        BY <1>1
      <4> QED
        BY <1>6, <4>1 DEF Externals
    <3> QED
      BY <3>2, <3>3
  <2>2. issued \in 0..MaxIssued /\ \A n \in 1..issued : n \in 1..MaxIssued
    BY <1>2, AccountAssumption
  <2>3. secrets \subseteq SecretRows
    BY <1>6, <1>9, <2>2 DEF SecretRows, Kinds
  <2>4. flight \in [Requests -> Flights]
    BY <1>1, NoRequestTyped
  <2>5. NoChange \in Changes
    BY DEF NoChange, Changes
  <2>6. [times |-> 0, kind |-> None, user |-> 0] \in Uses
    BY DEF Uses
  <2> QED
    BY <1>1, <1>8, <2>1, <2>2, <2>3, <2>4, <2>5, <2>6 DEF TypeInv
<1>11. ASSUME NEW q \in Requests
      PROVE  /\ AddressIsFree(q) /\ ExternalIsFree(q) /\ PasswordIsEnough(q)
             /\ UserIsThere(q) /\ LinkIsGood(q)
  <2>1. flight[q].op = "none"
    BY <1>1, NoRequestTyped
  <2> QED
    BY <2>1 DEF AddressIsFree, ExternalIsFree, PasswordIsEnough, UserIsThere, LinkIsGood
<1>12. AddressInv
  <2>1. ASSUME NEW u \in Users, NEW v \in Users, Live(u), Live(v), u # v
        PROVE  acct[u].email # acct[v].email
    <3>1. \A w \in Users : Live(w) => w = 1 \/ (w = 2 /\ second = "live")
      BY <1>8 DEF Live
    <3>2. second = "live" => acct[1].email = e /\ acct[2].email = f
      BY <1>8
    <3> QED
      BY <1>3, <2>1, <3>1, <3>2
  <2> QED
    BY <1>11, <2>1 DEF AddressInv
<1>13. IdentityInv
  <2>1. \A u \in Users, x \in Externals : <<x, u>> \in identities => u = 2
    BY <1>1
  <2> QED
    BY <1>11, <2>1 DEF IdentityInv
<1>14. SessionInv
  <2>1. ASSUME NEW s \in sessions
        PROVE  ~s.weak /\ acct[s.user].state # "deleted"
    <3>1. s = [user |-> 1, kind |-> "full", weak |-> FALSE]
      BY <1>1
    <3>2. s.user = 1 /\ ~s.weak
      BY <3>1
    <3> QED
      BY <1>8, <3>2
  <2> QED
    BY <1>11, <2>1 DEF SessionInv
<1>15. SecretInv
  <2>1. issued \in Nat /\ \A s \in secrets : s.id \in 1..issued
    <3>1. \A s \in secrets : s.id \in 1..issued
      BY <1>9
    <3> QED
      BY <1>2, <3>1
  <2>2. \A n \in 1..MaxIssued : uses[n].times = 0
    BY <1>1
  <2>3. \A s \in secrets : s.id \in 1..MaxIssued
    BY <1>10 DEF TypeInv, SecretRows
  <2>4. \A s, t \in secrets : s.id = t.id => s = t
    BY <1>9
  <2>5. \A s \in secrets : s.id <= issued
    BY <2>1
  <2> QED
    BY <1>11, <2>2, <2>3, <2>4, <2>5 DEF SecretInv, OneTimeSecrets
<1>16. NobodyLockedOut
  <2>1. ASSUME NEW u \in Users, Live(u)
        PROVE  acct[u].password \/ \E x \in Externals : <<x, u>> \in identities
    <3>1. CASE u = 1
      BY <1>8, <3>1
    <3>2. CASE u = 2 /\ second = "live"
      <4>1. PICK x \in GitHubs : TRUE
        BY AccountAssumption
      <4>2. <<x, 2>> \in identities /\ x \in Externals
        BY <1>1, <3>2, <4>1 DEF Externals
      <4> QED
        BY <3>2, <4>2
    <3> QED
      BY <1>8, <2>1, <3>1, <3>2 DEF Live
  <2> QED
    BY <2>1 DEF NobodyLockedOut
<1> QED
  BY <1>10, <1>12, <1>13, <1>14, <1>15, <1>16 DEF AccountInv

LEMMA SignInKeepsInv ==
    ASSUME AccountInv, SignInNext
    PROVE  AccountInv'
<1>1. ASSUME NEW r \in Requests, NEW e \in Emails,
             StartRegistration(r, e) \/ VerifyRegistration(r, e) \/ StartLogin(r, e)
      PROVE  AccountInv'
  BY <1>1, StartRegistrationKeepsInv, VerifyRegistrationKeepsInv, StartLoginKeepsInv
<1>2. ASSUME NEW r \in Requests,
             \/ IssueRegistrationCode(r) \/ StorePending(r) \/ CreateUser(r)
             \/ OpenSession(r) \/ IssueIntermediateSession(r) \/ RotateSession(r)
             \/ StoreEnrollment(r) \/ EnableTotp(r) \/ DropTotp(r)
      PROVE  AccountInv'
  BY <1>2, IssueRegistrationCodeKeepsInv, StorePendingKeepsInv, CreateUserKeepsInv,
     OpenSessionKeepsInv, IssueIntermediateSessionKeepsInv, RotateSessionKeepsInv,
     StoreEnrollmentKeepsInv, EnableTotpKeepsInv, DropTotpKeepsInv
<1>3. ASSUME NEW r \in Requests, NEW n \in 0..MaxIssued, VerifyRegistrationCode(r, n)
      PROVE  AccountInv'
  BY <1>3, VerifyRegistrationCodeKeepsInv
<1>4. ASSUME NEW r \in Requests, NEW s \in secrets, ConsumeRecoveryCode(r, s)
      PROVE  AccountInv'
  BY <1>4, ConsumeRecoveryCodeKeepsInv
<1>5. ASSUME NEW r \in Requests, NEW u \in Users, Login2FA(r, u)
      PROVE  AccountInv'
  BY <1>5, Login2FAKeepsInv
<1>6. ASSUME NEW r \in Requests, NEW u \in Users,
             EnrollTotp(r, u) \/ ConfirmTotp(r, u) \/ DisableTotp(r, u)
      PROVE  AccountInv'
  BY <1>6, BeginForUser DEF EnrollTotp, ConfirmTotp, DisableTotp
<1>7. ASSUME NEW u \in Users, RegenerateRecoveryCodes(u)
      PROVE  AccountInv'
  BY <1>7, RegenerateRecoveryCodesKeepsInv
<1> QED
  BY <1>1, <1>2, <1>3, <1>4, <1>5, <1>6, <1>7 DEF SignInNext

LEMMA ChangesKeepInv ==
    ASSUME AccountInv, ChangesNext
    PROVE  AccountInv'
<1>1. ASSUME NEW r \in Requests,
             \/ IssueReset(r) \/ SetPassword(r) \/ IssueEmailChangeCode(r) \/ StoreEmailChange(r)
             \/ WriteEmail(r) \/ StorePassword(r) \/ SoftDelete(r)
      PROVE  AccountInv'
  BY <1>1, IssueResetKeepsInv, SetPasswordKeepsInv, IssueEmailChangeCodeKeepsInv,
     StoreEmailChangeKeepsInv, WriteEmailKeepsInv, StorePasswordKeepsInv, SoftDeleteKeepsInv
<1>2. ASSUME NEW r \in Requests, NEW e \in Emails, RequestReset(r, e)
      PROVE  AccountInv'
  BY <1>2, BeginForUser DEF RequestReset, LiveWith
<1>3. ASSUME NEW r \in Requests, NEW s \in secrets, ConfirmReset(r, s)
      PROVE  AccountInv'
  BY <1>3, ConfirmResetKeepsInv
<1>4. ASSUME NEW r \in Requests, NEW n \in 0..MaxIssued, VerifyEmailChangeCode(r, n)
      PROVE  AccountInv'
  BY <1>4, VerifyEmailChangeCodeKeepsInv
<1>5. ASSUME NEW r \in Requests, NEW u \in Users, ConfirmEmailChange(r, u)
      PROVE  AccountInv'
  BY <1>5, ConfirmEmailChangeKeepsInv
<1>6. ASSUME NEW r \in Requests, NEW u \in Users, ChangePassword(r, u) \/ DeleteAccount(r, u)
      PROVE  AccountInv'
  BY <1>6, BeginForUser DEF ChangePassword, DeleteAccount
<1>7. ASSUME NEW r \in Requests, NEW u \in Users, NEW e \in Emails, RequestEmailChange(r, u, e)
      PROVE  AccountInv'
  BY <1>7, RequestEmailChangeKeepsInv
<1>8. ASSUME NEW u \in Users, ToggleLock(u)
      PROVE  AccountInv'
  BY <1>8, ToggleLockKeepsInv
<1> QED
  BY <1>1, <1>2, <1>3, <1>4, <1>5, <1>6, <1>7, <1>8 DEF ChangesNext

LEMMA OAuthKeepsInv ==
    ASSUME AccountInv, OAuthNext
    PROVE  AccountInv'
<1>1. ASSUME NEW u \in {0} \cup Users, CreateState(u)
      PROVE  AccountInv'
  BY <1>1, CreateStateKeepsInv
<1>2. ASSUME NEW r \in Requests, NEW s \in secrets, GitHubCallback(r, s) \/ GoogleCallback(r, s)
      PROVE  AccountInv'
  <2>1. PICK x \in Externals, e \in Emails \cup {None} : Callback(r, s, [id |-> x, email |-> e])
    BY <1>2 DEF GitHubCallback, GoogleCallback, GitHubProfiles, GoogleProfiles, Externals
  <2> QED
    BY <2>1, CallbackKeepsInv
<1>3. ASSUME NEW r \in Requests,
             \/ FindByIdentity(r) \/ FindByEmail(r) \/ CreateUserFromOAuth(r)
             \/ LinkLookUp(r) \/ InsertIdentity(r) \/ OAuthReadUser(r)
      PROVE  AccountInv'
  BY <1>3, FindByIdentityKeepsInv, FindByEmailKeepsInv, CreateUserFromOAuthKeepsInv,
     LinkLookUpKeepsInv, InsertIdentityKeepsInv, OAuthReadUserKeepsInv
<1>4. ASSUME NEW u \in Users, NEW x \in Externals, UnlinkIdentity(u, x)
      PROVE  AccountInv'
  BY <1>4, UnlinkIdentityKeepsInv
<1> QED
  BY <1>1, <1>2, <1>3, <1>4 DEF OAuthNext

LEMMA NextKeepsInv == AccountInv /\ [Next]_vars => AccountInv'
<1> SUFFICES ASSUME AccountInv, [Next]_vars PROVE AccountInv'
  OBVIOUS
<1>1. CASE UNCHANGED vars
  <2>1. /\ UNCHANGED <<docVars, consumed, flight, late, raced, restarts>>
    BY <1>1 DEF vars, ghostVars
  <2>2. TypeInv'
    BY <2>1 DEF AccountInv, TypeInv, docVars
  <2>3. Steady /\ SecretsKept
    BY <2>1 DEF Steady, Still, SecretsKept, docVars
  <2> QED
    BY <2>1, <2>2, <2>3, QuietStep DEF docVars
<1> QED
  BY <1>1, SignInKeepsInv, ChangesKeepInv, OAuthKeepsInv, ExpireKeepsInv, RestartKeepsInv DEF Next

\* Accounts, sessions, secrets and requests keep to AccountInv through every step of every
\* handler of auth/ and of the callbacks in routes.ts, through expiry and a restart.
THEOREM AccountInvariance == Spec => []AccountInv
<1>1. Init => AccountInv
  BY InitAccountInv
<1>2. AccountInv /\ [Next]_vars => AccountInv'
  BY NextKeepsInv
<1> QED
  BY <1>1, <1>2, PTL DEF Spec

\* Rows are of their types: every session and identity is that of a user there can be.
THEOREM AccountTypesHold == Spec => []AccountTypeOK
<1>1. AccountInv => AccountTypeOK
  BY DEF AccountInv, TypeInv, AccountTypeOK, Accts, SessionRows
<1> QED
  BY <1>1, AccountInvariance, PTL

\* Two live users share an address, or an account elsewhere, only after a request wrote it
\* on checks that had become obsolete between its awaits.
THEOREM SharingTakesARace == Spec => []SharedOnlyByRace
<1>1. AccountInv => SharedOnlyByRace
  BY DEF AccountInv, AddressInv, IdentityInv, SharedOnlyByRace
<1> QED
  BY <1>1, AccountInvariance, PTL

\* No code, link, recovery code or state is accepted twice, but for overlapping
\* confirmations of a reset and for states after a restart.
THEOREM SecretsAreAcceptedOnce == Spec => []OneTimeSecrets
<1>1. AccountInv => OneTimeSecrets
  BY DEF AccountInv, SecretInv
<1> QED
  BY <1>1, AccountInvariance, PTL

\* A session without the second factor is not opened for a user who has one, unless the
\* login overlapped with switching it on.
THEOREM SecondFactorIsAsked == Spec => []NoWeakSession
<1>1. AccountInv => NoWeakSession
  BY DEF AccountInv, SessionInv, NoWeakSession
<1> QED
  BY <1>1, AccountInvariance, PTL

\* Who deleted the account is signed out everywhere, unless a login was under way.
THEOREM DeletedUsersAreSignedOut == Spec => []DeletionEndsSessions
<1>1. AccountInv => DeletionEndsSessions
  BY DEF AccountInv, SessionInv, DeletionEndsSessions
<1> QED
  BY <1>1, AccountInvariance, PTL

\* A live user has a password or an identity left, unless an unlock raced.
THEOREM SomeWayInIsLeft == Spec => []NobodyLockedOut
<1>1. AccountInv => NobodyLockedOut
  BY DEF AccountInv
<1> QED
  BY <1>1, AccountInvariance, PTL
=============================================================================
