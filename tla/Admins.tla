------------------------------- MODULE Admins -------------------------------
(***************************************************************************)
(* Who administers the server: the roles and the locks that the routes of  *)
(* src/apps/api/src/routes.ts change.  Each of them looks whether another  *)
(* administrator is left in one read of the document and writes in a later *)
(* update; a locked user keeps the sessions that are open.                 *)
(***************************************************************************)
EXTENDS FiniteSets

CONSTANTS
    People,     \* users
    Founders,   \* administrators at first
    NoAdmin

ASSUME AdminsAssumption == Founders \subseteq People /\ Founders # {}

VARIABLES
    admins,     \* users with the role
    locked,     \* users with deletedAt
    signedIn,   \* users with a session
    order,      \* the change each user has asked for: [do, of]
    overlapped, \* ghost: two changes were under way at once
    lockedActed \* ghost: a locked administrator made a change

adminVars == <<admins, locked, signedIn, order, overlapped, lockedActed>>

NoOrder == [do |-> "none", of |-> NoAdmin]
LiveAdmins == admins \ locked
OtherAdmins(u) == LiveAdmins \ {u}
UnderWay == {u \in People : order[u].do # "none"}

AdminsInit ==
    /\ admins = Founders /\ locked = {} /\ signedIn = Founders
    /\ order = [u \in People |-> NoOrder]
    /\ overlapped = FALSE /\ lockedActed = FALSE

\* getUserByToken: any session will do, the lock is not looked at.
Acting(u) == u \in signedIn /\ order[u].do = "none"

Ask(u, do, of) ==
    /\ order' = [order EXCEPT ![u] = [do |-> do, of |-> of]]
    /\ overlapped' = (overlapped \/ UnderWay # {})
    /\ lockedActed' = (lockedActed \/ u \in locked)
    /\ UNCHANGED <<admins, locked, signedIn>>

\* Seeded fault: the last administrator is not looked for.
DemoteAnyway(u, of) == Acting(u) /\ u \in admins /\ Ask(u, "demote", of)

\* PUT role: only who demotes himself is asked whether he is the last.
AskDemote(u, of) ==
    /\ Acting(u) /\ u \in admins
    /\ of = u => OtherAdmins(u) # {}
    /\ Ask(u, "demote", of)

AskPromote(u, of) == Acting(u) /\ u \in admins /\ Ask(u, "promote", of)

\* POST toggle-lock.
AskLock(u, of) ==
    /\ Acting(u) /\ u \in admins
    /\ of = u => OtherAdmins(u) # {}
    /\ Ask(u, "lock", of)

\* DELETE /api/me: the role is that of the session's user, read before.
AskDelete(u) ==
    /\ Acting(u)
    /\ u \in admins => OtherAdmins(u) # {}
    /\ Ask(u, "delete", u)

\* The update, which looks at nothing any more.
Carry(u) ==
    LET of == order[u].of
        do == order[u].do IN
    /\ do # "none"
    /\ order' = [order EXCEPT ![u] = NoOrder]
    /\ admins' = CASE do = "demote" -> admins \ {of}
                   [] do = "promote" -> admins \cup {of}
                   [] OTHER -> admins
    /\ locked' = CASE do = "lock" /\ of \in locked -> locked \ {of}
                   [] do \in {"lock", "delete"} -> locked \cup {of}
                   [] OTHER -> locked
    /\ signedIn' = IF do = "delete" THEN signedIn \ {of} ELSE signedIn
    /\ UNCHANGED <<overlapped, lockedActed>>

\* Login, which a locked user is refused.  Who signs out just does no more.
SignsIn(u) ==
    /\ u \notin locked
    /\ signedIn' = signedIn \cup {u}
    /\ UNCHANGED <<admins, locked, order, overlapped, lockedActed>>

AdminsNext ==
    \E u \in People :
        \/ AskDelete(u) \/ Carry(u) \/ SignsIn(u)
        \/ \E of \in People : AskDemote(u, of) \/ AskPromote(u, of) \/ AskLock(u, of)

-----------------------------------------------------------------------------
\* The server keeps somebody who can administer it ("system invariant",
\* routes.ts:513), unless two changes overlapped or an administrator who was
\* locked himself went on with a session that was open: only changes of
\* oneself are checked, and the check counts the others.
SomeAdminRemains == overlapped \/ lockedActed \/ LiveAdmins # {}
=============================================================================
