------------------------------ MODULE WebShell ------------------------------
(***************************************************************************)
(* The frame of the web client, apps/web/src/main.tsx: who is signed in,   *)
(* the lists that are loaded for him, and his inbox, which is kept up to   *)
(* date by what the user does to it rather than loaded again.              *)
(***************************************************************************)
EXTENDS Naturals, FiniteSets

CONSTANTS
    Users, NoUser,
    Letters,     \* messages of the inbox
    MaxTurns     \* bound: sign-ins, loads and requests

ASSUME ShellAssumption == IsFiniteSet(Letters) /\ Letters # {}

VARIABLES
    signed,      \* who is signed in
    lists,       \* whose connections, profiles and keys are shown
    listLoads,   \* loads under way
    box,         \* the inbox of the server: letter -> "unread", "read", "gone"
    inbox,       \* what is shown: letters, unread ones, the count
    calls,       \* requests for the inbox under way
    turns, hurried

shellVars == <<signed, lists, listLoads, box, inbox, calls, turns, hurried>>

EmptyInbox == [shown |-> {}, unread |-> {}, count |-> 0]
InBox(s) == {l \in Letters : box[l] \in s}

ShellInit ==
    /\ signed = NoUser /\ lists = NoUser /\ listLoads = {}
    /\ box = [l \in Letters |-> "unread"]
    /\ inbox = EmptyInbox /\ calls = {}
    /\ turns = 0 /\ hurried = FALSE

Turn == turns < MaxTurns /\ turns' = turns + 1
Hurry == hurried' = (hurried \/ calls # {} \/ listLoads # {})
Call(do, l) == calls' = calls \cup {[n |-> turns, do |-> do, letter |-> l, list |-> {}, unread |-> {}, done |-> FALSE]}

\* handleAuthSuccess; the effect on the token loads the inbox.
SignIn(u) ==
    /\ Turn /\ signed = NoUser /\ Hurry
    /\ signed' = u
    /\ listLoads' = listLoads \cup {[n |-> turns, of |-> u]}
    /\ Call("load", CHOOSE l \in Letters : TRUE)
    /\ UNCHANGED <<lists, box, inbox>>

\* handleLogout: connections, keys and the selection stay on the page.
SignOut ==
    /\ signed # NoUser /\ Hurry
    /\ signed' = NoUser
    /\ inbox' = EmptyInbox
    /\ UNCHANGED <<lists, listLoads, box, calls, turns>>

\* load: the answers are shown whoever is signed in by now.
ListsArrive(r) ==
    /\ listLoads' = listLoads \ {r}
    /\ lists' = r.of
    /\ UNCHANGED <<signed, box, inbox, calls, turns, hurried>>

\* A message comes; nobody tells the browser.
LetterComes(l) ==
    /\ box[l] = "gone" /\ l \notin inbox.shown
    /\ box' = [box EXCEPT ![l] = "unread"]
    /\ hurried' = (hurried \/ calls # {})
    /\ UNCHANGED <<signed, lists, listLoads, inbox, calls, turns>>

\* reloadInbox, when the inbox is opened.
Reload ==
    /\ Turn /\ signed # NoUser /\ Hurry
    /\ Call("load", CHOOSE l \in Letters : TRUE)
    /\ UNCHANGED <<signed, lists, listLoads, box, inbox>>

\* The buttons of a message; they stay while the request is under way.
AskInbox(do, l) ==
    /\ Turn /\ signed # NoUser /\ Hurry
    /\ l \in IF do = "read" THEN inbox.unread ELSE inbox.shown
    /\ Call(do, l)
    /\ UNCHANGED <<signed, lists, listLoads, box, inbox>>

InboxServed(c) ==
    /\ ~c.done
    /\ calls' = (calls \ {c}) \cup
           {[c EXCEPT !.done = TRUE, !.list = InBox({"read", "unread"}), !.unread = InBox({"unread"})]}
    /\ box' = CASE c.do = "read" /\ box[c.letter] = "unread" -> [box EXCEPT ![c.letter] = "read"]
                [] c.do = "delete" -> [box EXCEPT ![c.letter] = "gone"]
                [] OTHER -> box
    /\ UNCHANGED <<signed, lists, listLoads, inbox, turns, hurried>>

Less(n) == IF n > 0 THEN n - 1 ELSE 0

\* Seeded fault: the count goes down whether or not the message was read.
AlwaysLess(c) ==
    [shown |-> inbox.shown \ {c.letter}, unread |-> inbox.unread \ {c.letter}, count |-> Less(inbox.count)]

\* handleDeleteInboxMessage: the message as it was shown at the click.
AfterDelete(c) ==
    [shown |-> inbox.shown \ {c.letter}, unread |-> inbox.unread \ {c.letter},
     count |-> IF c.letter \in inbox.unread THEN Less(inbox.count) ELSE inbox.count]

AfterRead(c) == [inbox EXCEPT !.unread = @ \ {c.letter}, !.count = Less(@)]

InboxAnswered(c) ==
    /\ c.done
    /\ calls' = calls \ {c}
    /\ inbox' = CASE c.do = "load" -> [shown |-> c.list, unread |-> c.unread, count |-> Cardinality(c.unread)]
                  [] c.do = "read" -> AfterRead(c)
                  [] OTHER -> AfterDelete(c)
    /\ UNCHANGED <<signed, lists, listLoads, box, turns, hurried>>

InboxFails(c) ==
    /\ calls' = calls \ {c}
    /\ UNCHANGED <<signed, lists, listLoads, box, inbox, turns, hurried>>

ShellNext ==
    \/ SignOut \/ Reload
    \/ \E u \in Users : SignIn(u)
    \/ \E r \in listLoads : ListsArrive(r)
    \/ \E l \in Letters : LetterComes(l) \/ AskInbox("read", l) \/ AskInbox("delete", l)
    \/ \E c \in calls : InboxServed(c) \/ InboxAnswered(c) \/ InboxFails(c)

-----------------------------------------------------------------------------
\* When everything is answered the page shows what belongs to who is signed
\* in, and the count of unread messages is that of the messages it shows,
\* unless one request was begun before another had its answer.
PageIsInStep ==
    calls = {} /\ listLoads = {} /\ ~hurried /\ signed # NoUser =>
        /\ lists = signed
        /\ inbox.count = Cardinality(inbox.unread)
=============================================================================
