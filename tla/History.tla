------------------------------ MODULE History ------------------------------
(***************************************************************************)
(* A playbook and its versions, the CRUD of src/apps/api/src/routes.ts:    *)
(* a change appends the new text to the history, which keeps the last Cap  *)
(* of them; a restore appends the old text again and cuts nothing.  Each   *)
(* handler is one update, but who edits read the text some time before.    *)
(***************************************************************************)
EXTENDS Naturals, Sequences

CONSTANTS
    Texts,
    Tabs,        \* editors open on the playbook
    Cap,         \* 20 in routes.ts
    MaxVersion   \* bound: versions ever made

ASSUME HistoryAssumption == Cap \in Nat \ {0} /\ MaxVersion \in Nat \ {0}

VARIABLES
    book,        \* there, version, text and rows of the history
    opened,      \* the version each tab shows, 0 for none
    saved        \* ghost: the text of each version, in the order of versions

historyVars == <<book, opened, saved>>

Row(v, t) == [version |-> v, text |-> t]

HistoryInit ==
    /\ book = [there |-> FALSE, version |-> 0, text |-> {}, rows |-> <<>>]
    /\ opened = [x \in Tabs |-> 0]
    /\ saved = <<>>

CreateBook(t) ==
    /\ ~book.there /\ saved = <<>>
    /\ book' = [there |-> TRUE, version |-> 1, text |-> {t}, rows |-> <<Row(1, t)>>]
    /\ saved' = <<t>>
    /\ UNCHANGED opened

OpenBook(x) ==
    /\ book.there
    /\ opened' = [opened EXCEPT ![x] = book.version]
    /\ UNCHANGED <<book, saved>>

\* Seeded fault: the oldest rows are kept.
KeepFirst(rows) == SubSeq(rows, 1, IF Len(rows) > Cap THEN Cap ELSE Len(rows))

\* slice(-Cap), if there are more.
KeepLast(rows) == IF Len(rows) > Cap THEN SubSeq(rows, Len(rows) - Cap + 1, Len(rows)) ELSE rows

AppendVersion(t, rows) ==
    /\ book.version < MaxVersion
    /\ book' = [book EXCEPT !.version = @ + 1, !.text = {t}, !.rows = rows]
    /\ saved' = Append(saved, t)

\* PATCH from a tab, whatever version it shows; the same text makes no version.
SaveBook(x, t) ==
    /\ book.there /\ opened[x] > 0
    /\ {t} # book.text
    /\ AppendVersion(t, KeepLast(Append(book.rows, Row(book.version + 1, t))))
    /\ opened' = [opened EXCEPT ![x] = book.version + 1]

\* The first row with that version is taken.
RestoreBook(v) ==
    /\ book.there
    /\ \E i \in DOMAIN book.rows :
           /\ book.rows[i].version = v
           /\ \A j \in 1..(i - 1) : book.rows[j].version # v
           /\ AppendVersion(book.rows[i].text, Append(book.rows, Row(book.version + 1, book.rows[i].text)))
    /\ UNCHANGED opened

DeleteBook ==
    /\ book.there
    /\ book' = [book EXCEPT !.there = FALSE]
    /\ UNCHANGED <<opened, saved>>

HistoryNext ==
    \/ DeleteBook
    \/ \E t \in Texts : CreateBook(t)
    \/ \E x \in Tabs : OpenBook(x) \/ \E t \in Texts : SaveBook(x, t)
    \/ \E v \in 1..MaxVersion : RestoreBook(v)

-----------------------------------------------------------------------------
\* What somebody saved over can be had back: each of the last Cap texts is in
\* the history once, under its version, and every row is what was saved so.
LastTextsAreKept ==
    LET Rows(v) == {i \in DOMAIN book.rows : book.rows[i].version = v} IN
    /\ \A i \in DOMAIN book.rows : book.rows[i].text = saved[book.rows[i].version]
    /\ book.there =>
           /\ book.text = {saved[book.version]}
           /\ \A v \in 1..book.version :
                  v + Cap > book.version => \E i \in Rows(v) : Rows(v) = {i}
=============================================================================
