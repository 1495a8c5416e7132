------------------------------ MODULE WebEditor ------------------------------
(***************************************************************************)
(* The two editors of the web client, PlaybookPage.tsx and                 *)
(* ConfigFilesPanel.tsx.  What is open and the text in the editor are two  *)
(* pieces of state, set by the answers of requests that may cross.         *)
(***************************************************************************)
EXTENDS Naturals, FiniteSets

CONSTANTS
    Docs,        \* playbooks or files that exist
    NoDoc,       \* nothing open; also the name of a text of one's own
    MaxActs      \* bound: openings, saves and restores

VARIABLES
    page,        \* "playbooks" or "configs"
    editor,      \* open: which document, text: whose text it was, creating
    reads, puts, \* requests under way
    stored,      \* the document whose text each one holds
    acts,
    crossed      \* ghost: something was opened while a request was under way

editorVars == <<page, editor, reads, puts, stored, acts, crossed>>

EditorInit ==
    /\ page \in {"playbooks", "configs"}
    /\ editor = [open |-> NoDoc, text |-> NoDoc, creating |-> FALSE]
    /\ reads = {} /\ puts = {}
    /\ stored = [d \in Docs |-> d]
    /\ acts = 0 /\ crossed = FALSE

Act == acts < MaxActs /\ acts' = acts + 1
Crossing(requests) == crossed' = (crossed \/ requests # {})

\* Seeded fault: the playbook is open before its text is there.
OpenAtOnce(d) ==
    /\ Act /\ d \in DOMAIN stored
    /\ editor' = [editor EXCEPT !.open = d, !.creating = FALSE]
    /\ reads' = reads \cup {[n |-> acts, of |-> d]}
    /\ Crossing(puts)
    /\ UNCHANGED <<page, puts, stored>>

\* handleSelect leaves what is open until the answer; handleOpen closes it.
OpenDoc(d) ==
    /\ Act /\ d \in DOMAIN stored
    /\ editor' = IF page = "playbooks" THEN [editor EXCEPT !.creating = FALSE]
                 ELSE [editor EXCEPT !.open = NoDoc]
    /\ reads' = reads \cup {[n |-> acts, of |-> d]}
    /\ Crossing(puts)
    /\ UNCHANGED <<page, puts, stored>>

ReadArrives(r) ==
    /\ reads' = reads \ {r}
    /\ editor' = [editor EXCEPT !.open = r.of, !.text = stored[r.of]]
    /\ UNCHANGED <<page, puts, stored, acts, crossed>>

ReadFails(r) ==
    /\ reads' = reads \ {r}
    /\ UNCHANGED <<page, editor, puts, stored, acts, crossed>>

\* "New", or a file that is uploaded.
NewText ==
    /\ Act /\ page = "playbooks"
    /\ editor' = [open |-> NoDoc, text |-> NoDoc, creating |-> TRUE]
    /\ Crossing(reads \cup puts)
    /\ UNCHANGED <<page, reads, puts, stored>>

\* handleSave; the button is off while a save is under way.
SaveText ==
    /\ Act
    /\ editor.open # NoDoc \/ editor.creating
    /\ \A w \in puts : w.do # "save"
    /\ puts' = puts \cup
           {[n |-> acts, do |-> "save", of |-> IF editor.creating THEN NoDoc ELSE editor.open,
             text |-> editor.text, done |-> FALSE]}
    /\ Crossing(IF editor.creating THEN {} ELSE reads \cap {r \in reads : r.of # editor.open})
    /\ UNCHANGED <<page, editor, reads, stored>>

\* handleRestoreVersion: an old text of the same playbook.
RestoreText ==
    /\ Act /\ page = "playbooks" /\ editor.open # NoDoc
    /\ puts' = puts \cup
           {[n |-> acts, do |-> "restore", of |-> editor.open, text |-> editor.open, done |-> FALSE]}
    /\ Crossing(reads \cup puts)
    /\ UNCHANGED <<page, editor, reads, stored>>

\* The server has written it.
WriteIsDone(w) ==
    /\ ~w.done
    /\ puts' = (puts \ {w}) \cup {[w EXCEPT !.done = TRUE]}
    /\ stored' = IF w.of = NoDoc THEN stored ELSE [stored EXCEPT ![w.of] = w.text]
    /\ UNCHANGED <<page, editor, reads, acts, crossed>>

\* The answer opens what was saved, whatever is open now; of a restore the
\* text too.  A playbook that was created is not followed further.
WriteAnswered(w) ==
    /\ w.done
    /\ puts' = puts \ {w}
    /\ editor' = [editor EXCEPT !.open = w.of,
                                !.creating = IF w.of = NoDoc THEN FALSE ELSE @,
                                !.text = IF w.do = "restore" THEN w.text ELSE @]
    /\ UNCHANGED <<page, reads, stored, acts, crossed>>

WriteFails(w) ==
    /\ puts' = puts \ {w}
    /\ UNCHANGED <<page, editor, reads, stored, acts, crossed>>

EditorNext ==
    \/ NewText \/ SaveText \/ RestoreText
    \/ \E d \in Docs : OpenDoc(d)
    \/ \E r \in reads : ReadArrives(r) \/ ReadFails(r)
    \/ \E w \in puts : WriteIsDone(w) \/ WriteAnswered(w) \/ WriteFails(w)

-----------------------------------------------------------------------------
\* A text is saved under the name it was opened from, unless the user opened
\* something else, or began a new text, while a request was under way: the
\* answer to a save opens its document again and leaves the text of the other.
TextsStayUnderTheirName == crossed \/ \A d \in Docs : stored[d] = d
=============================================================================
