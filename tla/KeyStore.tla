------------------------------ MODULE KeyStore ------------------------------
(***************************************************************************)
(* The SSH keys a user has uploaded, src/apps/api/src/key-store.ts: one    *)
(* encrypted file for each key, and meta.json, which every save and every  *)
(* deletion reads and writes again as a whole, without a lock.             *)
(***************************************************************************)
EXTENDS Naturals, FiniteSets

CONSTANTS
    Keys,        \* keys ever uploaded
    Uploads,     \* requests at a time
    NoKey,
    MaxChanges   \* bound: saves and deletions

VARIABLES
    files,       \* keys whose .enc file is there
    listed,      \* rows of meta.json
    metaTorn,        \* meta.json was truncated, its new text is not there yet
    req,         \* requests: [do, key, pc, rows]
    changes, acked, disturbed

keyVars == <<files, listed, metaTorn, req, changes, acked, disturbed>>

NoUpload == [do |-> "none", key |-> NoKey, pc |-> "idle", rows |-> {}]
Busy == {r \in Uploads : req[r].do # "none"}

KeysInit ==
    /\ files = {} /\ listed = {} /\ metaTorn = FALSE
    /\ req = [r \in Uploads |-> NoUpload]
    /\ changes = 0 /\ acked = {} /\ disturbed = FALSE

EnterKeys(r, do, k) ==
    /\ changes < MaxChanges /\ changes' = changes + 1
    /\ req[r].do = "none"
    /\ req' = [req EXCEPT ![r] = [do |-> do, key |-> k, pc |-> "read", rows |-> {}]]
    /\ disturbed' = (disturbed \/ Busy # {})

\* saveUserKey: first the file of the key ...
SaveKey(r, k) ==
    /\ k \notin files \cup acked \cup {req[q].key : q \in Uploads}
    /\ EnterKeys(r, "save", k)
    /\ files' = files \cup {k}
    /\ UNCHANGED <<listed, metaTorn, acked>>

\* deleteUserKey: first the file, and nothing else if there was none.
DeleteKey(r, k) ==
    /\ k \in files
    /\ EnterKeys(r, "delete", k)
    /\ files' = files \ {k}
    /\ acked' = acked \ {k}
    /\ UNCHANGED <<listed, metaTorn>>

KeyStep(r, from, to, rows) ==
    /\ req[r].pc = from
    /\ req' = [req EXCEPT ![r].pc = to, ![r].rows = rows]
    /\ UNCHANGED <<files, changes>>

\* Seeded fault: the new row takes the place of the old ones.
OnlyItsRow(r, rows) == IF req[r].do = "save" THEN {req[r].key} ELSE rows \ {req[r].key}

\* What meta.json becomes.
NewRows(r, rows) ==
    IF req[r].do = "save" THEN rows \cup {req[r].key} ELSE rows \ {req[r].key}

\* ... then listUserKeys, which reads a file that is no JSON as no rows ...
ReadMeta(r) ==
    /\ KeyStep(r, "read", "open", NewRows(r, IF metaTorn THEN {} ELSE listed))
    /\ UNCHANGED <<listed, metaTorn, acked, disturbed>>

\* ... then writeFile, which empties the file before it fills it.
OpenMeta(r) ==
    /\ KeyStep(r, "open", "fill", req[r].rows)
    /\ metaTorn' = TRUE
    /\ UNCHANGED <<listed, acked, disturbed>>

FillMeta(r) ==
    /\ req[r].pc = "fill"
    /\ req' = [req EXCEPT ![r] = NoUpload]
    /\ listed' = req[r].rows /\ metaTorn' = FALSE
    /\ acked' = IF req[r].do = "save" /\ req[r].key \in files THEN acked \cup {req[r].key} ELSE acked
    /\ UNCHANGED <<files, changes, disturbed>>

\* The process ends; what was half done stays so.
KeysCrash ==
    /\ Busy # {}
    /\ req' = [r \in Uploads |-> NoUpload]
    /\ disturbed' = TRUE
    /\ UNCHANGED <<files, listed, metaTorn, changes, acked>>

KeysNext ==
    \/ KeysCrash
    \/ \E r \in Uploads :
           \/ ReadMeta(r) \/ OpenMeta(r) \/ FillMeta(r)
           \/ \E k \in Keys : SaveKey(r, k) \/ DeleteKey(r, k)

-----------------------------------------------------------------------------
\* Between requests the list of keys is that of the files, unless two requests
\* overlapped or a crash cut one short; a key whose upload was answered and
\* that nobody deleted keeps its file whatever happened.
KeysAreListed ==
    /\ acked \subseteq files
    /\ Busy = {} /\ ~disturbed => ~metaTorn /\ listed = files
=============================================================================
