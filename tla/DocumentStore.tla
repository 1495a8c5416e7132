---------------------------- MODULE DocumentStore ----------------------------
(***************************************************************************)
(* The runtime database as one document: readRuntimeDatabase, update-      *)
(* RuntimeDatabase and its mutex (src/apps/api/src/runtime-store.ts) over  *)
(* SafeJsonStore (src/apps/api/src/db-store.ts), which keeps the document  *)
(* in one row of SQLite and in a cache that is fresh for 500 ms.           *)
(*                                                                         *)
(* The content of the document is the set of the updates it carries.       *)
(* Updates hold the mutex; plain reads do not, and both write: a read that *)
(* finds no row, or gets an error, writes an empty document.               *)
(*                                                                         *)
(* The relational half of the store has the same SQLite connection and     *)
(* awaits between BEGIN and COMMIT or ROLLBACK: whatever the connection    *)
(* executes meanwhile, a write of the document too, is of its transaction. *)
(***************************************************************************)
EXTENDS Naturals, FiniteSets, SequencesExt

CONSTANTS
    Updates,    \* calls of updateRuntimeDatabase, each with its own change
    InPlace,    \* those that change an array which the cache shares with the
                \* normalized copy (push on sessions, tasks, identities, ...)
    Readers,    \* calls of readRuntimeDatabase outside of updates
    Absent,     \* the row does not exist, or there is no fresh cache
    MaxReadErrors,  \* bound: SELECT statements that fail
    MaxWriteErrors, \* bound: INSERT statements that fail
    MaxDeaths, \* bound: process crashes
    MaxTransactions \* bound: transactions of the relational store

ASSUME StoreAssumption ==
    /\ InPlace \subseteq Updates
    /\ Readers \cap Updates = {}
    /\ {MaxReadErrors, MaxWriteErrors, MaxDeaths, MaxTransactions} \subseteq Nat
    /\ \A doc \in SUBSET Updates : doc # Absent

VARIABLES
    row,      \* value of system_kv['runtime_db'], or Absent
    inTransaction, \* the relational store has begun a transaction
    savedRow, \* the row that a rollback of it brings back
    cache,    \* SafeJsonStore.cache while it is fresh, or Absent
    line,     \* the promise chain of Mutex: holder first, then the waiting
    place,       \* where each call is
    work,     \* the database object of each call, once it has one
    makers,   \* calls that wrote an empty document
    wiped,    \* one of them wrote it over an existing one
    undone,   \* a rollback, or a crash in a transaction, took a row back
    shared,   \* how the holder's object and the cache overlap: "none",
              \* "arrays" (normalizeRuntimeDatabase) or "whole" (same object)
    replies,  \* executed statements whose callback has not run yet
    acked,    \* updates that resolved
    before,   \* before[r]: the updates acknowledged when read r started
    readErrors, writeErrors, deaths, transactions

transactionVars == <<inTransaction, savedRow, undone, transactions>>
rowVars == <<row, makers, wiped, transactionVars>>
errors == <<readErrors, writeErrors>>
storeVars == <<rowVars, cache, line, place, work, shared, replies, acked, before, errors, deaths>>

StoreCalls == Updates \cup Readers
Over == {"done", "failed"}
Empty == {}

StoreInit ==
    /\ row \in {Absent, Empty}
    /\ makers = {}
    /\ wiped = FALSE
    /\ inTransaction = FALSE /\ savedRow = Absent
    /\ undone = FALSE
    /\ cache = Absent
    /\ line = <<>>
    /\ place = [p \in StoreCalls |-> "idle"]
    /\ work = [p \in StoreCalls |-> Empty]
    /\ shared = "none"
    /\ replies = <<>>
    /\ acked = {}
    /\ before = [r \in Readers |-> {}]
    /\ readErrors = 0
    /\ writeErrors = 0
    /\ deaths = 0 /\ transactions = 0

Goes(p, to) == place' = [place EXCEPT ![p] = to]

\* finally { release() }: the next of the chain gets the mutex.
Release(u) == line' = Tail(line)

\* The call gets its document: an update goes on to its mutator, a read ends.
\* overlap says what the holder's object then has in common with the cache;
\* a cache that somebody else replaced has nothing in common with it.
Obtain(p, doc, overlap) ==
    /\ work' = [work EXCEPT ![p] = doc]
    /\ Goes(p, IF p \in Updates THEN "mutating" ELSE "done")
    /\ shared' = IF p \in Updates THEN overlap
                 ELSE IF cache' = cache THEN shared ELSE "none"

-----------------------------------------------------------------------------
\* updateRuntimeDatabase is called: dbMutex.acquire() takes its to in line.
Ask(u) ==
    /\ place[u] = "idle"
    /\ line' = Append(line, u)
    /\ Goes(u, "locking")
    /\ UNCHANGED <<rowVars, cache, work, shared, replies, acked, before, errors, deaths>>

\* Seeded fault: nobody waits for the previous holder.
GrantAtOnce(u) ==
    /\ place[u] = "locking"
    /\ Goes(u, "reading")
    /\ UNCHANGED <<rowVars, cache, line, work, shared, replies, acked, before, errors, deaths>>

\* await current: the previous link of the promise chain is released.
Grant(u) ==
    /\ place[u] = "locking"
    /\ Head(line) = u
    /\ Goes(u, "reading")
    /\ UNCHANGED <<rowVars, cache, line, work, shared, replies, acked, before, errors, deaths>>

\* readRuntimeDatabase is called without the mutex.
StartRead(r) ==
    /\ place[r] = "idle"
    /\ Goes(r, "reading")
    /\ before' = [before EXCEPT ![r] = acked]
    /\ UNCHANGED <<rowVars, cache, line, work, shared, replies, acked, errors, deaths>>

\* SafeJsonStore.read with a fresh cache.
ReadCache(p) ==
    /\ place[p] = "reading"
    /\ cache # Absent
    /\ UNCHANGED cache
    /\ Obtain(p, cache, "arrays")
    /\ UNCHANGED <<rowVars, line, replies, acked, before, errors, deaths>>

\* Without one it is decided that the row is read, after some awaits.
MissCache(p) ==
    /\ place[p] = "reading"
    /\ cache = Absent
    /\ Goes(p, "selecting")
    /\ UNCHANGED <<rowVars, cache, line, work, shared, replies, acked, before, errors, deaths>>

Reply(p, stmt, doc) == [call |-> p, stmt |-> stmt, doc |-> doc]

SelectRow(p) ==
    /\ place[p] = "selecting"
    /\ replies' = Append(replies, Reply(p, "select", row))
    /\ Goes(p, "awaiting")
    /\ UNCHANGED <<rowVars, cache, line, work, shared, acked, before, errors, deaths>>

\* Any error of the read is swallowed and looks like a missing row.
SelectFails(p) ==
    /\ place[p] = "selecting"
    /\ readErrors < MaxReadErrors
    /\ readErrors' = readErrors + 1
    /\ Goes(p, "creating")
    /\ UNCHANGED <<rowVars, cache, line, work, shared, replies, acked, before, writeErrors, deaths>>

\* createRuntimeDatabase and its write, by whoever missed the row.
InsertEmpty(p) ==
    /\ place[p] = "creating"
    /\ row' = Empty
    /\ makers' = makers \cup {p}
    /\ wiped' = (wiped \/ row # Absent)
    /\ replies' = Append(replies, Reply(p, "create", Empty))
    /\ Goes(p, "awaiting")
    /\ UNCHANGED <<transactionVars, cache, line, work, shared, acked, before, errors, deaths>>

\* The mutator: the change goes to the object of the call and, where the two
\* overlap, to the cache; then the call writes, or rejects if the mutator throws.
Mutate(u, throws) ==
    /\ place[u] = "mutating"
    /\ work' = [work EXCEPT ![u] = @ \cup {u}]
    /\ cache' = IF cache # Absent /\ (shared = "whole" \/ (shared = "arrays" /\ u \in InPlace))
                THEN cache \cup {u} ELSE cache
    /\ Goes(u, IF throws THEN "failed" ELSE "writing")
    /\ IF throws THEN Release(u) ELSE UNCHANGED line
    /\ UNCHANGED <<rowVars, shared, replies, acked, before, errors, deaths>>

WriteRow(u) ==
    /\ place[u] = "writing"
    /\ row' = work[u]
    /\ replies' = Append(replies, Reply(u, "write", work[u]))
    /\ Goes(u, "awaiting")
    /\ UNCHANGED <<makers, wiped, transactionVars, cache, line, work, shared, acked, before, errors, deaths>>

\* SafeJsonStore.write rejects: the call rejects and the cache stays as it is.
WriteFails(p) ==
    /\ place[p] \in {"creating", "writing"}
    /\ writeErrors < MaxWriteErrors
    /\ writeErrors' = writeErrors + 1
    /\ Goes(p, "failed")
    /\ IF p \in Updates THEN Release(p) ELSE UNCHANGED line
    /\ UNCHANGED <<rowVars, cache, work, shared, replies, acked, before, readErrors, deaths>>

-----------------------------------------------------------------------------
(* The callbacks of executed statements.                                    *)

\* The row of a SELECT, if there was one, is cached and normalized.
SelectReturns(p, doc) ==
    IF doc = Absent
    THEN Goes(p, "creating") /\ UNCHANGED <<cache, line, work, shared, acked>>
    ELSE cache' = doc /\ Obtain(p, doc, "arrays") /\ UNCHANGED <<line, acked>>

\* A new document is handed out as the very object that is now the cache.
CreateReturns(p, doc) ==
    cache' = doc /\ Obtain(p, doc, "whole") /\ UNCHANGED <<line, acked>>

\* Seeded fault: the cache keeps what it had.
WriteReturnsStale(u, doc) ==
    /\ acked' = acked \cup {u}
    /\ Goes(u, "done")
    /\ Release(u)
    /\ UNCHANGED <<cache, shared, work>>

\* The write is acknowledged, the cache refreshed and the mutex released.
WriteReturns(u, doc) ==
    /\ cache' = doc
    /\ acked' = acked \cup {u}
    /\ Goes(u, "done")
    /\ Release(u)
    /\ shared' = "none"
    /\ UNCHANGED work

\* The driver calls back in the order in which it executed the statements.
CallsBack ==
    /\ replies # <<>>
    /\ replies' = Tail(replies)
    /\ LET reply == Head(replies) IN
       \/ reply.stmt = "select" /\ SelectReturns(reply.call, reply.doc)
       \/ reply.stmt = "create" /\ CreateReturns(reply.call, reply.doc)
       \/ reply.stmt = "write"  /\ WriteReturns(reply.call, reply.doc)
    /\ UNCHANGED <<rowVars, before, errors, deaths>>

\* 500 ms pass.
CacheExpires ==
    /\ cache # Absent
    /\ cache' = Absent
    /\ UNCHANGED <<rowVars, line, place, work, shared, replies, acked, before, errors, deaths>>

-----------------------------------------------------------------------------
(* Transactions of others on the same connection.                           *)

\* BEGIN IMMEDIATE; it fails, and nothing happens, inside of another.
BeginForeign ==
    /\ ~inTransaction
    /\ transactions < MaxTransactions
    /\ transactions' = transactions + 1
    /\ inTransaction' = TRUE
    /\ savedRow' = row
    /\ UNCHANGED <<row, makers, wiped, undone, cache, line, place, work, shared, replies, acked,
                   before, errors, deaths>>

\* The row is taken back to what it was at BEGIN.
TakeBack ==
    /\ row' = savedRow
    /\ undone' = (undone \/ row # savedRow)
    /\ inTransaction' = FALSE
    /\ savedRow' = Absent

CommitForeign ==
    /\ inTransaction
    /\ inTransaction' = FALSE
    /\ savedRow' = Absent
    /\ UNCHANGED <<row, makers, wiped, undone, transactions, cache, line, place, work, shared,
                   replies, acked, before, errors, deaths>>

\* A report or suggestion that does not exist, a statement or a sender that fails.
RollbackForeign ==
    /\ inTransaction
    /\ TakeBack
    /\ UNCHANGED <<makers, wiped, transactions, cache, line, place, work, shared, replies, acked,
                   before, errors, deaths>>

\* The process dies and starts again; calls under way are gone.
StoreCrash ==
    /\ deaths < MaxDeaths
    /\ deaths' = deaths + 1
    /\ cache' = Absent
    /\ line' = <<>>
    /\ place' = [p \in StoreCalls |-> IF place[p] = "idle" \/ place[p] \in Over THEN place[p] ELSE "failed"]
    /\ shared' = "none"
    /\ replies' = <<>>
    /\ IF inTransaction THEN TakeBack ELSE UNCHANGED <<row, inTransaction, savedRow, undone>>
    /\ UNCHANGED <<makers, wiped, transactions, work, acked, before, errors>>

-----------------------------------------------------------------------------
CallStep(p) ==
    \/ ReadCache(p) \/ MissCache(p) \/ SelectRow(p) \/ SelectFails(p)
    \/ InsertEmpty(p) \/ WriteFails(p)

UpdateStep(u) ==
    \/ Grant(u) \/ WriteRow(u)
    \/ \E throws \in BOOLEAN : Mutate(u, throws)

StoreNext ==
    \/ \E u \in Updates : Ask(u) \/ UpdateStep(u)
    \/ \E r \in Readers : StartRead(r)
    \/ \E p \in StoreCalls : CallStep(p)
    \/ CallsBack
    \/ CacheExpires \/ StoreCrash
    \/ BeginForeign \/ CommitForeign \/ RollbackForeign

StoreSafety == StoreInit /\ [][StoreNext]_storeVars

-----------------------------------------------------------------------------

\* What an update has been told is stored is in the row from then on, across
\* failing writes and crashes as well: only an empty document that a call puts in
\* the to of an existing one (readRuntimeDatabase), or the end of a transaction
\* that the write had fallen into, ever takes it away.
UpdatesStayUnlessWiped == acked # {} /\ ~wiped /\ ~undone => row # Absent /\ acked \subseteq row

\* Read your writes: a read that starts after an update resolved returns a
\* document with that update, whether it comes from the cache or from the row.
ReadsSeeAcknowledged ==
    \A r \in Readers : place[r] = "done" /\ ~wiped /\ ~undone => before[r] \subseteq work[r]

-----------------------------------------------------------------------------
\* "Concurrent updates are serialized and no updates are lost"
\* (engine/tests/concurrency-mutex.test.ts:27).  The code loses them all when a
\* read fails, or finds no row yet, and writes an empty document, and loses those
\* that a transaction of somebody else takes back.
NoUpdateIsLost == acked # {} => row # Absent /\ acked \subseteq row
=============================================================================
