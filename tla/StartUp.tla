------------------------------- MODULE StartUp ------------------------------
(***************************************************************************)
(* A start of the server: the schema of the database brought up to the     *)
(* build, the document of earlier releases taken over from its JSON file,  *)
(* the port opened, and the documents' own migrations, which run while     *)
(* requests are served already.  The process may die at any step and is    *)
(* then started again, perhaps as another build.  As in production, the     *)
(* JSON file is put away once it is taken over.                            *)
(* A user name is a pair of a base and a number, 1 for the bare base.      *)
(***************************************************************************)
EXTENDS Integers, FiniteSets, Sequences

CONSTANTS Builds,        \* builds of the server: sequences with the checksum of each version
          AlterVersion,  \* the version that adds columns, which cannot be done twice
          Legacy,        \* the users of the JSON file: a sequence of [id, base, username, password, fool]
          LegacyComments,
          Newcomers,     \* users that register or come with an identity of a provider
          NoDocument, NoUsername,
          Asked,         \* the user names people ask for
          MaxStarts,     \* bound on the starts explored
          MaxStartFaults \* bound on the statements that fail

Usernames == STRING \X (Nat \ {0})
People == [id : STRING, base : STRING, username : Usernames \cup {NoUsername},
           password : BOOLEAN, fool : BOOLEAN]
Members == [id : STRING, base : STRING, username : Usernames \cup {NoUsername},
            password : BOOLEAN, fool : BOOLEAN, admin : BOOLEAN]
UserDocuments == [schema : {3, 4}, users : Seq(Members), identities : Seq(STRING \X {"local", "github"})]

\* Every user name of an earlier release was chosen as below: no two users have the same.
ASSUME StartUpAssumption ==
    /\ MaxStarts \in Nat /\ MaxStartFaults \in Nat
    /\ AlterVersion \in Nat \ {0}
    /\ Builds \subseteq Seq(STRING) /\ Builds # {}
    /\ Legacy \in Seq(People) /\ Newcomers \subseteq People /\ Asked \subseteq Usernames
    /\ NoUsername \notin Usernames /\ NoDocument \notin UserDocuments
    /\ \A i, j \in DOMAIN Legacy : Legacy[i].username = Legacy[j].username
                                   => i = j \/ Legacy[i].username = NoUsername
    /\ \A u \in Newcomers : \A i \in DOMAIN Legacy : Legacy[i].id # u.id

VARIABLES database,      \* what is committed to the file of SQLite, and whether the JSON file is there
          working,       \* the same as the transaction in progress sees it
          stage, version,\* where the start is; the next version of the schema to look at
          build, starts, startFaults,
          emptied,         \* a document was replaced by an empty one
          unfinished     \* a migration of the document failed in this start and was passed over

startVars == <<database, working, stage, version, build, starts, startFaults, emptied, unfinished>>

Fresh0 == [schema |-> 3, users |-> <<>>, identities |-> <<>>]
\* A user of the document, who is no administrator yet.
Member(u, username) == [id |-> u.id, base |-> u.base, username |-> username,
                        password |-> u.password, fool |-> u.fool, admin |-> FALSE]
LegacyDocument == [Fresh0 EXCEPT !.users = [i \in DOMAIN Legacy |-> Member(Legacy[i], Legacy[i].username)]]

LegacyFileThere == database.jsonFile = "there"
Serving == stage \in {"listening", "fresh", "promote", "identities", "heal", "up"}
InDocument(field) == [database EXCEPT !.doc = field]

StartUpInit ==
    /\ database \in [applied : {<<>>}, altered : {FALSE}, doc : {NoDocument}, mirror : {{}}, comments : {{}},
                     jsonFile : {"none", "there"}]
    /\ working = NoDocument
    /\ stage = "down" /\ version = 1
    /\ build = CHOOSE b \in Builds : \A c \in Builds : Len(c) >= Len(b)
    /\ starts = 0 /\ startFaults = 0
    /\ emptied = FALSE /\ unfinished = FALSE
-----------------------------------------------------------------------------
\* Moves to a stage with what the transaction holds and what is committed.
To(s, kept, held) ==
    /\ stage' = s /\ database' = kept /\ working' = held
    /\ UNCHANGED <<build, starts, emptied, unfinished>>

\* The error leaves initializeDatabase after ROLLBACK; nothing catches it and the process ends.
Abort == To("failed", database, NoDocument) /\ UNCHANGED version

Fails == startFaults < MaxStartFaults /\ startFaults' = startFaults + 1
Works == UNCHANGED startFaults

\* What of a change within the transaction is committed already: nothing.
EachAtOnce(held) == held
Kept(held) == database

\* initializeDatabase: opens the file and begins an IMMEDIATE transaction.
OpenDatabase ==
    /\ stage = "down" /\ starts < MaxStarts
    /\ stage' = "schema" /\ version' = 1 /\ working' = database
    /\ starts' = starts + 1 /\ unfinished' = FALSE
    /\ UNCHANGED <<database, build, startFaults, emptied>>

\* runProgrammaticMigrations: an applied version must have the checksum of this build, a new
\* one is executed and noted.
Unmet(v) == \/ v \in DOMAIN working.applied /\ working.applied[v] # build[v]
            \/ v \notin DOMAIN working.applied /\ v = AlterVersion /\ working.altered

Executed(v) == [working EXCEPT !.altered = @ \/ v = AlterVersion]
Noted(v) == [working EXCEPT !.applied = [w \in DOMAIN working.applied \cup {v} |->
                                           IF w = v THEN build[v] ELSE working.applied[w]]]

SchemaStep ==
    /\ stage = "schema" /\ version <= Len(build)
    /\ \/ Unmet(version) /\ Abort /\ Works
       \/ ~Unmet(version) /\ Fails /\ Abort
       \/ /\ ~Unmet(version) /\ Works
          /\ IF version \in DOMAIN working.applied
             THEN To("schema", database, working) /\ version' = version + 1
             ELSE To("note", Kept(Executed(version)), Executed(version)) /\ UNCHANGED version

NoteVersion ==
    /\ stage = "note"
    /\ \/ Works /\ To("schema", Kept(Noted(version)), Noted(version)) /\ version' = version + 1
       \/ Fails /\ Abort

CommitSchema ==
    /\ stage = "schema" /\ version > Len(build) /\ UNCHANGED version
    /\ \/ Works /\ To("legacy", working, NoDocument)
       \/ Fails /\ Abort
-----------------------------------------------------------------------------
\* migrateLegacyJson: only when the file is there and no document is; the document, the
\* mirror of the users and the comments go into one transaction.
BeginLegacy ==
    /\ stage = "legacy" /\ UNCHANGED version
    /\ IF LegacyFileThere /\ database.doc = NoDocument
       THEN \/ Works /\ To("mirror", Kept(InDocument(LegacyDocument)), InDocument(LegacyDocument))
            \/ Fails /\ Abort
       ELSE Works /\ To("listening", database, NoDocument)

ImportUsers ==
    /\ stage = "mirror" /\ UNCHANGED version
    /\ \/ Works /\ LET d == [working EXCEPT !.mirror = {Legacy[i].id : i \in DOMAIN Legacy}]
                   IN  To("comments", Kept(d), d)
       \/ Fails /\ Abort

ImportComments ==
    /\ stage = "comments" /\ UNCHANGED version
    /\ \/ Works /\ To("archive", [working EXCEPT !.comments = LegacyComments], NoDocument)
       \/ Fails /\ Abort

\* The checkpoint and the copies come after COMMIT: when one fails, ROLLBACK has no
\* transaction to end, and the process ends with what is committed.
ArchiveFile ==
    /\ stage = "archive" /\ UNCHANGED version
    /\ \/ Works /\ To("listening", [database EXCEPT !.jsonFile = "archived"], NoDocument)
       \/ Fails /\ To("failed", database, NoDocument)
-----------------------------------------------------------------------------
\* runMigrations first reads the document.  An error of the read is taken for "no document",
\* and an empty one is written, outside the mutex of the updates.
ReadDocument ==
    /\ stage = "listening" /\ UNCHANGED version
    /\ \/ Works /\ To(IF database.doc = NoDocument THEN "fresh" ELSE "promote", database, NoDocument)
       \/ Fails /\ To("fresh", database, NoDocument)

WriteFresh ==
    /\ stage = "fresh" /\ Works
    /\ stage' = "promote" /\ database' = InDocument(Fresh0)
    /\ emptied' = (emptied \/ database.doc # NoDocument)
    /\ UNCHANGED <<working, version, build, starts, unfinished>>

\* The write fails: no migration of the document runs in this start.
WriteFreshFails ==
    /\ stage = "fresh" /\ Fails
    /\ stage' = "heal" /\ unfinished' = TRUE
    /\ UNCHANGED <<database, working, version, build, starts, emptied>>

\* A migration of the document is an update; one that fails is logged and passed over.
Migrates(from, to, doc) ==
    /\ stage = from
    /\ \/ Works /\ To(to, InDocument(doc), working)
       \/ /\ Fails /\ stage' = to /\ unfinished' = TRUE
          /\ UNCHANGED <<database, working, build, starts, emptied>>
    /\ UNCHANGED version

Promoted(d) == [d EXCEPT !.users = [i \in DOMAIN d.users |-> [d.users[i] EXCEPT !.admin = @ \/ d.users[i].fool]]]

PromoteFool == Migrates("promote", "identities", Promoted(database.doc))

\* A name without a look at what is taken by then.
UniqueUsernameBare(base, taken) == <<base, 1>>

\* generateUniqueUsername: the base, or the base with the first number that is free.
UniqueUsername(base, taken) ==
    <<base, CHOOSE n \in 1..Cardinality(taken) + 1 : /\ <<base, n>> \notin taken
                                                      /\ \A m \in 1..n - 1 : <<base, m>> \in taken>>

Taken(d) == {d.users[i].username : i \in DOMAIN d.users} \ {NoUsername}
Named(d, i, name) == [d EXCEPT !.users[i].username = name]
HasLocal(d, id) == \E i \in DOMAIN d.identities : d.identities[i] = <<id, "local">>

\* backfillUser: a user name, and a local identity for who has a password and none yet.
Backfilled(d, i) ==
    LET user == d.users[i]
        named == IF user.username # NoUsername THEN d
                 ELSE Named(d, i, UniqueUsername(user.base, Taken(d)))
    IN  IF user.password /\ ~HasLocal(d, user.id)
        THEN [named EXCEPT !.identities = Append(@, <<user.id, "local">>)] ELSE named

\* compareSemver with "0.4.0"; a document without a version counts as 0.3.0.
Outdated(d) == d.schema < 4

\* applyMigration0004: nothing from schema 0.4.0 on, else each user in turn.
Migrated0004(d) ==
    LET upTo[k \in 0..Len(d.users)] == IF k = 0 THEN d ELSE Backfilled(upTo[k - 1], k)
    IN  IF Outdated(d) THEN [upTo[Len(d.users)] EXCEPT !.schema = 4] ELSE d

Migration0004 == Migrates("identities", "heal", Migrated0004(database.doc))

\* healTaskStates and startScheduler; an error of the former ends the process.
HealAndGo ==
    /\ stage = "heal" /\ UNCHANGED version
    /\ \/ Works /\ To("up", database, NoDocument)
       \/ Fails /\ To("failed", database, NoDocument)
-----------------------------------------------------------------------------
\* Requests that come as soon as the port is open: a registration gives neither a user name
\* nor an identity, a first sign-in through a provider gives both.
ReadOrFresh == IF database.doc = NoDocument THEN Fresh0 ELSE database.doc

Joins(u, username, identities) ==
    LET d == ReadOrFresh
    IN  /\ Serving /\ \A i \in DOMAIN d.users : d.users[i].id # u.id
        /\ database' = InDocument([d EXCEPT
               !.users = Append(@, Member(u, username)),
               !.identities = @ \o identities])
        /\ UNCHANGED <<working, stage, version, build, starts, startFaults, emptied, unfinished>>

RegisterNewcomer(u) == u.password /\ Joins(u, NoUsername, <<>>)
OAuthNewcomer(u) == /\ ~u.password
                    /\ Joins(u, UniqueUsername(u.base, Taken(ReadOrFresh)), <<<<u.id, "github">>>>)

\* updateMyProfile, within one update: a name that nobody else has.
ChangeUsername(i, name) ==
    LET d == database.doc
    IN  /\ Serving /\ d # NoDocument /\ i \in DOMAIN d.users
        /\ \A j \in DOMAIN d.users : j # i => d.users[j].username # name
        /\ database' = InDocument(Named(d, i, name))
        /\ UNCHANGED <<working, stage, version, build, starts, startFaults, emptied, unfinished>>

\* The process dies or is stopped; what was not committed is gone.
Stops ==
    /\ stage \notin {"down"}
    /\ stage' = "down" /\ working' = NoDocument
    /\ UNCHANGED <<database, version, build, starts, startFaults, emptied, unfinished>>

\* Another build is put in its place.
Deploy(b) ==
    /\ stage = "down" /\ b # build /\ build' = b
    /\ UNCHANGED <<database, working, stage, version, starts, startFaults, emptied, unfinished>>

StartUpNext ==
    \/ OpenDatabase \/ SchemaStep \/ NoteVersion \/ CommitSchema
    \/ BeginLegacy \/ ImportUsers \/ ImportComments \/ ArchiveFile
    \/ ReadDocument \/ WriteFresh \/ WriteFreshFails \/ PromoteFool \/ Migration0004 \/ HealAndGo
    \/ \E u \in Newcomers : RegisterNewcomer(u) \/ OAuthNewcomer(u)
    \/ \E i \in DOMAIN Legacy, name \in Asked : ChangeUsername(i, name)
    \/ Stops
    \/ \E b \in Builds : Deploy(b)
-----------------------------------------------------------------------------
\* A database is wholly of a version or not at all, so that every later start can go on from it:
\* the columns of the version that cannot be repeated are there exactly when it is noted, and a
\* server that serves has each version in the form its build knows.
SchemaIsWhole ==
    /\ database.altered <=> AlterVersion \in DOMAIN database.applied
    /\ Serving => \A v \in DOMAIN build : database.applied[v] = build[v]

\* The document of the JSON file arrives with its users and comments or not at all, and the file
\* is put away only then.
LegacyIsWhole ==
    LET ids == {Legacy[i].id : i \in DOMAIN Legacy}
    IN  /\ database.doc = NoDocument => database.mirror = {} /\ database.comments = {}
        /\ database.jsonFile = "archived" => database.comments = LegacyComments /\ database.mirror = ids
        /\ database.jsonFile # "none" /\ Serving /\ ~emptied =>
               /\ database.comments = LegacyComments /\ database.mirror = ids
               /\ ids \subseteq {database.doc.users[i].id : i \in DOMAIN database.doc.users}

\* However many starts it took and whoever came while the migrations ran, no two users share a
\* user name, nobody has two local identities, and after a start in which no migration failed
\* every user of the JSON file has a name and, with a password, a local identity.
PeopleAreMigrated ==
    database.doc # NoDocument =>
        LET d == database.doc
            locals(id) == {p \in DOMAIN d.identities : d.identities[p] = <<id, "local">>}
        IN  /\ \A i, j \in DOMAIN d.users : d.users[i].username = d.users[j].username
                                            => i = j \/ d.users[i].username = NoUsername
            /\ \A i \in DOMAIN d.users : \A p, q \in locals(d.users[i].id) : p = q
            /\ stage = "up" /\ ~unfinished =>
                   \A i \in DOMAIN d.users : \A k \in DOMAIN Legacy : d.users[i].id = Legacy[k].id =>
                       /\ d.users[i].username # NoUsername
                       /\ d.users[i].fool => d.users[i].admin
                       /\ d.users[i].password => locals(d.users[i].id) # {}

\* initializeDatabase, migrateLegacyJson, runMigrations (db-sqlite.ts:339-563, migrations.ts:49-85):
\* whatever fails or dies on the way, a start never leaves a database that is half of one release
\* and half of another.
NothingIsHalfMigrated == SchemaIsWhole /\ LegacyIsWhole /\ PeopleAreMigrated
=============================================================================
