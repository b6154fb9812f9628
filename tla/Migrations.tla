----------------------------- MODULE Migrations -----------------------------
(***************************************************************************)
(* Opening the results database (store/db.py): every command and every     *)
(* request of the API opens its own connection and brings the schema up to *)
(* date first.  Several of them may open the same file at once, with       *)
(* different versions of the program, and any of them may be killed.       *)
(*                                                                         *)
(* SQLite is external: a transaction takes the write lock at its first     *)
(* write, a second writer waits for it or gives up after the busy timeout, *)
(* and what was not committed is gone when the process dies.               *)
(***************************************************************************)
EXTENDS Integers, FiniteSets

CONSTANTS
    Openers,    \* processes that open the database
    Newest,     \* number of migrations of the newest program
    Known,      \* Known[o]: number of migrations that opener o ships with
    MaxKills,   \* bound of the model on processes killed
    Nobody      \* the write lock is free

ASSUME MigrationsAssumption ==
    /\ Newest \in Nat \ {0}
    /\ Known \in [Openers -> 1 .. Newest]
    /\ MaxKills \in Nat
    /\ Nobody \notin Openers

Versions == 1 .. Newest

VARIABLES
    recorded,   \* versions in schema_migrations, committed
    tables,     \* versions whose tables exist, committed
    lock,       \* the connection with the write lock
    conn,       \* conn[o]: where the connection of opener o stands
    applied,    \* applied[o]: the versions that migrate() has seen or applied
    staged,     \* tables and versions written by the open transaction
    kills

schemaVars == <<recorded, tables, lock, conn, applied, staged, kills>>

NothingStaged == [tables |-> {}, recorded |-> {}]

SchemaInit ==
    /\ recorded = {}
    /\ tables = {}
    /\ lock = Nobody
    /\ conn = [o \in Openers |-> "closed"]
    /\ applied = [o \in Openers |-> {}]
    /\ staged = NothingStaged
    /\ kills = 0

Pending(o) == 1 .. Known[o] \ applied[o]
First(S) == CHOOSE v \in S : \A w \in S : v <= w

-----------------------------------------------------------------------------
\* Store.open up to SELECT version FROM schema_migrations.  A database that a
\* newer program has written is refused.
ReadVersions(o) ==
    /\ conn[o] = "closed"
    /\ applied' = [applied EXCEPT ![o] = recorded]
    /\ conn' = [conn EXCEPT ![o] =
                IF ~(recorded \subseteq 1 .. Known[o]) THEN "refused"
                ELSE IF Pending(o)' = {} THEN "open" ELSE "migrate"]
    /\ UNCHANGED <<recorded, tables, lock, staged, kills>>

\* Mutant: the statements of a migration commit one by one.
CreateTablesAutocommit(o) ==
    LET v == First(Pending(o)) IN
    /\ conn[o] = "migrate"
    /\ lock = Nobody
    /\ v \notin tables
    /\ lock' = o
    /\ tables' = tables \cup {v}
    /\ staged' = [NothingStaged EXCEPT !.tables = {v}]
    /\ conn' = [conn EXCEPT ![o] = "record"]
    /\ UNCHANGED <<recorded, applied, kills>>

\* Mutant: CREATE TABLE IF NOT EXISTS, and INSERT OR IGNORE of its version.
CreateTablesAgain(o) ==
    LET v == First(Pending(o)) IN
    /\ conn[o] = "migrate"
    /\ lock = Nobody
    /\ lock' = o
    /\ staged' = [NothingStaged EXCEPT !.tables = {v}]
    /\ conn' = [conn EXCEPT ![o] = "record"]
    /\ UNCHANGED <<recorded, tables, applied, kills>>

\* BEGIN and the statements of the first pending migration.  Which one that is
\* was read before; other processes may have migrated since.
CreateTables(o) ==
    LET v == First(Pending(o)) IN
    /\ conn[o] = "migrate"
    /\ lock = Nobody
    /\ v \notin tables
    /\ lock' = o
    /\ staged' = [NothingStaged EXCEPT !.tables = {v}]
    /\ conn' = [conn EXCEPT ![o] = "record"]
    /\ UNCHANGED <<recorded, tables, applied, kills>>

\* CREATE TABLE meets a table that exists by now: the transaction is rolled
\* back and open() raises.
CreateTablesFails(o) ==
    /\ conn[o] = "migrate"
    /\ lock = Nobody
    /\ First(Pending(o)) \in tables
    /\ conn' = [conn EXCEPT ![o] = "failed"]
    /\ UNCHANGED <<recorded, tables, lock, applied, staged, kills>>

\* The write lock stays taken for longer than the busy timeout: open() raises,
\* and the database is what others make of it.
WaitsTooLong(o) ==
    /\ conn[o] = "migrate"
    /\ lock # Nobody
    /\ conn' = [conn EXCEPT ![o] = "busy"]
    /\ UNCHANGED <<recorded, tables, lock, applied, staged, kills>>

\* INSERT INTO schema_migrations.  Its primary key is free: the tables of the
\* version were not there, and both are committed together.
RecordVersion(o) ==
    /\ conn[o] = "record"
    /\ staged' = [staged EXCEPT !.recorded = {First(Pending(o))}]
    /\ conn' = [conn EXCEPT ![o] = "commit"]
    /\ UNCHANGED <<recorded, tables, lock, applied, kills>>

\* COMMIT, then the next pending migration, if any.
CommitVersion(o) ==
    /\ conn[o] = "commit"
    /\ tables' = tables \cup staged.tables
    /\ recorded' = recorded \cup staged.recorded
    /\ applied' = [applied EXCEPT ![o] = @ \cup staged.recorded]
    /\ staged' = NothingStaged
    /\ lock' = Nobody
    /\ conn' = [conn EXCEPT ![o] = IF Pending(o)' = {} THEN "open" ELSE "migrate"]
    /\ UNCHANGED kills

\* The process dies; its open transaction is undone.  It may be run again.
Kill(o) ==
    /\ kills < MaxKills
    /\ kills' = kills + 1
    /\ conn' = [conn EXCEPT ![o] = "closed"]
    /\ applied' = [applied EXCEPT ![o] = {}]
    /\ lock' = IF lock = o THEN Nobody ELSE lock
    /\ staged' = IF lock = o THEN NothingStaged ELSE staged
    /\ UNCHANGED <<recorded, tables>>

\* The connection is closed; the next command or request opens another.
Close(o) ==
    /\ conn[o] \in {"open", "failed", "busy", "refused"}
    /\ conn' = [conn EXCEPT ![o] = "closed"]
    /\ applied' = [applied EXCEPT ![o] = {}]
    /\ UNCHANGED <<recorded, tables, lock, staged, kills>>

SchemaNext ==
    \E o \in Openers :
        \/ ReadVersions(o)
        \/ CreateTables(o)
        \/ CreateTablesFails(o)
        \/ WaitsTooLong(o)
        \/ RecordVersion(o)
        \/ CommitVersion(o)
        \/ Kill(o)
        \/ Close(o)

SchemaSpec == SchemaInit /\ [][SchemaNext]_schemaVars

-----------------------------------------------------------------------------
\* The shape of the state.
SchemaTyped ==
    /\ recorded \subseteq Versions
    /\ tables \subseteq Versions
    /\ lock \in Openers \cup {Nobody}
    /\ conn \in [Openers -> {"closed", "migrate", "record", "commit", "open",
                           "failed", "busy", "refused"}]
    /\ applied \in [Openers -> SUBSET Versions]
    /\ staged \in [tables : SUBSET Versions, recorded : SUBSET Versions]
    /\ kills \in 0 .. MaxKills

\* "Apply the schema and record the version" is atomic: whoever is killed
\* where, the tables of a version exist exactly when it is recorded, and
\* versions are applied in order, without a gap.
SchemaMatchesVersions ==
    /\ tables = recorded
    /\ \A v \in recorded : 1 .. v \subseteq recorded

\* A connection that is open has the schema its program was written for, and
\* was opened on that one: a newer one is refused, though a newer program may
\* migrate the database while the connection is in use.
OpenHasSchema ==
    \A o \in Openers : conn[o] = "open" =>
        /\ applied[o] = 1 .. Known[o]
        /\ applied[o] \subseteq tables

\* Whoever opens, migrates or is killed: the schema is whole, and a connection
\* in use has the one its program needs.
SchemaSound == SchemaTyped /\ SchemaMatchesVersions /\ OpenHasSchema

\* The versions are read outside the transaction that applies what is pending,
\* and programs of any version may migrate in between.  Still a program only
\* ever takes the schema one version further, from what that version was written
\* for, to one that the program knows: nothing is applied twice, out of order or
\* on top of the schema of a newer program.
MigratesKnownSchema ==
    [][\A o \in Openers :
         conn[o] = "commit" /\ conn'[o] \in {"migrate", "open"}
         => \E v \in 1 .. Known[o] :
                recorded = 1 .. v - 1 /\ recorded' = 1 .. v]_schemaVars

\* Store.open: "open (creating if needed) a database and bring its schema up to
\* date" - for programs of one version, whoever else opens it: no migration
\* fails.  To wait too long for the write lock ("busy") is no such failure.
OpenSucceeds ==
    (\A o \in Openers : Known[o] = Newest) => \A o \in Openers : conn[o] # "failed"
=============================================================================
