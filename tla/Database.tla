------------------------------ MODULE Database ------------------------------
(***************************************************************************)
(* pkg/db and migrations/: NewDB connects, RunMigrations executes the SQL  *)
(* files in the order of their names.  Each file goes to the server as one *)
(* batch of statements, which the server takes as one transaction.         *)
(* Several processes may start at once, and each may crash at any point    *)
(* and start again.                                                        *)
(*                                                                         *)
(* A statement is the object it creates: a table only if it does not exist *)
(* yet, everything else unconditionally.                                   *)
(***************************************************************************)
EXTENDS Naturals, Sequences, Functions

CONSTANTS Process,   \* processes that run the migrations
          MaxStarts  \* bound: starts of one process

ASSUME MaxStartsIsNat == MaxStarts \in Nat

VARIABLES schema,  \* the objects of the database
          mpc,     \* where a process is
          file,    \* the file it executes
          tx,      \* the objects its open transaction has created
          starts   \* how often it has started

dbVars == <<schema, mpc, file, tx, starts>>

Table(t)      == <<"table", t>>
Hypertable(t) == <<"hypertable", t>>
Index(c)      == <<"index", c>>

\* migrations/*.sql
sqlFiles ==
    << <<Table("cost_records"), Hypertable("cost_records"), <<"retention", "cost_records">> >>,
       <<Table("forecasts"), Hypertable("forecasts")>>,
       <<Table("audit_log"), Index("timestamp"), Index("actor"), Index("namespace")>>,
       <<Table("shared_cost_allocation"), Hypertable("shared_cost_allocation")>> >>

IfNotExists(object) == object[1] = "table"

DatabaseInit ==
    /\ schema = {}
    /\ mpc = [p \in Process |-> "down"]
    /\ file = [p \in Process |-> 1]
    /\ tx = [p \in Process |-> <<>>]
    /\ starts = [p \in Process |-> 0]

Goto(p, l) == mpc' = [mpc EXCEPT ![p] = l]

\* What a process had in memory, and its open transaction, are gone.
Reset(p) ==
    /\ file' = [file EXCEPT ![p] = 1]
    /\ tx' = [tx EXCEPT ![p] = <<>>]

\* NewDB: the pool is created and the ping answered, or it is not.
NewDB(p) ==
    /\ mpc[p] = "down"
    /\ starts[p] < MaxStarts
    /\ starts' = [starts EXCEPT ![p] = @ + 1]
    /\ Goto(p, "migrate") \/ Goto(p, "failed")
    /\ UNCHANGED <<schema, file, tx>>

\* Faulty variant: every statement commits at once.
StatementCommits(p) ==
    LET object == sqlFiles[file[p]][Len(tx[p]) + 1]
    IN  /\ mpc[p] = "migrate"
        /\ file[p] \in DOMAIN sqlFiles
        /\ Len(tx[p]) < Len(sqlFiles[file[p]])
        /\ object \notin schema \/ IfNotExists(object)
        /\ tx' = [tx EXCEPT ![p] = Append(@, object)]
        /\ schema' = schema \cup {object}
        /\ UNCHANGED <<mpc, file, starts>>

\* The next statement of the file.  It waits for another transaction that has
\* created the same object.
Statement(p) ==
    LET object == sqlFiles[file[p]][Len(tx[p]) + 1]
    IN  /\ mpc[p] = "migrate"
        /\ file[p] \in DOMAIN sqlFiles
        /\ Len(tx[p]) < Len(sqlFiles[file[p]])
        /\ \A q \in Process \ {p} : object \notin Range(tx[q])
        /\ object \notin schema \/ IfNotExists(object)
        /\ tx' = [tx EXCEPT ![p] = Append(@, object)]
        /\ UNCHANGED <<schema, mpc, file, starts>>

\* The end of a file: its objects are there, all at once.
Commit(p) ==
    /\ mpc[p] = "migrate"
    /\ file[p] \in DOMAIN sqlFiles
    /\ Len(tx[p]) = Len(sqlFiles[file[p]])
    /\ schema' = schema \cup Range(tx[p])
    /\ file' = [file EXCEPT ![p] = @ + 1]
    /\ tx' = [tx EXCEPT ![p] = <<>>]
    /\ UNCHANGED <<mpc, starts>>

\* A file cannot be read, its object exists already, or the request fails: the
\* transaction is rolled back and RunMigrations returns the error.
MigrationFails(p) ==
    /\ mpc[p] = "migrate"
    /\ file[p] \in DOMAIN sqlFiles
    /\ Goto(p, "failed")
    /\ Reset(p)
    /\ UNCHANGED <<schema, starts>>

\* Faulty variant: an error of the last file is not returned.
ReturnsRegardless(p) ==
    /\ mpc[p] = "migrate"
    /\ file[p] \notin 1..(Len(sqlFiles) - 1)
    /\ Goto(p, "migrated")
    /\ UNCHANGED <<schema, file, tx, starts>>

RunMigrationsReturns(p) ==
    /\ mpc[p] = "migrate"
    /\ file[p] \notin DOMAIN sqlFiles
    /\ Goto(p, "migrated")
    /\ UNCHANGED <<schema, file, tx, starts>>

Crash(p) ==
    /\ mpc[p] # "down"
    /\ Goto(p, "down")
    /\ Reset(p)
    /\ UNCHANGED <<schema, starts>>

DatabaseNext ==
    \E p \in Process :
        \/ NewDB(p)
        \/ Statement(p) \/ Commit(p)
        \/ MigrationFails(p)
        \/ RunMigrationsReturns(p)
        \/ Crash(p)

HasTable(t) == Table(t) \in schema

----------------------------------------------------------------------------
\* "a failed migration does not leave the database in a partially-applied
\* state": whichever process fails, crashes or starts again at which statement,
\* of each file all objects exist or none, and of the files a beginning of the
\* list has been applied.  (RunMigrations)
MigrationIsAtomic ==
    \E n \in 0..Len(sqlFiles) : schema = UNION {Range(sqlFiles[i]) : i \in 1..n}

\* A process whose RunMigrations returned without an error finds every object,
\* though other processes migrate, fail and crash at the same time.
MigratedMeansComplete ==
    \A p \in Process : mpc[p] = "migrated" => schema = UNION {Range(sqlFiles[i]) : i \in DOMAIN sqlFiles}
=============================================================================
