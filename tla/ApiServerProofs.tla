--------------------------- MODULE ApiServerProofs ---------------------------
(***************************************************************************)
(* Proofs about ApiServer, AuditLog and Database for any number of         *)
(* processes that migrate, of clients, of requests, of rows and of audit   *)
(* entries.  Each part of the state has an invariant of its own:           *)
(*                                                                         *)
(*   DatabaseInv  A transaction is a beginning of its file, two processes  *)
(*                are never in the same file, the first n files are        *)
(*                applied and nobody is further than the next.             *)
(*   AuditInv     A caller has one row, under way or in the table, and it  *)
(*                is that of its logged entry; an answer has the newest of *)
(*                the rows of its time.                                    *)
(*   CostInv      Rows are only added; the rows a request found when it    *)
(*                arrived are still there, and its answer lies between     *)
(*                their cost and that of the rows that are there now.      *)
(***************************************************************************)
EXTENDS ApiServer, SumTheorems

----------------------------------------------------------------------------
(* The migrations *)

\* The objects of the first n files.
Applied(n) == UNION {Range(sqlFiles[i]) : i \in 1..n}

\* What the proofs use of the files: there are at least two statements in each,
\* and only the first creates a table.
LEMMA FilesAre ==
    /\ Len(sqlFiles) = 4 /\ DOMAIN sqlFiles = 1..4
    /\ \A f \in 1..4 : /\ Len(sqlFiles[f]) \in Nat /\ Len(sqlFiles[f]) >= 2
                       /\ DOMAIN sqlFiles[f] = 1..Len(sqlFiles[f])
                       /\ \A k \in 2..Len(sqlFiles[f]) : ~IfNotExists(sqlFiles[f][k])
<1>1. Len(sqlFiles) = 4 /\ DOMAIN sqlFiles = 1..4
  BY DEF sqlFiles
<1>2. /\ sqlFiles[1] = <<Table("cost_records"), Hypertable("cost_records"), <<"retention", "cost_records">> >>
      /\ sqlFiles[2] = <<Table("forecasts"), Hypertable("forecasts")>>
      /\ sqlFiles[3] = <<Table("audit_log"), Index("timestamp"), Index("actor"), Index("namespace")>>
      /\ sqlFiles[4] = <<Table("shared_cost_allocation"), Hypertable("shared_cost_allocation")>>
  BY DEF sqlFiles
<1>3. \A t : ~IfNotExists(Hypertable(t)) /\ ~IfNotExists(Index(t)) /\ ~IfNotExists(<<"retention", t>>)
  BY DEF IfNotExists, Hypertable, Index
<1>4. /\ sqlFiles[1][2] = Hypertable("cost_records") /\ sqlFiles[1][3] = <<"retention", "cost_records">>
      /\ Len(sqlFiles[1]) = 3 /\ DOMAIN sqlFiles[1] = 1..3
  BY <1>2
<1>5. /\ sqlFiles[2][2] = Hypertable("forecasts")
      /\ Len(sqlFiles[2]) = 2 /\ DOMAIN sqlFiles[2] = 1..2
  BY <1>2
<1>6. /\ sqlFiles[3][2] = Index("timestamp") /\ sqlFiles[3][3] = Index("actor")
      /\ sqlFiles[3][4] = Index("namespace")
      /\ Len(sqlFiles[3]) = 4 /\ DOMAIN sqlFiles[3] = 1..4
  BY <1>2
<1>7. /\ sqlFiles[4][2] = Hypertable("shared_cost_allocation")
      /\ Len(sqlFiles[4]) = 2 /\ DOMAIN sqlFiles[4] = 1..2
  BY <1>2
<1>8. 2..2 = {2} /\ 2..3 = {2, 3} /\ 2..4 = {2, 3, 4} /\ 1..4 = {1, 2, 3, 4}
  OBVIOUS
<1>9. ASSUME NEW f \in 1..4
      PROVE  /\ Len(sqlFiles[f]) \in Nat /\ Len(sqlFiles[f]) >= 2
             /\ DOMAIN sqlFiles[f] = 1..Len(sqlFiles[f])
             /\ \A k \in 2..Len(sqlFiles[f]) : ~IfNotExists(sqlFiles[f][k])
  <2>1. CASE f = 1
    <3>1. ~IfNotExists(sqlFiles[1][2]) /\ ~IfNotExists(sqlFiles[1][3])
      BY <1>3, <1>4, Zenon
    <3>2. 2..Len(sqlFiles[f]) = {2, 3}
      BY <1>4, <1>8, <2>1
    <3> QED
      BY <1>4, <2>1, <3>1, <3>2
  <2>2. CASE f = 2
    <3>1. ~IfNotExists(sqlFiles[2][2])
      BY <1>3, <1>5, Zenon
    <3>2. 2..Len(sqlFiles[f]) = {2}
      BY <1>5, <1>8, <2>2
    <3> QED
      BY <1>5, <2>2, <3>1, <3>2
  <2>3. CASE f = 3
    <3>1. ~IfNotExists(sqlFiles[3][2]) /\ ~IfNotExists(sqlFiles[3][3]) /\ ~IfNotExists(sqlFiles[3][4])
      BY <1>3, <1>6, Zenon
    <3>2. 2..Len(sqlFiles[f]) = {2, 3, 4}
      BY <1>6, <1>8, <2>3
    <3> QED
      BY <1>6, <2>3, <3>1, <3>2
  <2>4. CASE f = 4
    <3>1. ~IfNotExists(sqlFiles[4][2])
      BY <1>3, <1>7, Zenon
    <3>2. 2..Len(sqlFiles[f]) = {2}
      BY <1>7, <1>8, <2>4
    <3> QED
      BY <1>7, <2>4, <3>1, <3>2
  <2> QED
    BY <1>8, <2>1, <2>2, <2>3, <2>4
<1> QED
  BY <1>1, <1>9

\* One more file.
LEMMA AppliedNext ==
    ASSUME NEW n \in 0..3
    PROVE  Applied(n + 1) = Applied(n) \cup Range(sqlFiles[n + 1])
<1>1. 1..(n + 1) = (1..n) \cup {n + 1}
  OBVIOUS
<1> QED
  BY <1>1 DEF Applied

\* An applied file is all there.
LEMMA AppliedHas ==
    ASSUME NEW n \in 0..4, NEW f \in 1..n, NEW k \in DOMAIN sqlFiles[f]
    PROVE  sqlFiles[f][k] \in Applied(n)
BY DEF Applied, Range

\* An open transaction has executed a beginning of its file; there is one only
\* while RunMigrations runs, and after it all files are done.
Transactions ==
    /\ mpc \in [Process -> {"down", "failed", "migrate", "migrated"}]
    /\ file \in [Process -> 1..5]
    /\ tx \in [Process -> Seq(UNION {Range(sqlFiles[i]) : i \in DOMAIN sqlFiles})]
    /\ \A p \in Process :
          /\ file[p] = 5 => tx[p] = <<>>
          /\ file[p] # 5 => /\ Len(tx[p]) <= Len(sqlFiles[file[p]])
                            /\ \A k \in 1..Len(tx[p]) : tx[p][k] = sqlFiles[file[p]][k]
          /\ mpc[p] = "migrated" => file[p] = 5

\* Two processes are not in the same file at once.
Exclusive ==
    \A p, q \in Process : p # q /\ file[p] = file[q] => tx[p] = <<>> \/ tx[q] = <<>>

\* The first n files have been applied; nobody is further than the next one, and
\* who has executed more than the creation of a table is there.
AppliedUpTo(n) ==
    /\ schema = Applied(n)
    /\ \A p \in Process : file[p] <= n + 1
    /\ \A p \in Process : Len(tx[p]) >= 2 => file[p] = n + 1

DatabaseInv ==
    /\ Transactions
    /\ Exclusive
    /\ \E n \in 0..4 : AppliedUpTo(n)

\* Numbers and sequences of Transactions.
LEMMA TransactionFacts ==
    ASSUME Transactions, NEW p \in Process
    PROVE  /\ file[p] \in 1..5 /\ Len(tx[p]) \in Nat /\ DOMAIN tx[p] = 1..Len(tx[p])
           /\ tx[p] = <<>> <=> Len(tx[p]) = 0
<1>1. file[p] \in 1..5
  BY DEF Transactions
<1>2. tx[p] \in Seq(UNION {Range(sqlFiles[i]) : i \in DOMAIN sqlFiles})
  BY DEF Transactions
<1> DEFINE O == UNION {Range(sqlFiles[i]) : i \in DOMAIN sqlFiles}
<1> HIDE DEF O
<1>3. tx[p] \in Seq(O)
  BY <1>2 DEF O
<1> QED
  BY <1>1, <1>3

\* A step that changes only where a process is.
LEMMA GotoStep ==
    ASSUME DatabaseInv, UNCHANGED <<schema, file, tx>>,
           NEW p \in Process, NEW l \in {"down", "failed", "migrate", "migrated"}, Goto(p, l),
           l = "migrated" => file[p] = 5
    PROVE  DatabaseInv'
<1>1. Transactions'
  BY DEF DatabaseInv, Transactions, Goto
<1>2. Exclusive'
  BY DEF DatabaseInv, Exclusive
<1>3. \E n \in 0..4 : AppliedUpTo(n)'
  BY DEF DatabaseInv, AppliedUpTo
<1> QED
  BY <1>1, <1>2, <1>3 DEF DatabaseInv

\* A process that fails or crashes begins again; what it had not committed is gone.
LEMMA ResetStep ==
    ASSUME DatabaseInv, UNCHANGED schema, NEW p \in Process, Reset(p),
           NEW l \in {"down", "failed"}, Goto(p, l)
    PROVE  DatabaseInv'
<1>1. /\ mpc' = [mpc EXCEPT ![p] = l] /\ file' = [file EXCEPT ![p] = 1] /\ tx' = [tx EXCEPT ![p] = <<>>]
  BY DEF Reset, Goto
<1>2. /\ mpc \in [Process -> {"down", "failed", "migrate", "migrated"}]
      /\ file \in [Process -> 1..5]
      /\ tx \in [Process -> Seq(UNION {Range(sqlFiles[i]) : i \in DOMAIN sqlFiles})]
  BY DEF DatabaseInv, Transactions
<1>3. /\ mpc'[p] = l /\ file'[p] = 1 /\ tx'[p] = <<>>
      /\ \A q \in Process \ {p} : mpc'[q] = mpc[q] /\ file'[q] = file[q] /\ tx'[q] = tx[q]
  BY <1>1, <1>2
<1>4. Len(tx'[p]) = 0
  BY <1>3
<1>5. Transactions'
  <2>1. /\ mpc' \in [Process -> {"down", "failed", "migrate", "migrated"}]
        /\ file' \in [Process -> 1..5]
        /\ tx' \in [Process -> Seq(UNION {Range(sqlFiles[i]) : i \in DOMAIN sqlFiles})]
    BY <1>1, <1>2
  <2>2. ASSUME NEW q \in Process
        PROVE  /\ file'[q] = 5 => tx'[q] = <<>>
               /\ file'[q] # 5 => /\ Len(tx'[q]) <= Len(sqlFiles[file'[q]])
                                  /\ \A k \in 1..Len(tx'[q]) : tx'[q][k] = sqlFiles[file'[q]][k]
               /\ mpc'[q] = "migrated" => file'[q] = 5
    <3>1. CASE q = p
      <4>1. Len(sqlFiles[1]) >= 0 /\ 1..0 = {}
        BY FilesAre
      <4> QED
        BY <1>3, <1>4, <3>1, <4>1
    <3>2. CASE q # p
      BY <1>3, <3>2 DEF DatabaseInv, Transactions
    <3> QED
      BY <3>1, <3>2
  <2> QED
    BY <2>1, <2>2 DEF Transactions
<1>6. Exclusive'
  BY <1>3 DEF DatabaseInv, Exclusive
<1>7. PICK n \in 0..4 : AppliedUpTo(n)
  BY DEF DatabaseInv
<1>8. AppliedUpTo(n)'
  <2>1. ASSUME NEW q \in Process
        PROVE  file'[q] <= n + 1 /\ (Len(tx'[q]) >= 2 => file'[q] = n + 1)
    <3>1. CASE q = p
      BY <1>3, <1>4, <3>1
    <3>2. CASE q # p
      BY <1>3, <1>7, <3>2 DEF AppliedUpTo
    <3> QED
      BY <3>1, <3>2
  <2> QED
    BY <1>7, <2>1 DEF AppliedUpTo
<1> QED
  BY <1>5, <1>6, <1>8 DEF DatabaseInv

\* Whoever executes a statement after the first found its object missing: the
\* file has not been applied.
LEMMA StatementStep ==
    ASSUME DatabaseInv, NEW p \in Process, Statement(p)
    PROVE  DatabaseInv'
<1> DEFINE f == file[p]
           k == Len(tx[p]) + 1
           object == sqlFiles[f][k]
<1>1. /\ f \in 1..4 /\ Len(tx[p]) < Len(sqlFiles[f])
      /\ \A q \in Process \ {p} : object \notin Range(tx[q])
      /\ object \notin schema \/ IfNotExists(object)
      /\ tx' = [tx EXCEPT ![p] = Append(tx[p], object)]
      /\ UNCHANGED <<schema, mpc, file>>
  BY FilesAre DEF Statement
<1>2. Len(tx[p]) \in Nat /\ k \in 1..Len(sqlFiles[f]) /\ k \in DOMAIN sqlFiles[f]
  BY <1>1, TransactionFacts, FilesAre DEF DatabaseInv
<1>3. object \in UNION {Range(sqlFiles[i]) : i \in DOMAIN sqlFiles}
  BY <1>1, <1>2, FilesAre DEF Range
<1>4. tx \in [Process -> Seq(UNION {Range(sqlFiles[i]) : i \in DOMAIN sqlFiles})]
  BY DEF DatabaseInv, Transactions
<1>5. /\ tx'[p] = Append(tx[p], object)
      /\ \A q \in Process \ {p} : tx'[q] = tx[q]
  BY <1>1, <1>4
<1> DEFINE O == UNION {Range(sqlFiles[i]) : i \in DOMAIN sqlFiles}
<1> HIDE DEF object, O
<1>6. /\ Len(tx'[p]) = k /\ tx'[p][k] = object /\ tx'[p] \in Seq(O)
      /\ \A j \in 1..Len(tx[p]) : tx'[p][j] = tx[p][j]
  BY <1>3, <1>4, <1>5 DEF O
<1>7. Transactions'
  <2>1. tx' \in [Process -> Seq(O)]
    BY <1>1, <1>4, <1>5, <1>6 DEF O
  <2>2. ASSUME NEW q \in Process
        PROVE  /\ file'[q] = 5 => tx'[q] = <<>>
               /\ file'[q] # 5 => /\ Len(tx'[q]) <= Len(sqlFiles[file'[q]])
                                  /\ \A j \in 1..Len(tx'[q]) : tx'[q][j] = sqlFiles[file'[q]][j]
               /\ mpc'[q] = "migrated" => file'[q] = 5
    <3>1. CASE q = p
      <4>1. \A j \in 1..Len(tx[p]) : tx[p][j] = sqlFiles[f][j]
        BY <1>1 DEF DatabaseInv, Transactions
      <4>2. \A j \in 1..k : j = k \/ j \in 1..Len(tx[p])
        BY <1>2
      <4>3. \A j \in 1..k : tx'[p][j] = sqlFiles[f][j]
        BY <1>6, <4>1, <4>2 DEF object
      <4>4. mpc[p] # "migrated"
        BY DEF Statement
      <4> QED
        BY <1>1, <1>2, <1>6, <3>1, <4>3, <4>4
    <3>2. CASE q # p
      BY <1>1, <1>5, <3>2 DEF DatabaseInv, Transactions
    <3> QED
      BY <3>1, <3>2
  <2> QED
    BY <1>1, <2>1, <2>2 DEF DatabaseInv, Transactions, O
<1>8. Exclusive'
  <2>1. ASSUME NEW q \in Process \ {p}, file[q] = f PROVE tx[q] = <<>>
    <3> SUFFICES ASSUME tx[q] # <<>> PROVE FALSE
      OBVIOUS
    <3>1. tx[p] = <<>> /\ k = 1
      BY <2>1, TransactionFacts DEF DatabaseInv, Exclusive
    <3>2. 1 \in 1..Len(tx[q]) /\ 1 \in DOMAIN tx[q]
      BY TransactionFacts DEF DatabaseInv
    <3>3. tx[q][1] = sqlFiles[f][1]
      BY <1>1, <2>1, <3>2 DEF DatabaseInv, Transactions
    <3>4. object \in Range(tx[q])
      BY <3>1, <3>2, <3>3 DEF Range, object
    <3> QED
      BY <1>1, <3>4
  <2> QED
    BY <1>1, <1>5, <2>1 DEF DatabaseInv, Exclusive
<1>9. PICK n \in 0..4 : AppliedUpTo(n)
  BY DEF DatabaseInv
<1>10. k >= 2 => f = n + 1
  <2> SUFFICES ASSUME k >= 2, f # n + 1 PROVE FALSE
    OBVIOUS
  <2>1. f \in 1..n
    BY <1>1, <1>9 DEF AppliedUpTo
  <2>2. object \in schema
    BY <1>2, <1>9, <2>1, AppliedHas DEF AppliedUpTo, object
  <2>3. ~IfNotExists(object)
    BY <1>1, <1>2, FilesAre DEF object
  <2> QED
    BY <1>1, <2>2, <2>3
<1>11. AppliedUpTo(n)'
  BY <1>1, <1>5, <1>6, <1>9, <1>10 DEF AppliedUpTo
<1> QED
  BY <1>7, <1>8, <1>11 DEF DatabaseInv

\* A complete transaction is the next file, and nobody else is in it.
LEMMA CommitStep ==
    ASSUME DatabaseInv, NEW p \in Process, Commit(p)
    PROVE  DatabaseInv'
<1> DEFINE f == file[p]
           O == UNION {Range(sqlFiles[i]) : i \in DOMAIN sqlFiles}
<1>1. /\ f \in 1..4 /\ Len(tx[p]) = Len(sqlFiles[f])
      /\ schema' = schema \cup Range(tx[p])
      /\ file' = [file EXCEPT ![p] = f + 1] /\ tx' = [tx EXCEPT ![p] = <<>>]
      /\ mpc[p] = "migrate" /\ mpc' = mpc
  BY FilesAre DEF Commit
<1>2. /\ mpc \in [Process -> {"down", "failed", "migrate", "migrated"}]
      /\ file \in [Process -> 1..5] /\ tx \in [Process -> Seq(O)]
  BY DEF DatabaseInv, Transactions
<1> HIDE DEF O
<1>3. /\ file'[p] = f + 1 /\ tx'[p] = <<>> /\ Len(tx'[p]) = 0
      /\ \A q \in Process \ {p} : file'[q] = file[q] /\ tx'[q] = tx[q]
  BY <1>1, <1>2
<1>4. Len(tx[p]) >= 2 /\ tx[p] # <<>>
  BY <1>1, FilesAre
<1>5. PICK n \in 0..4 : AppliedUpTo(n)
  BY DEF DatabaseInv
<1>6. f = n + 1 /\ n \in 0..3
  BY <1>1, <1>4, <1>5 DEF AppliedUpTo
<1>7. Range(tx[p]) = Range(sqlFiles[f])
  <2>1. DOMAIN tx[p] = DOMAIN sqlFiles[f] /\ DOMAIN tx[p] = 1..Len(tx[p])
    BY <1>1, TransactionFacts, FilesAre DEF DatabaseInv
  <2>2. \A k \in 1..Len(tx[p]) : tx[p][k] = sqlFiles[f][k]
    BY <1>1 DEF DatabaseInv, Transactions
  <2> QED
    BY <2>1, <2>2 DEF Range
<1>8. schema' = Applied(n + 1)
  BY <1>1, <1>5, <1>6, <1>7, AppliedNext DEF AppliedUpTo
<1>9. AppliedUpTo(n + 1)'
  <2>1. ASSUME NEW q \in Process
        PROVE  file'[q] <= (n + 1) + 1 /\ (Len(tx'[q]) >= 2 => file'[q] = (n + 1) + 1)
    <3>1. CASE q = p
      BY <1>3, <1>6, <3>1
    <3>2. CASE q # p
      <4>1. file[q] <= n + 1 /\ file[q] \in 1..5
        BY <1>2, <1>5 DEF AppliedUpTo
      <4>2. ~(Len(tx[q]) >= 2)
        <5> SUFFICES ASSUME Len(tx[q]) >= 2 PROVE FALSE
          OBVIOUS
        <5>1. file[q] = f /\ tx[q] # <<>>
          BY <1>5, <1>6 DEF AppliedUpTo
        <5> QED
          BY <1>4, <3>2, <5>1 DEF DatabaseInv, Exclusive
      <4> QED
        BY <1>3, <3>2, <4>1, <4>2
    <3> QED
      BY <3>1, <3>2
  <2> QED
    BY <1>8, <2>1 DEF AppliedUpTo
<1>10. Transactions'
  <2>1. file' \in [Process -> 1..5] /\ tx' \in [Process -> Seq(O)]
    BY <1>1, <1>2
  <2>2. ASSUME NEW q \in Process
        PROVE  /\ file'[q] = 5 => tx'[q] = <<>>
               /\ file'[q] # 5 => /\ Len(tx'[q]) <= Len(sqlFiles[file'[q]])
                                  /\ \A k \in 1..Len(tx'[q]) : tx'[q][k] = sqlFiles[file'[q]][k]
               /\ mpc'[q] = "migrated" => file'[q] = 5
    <3>1. CASE q = p
      <4>1. file'[q] # 5 => Len(sqlFiles[file'[q]]) >= 2 /\ Len(sqlFiles[file'[q]]) \in Nat
        BY <1>1, <1>3, <3>1, FilesAre
      <4>2. 1..0 = {}
        OBVIOUS
      <4> QED
        BY <1>1, <1>3, <3>1, <4>1, <4>2
    <3>2. CASE q # p
      BY <1>1, <1>3, <3>2 DEF DatabaseInv, Transactions
    <3> QED
      BY <3>1, <3>2
  <2> QED
    BY <1>1, <1>2, <2>1, <2>2 DEF Transactions, O
<1>11. Exclusive'
  BY <1>3 DEF DatabaseInv, Exclusive
<1>12. n + 1 \in 0..4
  BY <1>6
<1> QED
  BY <1>9, <1>10, <1>11, <1>12 DEF DatabaseInv

\* Every step of a migrating process keeps the database invariant.
LEMMA DatabaseStep ==
    ASSUME DatabaseInv, DatabaseNext
    PROVE  DatabaseInv'
<1>1. PICK p \in Process :
          NewDB(p) \/ Statement(p) \/ Commit(p) \/ MigrationFails(p) \/ RunMigrationsReturns(p) \/ Crash(p)
  BY DEF DatabaseNext
<1>2. CASE NewDB(p)
  BY <1>2, GotoStep DEF NewDB
<1>3. CASE Statement(p)
  BY <1>3, StatementStep
<1>4. CASE Commit(p)
  BY <1>4, CommitStep
<1>5. CASE MigrationFails(p)
  BY <1>5, ResetStep DEF MigrationFails
<1>6. CASE RunMigrationsReturns(p)
  <2>1. file[p] = 5
    BY <1>6, FilesAre DEF RunMigrationsReturns, DatabaseInv, Transactions
  <2> QED
    BY <1>6, <2>1, GotoStep DEF RunMigrationsReturns
<1>7. CASE Crash(p)
  BY <1>7, ResetStep DEF Crash
<1> QED
  BY <1>1, <1>2, <1>3, <1>4, <1>5, <1>6, <1>7

\* An empty database and processes that are down satisfy it.
LEMMA DatabaseInitHolds ==
    ASSUME DatabaseInit
    PROVE  DatabaseInv
<1>1. /\ schema = {} /\ mpc = [p \in Process |-> "down"]
      /\ file = [p \in Process |-> 1] /\ tx = [p \in Process |-> <<>>]
  BY DEF DatabaseInit
<1>2. Len(sqlFiles[1]) >= 2 /\ Len(sqlFiles[1]) \in Nat
  BY FilesAre
<1>3. \A p \in Process : tx[p] = <<>> /\ Len(tx[p]) = 0 /\ file[p] = 1 /\ mpc[p] = "down"
  BY <1>1
<1>4. Transactions
  BY <1>1, <1>2, <1>3 DEF Transactions
<1>5. Exclusive
  BY <1>3 DEF Exclusive
<1>6. Applied(0) = {}
  BY DEF Applied
<1>7. AppliedUpTo(0)
  BY <1>1, <1>3, <1>6 DEF AppliedUpTo
<1> QED
  BY <1>4, <1>5, <1>7 DEF DatabaseInv

\* The database invariant holds throughout, whatever audit writer and handlers do.
LEMMA DatabaseInvariance == Spec => []DatabaseInv
<1>1. DatabaseInv /\ UNCHANGED dbVars => DatabaseInv'
  BY DEF DatabaseInv, Transactions, Exclusive, AppliedUpTo, dbVars
<1>2. DatabaseInv /\ [Next]_vars => DatabaseInv'
  BY <1>1, DatabaseStep DEF Next, vars
<1> QED
  BY <1>2, DatabaseInitHolds, PTL DEF Spec, Init

\* RunMigrations leaves of each file everything or nothing, and of the files a
\* beginning of the list, for any number of processes that migrate at the same
\* time, fail, crash and start again.
THEOREM MigrationsAreAtomic == Spec => []MigrationIsAtomic
<1>1. DatabaseInv => MigrationIsAtomic
  BY FilesAre DEF DatabaseInv, AppliedUpTo, Applied, MigrationIsAtomic
<1> QED
  BY <1>1, DatabaseInvariance, PTL

\* A process whose RunMigrations returned nil finds the whole schema.
THEOREM MigratedIsComplete == Spec => []MigratedMeansComplete
<1>1. ASSUME DatabaseInv, NEW p \in Process, mpc[p] = "migrated"
      PROVE  schema = UNION {Range(sqlFiles[i]) : i \in DOMAIN sqlFiles}
  <2>1. PICK n \in 0..4 : AppliedUpTo(n)
    BY <1>1 DEF DatabaseInv
  <2>2. file[p] = 5
    BY <1>1 DEF DatabaseInv, Transactions
  <2>3. n = 4
    BY <2>1, <2>2 DEF AppliedUpTo
  <2>4. schema = Applied(4)
    BY <2>1, <2>3 DEF AppliedUpTo
  <2> QED
    BY <2>4, FilesAre DEF Applied
<1>2. DatabaseInv => MigratedMeansComplete
  BY <1>1 DEF MigratedMeansComplete
<1> QED
  BY <1>2, DatabaseInvariance, PTL

----------------------------------------------------------------------------
(* The audit trail *)

Time == Nat \cup {ZeroTime}

\* An entry as it is given, as it was logged, and as it is stored.
Given  == [actor : Actor, timestamp : Time]
Logged == [actor : Actor, timestamp : Time, loggedAt : Nat]
Stored == [actor : Actor, timestamp : Nat]

\* A row under way is that of a logged entry, or still has to get its time.
IsUnderWay(row, e) ==
    IF row.timestamp = ZeroTime THEN row.actor = e.actor /\ e.timestamp = ZeroTime
                                ELSE IsRowOf(row, e)

TrailTyped ==
    /\ now \in Nat
    /\ emitted \subseteq Logged /\ \A e \in emitted : e.loggedAt <= now
    /\ pending \subseteq Given
    /\ auditLog \in Seq(Stored)

\* Every row, under way or in the table, is that of a logged entry.
RowsWereLogged ==
    /\ \A r \in pending : \E e \in emitted : IsUnderWay(r, e)
    /\ \A i \in DOMAIN auditLog : \E e \in emitted : IsRowOf(auditLog[i], e)

\* A caller has one row, under way or in the table.
RowsAreDistinct ==
    /\ \A r, s \in pending : r.actor = s.actor => r = s
    /\ \A r \in pending, i \in DOMAIN auditLog : auditLog[i].actor # r.actor
    /\ \A i, j \in DOMAIN auditLog : auditLog[i].actor = auditLog[j].actor => i = j

TrailGood == TrailTyped /\ RowsWereLogged /\ RowsAreDistinct

\* The matching rows up to an answer's time that it lacks.
Missing(r, a) == {i \in Matching(r.arg) : i <= a.upTo /\ i \notin a.ids}

\* An answer to a request for the audit log has matching rows of its time, and the newest.
AnswerGood(r, a) ==
    r.route = "audit-log" /\ a.code = 200 =>
        /\ a.upTo \in 0..Len(auditLog)
        /\ a.ids \subseteq 1..a.upTo /\ a.ids \subseteq Matching(r.arg)
        /\ Missing(r, a) # {} => Cardinality(a.ids) = AuditLimit
        /\ \A i \in Missing(r, a), j \in a.ids : auditLog[i].timestamp <= auditLog[j].timestamp

AuditInv ==
    /\ TrailGood
    /\ response = [c \in Client |-> response[c]]
    /\ \A c \in Client : AnswerGood(request[c], response[c])

\* As long as the table stays, so do the answers.
LEMMA AnswersStay ==
    ASSUME AuditInv, TrailGood', UNCHANGED <<auditLog, request, response>>
    PROVE  AuditInv'
<1>1. \A n : Matching(n)' = Matching(n)
  BY DEF Matching
<1>2. \A r, a : Missing(r, a)' = Missing(r, a)
  BY <1>1 DEF Missing
<1>3. \A r, a : AnswerGood(r, a) => AnswerGood(r, a)'
  BY <1>1, <1>2 DEF AnswerGood
<1>4. \A c \in Client : AnswerGood(request[c], response[c])'
  BY <1>3 DEF AuditInv
<1> QED
  BY <1>4 DEF AuditInv

\* The time that is left out is not one of the clock.
LEMMA ZeroTimeIsNone == ZeroTime \notin Nat /\ ZeroTime \in Int
  BY DEF ZeroTime

\* A clock that goes on makes no row another entry's.
LEMMA RowsStay ==
    ASSUME TrailTyped, TrailTyped', now <= now', NEW e \in emitted, NEW r
    PROVE  /\ IsRowOf(r, e) => IsRowOf(r, e)'
           /\ IsUnderWay(r, e) => IsUnderWay(r, e)'
<1>1. now \in Nat /\ now' \in Nat /\ e.loggedAt \in Nat
  BY DEF TrailTyped, Logged
<1>2. \A t \in e.loggedAt..now : t \in e.loggedAt..now'
  BY <1>1
<1>3. IsRowOf(r, e) => IsRowOf(r, e)'
  BY <1>2 DEF IsRowOf
<1> QED
  BY <1>3 DEF IsUnderWay

\* A row that is appended is that of its entry, and after every answer's time.
LEMMA InsertStep ==
    ASSUME AuditInv, NEW e \in pending, Insert(e), UNCHANGED <<request, response>>
    PROVE  AuditInv'
<1>1. e \in Stored /\ auditLog \in Seq(Stored)
  <2>1. e \in Given /\ e.timestamp # ZeroTime
    BY DEF AuditInv, TrailGood, TrailTyped, Insert
  <2>2. e = [actor |-> e.actor, timestamp |-> e.timestamp] /\ e.actor \in Actor /\ e.timestamp \in Nat
    BY <2>1 DEF Given, Time
  <2> QED
    BY <2>2 DEF AuditInv, TrailGood, TrailTyped, Stored
<1>2. auditLog' = Append(auditLog, e) /\ pending' = pending \ {e} /\ UNCHANGED <<now, emitted>>
  BY DEF Insert
<1>3. /\ auditLog' \in Seq(Stored) /\ Len(auditLog') = Len(auditLog) + 1 /\ Len(auditLog) \in Nat
      /\ auditLog'[Len(auditLog) + 1] = e
      /\ \A i \in 1..Len(auditLog) : auditLog'[i] = auditLog[i]
      /\ DOMAIN auditLog = 1..Len(auditLog) /\ DOMAIN auditLog' = 1..(Len(auditLog) + 1)
  BY <1>1, <1>2
<1>4. TrailGood'
  <2>1. \A i \in DOMAIN auditLog' : i \in DOMAIN auditLog \/ i = Len(auditLog) + 1
    BY <1>3
  <2>2. TrailTyped'
    BY <1>2, <1>3 DEF AuditInv, TrailGood, TrailTyped
  <2>3. \A r, x : (IsRowOf(r, x) <=> IsRowOf(r, x)') /\ (IsUnderWay(r, x) <=> IsUnderWay(r, x)')
    BY <1>2 DEF IsRowOf, IsUnderWay
  <2>4. PICK x \in emitted : IsRowOf(e, x)
    BY DEF AuditInv, TrailGood, RowsWereLogged, IsUnderWay, Insert
  <2>5. \A i \in DOMAIN auditLog' : \E y \in emitted : IsRowOf(auditLog'[i], y)
    BY <1>3, <2>1, <2>4 DEF AuditInv, TrailGood, RowsWereLogged
  <2>6. RowsWereLogged'
    BY <1>2, <2>3, <2>5 DEF AuditInv, TrailGood, RowsWereLogged
  <2>7. \A i \in DOMAIN auditLog : auditLog'[i] = auditLog[i] /\ auditLog[i].actor # e.actor
    BY <1>3 DEF AuditInv, TrailGood, RowsAreDistinct
  <2>8. \A r \in pending' : r \in pending /\ r.actor # e.actor
    BY <1>2 DEF AuditInv, TrailGood, RowsAreDistinct
  <2>9. RowsAreDistinct'
    BY <1>3, <2>1, <2>7, <2>8 DEF AuditInv, TrailGood, RowsAreDistinct
  <2> QED
    BY <2>2, <2>6, <2>9 DEF TrailGood
<1>5. ASSUME NEW c \in Client PROVE AnswerGood(request[c], response[c])'
  <2> DEFINE r == request[c]
             a == response[c]
  <2> SUFFICES ASSUME r.route = "audit-log", a.code = 200
               PROVE  /\ a.upTo \in 0..Len(auditLog')
                      /\ a.ids \subseteq 1..a.upTo /\ a.ids \subseteq Matching(r.arg)'
                      /\ Missing(r, a)' # {} => Cardinality(a.ids) = AuditLimit
                      /\ \A i \in Missing(r, a)', j \in a.ids :
                            auditLog'[i].timestamp <= auditLog'[j].timestamp
    BY DEF AnswerGood
  <2>1. /\ a.upTo \in 0..Len(auditLog)
        /\ a.ids \subseteq 1..a.upTo /\ a.ids \subseteq Matching(r.arg)
        /\ Missing(r, a) # {} => Cardinality(a.ids) = AuditLimit
        /\ \A i \in Missing(r, a), j \in a.ids : auditLog[i].timestamp <= auditLog[j].timestamp
    <3>1. AnswerGood(r, a)
      BY DEF AuditInv
    <3> HIDE DEF r, a
    <3> QED
      BY <3>1 DEF AnswerGood
  <2>2. Missing(r, a)' = Missing(r, a)
    <3>1. Missing(r, a)' = {i \in DOMAIN auditLog' : /\ r.arg = "" \/ auditLog'[i].actor = r.arg
                                                     /\ i <= a.upTo /\ i \notin a.ids}
      BY DEF Missing, Matching
    <3>2. Missing(r, a) = {i \in DOMAIN auditLog : /\ r.arg = "" \/ auditLog[i].actor = r.arg
                                                   /\ i <= a.upTo /\ i \notin a.ids}
      BY DEF Missing, Matching
    <3>3. \A i : i \in DOMAIN auditLog' /\ i <= a.upTo <=> i \in DOMAIN auditLog /\ i <= a.upTo
      BY <1>3, <2>1
    <3> HIDE DEF r, a
    <3> QED
      BY <1>3, <3>1, <3>2, <3>3
  <2>3. \A i \in Missing(r, a) : i \in 1..Len(auditLog)
    BY <1>3 DEF Missing, Matching
  <2>4. \A j \in a.ids : j \in 1..Len(auditLog)
    BY <1>3, <2>1
  <2>5. Matching(r.arg) \subseteq Matching(r.arg)'
    <3>1. \A i \in DOMAIN auditLog : i \in DOMAIN auditLog' /\ auditLog'[i] = auditLog[i]
      BY <1>3
    <3>2. \A n : Matching(n) \subseteq Matching(n)'
      BY <3>1 DEF Matching
    <3> QED
      BY <3>2
  <2> HIDE DEF r, a
  <2> QED
    BY <1>3, <2>1, <2>2, <2>3, <2>4, <2>5
<1> QED
  BY <1>4, <1>5 DEF AuditInv

\* A call logs an entry, and its row is the caller's first.
LEMMA WriteEntryStep ==
    ASSUME TrailGood, NEW a \in Actor, NEW t \in {ZeroTime, now}, WriteEntry(a, t)
    PROVE  TrailGood'
<1>1. PICK e, r : e = [actor |-> a, timestamp |-> t, loggedAt |-> now] /\ r = AuditLogEntry(a, t)
  OBVIOUS
<1>2. /\ emitted' = emitted \cup {e} /\ pending' = pending \cup {r}
      /\ UNCHANGED <<now, auditLog>> /\ NotCalled(a)
  BY <1>1 DEF WriteEntry
<1>3. now \in Nat /\ t \in Time
  BY DEF TrailGood, TrailTyped, Time
<1>4. e \in Logged /\ e.loggedAt = now /\ r \in Given
  BY <1>1, <1>3 DEF Logged, Given, AuditLogEntry
<1>5. TrailTyped'
  <2>1. e.loggedAt <= now
    BY <1>3, <1>4
  <2> QED
    BY <1>2, <1>4, <2>1 DEF TrailGood, TrailTyped
<1>6. RowsWereLogged'
  <2>1. e.actor = a /\ e.timestamp = t /\ r.actor = a /\ r.timestamp = t
    BY <1>1 DEF AuditLogEntry
  <2>2. IsUnderWay(r, e)
    BY <2>1 DEF IsUnderWay, IsRowOf
  <2>3. \A s, x : (IsRowOf(s, x) <=> IsRowOf(s, x)') /\ (IsUnderWay(s, x) <=> IsUnderWay(s, x)')
    BY <1>2 DEF IsRowOf, IsUnderWay
  <2> QED
    BY <1>2, <2>2, <2>3 DEF TrailGood, RowsWereLogged
<1>7. RowsAreDistinct'
  <2>1. \A s \in pending : s.actor # a
    BY <1>2 DEF TrailGood, RowsWereLogged, IsUnderWay, IsRowOf, NotCalled
  <2>2. \A i \in DOMAIN auditLog : auditLog[i].actor # a
    BY <1>2 DEF TrailGood, RowsWereLogged, IsRowOf, NotCalled
  <2>3. r.actor = a
    BY <1>1 DEF AuditLogEntry
  <2> QED
    BY <1>2, <2>1, <2>2, <2>3 DEF TrailGood, RowsAreDistinct
<1> QED
  BY <1>5, <1>6, <1>7 DEF TrailGood

\* A row gets its time after its entry was logged.
LEMMA TakeTimeStep ==
    ASSUME TrailGood, NEW e \in pending, TakeTime(e)
    PROVE  TrailGood'
<1>1. PICK r : r = AuditLogEntry(e.actor, now)
  OBVIOUS
<1>2. /\ pending' = (pending \ {e}) \cup {r} /\ UNCHANGED <<now, emitted, auditLog>>
      /\ e.timestamp = ZeroTime
  BY <1>1 DEF TakeTime
<1>3. /\ now \in Nat /\ e \in Given
      /\ r \in Given /\ r.actor = e.actor /\ r.timestamp = now /\ r.timestamp # ZeroTime
  <2>1. now \in Nat /\ e \in Given
    BY DEF TrailGood, TrailTyped
  <2>2. e.actor \in Actor
    BY <2>1 DEF Given
  <2> QED
    BY <1>1, <2>1, <2>2, ZeroTimeIsNone DEF AuditLogEntry, Given, Time
<1>4. TrailTyped'
  BY <1>2, <1>3 DEF TrailGood, TrailTyped
<1>5. RowsWereLogged'
  <2>1. PICK x \in emitted : e.actor = x.actor /\ x.timestamp = ZeroTime
    BY <1>2 DEF TrailGood, RowsWereLogged, IsUnderWay
  <2>2. x.loggedAt \in Nat /\ x.loggedAt <= now
    BY DEF TrailGood, TrailTyped, Logged
  <2>3. r.timestamp \in x.loggedAt..now
    BY <1>3, <2>2
  <2>4. IsUnderWay(r, x)
    BY <1>3, <2>1, <2>3 DEF IsUnderWay, IsRowOf
  <2>5. \A s, y : (IsRowOf(s, y) <=> IsRowOf(s, y)') /\ (IsUnderWay(s, y) <=> IsUnderWay(s, y)')
    BY <1>2 DEF IsRowOf, IsUnderWay
  <2> QED
    BY <1>2, <2>4, <2>5 DEF TrailGood, RowsWereLogged
<1>6. RowsAreDistinct'
  BY <1>2, <1>3 DEF TrailGood, RowsAreDistinct
<1> QED
  BY <1>4, <1>5, <1>6 DEF TrailGood

\* The clock, the callers and their inserts keep the audit invariant.
LEMMA AuditStep ==
    ASSUME AuditInv, AuditNext, UNCHANGED <<request, response>>
    PROVE  AuditInv'
<1>1. ASSUME TrailGood', UNCHANGED auditLog PROVE AuditInv'
  BY <1>1, AnswersStay
<1>2. CASE Tick
  <2>1. now' = now + 1 /\ now \in Nat /\ UNCHANGED <<emitted, pending, auditLog>>
    BY <1>2 DEF Tick, AuditInv, TrailGood, TrailTyped
  <2>2. now <= now' /\ now' \in Nat
    BY <2>1
  <2>3. TrailTyped'
    <3>1. \A e \in emitted : e.loggedAt \in Nat /\ e.loggedAt <= now
      BY DEF AuditInv, TrailGood, TrailTyped, Logged
    <3>2. \A e \in emitted : e.loggedAt <= now'
      BY <2>1, <3>1
    <3> QED
      BY <2>1, <2>2, <3>2 DEF AuditInv, TrailGood, TrailTyped
  <2>4. \A e \in emitted : \A r : /\ IsRowOf(r, e) => IsRowOf(r, e)'
                                  /\ IsUnderWay(r, e) => IsUnderWay(r, e)'
    BY <2>2, <2>3, RowsStay DEF AuditInv, TrailGood
  <2>5. RowsWereLogged'
    BY <2>1, <2>4 DEF AuditInv, TrailGood, RowsWereLogged
  <2>6. RowsAreDistinct'
    BY <2>1 DEF AuditInv, TrailGood, RowsAreDistinct
  <2> QED
    BY <1>1, <2>1, <2>3, <2>5, <2>6 DEF TrailGood
<1>3. ASSUME NEW a \in Actor, NEW t \in {ZeroTime, now}, WriteEntry(a, t) PROVE AuditInv'
  BY <1>1, <1>3, WriteEntryStep DEF AuditInv, WriteEntry
<1>4. ASSUME NEW e \in pending, TakeTime(e) PROVE AuditInv'
  BY <1>1, <1>4, TakeTimeStep DEF AuditInv, TakeTime
<1>5. ASSUME NEW e \in pending, Insert(e) PROVE AuditInv'
  BY <1>5, InsertStep
<1>6. ASSUME NEW e \in pending, InsertFails(e) PROVE AuditInv'
  <2>1. pending' \subseteq pending /\ UNCHANGED <<now, emitted, auditLog>>
    BY <1>6 DEF InsertFails
  <2>2. \A r, x : (IsRowOf(r, x) <=> IsRowOf(r, x)') /\ (IsUnderWay(r, x) <=> IsUnderWay(r, x)')
    BY <2>1 DEF IsRowOf, IsUnderWay
  <2>3. TrailGood'
    BY <2>1, <2>2 DEF AuditInv, TrailGood, TrailTyped, RowsWereLogged, RowsAreDistinct
  <2> QED
    BY <1>1, <2>1, <2>3
<1> QED
  BY <1>2, <1>3, <1>4, <1>5, <1>6 DEF AuditNext

\* Steps of the others leave the trail as it is.
LEMMA TrailStays ==
    ASSUME TrailGood, UNCHANGED <<now, emitted, pending, auditLog>>
    PROVE  TrailGood'
<1>1. \A r, e : (IsRowOf(r, e) <=> IsRowOf(r, e)') /\ (IsUnderWay(r, e) <=> IsUnderWay(r, e)')
  BY DEF IsRowOf, IsUnderWay
<1> QED
  BY <1>1 DEF TrailGood, TrailTyped, RowsWereLogged, RowsAreDistinct

\* A response that is not an answer from the audit log, or a good one.
LEMMA RespondStep ==
    ASSUME AuditInv, UNCHANGED <<auditVars, request>>,
           NEW c \in Client, NEW a, Respond(c, a), AnswerGood(request[c], a)
    PROVE  AuditInv'
<1>1. response' = [response EXCEPT ![c] = a]
  BY DEF Respond
<1>2. \A d \in Client : response'[d] = IF d = c THEN a ELSE response[d]
  BY <1>1 DEF AuditInv
<1>3. response' = [d \in Client |-> response'[d]]
  BY <1>1 DEF AuditInv
<1>4. \A d \in Client : AnswerGood(request[d], response'[d])
  BY <1>2 DEF AuditInv
<1>5. UNCHANGED <<now, emitted, pending, auditLog>>
  BY DEF auditVars
<1>6. TrailGood'
  BY <1>5, TrailStays DEF AuditInv
<1>7. \A d \in Client : AnswerGood(request[d], response[d])'
  <2>1. \A r, b : Missing(r, b)' = Missing(r, b)
    BY <1>5 DEF Missing, Matching
  <2>2. \A r, b : AnswerGood(r, b) => AnswerGood(r, b)'
    BY <1>5, <2>1 DEF AnswerGood, Matching
  <2>3. \A d \in Client : request'[d] = request[d]
    OBVIOUS
  <2> QED
    BY <1>4, <2>2, <2>3
<1> QED
  BY <1>3, <1>6, <1>7 DEF AuditInv

\* What QueryEntries returns is a good answer: only a full one lacks rows.
LEMMA QueryIsGood ==
    ASSUME TrailGood, NEW r, NEW A \in QueryEntries(r.arg)
    PROVE  AnswerGood(r, [code |-> 200, ids |-> A, upTo |-> Len(auditLog)])
<1> DEFINE a == [code |-> 200, ids |-> A, upTo |-> Len(auditLog)]
           M == Matching(r.arg)
<1>1. auditLog \in Seq(Stored) /\ Len(auditLog) \in Nat /\ DOMAIN auditLog = 1..Len(auditLog)
  BY DEF TrailGood, TrailTyped
<1>2. M \subseteq 1..Len(auditLog)
  BY <1>1 DEF Matching
<1>3. /\ A \subseteq M
      /\ Cardinality(A) = Cardinality(M) \/ Cardinality(A) = AuditLimit
      /\ \A i \in A, j \in M \ A : auditLog[i].timestamp >= auditLog[j].timestamp
  BY DEF QueryEntries
<1>4. a.upTo = Len(auditLog) /\ a.ids = A
  OBVIOUS
<1>5. Missing(r, a) = M \ A
  BY <1>1, <1>2, <1>4 DEF Missing
<1>6. IsFiniteSet(M)
  <2>1. IsFiniteSet(1..Len(auditLog))
    BY <1>1, FS_Interval
  <2> HIDE DEF M
  <2> QED
    BY <1>2, <2>1, FS_Subset
<1>7. M \ A # {} => Cardinality(A) = AuditLimit
  BY <1>3, <1>6, FS_Subset
<1>8. \A i \in M : auditLog[i].timestamp \in Nat
  <2>1. \A i \in 1..Len(auditLog) : auditLog[i] \in Stored
    BY <1>1
  <2> HIDE DEF M
  <2> QED
    BY <1>2, <2>1 DEF Stored
<1>9. \A i \in M \ A, j \in A : auditLog[i].timestamp <= auditLog[j].timestamp
  BY <1>3, <1>8
<1>10. A \subseteq 1..Len(auditLog) /\ Len(auditLog) \in 0..Len(auditLog)
  BY <1>1, <1>2, <1>3
<1>11. M = Matching(r.arg) /\ A \subseteq M
  BY <1>3
<1> HIDE DEF a, M
<1> QED
  BY <1>4, <1>5, <1>7, <1>9, <1>10, <1>11 DEF AnswerGood, a

\* The handlers keep the audit invariant: only GetAuditLog gives an answer from the log.
LEMMA HandlersStep ==
    ASSUME AuditInv, Handlers, UNCHANGED auditVars
    PROVE  AuditInv'
<1>1. PICK c \in Client : Arrive(c) \/ QueryCosts(c) \/ ListPolicies(c) \/ GetAuditLog(c) \/ QueryFails(c)
  BY DEF Handlers
<1>2. ASSUME NEW a, request[c].route # "audit-log" \/ a.code # 200
      PROVE  AnswerGood(request[c], a)
  BY <1>2 DEF AnswerGood
<1>3. \A n : Code(n).code = n
  BY DEF Code
<1>4. CASE Arrive(c)
  <2>1. UNCHANGED request
    BY <1>4 DEF Arrive
  <2>2. ASSUME NEW n \in {400, 403, 405}, Respond(c, Code(n)) PROVE AuditInv'
    BY <1>2, <1>3, <2>1, <2>2, RespondStep
  <2>3. CASE request[c].route \in PublicRoutes \cup StubRoutes /\ Respond(c, Code(200))
    <3>1. request[c].route # "audit-log"
      BY <2>3 DEF PublicRoutes, StubRoutes
    <3> QED
      BY <1>2, <2>1, <2>3, <3>1, RespondStep
  <2>4. CASE UNCHANGED response
    BY <2>1, <2>4, TrailStays, AnswersStay DEF AuditInv, auditVars
  <2> QED
    BY <1>4, <2>2, <2>3, <2>4 DEF Arrive
<1>5. CASE QueryCosts(c)
  <2>1. request[c].route # "audit-log" /\ UNCHANGED request
    BY <1>5 DEF QueryCosts, CostRoutes
  <2>2. PICK a : Respond(c, a)
    BY <1>5 DEF QueryCosts
  <2> QED
    BY <1>2, <2>1, <2>2, RespondStep
<1>6. CASE ListPolicies(c)
  <2>1. request[c].route # "audit-log" /\ UNCHANGED request
    BY <1>6 DEF ListPolicies, PolicyRoutes
  <2>2. PICK a : Respond(c, a)
    BY <1>6 DEF ListPolicies
  <2> QED
    BY <1>2, <2>1, <2>2, RespondStep
<1>7. CASE GetAuditLog(c)
  <2>1. PICK A \in QueryEntries(request[c].arg) :
            Respond(c, [code |-> 200, ids |-> A, upTo |-> Len(auditLog)])
    BY <1>7 DEF GetAuditLog
  <2>2. AnswerGood(request[c], [code |-> 200, ids |-> A, upTo |-> Len(auditLog)])
    BY QueryIsGood DEF AuditInv
  <2>3. UNCHANGED request
    BY <1>7 DEF GetAuditLog
  <2> QED
    BY <2>1, <2>2, <2>3, RespondStep
<1>8. CASE QueryFails(c)
  <2>1. Respond(c, Code(500)) /\ UNCHANGED request
    BY <1>8 DEF QueryFails
  <2>2. Code(500).code # 200
    BY <1>3
  <2> QED
    BY <1>2, <2>1, <2>2, RespondStep
<1> QED
  BY <1>1, <1>4, <1>5, <1>6, <1>7, <1>8

\* The audit invariant holds throughout.
LEMMA AuditInvariance == Spec => []AuditInv
<1>1. Init => AuditInv
  <2> SUFFICES ASSUME Init PROVE AuditInv
    OBVIOUS
  <2>1. TrailGood
    BY DEF Init, AuditInit, TrailGood, TrailTyped, RowsWereLogged, RowsAreDistinct
  <2>2. response = [c \in Client |-> NoResponse] /\ NoResponse.code = 0
    BY DEF Init, NoResponse
  <2>3. \A c \in Client : response[c].code # 200
    BY <2>2
  <2> QED
    BY <2>1, <2>2, <2>3 DEF AuditInv, AnswerGood
<1>2. AuditInv /\ UNCHANGED <<auditVars, request, response>> => AuditInv'
  <2> SUFFICES ASSUME AuditInv, UNCHANGED <<auditVars, request, response>> PROVE AuditInv'
    OBVIOUS
  <2>1. UNCHANGED <<now, emitted, pending, auditLog, request, response>>
    BY DEF auditVars
  <2>2. TrailGood'
    BY <2>1, TrailStays DEF AuditInv
  <2> QED
    BY <2>1, <2>2, AnswersStay
<1>3. AuditInv /\ [Next]_vars => AuditInv'
  <2> SUFFICES ASSUME AuditInv, [Next]_vars PROVE AuditInv'
    OBVIOUS
  <2>1. CASE AuditNext /\ UNCHANGED apiVars
    BY <2>1, AuditStep DEF apiVars
  <2>2. CASE Handlers /\ UNCHANGED auditVars
    BY <2>2, HandlersStep
  <2>3. CASE UNCHANGED <<auditVars, request, response>>
    BY <1>2, <2>3
  <2>4. ASSUME NEW t \in 0..MaxTime, NEW n \in Namespace, StoreCostRecords(t, n), UNCHANGED auditVars
        PROVE  AuditInv'
    BY <1>2, <2>4 DEF StoreCostRecords
  <2> QED
    BY <2>1, <2>2, <2>3, <2>4 DEF Next, vars, apiVars
<1> QED
  BY <1>1, <1>3, PTL DEF Spec

\* Every stored audit row is that of an entry that was logged, with the time it
\* was given or, if it was logged without one, a time since; no entry has two
\* rows; and every answer of QueryEntries had the newest rows of its time.  For
\* any number of callers, any order of inserts, and any limit.
THEOREM AuditIsTrue == Spec => []AuditTrailIsTrue
<1>1. ASSUME AuditInv PROVE AuditTrailIsTrue
  <2>1. /\ \A i \in DOMAIN auditLog : \E e \in emitted : IsRowOf(auditLog[i], e)
        /\ \A i, j \in DOMAIN auditLog : auditLog[i].actor = auditLog[j].actor => i = j
    BY <1>1 DEF AuditInv, TrailGood, RowsWereLogged, RowsAreDistinct
  <2>2. ASSUME NEW c \in Client, request[c].route = "audit-log", response[c].code = 200
        PROVE  LET a == response[c]
                   missing == {i \in Matching(request[c].arg) : i <= a.upTo /\ i \notin a.ids}
               IN  /\ a.ids \subseteq Matching(request[c].arg)
                   /\ missing # {} => Cardinality(a.ids) = AuditLimit
                   /\ \A i \in missing, j \in a.ids : auditLog[i].timestamp <= auditLog[j].timestamp
    BY <1>1, <2>2 DEF AuditInv, AnswerGood, Missing
  <2> QED
    BY <2>1, <2>2 DEF AuditTrailIsTrue
<1> QED
  BY <1>1, AuditInvariance, PTL

----------------------------------------------------------------------------
(* The cost answers *)

\* The sum of an answer's namespaces.
Parts(a) == MapThenSumSet(LAMBDA n : a.byNamespace[n], DOMAIN a.byNamespace)

\* An answer to a cost request counts at least the rows that were there when it arrived and
\* at most those that are there now, and its parts add up.
CostAnswerGood(c) ==
    LET r == request[c]
        a == response[c]
    IN  r.route \in CostRoutes /\ a.code = 200 =>
            /\ HasTable("cost_records")
            /\ a.total \in Nat
            /\ CostOf(Selected(stable[c], range[c], Filter(r))) <= a.total
            /\ a.total <= CostOf(Selected(costRecords, range[c], Filter(r)))
            /\ a.total = Parts(a)

\* Rows are only added, those of a request's arrival are still there, and there is no
\* answer before the query.
CostInv ==
    /\ IsFiniteSet(costRecords) /\ \A r \in costRecords : r.cost \in Nat
    /\ hpc = [c \in Client |-> hpc[c]] /\ range = [c \in Client |-> range[c]]
    /\ stable = [c \in Client |-> stable[c]] /\ response = [c \in Client |-> response[c]]
    /\ \A c \in Client : /\ hpc[c] # "done" => response[c].code # 200
                         /\ stable[c] \subseteq costRecords
                         /\ CostAnswerGood(c)

\* The rows a query selects are rows, and more rows select more.
LEMMA SelectedRows ==
    ASSUME NEW rows, NEW part \in SUBSET rows, NEW span, NEW namespace, IsFiniteSet(rows),
           \A r \in rows : r.cost \in Nat
    PROVE  /\ CostOf(Selected(rows, span, namespace)) \in Nat
           /\ CostOf(Selected(part, span, namespace)) <= CostOf(Selected(rows, span, namespace))
<1>1. PICK S, T, f : /\ S = Selected(rows, span, namespace) /\ T = Selected(part, span, namespace)
                     /\ f = [r \in rows |-> r.cost]
  OBVIOUS
<1>2. T \subseteq S /\ S \subseteq rows
  BY <1>1 DEF Selected
<1>3. IsFiniteSet(S) /\ IsFiniteSet(T)
  BY <1>2, FS_Subset
<1>4. \A r \in S : f[r] = r.cost /\ f[r] \in Nat
  BY <1>1, <1>2
<1>5. CostOf(S) = SumFunctionOnSet(f, S)
  BY <1>4, RowSum DEF CostOf
<1>6. CostOf(T) = SumFunctionOnSet(f, T)
  <2>1. \A r \in T : f[r] = r.cost
    BY <1>2, <1>4
  <2> QED
    BY <2>1, RowSum DEF CostOf
<1>7. SumFunctionOnSet(f, S) \in Nat /\ SumFunctionOnSet(f, T) <= SumFunctionOnSet(f, S)
  BY <1>2, <1>3, <1>4, SumOfNat, SumOfPart
<1> QED
  BY <1>1, <1>5, <1>6, <1>7

\* The records of a query, one per day and namespace, cost what the selected rows cost.
LEMMA RecordsAddUp ==
    ASSUME NEW rows, NEW span, NEW namespace, IsFiniteSet(rows), \A r \in rows : r.cost \in Nat
    PROVE  LET records == QueryCostRecords(rows, span, namespace)
           IN  /\ IsFiniteSet(records) /\ \A r \in records : r.cost \in Int
               /\ CostOf(records) = CostOf(Selected(rows, span, namespace))
<1> DEFINE day(r) == r.time \div DayLength
<1>1. PICK all, f, l : /\ all = Selected(rows, span, namespace) /\ f = [r \in all |-> r.cost]
                       /\ l = [r \in all |-> <<day(r), r.namespace>>]
  OBVIOUS
<1>2. PICK D : D = {l[r] : r \in all}
  OBVIOUS
<1>3. PICK k, c : /\ k = [d \in D |-> {r \in all : l[r] = d}]
                  /\ c = [d \in D |-> SumFunctionOnSet(f, k[d])]
  OBVIOUS
<1>4. PICK h, records : /\ h = [d \in D |-> [day |-> d[1], namespace |-> d[2], cost |-> c[d]]]
                        /\ records = QueryCostRecords(rows, span, namespace)
  OBVIOUS
<1>5. all \subseteq rows
  BY <1>1 DEF Selected
<1>6. IsFiniteSet(all) /\ \A r \in all : f[r] = r.cost /\ f[r] \in Nat /\ f[r] \in Int
  BY <1>1, <1>5, FS_Subset
<1>7. IsFiniteSet(D) /\ \A r \in all : l[r] \in D
  BY <1>2, <1>6, ImageIsFinite
<1>8. SumFunctionOnSet(c, D) = SumFunctionOnSet(f, all)
  <2>1. \A r \in all : f[r] \in Int
    BY <1>6
  <2>2. \A d \in D : k[d] = {r \in all : l[r] = d}
    BY <1>3
  <2>3. \A d \in D : c[d] = SumFunctionOnSet(f, k[d])
    BY <1>3
  <2> HIDE DEF day
  <2> QED
    BY <1>6, <1>7, <2>1, <2>2, <2>3, SumOfClasses
<1>9. ASSUME NEW d \in D
      PROVE  c[d] \in Int /\ c[d] = CostOf(k[d])
  <2>1. k[d] \subseteq all
    BY <1>3
  <2>2. IsFiniteSet(k[d]) /\ (\A r \in k[d] : f[r] \in Int) /\ \A r \in k[d] : f[r] = r.cost
    BY <1>6, <2>1, FS_Subset
  <2>3. c[d] = SumFunctionOnSet(f, k[d])
    BY <1>3
  <2>4. SumFunctionOnSet(f, k[d]) \in Int
    BY <2>2, SumIsInt
  <2>5. CostOf(k[d]) = SumFunctionOnSet(f, k[d])
    BY <2>2, RowSum DEF CostOf
  <2> QED
    BY <2>3, <2>4, <2>5
<1>10. records = {h[d] : d \in D}
  <2>0. PICK q : q = [r \in all |->
             [day |-> day(r), namespace |-> r.namespace,
              cost |-> CostOf({s \in all : day(s) = day(r) /\ s.namespace = r.namespace})]]
    OBVIOUS
  <2>1. ASSUME NEW r \in all
        PROVE  q[r] = h[l[r]]
    <3>1. PICK d : d = l[r]
      OBVIOUS
    <3>2. d \in D /\ d = <<day(r), r.namespace>>
      BY <1>1, <1>7, <3>1
    <3>3. k[d] = {s \in all : day(s) = day(r) /\ s.namespace = r.namespace}
      <4> HIDE DEF day
      <4>1. \A s \in all : l[s] = <<day(s), s.namespace>>
        BY <1>1
      <4>2. k[d] = {s \in all : l[s] = d}
        BY <1>3, <3>2
      <4> QED
        BY <3>2, <4>1, <4>2
    <3>4. h[d] = [day |-> day(r), namespace |-> r.namespace, cost |-> c[d]]
      BY <1>4, <3>2
    <3>5. q[r] = [day |-> day(r), namespace |-> r.namespace, cost |-> CostOf(k[d])]
      <4> HIDE DEF day
      <4> QED
        BY <2>0, <3>3
    <3> HIDE DEF day
    <3> QED
      BY <1>9, <3>1, <3>2, <3>4, <3>5
  <2>2. records = {[day |-> day(r), namespace |-> r.namespace,
                    cost |-> CostOf({s \in all : day(s) = day(r) /\ s.namespace = r.namespace})] : r \in all}
    BY <1>1, <1>4 DEF QueryCostRecords
  <2>3. records = {q[r] : r \in all}
    <3> HIDE DEF day
    <3> QED
      BY <2>0, <2>2
  <2> HIDE DEF day
  <2> QED
    BY <1>2, <2>1, <2>3
<1>11. \A d, e \in D : h[d] = h[e] => d = e
  <2> SUFFICES ASSUME NEW d \in D, NEW e \in D, h[d] = h[e]
               PROVE  d = e
    OBVIOUS
  <2> HIDE DEF day
  <2>1. h[d].day = d[1] /\ h[d].namespace = d[2] /\ h[e].day = e[1] /\ h[e].namespace = e[2]
    BY <1>4
  <2>2. d[1] = e[1] /\ d[2] = e[2]
    BY <2>1
  <2>3. PICK r \in all, s \in all : d = <<day(r), r.namespace>> /\ e = <<day(s), s.namespace>>
    BY <1>1, <1>2
  <2> QED
    BY <2>2, <2>3
<1>12. PICK g : g = [x \in records |-> x.cost]
  OBVIOUS
<1>13. \A d \in D : c[d] \in Int /\ g[h[d]] = c[d]
  <2>1. \A d \in D : h[d] \in records /\ h[d].cost = c[d]
    BY <1>4, <1>10
  <2> QED
    BY <1>9, <1>12, <2>1
<1>14. SumFunctionOnSet(g, records) = SumFunctionOnSet(c, D)
  BY <1>7, <1>10, <1>11, <1>13, SumOfImage
<1>15. CostOf(records) = SumFunctionOnSet(g, records)
  BY <1>12, RowSum DEF CostOf
<1>16. CostOf(all) = SumFunctionOnSet(f, all)
  BY <1>6, RowSum DEF CostOf
<1>17. IsFiniteSet(records) /\ \A r \in records : r.cost \in Int
  <2>1. IsFiniteSet(records)
    BY <1>7, <1>10, ImageIsFinite
  <2>2. \A d \in D : h[d].cost = c[d]
    BY <1>4
  <2>3. \A r \in records : \E d \in D : r = h[d]
    BY <1>10
  <2> QED
    BY <1>9, <2>1, <2>2, <2>3
<1> QED
  BY <1>1, <1>4, <1>8, <1>14, <1>15, <1>16, <1>17

\* The answer's total is the sum of its namespaces.
LEMMA ResponseAddsUp ==
    ASSUME NEW records, IsFiniteSet(records), \A r \in records : r.cost \in Int
    PROVE  LET a == buildCostResponse(records)
           IN  a.total = Parts(a)
<1>1. PICK a, b : a = buildCostResponse(records) /\ b = a.byNamespace
  OBVIOUS
<1>2. PICK D, g, l, k : /\ D = {r.namespace : r \in records} /\ g = [r \in records |-> r.cost]
                        /\ l = [r \in records |-> r.namespace]
                        /\ k = [n \in D |-> {r \in records : r.namespace = n}]
  OBVIOUS
<1>3. a.total = CostOf(records) /\ b = [n \in D |-> CostOf({r \in records : r.namespace = n})]
  BY <1>1, <1>2 DEF buildCostResponse
<1>4. D = {l[r] : r \in records}
  BY <1>2
<1>5. IsFiniteSet(D) /\ \A r \in records : l[r] \in D
  BY <1>4, ImageIsFinite
<1>6. \A n \in D : k[n] = {r \in records : l[r] = n}
  BY <1>2
<1>7. \A r \in records : g[r] \in Int
  BY <1>2
<1>8. ASSUME NEW n \in D
      PROVE  b[n] = SumFunctionOnSet(g, k[n])
  <2>1. \A r \in k[n] : g[r] = r.cost
    BY <1>2
  <2>2. b[n] = CostOf(k[n])
    BY <1>2, <1>3
  <2> QED
    BY <2>1, <2>2, RowSum DEF CostOf
<1>9. SumFunctionOnSet(b, D) = SumFunctionOnSet(g, records)
  BY <1>5, <1>6, <1>7, <1>8, SumOfClasses
<1>10. CostOf(records) = SumFunctionOnSet(g, records)
  BY <1>2, RowSum DEF CostOf
<1>11. MapThenSumSet(LAMBDA n : b[n], D) = SumFunctionOnSet(b, D)
  BY ValueSum
<1>12. DOMAIN b = D
  BY <1>3
<1> QED
  BY <1>1, <1>3, <1>9, <1>10, <1>11, <1>12 DEF Parts

\* An answer stays true of a client whose request is over, whatever is stored or migrated.
LEMMA AnswerKept ==
    ASSUME CostInv, NEW c \in Client, CostAnswerGood(c), request'[c] = request[c],
           range'[c] = range[c], stable'[c] = stable[c], response'[c] = response[c],
           schema \subseteq schema', costRecords \subseteq costRecords', IsFiniteSet(costRecords'),
           \A r \in costRecords' : r.cost \in Nat
    PROVE  CostAnswerGood(c)'
<1> SUFFICES ASSUME request[c].route \in CostRoutes, response[c].code = 200
             PROVE  CostAnswerGood(c)'
  BY DEF CostAnswerGood
<1>1. PICK r, a, s : r = request[c] /\ a = response[c] /\ s = range[c]
  OBVIOUS
<1>2. PICK x, y, z : /\ x = CostOf(Selected(stable[c], s, Filter(r)))
                     /\ y = CostOf(Selected(costRecords, s, Filter(r)))
                     /\ z = CostOf(Selected(costRecords', s, Filter(r)))
  OBVIOUS
<1>3. /\ HasTable("cost_records") /\ a.total \in Nat /\ x <= a.total /\ a.total <= y
      /\ a.total = Parts(a)
  BY <1>1, <1>2 DEF CostAnswerGood
<1>4. HasTable("cost_records")'
  BY <1>3 DEF HasTable
<1>5. y \in Nat /\ z \in Nat /\ y <= z
  <2>1. costRecords \in SUBSET costRecords' /\ costRecords' \in SUBSET costRecords'
    OBVIOUS
  <2> QED
    BY <1>2, <2>1, SelectedRows DEF CostInv
<1>6. a.total <= z
  BY <1>3, <1>5
<1>7. /\ request'[c] = r /\ response'[c] = a /\ range'[c] = s /\ stable'[c] = stable[c]
  BY <1>1
<1> QED
  BY <1>2, <1>3, <1>4, <1>6, <1>7 DEF CostAnswerGood

\* Rows, tables and audit entries come while requests are under way.
LEMMA SurroundingsStep ==
    ASSUME CostInv, UNCHANGED <<hpc, request, range, stable, response>>,
           schema \subseteq schema', costRecords \subseteq costRecords', IsFiniteSet(costRecords'),
           \A r \in costRecords' : r.cost \in Nat
    PROVE  CostInv'
<1>1. \A c \in Client : CostAnswerGood(c)'
  <2> SUFFICES ASSUME NEW c \in Client PROVE CostAnswerGood(c)'
    OBVIOUS
  <2>1. CostAnswerGood(c)
    BY DEF CostInv
  <2> QED
    BY <2>1, AnswerKept
<1> QED
  BY <1>1 DEF CostInv

\* A request is answered, truly if it is a cost request that is answered with 200.
LEMMA CostRespondStep ==
    ASSUME CostInv, UNCHANGED <<schema, costRecords, request, range, stable>>,
           NEW c \in Client, NEW a, Respond(c, a),
           request[c].route \in CostRoutes /\ a.code = 200 => CostAnswerGood(c)'
    PROVE  CostInv'
<1>1. /\ response' = [response EXCEPT ![c] = a] /\ hpc' = [hpc EXCEPT ![c] = "done"]
      /\ response = [d \in Client |-> response[d]] /\ hpc = [d \in Client |-> hpc[d]]
  BY DEF Respond, CostInv
<1>2. response'[c] = a /\ hpc'[c] = "done"
  BY <1>1
<1>3. \A d \in Client \ {c} : response'[d] = response[d] /\ hpc'[d] = hpc[d]
  BY <1>1
<1>4. response' = [d \in Client |-> response'[d]] /\ hpc' = [d \in Client |-> hpc'[d]]
  BY <1>1
<1>5. ASSUME NEW d \in Client
      PROVE  CostAnswerGood(d)'
  <2>1. CASE d = c
    <3>1. CASE request[c].route \in CostRoutes /\ a.code = 200
      BY <2>1, <3>1
    <3>2. CASE ~(request[c].route \in CostRoutes /\ a.code = 200)
      <4>1. ~(request'[d].route \in CostRoutes /\ response'[d].code = 200)
        BY <1>2, <2>1, <3>2
      <4> QED
        BY <4>1 DEF CostAnswerGood
    <3> QED
      BY <3>1, <3>2
  <2>2. CASE d # c
    <3>1. CostAnswerGood(d) /\ IsFiniteSet(costRecords) /\ \A r \in costRecords : r.cost \in Nat
      BY DEF CostInv
    <3>2. response'[d] = response[d]
      BY <1>3, <2>2
    <3> QED
      BY <3>1, <3>2, AnswerKept
  <2> QED
    BY <2>1, <2>2
<1>6. \A d \in Client : hpc'[d] # "done" => response'[d].code # 200
  BY <1>2, <1>3 DEF CostInv
<1> QED
  BY <1>4, <1>5, <1>6 DEF CostInv

\* A request arrives: it is refused or answered, or its range and the rows of the moment
\* are noted.
LEMMA ArriveStep ==
    ASSUME CostInv, NEW c \in Client, Arrive(c), UNCHANGED schema
    PROVE  CostInv'
<1>1. hpc[c] = "idle" /\ UNCHANGED <<costRecords, request>>
  BY DEF Arrive
<1>2. \A n : Code(n).code = n
  BY DEF Code
<1>3. CASE \E n \in {403, 405, 400} : Respond(c, Code(n)) /\ UNCHANGED <<range, stable>>
  <2>1. PICK n \in {403, 405, 400} : Respond(c, Code(n)) /\ UNCHANGED <<range, stable>>
    BY <1>3
  <2>2. Code(n).code # 200
    BY <1>2, <2>1
  <2> QED
    BY <1>1, <2>1, <2>2, CostRespondStep
<1>4. CASE /\ request[c].route \in PublicRoutes \cup StubRoutes
           /\ Respond(c, Code(200)) /\ UNCHANGED <<range, stable>>
  <2>1. request[c].route \notin CostRoutes
    BY <1>4 DEF PublicRoutes, StubRoutes, CostRoutes
  <2> QED
    BY <1>1, <1>4, <2>1, CostRespondStep
<1>5. CASE /\ range' = [range EXCEPT ![c] = parseTimeRange(request[c])]
           /\ stable' = [stable EXCEPT ![c] = costRecords]
           /\ hpc' = [hpc EXCEPT ![c] = "query"]
           /\ UNCHANGED response
  <2>1. PICK s : s = parseTimeRange(request[c])
    OBVIOUS
  <2>2. /\ range = [d \in Client |-> range[d]] /\ stable = [d \in Client |-> stable[d]]
        /\ hpc = [d \in Client |-> hpc[d]]
    BY DEF CostInv
  <2>3. /\ range' = [d \in Client |-> range'[d]] /\ stable' = [d \in Client |-> stable'[d]]
        /\ hpc' = [d \in Client |-> hpc'[d]]
    BY <1>5, <2>1, <2>2
  <2>4. stable'[c] = costRecords /\ hpc'[c] = "query"
    BY <1>5, <2>2
  <2>5. \A d \in Client \ {c} : range'[d] = range[d] /\ stable'[d] = stable[d] /\ hpc'[d] = hpc[d]
    BY <1>5, <2>1, <2>2
  <2>6. ASSUME NEW d \in Client
        PROVE  CostAnswerGood(d)'
    <3>1. CASE d = c
      <4>1. response'[d].code # 200
        BY <1>1, <1>5, <3>1 DEF CostInv
      <4> QED
        BY <4>1 DEF CostAnswerGood
    <3>2. CASE d # c
      <4>1. CostAnswerGood(d) /\ IsFiniteSet(costRecords) /\ \A r \in costRecords : r.cost \in Nat
        BY DEF CostInv
      <4>2. /\ request'[d] = request[d] /\ response'[d] = response[d]
            /\ range'[d] = range[d] /\ stable'[d] = stable[d]
        BY <1>1, <1>5, <2>5, <3>2
      <4> QED
        BY <1>1, <4>1, <4>2, AnswerKept
    <3> QED
      BY <3>1, <3>2
  <2>7. \A d \in Client : hpc'[d] # "done" => response'[d].code # 200
    BY <1>1, <1>5, <2>5 DEF CostInv
  <2>8. \A d \in Client : stable'[d] \subseteq costRecords'
    BY <1>1, <2>4, <2>5 DEF CostInv
  <2> QED
    BY <1>1, <1>5, <2>3, <2>6, <2>7, <2>8 DEF CostInv
<1> QED
  BY <1>3, <1>4, <1>5 DEF Arrive

\* The query of a cost request counts the rows of its moment.
LEMMA QueryStep ==
    ASSUME CostInv, NEW c \in Client, QueryCosts(c), UNCHANGED schema
    PROVE  CostInv'
<1>1. PICK r, s, records : /\ r = request[c] /\ s = range[c]
                           /\ records = QueryCostRecords(costRecords, s, Filter(r))
  OBVIOUS
<1>2. PICK a : /\ a = IF r.route = "namespace" /\ records = {} THEN Code(404)
                      ELSE buildCostResponse(records)
               /\ Respond(c, a)
  BY <1>1 DEF QueryCosts
<1>3. UNCHANGED <<costRecords, request, range, stable>> /\ HasTable("cost_records")
  BY DEF QueryCosts
<1>4. ASSUME a.code = 200
      PROVE  CostAnswerGood(c)'
  <2>1. a = buildCostResponse(records)
    <3>1. Code(404).code # 200
      BY DEF Code
    <3> QED
      BY <1>2, <1>4, <3>1
  <2>2. PICK x, y : /\ x = CostOf(Selected(stable[c], s, Filter(r)))
                    /\ y = CostOf(Selected(costRecords, s, Filter(r)))
    OBVIOUS
  <2>3. /\ IsFiniteSet(costRecords) /\ (\A w \in costRecords : w.cost \in Nat)
        /\ stable[c] \in SUBSET costRecords
    BY DEF CostInv
  <2>4. x <= y /\ y \in Nat
    BY <2>2, <2>3, SelectedRows
  <2>5. IsFiniteSet(records) /\ (\A w \in records : w.cost \in Int) /\ CostOf(records) = y
    BY <1>1, <2>2, <2>3, RecordsAddUp
  <2>6. a.total = y
    BY <2>1, <2>5 DEF buildCostResponse
  <2>7. a.total = Parts(a)
    BY <2>1, <2>5, ResponseAddsUp
  <2>8. response'[c] = a
    BY <1>2 DEF Respond, CostInv
  <2>9. HasTable("cost_records")'
    BY <1>3 DEF HasTable
  <2>10. request'[c] = r /\ range'[c] = s /\ stable'[c] = stable[c] /\ costRecords' = costRecords
    BY <1>1, <1>3
  <2>11. a.total \in Nat /\ x <= a.total /\ a.total <= y
    BY <2>4, <2>6
  <2> QED
    BY <2>2, <2>7, <2>8, <2>9, <2>10, <2>11 DEF CostAnswerGood
<1> QED
  BY <1>2, <1>3, <1>4, CostRespondStep

\* Every step keeps the cost answers true.
LEMMA CostStep ==
    ASSUME CostInv, [Next]_vars
    PROVE  CostInv'
<1>1. IsFiniteSet(costRecords) /\ \A r \in costRecords : r.cost \in Nat
  BY DEF CostInv
<1>2. CASE UNCHANGED apiVars /\ schema \subseteq schema'
  BY <1>1, <1>2, SurroundingsStep DEF apiVars
<1>3. CASE DatabaseNext /\ UNCHANGED apiVars
  <2>1. schema \subseteq schema'
    BY <1>3 DEF DatabaseNext, NewDB, Statement, Commit, MigrationFails, RunMigrationsReturns, Crash
  <2> QED
    BY <1>2, <1>3, <2>1
<1>4. CASE Handlers /\ UNCHANGED schema
  <2>1. PICK c \in Client : \/ Arrive(c) \/ QueryCosts(c) \/ ListPolicies(c)
                            \/ GetAuditLog(c) \/ QueryFails(c)
    BY <1>4 DEF Handlers
  <2>2. CASE ListPolicies(c)
    <3>1. request[c].route \notin CostRoutes /\ UNCHANGED <<costRecords, request, range, stable>>
      BY <2>2 DEF ListPolicies, PolicyRoutes, CostRoutes
    <3>2. PICK a : Respond(c, a)
      BY <2>2 DEF ListPolicies
    <3> QED
      BY <1>4, <3>1, <3>2, CostRespondStep
  <2>3. CASE GetAuditLog(c)
    <3>1. request[c].route \notin CostRoutes /\ UNCHANGED <<costRecords, request, range, stable>>
      BY <2>3 DEF GetAuditLog, CostRoutes
    <3>2. PICK a : Respond(c, a)
      BY <2>3 DEF GetAuditLog
    <3> QED
      BY <1>4, <3>1, <3>2, CostRespondStep
  <2>4. CASE QueryFails(c)
    <3>1. Respond(c, Code(500)) /\ UNCHANGED <<costRecords, request, range, stable>>
      BY <2>4 DEF QueryFails
    <3>2. Code(500).code # 200
      BY DEF Code
    <3> QED
      BY <1>4, <3>1, <3>2, CostRespondStep
  <2> QED
    BY <1>4, <2>1, <2>2, <2>3, <2>4, ArriveStep, QueryStep
<1>5. ASSUME NEW t \in 0..MaxTime, NEW n \in Namespace, StoreCostRecords(t, n), UNCHANGED schema
      PROVE  CostInv'
  <2>1. PICK row : row = [time |-> t, namespace |-> n, cost |-> 1]
    OBVIOUS
  <2>2. costRecords' = costRecords \cup {row} /\ UNCHANGED <<hpc, request, range, stable, response>>
    BY <1>5, <2>1 DEF StoreCostRecords
  <2>3. IsFiniteSet(costRecords') /\ \A r \in costRecords' : r.cost \in Nat
    <3>1. IsFiniteSet(costRecords')
      BY <1>1, <2>2, FS_AddElement
    <3>2. row.cost \in Nat
      BY <2>1
    <3> QED
      BY <1>1, <2>2, <3>1, <3>2
  <2> QED
    BY <1>5, <2>2, <2>3, SurroundingsStep
<1> QED
  BY <1>2, <1>3, <1>4, <1>5 DEF Next, vars, dbVars

\* The cost invariant holds throughout.
LEMMA CostInvariance == Spec => []CostInv
<1>1. Init => CostInv
  <2> SUFFICES ASSUME Init PROVE CostInv
    OBVIOUS
  <2>1. /\ costRecords = {} /\ hpc = [c \in Client |-> "idle"] /\ range = [c \in Client |-> <<0, 0>>]
        /\ stable = [c \in Client |-> {}] /\ response = [c \in Client |-> NoResponse]
    BY DEF Init
  <2>2. NoResponse.code # 200
    BY DEF NoResponse
  <2>3. \A c \in Client : response[c].code # 200 /\ stable[c] = {}
    BY <2>1, <2>2
  <2>4. IsFiniteSet(costRecords)
    BY <2>1, FS_EmptySet
  <2> QED
    BY <2>1, <2>3, <2>4 DEF CostInv, CostAnswerGood
<1> QED
  BY <1>1, CostStep, PTL DEF Spec

\* A cost answer counts every row of its range that was there when the request arrived and
\* no other than those stored since, and its parts add up, for any rows, ranges and number
\* of clients.
THEOREM CostAnswersTrue == Spec => []CostAnswersAreTrue
<1>1. ASSUME CostInv PROVE CostAnswersAreTrue
  <2> SUFFICES ASSUME NEW c \in Client, request[c].route \in CostRoutes, response[c].code = 200
               PROVE  LET r == request[c]
                          a == response[c]
                      IN  /\ HasTable("cost_records")
                          /\ CostOf(Selected(stable[c], range[c], Filter(r))) <= a.total
                          /\ a.total <= CostOf({s \in costRecords :
                                /\ range[c][1] <= s.time /\ s.time < range[c][2]
                                /\ Filter(r) \in {"", s.namespace}})
                          /\ a.total = MapThenSumSet(LAMBDA n : a.byNamespace[n], DOMAIN a.byNamespace)
    BY DEF CostAnswersAreTrue
  <2>1. CostAnswerGood(c)
    BY <1>1 DEF CostInv
  <2>2. Selected(costRecords, range[c], Filter(request[c])) =
           {s \in costRecords : /\ range[c][1] <= s.time /\ s.time < range[c][2]
                                /\ Filter(request[c]) \in {"", s.namespace}}
    BY DEF Selected
  <2> QED
    BY <2>1, <2>2 DEF CostAnswerGood, Parts
<1>2. CostInv => CostAnswersAreTrue
  BY <1>1
<1> QED
  BY <1>2, CostInvariance, PTL
=============================================================================
