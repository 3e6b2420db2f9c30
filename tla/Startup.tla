------------------------------ MODULE Startup ------------------------------
(***************************************************************************)
(* The workers of gunicorn start at once on one database.  Each runs the   *)
(* lifespan: migrations, create_all, the settings row, the first           *)
(* administrator, the sweep of all servers; then it serves, and the        *)
(* settings form among the rest.                                           *)
(* Every query is a transaction of its own and every DDL statement commits *)
(* by itself (the driver opens a transaction only before a change of       *)
(* rows), so between any two of them another worker may act.               *)
(* Statements that the database refuses for reasons of its own (locked, no *)
(* space) are left out.                                                    *)
(*                                                                         *)
(* A lifespan that raises ends the process with the exit code on which     *)
(* gunicorn halts; the service manager starts it again (run.sh).  A        *)
(* process that dies otherwise is replaced alone.                          *)
(***************************************************************************)
EXTENDS Settings, Sequences

CONSTANTS
    Order,       \* the tables, in the order create_all creates them
    Expected,    \* the columns the migrations know, for each table
    Indexed,     \* tables whose creation is followed by CREATE INDEX
    Listed,      \* those whose index the migrations look after as well
    UsersTable,
    MaxMishaps   \* bound on processes that die and servers that are deleted

Tables == {Order[i] : i \in DOMAIN Order}

ASSUME TablesAssumption ==
    /\ UsersTable \in Indexed \ Listed
    /\ Listed \subseteq Indexed
    /\ Indexed \subseteq Tables
    /\ Order \in Seq(Tables)
    /\ Expected = [t \in Tables |-> Expected[t]]
    /\ \A t \in Tables : IsFiniteSet(Expected[t])

Columns == UNION {Expected[t] : t \in Tables}

VARIABLES
    tables,    \* those that exist
    columns,   \* for each of them, which of the expected columns it has
    indexes,   \* tables whose index exists
    admins,    \* rows of the users table with the administrator's name
    master,    \* gunicorn: it replaces dead workers until it halts
    pc,        \* where a worker is
    at,        \* migrations: the position in Order
    todo,      \* columns or tables that its last look found missing
    item,      \* {} or {the column or the table it is about to create}
    seen,      \* the settings row a migration is about to rewrite
    crashes,
    deletions, \* servers deleted so far
    disturbed, \* workers in whose sweep, the last step of a start, one of them was
    origin,    \* history: what the database was at first
    lastSave,  \* history: the last save committed
    met,       \* history: workers that were starting while another was
    cut        \* history: tables whose index was not there yet when their
               \* creator died, or when another worker used the table

vars == <<settingsVars, tables, columns, indexes, admins, master, pc, at, todo, item, seen,
          crashes, deletions, disturbed, origin, lastSave, met, cut>>

schemaVars == <<tables, columns, indexes>>
localVars == <<at, todo, item, seen>>
registryVars == <<deletions, disturbed>>
historyVars == <<crashes, registryVars, origin, lastSave, met, cut>>

Starting ==
    {"migrate", "columns", "alter", "settings", "rewrite", "indexes", "check", "create",
     "index", "load", "insert", "admin", "add admin",
     "sweep"}

(* A database is empty, or it is of an older version that had none of the  *)
(* columns and of the settings' keys the migrations add.  (A current one   *)
(* is what a restart finds.)                                               *)
OldRow == [Default EXCEPT !.retry = FALSE]

Init ==
    /\ \/ /\ tables = {} /\ indexes = {} /\ admins = 0 /\ row = {}
          /\ columns = [t \in Tables |-> {}]
          /\ origin = "empty"
       \/ /\ tables = Tables
          /\ columns = [t \in Tables |-> {}]
          /\ indexes = Indexed \ Listed
          /\ row = {OldRow}
          /\ admins = 1
          /\ origin = "old"
    /\ copy = [w \in Workers |-> {}]
    /\ files = {}
    /\ stage = [s \in Saves |-> "new"]
    /\ handler = [s \in Saves |-> {}]
    /\ base = [s \in Saves |-> {}]
    /\ form = [s \in Saves |-> {}]
    /\ master = "running"
    /\ pc = [w \in Workers |-> "down"]
    /\ at = [w \in Workers |-> 0]
    /\ todo = [w \in Workers |-> {}]
    /\ item = [w \in Workers |-> {}]
    /\ seen = [w \in Workers |-> {}]
    /\ crashes = 0
    /\ deletions = 0
    /\ disturbed = {}
    /\ lastSave = None
    /\ met = {}
    /\ cut = {}

-----------------------------------------------------------------------------
(* The processes.                                                          *)

GoTo(w, to) == pc' = [pc EXCEPT ![w] = to]

Clear(w) ==
    /\ at' = [at EXCEPT ![w] = 0]
    /\ todo' = [todo EXCEPT ![w] = {}]
    /\ item' = [item EXCEPT ![w] = {}]
    /\ seen' = [seen EXCEPT ![w] = {}]

Boot(w) ==
    /\ master = "running"
    /\ pc[w] = "down"
    /\ GoTo(w, "migrate")
    /\ at' = [at EXCEPT ![w] = 1]
    /\ LET others == {v \in Workers \ {w} : pc[v] \in Starting}
       IN met' = IF others = {} THEN met \ {w} ELSE met \union {w} \union others
    /\ disturbed' = disturbed \ {w}
    /\ UNCHANGED <<settingsVars, schemaVars, admins, master, todo, item, seen, crashes,
                   deletions, origin, lastSave, cut>>

(* The lifespan raises: the worker exits, and gunicorn halts.              *)
Raise(w) ==
    /\ GoTo(w, "failed")
    /\ master' = "halting"
    /\ Clear(w)
    /\ UNCHANGED <<settingsVars, schemaVars, admins, historyVars>>

Stop(w) ==
    /\ master = "halting"
    /\ pc[w] = "serving"
    /\ GoTo(w, "down")
    /\ Forget(w)
    /\ UNCHANGED <<row, files, handler, base, form, schemaVars, admins, master,
                   localVars, historyVars>>

Restart ==
    /\ master = "halting"
    /\ \A w \in Workers : pc[w] \in {"down", "failed"}
    /\ master' = "running"
    /\ pc' = [w \in Workers |-> "down"]
    /\ UNCHANGED <<settingsVars, schemaVars, admins, localVars, historyVars>>

Crash(w) ==
    /\ crashes + deletions < MaxMishaps
    /\ pc[w] \in Starting \union {"serving"}
    /\ crashes' = crashes + 1
    /\ GoTo(w, "down")
    /\ Clear(w)
    /\ Forget(w)
    /\ cut' = IF pc[w] = "index" THEN cut \union item[w] ELSE cut
    /\ UNCHANGED <<row, files, handler, base, form, schemaVars, admins, master,
                   registryVars, origin, lastSave, met>>

-----------------------------------------------------------------------------
(* Migrations: auto_migrate_table for each table, one after the other.     *)

(* A mutant: columns are added to tables that are not there.               *)
MissingColumnsOfAny(t) == Expected[t] \ columns[t]

MissingColumns(t) == IF t \in tables THEN Expected[t] \ columns[t] ELSE {}

MigrateTable(w) ==
    /\ pc[w] = "migrate"
    /\ IF at[w] > Len(Order)
       THEN /\ GoTo(w, "settings")
            /\ at' = [at EXCEPT ![w] = 0]
            /\ UNCHANGED todo
       ELSE LET missing == MissingColumns(Order[at[w]])
            IN /\ todo' = [todo EXCEPT ![w] = missing]
               /\ IF missing = {}
                  THEN at' = [at EXCEPT ![w] = @ + 1] /\ UNCHANGED pc
                  ELSE GoTo(w, "columns") /\ UNCHANGED at
    /\ UNCHANGED <<settingsVars, schemaVars, admins, master, item, seen, historyVars>>

(* A mutant: the loop over the columns ends with the first.                *)
NextTableAtOnce(w, rest) ==
    /\ GoTo(w, "migrate")
    /\ at' = [at EXCEPT ![w] = @ + 1]

NextColumn(w, rest) ==
    /\ GoTo(w, IF rest = {} THEN "migrate" ELSE "columns")
    /\ at' = [at EXCEPT ![w] = IF rest = {} THEN @ + 1 ELSE @]

(* add_column_if_missing looks again, and then adds the column.            *)
CheckColumn(w) ==
    /\ pc[w] = "columns"
    /\ \E c \in todo[w] :
        /\ todo' = [todo EXCEPT ![w] = @ \ {c}]
        /\ IF c \notin columns[Order[at[w]]]
           THEN /\ item' = [item EXCEPT ![w] = {c}]
                /\ GoTo(w, "alter")
                /\ UNCHANGED at
           ELSE /\ NextColumn(w, todo'[w])
                /\ UNCHANGED item
    /\ UNCHANGED <<settingsVars, schemaVars, admins, master, seen, historyVars>>

AlterTable(w) ==
    /\ pc[w] = "alter"
    /\ LET t == Order[at[w]]
       IN IF item[w] \subseteq columns[t]
          THEN Raise(w)
          ELSE /\ columns' = [columns EXCEPT ![t] = @ \union item[w]]
               /\ item' = [item EXCEPT ![w] = {}]
               /\ NextColumn(w, todo[w])
               /\ UNCHANGED <<settingsVars, tables, indexes, admins, master, todo, seen,
                              historyVars>>

(* A mutant: a row that has all the keys is written back as well.          *)
ReadSettingsAlways(w) ==
    /\ pc[w] = "settings"
    /\ seen' = [seen EXCEPT ![w] = row]
    /\ GoTo(w, IF row = {} THEN "indexes" ELSE "rewrite")
    /\ UNCHANGED <<settingsVars, schemaVars, admins, master, at, todo, item, historyVars>>

(* migrate_app_settings_data reads the row, and writes it back with the    *)
(* keys it lacked.                                                         *)
ReadSettings(w) ==
    /\ pc[w] = "settings"
    /\ LET old == {r \in row : ~r.retry}
       IN /\ seen' = [seen EXCEPT ![w] = old]
          /\ GoTo(w, IF old = {} THEN "indexes" ELSE "rewrite")
    /\ UNCHANGED <<settingsVars, schemaVars, admins, master, at, todo, item, historyVars>>

RewriteSettings(w) ==
    /\ pc[w] = "rewrite"
    /\ \E r \in seen[w] : row' = {[r EXCEPT !.retry = TRUE]}
    /\ seen' = [seen EXCEPT ![w] = {}]
    /\ GoTo(w, "indexes")
    /\ UNCHANGED <<copy, files, stage, handler, base, form, schemaVars, admins, master, at,
                   todo, item, historyVars>>

(* A mutant: without IF NOT EXISTS.                                        *)
CreateIndexesAgain(w) ==
    /\ pc[w] = "indexes"
    /\ IF Listed \intersect indexes # {}
       THEN Raise(w)
       ELSE /\ indexes' = indexes \union (Listed \intersect tables)
            /\ GoTo(w, "check")
            /\ UNCHANGED <<settingsVars, tables, columns, admins, master, localVars,
                           historyVars>>

(* create_missing_indexes: IF NOT EXISTS, and an index of a table that is  *)
(* not there yet only logs a warning.                                      *)
CreateMissingIndexes(w) ==
    /\ pc[w] = "indexes"
    /\ indexes' = indexes \union (Listed \intersect tables)
    /\ GoTo(w, "check")
    /\ UNCHANGED <<settingsVars, tables, columns, admins, master, localVars, historyVars>>

-----------------------------------------------------------------------------
(* create_all looks for every table first, then creates those it missed,   *)
(* each with its index.                                                    *)
NextTable(w, rest) == GoTo(w, IF rest = {} THEN "load" ELSE "create")

(* A mutant: create_all without its look at what exists.                   *)
AllTables == Tables

MissingTables == Tables \ tables

CheckTables(w) ==
    /\ pc[w] = "check"
    /\ todo' = [todo EXCEPT ![w] = MissingTables]
    /\ GoTo(w, IF MissingTables = {} THEN "load" ELSE "create")
    /\ UNCHANGED <<settingsVars, schemaVars, admins, master, at, item, seen, historyVars>>

IsFirst(t, T) ==
    \E i \in DOMAIN Order : Order[i] = t /\ \A j \in 1 .. i - 1 : Order[j] \notin T

CreateTable(w) ==
    /\ pc[w] = "create"
    /\ \E t \in todo[w] :
        /\ IsFirst(t, todo[w])
        /\ IF t \in tables
           THEN Raise(w)
           ELSE /\ tables' = tables \union {t}
                /\ columns' = [columns EXCEPT ![t] = Expected[t]]
                /\ todo' = [todo EXCEPT ![w] = @ \ {t}]
                /\ IF t \in Indexed
                   THEN GoTo(w, "index") /\ item' = [item EXCEPT ![w] = {t}]
                   ELSE NextTable(w, todo'[w]) /\ UNCHANGED item
                /\ UNCHANGED <<settingsVars, indexes, admins, master, at, seen, historyVars>>

(* Of the users table the index is the constraint that names are unique:   *)
(* it cannot be created over a name that is there twice.                   *)
CreateIndex(w) ==
    /\ pc[w] = "index"
    /\ IF item[w] \subseteq indexes \/ (UsersTable \in item[w] /\ admins > 1)
       THEN Raise(w)
       ELSE /\ indexes' = indexes \union item[w]
            /\ item' = [item EXCEPT ![w] = {}]
            /\ NextTable(w, todo[w])
            /\ UNCHANGED <<settingsVars, tables, columns, admins, master, at, todo, seen,
                           historyVars>>

-----------------------------------------------------------------------------
(* The settings row and the administrator: look, then insert.              *)

LoadSettings(w) ==
    /\ pc[w] = "load"
    /\ IF row = {}
       THEN GoTo(w, "insert") /\ UNCHANGED copy
       ELSE GoTo(w, "admin") /\ copy' = [copy EXCEPT ![w] = row]
    /\ UNCHANGED <<row, files, stage, handler, base, form, schemaVars, admins,
                   master, localVars, historyVars>>

(* The id of the row is the primary key: the second insert raises.         *)
InsertSettings(w) ==
    /\ pc[w] = "insert"
    /\ IF row # {}
       THEN Raise(w)
       ELSE /\ row' = {Default}
            /\ copy' = [copy EXCEPT ![w] = {Default}]
            /\ GoTo(w, "admin")
            /\ UNCHANGED <<files, stage, handler, base, form, schemaVars, admins, master,
                           localVars, historyVars>>

FindAdmin(w) ==
    /\ pc[w] = "admin"
    /\ GoTo(w, IF admins = 0 THEN "add admin" ELSE "sweep")
    /\ UNCHANGED <<settingsVars, schemaVars, admins, master, localVars, historyVars>>

(* A mutant: no index keeps the second one out.                            *)
AddAdminAnyway(w) ==
    /\ pc[w] = "add admin"
    /\ admins' = admins + 1
    /\ GoTo(w, "sweep")
    /\ UNCHANGED <<settingsVars, schemaVars, master, localVars, historyVars>>

(* An IntegrityError means that another worker was faster.                 *)
AddAdmin(w) ==
    /\ pc[w] = "add admin"
    /\ admins' = IF UsersTable \in indexes /\ admins > 0 THEN admins ELSE admins + 1
    /\ cut' = IF UsersTable \in indexes THEN cut ELSE cut \union {UsersTable}
    /\ GoTo(w, "sweep")
    /\ UNCHANGED <<settingsVars, schemaVars, master, localVars, crashes, registryVars, origin,
                   lastSave, met>>

-----------------------------------------------------------------------------
(* The refresh of all servers, the last step before a worker serves.  It   *)
(* raises when a server is deleted while its models are fetched: the       *)
(* handler of the failed UPDATE reads the deleted row.  Module             *)
(* CatalogRefresh has its steps.                                           *)

Sweep(w) ==
    /\ pc[w] = "sweep"
    /\ \/ /\ GoTo(w, "serving")
          /\ disturbed' = disturbed \ {w}
          /\ UNCHANGED <<settingsVars, schemaVars, admins, master, localVars, crashes, deletions,
                         origin, lastSave, met, cut>>
       \/ w \in disturbed /\ Raise(w)

(* An administrator deletes a server through a worker that serves; when no *)
(* other one sweeps, this is nothing to the starts.                        *)
DeleteServer(w) ==
    /\ pc[w] = "serving"
    /\ crashes + deletions < MaxMishaps
    /\ LET sweeping == {v \in Workers : pc[v] = "sweep"}
       IN sweeping # {} /\ disturbed' = disturbed \union sweeping
    /\ deletions' = deletions + 1
    /\ UNCHANGED <<settingsVars, schemaVars, admins, master, pc, localVars, crashes, origin,
                   lastSave, met, cut>>

-----------------------------------------------------------------------------
(* A worker that serves runs the settings form.                            *)

Submit(w) ==
    /\ pc[w] = "serving"
    /\ \E s \in Saves : Open(s, w)
    /\ UNCHANGED <<schemaVars, admins, master, pc, localVars, historyVars>>

Handle(s) ==
    /\ Step(s)
    /\ lastSave' = IF stage'[s] = "committed" THEN s ELSE lastSave
    /\ UNCHANGED <<schemaVars, admins, master, pc, localVars, crashes, registryVars, origin, met,
                   cut>>

StartupStep(w) ==
    \/ Boot(w) \/ MigrateTable(w) \/ CheckColumn(w) \/ AlterTable(w)
    \/ ReadSettings(w) \/ RewriteSettings(w) \/ CreateMissingIndexes(w)
    \/ CheckTables(w) \/ CreateTable(w) \/ CreateIndex(w)
    \/ LoadSettings(w) \/ InsertSettings(w) \/ FindAdmin(w) \/ AddAdmin(w)
    \/ Sweep(w)

Next ==
    \/ \E w \in Workers : StartupStep(w) \/ Stop(w) \/ Crash(w) \/ Submit(w) \/ DeleteServer(w)
    \/ \E s \in Saves : Handle(s)
    \/ Restart

Spec ==
    /\ Init
    /\ [][Next]_vars
    /\ \A w \in Workers : WF_vars(StartupStep(w)) /\ WF_vars(Stop(w))
    /\ WF_vars(Restart)

-----------------------------------------------------------------------------
(* The variables have their types: a table has no columns before it        *)
(* exists, and none but the expected ones; one index each.                 *)
TypeOK ==
    /\ row \subseteq SettingsRows /\ Cardinality(row) <= 1
    /\ \A w \in Workers : copy[w] \subseteq SettingsRows /\ Cardinality(copy[w]) <= 1
    /\ files \subseteq LogoFiles \union KeyFiles
    /\ stage \in [Saves -> {"new", "open", "files", "committed", "failed", "done"}]
    /\ tables \subseteq Tables
    /\ \A t \in Tables : columns[t] \subseteq (IF t \in tables THEN Expected[t] ELSE {})
    /\ indexes \subseteq Indexed \intersect tables
    /\ admins \in 0 .. Cardinality(Workers)
    /\ master \in {"running", "halting"}
    /\ pc \in [Workers -> Starting \union {"down", "failed", "serving"}]
    /\ at \in [Workers -> 0 .. Len(Order) + 1]
    /\ deletions \in Nat
    /\ disturbed \subseteq Workers

(* A worker serves only on a database that is complete: every table with   *)
(* every column, the settings row with the keys the code reads, and an     *)
(* administrator who can log in, however the workers' starts and the       *)
(* crashes of earlier ones were interleaved.                               *)
ServingMeansReady ==
    \A w \in Workers :
        pc[w] = "serving" =>
            /\ tables = Tables
            /\ columns = Expected
            /\ \E r \in row : r.retry
            /\ admins > 0

(* There is one administrator, unless the index that makes names unique    *)
(* was not there when one was added: its creator was slower than another   *)
(* worker, or died after CREATE TABLE, and create_all only looks at tables.*)
OneAdmin == admins > 1 => origin = "empty" /\ UsersTable \in cut

(* A lifespan raises only because another one ran at the same time, or     *)
(* because a server was deleted while this one swept them: otherwise a     *)
(* worker starts on whatever its predecessors left half done.              *)
LoneStartSucceeds == \A w \in Workers : pc[w] = "failed" => w \in met \union disturbed

(* The settings row is that of the last save, but for the first start      *)
(* after an upgrade: a worker that is slow to add the new keys writes back *)
(* the row it read before the save.                                        *)
SavesLostOnlyOnUpgrade ==
    \A r \in row : r.by # lastSave => origin = "old"

(* In the end every worker serves: a race that halts gunicorn leaves the   *)
(* database further along, so the restarts of the service manager end.     *)
EveryWorkerServes == <>[](\A w \in Workers : pc[w] = "serving")

=============================================================================
