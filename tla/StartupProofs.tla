--------------------------- MODULE StartupProofs ---------------------------
(***************************************************************************)
(* Proofs about Startup and Settings, for any number of workers, tables,   *)
(* saves, crashes and deleted servers, and whatever the forms ask for.     *)
(***************************************************************************)
EXTENDS Startup, FiniteSetTheorems, FunctionTheorems, WellFoundedInduction, TLAPS

-----------------------------------------------------------------------------
(* The settings: every row there is, stored, in the memory of a worker or  *)
(* about to be written, is one of the settings there may be.               *)
SettingsShape ==
    /\ stage = [s \in Saves |-> stage[s]]
    /\ copy = [w \in Workers |-> copy[w]]
    /\ base = [s \in Saves |-> base[s]]
    /\ form = [s \in Saves |-> form[s]]
    /\ seen = [w \in Workers |-> seen[w]]

RowsInv ==
    /\ SettingsShape
    /\ row \subseteq SettingsRows
    /\ \A w \in Workers : copy[w] \subseteq SettingsRows /\ seen[w] \subseteq SettingsRows
    /\ \A s \in Saves : base[s] \subseteq SettingsRows
    /\ \A s \in Saves : stage[s] \in {"open", "files"} => base[s] # {}
    /\ \A s \in Saves : stage[s] \in {"files", "committed"} => Result(s) \in SettingsRows

LEMMA Positive ==
  ASSUME NEW n \in Nat, n # 0
  PROVE  n > 0
  OBVIOUS

LEMMA NewRows ==
  /\ \A r \in {Default, OldRow} : r \in SettingsRows
  <1>1. 0 \in 0 .. MaxSaves
    BY SavesAssumption
  <1>2. Default \in SettingsRows
    BY <1>1 DEF Default, SettingsRows, None
  <1>3. OldRow \in SettingsRows
    BY <1>2 DEF OldRow, SettingsRows
  <1> QED BY <1>2, <1>3

LEMMA UpdatedTyped ==
  ASSUME NEW s \in Saves, NEW b \in SettingsRows, NEW f \in Forms
  PROVE  Updated(s, b, f) \in SettingsRows
  <1>1. f \in AllForms
    BY FormsAssumption
  <1>2. Logo(s, f) \in {<<>>, <<"url">>} \union LogoFiles
    BY DEF Logo, LogoFiles
  <1>3. Key(s, b, f) \in {<<>>, <<"path">>} \union KeyFiles
    BY DEF Key, KeyFiles, SettingsRows
  <1>4. s \in 0 .. MaxSaves /\ b.secret \in 0 .. MaxSaves
    BY SavesAssumption DEF Saves, SettingsRows
  <1> QED BY <1>2, <1>3, <1>4 DEF Updated, SettingsRows

(* A step that neither loads, changes nor stores settings.                 *)
LEMMA SettingsStay ==
  ASSUME RowsInv, UNCHANGED <<row, copy, stage, base, form>>,
         \/ UNCHANGED seen
         \/ \E w \in Workers : seen' = [seen EXCEPT ![w] = {}]
  PROVE  RowsInv'
  <1>1. \A w \in Workers : seen'[w] \subseteq seen[w]
    BY DEF RowsInv, SettingsShape
  <1>2. SettingsShape'
    BY DEF RowsInv, SettingsShape
  <1> QED BY <1>1, <1>2 DEF RowsInv, Result, Base, Form

LEMMA ForgetRows ==
  ASSUME RowsInv, NEW w \in Workers, Forget(w), UNCHANGED <<row, base, form>>,
         UNCHANGED seen \/ seen' = [seen EXCEPT ![w] = {}]
  PROVE  RowsInv'
  <1>1. \A v \in Workers : seen'[v] \subseteq seen[v] /\ copy'[v] \subseteq copy[v]
    BY DEF RowsInv, SettingsShape, Forget
  <1>2. \A s \in Saves : stage'[s] \in {stage[s], "failed", "done"}
    BY DEF Forget, Interrupted
  <1>3. SettingsShape'
    <2>1. stage' = [s \in Saves |-> stage'[s]]
      BY DEF Forget
    <2>2. copy' = [v \in Workers |-> copy'[v]] /\ seen' = [v \in Workers |-> seen'[v]]
      BY DEF RowsInv, SettingsShape, Forget
    <2>3. base' = [s \in Saves |-> base'[s]] /\ form' = [s \in Saves |-> form'[s]]
      BY DEF RowsInv, SettingsShape
    <2> QED BY <2>1, <2>2, <2>3 DEF SettingsShape
  <1>4. \A s \in Saves : Result(s)' = Result(s)
    BY DEF Result, Base, Form
  <1> QED BY <1>1, <1>2, <1>3, <1>4 DEF RowsInv

(* The migration, and the load at the end of a start.                      *)
LEMMA StartRows ==
  ASSUME RowsInv, NEW w \in Workers,
         ReadSettings(w) \/ RewriteSettings(w) \/ LoadSettings(w) \/ InsertSettings(w)
  PROVE  RowsInv'
  <1> USE DEF schemaVars, localVars, historyVars, settingsVars
  <1>1. CASE ReadSettings(w)
    <2>1. UNCHANGED <<row, copy, stage, base, form>>
          /\ \A v \in Workers : seen'[v] \subseteq seen[v] \union row
      BY <1>1 DEF ReadSettings, RowsInv, SettingsShape
    <2>2. SettingsShape'
      BY <1>1 DEF ReadSettings, RowsInv, SettingsShape
    <2> QED BY <2>1, <2>2 DEF RowsInv, Result, Base, Form
  <1>2. CASE RewriteSettings(w)
    <2>1. PICK r \in seen[w] : row' = {[r EXCEPT !.retry = TRUE]}
      BY <1>2 DEF RewriteSettings
    <2>2. UNCHANGED <<copy, stage, base, form>> /\ seen' = [seen EXCEPT ![w] = {}]
      BY <1>2 DEF RewriteSettings
    <2>3. r \in SettingsRows
      BY DEF RowsInv
    <2>4. row' \subseteq SettingsRows
      BY <2>1, <2>3 DEF SettingsRows
    <2>5. SettingsShape' /\ \A v \in Workers : seen'[v] \subseteq seen[v]
      BY <2>2 DEF RowsInv, SettingsShape
    <2> QED BY <2>2, <2>4, <2>5 DEF RowsInv, Result, Base, Form
  <1>3. CASE LoadSettings(w)
    <2>1. UNCHANGED <<row, stage, base, form, seen>>
          /\ \A v \in Workers : copy'[v] \subseteq copy[v] \union row
      BY <1>3 DEF LoadSettings, RowsInv, SettingsShape
    <2>2. SettingsShape'
      BY <1>3 DEF LoadSettings, RowsInv, SettingsShape
    <2> QED BY <2>1, <2>2 DEF RowsInv, Result, Base, Form
  <1>4. CASE InsertSettings(w)
    <2>1. CASE Raise(w)
      BY <2>1, SettingsStay DEF Raise, Clear
    <2>2. CASE row' = {Default} /\ copy' = [copy EXCEPT ![w] = {Default}]
               /\ UNCHANGED <<files, stage, handler, base, form, schemaVars, admins, master,
                              localVars, historyVars>>
      <3>1. UNCHANGED <<stage, base, form, seen>>
            /\ \A v \in Workers : copy'[v] \subseteq copy[v] \union {Default}
        BY <2>2 DEF RowsInv, SettingsShape
      <3>2. SettingsShape'
        BY <2>2 DEF RowsInv, SettingsShape
      <3> QED BY <2>2, <3>1, <3>2, NewRows DEF RowsInv, Result, Base, Form
    <2> QED BY <1>4, <2>1, <2>2 DEF InsertSettings
  <1> QED BY <1>1, <1>2, <1>3, <1>4

(* The steps of the settings form.                                         *)
LEMMA OpenRows ==
  ASSUME RowsInv, NEW s \in Saves, NEW w \in Workers, Open(s, w), UNCHANGED seen
  PROVE  RowsInv'
  <1>1. UNCHANGED <<row, copy, form>>
    BY DEF Open
  <1>2. /\ stage'[s] = "open" /\ base'[s] = copy[w] /\ copy[w] # {}
        /\ \A q \in Saves \ {s} : stage'[q] = stage[q] /\ base'[q] = base[q]
    BY DEF RowsInv, SettingsShape, Open
  <1>3. SettingsShape'
    BY DEF RowsInv, SettingsShape, Open
  <1> QED BY <1>1, <1>2, <1>3 DEF RowsInv, Result, Base, Form

LEMMA WriteFilesRows ==
  ASSUME RowsInv, NEW s \in Saves, WriteFiles(s), UNCHANGED seen
  PROVE  RowsInv'
  <1>1. PICK f \in Forms : form' = [form EXCEPT ![s] = {f}]
    BY DEF WriteFiles
  <1>2. UNCHANGED <<row, copy, base>> /\ stage[s] = "open"
    BY DEF WriteFiles
  <1>3. Base(s) \in base[s] /\ Base(s) \in SettingsRows
    BY <1>2 DEF RowsInv, Base
  <1>4. /\ form'[s] = {f} /\ stage'[s] = "files"
        /\ \A q \in Saves \ {s} : stage'[q] = stage[q] /\ form'[q] = form[q]
    BY <1>1 DEF RowsInv, SettingsShape, WriteFiles
  <1>5. Result(s)' = Updated(s, Base(s), f)
    BY <1>2, <1>4 DEF Result, Base, Form
  <1>6. Result(s)' \in SettingsRows
    BY <1>3, <1>5, UpdatedTyped
  <1>7. \A q \in Saves \ {s} : Result(q)' = Result(q)
    BY <1>2, <1>4 DEF Result, Base, Form
  <1>8. SettingsShape'
    BY <1>1, <1>2, UNCHANGED seen DEF RowsInv, SettingsShape, WriteFiles
  <1> QED BY <1>2, <1>4, <1>6, <1>7, <1>8 DEF RowsInv

LEMMA FormRows ==
  ASSUME RowsInv, NEW s \in Saves, Step(s), UNCHANGED seen
  PROVE  RowsInv'
  <1>1. CASE WriteFiles(s)
    BY <1>1, WriteFilesRows
  <1>2. ASSUME \A q \in Saves \ {s} : stage'[q] = stage[q],
               \A q \in Saves \ {s} : base'[q] = base[q] /\ form'[q] = form[q],
               SettingsShape', stage'[s] \notin {"open", "files"},
               stage'[s] = "committed" =>
                  stage[s] = "files" /\ base'[s] = base[s] /\ form'[s] = form[s],
               base'[s] \subseteq base[s],
               row' \subseteq SettingsRows,
               \A w \in Workers : copy'[w] \subseteq SettingsRows
        PROVE  RowsInv'
    BY <1>2 DEF RowsInv, Result, Base, Form
  <1>3. CASE Refuse(s)
    <2>1. SettingsShape'
      BY <1>3 DEF RowsInv, SettingsShape, Refuse, End
    <2> QED BY <1>2, <1>3, <2>1 DEF RowsInv, SettingsShape, Refuse, End
  <1>4. CASE Fail(s)
    <2>1. SettingsShape'
      BY <1>4 DEF RowsInv, SettingsShape, Fail
    <2> QED BY <1>2, <1>4, <2>1 DEF RowsInv, SettingsShape, Fail
  <1>5. CASE Commit(s)
    <2>1. /\ stage[s] = "files" /\ row' = {Result(s)}
          /\ stage' = [stage EXCEPT ![s] = "committed"]
          /\ UNCHANGED <<copy, base, form>>
      BY <1>5, Zenon DEF Commit
    <2>2. SettingsShape'
      BY <2>1 DEF RowsInv, SettingsShape
    <2>3. row' \subseteq SettingsRows
      BY <2>1 DEF RowsInv
    <2> QED BY <1>2, <2>1, <2>2, <2>3 DEF RowsInv, SettingsShape
  <1>6. CASE Publish(s)
    <2>1. SettingsShape'
      BY <1>6 DEF RowsInv, SettingsShape, Publish, End
    <2>2. \A w \in Workers : copy'[w] \subseteq SettingsRows
      BY <1>6 DEF RowsInv, Publish
    <2> QED BY <1>2, <1>6, <2>1, <2>2 DEF RowsInv, SettingsShape, Publish, End
  <1> QED BY <1>1, <1>3, <1>4, <1>5, <1>6 DEF Step

(* The settings row of an empty database, and that of an old one.          *)
THEOREM InitRows ==
  ASSUME Init
  PROVE  RowsInv
  <1>1. row \subseteq SettingsRows
    BY NewRows DEF Init
  <1> QED BY <1>1 DEF Init, RowsInv, SettingsShape

(* The sweep at the end of a start, and the deletion of a server, leave    *)
(* the database, the settings and what the workers have to do alone.       *)
LEMMA SweepStep ==
  ASSUME NEW w \in Workers, Sweep(w)
  PROVE  \/ Raise(w) /\ pc[w] = "sweep" /\ w \in disturbed
         \/ /\ pc[w] = "sweep" /\ GoTo(w, "serving") /\ disturbed' = disturbed \ {w}
            /\ UNCHANGED <<settingsVars, schemaVars, admins, master, localVars, crashes,
                           deletions, origin, lastSave, met, cut>>
  BY DEF Sweep

LEMMA DeleteStep ==
  ASSUME NEW w \in Workers, DeleteServer(w)
  PROVE  UNCHANGED <<settingsVars, schemaVars, admins, master, pc, localVars, crashes, origin,
                     lastSave, met, cut>>
  BY DEF DeleteServer

(* Uploads, commits, migrations and deaths of workers keep the types of    *)
(* all rows, copies and forms.                                             *)
THEOREM NextRows ==
  ASSUME RowsInv, [Next]_vars
  PROVE  RowsInv'
  <1> USE DEF schemaVars, localVars, historyVars, settingsVars
  <1>1. CASE UNCHANGED vars
    BY <1>1, SettingsStay DEF vars
  <1>2. ASSUME NEW w \in Workers, Raise(w) PROVE RowsInv'
    BY <1>2, SettingsStay DEF Raise, Clear
  <1>3. ASSUME NEW w \in Workers,
               \/ Boot(w) \/ MigrateTable(w) \/ CheckColumn(w) \/ AlterTable(w)
               \/ CreateMissingIndexes(w) \/ CheckTables(w) \/ CreateTable(w)
               \/ CreateIndex(w) \/ FindAdmin(w) \/ AddAdmin(w) \/ Sweep(w)
        PROVE  RowsInv'
    <2>1. CASE Boot(w) \/ MigrateTable(w) \/ CheckColumn(w) \/ CreateMissingIndexes(w)
               \/ CheckTables(w) \/ FindAdmin(w) \/ AddAdmin(w)
      BY <2>1, SettingsStay DEF Boot, MigrateTable, CheckColumn, CreateMissingIndexes,
                                CheckTables, FindAdmin, AddAdmin
    <2>2. CASE AlterTable(w) \/ CreateTable(w) \/ CreateIndex(w) \/ Sweep(w)
      BY <1>2, <2>2, SweepStep, SettingsStay DEF AlterTable, CreateTable, CreateIndex
    <2> QED BY <1>3, <2>1, <2>2
  <1>4. ASSUME NEW w \in Workers, StartupStep(w) PROVE RowsInv'
    BY <1>3, <1>4, StartRows DEF StartupStep
  <1>5. ASSUME NEW w \in Workers, Stop(w) \/ Crash(w) PROVE RowsInv'
    BY <1>5, ForgetRows DEF Stop, Crash, Clear
  <1>6. ASSUME NEW w \in Workers, Submit(w) PROVE RowsInv'
    BY <1>6, OpenRows DEF Submit
  <1>7. ASSUME NEW s \in Saves, Handle(s) PROVE RowsInv'
    BY <1>7, FormRows DEF Handle
  <1>8. ASSUME NEW w \in Workers, DeleteServer(w) PROVE RowsInv'
    BY <1>8, DeleteStep, SettingsStay
  <1>9. CASE Restart
    BY <1>9, SettingsStay DEF Restart
  <1> QED BY <1>1, <1>4, <1>5, <1>6, <1>7, <1>8, <1>9 DEF Next

-----------------------------------------------------------------------------
(* How far the database is: a table has its columns, all of the tables     *)
(* have, the settings row has its keys.                                    *)
Done(t) == t \in tables => Expected[t] \subseteq columns[t]
MigratedBefore(i) == \A j \in 1 .. i - 1 : Done(Order[j])
RowsNew == \A r \in row : r.retry

Schema ==
    /\ tables \subseteq Tables
    /\ columns \in [Tables -> SUBSET Columns]
    /\ \A t \in Tables : columns[t] \subseteq Expected[t]
    /\ admins \in Nat

Serving == {"admin", "add admin", "sweep", "serving"}
AfterTables == {"load", "insert"} \union Serving
AfterRewrite == {"indexes", "check", "create", "index"} \union AfterTables
AfterMigration == {"settings", "rewrite"} \union AfterRewrite

(* What a worker relies on when it is at p, with its position i, what it   *)
(* has still to do T, and what it is about to create x.                    *)
Progress(p, i, T, x) ==
    /\ p = "migrate" => i \in 1 .. Len(Order) + 1 /\ MigratedBefore(i)
    /\ p \in {"columns", "alter"} =>
          /\ i \in 1 .. Len(Order) /\ MigratedBefore(i)
          /\ T \subseteq Expected[Order[i]]
    /\ p = "columns" => Expected[Order[i]] \ columns[Order[i]] \subseteq T
    /\ p = "alter" => /\ x \subseteq Expected[Order[i]]
                      /\ Expected[Order[i]] \ columns[Order[i]] \subseteq T \union x
    /\ p \in AfterMigration => \A t \in tables : Done(t)
    /\ p \in AfterRewrite => RowsNew
    /\ p \in {"create", "index"} => Tables \ tables \subseteq T /\ T \subseteq Tables
    /\ p \in AfterTables => tables = Tables
    /\ p \in Serving => row # {}
    /\ p \in {"sweep", "serving"} => admins > 0

Shape ==
    /\ pc = [w \in Workers |-> pc[w]]
    /\ at = [w \in Workers |-> at[w]]
    /\ todo = [w \in Workers |-> todo[w]]
    /\ item = [w \in Workers |-> item[w]]
    /\ seen = [w \in Workers |-> seen[w]]

Inv ==
    /\ Schema
    /\ Shape
    /\ \A w \in Workers : Progress(pc[w], at[w], todo[w], item[w])

-----------------------------------------------------------------------------
(* Whatever a worker relies on stays: nothing is ever removed.             *)
Grows ==
    /\ tables \subseteq tables'
    /\ \A t \in tables : columns[t] \subseteq columns'[t]
    /\ \A t \in Tables \ tables : t \in tables' => Expected[t] \subseteq columns'[t]
    /\ \A t \in Tables : columns[t] \subseteq columns'[t]
    /\ \A r \in row' : r \in row \/ r.retry
    /\ row # {} => row' # {}
    /\ admins' >= admins

LEMMA OrderTables ==
  /\ Len(Order) \in Nat
  /\ DOMAIN Order = 1 .. Len(Order)
  /\ \A i \in 1 .. Len(Order) : Order[i] \in Tables
  /\ \A t \in Tables : \E i \in 1 .. Len(Order) : Order[i] = t
  <1>1. Order \in Seq(Tables)
    BY TablesAssumption
  <1> QED BY <1>1 DEF Tables

LEMMA DoneStays ==
  ASSUME Schema, Schema', Grows, NEW t \in Tables, Done(t)
  PROVE  Done(t)'
  BY DEF Schema, Grows, Done

LEMMA ProgressStays ==
  ASSUME Schema, Schema', Grows, NEW p, NEW i, NEW T, NEW x, Progress(p, i, T, x)
  PROVE  Progress(p, i, T, x)'
  <1>1. ASSUME i \in 1 .. Len(Order) + 1, MigratedBefore(i)
        PROVE  MigratedBefore(i)'
    <2> SUFFICES ASSUME NEW j \in 1 .. i - 1
                 PROVE  Done(Order[j])'
      BY DEF MigratedBefore
    <2>1. j \in 1 .. Len(Order)
      BY <1>1, OrderTables
    <2>2. Order[j] \in Tables /\ Done(Order[j])
      BY <1>1, <2>1, OrderTables DEF MigratedBefore
    <2> QED BY <2>2, DoneStays
  <1>2. ASSUME \A t \in tables : Done(t)
        PROVE  \A t \in tables' : Done(t)'
    BY <1>2, DoneStays DEF Schema, Done
  <1>3. RowsNew => RowsNew'
    BY DEF RowsNew, Grows
  <1>4. p \in {"migrate", "columns", "alter"} =>
          i \in 1 .. Len(Order) + 1 /\ MigratedBefore(i)
    BY OrderTables DEF Progress
  <1>5. i \in 1 .. Len(Order) => columns[Order[i]] \subseteq columns'[Order[i]]
    BY OrderTables DEF Grows
  <1>6. Tables \ tables' \subseteq Tables \ tables /\ (tables = Tables => tables' = Tables)
    BY DEF Grows, Schema
  <1>7. /\ p = "migrate" => i \in 1 .. Len(Order) + 1 /\ MigratedBefore(i)'
        /\ p \in {"columns", "alter"} =>
              /\ i \in 1 .. Len(Order) /\ MigratedBefore(i)'
              /\ T \subseteq Expected[Order[i]]
    BY <1>1, <1>4 DEF Progress
  <1>8. /\ p = "columns" => Expected[Order[i]] \ columns'[Order[i]] \subseteq T
        /\ p = "alter" => /\ x \subseteq Expected[Order[i]]
                          /\ Expected[Order[i]] \ columns'[Order[i]] \subseteq T \union x
    BY <1>5 DEF Progress
  <1>9. p \in {"sweep", "serving"} => admins' > 0
    BY DEF Progress, Grows, Schema
  <1>10. p \in Serving => row' # {}
    BY DEF Progress, Grows
  <1>11. /\ p \in AfterMigration => \A t \in tables' : Done(t)'
         /\ p \in AfterRewrite => RowsNew'
    BY <1>2, <1>3 DEF Progress
  <1>12. /\ p \in {"create", "index"} => Tables \ tables' \subseteq T /\ T \subseteq Tables
         /\ p \in AfterTables => tables' = Tables
    BY <1>6 DEF Progress
  <1> QED BY <1>7, <1>8, <1>9, <1>10, <1>11, <1>12 DEF Progress

(* A step of one worker: its own progress is all there is to show.         *)
LEMMA WorkerStep ==
  ASSUME Inv, Schema', Shape', Grows, NEW w \in Workers,
         \A v \in Workers \ {w} :
             pc'[v] = pc[v] /\ at'[v] = at[v] /\ todo'[v] = todo[v] /\ item'[v] = item[v],
         Progress(pc[w], at[w], todo[w], item[w])'
  PROVE  Inv'
  <1>1. ASSUME NEW v \in Workers, v # w
        PROVE  Progress(pc[v], at[v], todo[v], item[v])'
    <2>1. PICK p, i, T, x : p = pc[v] /\ i = at[v] /\ T = todo[v] /\ x = item[v]
      OBVIOUS
    <2>2. Progress(p, i, T, x)
      BY <2>1 DEF Inv
    <2>3. Progress(p, i, T, x)'
      BY <2>2, ProgressStays DEF Inv
    <2>4. pc'[v] = p /\ at'[v] = i /\ todo'[v] = T /\ item'[v] = x
      BY <1>1, <2>1
    <2> QED BY <2>3, <2>4 DEF Progress, MigratedBefore, Done, RowsNew
  <1>2. Progress(pc[w], at[w], todo[w], item[w])'
    OBVIOUS
  <1> QED BY <1>1, <1>2 DEF Inv

(* What changes no more than the worker's own variables.                   *)
OnlyWorker(w) ==
    /\ Shape'
    /\ \A v \in Workers \ {w} :
          pc'[v] = pc[v] /\ at'[v] = at[v] /\ todo'[v] = todo[v] /\ item'[v] = item[v]

LEMMA LocalChange ==
  ASSUME Shape, NEW w \in Workers,
         \E x : pc' = [pc EXCEPT ![w] = x],
         UNCHANGED at \/ \E x : at' = [at EXCEPT ![w] = x],
         UNCHANGED todo \/ \E x : todo' = [todo EXCEPT ![w] = x],
         UNCHANGED item \/ \E x : item' = [item EXCEPT ![w] = x],
         UNCHANGED seen \/ \E x : seen' = [seen EXCEPT ![w] = x]
  PROVE  OnlyWorker(w)
  BY DEF Shape, OnlyWorker

LEMMA SchemaSame ==
  ASSUME Schema, UNCHANGED <<tables, columns, admins, row>>
  PROVE  Schema' /\ Grows
  BY DEF Schema, Grows

(* At the ends nothing is relied on.                                       *)
LEMMA StoppedStep ==
  ASSUME Inv, NEW w \in Workers, UNCHANGED <<tables, columns, admins, row>>, OnlyWorker(w),
         pc'[w] \in {"down", "failed"}
  PROVE  Inv'
  <1>1. Progress(pc[w], at[w], todo[w], item[w])'
    BY DEF Progress, AfterMigration, AfterRewrite, AfterTables, Serving
  <1> QED BY <1>1, WorkerStep, SchemaSame DEF Inv, OnlyWorker

LEMMA RaiseInv ==
  ASSUME Inv, NEW w \in Workers, Raise(w)
  PROVE  Inv'
  <1>1. UNCHANGED <<tables, columns, admins, row>>
    BY DEF Raise, settingsVars, schemaVars
  <1>2. OnlyWorker(w) /\ pc'[w] = "failed"
    BY LocalChange DEF Inv, Raise, GoTo, Clear, Shape
  <1> QED BY <1>1, <1>2, StoppedStep

LEMMA EndsInv ==
  ASSUME Inv, NEW w \in Workers, Stop(w) \/ Crash(w)
  PROVE  Inv'
  <1>1. UNCHANGED <<tables, columns, admins, row>>
    BY DEF Stop, Crash, schemaVars
  <1>2. OnlyWorker(w) /\ pc'[w] = "down"
    <2>1. CASE Stop(w)
      BY <2>1, LocalChange DEF Inv, Stop, GoTo, localVars, Shape
    <2>2. CASE Crash(w)
      BY <2>2, LocalChange DEF Inv, Crash, GoTo, Clear, Shape
    <2> QED BY <2>1, <2>2
  <1> QED BY <1>1, <1>2, StoppedStep

LEMMA RestartInv ==
  ASSUME Inv, Restart
  PROVE  Inv'
  <1>1. UNCHANGED <<tables, columns, admins, row, at, todo, item, seen>>
    BY DEF Restart, settingsVars, schemaVars, localVars
  <1>2. pc' = [w \in Workers |-> "down"]
    BY DEF Restart
  <1>3. Shape'
    BY <1>1, <1>2 DEF Inv, Shape
  <1>4. \A w \in Workers : Progress(pc[w], at[w], todo[w], item[w])'
    BY <1>2 DEF Progress, AfterMigration, AfterRewrite, AfterTables, Serving
  <1> QED BY <1>1, <1>3, <1>4, SchemaSame DEF Inv

LEMMA BootInv ==
  ASSUME Inv, NEW w \in Workers, Boot(w)
  PROVE  Inv'
  <1>1. UNCHANGED <<tables, columns, admins, row>>
    BY DEF Boot, settingsVars, schemaVars
  <1>2. OnlyWorker(w) /\ pc'[w] = "migrate" /\ at'[w] = 1
    BY LocalChange DEF Inv, Boot, GoTo, Shape
  <1>3. Progress(pc[w], at[w], todo[w], item[w])'
    BY <1>2, OrderTables
    DEF Progress, MigratedBefore, AfterMigration, AfterRewrite, AfterTables, Serving
  <1> QED BY <1>1, <1>2, <1>3, WorkerStep, SchemaSame DEF Inv, OnlyWorker

-----------------------------------------------------------------------------
(* Migrations.                                                             *)

LEMMA OneMoreTable ==
  ASSUME NEW i \in 1 .. Len(Order), MigratedBefore(i), Done(Order[i])
  PROVE  MigratedBefore(i + 1)
  BY OrderTables DEF MigratedBefore

LEMMA AllMigrated ==
  ASSUME Schema, NEW i \in 1 .. Len(Order) + 1, i > Len(Order), MigratedBefore(i)
  PROVE  \A t \in tables : Done(t)
  <1> SUFFICES ASSUME NEW t \in tables
               PROVE  Done(t)
    OBVIOUS
  <1>1. PICK j \in 1 .. Len(Order) : Order[j] = t
    BY OrderTables DEF Schema
  <1>2. j \in 1 .. i - 1
    BY OrderTables
  <1> QED BY <1>1, <1>2 DEF MigratedBefore

LEMMA MigrateTableInv ==
  ASSUME Inv, NEW w \in Workers, MigrateTable(w)
  PROVE  Inv'
  <1>1. UNCHANGED <<tables, columns, admins, row, item, seen>>
    BY DEF MigrateTable, settingsVars, schemaVars
  <1>2. pc[w] = "migrate" /\ at[w] \in 1 .. Len(Order) + 1 /\ MigratedBefore(at[w])
    BY DEF Inv, Progress, MigrateTable
  <1>3. CASE at[w] > Len(Order)
    <2>1. OnlyWorker(w) /\ pc'[w] = "settings"
      BY <1>1, <1>3, LocalChange DEF Inv, MigrateTable, GoTo, Shape
    <2>2. \A t \in tables : Done(t)
      BY <1>2, <1>3, AllMigrated DEF Inv
    <2>3. Progress(pc[w], at[w], todo[w], item[w])'
      BY <1>1, <2>1, <2>2
      DEF Progress, Done, AfterMigration, AfterRewrite, AfterTables, Serving
    <2> QED BY <1>1, <2>1, <2>3, WorkerStep, SchemaSame DEF Inv, OnlyWorker
  <1>4. CASE ~(at[w] > Len(Order)) /\ MissingColumns(Order[at[w]]) = {}
    <2>1. OnlyWorker(w) /\ pc'[w] = "migrate" /\ at'[w] = at[w] + 1
      <3>1. at' = [at EXCEPT ![w] = @ + 1] /\ UNCHANGED pc
            /\ \E x : todo' = [todo EXCEPT ![w] = x]
        BY <1>4 DEF MigrateTable
      <3>2. pc' = [pc EXCEPT ![w] = pc[w]] /\ \E x : at' = [at EXCEPT ![w] = x]
        BY <3>1 DEF Inv, Shape
      <3> QED BY <1>1, <1>2, <3>1, <3>2, LocalChange DEF Inv, Shape
    <2>2. at[w] \in 1 .. Len(Order)
      BY <1>2, <1>4, OrderTables
    <2>3. Done(Order[at[w]])
      BY <1>4 DEF MissingColumns, Done
    <2>4. at[w] + 1 \in 1 .. Len(Order) + 1 /\ MigratedBefore(at[w] + 1)
      BY <1>2, <2>2, <2>3, OneMoreTable, OrderTables
    <2>5. Progress(pc[w], at[w], todo[w], item[w])'
      BY <1>1, <2>1, <2>4
      DEF Progress, MigratedBefore, Done, AfterMigration, AfterRewrite, AfterTables, Serving
    <2> QED BY <1>1, <2>1, <2>5, WorkerStep, SchemaSame DEF Inv, OnlyWorker
  <1>5. CASE ~(at[w] > Len(Order)) /\ MissingColumns(Order[at[w]]) # {}
    <2>1. /\ todo' = [todo EXCEPT ![w] = MissingColumns(Order[at[w]])]
          /\ GoTo(w, "columns") /\ UNCHANGED at
      BY <1>5 DEF MigrateTable
    <2>2. /\ OnlyWorker(w) /\ pc'[w] = "columns" /\ at'[w] = at[w]
          /\ todo'[w] = MissingColumns(Order[at[w]])
      BY <1>1, <2>1, LocalChange DEF Inv, GoTo, Shape
    <2>3. at[w] \in 1 .. Len(Order)
      BY <1>2, <1>5, OrderTables
    <2>4. MissingColumns(Order[at[w]]) = Expected[Order[at[w]]] \ columns[Order[at[w]]]
      BY <1>5 DEF MissingColumns
    <2>5. Progress(pc[w], at[w], todo[w], item[w])'
      BY <1>1, <1>2, <2>2, <2>3, <2>4
      DEF Progress, MigratedBefore, Done, AfterMigration, AfterRewrite, AfterTables, Serving
    <2> QED BY <1>1, <2>2, <2>5, WorkerStep, SchemaSame DEF Inv, OnlyWorker
  <1> QED BY <1>3, <1>4, <1>5

(* The next column, or the next table when the last one has been seen to.  *)
LEMMA NextColumnInv ==
  ASSUME Inv, NEW w \in Workers, at[w] \in 1 .. Len(Order), MigratedBefore(at[w]),
         Schema', Grows, UNCHANGED row, UNCHANGED tables, NEW rest, NextColumn(w, rest),
         todo'[w] = rest, UNCHANGED todo \/ \E x : todo' = [todo EXCEPT ![w] = x],
         UNCHANGED item \/ \E x : item' = [item EXCEPT ![w] = x], UNCHANGED seen,
         rest \subseteq Expected[Order[at[w]]],
         Expected[Order[at[w]]] \ columns'[Order[at[w]]] \subseteq rest
  PROVE  Inv'
  <1>1. PICK i : i = at[w]
    OBVIOUS
  <1>2. /\ OnlyWorker(w)
        /\ pc'[w] = IF rest = {} THEN "migrate" ELSE "columns"
        /\ at'[w] = IF rest = {} THEN i + 1 ELSE i
    <2>1. /\ \E x : pc' = [pc EXCEPT ![w] = x]
          /\ \E x : at' = [at EXCEPT ![w] = x]
      BY DEF NextColumn, GoTo
    <2>2. OnlyWorker(w)
      BY <2>1, LocalChange DEF Inv
    <2> QED BY <1>1, <2>2 DEF NextColumn, GoTo, Inv, Shape
  <1>3. i \in 1 .. Len(Order) /\ MigratedBefore(i)
    BY <1>1
  <1>4. MigratedBefore(i)'
    <2>1. \A k \in 1 .. i - 1 : Order[k] \in Tables /\ Done(Order[k])
      BY <1>3, OrderTables DEF MigratedBefore
    <2>2. \A k \in 1 .. i - 1 : Done(Order[k])'
      BY <2>1, DoneStays DEF Inv
    <2> QED BY <2>2 DEF MigratedBefore
  <1>5. CASE rest = {}
    <2>1. Done(Order[i])'
      BY <1>1, <1>5 DEF Done
    <2>2. MigratedBefore(i + 1)'
      BY <1>3, <1>4, <2>1, OrderTables DEF MigratedBefore
    <2>3. i + 1 \in 1 .. Len(Order) + 1
      BY <1>3, OrderTables
    <2>4. pc'[w] = "migrate" /\ at'[w] = i + 1
      BY <1>2, <1>5
    <2>5. Progress(pc[w], at[w], todo[w], item[w])'
      BY <2>2, <2>3, <2>4
      DEF Progress, MigratedBefore, Done, AfterMigration, AfterRewrite, AfterTables, Serving
    <2> QED BY <1>2, <2>5, WorkerStep DEF OnlyWorker
  <1>6. CASE rest # {}
    <2>1. pc'[w] = "columns" /\ at'[w] = i
      BY <1>2, <1>6
    <2>2. Progress(pc[w], at[w], todo[w], item[w])'
      BY <1>1, <1>3, <1>4, <2>1
      DEF Progress, MigratedBefore, Done, AfterMigration, AfterRewrite, AfterTables, Serving
    <2> QED BY <1>2, <2>2, WorkerStep DEF OnlyWorker
  <1> QED BY <1>5, <1>6

LEMMA CheckColumnInv ==
  ASSUME Inv, NEW w \in Workers, CheckColumn(w)
  PROVE  Inv'
  <1>1. UNCHANGED <<tables, columns, admins, row, seen>>
    BY DEF CheckColumn, settingsVars, schemaVars
  <1>2. /\ pc[w] = "columns" /\ at[w] \in 1 .. Len(Order) /\ MigratedBefore(at[w])
        /\ todo[w] \subseteq Expected[Order[at[w]]]
        /\ Expected[Order[at[w]]] \ columns[Order[at[w]]] \subseteq todo[w]
    BY DEF Inv, Progress, CheckColumn
  <1>3. PICK c \in todo[w] :
          /\ todo' = [todo EXCEPT ![w] = @ \ {c}]
          /\ IF c \notin columns[Order[at[w]]]
             THEN /\ item' = [item EXCEPT ![w] = {c}]
                  /\ GoTo(w, "alter")
                  /\ UNCHANGED at
             ELSE /\ NextColumn(w, todo'[w])
                  /\ UNCHANGED item
    BY DEF CheckColumn
  <1>4. todo'[w] = todo[w] \ {c} /\ \E x : todo' = [todo EXCEPT ![w] = x]
    BY <1>3 DEF Inv, Shape
  <1>5. CASE c \notin columns[Order[at[w]]]
    <2>1. /\ OnlyWorker(w) /\ pc'[w] = "alter" /\ at'[w] = at[w] /\ item'[w] = {c}
      BY <1>1, <1>3, <1>4, <1>5, LocalChange DEF Inv, GoTo, Shape
    <2>2. Progress(pc[w], at[w], todo[w], item[w])'
      BY <1>1, <1>2, <1>4, <2>1
      DEF Progress, MigratedBefore, Done, AfterMigration, AfterRewrite, AfterTables, Serving
    <2> QED BY <1>1, <2>1, <2>2, WorkerStep, SchemaSame DEF Inv, OnlyWorker
  <1>6. CASE c \in columns[Order[at[w]]]
    <2>1. NextColumn(w, todo'[w]) /\ UNCHANGED item
      BY <1>3, <1>6
    <2>2. /\ todo'[w] \subseteq Expected[Order[at[w]]]
          /\ Expected[Order[at[w]]] \ columns'[Order[at[w]]] \subseteq todo'[w]
      BY <1>1, <1>2, <1>4, <1>6
    <2>3. Schema' /\ Grows
      BY <1>1, SchemaSame DEF Inv
    <2> QED BY <1>1, <1>2, <1>4, <2>1, <2>2, <2>3, NextColumnInv
  <1> QED BY <1>5, <1>6

LEMMA AlterTableInv ==
  ASSUME Inv, NEW w \in Workers, AlterTable(w)
  PROVE  Inv'
  <1> DEFINE t == Order[at[w]]
  <1>1. /\ pc[w] = "alter" /\ at[w] \in 1 .. Len(Order) /\ MigratedBefore(at[w])
        /\ todo[w] \subseteq Expected[t] /\ item[w] \subseteq Expected[t]
        /\ Expected[t] \ columns[t] \subseteq todo[w] \union item[w]
    BY DEF Inv, Progress, AlterTable
  <1>2. CASE item[w] \subseteq columns[t]
    BY <1>2, RaiseInv DEF AlterTable
  <1>3. CASE ~(item[w] \subseteq columns[t])
    <2>1. /\ columns' = [columns EXCEPT ![t] = @ \union item[w]]
          /\ item' = [item EXCEPT ![w] = {}]
          /\ NextColumn(w, todo[w])
          /\ UNCHANGED <<row, tables, admins, todo, seen>>
      BY <1>3 DEF AlterTable, settingsVars
    <2>2. t \in Tables /\ Expected[t] \subseteq Columns
      BY <1>1, OrderTables DEF Columns
    <2>3. /\ columns' \in [Tables -> SUBSET Columns]
          /\ columns'[t] = columns[t] \union item[w]
          /\ \A u \in Tables \ {t} : columns'[u] = columns[u]
      BY <1>1, <2>1, <2>2 DEF Inv, Schema
    <2>4. Schema'
      BY <1>1, <2>1, <2>2, <2>3 DEF Inv, Schema
    <2>5. Grows
      BY <2>1, <2>2, <2>3 DEF Inv, Schema, Grows
    <2>6. Expected[t] \ columns'[t] \subseteq todo[w]
      BY <1>1, <2>3
    <2> QED BY <1>1, <2>1, <2>4, <2>5, <2>6, NextColumnInv
  <1> QED BY <1>2, <1>3

-----------------------------------------------------------------------------
(* From the settings row to the tables.                                    *)

LEMMA ReadSettingsInv ==
  ASSUME Inv, NEW w \in Workers, ReadSettings(w)
  PROVE  Inv'
  <1>1. UNCHANGED <<tables, columns, admins, row, at, todo, item>>
    BY DEF ReadSettings, settingsVars, schemaVars
  <1>2. PICK to \in {"indexes", "rewrite"} :
          GoTo(w, to) /\ (to = "indexes" => {r \in row : ~r.retry} = {})
    BY DEF ReadSettings
  <1>3. OnlyWorker(w) /\ pc'[w] = to
    BY <1>1, <1>2, LocalChange DEF Inv, ReadSettings, GoTo, Shape
  <1>4. \A t \in tables : Done(t)
    BY DEF Inv, Progress, ReadSettings, AfterMigration
  <1>5. Progress(pc[w], at[w], todo[w], item[w])'
    BY <1>1, <1>2, <1>3, <1>4
    DEF Progress, Done, RowsNew, AfterMigration, AfterRewrite, AfterTables, Serving
  <1> QED BY <1>1, <1>3, <1>5, WorkerStep, SchemaSame DEF Inv, OnlyWorker

LEMMA RewriteSettingsInv ==
  ASSUME Inv, RowsInv, NEW w \in Workers, RewriteSettings(w)
  PROVE  Inv'
  <1>1. UNCHANGED <<tables, columns, admins, at, todo, item>>
    BY DEF RewriteSettings, schemaVars
  <1>2. PICK r \in seen[w] : row' = {[r EXCEPT !.retry = TRUE]}
    BY DEF RewriteSettings
  <1>3. \A x \in row' : x.retry
    <2>1. r \in SettingsRows
      BY DEF RowsInv
    <2>2. [r EXCEPT !.retry = TRUE].retry = TRUE
      BY <2>1 DEF SettingsRows
    <2> QED BY <1>2, <2>2
  <1>4. Schema' /\ Grows
    BY <1>1, <1>2, <1>3 DEF Inv, Schema, Grows
  <1>5. OnlyWorker(w) /\ pc'[w] = "indexes"
    BY <1>1, LocalChange DEF Inv, RewriteSettings, GoTo, Shape
  <1>6. \A t \in tables : Done(t)
    BY DEF Inv, Progress, RewriteSettings, AfterMigration
  <1>7. Progress(pc[w], at[w], todo[w], item[w])'
    BY <1>1, <1>3, <1>5, <1>6
    DEF Progress, Done, RowsNew, AfterMigration, AfterRewrite, AfterTables, Serving
  <1> QED BY <1>4, <1>5, <1>7, WorkerStep DEF OnlyWorker

LEMMA CreateMissingIndexesInv ==
  ASSUME Inv, NEW w \in Workers, CreateMissingIndexes(w)
  PROVE  Inv'
  <1>1. UNCHANGED <<tables, columns, admins, row, at, todo, item, seen>>
    BY DEF CreateMissingIndexes, settingsVars, localVars
  <1>2. OnlyWorker(w) /\ pc'[w] = "check"
    BY <1>1, LocalChange DEF Inv, CreateMissingIndexes, GoTo, Shape
  <1>3. RowsNew /\ \A t \in tables : Done(t)
    BY DEF Inv, Progress, CreateMissingIndexes, AfterMigration, AfterRewrite
  <1>4. Progress(pc[w], at[w], todo[w], item[w])'
    BY <1>1, <1>2, <1>3
    DEF Progress, Done, RowsNew, AfterMigration, AfterRewrite, AfterTables, Serving
  <1> QED BY <1>1, <1>2, <1>4, WorkerStep, SchemaSame DEF Inv, OnlyWorker

LEMMA CheckTablesInv ==
  ASSUME Inv, NEW w \in Workers, CheckTables(w)
  PROVE  Inv'
  <1>1. UNCHANGED <<tables, columns, admins, row, at, item, seen>>
    BY DEF CheckTables, settingsVars, schemaVars
  <1>2. /\ OnlyWorker(w) /\ todo'[w] = Tables \ tables
        /\ pc'[w] = IF Tables \ tables = {} THEN "load" ELSE "create"
    BY <1>1, LocalChange DEF Inv, CheckTables, GoTo, Shape, MissingTables
  <1>3. RowsNew /\ \A t \in tables : Done(t)
    BY DEF Inv, Progress, CheckTables, AfterMigration, AfterRewrite
  <1>4. Tables \ tables = {} => tables = Tables
    BY DEF Inv, Schema
  <1>5. Progress(pc[w], at[w], todo[w], item[w])'
    <2>1. CASE Tables \ tables = {}
      BY <1>1, <1>2, <1>3, <1>4, <2>1
      DEF Progress, Done, RowsNew, AfterMigration, AfterRewrite, AfterTables, Serving
    <2>2. CASE Tables \ tables # {}
      BY <1>1, <1>2, <1>3, <2>2
      DEF Progress, Done, RowsNew, AfterMigration, AfterRewrite, AfterTables, Serving
    <2> QED BY <2>1, <2>2
  <1> QED BY <1>1, <1>2, <1>5, WorkerStep, SchemaSame DEF Inv, OnlyWorker

LEMMA CreateTableInv ==
  ASSUME Inv, NEW w \in Workers, CreateTable(w)
  PROVE  Inv'
  <1>1. PICK t \in todo[w] :
          IF t \in tables
          THEN Raise(w)
          ELSE /\ tables' = tables \union {t}
               /\ columns' = [columns EXCEPT ![t] = Expected[t]]
               /\ todo' = [todo EXCEPT ![w] = @ \ {t}]
               /\ IF t \in Indexed
                  THEN GoTo(w, "index") /\ item' = [item EXCEPT ![w] = {t}]
                  ELSE NextTable(w, todo'[w]) /\ UNCHANGED item
               /\ UNCHANGED <<settingsVars, indexes, admins, master, at, seen, historyVars>>
    BY DEF CreateTable
  <1>2. /\ RowsNew /\ (\A u \in tables : Done(u))
        /\ Tables \ tables \subseteq todo[w] /\ todo[w] \subseteq Tables
    BY DEF Inv, Progress, CreateTable, AfterMigration, AfterRewrite
  <1>3. CASE t \in tables
    BY <1>1, <1>3, RaiseInv
  <1>4. CASE t \notin tables
    <2>1. /\ t \in Tables /\ tables' = tables \union {t}
          /\ columns' \in [Tables -> SUBSET Columns]
          /\ columns'[t] = Expected[t]
          /\ \A u \in Tables \ {t} : columns'[u] = columns[u]
          /\ UNCHANGED <<row, admins, at, seen>>
      BY <1>1, <1>2, <1>4 DEF Inv, Schema, Columns, settingsVars
    <2>2. Schema'
      BY <2>1 DEF Inv, Schema
    <2>3. Grows
      BY <2>1 DEF Inv, Schema, Grows
    <2>4. /\ OnlyWorker(w) /\ todo'[w] = todo[w] \ {t}
          /\ pc'[w] \in {"index", "create", "load"}
          /\ pc'[w] = "load" => todo'[w] = {}
      <3>1. PICK to \in {"index", "create", "load"} :
              GoTo(w, to) /\ (to = "load" => todo'[w] = {})
        BY <1>1, <1>4 DEF NextTable
      <3>2. todo'[w] = todo[w] \ {t}
        BY <1>1, <1>4 DEF Inv, Shape
      <3>3. /\ \E x : todo' = [todo EXCEPT ![w] = x]
            /\ UNCHANGED item \/ \E x : item' = [item EXCEPT ![w] = x]
            /\ \E x : pc' = [pc EXCEPT ![w] = x]
        BY <1>1, <1>4, <3>1 DEF GoTo
      <3>4. OnlyWorker(w)
        BY <2>1, <3>3, LocalChange DEF Inv
      <3> QED BY <3>1, <3>2, <3>4 DEF Inv, Shape, GoTo
    <2>5. \A u \in tables' : Done(u)'
      BY <1>2, <2>1 DEF Done, Inv, Schema
    <2>6. Tables \ tables' \subseteq todo'[w] /\ todo'[w] \subseteq Tables
      BY <1>2, <2>1, <2>4
    <2>7. pc'[w] = "load" => tables' = Tables
      BY <2>2, <2>4, <2>6 DEF Schema
    <2>8. RowsNew'
      BY <1>2, <2>1 DEF RowsNew
    <2>9. Progress(pc[w], at[w], todo[w], item[w])'
      BY <2>4, <2>5, <2>6, <2>7, <2>8
      DEF Progress, Done, RowsNew, AfterMigration, AfterRewrite, AfterTables, Serving
    <2> QED BY <2>2, <2>3, <2>4, <2>9, WorkerStep DEF OnlyWorker
  <1> QED BY <1>3, <1>4

LEMMA CreateIndexInv ==
  ASSUME Inv, NEW w \in Workers, CreateIndex(w)
  PROVE  Inv'
  <1>1. CASE Raise(w)
    BY <1>1, RaiseInv
  <1>2. CASE /\ item' = [item EXCEPT ![w] = {}]
             /\ NextTable(w, todo[w])
             /\ UNCHANGED <<settingsVars, tables, columns, admins, master, at, todo, seen,
                            historyVars>>
    <2>1. UNCHANGED <<tables, columns, admins, row, at, todo, seen>>
      BY <1>2 DEF settingsVars
    <2>2. PICK to \in {"create", "load"} : GoTo(w, to) /\ (to = "load" => todo[w] = {})
      BY <1>2 DEF NextTable
    <2>3. OnlyWorker(w) /\ pc'[w] = to /\ todo'[w] = todo[w]
      BY <1>2, <2>1, <2>2, LocalChange DEF Inv, GoTo, Shape
    <2>4. /\ RowsNew /\ (\A u \in tables : Done(u))
          /\ Tables \ tables \subseteq todo[w] /\ todo[w] \subseteq Tables
      BY DEF Inv, Progress, CreateIndex, AfterMigration, AfterRewrite
    <2>5. to = "load" => tables = Tables
      BY <2>2, <2>4 DEF Inv, Schema
    <2>6. Progress(pc[w], at[w], todo[w], item[w])'
      BY <2>1, <2>3, <2>4, <2>5
      DEF Progress, Done, RowsNew, AfterMigration, AfterRewrite, AfterTables, Serving
    <2> QED BY <2>1, <2>3, <2>6, WorkerStep, SchemaSame DEF Inv, OnlyWorker
  <1> QED BY <1>1, <1>2 DEF CreateIndex

-----------------------------------------------------------------------------
(* The settings row and the administrator.                                 *)

LEMMA LoadSettingsInv ==
  ASSUME Inv, NEW w \in Workers, LoadSettings(w)
  PROVE  Inv'
  <1>1. UNCHANGED <<tables, columns, admins, row, at, todo, item, seen>>
    BY DEF LoadSettings, schemaVars, localVars
  <1>2. PICK to \in {"insert", "admin"} : GoTo(w, to) /\ (to = "admin" => row # {})
    BY DEF LoadSettings
  <1>3. OnlyWorker(w) /\ pc'[w] = to
    BY <1>1, <1>2, LocalChange DEF Inv, GoTo, Shape
  <1>4. RowsNew /\ tables = Tables /\ \A t \in tables : Done(t)
    BY DEF Inv, Progress, LoadSettings, AfterMigration, AfterRewrite, AfterTables
  <1>5. Progress(pc[w], at[w], todo[w], item[w])'
    BY <1>1, <1>2, <1>3, <1>4
    DEF Progress, Done, RowsNew, AfterMigration, AfterRewrite, AfterTables, Serving
  <1> QED BY <1>1, <1>3, <1>5, WorkerStep, SchemaSame DEF Inv, OnlyWorker

LEMMA InsertSettingsInv ==
  ASSUME Inv, NEW w \in Workers, InsertSettings(w)
  PROVE  Inv'
  <1>1. CASE Raise(w)
    BY <1>1, RaiseInv
  <1>2. CASE row' = {Default} /\ GoTo(w, "admin")
             /\ UNCHANGED <<files, stage, handler, base, form, schemaVars, admins, master,
                            localVars, historyVars>>
    <2>1. UNCHANGED <<tables, columns, admins, at, todo, item, seen>>
      BY <1>2 DEF schemaVars, localVars
    <2>2. \A r \in row' : r.retry
      BY <1>2 DEF Default
    <2>3. Schema' /\ Grows
      BY <1>2, <2>1, <2>2 DEF Inv, Schema, Grows
    <2>4. OnlyWorker(w) /\ pc'[w] = "admin"
      BY <1>2, <2>1, LocalChange DEF Inv, GoTo, Shape
    <2>5. tables = Tables /\ \A t \in tables : Done(t)
      BY DEF Inv, Progress, InsertSettings, AfterMigration, AfterRewrite, AfterTables
    <2>6. Progress(pc[w], at[w], todo[w], item[w])'
      BY <1>2, <2>1, <2>2, <2>4, <2>5
      DEF Progress, Done, RowsNew, AfterMigration, AfterRewrite, AfterTables, Serving
    <2> QED BY <2>3, <2>4, <2>6, WorkerStep DEF OnlyWorker
  <1> QED BY <1>1, <1>2 DEF InsertSettings

LEMMA FindAdminInv ==
  ASSUME Inv, NEW w \in Workers, FindAdmin(w)
  PROVE  Inv'
  <1>1. UNCHANGED <<tables, columns, admins, row, at, todo, item, seen>>
    BY DEF FindAdmin, settingsVars, schemaVars, localVars
  <1>2. PICK to \in {"add admin", "sweep"} : GoTo(w, to) /\ (to = "sweep" => admins # 0)
    BY DEF FindAdmin
  <1>3. OnlyWorker(w) /\ pc'[w] = to
    BY <1>1, <1>2, LocalChange DEF Inv, GoTo, Shape
  <1>4. RowsNew /\ tables = Tables /\ row # {} /\ \A t \in tables : Done(t)
    BY DEF Inv, Progress, FindAdmin, AfterMigration, AfterRewrite, AfterTables, Serving
  <1>5. admins # 0 => admins > 0
    <2>1. admins \in Nat
      BY DEF Inv, Schema
    <2> QED BY <2>1, Positive
  <1>6. Progress(pc[w], at[w], todo[w], item[w])'
    BY <1>1, <1>2, <1>3, <1>4, <1>5
    DEF Progress, Done, RowsNew, AfterMigration, AfterRewrite, AfterTables, Serving
  <1> QED BY <1>1, <1>3, <1>6, WorkerStep, SchemaSame DEF Inv, OnlyWorker

LEMMA AddAdminInv ==
  ASSUME Inv, NEW w \in Workers, AddAdmin(w)
  PROVE  Inv'
  <1>1. UNCHANGED <<tables, columns, row, at, todo, item, seen>>
    BY DEF AddAdmin, settingsVars, schemaVars, localVars
  <1>2. admins' \in Nat /\ admins' > 0 /\ admins' >= admins
    <2>1. admins \in Nat
      BY DEF Inv, Schema
    <2>2. (admins' = admins /\ admins > 0) \/ admins' = admins + 1
      BY DEF AddAdmin
    <2> QED BY <2>1, <2>2
  <1>3. Schema' /\ Grows
    BY <1>1, <1>2 DEF Inv, Schema, Grows
  <1>4. OnlyWorker(w) /\ pc'[w] = "sweep"
    BY <1>1, LocalChange DEF Inv, AddAdmin, GoTo, Shape
  <1>5. RowsNew /\ tables = Tables /\ row # {} /\ \A t \in tables : Done(t)
    BY DEF Inv, Progress, AddAdmin, AfterMigration, AfterRewrite, AfterTables, Serving
  <1>6. Progress(pc[w], at[w], todo[w], item[w])'
    BY <1>1, <1>2, <1>4, <1>5
    DEF Progress, Done, RowsNew, AfterMigration, AfterRewrite, AfterTables, Serving
  <1> QED BY <1>3, <1>4, <1>6, WorkerStep DEF OnlyWorker

LEMMA SweepInv ==
  ASSUME Inv, NEW w \in Workers, Sweep(w)
  PROVE  Inv'
  <1>1. CASE Raise(w)
    BY <1>1, RaiseInv
  <1>2. CASE pc[w] = "sweep" /\ GoTo(w, "serving")
             /\ UNCHANGED <<settingsVars, schemaVars, admins, master, localVars, crashes,
                            deletions, origin, lastSave, met, cut>>
    <2>1. UNCHANGED <<tables, columns, admins, row, at, todo, item, seen>>
      BY <1>2 DEF settingsVars, schemaVars, localVars
    <2>2. OnlyWorker(w) /\ pc'[w] = "serving"
      BY <1>2, <2>1, LocalChange DEF Inv, GoTo, Shape
    <2>3. /\ RowsNew /\ tables = Tables /\ row # {} /\ admins > 0
          /\ \A t \in tables : Done(t)
      BY <1>2 DEF Inv, Progress, AfterMigration, AfterRewrite, AfterTables, Serving
    <2>4. Progress(pc[w], at[w], todo[w], item[w])'
      BY <2>1, <2>2, <2>3
      DEF Progress, Done, RowsNew, AfterMigration, AfterRewrite, AfterTables, Serving
    <2> QED BY <2>1, <2>2, <2>4, WorkerStep, SchemaSame DEF Inv, OnlyWorker
  <1> QED BY <1>1, <1>2, SweepStep

(* The settings form writes nothing but rows that have all the keys.       *)
LEMMA NoWorkerStep ==
  ASSUME Inv, UNCHANGED <<tables, columns, admins, pc, at, todo, item, seen>>,
         row' = row \/ \E r : row' = {r} /\ r.retry
  PROVE  Inv'
  <1>1. Schema' /\ Grows /\ Shape'
    BY DEF Inv, Schema, Grows, Shape
  <1>2. ASSUME NEW w \in Workers
        PROVE  Inv'
    <2>1. PICK p, i, T, x : p = pc[w] /\ i = at[w] /\ T = todo[w] /\ x = item[w]
      OBVIOUS
    <2>2. Progress(p, i, T, x)'
      BY <1>1, <2>1, ProgressStays DEF Inv
    <2>3. Progress(pc[w], at[w], todo[w], item[w])'
      BY <2>1, <2>2 DEF Progress, MigratedBefore, Done, RowsNew
    <2> QED BY <1>1, <2>3, WorkerStep
  <1> QED BY <1>1, <1>2 DEF Inv

LEMMA FormInv ==
  ASSUME Inv, (\E w \in Workers : Submit(w)) \/ (\E s \in Saves : Handle(s))
  PROVE  Inv'
  <1>1. UNCHANGED <<tables, columns, admins, pc, at, todo, item, seen>>
    BY DEF Submit, Handle, schemaVars, localVars
  <1>2. row' = row \/ \E r : row' = {r} /\ r.retry
    <2>1. \A s \in Saves : Result(s).retry
      BY DEF Result, Updated
    <2> QED BY <2>1 DEF Submit, Handle, Open, Step, Refuse, WriteFiles, Fail, Commit, Publish
  <1> QED BY <1>1, <1>2, NoWorkerStep

-----------------------------------------------------------------------------

(* No worker has passed a step of its lifespan before it boots.            *)
THEOREM InitInv ==
  ASSUME Init
  PROVE  Inv
  <1>1. Schema
    BY DEF Init, Schema
  <1>2. Shape
    BY DEF Init, Shape
  <1>3. \A w \in Workers : Progress(pc[w], at[w], todo[w], item[w])
    BY DEF Init, Progress, AfterMigration, AfterRewrite, AfterTables, Serving
  <1> QED BY <1>1, <1>2, <1>3 DEF Inv

(* What a worker has passed in its lifespan stays done, whatever it or     *)
(* another worker does next.                                               *)
THEOREM NextInv ==
  ASSUME Inv, RowsInv, [Next]_vars
  PROVE  Inv'
  <1>1. CASE UNCHANGED vars
    BY <1>1, NoWorkerStep DEF vars, settingsVars
  <1>2. ASSUME NEW w \in Workers, StartupStep(w) PROVE Inv'
    BY <1>2, BootInv, MigrateTableInv, CheckColumnInv, AlterTableInv, ReadSettingsInv,
       RewriteSettingsInv, CreateMissingIndexesInv, CheckTablesInv, CreateTableInv,
       CreateIndexInv, LoadSettingsInv, InsertSettingsInv, FindAdminInv, AddAdminInv,
       SweepInv
    DEF StartupStep
  <1>3. ASSUME NEW w \in Workers, Stop(w) \/ Crash(w) PROVE Inv'
    BY <1>3, EndsInv
  <1>4. ASSUME NEW w \in Workers, DeleteServer(w) PROVE Inv'
    BY <1>4, DeleteStep, NoWorkerStep DEF settingsVars, schemaVars, localVars
  <1> QED BY <1>1, <1>2, <1>3, <1>4, FormInv, RestartInv DEF Next

(* Whatever the number of workers and tables and however their starts and  *)
(* deaths interleave, a worker that serves does so on all tables with all  *)
(* columns, on a settings row with all keys, and with an administrator.    *)
THEOREM ReadyToServe == Spec => []ServingMeansReady
  <1>1. Init => Inv /\ RowsInv
    BY InitInv, InitRows
  <1>2. Inv /\ RowsInv /\ [Next]_vars => Inv' /\ RowsInv'
    BY NextInv, NextRows
  <1>3. Inv => ServingMeansReady
    <2> SUFFICES ASSUME Inv, NEW w \in Workers, pc[w] = "serving"
                 PROVE  /\ tables = Tables
                        /\ columns = Expected
                        /\ \E r \in row : r.retry
                        /\ admins > 0
      BY DEF ServingMeansReady
    <2>1. /\ tables = Tables /\ row # {} /\ admins > 0 /\ RowsNew
          /\ \A t \in tables : Done(t)
      BY DEF Inv, Progress, AfterMigration, AfterRewrite, AfterTables, Serving
    <2>2. \A t \in Tables : columns[t] = Expected[t]
      BY <2>1 DEF Inv, Schema, Done
    <2>3. columns = Expected
      BY <2>2, TablesAssumption DEF Inv, Schema
    <2> QED BY <2>1, <2>3 DEF RowsNew
  <1> QED BY <1>1, <1>2, <1>3, PTL DEF Spec

-----------------------------------------------------------------------------
(* Which save a row is from.                                               *)

Stored(r) == r.by \in Saves => stage[r.by] \in {"committed", "done"}

StoredInv ==
    /\ \A r \in row : Stored(r)
    /\ \A w \in Workers : \A r \in copy[w] \union seen[w] : Stored(r)

(* A save that is committed or over remains so.                            *)
LEMMA StoredStays ==
  ASSUME StoredInv,
         \A s \in Saves : stage[s] \in {"committed", "done"} =>
                             stage'[s] \in {"committed", "done"},
         \A r \in row' : r \in row \/ Stored(r)',
         \A w \in Workers : \A r \in copy'[w] \union seen'[w] :
             r \in row \union copy[w] \union seen[w] \/ Stored(r)'
  PROVE  StoredInv'
  <1>1. \A r : Stored(r) => Stored(r)'
    BY DEF Stored
  <1> QED BY <1>1 DEF StoredInv

LEMMA FormStored ==
  ASSUME RowsInv, StoredInv, NEW s \in Saves, Step(s), UNCHANGED seen
  PROVE  StoredInv'
  <1>1. Result(s).by = s
    BY DEF Result, Updated
  <1>2. \A q \in Saves : stage[q] \in {"committed", "done"} =>
                            stage'[q] \in {"committed", "done"}
    <2>1. \A to : stage' = [stage EXCEPT ![s] = to] =>
             /\ stage'[s] = to
             /\ \A q \in Saves \ {s} : stage'[q] = stage[q]
      BY DEF RowsInv, SettingsShape
    <2> QED BY <2>1 DEF Step, Refuse, WriteFiles, Fail, Commit, Publish, End
  <1>3. CASE Refuse(s) \/ WriteFiles(s) \/ Fail(s)
    BY <1>2, <1>3, StoredStays DEF Refuse, WriteFiles, Fail
  <1>4. CASE Commit(s)
    <2>1. stage'[s] = "committed" /\ row' = {Result(s)} /\ UNCHANGED copy
      BY <1>4 DEF Commit, RowsInv, SettingsShape
    <2>2. \A r \in row' : Stored(r)'
      BY <1>1, <2>1 DEF Stored
    <2> QED BY <1>2, <2>1, <2>2, StoredStays
  <1>5. CASE Publish(s)
    <2>1. /\ stage'[s] = "done" /\ UNCHANGED row
          /\ \A w \in Workers : copy'[w] = copy[w] \/ copy'[w] = {Result(s)}
      BY <1>5 DEF Publish, End, RowsInv, SettingsShape
    <2>2. \A w \in Workers : \A r \in copy'[w] : r \in copy[w] \/ Stored(r)'
      BY <1>1, <2>1 DEF Stored
    <2> QED BY <1>2, <2>1, <2>2, StoredStays
  <1> QED BY <1>3, <1>4, <1>5 DEF Step

LEMMA StartStored ==
  ASSUME RowsInv, StoredInv, NEW w \in Workers,
         ReadSettings(w) \/ RewriteSettings(w) \/ LoadSettings(w) \/ InsertSettings(w)
  PROVE  StoredInv'
  <1> USE DEF schemaVars, localVars, historyVars, settingsVars
  <1>1. UNCHANGED stage
    BY DEF ReadSettings, RewriteSettings, LoadSettings, InsertSettings, Raise
  <1>2. CASE ReadSettings(w)
    <2>1. UNCHANGED <<row, copy>> /\ \A v \in Workers : seen'[v] \subseteq seen[v] \union row
      BY <1>2 DEF ReadSettings, RowsInv, SettingsShape
    <2> QED BY <1>1, <2>1, StoredStays
  <1>3. CASE RewriteSettings(w)
    <2>1. PICK r \in seen[w] : row' = {[r EXCEPT !.retry = TRUE]}
      BY <1>3 DEF RewriteSettings
    <2>2. r \in SettingsRows
      BY DEF RowsInv
    <2>3. [r EXCEPT !.retry = TRUE].by = r.by
      BY <2>2 DEF SettingsRows
    <2>4. \A x \in row' : Stored(x)'
      BY <1>1, <2>1, <2>3 DEF StoredInv, Stored
    <2>5. UNCHANGED copy /\ \A v \in Workers : seen'[v] \subseteq seen[v]
      BY <1>3 DEF RewriteSettings, RowsInv, SettingsShape
    <2> QED BY <1>1, <2>4, <2>5, StoredStays
  <1>4. CASE LoadSettings(w)
    <2>1. UNCHANGED <<row, seen>> /\ \A v \in Workers : copy'[v] \subseteq copy[v] \union row
      BY <1>4 DEF LoadSettings, RowsInv, SettingsShape
    <2> QED BY <1>1, <2>1, StoredStays
  <1>5. CASE InsertSettings(w)
    <2>1. Stored(Default)'
      BY DEF Stored, Default, None, Saves
    <2>2. /\ \A r \in row' : r \in row \/ r = Default
          /\ \A v \in Workers : /\ copy'[v] \subseteq copy[v] \union {Default}
                                /\ seen'[v] \subseteq seen[v]
      BY <1>5 DEF InsertSettings, Raise, Clear, RowsInv, SettingsShape
    <2> QED BY <1>1, <2>1, <2>2, StoredStays
  <1> QED BY <1>2, <1>3, <1>4, <1>5

LEMMA EndStored ==
  ASSUME RowsInv, StoredInv, NEW w \in Workers, Stop(w) \/ Crash(w)
  PROVE  StoredInv'
  <1>1. \A s \in Saves : stage[s] \in {"committed", "done"} =>
                            stage'[s] \in {"committed", "done"}
    BY DEF Stop, Crash, Forget, Interrupted
  <1>2. UNCHANGED row
    BY DEF Stop, Crash
  <1>3. \A v \in Workers : copy'[v] \subseteq copy[v] /\ seen'[v] \subseteq seen[v]
    BY DEF Stop, Crash, Forget, Clear, localVars, RowsInv, SettingsShape
  <1> QED BY <1>1, <1>2, <1>3, StoredStays

(* The other steps leave the settings alone.                               *)
LEMMA OtherSteps ==
  ASSUME RowsInv, [Next]_vars
  PROVE  \/ \E w \in Workers : \/ ReadSettings(w) \/ RewriteSettings(w)
                               \/ LoadSettings(w) \/ InsertSettings(w)
                               \/ Stop(w) \/ Crash(w) \/ Submit(w)
         \/ \E s \in Saves : Handle(s)
         \/ /\ UNCHANGED <<settingsVars, lastSave, origin>>
            /\ \A w \in Workers : seen'[w] \subseteq seen[w]
  <1> USE DEF schemaVars, localVars, historyVars
  <1> DEFINE Quiet == /\ UNCHANGED <<settingsVars, lastSave, origin>>
                      /\ \A w \in Workers : seen'[w] \subseteq seen[w]
  <1>1. CASE UNCHANGED vars
    BY <1>1 DEF vars
  <1>2. ASSUME NEW w \in Workers, Raise(w) PROVE Quiet
    BY <1>2 DEF Raise, Clear, RowsInv, SettingsShape
  <1>3. ASSUME NEW w \in Workers,
               \/ Boot(w) \/ MigrateTable(w) \/ CheckColumn(w) \/ CreateMissingIndexes(w)
               \/ CheckTables(w) \/ FindAdmin(w) \/ AddAdmin(w)
        PROVE  Quiet
    BY <1>3 DEF Boot, MigrateTable, CheckColumn, CreateMissingIndexes,
                CheckTables, FindAdmin, AddAdmin
  <1>4. ASSUME NEW w \in Workers,
               AlterTable(w) \/ CreateTable(w) \/ CreateIndex(w) \/ Sweep(w)
        PROVE  Quiet
    BY <1>2, <1>4, SweepStep DEF AlterTable, CreateTable, CreateIndex
  <1>5. CASE Restart
    BY <1>5 DEF Restart
  <1>6. ASSUME NEW w \in Workers, DeleteServer(w) PROVE Quiet
    BY <1>6, DeleteStep
  <1> HIDE DEF Quiet
  <1>7. CASE Next
    BY <1>3, <1>4, <1>5, <1>6, <1>7 DEF Next, StartupStep, Quiet
  <1> QED BY <1>1, <1>7

(* Settings reach a worker's copy only from the row or from a save that    *)
(* has committed.                                                          *)
THEOREM NextStored ==
  ASSUME RowsInv, StoredInv, [Next]_vars
  PROVE  StoredInv'
  <1>1. ASSUME NEW w \in Workers, Submit(w) PROVE StoredInv'
    <2>1. PICK s \in Saves : Open(s, w)
      BY <1>1 DEF Submit
    <2>2. UNCHANGED <<row, copy, seen>>
      BY <1>1, <2>1 DEF Submit, Open, localVars
    <2>3. \A q \in Saves : stage[q] \in {"committed", "done"} => stage'[q] = stage[q]
      BY <2>1 DEF Open, RowsInv, SettingsShape
    <2> QED BY <2>2, <2>3, StoredStays
  <1>2. ASSUME NEW s \in Saves, Handle(s) PROVE StoredInv'
    BY <1>2, FormStored DEF Handle, localVars
  <1>3. CASE /\ UNCHANGED <<settingsVars, lastSave, origin>>
             /\ \A w \in Workers : seen'[w] \subseteq seen[w]
    BY <1>3, StoredStays DEF settingsVars
  <1> QED BY <1>1, <1>2, <1>3, OtherSteps, StartStored, EndStored

(* No worker runs on settings that were never stored, whatever fails or    *)
(* dies between the files, the commit and the worker's own copy.           *)
THEOREM CopyStored == Spec => []CopyWasSaved
  <1>1. Init => RowsInv /\ StoredInv
    <2>1. Init => StoredInv
      BY DEF Init, StoredInv, Stored, OldRow, Default, None, Saves
    <2> QED BY <2>1, InitRows
  <1>2. RowsInv /\ StoredInv /\ [Next]_vars => RowsInv' /\ StoredInv'
    BY NextRows, NextStored
  <1>3. StoredInv => CopyWasSaved
    BY DEF StoredInv, Stored, CopyWasSaved
  <1> QED BY <1>1, <1>2, <1>3, PTL DEF Spec

-----------------------------------------------------------------------------
(* The uploaded logo.  A row that names one is from the save that uploaded *)
(* it, so that no other save can bring the file's name back after it has   *)
(* been deleted; and only the logo of a stored row is ever deleted.        *)
OwnLogo(r) ==
    r.logo \in LogoFiles => r.by \in Saves /\ r.logo = LogoFile(r.by) /\ r.retry

LogoRows ==
    /\ \A r \in row : OwnLogo(r)
    /\ \A w \in Workers : \A r \in copy[w] : OwnLogo(r)
    /\ \A w \in Workers : \A r \in seen[w] : r.logo \notin LogoFiles
    /\ \A s \in Saves : \A r \in base[s] : OwnLogo(r) /\ Stored(r)
    /\ \A s \in Saves : stage[s] = "files" =>
          (Result(s).logo \in LogoFiles => Result(s).logo \in files)

LogoInv == LogoRows /\ LogoOnDisk

LEMMA LogoNames ==
  /\ \A s \in Saves : LogoFile(s) \in LogoFiles
  /\ \A s, q \in Saves : LogoFile(s) = LogoFile(q) => s = q
  /\ <<>> \notin LogoFiles /\ <<"url">> \notin LogoFiles
  BY DEF LogoFile, LogoFiles

LEMMA UpdatedLogo ==
  ASSUME NEW s \in Saves, NEW b, NEW f
  PROVE  /\ OwnLogo(Updated(s, b, f))
         /\ Updated(s, b, f).logo \in LogoFiles => Updated(s, b, f).logo \in Uploaded(s, f)
  <1>1. /\ Updated(s, b, f).logo = Logo(s, f) /\ Updated(s, b, f).by = s
        /\ Updated(s, b, f).retry
    BY DEF Updated
  <1>2. \/ Logo(s, f) = LogoFile(s) /\ f.logo = "upload"
        \/ Logo(s, f) \in {<<>>, <<"url">>}
    BY DEF Logo
  <1>3. Logo(s, f) \in LogoFiles => Logo(s, f) = LogoFile(s) /\ f.logo = "upload"
    BY <1>2, LogoNames
  <1>4. f.logo = "upload" => LogoFile(s) \in Uploaded(s, f)
    BY DEF Uploaded
  <1> QED BY <1>1, <1>3, <1>4 DEF OwnLogo

LEMMA ResultLogo ==
  ASSUME NEW s \in Saves
  PROVE  OwnLogo(Result(s))
  BY UpdatedLogo DEF Result

(* A step that deletes no file and whose new rows name their own.          *)
LEMMA LogoRowsStay ==
  ASSUME LogoRows, files' = files,
         \A r \in row' : r \in row \/ OwnLogo(r),
         \A w \in Workers : \A r \in copy'[w] : r \in copy[w] \union row \/ OwnLogo(r),
         \A w \in Workers : \A r \in seen'[w] : r \in seen[w] \/ (r \in row /\ ~r.retry),
         \A s \in Saves : \A r \in base'[s] : r \in base[s] \/ (OwnLogo(r) /\ Stored(r)),
         \A s \in Saves : stage[s] \in {"committed", "done"} =>
                             stage'[s] \in {"committed", "done"},
         \A s \in Saves : stage'[s] = "files" =>
                             stage[s] = "files" /\ base'[s] = base[s] /\ form'[s] = form[s]
  PROVE  LogoRows'
  <1>1. \A r : OwnLogo(r) <=> OwnLogo(r)'
    BY DEF OwnLogo
  <1>2. \A r : Stored(r) => Stored(r)'
    BY DEF Stored
  <1>3. \A r \in row : ~r.retry => r.logo \notin LogoFiles
    BY DEF LogoRows, OwnLogo
  <1>4. \A w \in Workers : \A r \in seen'[w] : r.logo \notin LogoFiles
    BY <1>3 DEF LogoRows
  <1>5. ASSUME NEW s \in Saves, stage'[s] = "files"
        PROVE  Result(s)'.logo \in LogoFiles => Result(s)'.logo \in files'
    <2>1. Result(s)' = Result(s)
      BY <1>5 DEF Result, Base, Form
    <2> QED BY <1>5, <2>1 DEF LogoRows
  <1> QED BY <1>1, <1>2, <1>4, <1>5 DEF LogoRows

(* A save that deleted the logo of the row stays there to explain it.      *)
LEMMA LogoStays ==
  ASSUME LogoInv, LogoRows', row' = row, files' = files,
         \A s \in Saves : stage[s] \in {"files", "failed"} =>
            /\ stage'[s] \in {"files", "failed"}
            /\ base'[s] = base[s] /\ form'[s] = form[s]
  PROVE  LogoInv'
  <1>1. \A s \in Saves : stage[s] \in {"files", "failed"} =>
           Base(s)' = Base(s) /\ Form(s)' = Form(s)
    BY DEF Base, Form
  <1>2. ASSUME NEW r \in row', r.logo \in LogoFiles \ files'
        PROVE  \E s \in Saves : /\ stage'[s] \in {"files", "failed"}
                                /\ r.logo \in Dropped(Base(s)', Form(s)')
    <2>1. PICK s \in Saves : /\ stage[s] \in {"files", "failed"}
                             /\ r.logo \in Dropped(Base(s), Form(s))
      BY <1>2 DEF LogoInv, LogoOnDisk
    <2>2. Base(s)' = Base(s) /\ Form(s)' = Form(s) /\ stage'[s] \in {"files", "failed"}
      BY <1>1, <2>1
    <2> QED BY <2>1, <2>2
  <1> QED BY <1>2 DEF LogoInv, LogoOnDisk

(* A row that has just been written, if its logo is there.                 *)
LEMMA LogoWritten ==
  ASSUME LogoRows', \A r \in row' : r.logo \in LogoFiles => r.logo \in files'
  PROVE  LogoInv'
  BY DEF LogoInv, LogoOnDisk

LEMMA StartLogo ==
  ASSUME RowsInv, LogoInv, NEW w \in Workers,
         ReadSettings(w) \/ RewriteSettings(w) \/ LoadSettings(w) \/ InsertSettings(w)
  PROVE  LogoInv'
  <1> USE DEF schemaVars, localVars, historyVars, settingsVars
  <1>1. UNCHANGED <<stage, files, base, form>> /\ LogoRows
    BY DEF ReadSettings, RewriteSettings, LoadSettings, InsertSettings, Raise, LogoInv
  <1>2. CASE ReadSettings(w)
    <2>1. /\ UNCHANGED <<row, copy>>
          /\ \A v \in Workers : \A r \in seen'[v] : r \in seen[v] \/ (r \in row /\ ~r.retry)
      BY <1>2 DEF ReadSettings, RowsInv, SettingsShape
    <2>2. LogoRows'
      BY <1>1, <2>1, LogoRowsStay
    <2> QED BY <1>1, <2>1, <2>2, LogoStays
  <1>3. CASE RewriteSettings(w)
    <2>1. PICK r \in seen[w] : row' = {[r EXCEPT !.retry = TRUE]}
      BY <1>3 DEF RewriteSettings
    <2>2. r \in SettingsRows
      BY DEF RowsInv
    <2>3. [r EXCEPT !.retry = TRUE].logo = r.logo /\ r.logo \notin LogoFiles
      BY <1>1, <2>2 DEF SettingsRows, LogoRows
    <2>4. UNCHANGED copy /\ \A v \in Workers : seen'[v] \subseteq seen[v]
      BY <1>3 DEF RewriteSettings, RowsInv, SettingsShape
    <2>5. \A x \in row' : x.logo \notin LogoFiles
      BY <2>1, <2>3
    <2>6. \A x \in row' : OwnLogo(x)
      BY <2>5 DEF OwnLogo
    <2>7. LogoRows'
      BY <1>1, <2>4, <2>6, LogoRowsStay
    <2> QED BY <2>5, <2>7, LogoWritten
  <1>4. CASE LoadSettings(w)
    <2>1. UNCHANGED <<row, seen>> /\ \A v \in Workers : copy'[v] \subseteq copy[v] \union row
      BY <1>4 DEF LoadSettings, RowsInv, SettingsShape
    <2>2. LogoRows'
      BY <1>1, <2>1, LogoRowsStay
    <2> QED BY <1>1, <2>1, <2>2, LogoStays
  <1>5. CASE InsertSettings(w)
    <2>1. Default.logo \notin LogoFiles
      BY LogoNames DEF Default
    <2>2. CASE row # {}
      <3>1. UNCHANGED <<row, copy>> /\ \A v \in Workers : seen'[v] \subseteq seen[v]
        BY <1>5, <2>2 DEF InsertSettings, Raise, Clear, RowsInv, SettingsShape
      <3>2. LogoRows'
        BY <1>1, <3>1, LogoRowsStay
      <3> QED BY <1>1, <3>1, <3>2, LogoStays
    <2>3. CASE row = {}
      <3>1. /\ row' = {Default} /\ UNCHANGED seen
            /\ \A v \in Workers : copy'[v] \subseteq copy[v] \union {Default}
        BY <1>5, <2>3 DEF InsertSettings, RowsInv, SettingsShape
      <3>2. OwnLogo(Default)
        BY <2>1 DEF OwnLogo
      <3>3. LogoRows'
        BY <1>1, <3>1, <3>2, LogoRowsStay
      <3> QED BY <2>1, <3>1, <3>3, LogoWritten
    <2> QED BY <2>2, <2>3
  <1> QED BY <1>2, <1>3, <1>4, <1>5

LEMMA EndLogo ==
  ASSUME RowsInv, LogoInv, NEW w \in Workers, Stop(w) \/ Crash(w)
  PROVE  LogoInv'
  <1>1. /\ \A s \in Saves : stage[s] \in {"committed", "done"} =>
                               stage'[s] \in {"committed", "done"}
        /\ \A s \in Saves : stage'[s] = "files" => stage[s] = "files"
        /\ \A s \in Saves : stage[s] \in {"files", "failed"} =>
                               stage'[s] \in {"files", "failed"}
    BY DEF Stop, Crash, Forget, Interrupted
  <1>2. UNCHANGED <<row, files, base, form>>
    BY DEF Stop, Crash
  <1>3. \A v \in Workers : copy'[v] \subseteq copy[v] /\ seen'[v] \subseteq seen[v]
    BY DEF Stop, Crash, Forget, Clear, localVars, RowsInv, SettingsShape
  <1>4. LogoRows'
    BY <1>1, <1>2, <1>3, LogoRowsStay DEF LogoInv
  <1> QED BY <1>1, <1>2, <1>4, LogoStays

(* It deletes the logo of its base, which is that of a stored row: not the *)
(* one another save has just uploaded.                                     *)
LEMMA WriteFilesLogo ==
  ASSUME RowsInv, LogoInv, NEW s \in Saves, WriteFiles(s), UNCHANGED seen
  PROVE  LogoInv'
  <1>1. PICK f \in Forms :
          /\ form' = [form EXCEPT ![s] = {f}]
          /\ files' = (files \ Dropped(Base(s), f)) \union Uploaded(s, f)
    BY DEF WriteFiles
  <1>2. UNCHANGED <<row, copy, base>> /\ stage[s] = "open"
    BY DEF WriteFiles
  <1>3. /\ form'[s] = {f} /\ stage'[s] = "files"
        /\ \A q \in Saves \ {s} : stage'[q] = stage[q] /\ form'[q] = form[q]
    BY <1>1 DEF RowsInv, SettingsShape, WriteFiles
  <1>4. Base(s)' = Base(s) /\ Form(s)' = f /\ Result(s)' = Updated(s, Base(s), f)
    BY <1>2, <1>3 DEF Result, Base, Form
  <1>5. \A q \in Saves \ {s} : /\ Base(q)' = Base(q) /\ Form(q)' = Form(q)
                                /\ Result(q)' = Result(q)
    BY <1>2, <1>3 DEF Result, Base, Form
  <1>6. Base(s) \in base[s]
    BY <1>2 DEF RowsInv, Base
  <1>7. OwnLogo(Base(s)) /\ Stored(Base(s))
    BY <1>6 DEF LogoInv, LogoRows
  <1>8. ASSUME NEW q \in Saves, stage'[q] = "files", Result(q)'.logo \in LogoFiles
        PROVE  Result(q)'.logo \in files'
    <2>1. CASE q = s
      BY <1>1, <1>4, <1>8, <2>1, UpdatedLogo
    <2>2. CASE q # s
      <3>1. stage[q] = "files" /\ Result(q)' = Result(q)
        BY <1>3, <1>5, <1>8, <2>2
      <3>2. Result(q).logo \in files /\ OwnLogo(Result(q)) /\ Result(q).by = q
        BY <1>8, <3>1, ResultLogo DEF LogoInv, LogoRows, Result, Updated
      <3>3. Result(q).logo = LogoFile(q)
        BY <1>8, <3>1, <3>2 DEF OwnLogo
      <3>4. Base(s).logo # LogoFile(q)
        BY <1>7, <3>1, LogoNames DEF OwnLogo, Stored
      <3>5. Result(q).logo \notin Dropped(Base(s), f)
        BY <3>3, <3>4 DEF Dropped
      <3> QED BY <1>1, <3>1, <3>2, <3>5
    <2> QED BY <2>1, <2>2
  <1>9. LogoRows'
    <2>1. \A r : Stored(r) => Stored(r)'
      BY <1>2, <1>3 DEF Stored
    <2>2. \A r : OwnLogo(r) <=> OwnLogo(r)'
      BY DEF OwnLogo
    <2> QED BY <1>2, <1>8, <2>1, <2>2 DEF LogoInv, LogoRows
  <1>10. ASSUME NEW r \in row', r.logo \in LogoFiles \ files'
         PROVE  \E q \in Saves : /\ stage'[q] \in {"files", "failed"}
                                 /\ r.logo \in Dropped(Base(q)', Form(q)')
    <2>1. CASE r.logo \in files
      <3>1. r.logo \in Dropped(Base(s), f)
        BY <1>1, <1>10, <2>1
      <3> QED BY <1>3, <1>4, <3>1
    <2>2. CASE r.logo \notin files
      <3>1. PICK q \in Saves : /\ stage[q] \in {"files", "failed"}
                               /\ r.logo \in Dropped(Base(q), Form(q))
        BY <1>2, <1>10, <2>2 DEF LogoInv, LogoOnDisk
      <3>2. q # s
        BY <1>2, <3>1
      <3>3. Base(q)' = Base(q) /\ Form(q)' = Form(q) /\ stage'[q] = stage[q]
        BY <1>3, <1>5, <3>2
      <3> QED BY <3>1, <3>3
    <2> QED BY <2>1, <2>2
  <1> QED BY <1>9, <1>10 DEF LogoInv, LogoOnDisk

LEMMA FormLogo ==
  ASSUME RowsInv, LogoInv, NEW s \in Saves, Step(s), UNCHANGED seen
  PROVE  LogoInv'
  <1>1. LogoRows
    BY DEF LogoInv
  <1>2. CASE WriteFiles(s)
    BY <1>2, WriteFilesLogo
  <1>3. ASSUME UNCHANGED files,
               stage'[s] # "files",
               stage[s] \in {"committed", "done"} => stage'[s] \in {"committed", "done"},
               \A q \in Saves \ {s} : /\ stage'[q] = stage[q] /\ form'[q] = form[q]
                                      /\ base'[q] = base[q],
               base'[s] \subseteq base[s],
               \A r \in row' : r \in row \/ r = Result(s),
               \A w \in Workers : \A r \in copy'[w] : r \in copy[w] \/ r = Result(s)
        PROVE  LogoRows'
    <2>1. \A q \in Saves : /\ stage[q] \in {"committed", "done"} =>
                              stage'[q] \in {"committed", "done"}
                           /\ stage'[q] = "files" =>
                              stage[q] = "files" /\ base'[q] = base[q] /\ form'[q] = form[q]
                           /\ base'[q] \subseteq base[q]
      BY <1>3
    <2> QED BY <1>1, <1>3, <2>1, ResultLogo, LogoRowsStay
  <1>4. CASE Refuse(s)
    <2>1. /\ UNCHANGED <<row, copy, files>> /\ stage[s] = "open"
          /\ stage'[s] = "done" /\ base'[s] = {}
          /\ \A q \in Saves \ {s} : /\ stage'[q] = stage[q] /\ form'[q] = form[q]
                                     /\ base'[q] = base[q]
      BY <1>4 DEF Refuse, End, RowsInv, SettingsShape
    <2>2. LogoRows'
      BY <1>3, <2>1
    <2> QED BY <2>1, <2>2, LogoStays
  <1>5. CASE Fail(s)
    <2>1. /\ UNCHANGED <<row, copy, files, base, form>> /\ stage[s] = "files"
          /\ stage'[s] = "failed"
          /\ \A q \in Saves \ {s} : stage'[q] = stage[q]
      BY <1>5 DEF Fail, RowsInv, SettingsShape
    <2>2. LogoRows'
      BY <1>3, <2>1
    <2> QED BY <2>1, <2>2, LogoStays
  <1>6. CASE Commit(s)
    <2>1. /\ UNCHANGED <<copy, files, base, form>> /\ stage[s] = "files"
          /\ row' = {Result(s)} /\ stage'[s] = "committed"
          /\ \A q \in Saves \ {s} : stage'[q] = stage[q]
      BY <1>6 DEF Commit, RowsInv, SettingsShape
    <2>2. LogoRows'
      BY <1>3, <2>1
    <2>3. \A r \in row' : r.logo \in LogoFiles => r.logo \in files'
      BY <1>1, <2>1 DEF LogoRows
    <2> QED BY <2>2, <2>3, LogoWritten
  <1>7. CASE Publish(s)
    <2>1. /\ UNCHANGED <<row, files>> /\ stage[s] = "committed"
          /\ stage'[s] = "done" /\ base'[s] = {}
          /\ \A q \in Saves \ {s} : /\ stage'[q] = stage[q] /\ form'[q] = form[q]
                                     /\ base'[q] = base[q]
          /\ \A w \in Workers : copy'[w] = copy[w] \/ copy'[w] = {Result(s)}
      BY <1>7 DEF Publish, End, RowsInv, SettingsShape
    <2>2. LogoRows'
      BY <1>3, <2>1
    <2> QED BY <2>1, <2>2, LogoStays
  <1> QED BY <1>2, <1>4, <1>5, <1>6, <1>7 DEF Step

(* No step leaves a row whose logo is gone, but for that of a save which   *)
(* has deleted the file and not committed, or will not.                    *)
THEOREM NextLogo ==
  ASSUME RowsInv, StoredInv, LogoInv, [Next]_vars
  PROVE  LogoInv'
  <1>1. ASSUME NEW w \in Workers, Submit(w) PROVE LogoInv'
    <2>1. PICK s \in Saves : Open(s, w)
      BY <1>1 DEF Submit
    <2>2. UNCHANGED <<row, copy, files, seen, form>> /\ stage[s] = "new"
      BY <1>1, <2>1 DEF Submit, Open, localVars
    <2>3. /\ stage'[s] = "open" /\ base'[s] = copy[w]
          /\ \A q \in Saves \ {s} : stage'[q] = stage[q] /\ base'[q] = base[q]
      BY <2>1 DEF Open, RowsInv, SettingsShape
    <2>4. \A r \in copy[w] : OwnLogo(r) /\ Stored(r)
      BY DEF LogoInv, LogoRows, StoredInv
    <2>5. LogoRows'
      BY <2>2, <2>3, <2>4, LogoRowsStay DEF LogoInv
    <2> QED BY <2>2, <2>3, <2>5, LogoStays
  <1>2. ASSUME NEW s \in Saves, Handle(s) PROVE LogoInv'
    BY <1>2, FormLogo DEF Handle, localVars
  <1>3. CASE /\ UNCHANGED <<settingsVars, lastSave, origin>>
             /\ \A w \in Workers : seen'[w] \subseteq seen[w]
    <2>1. LogoRows'
      BY <1>3, LogoRowsStay DEF settingsVars, LogoInv
    <2> QED BY <1>3, <2>1, LogoStays DEF settingsVars
  <1> QED BY <1>1, <1>2, <1>3, OtherSteps, StartLogo, EndLogo

(* The uploaded logo that the settings name is on the disk, unless a save  *)
(* deleted it that is about to commit, or has failed after it changed the  *)
(* files; whatever else is saved, started or killed.                       *)
THEOREM LogoStaysOnDisk == Spec => []LogoOnDisk
  <1>1. Init => RowsInv /\ StoredInv /\ LogoInv
    <2>1. Init => StoredInv
      BY DEF Init, StoredInv, Stored, OldRow, Default, None, Saves
    <2>2. OldRow.logo \notin LogoFiles
      BY LogoNames DEF OldRow, Default
    <2>3. Init => LogoInv
      BY <2>2 DEF Init, LogoInv, LogoRows, LogoOnDisk, OwnLogo
    <2> QED BY <2>1, <2>3, InitRows
  <1>2. RowsInv /\ StoredInv /\ LogoInv /\ [Next]_vars => RowsInv' /\ StoredInv' /\ LogoInv'
    BY NextRows, NextStored, NextLogo
  <1>3. LogoInv => LogoOnDisk
    BY DEF LogoInv
  <1> QED BY <1>1, <1>2, <1>3, PTL DEF Spec

-----------------------------------------------------------------------------
(* The key and the password.  Rows from the same save agree on them, also  *)
(* where one of them has been in the memory of a worker since.             *)
HeldRows == UNION {copy[w] \union seen[w] : w \in Workers}
BaseRows == UNION {base[s] : s \in Saves}
KnownRows == {Default} \union row \union HeldRows \union BaseRows

LEMMA KnownIs ==
  /\ \A x : x \in KnownRows <=>
        \/ x = Default \/ x \in row
        \/ \E w \in Workers : x \in copy[w] \/ x \in seen[w]
        \/ \E s \in Saves : x \in base[s]
  /\ \A x : x \in KnownRows' <=>
        \/ x = Default \/ x \in row'
        \/ \E w \in Workers : x \in copy'[w] \/ x \in seen'[w]
        \/ \E s \in Saves : x \in base'[s]
  <1>1. /\ \A x : x \in HeldRows <=> \E w \in Workers : x \in copy[w] \/ x \in seen[w]
        /\ \A x : x \in HeldRows' <=> \E w \in Workers : x \in copy'[w] \/ x \in seen'[w]
    BY DEF HeldRows
  <1>2. /\ \A x : x \in BaseRows <=> \E s \in Saves : x \in base[s]
        /\ \A x : x \in BaseRows' <=> \E s \in Saves : x \in base'[s]
    BY DEF BaseRows
  <1> QED BY <1>1, <1>2 DEF KnownRows

Alike(x, y) == x.by = y.by /\ x.key = y.key /\ x.secret = y.secret
Agree(x, y) == x.by = y.by => Alike(x, y)

KeepInv ==
    /\ \A x \in KnownRows : Stored(x)
    /\ \A x, y \in KnownRows : Agree(x, y)
    /\ \A s \in Saves : stage[s] = "committed" => \A x \in KnownRows : Agree(x, Result(s))

(* A step that adds no rows but copies of known ones, with or without the  *)
(* new keys, and the results of the saves F.                               *)
LEMMA KeepStays ==
  ASSUME KeepInv, NEW F \in SUBSET Saves,
         \A s \in F : stage'[s] \in {"committed", "done"},
         \A s \in F : \A x \in KnownRows : Agree(x, Result(s)),
         \A x \in KnownRows' : \/ \E r \in KnownRows : Alike(r, x)
                               \/ \E s \in F : x = Result(s),
         \A s \in Saves : stage[s] \in {"committed", "done"} =>
                             stage'[s] \in {"committed", "done"},
         \A s \in Saves : stage'[s] = "committed" =>
                             (stage[s] = "committed" \/ s \in F) /\ Result(s)' = Result(s)
  PROVE  KeepInv'
  <1>1. \A s \in Saves : Result(s).by = s
    BY DEF Result, Updated
  <1>2. ASSUME NEW x \in KnownRows'
        PROVE  Stored(x)'
    <2>1. CASE \E r \in KnownRows : Alike(r, x)
      BY <2>1 DEF KeepInv, Stored, Alike
    <2>2. CASE \E s \in F : x = Result(s)
      BY <1>1, <2>2 DEF Stored
    <2> QED BY <2>1, <2>2
  <1>3. ASSUME NEW x \in KnownRows', NEW s \in Saves, s \in F \/ stage[s] = "committed"
        PROVE  Agree(x, Result(s))
    <2>1. \A r \in KnownRows : Agree(r, Result(s))
      BY <1>3 DEF KeepInv
    <2>2. CASE \E r \in KnownRows : Alike(r, x)
      BY <2>1, <2>2 DEF Agree, Alike
    <2>3. CASE \E q \in F : x = Result(q)
      BY <1>1, <2>3 DEF Agree, Alike
    <2> QED BY <2>2, <2>3
  <1>4. ASSUME NEW x \in KnownRows', NEW y \in KnownRows'
        PROVE  Agree(x, y)
    <2>1. CASE \E r \in KnownRows : Alike(r, y)
      <3>1. PICK r \in KnownRows : Alike(r, y)
        BY <2>1
      <3>2. CASE \E q \in KnownRows : Alike(q, x)
        BY <3>1, <3>2 DEF KeepInv, Agree, Alike
      <3>3. CASE \E s \in F : x = Result(s)
        BY <3>1, <3>3 DEF Agree, Alike
      <3> QED BY <3>2, <3>3
    <2>2. CASE \E s \in F : y = Result(s)
      BY <1>3, <2>2
    <2> QED BY <2>1, <2>2
  <1>5. ASSUME NEW s \in Saves, stage'[s] = "committed", NEW x \in KnownRows'
        PROVE  Agree(x, Result(s)')
    BY <1>3, <1>5
  <1>6. /\ \A x : Stored(x)' <=> (x.by \in Saves => stage'[x.by] \in {"committed", "done"})
        /\ \A x, y : Agree(x, y) <=> (x.by = y.by => x.key = y.key /\ x.secret = y.secret)
    BY DEF Stored, Agree, Alike
  <1> QED BY <1>2, <1>4, <1>5, <1>6 DEF KeepInv, Agree, Alike

(* A step that adds none at all.                                           *)
LEMMA KeepSame ==
  ASSUME KeepInv, KnownRows' \subseteq KnownRows,
         \A s \in Saves : stage[s] \in {"committed", "done"} =>
                             stage'[s] \in {"committed", "done"},
         \A s \in Saves : stage'[s] = "committed" =>
                             stage[s] = "committed" /\ base'[s] = base[s] /\ form'[s] = form[s]
  PROVE  KeepInv'
  <1>1. \A s \in Saves : stage'[s] = "committed" => Result(s)' = Result(s)
    BY DEF Result, Base, Form
  <1>2. \A x \in KnownRows' : \E r \in KnownRows : Alike(r, x)
    BY DEF Alike
  <1>3. {} \in SUBSET Saves
    OBVIOUS
  <1> QED BY <1>1, <1>2, <1>3, KeepStays

LEMMA FormKeep ==
  ASSUME RowsInv, KeepInv, NEW s \in Saves, Step(s), UNCHANGED seen
  PROVE  KeepInv'
  <1>1. /\ \A to : stage' = [stage EXCEPT ![s] = to] =>
              stage'[s] = to /\ \A q \in Saves \ {s} : stage'[q] = stage[q]
        /\ \A x : base' = [base EXCEPT ![s] = x] =>
              base'[s] = x /\ \A q \in Saves \ {s} : base'[q] = base[q]
        /\ \A x : form' = [form EXCEPT ![s] = x] => \A q \in Saves \ {s} : form'[q] = form[q]
    BY DEF RowsInv, SettingsShape
  <1>2. \A q \in Saves : stage[q] \in {"committed", "done"} =>
                            stage'[q] \in {"committed", "done"}
    BY <1>1 DEF Step, Refuse, WriteFiles, Fail, Commit, Publish, End
  <1>3. CASE Refuse(s) \/ WriteFiles(s) \/ Fail(s)
    <2>1. /\ UNCHANGED <<row, copy>> /\ stage'[s] # "committed"
          /\ \A q \in Saves : base'[q] \subseteq base[q]
          /\ \A q \in Saves \ {s} : /\ stage'[q] = stage[q] /\ base'[q] = base[q]
                                    /\ form'[q] = form[q]
      BY <1>1, <1>3 DEF Refuse, WriteFiles, Fail, End
    <2>2. KnownRows' \subseteq KnownRows
      BY <2>1, KnownIs
    <2> QED BY <1>2, <2>1, <2>2, KeepSame
  <1>4. CASE Commit(s)
    <2>1. /\ stage[s] = "files" /\ stage'[s] = "committed" /\ row' = {Result(s)}
          /\ UNCHANGED <<copy, base, form>>
          /\ \A q \in Saves \ {s} : stage'[q] = stage[q]
      BY <1>1, <1>4, Zenon DEF Commit
    <2>2. \A x \in KnownRows' : x \in KnownRows \/ x = Result(s)
      BY <2>1, KnownIs
    <2>3. \A x \in KnownRows : Agree(x, Result(s))
      BY <2>1 DEF KeepInv, Stored, Agree, Result, Updated
    <2>4. \A q \in Saves : Result(q)' = Result(q)
      BY <2>1 DEF Result, Base, Form
    <2>5. {s} \in SUBSET Saves /\ \A x : Alike(x, x)
      BY DEF Alike
    <2> QED BY <1>2, <2>1, <2>2, <2>3, <2>4, <2>5, KeepStays
  <1>5. CASE Publish(s)
    <2>1. /\ stage[s] = "committed" /\ stage'[s] = "done" /\ UNCHANGED row
          /\ \A w \in Workers : copy'[w] = copy[w] \/ copy'[w] = {Result(s)}
          /\ \A q \in Saves : base'[q] \subseteq base[q]
          /\ \A q \in Saves \ {s} : /\ stage'[q] = stage[q] /\ base'[q] = base[q]
                                    /\ form'[q] = form[q]
      <3>1. \A w \in Workers : copy'[w] = copy[w] \/ copy'[w] = {Result(s)}
        BY <1>5, Zenon DEF Publish
      <3>2. /\ base' = [base EXCEPT ![s] = {}] /\ form' = [form EXCEPT ![s] = {}]
            /\ stage' = [stage EXCEPT ![s] = "done"]
            /\ stage[s] = "committed" /\ UNCHANGED row
        BY <1>5 DEF Publish, End
      <3>3. base'[s] = {} /\ stage'[s] = "done"
        BY <1>1, <3>2
      <3> QED BY <1>1, <3>1, <3>2, <3>3
    <2>2. \A x \in KnownRows' : x \in KnownRows \/ x = Result(s)
      BY <2>1, KnownIs
    <2>3. \A x \in KnownRows : Agree(x, Result(s))
      BY <2>1 DEF KeepInv
    <2>4. \A q \in Saves \ {s} : Result(q)' = Result(q)
      BY <2>1 DEF Result, Base, Form
    <2>5. {s} \in SUBSET Saves /\ \A x : Alike(x, x)
      BY DEF Alike
    <2> QED BY <1>2, <2>1, <2>2, <2>3, <2>4, <2>5, KeepStays
  <1> QED BY <1>3, <1>4, <1>5 DEF Step

LEMMA StartKeep ==
  ASSUME RowsInv, KeepInv, NEW w \in Workers,
         ReadSettings(w) \/ RewriteSettings(w) \/ LoadSettings(w) \/ InsertSettings(w)
  PROVE  KeepInv'
  <1> USE DEF schemaVars, localVars, historyVars, settingsVars
  <1>1. UNCHANGED <<stage, base, form>>
    BY DEF ReadSettings, RewriteSettings, LoadSettings, InsertSettings, Raise
  <1>2. CASE ReadSettings(w) \/ LoadSettings(w) \/ InsertSettings(w)
    <2>1. /\ row' \subseteq row \union {Default}
          /\ \A v \in Workers : /\ copy'[v] \subseteq copy[v] \union row \union {Default}
                                /\ seen'[v] \subseteq seen[v] \union row
      BY <1>2
      DEF ReadSettings, LoadSettings, InsertSettings, Raise, Clear, RowsInv, SettingsShape
    <2>2. KnownRows' \subseteq KnownRows
      BY <1>1, <2>1, KnownIs
    <2> QED BY <1>1, <2>2, KeepSame
  <1>3. CASE RewriteSettings(w)
    <2>1. PICK r \in seen[w] : row' = {[r EXCEPT !.retry = TRUE]}
      BY <1>3 DEF RewriteSettings
    <2>2. r \in SettingsRows /\ r \in KnownRows
      BY KnownIs DEF RowsInv
    <2>3. Alike(r, [r EXCEPT !.retry = TRUE])
      BY <2>2 DEF SettingsRows, Alike
    <2>4. UNCHANGED copy /\ \A v \in Workers : seen'[v] \subseteq seen[v]
      BY <1>3 DEF RewriteSettings, RowsInv, SettingsShape
    <2>5. \A x \in KnownRows' : x \in KnownRows \/ x \in row'
      BY <1>1, <2>4, KnownIs
    <2>6. \A x \in KnownRows' : \E q \in KnownRows : Alike(q, x)
      BY <2>1, <2>2, <2>3, <2>5 DEF Alike
    <2>7. \A s \in Saves : Result(s)' = Result(s)
      BY <1>1 DEF Result, Base, Form
    <2>8. {} \in SUBSET Saves
      OBVIOUS
    <2> QED BY <1>1, <2>6, <2>7, <2>8, KeepStays
  <1> QED BY <1>2, <1>3

(* Neither saves, starts nor deaths of workers make two rows of one save   *)
(* that differ in the key or in the password.                              *)
THEOREM NextKeep ==
  ASSUME RowsInv, KeepInv, [Next]_vars
  PROVE  KeepInv'
  <1>1. ASSUME NEW w \in Workers, Submit(w) PROVE KeepInv'
    <2>1. PICK s \in Saves : Open(s, w)
      BY <1>1 DEF Submit
    <2>2. UNCHANGED <<row, copy, seen, form>> /\ stage[s] = "new"
      BY <1>1, <2>1 DEF Submit, Open, localVars
    <2>3. /\ stage'[s] = "open" /\ base'[s] = copy[w]
          /\ \A q \in Saves \ {s} : stage'[q] = stage[q] /\ base'[q] = base[q]
      BY <2>1 DEF Open, RowsInv, SettingsShape
    <2>4. KnownRows' \subseteq KnownRows
      <3>1. \A q \in Saves : base'[q] \subseteq base[q] \union copy[w]
        BY <2>3
      <3> QED BY <2>2, <3>1, KnownIs
    <2> QED BY <2>2, <2>3, <2>4, KeepSame
  <1>2. ASSUME NEW w \in Workers, Stop(w) \/ Crash(w) PROVE KeepInv'
    <2>1. /\ UNCHANGED <<row, base, form>>
          /\ \A v \in Workers : copy'[v] \subseteq copy[v] /\ seen'[v] \subseteq seen[v]
      BY <1>2 DEF Stop, Crash, Forget, Clear, localVars, RowsInv, SettingsShape
    <2>2. KnownRows' \subseteq KnownRows
      BY <2>1, KnownIs
    <2>3. \A s \in Saves : stage'[s] = Interrupted(s, w)
      BY <1>2 DEF Stop, Crash, Forget
    <2>4. \A s \in Saves : /\ stage[s] \in {"committed", "done"} =>
                                 stage'[s] \in {"committed", "done"}
                           /\ stage'[s] = "committed" => stage[s] = "committed"
      BY <2>3 DEF Interrupted
    <2> QED BY <2>1, <2>2, <2>4, KeepSame
  <1>3. ASSUME NEW s \in Saves, Handle(s) PROVE KeepInv'
    BY <1>3, FormKeep DEF Handle, localVars
  <1>4. CASE /\ UNCHANGED <<settingsVars, lastSave, origin>>
             /\ \A w \in Workers : seen'[w] \subseteq seen[w]
    <2>1. KnownRows' \subseteq KnownRows
      BY <1>4, KnownIs DEF settingsVars
    <2> QED BY <1>4, <2>1, KeepSame DEF settingsVars
  <1> QED BY <1>1, <1>2, <1>3, <1>4, OtherSteps, StartKeep

(* A form that leaves the key or the password blank keeps the one that is  *)
(* in the database, although it takes it from the copy of its worker,      *)
(* unless that copy is of another save than the row it replaces.           *)
THEOREM BlankKeeps == Spec => KeepsCurrent
  <1>1. Init => RowsInv /\ KeepInv
    <2>1. Init => KnownRows \subseteq {Default, OldRow}
      BY KnownIs DEF Init
    <2>2. \A x, y \in {Default, OldRow} : Agree(x, y) /\ Stored(x)
      BY DEF Agree, Alike, Stored, OldRow, Default, None, Saves
    <2>3. Init => KeepInv
      BY <2>1, <2>2 DEF Init, KeepInv
    <2> QED BY <2>3, InitRows
  <1>2. RowsInv /\ KeepInv /\ [Next]_vars => RowsInv' /\ KeepInv'
    BY NextRows, NextKeep
  <1>3. ASSUME RowsInv, KeepInv, [Next]_vars, NEW s \in Saves,
               stage[s] = "files", stage'[s] = "committed",
               NEW old \in row, NEW new \in row', old.by = Base(s).by
        PROVE  /\ Form(s).key = "keep" => new.key = old.key
               /\ Form(s).secret = "blank" => new.secret = old.secret
    <2>1. Commit(s)
      <3>1. PICK q \in Saves : Handle(q)
        <4>1. UNCHANGED settingsVars => FALSE
          BY <1>3 DEF settingsVars
        <4>2. ASSUME NEW w \in Workers,
                     \/ ReadSettings(w) \/ RewriteSettings(w) \/ LoadSettings(w)
                     \/ InsertSettings(w)
              PROVE  FALSE
          BY <1>3, <4>2
          DEF ReadSettings, RewriteSettings, LoadSettings, InsertSettings, Raise, settingsVars
        <4>3. ASSUME NEW w \in Workers, Stop(w) \/ Crash(w)
              PROVE  FALSE
          BY <1>3, <4>3 DEF Stop, Crash, Forget, Interrupted
        <4>4. ASSUME NEW w \in Workers, Submit(w)
              PROVE  FALSE
          BY <1>3, <4>4 DEF Submit, Open, RowsInv, SettingsShape
        <4> QED BY <1>3, <4>1, <4>2, <4>3, <4>4, OtherSteps
      <3>2. \A to : stage' = [stage EXCEPT ![q] = to] =>
               stage'[q] = to /\ \A p \in Saves \ {q} : stage'[p] = stage[p]
        BY <1>3 DEF RowsInv, SettingsShape
      <3>3. Step(q)
        BY <3>1 DEF Handle
      <3>4. q = s
        BY <1>3, <3>2, <3>3 DEF Step, Refuse, WriteFiles, Fail, Commit, Publish, End
      <3> QED BY <1>3, <3>2, <3>3, <3>4 DEF Step, Refuse, WriteFiles, Fail, Publish, End
    <2>2. new = Updated(s, Base(s), Form(s))
      BY <1>3, <2>1, Zenon DEF Commit, Result
    <2>3. Base(s) \in base[s]
      BY <1>3 DEF RowsInv, Base
    <2>4. Base(s) \in KnownRows /\ old \in KnownRows
      BY <1>3, <2>3, KnownIs
    <2>5. Base(s).key = old.key /\ Base(s).secret = old.secret
      BY <1>3, <2>4 DEF KeepInv, Agree, Alike
    <2> QED BY <2>2, <2>5 DEF Updated, Key
  <1>4. RowsInv /\ KeepInv /\ [Next]_vars =>
          [\A s \in Saves :
              stage[s] = "files" /\ stage'[s] = "committed" =>
                  \A old \in row, new \in row' :
                      old.by = Base(s).by =>
                          /\ Form(s).key = "keep" => new.key = old.key
                          /\ Form(s).secret = "blank" => new.secret = old.secret]_settingsVars
    BY <1>3
  <1> QED BY <1>1, <1>2, <1>4, PTL DEF Spec, KeepsCurrent

-----------------------------------------------------------------------------
(* On a database that started empty every row has all keys, so that no     *)
(* migration ever writes one back.                                         *)

FreshInv ==
    origin = "empty" =>
        /\ \A w \in Workers : seen[w] = {}
        /\ \A r \in row : r.retry /\ r.by = lastSave
        /\ row = {} => lastSave = None

(* On a new database every step leaves the row to the saves.               *)
THEOREM NextFresh ==
  ASSUME RowsInv, FreshInv, [Next]_vars
  PROVE  FreshInv'
  <1> USE DEF schemaVars, localVars, historyVars
  <1>1. CASE /\ UNCHANGED <<settingsVars, lastSave, origin>>
             /\ \A w \in Workers : seen'[w] \subseteq seen[w]
    BY <1>1 DEF FreshInv, settingsVars
  <1>2. ASSUME NEW w \in Workers, Stop(w) \/ Crash(w) \/ Submit(w)
        PROVE  FreshInv'
    <2>1. UNCHANGED <<row, lastSave, origin>> /\ \A v \in Workers : seen'[v] \subseteq seen[v]
      BY <1>2 DEF Stop, Crash, Submit, Open, Clear, RowsInv, SettingsShape
    <2> QED BY <2>1 DEF FreshInv
  <1>3. ASSUME NEW w \in Workers, ReadSettings(w)
        PROVE  FreshInv'
    <2>1. /\ UNCHANGED <<row, lastSave, origin>>
          /\ seen' = [seen EXCEPT ![w] = {r \in row : ~r.retry}]
      BY <1>3 DEF ReadSettings, settingsVars
    <2> QED BY <2>1 DEF FreshInv
  <1>4. ASSUME NEW w \in Workers, RewriteSettings(w)
        PROVE  FreshInv'
    BY <1>4 DEF RewriteSettings, FreshInv
  <1>5. ASSUME NEW w \in Workers, LoadSettings(w)
        PROVE  FreshInv'
    BY <1>5 DEF LoadSettings, FreshInv
  <1>6. ASSUME NEW w \in Workers, InsertSettings(w)
        PROVE  FreshInv'
    <2>1. CASE row = {}
      BY <1>6, <2>1 DEF InsertSettings, FreshInv, Default
    <2>2. CASE row # {}
      <3>1. UNCHANGED <<row, lastSave, origin>> /\ \A v \in Workers : seen'[v] \subseteq seen[v]
        BY <1>6, <2>2
        DEF InsertSettings, Raise, Clear, settingsVars, RowsInv, SettingsShape
      <3> QED BY <3>1 DEF FreshInv
    <2> QED BY <2>1, <2>2
  <1>7. ASSUME NEW s \in Saves, Handle(s)
        PROVE  FreshInv'
    <2>1. UNCHANGED <<seen, origin>> /\ lastSave' = IF stage'[s] = "committed" THEN s ELSE lastSave
      BY <1>7 DEF Handle
    <2>2. CASE Commit(s)
      <3>1. stage'[s] = "committed" /\ row' = {Result(s)}
        BY <2>2 DEF Commit, RowsInv, SettingsShape
      <3>2. Result(s).by = s /\ Result(s).retry
        BY DEF Result, Updated
      <3> QED BY <2>1, <3>1, <3>2 DEF FreshInv
    <2>3. CASE Refuse(s) \/ WriteFiles(s) \/ Fail(s) \/ Publish(s)
      <3>1. UNCHANGED row /\ stage'[s] # "committed"
        BY <2>3 DEF Refuse, WriteFiles, Fail, Publish, End, RowsInv, SettingsShape
      <3> QED BY <2>1, <3>1 DEF FreshInv
    <2> QED BY <1>7, <2>2, <2>3 DEF Handle, Step
  <1> QED BY <1>1, <1>2, <1>3, <1>4, <1>5, <1>6, <1>7, OtherSteps

(* What the database may have been at first.                               *)
KnownOrigin == origin \in {"empty", "old"}

(* Without an upgrade the settings row is that of the last save, whichever *)
(* workers save, start, die or race to insert it.                          *)
THEOREM NoSaveLost == Spec => []SavesLostOnlyOnUpgrade
  <1>1. Init => RowsInv /\ FreshInv /\ KnownOrigin
    <2>1. Init => FreshInv /\ KnownOrigin
      BY DEF Init, FreshInv, KnownOrigin
    <2> QED BY <2>1, InitRows
  <1>2. RowsInv /\ FreshInv /\ KnownOrigin /\ [Next]_vars
           => RowsInv' /\ FreshInv' /\ KnownOrigin'
    <2> SUFFICES ASSUME RowsInv, FreshInv, KnownOrigin, [Next]_vars
                 PROVE  RowsInv' /\ FreshInv' /\ KnownOrigin'
      OBVIOUS
    <2>1. UNCHANGED origin
      BY OtherSteps
      DEF ReadSettings, RewriteSettings, LoadSettings, InsertSettings, Raise, Stop, Crash,
          Submit, Handle, historyVars
    <2> QED BY <2>1, NextRows, NextFresh DEF KnownOrigin
  <1>3. FreshInv /\ KnownOrigin => SavesLostOnlyOnUpgrade
    BY DEF FreshInv, KnownOrigin, SavesLostOnlyOnUpgrade
  <1> QED BY <1>1, <1>2, <1>3, PTL DEF Spec

-----------------------------------------------------------------------------
(* The administrators.                                                     *)

AdminInv ==
    /\ admins \in Nat
    /\ origin \in {"empty", "old"}
    /\ origin = "old" => UsersTable \in indexes
    /\ OneAdmin

LEMMA AdminsStay ==
  ASSUME AdminInv, UNCHANGED <<admins, origin>>, indexes \subseteq indexes', cut \subseteq cut'
  PROVE  AdminInv'
  BY DEF AdminInv, OneAdmin

(* A second administrator is only ever added beside a missing index,       *)
(* whichever worker adds it.                                               *)
THEOREM NextAdmin ==
  ASSUME AdminInv, [Next]_vars
  PROVE  AdminInv'
  <1> USE DEF schemaVars, localVars, historyVars
  <1>1. CASE UNCHANGED vars
    BY <1>1, AdminsStay DEF vars
  <1>2. ASSUME NEW w \in Workers, Raise(w) PROVE AdminInv'
    BY <1>2, AdminsStay DEF Raise
  <1>3. ASSUME NEW w \in Workers,
               \/ Boot(w) \/ MigrateTable(w) \/ CheckColumn(w) \/ CreateMissingIndexes(w)
               \/ CheckTables(w) \/ FindAdmin(w) \/ ReadSettings(w) \/ RewriteSettings(w)
               \/ LoadSettings(w) \/ Stop(w) \/ Crash(w) \/ Submit(w)
        PROVE  AdminInv'
    BY <1>3, AdminsStay DEF Boot, MigrateTable, CheckColumn, CreateMissingIndexes,
       CheckTables, FindAdmin, ReadSettings, RewriteSettings, LoadSettings, Stop, Crash, Submit
  <1>4. ASSUME NEW w \in Workers,
               \/ AlterTable(w) \/ CreateTable(w) \/ CreateIndex(w) \/ InsertSettings(w)
               \/ Sweep(w)
        PROVE  AdminInv'
    BY <1>2, <1>4, AdminsStay, SweepStep
    DEF AlterTable, CreateTable, CreateIndex, InsertSettings
  <1>5. ASSUME NEW w \in Workers, AddAdmin(w) PROVE AdminInv'
    <2>1. UNCHANGED <<indexes, origin>>
      BY <1>5 DEF AddAdmin
    <2>2. CASE UsersTable \in indexes
      <3>1. cut' = cut /\ admins' = IF admins > 0 THEN admins ELSE admins + 1
        BY <1>5, <2>2 DEF AddAdmin
      <3>2. admins \in Nat /\ (admins > 1 => origin = "empty" /\ UsersTable \in cut)
        BY DEF AdminInv, OneAdmin
      <3>3. admins' \in Nat /\ (admins' > 1 => origin = "empty" /\ UsersTable \in cut)
        BY <3>1, <3>2
      <3> QED BY <2>1, <3>1, <3>3 DEF AdminInv, OneAdmin
    <2>3. CASE UsersTable \notin indexes
      <3>1. UsersTable \in cut' /\ admins' = admins + 1 /\ origin = "empty"
        BY <1>5, <2>3 DEF AddAdmin, AdminInv
      <3>2. admins' \in Nat
        BY <3>1 DEF AdminInv
      <3> QED BY <2>1, <2>3, <3>1, <3>2 DEF AdminInv, OneAdmin
    <2> QED BY <2>2, <2>3
  <1>6. ASSUME NEW s \in Saves, Handle(s) PROVE AdminInv'
    BY <1>6, AdminsStay DEF Handle
  <1>7. CASE Restart
    BY <1>7, AdminsStay DEF Restart
  <1>8. ASSUME NEW w \in Workers, DeleteServer(w) PROVE AdminInv'
    BY <1>8, DeleteStep, AdminsStay
  <1> QED BY <1>1, <1>3, <1>4, <1>5, <1>6, <1>7, <1>8 DEF Next, StartupStep

(* There are two administrators only on a new database, and only if one    *)
(* was added before the index of the users table was there, whatever the   *)
(* number of workers.                                                      *)
THEOREM TwoAdminsExplained == Spec => []OneAdmin
  <1>1. Init => AdminInv
    BY TablesAssumption DEF Init, AdminInv, OneAdmin
  <1>2. AdminInv /\ [Next]_vars => AdminInv'
    BY NextAdmin
  <1>3. AdminInv => OneAdmin
    BY DEF AdminInv
  <1> QED BY <1>1, <1>2, <1>3, PTL DEF Spec

-----------------------------------------------------------------------------
(* A start alone.  Two workers that are starting have met, so that nothing *)
(* a lone one has found missing is created by another before it does so.   *)
Undone(p, i, T, x) ==
    /\ p = "alter" => ~(x \subseteq columns[Order[i]])
    /\ p \in {"create", "index"} => T \intersect tables = {}
    /\ p = "index" => ~(x \subseteq indexes) /\ (UsersTable \in x => admins = 0)
    /\ p = "insert" => row = {}

Found ==
    /\ indexes \subseteq tables
    /\ admins # 0 => UsersTable \in tables
    /\ row = {} => /\ \A s \in Saves : stage[s] = "new"
                   /\ \A w \in Workers : copy[w] = {}
    /\ \A w \in Workers : pc[w] = "index" => item[w] \subseteq tables

Together ==
    \A v, w \in Workers : v # w /\ pc[v] \in Starting /\ pc[w] \in Starting => v \in met

AloneInv ==
    /\ Found
    /\ Together
    /\ LoneStartSucceeds
    /\ \A w \in Workers \ met : Undone(pc[w], at[w], todo[w], item[w])

(* A step of one worker that starts.                                       *)
LEMMA StarterStep ==
  ASSUME AloneInv, NEW w \in Workers, pc[w] \in Starting, OnlyWorker(w), met' = met, Found',
         disturbed \ {w} \subseteq disturbed',
         pc'[w] = "failed" => w \in met \union disturbed',
         w \notin met => Undone(pc[w], at[w], todo[w], item[w])'
  PROVE  AloneInv'
  <1>1. Together'
    BY DEF AloneInv, Together, OnlyWorker
  <1>2. ASSUME NEW v \in Workers \ met, v # w
        PROVE  Undone(pc[v], at[v], todo[v], item[v])'
    <2>1. pc[v] \notin Starting
      BY <1>2 DEF AloneInv, Together
    <2>2. pc'[v] \notin {"alter", "create", "index", "insert"}
      BY <1>2, <2>1 DEF OnlyWorker, Starting
    <2> QED BY <2>2 DEF Undone
  <1>3. LoneStartSucceeds'
    BY DEF AloneInv, LoneStartSucceeds, OnlyWorker
  <1> QED BY <1>1, <1>2, <1>3 DEF AloneInv

(* A step beside the starts.                                               *)
LEMMA BesideStep ==
  ASSUME AloneInv, UNCHANGED <<tables, columns, indexes, admins, met>>, Found',
         row = {} => row' = {}, disturbed \subseteq disturbed',
         \A v \in Workers :
            \/ pc'[v] = pc[v] /\ at'[v] = at[v] /\ todo'[v] = todo[v] /\ item'[v] = item[v]
            \/ pc'[v] = "down"
  PROVE  AloneInv'
  <1>1. \A v \in Workers : pc'[v] \in Starting => pc[v] \in Starting
    BY DEF Starting
  <1>2. Together'
    BY <1>1 DEF AloneInv, Together
  <1>3. ASSUME NEW v \in Workers \ met
        PROVE  Undone(pc[v], at[v], todo[v], item[v])'
    BY DEF AloneInv, Undone
  <1>4. LoneStartSucceeds'
    BY DEF AloneInv, LoneStartSucceeds
  <1> QED BY <1>2, <1>3, <1>4 DEF AloneInv

LEMMA RaiseAlone ==
  ASSUME AloneInv, Shape, NEW w \in Workers, w \in met \union disturbed,
         pc[w] \in Starting, Raise(w)
  PROVE  AloneInv'
  <1>1. OnlyWorker(w) /\ pc'[w] = "failed"
    BY LocalChange DEF Raise, GoTo, Clear, Shape
  <1>2. Found' /\ UNCHANGED <<met, disturbed>>
    BY <1>1
    DEF AloneInv, Found, Raise, settingsVars, schemaVars, historyVars, registryVars, OnlyWorker
  <1>3. Undone(pc[w], at[w], todo[w], item[w])'
    BY <1>1 DEF Undone
  <1> QED BY <1>1, <1>2, <1>3, StarterStep

LEMMA BootAlone ==
  ASSUME AloneInv, Shape, NEW w \in Workers, Boot(w)
  PROVE  AloneInv'
  <1>1. /\ UNCHANGED <<tables, columns, indexes, admins, row, stage, copy>>
        /\ pc[w] = "down"
    BY DEF Boot, settingsVars, schemaVars
  <1>2. OnlyWorker(w) /\ pc'[w] = "migrate"
    BY LocalChange DEF Boot, GoTo, Shape
  <1>3. Found'
    BY <1>1, <1>2 DEF AloneInv, Found, OnlyWorker
  <1> DEFINE others == {v \in Workers \ {w} : pc[v] \in Starting}
  <1>4. met' = IF others = {} THEN met \ {w} ELSE met \union {w} \union others
    BY DEF Boot
  <1>5. ASSUME NEW v \in Workers \ met'
        PROVE  Undone(pc[v], at[v], todo[v], item[v])'
    <2>1. CASE v = w
      BY <1>2, <2>1 DEF Undone
    <2>2. CASE v # w
      <3>1. v \notin met
        BY <1>4, <1>5, <2>2
      <3>2. Undone(pc[v], at[v], todo[v], item[v])
        BY <3>1 DEF AloneInv
      <3> QED BY <1>1, <1>2, <2>2, <3>2 DEF Undone, OnlyWorker
    <2> QED BY <2>1, <2>2
  <1>6. Together'
    <2> SUFFICES ASSUME NEW v \in Workers, NEW u \in Workers, v # u,
                        pc'[v] \in Starting, pc'[u] \in Starting
                 PROVE  v \in met'
      BY DEF Together
    <2>1. v \in others \/ u \in others
      BY <1>2 DEF OnlyWorker
    <2>2. v = w \/ v \in others
      BY <1>2 DEF OnlyWorker
    <2> QED BY <1>4, <2>1, <2>2
  <1>7. LoneStartSucceeds'
    <2> SUFFICES ASSUME NEW v \in Workers, pc'[v] = "failed"
                 PROVE  v \in met' \union disturbed'
      BY DEF LoneStartSucceeds
    <2>1. v # w /\ pc[v] = "failed"
      BY <1>2 DEF OnlyWorker
    <2>2. disturbed' = disturbed \ {w}
      BY DEF Boot
    <2> QED BY <1>4, <2>1, <2>2 DEF AloneInv, LoneStartSucceeds
  <1> QED BY <1>3, <1>5, <1>6, <1>7 DEF AloneInv

LEMMA MigrateAlone ==
  ASSUME AloneInv, Inv, NEW w \in Workers,
         MigrateTable(w) \/ CheckColumn(w) \/ AlterTable(w)
  PROVE  AloneInv'
  <1>1. pc[w] \in Starting /\ Shape
    BY DEF Inv, MigrateTable, CheckColumn, AlterTable, Starting
  <1>2. CASE MigrateTable(w)
    <2>1. /\ UNCHANGED <<tables, columns, indexes, admins, row, stage, copy, met, disturbed>>
          /\ pc'[w] \in {"migrate", "columns", "settings"}
      BY <1>2
      DEF MigrateTable, GoTo, settingsVars, schemaVars, historyVars, registryVars, Inv, Shape
    <2>2. OnlyWorker(w)
      BY <1>1, <1>2 DEF MigrateTable, GoTo, OnlyWorker, Shape
    <2>3. Found'
      BY <2>1, <2>2 DEF AloneInv, Found, OnlyWorker
    <2> QED BY <1>1, <2>1, <2>2, <2>3, StarterStep DEF Undone
  <1>3. CASE CheckColumn(w)
    <2>1. /\ UNCHANGED <<tables, columns, indexes, admins, row, stage, copy, met, disturbed>>
      BY <1>3 DEF CheckColumn, settingsVars, schemaVars, historyVars, registryVars
    <2>2. PICK c \in todo[w] :
            /\ todo' = [todo EXCEPT ![w] = @ \ {c}]
            /\ IF c \notin columns[Order[at[w]]]
               THEN /\ item' = [item EXCEPT ![w] = {c}]
                    /\ GoTo(w, "alter")
                    /\ UNCHANGED at
               ELSE /\ NextColumn(w, todo'[w])
                    /\ UNCHANGED item
      BY <1>3 DEF CheckColumn
    <2>3. UNCHANGED seen
      BY <1>3 DEF CheckColumn
    <2>4. OnlyWorker(w)
      BY <1>1, <2>2, <2>3 DEF GoTo, NextColumn, OnlyWorker, Shape
    <2>5. \/ /\ pc'[w] = "alter" /\ at'[w] = at[w] /\ item'[w] = {c}
             /\ c \notin columns[Order[at[w]]]
          \/ pc'[w] \in {"migrate", "columns"}
      BY <1>1, <2>2 DEF GoTo, NextColumn, Shape
    <2>6. Found'
      BY <2>1, <2>4, <2>5 DEF AloneInv, Found, OnlyWorker
    <2>7. Undone(pc[w], at[w], todo[w], item[w])'
      BY <2>1, <2>5 DEF Undone
    <2>8. pc'[w] # "failed"
      BY <2>5
    <2> QED BY <1>1, <2>1, <2>4, <2>6, <2>7, <2>8, StarterStep
  <1>4. CASE AlterTable(w)
    <2>1. CASE item[w] \subseteq columns[Order[at[w]]]
      <3>1. Raise(w) /\ pc[w] = "alter"
        BY <1>4, <2>1 DEF AlterTable
      <3>2. w \in met
        BY <2>1, <3>1 DEF AloneInv, Undone
      <3> QED BY <1>1, <3>1, <3>2, RaiseAlone
    <2>2. CASE ~(item[w] \subseteq columns[Order[at[w]]])
      <3>1. /\ UNCHANGED <<tables, indexes, admins, row, stage, copy, met, disturbed, todo,
                         seen>>
            /\ item' = [item EXCEPT ![w] = {}]
            /\ NextColumn(w, todo[w])
        BY <1>4, <2>2 DEF AlterTable, settingsVars, historyVars, registryVars
      <3>2. OnlyWorker(w) /\ pc'[w] \in {"migrate", "columns"}
        BY <1>1, <3>1 DEF GoTo, NextColumn, OnlyWorker, Shape
      <3>3. Found'
        BY <3>1, <3>2 DEF AloneInv, Found, OnlyWorker
      <3>4. Undone(pc[w], at[w], todo[w], item[w])'
        BY <3>2 DEF Undone
      <3> QED BY <1>1, <3>1, <3>2, <3>3, <3>4, StarterStep
    <2> QED BY <2>1, <2>2
  <1> QED BY <1>2, <1>3, <1>4

(* A step at which nothing is created but the row.                         *)
LEMMA RowStep ==
  ASSUME AloneInv, Shape, NEW w \in Workers, pc[w] \in Starting,
         UNCHANGED <<tables, met, item, at, todo, stage>>, disturbed \ {w} \subseteq disturbed',
         UNCHANGED seen \/ \E x : seen' = [seen EXCEPT ![w] = x],
         NEW to, pc' = [pc EXCEPT ![w] = to],
         to \notin {"failed", "alter", "create", "index"},
         to = "insert" => row' = {},
         indexes' \subseteq tables,
         admins' # 0 => UsersTable \in tables,
         row' = {} => row = {} /\ copy' = copy
  PROVE  AloneInv'
  <1>1. OnlyWorker(w) /\ pc'[w] = to
    BY LocalChange DEF Shape
  <1>2. \A v \in Workers : pc'[v] = "index" => pc[v] = "index"
    BY <1>1 DEF OnlyWorker
  <1>3. Found'
    BY <1>2 DEF AloneInv, Found
  <1>4. Undone(pc[w], at[w], todo[w], item[w])'
    BY <1>1 DEF Undone
  <1> QED BY <1>1, <1>3, <1>4, StarterStep

LEMMA RowAlone ==
  ASSUME AloneInv, Inv, NEW w \in Workers,
         \/ ReadSettings(w) \/ RewriteSettings(w) \/ CreateMissingIndexes(w)
         \/ LoadSettings(w) \/ InsertSettings(w) \/ FindAdmin(w) \/ AddAdmin(w)
         \/ Sweep(w)
  PROVE  AloneInv'
  <1> USE DEF settingsVars, schemaVars, localVars, historyVars, registryVars
  <1>1. Shape /\ pc[w] \in Starting
    BY DEF Inv, ReadSettings, RewriteSettings, CreateMissingIndexes, LoadSettings,
           InsertSettings, FindAdmin, AddAdmin, Sweep, Starting
  <1>2. indexes \subseteq tables /\ (admins # 0 => UsersTable \in tables)
    BY DEF AloneInv, Found
  <1>3. CASE ReadSettings(w)
    <2>1. PICK to \in {"indexes", "rewrite"} : pc' = [pc EXCEPT ![w] = to]
      BY <1>3 DEF ReadSettings, GoTo
    <2>2. /\ UNCHANGED <<tables, indexes, admins, row, copy, met, disturbed, item, at, todo,
                         stage>>
          /\ \E x : seen' = [seen EXCEPT ![w] = x]
      BY <1>3 DEF ReadSettings
    <2> QED BY <1>1, <1>2, <2>1, <2>2, RowStep
  <1>4. CASE RewriteSettings(w)
    <2>1. /\ row' # {} /\ pc' = [pc EXCEPT ![w] = "indexes"]
          /\ UNCHANGED <<tables, indexes, admins, met, disturbed, item, at, todo, stage>>
          /\ seen' = [seen EXCEPT ![w] = {}]
      BY <1>4 DEF RewriteSettings, GoTo
    <2> QED BY <1>1, <1>2, <2>1, RowStep
  <1>5. CASE CreateMissingIndexes(w)
    <2>1. /\ pc' = [pc EXCEPT ![w] = "check"] /\ indexes' \subseteq tables
          /\ UNCHANGED <<tables, admins, row, copy, met, disturbed, item, at, todo, stage, seen>>
      BY <1>2, <1>5 DEF CreateMissingIndexes, GoTo
    <2> QED BY <1>1, <1>2, <2>1, RowStep
  <1>6. CASE LoadSettings(w)
    <2>1. PICK to \in {"insert", "admin"} :
            /\ pc' = [pc EXCEPT ![w] = to]
            /\ to = "insert" => row' = {}
            /\ row = {} => copy' = copy
      BY <1>6 DEF LoadSettings, GoTo
    <2>2. UNCHANGED <<tables, indexes, admins, row, met, disturbed, item, at, todo, stage,
                    seen>>
      BY <1>6 DEF LoadSettings
    <2> QED BY <1>1, <1>2, <2>1, <2>2, RowStep
  <1>7. CASE InsertSettings(w)
    <2>1. CASE row # {}
      <3>1. Raise(w) /\ pc[w] = "insert"
        BY <1>7, <2>1 DEF InsertSettings
      <3>2. w \in met
        BY <2>1, <3>1 DEF AloneInv, Undone
      <3> QED BY <1>1, <3>1, <3>2, RaiseAlone
    <2>2. CASE row = {}
      <3>1. /\ row' # {} /\ pc' = [pc EXCEPT ![w] = "admin"]
            /\ UNCHANGED <<tables, indexes, admins, met, disturbed, item, at, todo, stage, seen>>
        BY <1>7, <2>2 DEF InsertSettings, GoTo
      <3> QED BY <1>1, <1>2, <3>1, RowStep
    <2> QED BY <2>1, <2>2
  <1>8. CASE FindAdmin(w)
    <2>1. PICK to \in {"add admin", "sweep"} : pc' = [pc EXCEPT ![w] = to]
      BY <1>8 DEF FindAdmin, GoTo
    <2>2. UNCHANGED <<tables, indexes, admins, row, copy, met, disturbed, item, at, todo, stage,
                    seen>>
      BY <1>8 DEF FindAdmin
    <2> QED BY <1>1, <1>2, <2>1, <2>2, RowStep
  <1>9. CASE AddAdmin(w)
    <2>1. UsersTable \in tables
      BY <1>9, TablesAssumption
      DEF Inv, Progress, AddAdmin, AfterTables, Serving
    <2>2. /\ pc' = [pc EXCEPT ![w] = "sweep"]
          /\ UNCHANGED <<tables, indexes, row, copy, met, disturbed, item, at, todo, stage, seen>>
      BY <1>9 DEF AddAdmin, GoTo
    <2> QED BY <1>1, <1>2, <2>1, <2>2, RowStep
  <1>10. CASE Sweep(w)
    <2>1. CASE Raise(w) /\ w \in disturbed
      BY <1>1, <2>1, RaiseAlone
    <2>2. CASE GoTo(w, "serving") /\ disturbed' = disturbed \ {w}
               /\ UNCHANGED <<settingsVars, schemaVars, admins, master, localVars, crashes,
                              deletions, origin, lastSave, met, cut>>
      <3>1. /\ pc' = [pc EXCEPT ![w] = "serving"]
            /\ UNCHANGED <<tables, indexes, admins, row, copy, met, item, at, todo, stage, seen>>
        BY <2>2 DEF GoTo
      <3> QED BY <1>1, <1>2, <2>2, <3>1, RowStep
    <2> QED BY <1>10, <2>1, <2>2, SweepStep
  <1> QED BY <1>3, <1>4, <1>5, <1>6, <1>7, <1>8, <1>9, <1>10

LEMMA TablesAlone ==
  ASSUME AloneInv, Inv, NEW w \in Workers,
         CheckTables(w) \/ CreateTable(w) \/ CreateIndex(w)
  PROVE  AloneInv'
  <1> USE DEF settingsVars, schemaVars, localVars, historyVars, registryVars
  <1>1. Shape /\ pc[w] \in Starting
    BY DEF Inv, CheckTables, CreateTable, CreateIndex, Starting
  <1>2. CASE CheckTables(w)
    <2>1. /\ UNCHANGED <<tables, columns, indexes, admins, row, stage, copy, met, disturbed, at,
                         item, seen>>
          /\ todo' = [todo EXCEPT ![w] = MissingTables]
          /\ pc' = [pc EXCEPT ![w] = IF MissingTables = {} THEN "load" ELSE "create"]
      BY <1>2 DEF CheckTables, GoTo
    <2>2. /\ OnlyWorker(w) /\ pc'[w] \in {"load", "create"}
          /\ todo'[w] \intersect tables = {}
      BY <1>1, <2>1, LocalChange DEF Shape, MissingTables
    <2>3. Found'
      BY <2>1, <2>2 DEF AloneInv, Found, OnlyWorker
    <2>4. Undone(pc[w], at[w], todo[w], item[w])'
      BY <2>1, <2>2 DEF Undone
    <2> QED BY <1>1, <2>1, <2>2, <2>3, <2>4, StarterStep
  <1>3. CASE CreateTable(w)
    <2>1. PICK t \in todo[w] :
            IF t \in tables
            THEN Raise(w)
            ELSE /\ tables' = tables \union {t}
                 /\ todo' = [todo EXCEPT ![w] = @ \ {t}]
                 /\ IF t \in Indexed
                    THEN GoTo(w, "index") /\ item' = [item EXCEPT ![w] = {t}]
                    ELSE NextTable(w, todo'[w]) /\ UNCHANGED item
                 /\ UNCHANGED <<settingsVars, indexes, admins, master, at, seen, historyVars>>
      BY <1>3 DEF CreateTable
    <2>2. pc[w] = "create" /\ (w \notin met => todo[w] \intersect tables = {})
      BY <1>3 DEF CreateTable, AloneInv, Undone
    <2>3. CASE t \in tables
      <3>1. w \in met
        BY <2>2, <2>3
      <3> QED BY <1>1, <2>1, <2>3, <3>1, RaiseAlone
    <2>4. CASE t \notin tables
      <3>1. /\ tables' = tables \union {t}
            /\ todo' = [todo EXCEPT ![w] = @ \ {t}]
            /\ UNCHANGED <<indexes, admins, row, stage, copy, met, disturbed, at, seen>>
        BY <2>1, <2>4
      <3>2. \/ GoTo(w, "index") /\ item' = [item EXCEPT ![w] = {t}]
            \/ NextTable(w, todo'[w]) /\ UNCHANGED item
        BY <2>1, <2>4
      <3>3. OnlyWorker(w) /\ todo'[w] = todo[w] \ {t}
        BY <1>1, <3>1, <3>2, LocalChange DEF GoTo, NextTable, Shape
      <3>4. \/ pc'[w] = "index" /\ item'[w] = {t}
            \/ pc'[w] \in {"load", "create"}
        BY <1>1, <3>2 DEF GoTo, NextTable, Shape
      <3>5. Found'
        BY <3>1, <3>3, <3>4 DEF AloneInv, Found, OnlyWorker
      <3>6. w \notin met => todo'[w] \intersect tables' = {}
        BY <2>2, <3>1, <3>3
      <3>7. t \notin indexes' /\ (t = UsersTable => admins' = 0)
        BY <2>4, <3>1 DEF AloneInv, Found
      <3>8. w \notin met => Undone(pc[w], at[w], todo[w], item[w])'
        BY <3>4, <3>6, <3>7 DEF Undone
      <3>9. pc'[w] # "failed"
        BY <3>4
      <3> QED BY <1>1, <3>1, <3>3, <3>5, <3>8, <3>9, StarterStep
    <2> QED BY <2>3, <2>4
  <1>4. CASE CreateIndex(w)
    <2>1. CASE item[w] \subseteq indexes \/ (UsersTable \in item[w] /\ admins > 1)
      <3>1. Raise(w) /\ pc[w] = "index"
        BY <1>4, <2>1 DEF CreateIndex
      <3>2. w \in met
        BY <2>1, <3>1 DEF AloneInv, Undone
      <3> QED BY <1>1, <3>1, <3>2, RaiseAlone
    <2>2. CASE ~(item[w] \subseteq indexes \/ (UsersTable \in item[w] /\ admins > 1))
      <3>1. /\ pc[w] = "index"
            /\ indexes' = indexes \union item[w]
            /\ item' = [item EXCEPT ![w] = {}]
            /\ NextTable(w, todo[w])
            /\ UNCHANGED <<tables, columns, admins, row, stage, copy, met, disturbed, at, todo,
                           seen>>
        BY <1>4, <2>2 DEF CreateIndex
      <3>2. OnlyWorker(w) /\ pc'[w] \in {"load", "create"}
        BY <1>1, <3>1, LocalChange DEF GoTo, NextTable, Shape
      <3>3. Found'
        BY <3>1, <3>2 DEF AloneInv, Found, OnlyWorker
      <3>4. w \notin met => Undone(pc[w], at[w], todo[w], item[w])'
        BY <3>1, <3>2 DEF AloneInv, Undone
      <3> QED BY <1>1, <3>1, <3>2, <3>3, <3>4, StarterStep
    <2> QED BY <2>1, <2>2
  <1> QED BY <1>2, <1>3, <1>4

(* Saves wait for a copy, and there is none before the row.                *)
LEMMA BesideAlone ==
  ASSUME AloneInv, Inv, RowsInv,
         \/ \E w \in Workers : Stop(w) \/ Crash(w) \/ Submit(w) \/ DeleteServer(w)
         \/ \E s \in Saves : Handle(s)
         \/ Restart
  PROVE  AloneInv'
  <1> USE DEF settingsVars, schemaVars, localVars, historyVars, registryVars
  <1>1. CASE \E w \in Workers : Stop(w) \/ Crash(w)
    <2>1. PICK w \in Workers : Stop(w) \/ Crash(w)
      BY <1>1
    <2>2. UNCHANGED <<tables, columns, indexes, admins, row, met, disturbed>> /\ Forget(w)
      BY <2>1 DEF Stop, Crash
    <2>3. OnlyWorker(w) /\ pc'[w] = "down"
      <3>1. CASE Stop(w)
        BY <3>1, LocalChange DEF Inv, Stop, GoTo, Shape
      <3>2. CASE Crash(w)
        BY <3>2, LocalChange DEF Inv, Crash, GoTo, Clear, Shape
      <3> QED BY <2>1, <3>1, <3>2
    <2>4. row = {} => /\ \A s \in Saves : stage'[s] = "new"
                      /\ \A v \in Workers : copy'[v] = {}
      BY <2>2 DEF AloneInv, Found, Forget, Interrupted, RowsInv, SettingsShape
    <2>5. Found'
      BY <2>2, <2>3, <2>4 DEF AloneInv, Found, OnlyWorker
    <2> QED BY <2>2, <2>3, <2>5, BesideStep DEF OnlyWorker
  <1>2. CASE \E w \in Workers : Submit(w)
    <2>1. /\ UNCHANGED <<tables, columns, indexes, admins, row, met, disturbed, pc, at, todo, item>>
          /\ \E w \in Workers : copy[w] # {}
      BY <1>2 DEF Submit, Open
    <2>2. row # {} /\ Found'
      BY <2>1 DEF AloneInv, Found
    <2> QED BY <2>1, <2>2, BesideStep
  <1>3. CASE \E s \in Saves : Handle(s)
    <2>1. PICK s \in Saves : Step(s)
      BY <1>3 DEF Handle
    <2>2. UNCHANGED <<tables, columns, indexes, admins, met, disturbed, pc, at, todo, item>>
      BY <1>3 DEF Handle
    <2>3. stage[s] # "new" /\ (row' = row \/ row' # {})
      BY <2>1 DEF Step, Refuse, WriteFiles, Fail, Commit, Publish
    <2>4. row # {} /\ row' # {}
      BY <2>3 DEF AloneInv, Found
    <2>5. Found'
      BY <2>2, <2>4 DEF AloneInv, Found
    <2> QED BY <2>2, <2>4, <2>5, BesideStep
  <1>4. CASE Restart
    <2>1. /\ UNCHANGED <<tables, columns, indexes, admins, row, stage, copy, met, disturbed>>
          /\ \A v \in Workers : pc'[v] = "down"
      BY <1>4 DEF Restart
    <2>2. Found'
      BY <2>1 DEF AloneInv, Found
    <2> QED BY <2>1, <2>2, BesideStep
  <1>5. ASSUME NEW w \in Workers, DeleteServer(w) PROVE AloneInv'
    <2>1. UNCHANGED <<tables, columns, indexes, admins, row, stage, copy, met, pc, at, todo, item>>
      BY <1>5, DeleteStep
    <2>2. disturbed \subseteq disturbed'
      BY <1>5 DEF DeleteServer
    <2>3. Found'
      BY <2>1 DEF AloneInv, Found
    <2> QED BY <2>1, <2>2, <2>3, BesideStep
  <1> QED BY <1>1, <1>2, <1>3, <1>4, <1>5

(* A lone worker creates what it has found missing, and whoever joins it   *)
(* is recorded as having met it.                                           *)
THEOREM NextAlone ==
  ASSUME AloneInv, Inv, RowsInv, [Next]_vars
  PROVE  AloneInv'
  <1>1. CASE UNCHANGED vars
    <2>1. UNCHANGED <<tables, columns, indexes, admins, row, stage, copy, met, disturbed, pc, at,
                      todo, item>>
      BY <1>1 DEF vars, settingsVars
    <2> QED BY <2>1, BesideStep DEF AloneInv, Found
  <1>2. ASSUME NEW w \in Workers, StartupStep(w) PROVE AloneInv'
    BY <1>2, BootAlone, MigrateAlone, RowAlone, TablesAlone DEF Inv, StartupStep
  <1> QED BY <1>1, <1>2, BesideAlone DEF Next

(* A worker fails to start only if another was starting at the same time,  *)
(* or a server was deleted during its sweep: whatever a dead one left half *)
(* done, a lone one completes.                                             *)
THEOREM LoneStart == Spec => []LoneStartSucceeds
  <1>1. Init => RowsInv /\ Inv /\ AloneInv
    <2>1. Init => AloneInv
      BY TablesAssumption
      DEF Init, AloneInv, Found, Together, Undone, LoneStartSucceeds, Starting, Tables
    <2> QED BY <2>1, InitRows, InitInv
  <1>2. RowsInv /\ Inv /\ AloneInv /\ [Next]_vars => RowsInv' /\ Inv' /\ AloneInv'
    BY NextRows, NextInv, NextAlone
  <1>3. AloneInv => LoneStartSucceeds
    BY DEF AloneInv
  <1> QED BY <1>1, <1>2, <1>3, PTL DEF Spec

-----------------------------------------------------------------------------
(* Types.  A row is replaced as a whole, never joined by another one, and  *)
(* a worker's copy of it likewise.                                         *)
Single(S) == \A x, y \in S : x = y

StageNames == {"new", "open", "files", "committed", "failed", "done"}

SettingsTyped ==
    /\ stage \in [Saves -> StageNames]
    /\ files \subseteq LogoFiles \union KeyFiles
    /\ Single(row)
    /\ \A w \in Workers : Single(copy[w])

LEMMA SingleCounts ==
  ASSUME NEW S, Single(S)
  PROVE  Cardinality(S) <= 1
  <1>1. CASE S = {}
    <2>1. Cardinality(S) = 0
      BY <1>1, FS_EmptySet
    <2> QED BY <2>1
  <1>2. CASE S # {}
    <2>1. PICK x \in S : TRUE
      BY <1>2
    <2>2. S = {x}
      BY <2>1 DEF Single
    <2>3. Cardinality({x}) = 1
      BY FS_Singleton
    <2> QED BY <2>2, <2>3
  <1> QED BY <1>1, <1>2

LEMMA SettingsTypedStays ==
  ASSUME SettingsTyped, UNCHANGED files, stage' \in [Saves -> StageNames],
         row' = row \/ \E r : row' = {r},
         \A w \in Workers : \/ copy'[w] = copy[w] \/ copy'[w] = {}
                            \/ copy'[w] = row \/ \E r : copy'[w] = {r}
  PROVE  SettingsTyped'
  BY DEF SettingsTyped, Single

LEMMA FormTyped ==
  ASSUME RowsInv, SettingsTyped, NEW s \in Saves, Step(s)
  PROVE  SettingsTyped'
  <1>1. ASSUME NEW to \in StageNames, stage' = [stage EXCEPT ![s] = to]
        PROVE  stage' \in [Saves -> StageNames]
    BY <1>1 DEF SettingsTyped
  <1>2. {"done", "files", "failed", "committed"} \subseteq StageNames
    BY DEF StageNames
  <1>3. CASE WriteFiles(s)
    <2>1. PICK f \in Forms : files' = (files \ Dropped(Base(s), f)) \union Uploaded(s, f)
      BY <1>3 DEF WriteFiles
    <2>2. Uploaded(s, f) \subseteq LogoFiles \union KeyFiles
      BY DEF Uploaded, LogoFiles, KeyFiles
    <2>3. UNCHANGED <<row, copy>> /\ stage' \in [Saves -> StageNames]
      BY <1>1, <1>2, <1>3 DEF WriteFiles
    <2> QED BY <2>1, <2>2, <2>3 DEF SettingsTyped
  <1>4. CASE Refuse(s) \/ Fail(s)
    <2>1. UNCHANGED <<row, copy, files>> /\ stage' \in [Saves -> StageNames]
      BY <1>1, <1>2, <1>4 DEF Refuse, End, Fail
    <2> QED BY <2>1, SettingsTypedStays
  <1>5. CASE Commit(s)
    <2>1. UNCHANGED <<copy, files>> /\ row' = {Result(s)} /\ stage' \in [Saves -> StageNames]
      BY <1>1, <1>2, <1>5 DEF Commit
    <2> QED BY <2>1, SettingsTypedStays
  <1>6. CASE Publish(s)
    <2>1. UNCHANGED <<row, files>> /\ stage' \in [Saves -> StageNames]
      BY <1>1, <1>2, <1>6 DEF Publish, End
    <2>2. \A w \in Workers : copy'[w] = copy[w] \/ copy'[w] = {Result(s)}
      BY <1>6 DEF Publish
    <2> QED BY <2>1, <2>2, SettingsTypedStays
  <1> QED BY <1>3, <1>4, <1>5, <1>6 DEF Step

LEMMA StartTyped ==
  ASSUME RowsInv, SettingsTyped, NEW w \in Workers,
         \/ ReadSettings(w) \/ RewriteSettings(w) \/ LoadSettings(w) \/ InsertSettings(w)
         \/ Stop(w) \/ Crash(w)
  PROVE  SettingsTyped'
  <1> USE DEF settingsVars
  <1>1. UNCHANGED files
    BY DEF ReadSettings, RewriteSettings, LoadSettings, InsertSettings, Raise, Stop, Crash
  <1>2. stage' \in [Saves -> StageNames]
    <2>1. Forget(w) => stage' \in [Saves -> StageNames]
      BY DEF Forget, Interrupted, SettingsTyped, StageNames
    <2>2. CASE UNCHANGED stage
      BY <2>2 DEF SettingsTyped
    <2> QED BY <2>1, <2>2 DEF ReadSettings, RewriteSettings, LoadSettings, InsertSettings,
                              Raise, Stop, Crash
  <1>3. row' = row \/ \E r : row' = {r}
    BY DEF ReadSettings, RewriteSettings, LoadSettings, InsertSettings, Raise, Stop, Crash
  <1>4. \A v \in Workers : \/ copy'[v] = copy[v] \/ copy'[v] = {}
                           \/ copy'[v] = row \/ \E r : copy'[v] = {r}
    <2>1. \A x : copy' = [copy EXCEPT ![w] = x] =>
             \A v \in Workers : copy'[v] = copy[v] \/ copy'[v] = x
      BY DEF RowsInv, SettingsShape
    <2> QED BY <2>1 DEF ReadSettings, RewriteSettings, LoadSettings, InsertSettings, Raise,
                        Stop, Crash, Forget
  <1> QED BY <1>1, <1>2, <1>3, <1>4, SettingsTypedStays

(* Saves and starts replace rows and copies, and never add a second one.   *)
THEOREM NextSettingsTyped ==
  ASSUME RowsInv, SettingsTyped, [Next]_vars
  PROVE  SettingsTyped'
  <1>1. ASSUME NEW w \in Workers, Submit(w) PROVE SettingsTyped'
    <2>1. PICK s \in Saves : Open(s, w)
      BY <1>1 DEF Submit
    <2>2. UNCHANGED <<row, copy, files>> /\ stage' \in [Saves -> StageNames]
      BY <2>1 DEF Open, SettingsTyped, StageNames
    <2> QED BY <2>2, SettingsTypedStays
  <1>2. ASSUME NEW s \in Saves, Handle(s) PROVE SettingsTyped'
    BY <1>2, FormTyped DEF Handle
  <1>3. CASE UNCHANGED settingsVars
    BY <1>3 DEF SettingsTyped, settingsVars
  <1> QED BY <1>1, <1>2, <1>3, StartTyped, OtherSteps

(* The schema: a table has no columns before it exists, and an index only  *)
(* where the models declare one; the worker that adds a column or an index *)
(* does so on a table that is there.                                       *)
OnTable(p, i, x) ==
    /\ p \in {"columns", "alter"} => Order[i] \in tables
    /\ p = "index" => x \subseteq Indexed \intersect tables

SchemaTyped ==
    /\ \A t \in Tables \ tables : columns[t] = {}
    /\ indexes \subseteq Indexed \intersect tables
    /\ \A w \in Workers : OnTable(pc[w], at[w], item[w])

LEMMA SchemaTypedStays ==
  ASSUME SchemaTyped, tables \subseteq tables',
         UNCHANGED columns,
         indexes' \subseteq Indexed \intersect tables,
         \A w \in Workers :
            \/ pc'[w] = pc[w] /\ at'[w] = at[w] /\ item'[w] = item[w]
            \/ pc'[w] \notin {"columns", "alter", "index"}
            \/ OnTable(pc[w], at[w], item[w])'
  PROVE  SchemaTyped'
  BY DEF SchemaTyped, OnTable

LEMMA RaiseSchema ==
  ASSUME Shape, SchemaTyped, NEW w \in Workers, Raise(w)
  PROVE  SchemaTyped'
  <1>1. UNCHANGED <<tables, columns, indexes>>
    BY DEF Raise, schemaVars
  <1>2. OnlyWorker(w) /\ pc'[w] = "failed"
    BY LocalChange DEF Raise, GoTo, Clear, Shape
  <1> QED BY <1>1, <1>2, SchemaTypedStays DEF OnlyWorker, SchemaTyped

LEMMA MigrateSchema ==
  ASSUME Inv, SchemaTyped, NEW w \in Workers,
         MigrateTable(w) \/ CheckColumn(w) \/ AlterTable(w)
  PROVE  SchemaTyped'
  <1> USE DEF schemaVars
  <1>1. Shape
    BY DEF Inv
  <1>2. CASE MigrateTable(w)
    <2>1. UNCHANGED <<tables, columns, indexes, item>>
      BY <1>2 DEF MigrateTable
    <2>2. \A v \in Workers \ {w} : pc'[v] = pc[v] /\ at'[v] = at[v]
      BY <1>1, <1>2 DEF MigrateTable, GoTo, Shape
    <2>3. CASE at[w] > Len(Order)
      <3>1. pc'[w] = "settings"
        BY <1>1, <1>2, <2>3 DEF MigrateTable, GoTo, Shape
      <3> QED BY <2>1, <2>2, <3>1, SchemaTypedStays DEF SchemaTyped
    <2>4. CASE ~(at[w] > Len(Order)) /\ MissingColumns(Order[at[w]]) = {}
      <3>1. pc'[w] = "migrate"
        BY <1>1, <1>2, <2>4 DEF MigrateTable, Shape
      <3> QED BY <2>1, <2>2, <3>1, SchemaTypedStays DEF SchemaTyped
    <2>5. CASE ~(at[w] > Len(Order)) /\ MissingColumns(Order[at[w]]) # {}
      <3>1. pc'[w] = "columns" /\ at'[w] = at[w]
        BY <1>1, <1>2, <2>5 DEF MigrateTable, GoTo, Shape
      <3>2. Order[at[w]] \in tables
        BY <2>5 DEF MissingColumns
      <3>3. OnTable(pc[w], at[w], item[w])'
        BY <2>1, <3>1, <3>2 DEF OnTable
      <3> QED BY <2>1, <2>2, <3>3, SchemaTypedStays DEF SchemaTyped
    <2> QED BY <2>3, <2>4, <2>5
  <1>3. ASSUME NEW rest, NextColumn(w, rest), UNCHANGED tables, pc[w] \in {"columns", "alter"}
        PROVE  /\ \A v \in Workers \ {w} : pc'[v] = pc[v] /\ at'[v] = at[v]
               /\ OnTable(pc[w], at[w], item[w])'
    <2>1. /\ \A v \in Workers \ {w} : pc'[v] = pc[v] /\ at'[v] = at[v]
          /\ pc'[w] = "migrate" \/ (pc'[w] = "columns" /\ at'[w] = at[w])
      BY <1>1, <1>3 DEF NextColumn, GoTo, Shape
    <2>2. Order[at[w]] \in tables
      BY <1>3 DEF SchemaTyped, OnTable
    <2> QED BY <1>3, <2>1, <2>2 DEF OnTable
  <1>4. CASE CheckColumn(w)
    <2>1. UNCHANGED <<tables, columns, indexes>> /\ pc[w] = "columns"
      BY <1>4 DEF CheckColumn
    <2>2. PICK c \in todo[w] :
            IF c \notin columns[Order[at[w]]]
            THEN /\ item' = [item EXCEPT ![w] = {c}]
                 /\ GoTo(w, "alter")
                 /\ UNCHANGED at
            ELSE /\ NextColumn(w, todo'[w])
                 /\ UNCHANGED item
      BY <1>4 DEF CheckColumn
    <2>3. CASE c \notin columns[Order[at[w]]]
      <3>1. /\ pc'[w] = "alter" /\ UNCHANGED at
            /\ \A v \in Workers \ {w} : pc'[v] = pc[v] /\ item'[v] = item[v]
        BY <1>1, <2>2, <2>3 DEF GoTo, Shape
      <3>2. Order[at[w]] \in tables
        BY <2>1 DEF SchemaTyped, OnTable
      <3>3. OnTable(pc[w], at[w], item[w])'
        BY <2>1, <3>1, <3>2 DEF OnTable
      <3> QED BY <2>1, <3>1, <3>3, SchemaTypedStays DEF SchemaTyped
    <2>4. CASE c \in columns[Order[at[w]]]
      BY <1>3, <2>1, <2>2, <2>4, SchemaTypedStays DEF SchemaTyped
    <2> QED BY <2>3, <2>4
  <1>5. CASE AlterTable(w)
    <2>1. CASE Raise(w)
      BY <1>1, <2>1, RaiseSchema
    <2>2. CASE /\ columns' = [columns EXCEPT ![Order[at[w]]] = @ \union item[w]]
               /\ item' = [item EXCEPT ![w] = {}]
               /\ NextColumn(w, todo[w])
               /\ UNCHANGED <<tables, indexes>>
      <3>1. pc[w] = "alter" /\ Order[at[w]] \in tables
        BY <1>5 DEF AlterTable, SchemaTyped, OnTable
      <3>2. \A t \in Tables \ tables : columns'[t] = columns[t]
        BY <2>2, <3>1 DEF Inv, Schema
      <3>3. \A v \in Workers \ {w} : pc'[v] = pc[v] /\ at'[v] = at[v] /\ item'[v] = item[v]
        BY <1>1, <1>3, <2>2, <3>1 DEF Shape
      <3>4. OnTable(pc[w], at[w], item[w])'
        BY <1>3, <2>2, <3>1
      <3>5. \A v \in Workers : OnTable(pc[v], at[v], item[v])'
        BY <2>2, <3>3, <3>4 DEF SchemaTyped, OnTable
      <3> QED BY <2>2, <3>2, <3>5 DEF SchemaTyped
    <2> QED BY <1>5, <2>1, <2>2 DEF AlterTable
  <1> QED BY <1>2, <1>4, <1>5

LEMMA CreateSchema ==
  ASSUME Inv, SchemaTyped, NEW w \in Workers,
         CreateMissingIndexes(w) \/ CreateTable(w) \/ CreateIndex(w)
  PROVE  SchemaTyped'
  <1> USE DEF schemaVars, localVars
  <1>1. Shape
    BY DEF Inv
  <1>2. CASE CreateMissingIndexes(w)
    <2>1. UNCHANGED <<tables, columns, at, item>>
      BY <1>2 DEF CreateMissingIndexes
    <2>2. indexes' \subseteq Indexed \intersect tables
      BY <1>2, TablesAssumption DEF CreateMissingIndexes, SchemaTyped
    <2>3. pc'[w] = "check" /\ \A v \in Workers \ {w} : pc'[v] = pc[v]
      BY <1>1, <1>2 DEF CreateMissingIndexes, GoTo, Shape
    <2> QED BY <2>1, <2>2, <2>3, SchemaTypedStays
  <1>3. CASE CreateTable(w)
    <2>1. PICK t \in todo[w] :
            IF t \in tables
            THEN Raise(w)
            ELSE /\ tables' = tables \union {t}
                 /\ columns' = [columns EXCEPT ![t] = Expected[t]]
                 /\ IF t \in Indexed
                    THEN GoTo(w, "index") /\ item' = [item EXCEPT ![w] = {t}]
                    ELSE NextTable(w, todo'[w]) /\ UNCHANGED item
                 /\ UNCHANGED <<indexes, at>>
      BY <1>3 DEF CreateTable
    <2>2. CASE t \in tables
      BY <1>1, <2>1, <2>2, RaiseSchema
    <2>3. CASE t \notin tables
      <3>1. \A u \in Tables \ tables' : columns'[u] = columns[u]
        BY <2>1, <2>3 DEF Inv, Schema
      <3>2. /\ \A v \in Workers \ {w} : pc'[v] = pc[v] /\ at'[v] = at[v] /\ item'[v] = item[v]
            /\ OnTable(pc[w], at[w], item[w])'
        <4>1. CASE t \in Indexed
          <5>1. /\ pc'[w] = "index" /\ item'[w] = {t} /\ UNCHANGED at
                /\ \A v \in Workers \ {w} : pc'[v] = pc[v] /\ item'[v] = item[v]
            BY <1>1, <2>1, <2>3, <4>1 DEF GoTo, Shape
          <5> QED BY <2>1, <2>3, <4>1, <5>1 DEF OnTable
        <4>2. CASE t \notin Indexed
          <5>1. /\ pc'[w] \in {"load", "create"} /\ UNCHANGED <<at, item>>
                /\ \A v \in Workers \ {w} : pc'[v] = pc[v]
            BY <1>1, <2>1, <2>3, <4>2 DEF NextTable, GoTo, Shape
          <5> QED BY <5>1 DEF OnTable
        <4> QED BY <4>1, <4>2
      <3>3. tables \subseteq tables' /\ indexes' = indexes
        BY <2>1, <2>3
      <3>4. \A v \in Workers : OnTable(pc[v], at[v], item[v])'
        BY <3>2, <3>3 DEF SchemaTyped, OnTable
      <3> QED BY <3>1, <3>3, <3>4 DEF SchemaTyped
    <2> QED BY <2>2, <2>3
  <1>4. CASE CreateIndex(w)
    <2>1. CASE Raise(w)
      BY <1>1, <2>1, RaiseSchema
    <2>2. CASE /\ indexes' = indexes \union item[w]
               /\ item' = [item EXCEPT ![w] = {}]
               /\ NextTable(w, todo[w])
               /\ UNCHANGED <<tables, columns, at>>
      <3>1. item[w] \subseteq Indexed \intersect tables
        BY <1>4 DEF CreateIndex, SchemaTyped, OnTable
      <3>2. /\ pc'[w] \in {"load", "create"}
            /\ \A v \in Workers \ {w} : pc'[v] = pc[v] /\ item'[v] = item[v]
        BY <1>1, <2>2 DEF NextTable, GoTo, Shape
      <3>3. indexes' \subseteq Indexed \intersect tables
        BY <2>2, <3>1 DEF SchemaTyped
      <3> QED BY <2>2, <3>2, <3>3, SchemaTypedStays
    <2> QED BY <1>4, <2>1, <2>2 DEF CreateIndex
  <1> QED BY <1>2, <1>3, <1>4

(* Any other step of one worker takes it to no place that needs a table.   *)
LEMMA OtherSchema ==
  ASSUME Shape, SchemaTyped, NEW w \in Workers,
         \/ Boot(w) \/ ReadSettings(w) \/ RewriteSettings(w) \/ CheckTables(w)
         \/ LoadSettings(w) \/ InsertSettings(w) \/ FindAdmin(w) \/ AddAdmin(w)
         \/ Sweep(w) \/ Stop(w) \/ Crash(w)
  PROVE  SchemaTyped'
  <1> USE DEF schemaVars, localVars
  <1>1. CASE Raise(w)
    BY <1>1, RaiseSchema
  <1>2. CASE ~Raise(w)
    <2>1. UNCHANGED <<tables, columns, indexes>>
      BY <1>2 DEF Boot, ReadSettings, RewriteSettings, CheckTables, LoadSettings,
                  InsertSettings, FindAdmin, AddAdmin, Sweep, Stop, Crash
    <2>2. PICK to \in {"migrate", "indexes", "rewrite", "load", "create", "insert", "admin",
                       "add admin", "sweep", "serving", "down"} : GoTo(w, to)
      BY <1>2 DEF Boot, ReadSettings, RewriteSettings, CheckTables, LoadSettings,
                  InsertSettings, FindAdmin, AddAdmin, Sweep, Stop, Crash
    <2>3. pc'[w] = to /\ \A v \in Workers \ {w} : pc'[v] = pc[v]
      BY <2>2 DEF GoTo, Shape
    <2>4. \A v \in Workers \ {w} : at'[v] = at[v] /\ item'[v] = item[v]
      BY <1>2 DEF Boot, ReadSettings, RewriteSettings, CheckTables, LoadSettings,
                  InsertSettings, FindAdmin, AddAdmin, Sweep, Stop, Crash, Clear, Shape
    <2> QED BY <2>1, <2>3, <2>4, SchemaTypedStays DEF SchemaTyped
  <1> QED BY <1>1, <1>2

(* Columns and indexes are only created on tables that are there.          *)
THEOREM NextSchemaTyped ==
  ASSUME Inv, SchemaTyped, [Next]_vars
  PROVE  SchemaTyped'
  <1> USE DEF schemaVars, localVars
  <1>1. CASE UNCHANGED <<tables, columns, indexes, pc, at, item>>
    BY <1>1, SchemaTypedStays DEF SchemaTyped
  <1>2. CASE UNCHANGED vars
    BY <1>1, <1>2 DEF vars
  <1>3. ASSUME NEW w \in Workers, StartupStep(w) \/ Stop(w) \/ Crash(w)
        PROVE  SchemaTyped'
    BY <1>3, MigrateSchema, CreateSchema, OtherSchema DEF StartupStep, Inv
  <1>4. ASSUME NEW w \in Workers, Submit(w) PROVE SchemaTyped'
    BY <1>1, <1>4 DEF Submit
  <1>5. ASSUME NEW s \in Saves, Handle(s) PROVE SchemaTyped'
    BY <1>1, <1>5 DEF Handle
  <1>6. CASE Restart
    <2>1. UNCHANGED <<tables, columns, indexes>> /\ \A w \in Workers : pc'[w] = "down"
      BY <1>6 DEF Restart
    <2> QED BY <2>1, SchemaTypedStays DEF SchemaTyped
  <1>7. ASSUME NEW w \in Workers, DeleteServer(w) PROVE SchemaTyped'
    BY <1>1, <1>7, DeleteStep
  <1> QED BY <1>2, <1>3, <1>4, <1>5, <1>6, <1>7 DEF Next

(* Only the deletion of a server disturbs a sweep.                         *)
LEMMA RegistryStep ==
  ASSUME [Next]_vars
  PROVE  \/ deletions' = deletions /\ disturbed' \subseteq disturbed
         \/ /\ deletions' = deletions + 1
            /\ disturbed' = disturbed \union {v \in Workers : pc[v] = "sweep"}
  <1> DEFINE Quiet == deletions' = deletions /\ disturbed' \subseteq disturbed
  <1> USE DEF historyVars, registryVars
  <1>1. CASE UNCHANGED vars
    BY <1>1 DEF vars
  <1>2. ASSUME NEW w \in Workers, Raise(w) PROVE Quiet
    BY <1>2 DEF Raise
  <1>3. ASSUME NEW w \in Workers, StartupStep(w) PROVE Quiet
    <2>1. CASE Boot(w) \/ MigrateTable(w) \/ CheckColumn(w) \/ ReadSettings(w)
               \/ RewriteSettings(w) \/ CreateMissingIndexes(w) \/ CheckTables(w)
               \/ LoadSettings(w) \/ FindAdmin(w) \/ AddAdmin(w)
      BY <2>1 DEF Boot, MigrateTable, CheckColumn, ReadSettings, RewriteSettings,
         CreateMissingIndexes, CheckTables, LoadSettings, FindAdmin, AddAdmin
    <2>2. CASE AlterTable(w) \/ CreateTable(w) \/ CreateIndex(w) \/ InsertSettings(w)
      BY <1>2, <2>2 DEF AlterTable, CreateTable, CreateIndex, InsertSettings
    <2>3. CASE Sweep(w)
      BY <1>2, <2>3, SweepStep
    <2> QED BY <1>3, <2>1, <2>2, <2>3 DEF StartupStep
  <1>4. ASSUME NEW w \in Workers, Stop(w) \/ Crash(w) \/ Submit(w) PROVE Quiet
    BY <1>4 DEF Stop, Crash, Submit
  <1>5. ASSUME NEW s \in Saves, Handle(s) PROVE Quiet
    BY <1>5 DEF Handle
  <1>6. CASE Restart
    BY <1>6 DEF Restart
  <1> HIDE DEF Quiet
  <1>7. CASE \E w \in Workers : DeleteServer(w)
    BY <1>7 DEF DeleteServer
  <1>8. CASE Quiet
    BY <1>8 DEF Quiet
  <1> QED BY <1>1, <1>3, <1>4, <1>5, <1>6, <1>7, <1>8 DEF Next, Quiet

(* The processes.                                                          *)
ProcessTyped ==
    /\ deletions \in Nat
    /\ disturbed \subseteq Workers
    /\ master \in {"running", "halting"}
    /\ pc \in [Workers -> Starting \union {"down", "failed", "serving"}]
    /\ at \in [Workers -> 0 .. Len(Order) + 1]

(* A worker is always at a place of its lifespan and at a position in the  *)
(* list of tables.                                                         *)
THEOREM NextProcessTyped ==
  ASSUME Inv, ProcessTyped, [Next]_vars
  PROVE  ProcessTyped'
  <1> USE DEF localVars
  <1> DEFINE Places == Starting \union {"down", "failed", "serving"}
             Positions == 0 .. Len(Order) + 1
  <1>1. master' \in {"running", "halting"}
    <2>1. UNCHANGED master \/ master' \in {"running", "halting"}
      <3>1. CASE UNCHANGED vars
        BY <3>1 DEF vars
      <3>2. ASSUME NEW w \in Workers, StartupStep(w) PROVE UNCHANGED master \/ master' = "halting"
        BY <3>2 DEF StartupStep, Boot, MigrateTable, CheckColumn, AlterTable, ReadSettings,
           RewriteSettings, CreateMissingIndexes, CheckTables, CreateTable, CreateIndex,
           LoadSettings, InsertSettings, FindAdmin, AddAdmin, Sweep, Raise
      <3>3. ASSUME NEW w \in Workers, Stop(w) \/ Crash(w) \/ Submit(w) \/ DeleteServer(w)
            PROVE  UNCHANGED master
        BY <3>3 DEF Stop, Crash, Submit, DeleteServer
      <3>4. ASSUME NEW s \in Saves, Handle(s) PROVE UNCHANGED master
        BY <3>4 DEF Handle
      <3>5. Restart => master' = "running"
        BY DEF Restart
      <3> QED BY <3>1, <3>2, <3>3, <3>4, <3>5 DEF Next
    <2> QED BY <2>1 DEF ProcessTyped
  <1>2. ASSUME NEW w \in Workers, NEW to \in Places, GoTo(w, to)
        PROVE  pc' \in [Workers -> Places]
    BY <1>2 DEF ProcessTyped, GoTo
  <1>3. ASSUME NEW w \in Workers, NEW i \in Positions, at' = [at EXCEPT ![w] = i]
        PROVE  at' \in [Workers -> Positions]
    BY <1>3 DEF ProcessTyped
  <1>4. 0 \in Positions /\ 1 \in Positions /\ \A i \in 1 .. Len(Order) : i + 1 \in Positions
    BY OrderTables
  <1>5. Starting \subseteq Places /\ {"down", "failed", "serving"} \subseteq Places
    OBVIOUS
  <1>6. pc \in [Workers -> Places] /\ at \in [Workers -> Positions]
    BY DEF ProcessTyped
  <1> HIDE DEF Places, Positions
  <1>7. UNCHANGED <<pc, at>> => pc' \in [Workers -> Places] /\ at' \in [Workers -> Positions]
    BY <1>6
  <1>8. ASSUME NEW w \in Workers, Raise(w)
        PROVE  pc' \in [Workers -> Places] /\ at' \in [Workers -> Positions]
    BY <1>2, <1>3, <1>4, <1>5, <1>8 DEF Raise, Clear
  <1>9. ASSUME NEW w \in Workers, NEW rest, NextColumn(w, rest), at[w] \in 1 .. Len(Order)
        PROVE  pc' \in [Workers -> Places] /\ at' \in [Workers -> Positions]
    <2>1. {"migrate", "columns"} \subseteq Places
      BY <1>5 DEF Starting
    <2>2. pc' \in [Workers -> Places]
      BY <1>2, <1>9, <2>1 DEF NextColumn
    <2>3. at[w] \in Positions /\ at[w] + 1 \in Positions
      BY <1>4, <1>6, <1>9
    <2>4. at' \in [Workers -> Positions]
      BY <1>3, <1>9, <2>3 DEF NextColumn
    <2> QED BY <2>2, <2>4
  <1>10. ASSUME NEW w \in Workers, MigrateTable(w) \/ CheckColumn(w) \/ AlterTable(w)
         PROVE  pc' \in [Workers -> Places] /\ at' \in [Workers -> Positions]
    <2>1. {"settings", "columns", "alter"} \subseteq Places
      BY <1>5 DEF Starting
    <2>2. CASE MigrateTable(w)
      <3>1. at[w] \in 1 .. Len(Order) + 1
        BY <2>2 DEF MigrateTable, Inv, Progress
      <3>2. CASE at[w] > Len(Order)
        BY <1>2, <1>3, <1>4, <2>1, <2>2, <3>2 DEF MigrateTable
      <3>3. CASE ~(at[w] > Len(Order))
        <4>1. at[w] \in 1 .. Len(Order)
          BY <3>1, <3>3, OrderTables
        <4>2. \/ at' = [at EXCEPT ![w] = @ + 1] /\ UNCHANGED pc
              \/ GoTo(w, "columns") /\ UNCHANGED at
          BY <2>2, <3>3 DEF MigrateTable
        <4> QED BY <1>2, <1>3, <1>4, <1>6, <2>1, <4>1, <4>2
      <3> QED BY <3>2, <3>3
    <2>3. CASE CheckColumn(w)
      <3>1. at[w] \in 1 .. Len(Order)
        BY <2>3 DEF CheckColumn, Inv, Progress
      <3>2. \/ GoTo(w, "alter") /\ UNCHANGED at
            \/ NextColumn(w, todo'[w])
        BY <2>3 DEF CheckColumn
      <3> QED BY <1>2, <1>6, <1>9, <2>1, <3>1, <3>2
    <2>4. CASE AlterTable(w)
      <3>1. at[w] \in 1 .. Len(Order)
        BY <2>4 DEF AlterTable, Inv, Progress
      <3>2. Raise(w) \/ NextColumn(w, todo[w])
        BY <2>4 DEF AlterTable
      <3> QED BY <1>8, <1>9, <3>1, <3>2
    <2> QED BY <1>10, <2>2, <2>3, <2>4
  <1>11. ASSUME NEW w \in Workers,
                \/ Boot(w) \/ ReadSettings(w) \/ RewriteSettings(w) \/ CreateMissingIndexes(w)
                \/ CheckTables(w) \/ CreateTable(w) \/ CreateIndex(w) \/ LoadSettings(w)
                \/ InsertSettings(w) \/ FindAdmin(w) \/ AddAdmin(w) \/ Sweep(w)
                \/ Stop(w) \/ Crash(w)
         PROVE  pc' \in [Workers -> Places] /\ at' \in [Workers -> Positions]
    <2>1. CASE Raise(w)
      BY <1>8, <2>1
    <2>2. CASE ~Raise(w)
      <3>1. \E to \in {"migrate", "indexes", "rewrite", "check", "load", "create", "index",
                       "insert", "admin", "add admin", "sweep", "serving", "down"} : GoTo(w, to)
        BY <1>11, <2>2
        DEF Boot, ReadSettings, RewriteSettings, CreateMissingIndexes, CheckTables, CreateTable,
            CreateIndex, NextTable, LoadSettings, InsertSettings, FindAdmin, AddAdmin, Sweep,
            Stop, Crash
      <3>2. {"migrate", "indexes", "rewrite", "check", "load", "create", "index", "insert",
             "admin", "add admin", "sweep", "serving", "down"} \subseteq Places
        BY <1>5 DEF Starting
      <3>3. UNCHANGED at \/ \E i \in {0, 1} : at' = [at EXCEPT ![w] = i]
        BY <1>11, <2>2
        DEF Boot, ReadSettings, RewriteSettings, CreateMissingIndexes, CheckTables, CreateTable,
            CreateIndex, LoadSettings, InsertSettings, FindAdmin, AddAdmin, Sweep, Stop, Crash,
            Clear
      <3>4. pc' \in [Workers -> Places]
        BY <1>2, <3>1, <3>2
      <3>5. at' \in [Workers -> Positions]
        BY <1>3, <1>4, <1>6, <3>3
      <3> QED BY <3>4, <3>5
    <2> QED BY <2>1, <2>2
  <1>12. Restart => pc' \in [Workers -> Places] /\ at' \in [Workers -> Positions]
    <2>1. Restart => pc' = [w \in Workers |-> "down"] /\ UNCHANGED at
      BY DEF Restart
    <2> QED BY <1>5, <1>6, <2>1
  <1>13. pc' \in [Workers -> Places] /\ at' \in [Workers -> Positions]
    <2>1. ASSUME NEW w \in Workers, StartupStep(w)
          PROVE  pc' \in [Workers -> Places] /\ at' \in [Workers -> Positions]
      BY <1>10, <1>11, <2>1 DEF StartupStep
    <2>2. UNCHANGED vars \/ (\E w \in Workers : Submit(w) \/ DeleteServer(w))
             \/ (\E s \in Saves : Handle(s))
             => UNCHANGED <<pc, at>>
      BY DEF vars, Submit, DeleteServer, Handle
    <2> QED BY <1>7, <1>11, <1>12, <2>1, <2>2 DEF Next
  <1>14. deletions' \in Nat /\ disturbed' \subseteq Workers
    BY RegistryStep DEF ProcessTyped
  <1> QED BY <1>1, <1>13, <1>14 DEF ProcessTyped, Places, Positions

(* A worker adds the administrator when it found none: those that are      *)
(* about to add one all found none, so that there are never more of both   *)
(* together than there are workers, once there is one.                     *)
Adding == {w \in Workers : pc[w] = "add admin"}

AdminsTyped ==
    /\ admins \in Nat
    /\ admins > 0 => admins + Cardinality(Adding) <= Cardinality(Workers)

LEMMA AddingIsFinite ==
  ASSUME NEW S, S \subseteq Workers
  PROVE  /\ IsFiniteSet(S) /\ Cardinality(S) \in Nat
         /\ Cardinality(Workers) \in Nat /\ Cardinality(S) <= Cardinality(Workers)
  <1>1. IsFiniteSet(Workers)
    BY WorkersAssumption
  <1>2. IsFiniteSet(S) /\ Cardinality(S) <= Cardinality(Workers)
    BY <1>1, FS_Subset
  <1> QED BY <1>1, <1>2, FS_CardinalityType

LEMMA AdminsTypedStays ==
  ASSUME AdminsTyped, UNCHANGED admins, admins = 0 \/ Adding' \subseteq Adding
  PROVE  AdminsTyped'
  <1>1. Adding \subseteq Workers
    BY DEF Adding
  <1>2. CASE admins = 0
    BY <1>2 DEF AdminsTyped
  <1>3. CASE Adding' \subseteq Adding
    <2>1. IsFiniteSet(Adding) /\ Cardinality(Adding) \in Nat /\ Cardinality(Workers) \in Nat
      BY <1>1, AddingIsFinite
    <2>2. Cardinality(Adding') <= Cardinality(Adding) /\ Cardinality(Adding') \in Nat
      BY <1>3, <2>1, FS_Subset, FS_CardinalityType
    <2>3. admins > 0 => admins + Cardinality(Adding') <= Cardinality(Workers)
      BY <2>1, <2>2 DEF AdminsTyped
    <2> QED BY <2>3 DEF AdminsTyped
  <1> QED BY <1>2, <1>3

LEMMA AddAdminTyped ==
  ASSUME Shape, AdminsTyped, NEW w \in Workers, AddAdmin(w)
  PROVE  AdminsTyped'
  <1>1. w \in Adding /\ Adding \subseteq Workers /\ Adding' = Adding \ {w}
    BY DEF AddAdmin, GoTo, Shape, Adding
  <1>2. /\ IsFiniteSet(Adding) /\ Cardinality(Adding) \in Nat /\ Cardinality(Workers) \in Nat
        /\ Cardinality(Adding) <= Cardinality(Workers)
    BY <1>1, AddingIsFinite
  <1>3. Cardinality(Adding') = Cardinality(Adding) - 1
    BY <1>1, <1>2, FS_RemoveElement
  <1>4. admins' \in {admins, admins + 1}
    BY DEF AddAdmin
  <1>5. admins \in Nat /\ (admins > 0 => admins + Cardinality(Adding) <= Cardinality(Workers))
    BY DEF AdminsTyped
  <1>6. admins' \in Nat /\ admins' + Cardinality(Adding') <= Cardinality(Workers)
    BY <1>2, <1>3, <1>4, <1>5
  <1> QED BY <1>6 DEF AdminsTyped

(* Whoever finds no administrator adds one at most, so that workers bound  *)
(* the administrators.                                                     *)
THEOREM NextAdminsTyped ==
  ASSUME Inv, AdminsTyped, [Next]_vars
  PROVE  AdminsTyped'
  <1>1. CASE UNCHANGED <<admins, pc>>
    BY <1>1, AdminsTypedStays DEF Adding
  <1>2. ASSUME NEW w \in Workers, NEW to, to # "add admin", GoTo(w, to), UNCHANGED admins
        PROVE  AdminsTyped'
    <2>1. Adding' \subseteq Adding
      BY <1>2 DEF GoTo, Inv, Shape, Adding
    <2> QED BY <1>2, <2>1, AdminsTypedStays
  <1>3. ASSUME NEW w \in Workers, Raise(w)
        PROVE  AdminsTyped'
    BY <1>2, <1>3 DEF Raise
  <1>4. ASSUME NEW w \in Workers, FindAdmin(w)
        PROVE  AdminsTyped'
    <2>1. UNCHANGED admins /\ GoTo(w, IF admins = 0 THEN "add admin" ELSE "sweep")
      BY <1>4 DEF FindAdmin
    <2> QED BY <1>2, <2>1, AdminsTypedStays
  <1>5. ASSUME NEW w \in Workers,
               \/ Boot(w) \/ MigrateTable(w) \/ CheckColumn(w) \/ AlterTable(w)
               \/ ReadSettings(w) \/ RewriteSettings(w) \/ CreateMissingIndexes(w)
               \/ CheckTables(w) \/ CreateTable(w) \/ CreateIndex(w)
               \/ LoadSettings(w) \/ InsertSettings(w) \/ Sweep(w) \/ Stop(w) \/ Crash(w)
        PROVE  AdminsTyped'
    <2>1. CASE Raise(w)
      BY <1>3, <2>1
    <2>2. CASE ~Raise(w)
      <3>1. UNCHANGED admins
        BY <1>5, <2>2
        DEF Boot, MigrateTable, CheckColumn, AlterTable, ReadSettings, RewriteSettings,
            CreateMissingIndexes, CheckTables, CreateTable, CreateIndex, LoadSettings,
            InsertSettings, Sweep, Stop, Crash
      <3>2. UNCHANGED pc \/ \E to : to # "add admin" /\ GoTo(w, to)
        <4>1. {"migrate", "columns", "alter", "settings", "rewrite", "indexes", "check", "create",
               "index", "load", "insert", "admin", "serving", "down"}
                  \intersect {"add admin"} = {}
          OBVIOUS
        <4> QED BY <1>5, <2>2, <4>1
                DEF Boot, MigrateTable, CheckColumn, AlterTable, NextColumn, ReadSettings,
                    RewriteSettings, CreateMissingIndexes, CheckTables, CreateTable, CreateIndex,
                    NextTable, LoadSettings, InsertSettings, Sweep, Stop, Crash
      <3> QED BY <1>1, <1>2, <3>1, <3>2
    <2> QED BY <2>1, <2>2
  <1>6. CASE Restart
    <2>1. UNCHANGED admins /\ Adding' = {}
      BY <1>6 DEF Restart, Adding
    <2> QED BY <2>1, AdminsTypedStays
  <1>7. UNCHANGED vars \/ (\E w \in Workers : Submit(w) \/ DeleteServer(w))
           \/ (\E s \in Saves : Handle(s))
           => UNCHANGED <<admins, pc>>
    BY DEF vars, Submit, DeleteServer, Handle
  <1> QED BY <1>1, <1>4, <1>5, <1>6, <1>7, AddAdminTyped DEF Next, StartupStep, Inv

(* The first state has the types; an old database has its one              *)
(* administrator.                                                          *)
THEOREM InitTyped ==
  ASSUME Init
  PROVE  SettingsTyped /\ SchemaTyped /\ ProcessTyped /\ AdminsTyped
  <1>1. SettingsTyped
    BY DEF Init, SettingsTyped, StageNames, Single
  <1>2. SchemaTyped
    BY TablesAssumption DEF Init, SchemaTyped, OnTable
  <1>3. ProcessTyped
    BY OrderTables DEF Init, ProcessTyped
  <1>4. AdminsTyped
    <2>1. Adding = {}
      BY DEF Init, Adding
    <2>2. Cardinality(Adding) = 0
      BY <2>1, FS_EmptySet
    <2>3. PICK w \in Workers : TRUE
      BY WorkersAssumption
    <2>4. Cardinality({w}) = 1
      BY FS_Singleton
    <2>5. Cardinality(Workers) \in Nat /\ 1 <= Cardinality(Workers)
      BY <2>3, <2>4, AddingIsFinite
    <2>6. admins \in {0, 1}
      BY DEF Init
    <2> QED BY <2>2, <2>5, <2>6 DEF AdminsTyped
  <1> QED BY <1>1, <1>2, <1>3, <1>4

(* Every variable keeps its type, for any number of workers, tables, saves *)
(* and crashes: among the rest, never more than one settings row, no       *)
(* column or index without its table, and never more administrators than   *)
(* workers.                                                                *)
THEOREM TypeCorrect == Spec => []TypeOK
  <1> DEFINE Typed == SettingsTyped /\ SchemaTyped /\ ProcessTyped /\ AdminsTyped
  <1>1. Init => RowsInv /\ Inv /\ Typed
    BY InitRows, InitInv, InitTyped
  <1>2. RowsInv /\ Inv /\ Typed /\ [Next]_vars => RowsInv' /\ Inv' /\ Typed'
    BY NextRows, NextInv, NextSettingsTyped, NextSchemaTyped, NextProcessTyped, NextAdminsTyped
  <1>3. RowsInv /\ Inv /\ Typed => TypeOK
    <2> SUFFICES ASSUME RowsInv, Inv, Typed
                 PROVE  TypeOK
      OBVIOUS
    <2>1. /\ row \subseteq SettingsRows /\ Cardinality(row) <= 1
          /\ \A w \in Workers : copy[w] \subseteq SettingsRows /\ Cardinality(copy[w]) <= 1
      BY SingleCounts DEF RowsInv, SettingsTyped
    <2>2. admins \in 0 .. Cardinality(Workers)
      <3>1. Cardinality(Workers) \in Nat /\ Cardinality(Adding) \in Nat
        BY AddingIsFinite DEF Adding
      <3> QED BY <3>1 DEF AdminsTyped
    <2>3. \A t \in Tables : columns[t] \subseteq (IF t \in tables THEN Expected[t] ELSE {})
      BY DEF Inv, Schema, SchemaTyped
    <2> QED BY <2>1, <2>2, <2>3
            DEF TypeOK, Inv, Schema, SettingsTyped, StageNames, SchemaTyped, ProcessTyped
  <1> QED BY <1>1, <1>2, <1>3, PTL DEF Spec

-----------------------------------------------------------------------------
(* Termination.  Migrations look at every table, and twice at each column  *)
(* it lacks; create_all has two steps for each table.  Left is a bound on  *)
(* the steps of a start still to come, at p with i and T as in Progress.   *)
PerTable == 2 * Cardinality(Columns) + 1
AfterTableNo(i) == (Len(Order) - i) * PerTable + 2 * Cardinality(Tables) + 10

Left(p, i, T) ==
    CASE p = "migrate" -> AfterTableNo(i - 1)
      [] p = "columns" -> AfterTableNo(i) + 2 * Cardinality(T)
      [] p = "alter" -> AfterTableNo(i) + 2 * Cardinality(T) + 1
      [] p = "settings" -> 2 * Cardinality(Tables) + 9
      [] p = "rewrite" -> 2 * Cardinality(Tables) + 8
      [] p = "indexes" -> 2 * Cardinality(Tables) + 7
      [] p = "check" -> 2 * Cardinality(Tables) + 6
      [] p = "create" -> 2 * Cardinality(T) + 5
      [] p = "index" -> 2 * Cardinality(T) + 6
      [] p = "load" -> 5
      [] p = "insert" -> 4
      [] p = "admin" -> 3
      [] p = "add admin" -> 2
      [] p = "sweep" -> 1
      [] OTHER -> 0

StepsLeft(w) == Left(pc[w], at[w], todo[w])

LEMMA SchemaIsFinite ==
  /\ IsFiniteSet(Tables) /\ Cardinality(Tables) \in Nat
  /\ IsFiniteSet(Columns) /\ Cardinality(Columns) \in Nat
  <1>1. IsFiniteSet(Tables)
    <2>1. IsFiniteSet(1 .. Len(Order))
      BY OrderTables, FS_Interval
    <2>2. Order \in [1 .. Len(Order) -> Tables]
      BY TablesAssumption
    <2>3. Order \in Surjection(1 .. Len(Order), Tables)
      BY <2>2, OrderTables, Fun_IsSurj
    <2> QED BY <2>1, <2>3, FS_Surjection
  <1>2. IsFiniteSet(Columns)
    <2> DEFINE Sets == {Expected[t] : t \in Tables}
    <2>1. Expected \in [Tables -> Sets]
      BY TablesAssumption
    <2>2. Expected \in Surjection(Tables, Sets)
      BY <2>1, Fun_IsSurj
    <2>3. IsFiniteSet(Sets)
      BY <1>1, <2>2, FS_Surjection
    <2>4. \A S \in Sets : IsFiniteSet(S)
      BY TablesAssumption
    <2> HIDE DEF Sets
    <2>5. IsFiniteSet(UNION Sets)
      BY <2>3, <2>4, FS_UNION
    <2> QED BY <2>5 DEF Columns, Sets
  <1> QED BY <1>1, <1>2, FS_CardinalityType

(* The parts of the measure that concern the tables one after the other.   *)
LEMMA TablesLeft ==
  ASSUME NEW i \in 1 .. Len(Order)
  PROVE  /\ PerTable \in Nat /\ AfterTableNo(0) \in Nat
         /\ AfterTableNo(i) \in Nat
         /\ AfterTableNo(i - 1) = AfterTableNo(i) + PerTable
         /\ AfterTableNo(i) >= 2 * Cardinality(Tables) + 10
         /\ AfterTableNo(i - 1) <= AfterTableNo(0)
  <1> DEFINE n == Len(Order) - i
             L == Len(Order)
  <1>1. n \in Nat /\ i - 1 \in Nat /\ L \in Nat /\ L - (i - 1) = n + 1 /\ L - 0 = n + 1 + (i - 1)
    BY OrderTables
  <1>2. PerTable \in Nat /\ Cardinality(Tables) \in Nat
    BY SchemaIsFinite DEF PerTable
  <1>3. ASSUME NEW a \in Nat, NEW b \in Nat, NEW k \in Nat
        PROVE  a * k \in Nat /\ (a + b) * k = a * k + b * k
    OBVIOUS
  <1>4. /\ n * PerTable \in Nat /\ (i - 1) * PerTable \in Nat
        /\ (n + 1) * PerTable = n * PerTable + PerTable
        /\ (n + 1 + (i - 1)) * PerTable = (n + 1) * PerTable + (i - 1) * PerTable
    BY <1>1, <1>2, <1>3
  <1>5. /\ AfterTableNo(i) = n * PerTable + 2 * Cardinality(Tables) + 10
        /\ AfterTableNo(i - 1) = (n + 1) * PerTable + 2 * Cardinality(Tables) + 10
        /\ AfterTableNo(0) = (n + 1 + (i - 1)) * PerTable + 2 * Cardinality(Tables) + 10
    BY <1>1 DEF AfterTableNo
  <1> DEFINE a == n * PerTable
             b == (i - 1) * PerTable
             k == PerTable
             m == Cardinality(Tables)
             x == AfterTableNo(i)
             y == AfterTableNo(i - 1)
             z == AfterTableNo(0)
  <1>6. a \in Nat /\ b \in Nat /\ k \in Nat /\ m \in Nat
    BY <1>2, <1>4
  <1>7. x = a + 2 * m + 10 /\ y = a + k + 2 * m + 10 /\ z = a + k + b + 2 * m + 10
    BY <1>4, <1>5
  <1> HIDE DEF a, b, k, m, x, y, z
  <1>8. k \in Nat /\ z \in Nat /\ x \in Nat /\ y = x + k /\ x >= 2 * m + 10 /\ y <= z
    BY <1>6, <1>7
  <1> QED BY <1>8 DEF k, m, x, y, z

LEMMA LastTable ==
  /\ AfterTableNo(Len(Order)) = 2 * Cardinality(Tables) + 10
  /\ AfterTableNo(0) \in Nat
  /\ AfterTableNo(0) >= 2 * Cardinality(Tables) + 10
  <1>1. Len(Order) \in Nat /\ PerTable \in Nat /\ Cardinality(Tables) \in Nat
    BY OrderTables, SchemaIsFinite DEF PerTable
  <1>2. Len(Order) - Len(Order) = 0 /\ Len(Order) - 0 = Len(Order) /\ 0 * PerTable = 0
    BY <1>1
  <1>3. Len(Order) * PerTable \in Nat
    BY <1>1
  <1>4. AfterTableNo(Len(Order)) = 0 + 2 * Cardinality(Tables) + 10
    BY <1>2 DEF AfterTableNo
  <1>5. AfterTableNo(0) = Len(Order) * PerTable + 2 * Cardinality(Tables) + 10
    BY <1>2 DEF AfterTableNo
  <1> QED BY <1>1, <1>3, <1>4, <1>5

(* What a worker still has to create is part of the schema.                *)
LEMMA TodoCounts ==
  ASSUME Inv, NEW w \in Workers
  PROVE  /\ pc[w] \in {"columns", "alter"} =>
              /\ at[w] \in 1 .. Len(Order)
              /\ IsFiniteSet(todo[w]) /\ Cardinality(todo[w]) \in Nat
              /\ Cardinality(todo[w]) <= Cardinality(Columns)
         /\ pc[w] \in {"create", "index"} =>
              /\ IsFiniteSet(todo[w]) /\ Cardinality(todo[w]) \in Nat
              /\ Cardinality(todo[w]) <= Cardinality(Tables)
  <1>1. CASE pc[w] \in {"columns", "alter"}
    <2>1. at[w] \in 1 .. Len(Order) /\ todo[w] \subseteq Expected[Order[at[w]]]
      BY <1>1 DEF Inv, Progress
    <2>2. todo[w] \subseteq Columns
      BY <2>1, OrderTables DEF Columns
    <2> QED BY <1>1, <2>1, <2>2, SchemaIsFinite, FS_Subset, FS_CardinalityType
  <1>2. CASE pc[w] \in {"create", "index"}
    <2>1. todo[w] \subseteq Tables
      BY <1>2 DEF Inv, Progress
    <2> QED BY <1>2, <2>1, SchemaIsFinite, FS_Subset, FS_CardinalityType
  <1> QED BY <1>1, <1>2

LEMMA LeftBounds ==
  ASSUME Inv, NEW w \in Workers, pc[w] \in Starting
  PROVE  StepsLeft(w) \in 1 .. AfterTableNo(0)
  <1>1. /\ Cardinality(Tables) \in Nat /\ Cardinality(Columns) \in Nat
        /\ AfterTableNo(0) \in Nat /\ AfterTableNo(0) >= 2 * Cardinality(Tables) + 10
    BY SchemaIsFinite, LastTable
  <1>2. CASE pc[w] = "migrate"
    <2>1. at[w] \in 1 .. Len(Order) + 1
      BY <1>2 DEF Inv, Progress
    <2>2. StepsLeft(w) = AfterTableNo(at[w] - 1)
      BY <1>2 DEF StepsLeft, Left
    <2>3. CASE at[w] \in 1 .. Len(Order)
      <3>1. /\ AfterTableNo(at[w] - 1) <= AfterTableNo(0) /\ PerTable \in Nat
            /\ AfterTableNo(at[w]) \in Nat /\ AfterTableNo(at[w]) > 0
            /\ AfterTableNo(at[w] - 1) = AfterTableNo(at[w]) + PerTable
        BY <1>1, <2>3, TablesLeft
      <3> QED BY <1>1, <2>2, <3>1
    <2>4. CASE at[w] = Len(Order) + 1
      <3>1. at[w] - 1 = Len(Order)
        BY <2>4, OrderTables
      <3>2. StepsLeft(w) = 2 * Cardinality(Tables) + 10
        BY <2>2, <3>1, LastTable
      <3> QED BY <1>1, <3>2
    <2> QED BY <2>1, <2>3, <2>4, OrderTables
  <1>3. CASE pc[w] \in {"columns", "alter"}
    <2>1. /\ at[w] \in 1 .. Len(Order) /\ Cardinality(todo[w]) \in Nat
          /\ Cardinality(todo[w]) <= Cardinality(Columns)
      BY <1>3, TodoCounts
    <2>2. /\ AfterTableNo(at[w]) \in Nat /\ AfterTableNo(at[w]) > 0
          /\ AfterTableNo(at[w]) + 2 * Cardinality(Columns) + 1 <= AfterTableNo(0)
      <3>1. /\ AfterTableNo(at[w] - 1) <= AfterTableNo(0) /\ PerTable \in Nat
            /\ AfterTableNo(at[w]) \in Nat /\ AfterTableNo(at[w]) >= 2 * Cardinality(Tables) + 10
            /\ AfterTableNo(at[w] - 1) = AfterTableNo(at[w]) + PerTable
        BY <2>1, TablesLeft
      <3>2. PerTable = 2 * Cardinality(Columns) + 1
        BY DEF PerTable
      <3> QED BY <1>1, <3>1, <3>2
    <2>3. \/ StepsLeft(w) = AfterTableNo(at[w]) + 2 * Cardinality(todo[w])
          \/ StepsLeft(w) = AfterTableNo(at[w]) + 2 * Cardinality(todo[w]) + 1
      BY <1>3 DEF StepsLeft, Left
    <2> DEFINE a == AfterTableNo(at[w])
               b == AfterTableNo(0)
               c == Cardinality(Columns)
               d == Cardinality(todo[w])
               n == StepsLeft(w)
    <2>4. a \in Nat /\ b \in Nat /\ c \in Nat /\ d \in Nat
      BY <1>1, <2>1, <2>2
    <2>5. a > 0 /\ a + 2 * c + 1 <= b /\ d <= c /\ n \in {a + 2 * d, a + 2 * d + 1}
      BY <2>1, <2>2, <2>3
    <2> HIDE DEF a, b, c, d, n
    <2>6. n \in 1 .. b
      BY <2>4, <2>5
    <2> QED BY <2>6 DEF n, b
  <1>4. CASE pc[w] \in {"create", "index"}
    <2>1. Cardinality(todo[w]) \in Nat /\ Cardinality(todo[w]) <= Cardinality(Tables)
      BY <1>4, TodoCounts
    <2>2. \/ StepsLeft(w) = 2 * Cardinality(todo[w]) + 5
          \/ StepsLeft(w) = 2 * Cardinality(todo[w]) + 6
      BY <1>4 DEF StepsLeft, Left
    <2> QED BY <1>1, <2>1, <2>2
  <1>5. CASE pc[w] \in {"settings", "rewrite", "indexes", "check", "load", "insert", "admin",
                        "add admin", "sweep"}
    <2> DEFINE n == 2 * Cardinality(Tables)
    <2>1. StepsLeft(w) \in {n + 9, n + 8, n + 7, n + 6, 5, 4, 3, 2, 1}
      BY <1>5 DEF StepsLeft, Left
    <2>2. n \in Nat /\ n + 10 <= AfterTableNo(0)
      BY <1>1
    <2> HIDE DEF n
    <2> QED BY <1>1, <2>1, <2>2
  <1> QED BY <1>2, <1>3, <1>4, <1>5 DEF Starting

(* What the proofs about termination rest on.                              *)
THEOREM Places == Spec => [](Inv /\ ProcessTyped)
  <1>1. Init => RowsInv /\ Inv /\ ProcessTyped
    BY InitRows, InitInv, InitTyped
  <1>2. RowsInv /\ Inv /\ ProcessTyped /\ [Next]_vars => RowsInv' /\ Inv' /\ ProcessTyped'
    BY NextRows, NextInv, NextProcessTyped
  <1> QED BY <1>1, <1>2, PTL DEF Spec

(* A start never takes more steps than the schema has places to look at,   *)
(* and it is over exactly when none is left.                               *)
StartsBounded ==
    \A w \in Workers :
        /\ StepsLeft(w) \in 0 .. AfterTableNo(0)
        /\ StepsLeft(w) = 0 <=> pc[w] \notin Starting

(* The loops of the migrations and of create_all end, although the lists   *)
(* they work on were read before other workers changed the schema.         *)
THEOREM StartsAreBounded == Spec => []StartsBounded
  <1>1. Inv /\ ProcessTyped => StartsBounded
    <2> SUFFICES ASSUME Inv, ProcessTyped, NEW w \in Workers
                 PROVE  /\ StepsLeft(w) \in 0 .. AfterTableNo(0)
                        /\ StepsLeft(w) = 0 <=> pc[w] \notin Starting
      BY DEF StartsBounded
    <2>1. AfterTableNo(0) \in Nat
      BY LastTable
    <2>2. CASE pc[w] \in Starting
      <3>1. StepsLeft(w) \in 1 .. AfterTableNo(0)
        BY <2>2, LeftBounds
      <3> QED BY <2>1, <2>2, <3>1
    <2>3. CASE pc[w] \notin Starting
      <3>1. pc[w] \in {"down", "failed", "serving"}
        BY <2>3 DEF ProcessTyped
      <3>2. StepsLeft(w) = 0
        BY <3>1 DEF StepsLeft, Left
      <3> QED BY <2>1, <2>3, <3>2
    <2> QED BY <2>2, <2>3
  <1> QED BY <1>1, Places, PTL

-----------------------------------------------------------------------------
(* Each step of a start leaves it fewer.                                   *)

LEMMA LeftNext ==
  ASSUME NEW w \in Workers
  PROVE  /\ StepsLeft(w) = Left(pc[w], at[w], todo[w])
         /\ StepsLeft(w)' = Left(pc'[w], at'[w], todo'[w])
  BY DEF StepsLeft, Left, AfterTableNo, PerTable, Columns, Tables

LEMMA SomeLeft ==
  ASSUME Inv, NEW w \in Workers, pc[w] \in Starting
  PROVE  Left(pc[w], at[w], todo[w]) \in Nat /\ Left(pc[w], at[w], todo[w]) > 0
  BY LeftBounds, LeftNext, LastTable

LEMMA ColumnsCount ==
  ASSUME NEW S, S \subseteq Columns
  PROVE  /\ IsFiniteSet(S) /\ Cardinality(S) \in Nat
         /\ Cardinality(S) <= Cardinality(Columns)
  BY SchemaIsFinite, FS_Subset, FS_CardinalityType

LEMMA RaiseShrinks ==
  ASSUME Inv, NEW w \in Workers, pc[w] \in Starting, Raise(w)
  PROVE  StepsLeft(w)' < StepsLeft(w)
  <1>1. pc'[w] = "failed"
    BY DEF Raise, GoTo, Inv, Shape
  <1>2. Left(pc'[w], at'[w], todo'[w]) = 0
    BY <1>1 DEF Left
  <1> QED BY <1>2, SomeLeft, LeftNext

LEMMA MigrateTableShrinks ==
  ASSUME Inv, NEW w \in Workers, MigrateTable(w)
  PROVE  StepsLeft(w)' < StepsLeft(w)
  <1>1. pc[w] = "migrate" /\ at[w] \in 1 .. Len(Order) + 1
    BY DEF Inv, Progress, MigrateTable
  <1>2. Left(pc[w], at[w], todo[w]) = AfterTableNo(at[w] - 1)
    BY <1>1 DEF Left
  <1>3. CASE at[w] > Len(Order)
    <2>1. pc'[w] = "settings" /\ at[w] - 1 = Len(Order)
      BY <1>1, <1>3, OrderTables DEF MigrateTable, GoTo, Inv, Shape
    <2>2. Left(pc'[w], at'[w], todo'[w]) = 2 * Cardinality(Tables) + 9
      BY <2>1 DEF Left
    <2> QED BY <1>2, <2>1, <2>2, LeftNext, LastTable, SchemaIsFinite
  <1>4. CASE ~(at[w] > Len(Order))
    <2>1. at[w] \in 1 .. Len(Order)
      BY <1>1, <1>4, OrderTables
    <2>2. /\ AfterTableNo(at[w]) \in Nat /\ PerTable \in Nat
          /\ AfterTableNo(at[w] - 1) = AfterTableNo(at[w]) + PerTable
          /\ PerTable = 2 * Cardinality(Columns) + 1 /\ Cardinality(Columns) \in Nat
      <3>1. PerTable = 2 * Cardinality(Columns) + 1
        BY DEF PerTable
      <3> QED BY <2>1, <3>1, TablesLeft, SchemaIsFinite
    <2> DEFINE missing == MissingColumns(Order[at[w]])
    <2>3. CASE missing = {}
      <3>1. pc'[w] = "migrate" /\ at'[w] - 1 = at[w]
        BY <1>1, <1>4, <2>1, <2>3 DEF MigrateTable, Inv, Shape
      <3>2. Left(pc'[w], at'[w], todo'[w]) = AfterTableNo(at'[w] - 1)
        BY <3>1 DEF Left
      <3> QED BY <1>2, <2>2, <3>1, <3>2, LeftNext
    <2>4. CASE missing # {}
      <3>1. pc'[w] = "columns" /\ at'[w] = at[w] /\ todo'[w] = missing
        BY <1>1, <1>4, <2>4 DEF MigrateTable, GoTo, Inv, Shape
      <3>2. missing \subseteq Columns
        BY <2>1, OrderTables DEF MissingColumns, Columns
      <3>3. Left(pc'[w], at'[w], todo'[w]) = AfterTableNo(at[w]) + 2 * Cardinality(missing)
        BY <3>1 DEF Left
      <3>4. Cardinality(missing) \in Nat /\ Cardinality(missing) <= Cardinality(Columns)
        BY <3>2, ColumnsCount
      <3> HIDE DEF missing
      <3> QED BY <1>2, <2>2, <3>3, <3>4, LeftNext
    <2> QED BY <2>3, <2>4
  <1> QED BY <1>3, <1>4

LEMMA NextColumnLeft ==
  ASSUME Inv, NEW w \in Workers, at[w] \in 1 .. Len(Order), NEW rest, NextColumn(w, rest),
         todo'[w] = rest, Cardinality(rest) \in Nat
  PROVE  /\ StepsLeft(w)' \in Nat
         /\ StepsLeft(w)' <= AfterTableNo(at[w]) + 2 * Cardinality(rest)
  <1>1. AfterTableNo(at[w]) \in Nat
    BY TablesLeft
  <1>2. CASE rest = {}
    <2>1. pc'[w] = "migrate" /\ at'[w] - 1 = at[w]
      BY <1>2 DEF NextColumn, GoTo, Inv, Shape
    <2>2. Left(pc'[w], at'[w], todo'[w]) = AfterTableNo(at[w])
      BY <2>1 DEF Left
    <2> QED BY <1>1, <2>2, LeftNext
  <1>3. CASE rest # {}
    <2>1. pc'[w] = "columns" /\ at'[w] = at[w]
      BY <1>3 DEF NextColumn, GoTo, Inv, Shape
    <2>2. Left(pc'[w], at'[w], todo'[w]) = AfterTableNo(at[w]) + 2 * Cardinality(rest)
      BY <2>1 DEF Left
    <2> QED BY <1>1, <2>2, LeftNext
  <1> QED BY <1>2, <1>3

LEMMA ColumnShrinks ==
  ASSUME Inv, NEW w \in Workers, CheckColumn(w) \/ AlterTable(w)
  PROVE  StepsLeft(w)' < StepsLeft(w)
  <1>1. pc[w] \in {"columns", "alter"}
    BY DEF CheckColumn, AlterTable
  <1>2. /\ at[w] \in 1 .. Len(Order)
        /\ IsFiniteSet(todo[w]) /\ Cardinality(todo[w]) \in Nat
    BY <1>1, TodoCounts
  <1>3. AfterTableNo(at[w]) \in Nat
    BY <1>2, TablesLeft
  <1>4. CASE CheckColumn(w)
    <2>1. PICK c \in todo[w] :
            /\ todo' = [todo EXCEPT ![w] = @ \ {c}]
            /\ \/ GoTo(w, "alter") /\ UNCHANGED at
               \/ NextColumn(w, todo'[w])
      BY <1>4 DEF CheckColumn
    <2>2. todo'[w] = todo[w] \ {c}
      BY <2>1 DEF Inv, Shape
    <2>3. Cardinality(todo'[w]) = Cardinality(todo[w]) - 1 /\ Cardinality(todo'[w]) \in Nat
      BY <1>2, <2>2, FS_RemoveElement, FS_CardinalityType
    <2>4. Left(pc[w], at[w], todo[w]) = AfterTableNo(at[w]) + 2 * Cardinality(todo[w])
      BY <1>4 DEF Left, CheckColumn
    <2>5. CASE GoTo(w, "alter") /\ UNCHANGED at
      <3>1. pc'[w] = "alter" /\ at'[w] = at[w]
        BY <2>5 DEF GoTo, Inv, Shape
      <3>2. Left(pc'[w], at'[w], todo'[w]) = AfterTableNo(at[w]) + 2 * Cardinality(todo'[w]) + 1
        BY <3>1 DEF Left
      <3> QED BY <1>2, <1>3, <2>3, <2>4, <3>2, LeftNext
    <2>6. CASE NextColumn(w, todo'[w])
      <3>1. /\ StepsLeft(w)' \in Nat
            /\ StepsLeft(w)' <= AfterTableNo(at[w]) + 2 * Cardinality(todo'[w])
        BY <1>2, <2>3, <2>6, NextColumnLeft
      <3> QED BY <1>2, <1>3, <2>3, <2>4, <3>1, LeftNext
    <2> QED BY <2>1, <2>5, <2>6
  <1>5. CASE AlterTable(w)
    <2>1. CASE Raise(w)
      BY <1>1, <2>1, RaiseShrinks DEF Starting
    <2>2. CASE ~Raise(w)
      <3>1. NextColumn(w, todo[w]) /\ todo'[w] = todo[w]
        BY <1>5, <2>2 DEF AlterTable
      <3>2. /\ StepsLeft(w)' \in Nat
            /\ StepsLeft(w)' <= AfterTableNo(at[w]) + 2 * Cardinality(todo[w])
        BY <1>2, <3>1, NextColumnLeft
      <3>3. Left(pc[w], at[w], todo[w]) = AfterTableNo(at[w]) + 2 * Cardinality(todo[w]) + 1
        BY <1>5 DEF Left, AlterTable
      <3> QED BY <1>2, <1>3, <3>2, <3>3, LeftNext
    <2> QED BY <2>1, <2>2
  <1> QED BY <1>4, <1>5

LEMMA NextTableLeft ==
  ASSUME Inv, NEW w \in Workers, NEW rest, NextTable(w, rest), todo'[w] = rest,
         Cardinality(rest) \in Nat
  PROVE  /\ StepsLeft(w)' \in Nat
         /\ StepsLeft(w)' <= 2 * Cardinality(rest) + 5
  <1>1. pc'[w] = IF rest = {} THEN "load" ELSE "create"
    BY DEF NextTable, GoTo, Inv, Shape
  <1>2. \/ Left(pc'[w], at'[w], todo'[w]) = 5
        \/ Left(pc'[w], at'[w], todo'[w]) = 2 * Cardinality(rest) + 5
    BY <1>1 DEF Left
  <1> QED BY <1>2, LeftNext

LEMMA TableShrinks ==
  ASSUME Inv, NEW w \in Workers, CreateTable(w) \/ CreateIndex(w)
  PROVE  StepsLeft(w)' < StepsLeft(w)
  <1>1. pc[w] \in {"create", "index"}
    BY DEF CreateTable, CreateIndex
  <1>2. IsFiniteSet(todo[w]) /\ Cardinality(todo[w]) \in Nat
    BY <1>1, TodoCounts
  <1>3. CASE Raise(w)
    BY <1>1, <1>3, RaiseShrinks DEF Starting
  <1>4. CASE CreateTable(w) /\ ~Raise(w)
    <2>1. PICK t \in todo[w] :
            /\ todo' = [todo EXCEPT ![w] = @ \ {t}]
            /\ GoTo(w, "index") \/ NextTable(w, todo'[w])
      BY <1>4 DEF CreateTable
    <2>2. todo'[w] = todo[w] \ {t}
      BY <2>1 DEF Inv, Shape
    <2>3. Cardinality(todo'[w]) = Cardinality(todo[w]) - 1 /\ Cardinality(todo'[w]) \in Nat
      BY <1>2, <2>2, FS_RemoveElement, FS_CardinalityType
    <2>4. Left(pc[w], at[w], todo[w]) = 2 * Cardinality(todo[w]) + 5
      BY <1>4 DEF Left, CreateTable
    <2>5. CASE GoTo(w, "index")
      <3>1. pc'[w] = "index"
        BY <2>5 DEF GoTo, Inv, Shape
      <3>2. Left(pc'[w], at'[w], todo'[w]) = 2 * Cardinality(todo'[w]) + 6
        BY <3>1 DEF Left
      <3> QED BY <1>2, <2>3, <2>4, <3>2, LeftNext
    <2>6. CASE NextTable(w, todo'[w])
      <3>1. /\ StepsLeft(w)' \in Nat
            /\ StepsLeft(w)' <= 2 * Cardinality(todo'[w]) + 5
        BY <2>3, <2>6, NextTableLeft
      <3> QED BY <1>2, <2>3, <2>4, <3>1, LeftNext
    <2> QED BY <2>1, <2>5, <2>6
  <1>5. CASE CreateIndex(w) /\ ~Raise(w)
    <2>1. NextTable(w, todo[w]) /\ todo'[w] = todo[w]
      BY <1>5 DEF CreateIndex
    <2>2. /\ StepsLeft(w)' \in Nat
          /\ StepsLeft(w)' <= 2 * Cardinality(todo[w]) + 5
      BY <1>2, <2>1, NextTableLeft
    <2>3. Left(pc[w], at[w], todo[w]) = 2 * Cardinality(todo[w]) + 6
      BY <1>5 DEF Left, CreateIndex
    <2> QED BY <1>2, <2>2, <2>3, LeftNext
  <1> QED BY <1>3, <1>4, <1>5

LEMMA CheckTablesShrinks ==
  ASSUME Inv, NEW w \in Workers, CheckTables(w)
  PROVE  StepsLeft(w)' < StepsLeft(w)
  <1>1. /\ pc[w] = "check" /\ todo'[w] = Tables \ tables
        /\ pc'[w] \in {"load", "create"}
    BY DEF CheckTables, MissingTables, GoTo, Inv, Shape
  <1>2. /\ Cardinality(Tables \ tables) \in Nat /\ Cardinality(Tables) \in Nat
        /\ Cardinality(Tables \ tables) <= Cardinality(Tables)
    <2>1. Tables \ tables \in SUBSET Tables
      OBVIOUS
    <2> QED BY <2>1, SchemaIsFinite, FS_Subset, FS_CardinalityType
  <1>3. Left(pc[w], at[w], todo[w]) = 2 * Cardinality(Tables) + 6
    BY <1>1 DEF Left
  <1>4. \/ Left(pc'[w], at'[w], todo'[w]) = 5
        \/ Left(pc'[w], at'[w], todo'[w]) = 2 * Cardinality(Tables \ tables) + 5
    BY <1>1 DEF Left
  <1> QED BY <1>2, <1>3, <1>4, LeftNext

(* The steps that go from one place to a later one.                        *)
LEMMA PlaceShrinks ==
  ASSUME Inv, NEW w \in Workers,
         \/ ReadSettings(w) \/ RewriteSettings(w) \/ CreateMissingIndexes(w)
         \/ LoadSettings(w) \/ InsertSettings(w) \/ FindAdmin(w) \/ AddAdmin(w)
         \/ Sweep(w)
  PROVE  StepsLeft(w)' < StepsLeft(w)
  <1>1. CASE Raise(w)
    <2>1. pc[w] \in Starting
      BY DEF ReadSettings, RewriteSettings, CreateMissingIndexes, LoadSettings,
             InsertSettings, FindAdmin, AddAdmin, Sweep, Starting
    <2> QED BY <1>1, <2>1, RaiseShrinks
  <1>2. CASE ~Raise(w)
    <2>1. \/ pc[w] = "settings" /\ (GoTo(w, "rewrite") \/ GoTo(w, "indexes"))
          \/ pc[w] = "rewrite" /\ GoTo(w, "indexes")
          \/ pc[w] = "indexes" /\ GoTo(w, "check")
          \/ pc[w] = "load" /\ (GoTo(w, "insert") \/ GoTo(w, "admin"))
          \/ pc[w] = "insert" /\ GoTo(w, "admin")
          \/ pc[w] = "admin" /\ (GoTo(w, "add admin") \/ GoTo(w, "sweep"))
          \/ pc[w] = "add admin" /\ GoTo(w, "sweep")
          \/ pc[w] = "sweep" /\ GoTo(w, "serving")
      BY <1>2 DEF ReadSettings, RewriteSettings, CreateMissingIndexes, LoadSettings,
                  InsertSettings, FindAdmin, AddAdmin, Sweep
    <2>2. \A to : GoTo(w, to) => pc'[w] = to
      BY DEF GoTo, Inv, Shape
    <2>3. \/ pc[w] = "settings" /\ pc'[w] \in {"rewrite", "indexes"}
          \/ pc[w] = "rewrite" /\ pc'[w] = "indexes"
          \/ pc[w] = "indexes" /\ pc'[w] = "check"
          \/ pc[w] = "load" /\ pc'[w] \in {"insert", "admin"}
          \/ pc[w] = "insert" /\ pc'[w] = "admin"
          \/ pc[w] = "admin" /\ pc'[w] \in {"add admin", "sweep"}
          \/ pc[w] = "add admin" /\ pc'[w] = "sweep"
          \/ pc[w] = "sweep" /\ pc'[w] = "serving"
      BY <2>1, <2>2
    <2>4. Cardinality(Tables) \in Nat
      BY SchemaIsFinite
    <2> DEFINE n == 2 * Cardinality(Tables)
    <2>5. ASSUME NEW p, NEW i, NEW T
          PROVE  /\ p = "settings" => Left(p, i, T) = n + 9
                 /\ p = "rewrite" => Left(p, i, T) = n + 8
                 /\ p = "indexes" => Left(p, i, T) = n + 7
                 /\ p = "check" => Left(p, i, T) = n + 6
                 /\ p = "load" => Left(p, i, T) = 5
                 /\ p = "insert" => Left(p, i, T) = 4
                 /\ p = "admin" => Left(p, i, T) = 3
                 /\ p = "add admin" => Left(p, i, T) = 2
                 /\ p = "sweep" => Left(p, i, T) = 1
                 /\ p = "serving" => Left(p, i, T) = 0
      BY DEF Left
    <2>6. n \in Nat
      BY <2>4
    <2> HIDE DEF n
    <2> DEFINE a == Left(pc[w], at[w], todo[w])
               b == Left(pc'[w], at'[w], todo'[w])
    <2>7. /\ pc[w] = "settings" => a = n + 9
          /\ pc[w] = "rewrite" => a = n + 8
          /\ pc[w] = "indexes" => a = n + 7
          /\ pc[w] = "load" => a = 5
          /\ pc[w] = "insert" => a = 4
          /\ pc[w] = "admin" => a = 3
          /\ pc[w] = "add admin" => a = 2
          /\ pc[w] = "sweep" => a = 1
      BY <2>5
    <2>8. /\ pc'[w] = "rewrite" => b = n + 8
          /\ pc'[w] = "indexes" => b = n + 7
          /\ pc'[w] = "check" => b = n + 6
          /\ pc'[w] = "insert" => b = 4
          /\ pc'[w] = "admin" => b = 3
          /\ pc'[w] = "add admin" => b = 2
          /\ pc'[w] = "sweep" => b = 1
          /\ pc'[w] = "serving" => b = 0
      BY <2>5
    <2> HIDE DEF a, b
    <2>9. \/ a = n + 9 /\ (b = n + 8 \/ b = n + 7)
          \/ a = n + 8 /\ b = n + 7
          \/ a = n + 7 /\ b = n + 6
          \/ a = 5 /\ (b = 4 \/ b = 3)
          \/ a = 4 /\ b = 3
          \/ a = 3 /\ (b = 2 \/ b = 1)
          \/ a = 2 /\ b = 1
          \/ a = 1 /\ b = 0
      BY <2>3, <2>7, <2>8, Zenon
    <2>10. b < a
      BY <2>6, <2>9
    <2> QED BY <2>10, LeftNext DEF a, b
  <1> QED BY <1>1, <1>2

LEMMA StartShrinks ==
  ASSUME Inv, NEW w \in Workers, pc[w] \in Starting, StartupStep(w)
  PROVE  StepsLeft(w)' < StepsLeft(w)
  <1>1. ~Boot(w)
    BY DEF Boot, Starting
  <1> QED BY <1>1, MigrateTableShrinks, ColumnShrinks, CheckTablesShrinks, TableShrinks,
             PlaceShrinks DEF StartupStep

(* A worker's step leaves what the other workers have to do alone.         *)
LEMMA OwnStep ==
  ASSUME Shape, NEW w \in Workers, StartupStep(w) \/ Stop(w) \/ Crash(w)
  PROVE  OnlyWorker(w) /\ \A v \in Workers \ {w} : seen'[v] = seen[v]
  <1>1. /\ UNCHANGED pc \/ \E x : pc' = [pc EXCEPT ![w] = x]
        /\ UNCHANGED at \/ \E x : at' = [at EXCEPT ![w] = x]
        /\ UNCHANGED todo \/ \E x : todo' = [todo EXCEPT ![w] = x]
        /\ UNCHANGED item \/ \E x : item' = [item EXCEPT ![w] = x]
        /\ UNCHANGED seen \/ \E x : seen' = [seen EXCEPT ![w] = x]
    <2>1. ASSUME Raise(w)
          PROVE  /\ \E x : pc' = [pc EXCEPT ![w] = x]
                 /\ \E x : at' = [at EXCEPT ![w] = x]
                 /\ \E x : todo' = [todo EXCEPT ![w] = x]
                 /\ \E x : item' = [item EXCEPT ![w] = x]
                 /\ \E x : seen' = [seen EXCEPT ![w] = x]
      BY <2>1 DEF Raise, GoTo, Clear
    <2> QED BY <2>1
            DEF StartupStep, Stop, Crash, Boot, MigrateTable, CheckColumn, AlterTable,
                NextColumn, ReadSettings, RewriteSettings, CreateMissingIndexes, CheckTables,
                CreateTable, CreateIndex, NextTable, LoadSettings, InsertSettings, FindAdmin,
                AddAdmin, Sweep, GoTo, Clear, localVars
  <1>2. \E x : pc' = [pc EXCEPT ![w] = x]
    <2>1. pc' = pc => pc' = [pc EXCEPT ![w] = pc[w]]
      BY DEF Shape
    <2> QED BY <1>1, <2>1
  <1>3. OnlyWorker(w)
    BY <1>1, <1>2, LocalChange
  <1> QED BY <1>1, <1>3 DEF Shape

(* What is not a step of the start leaves it as it is, or ends it.         *)
LEMMA OthersLeaveStart ==
  ASSUME Inv, Next, NEW w \in Workers, pc[w] \in Starting, ~StartupStep(w)
  PROVE  StepsLeft(w)' = StepsLeft(w) \/ pc'[w] = "down"
  <1>1. ASSUME NEW v \in Workers, StartupStep(v) \/ Stop(v) \/ Crash(v)
        PROVE  pc'[w] = "down" \/ (pc'[w] = pc[w] /\ at'[w] = at[w] /\ todo'[w] = todo[w])
    <2>1. CASE v = w
      BY <1>1, <2>1 DEF Stop, Crash, GoTo, Starting, Inv, Shape
    <2>2. CASE v # w
      BY <1>1, <2>2, OwnStep DEF Inv, OnlyWorker
    <2> QED BY <2>1, <2>2
  <1>2. ASSUME (\E v \in Workers : Submit(v) \/ DeleteServer(v)) \/ (\E s \in Saves : Handle(s))
        PROVE  UNCHANGED <<pc, at, todo>>
    BY <1>2 DEF Submit, DeleteServer, Handle, localVars
  <1>3. Restart => pc'[w] = "down"
    BY DEF Restart
  <1>4. pc'[w] = "down" \/ (pc'[w] = pc[w] /\ at'[w] = at[w] /\ todo'[w] = todo[w])
    BY <1>1, <1>2, <1>3 DEF Next
  <1> QED BY <1>4, LeftNext

(* Every step of a start leaves it fewer to take; what the other workers   *)
(* add to the schema, and the forms handled meanwhile, give it no more.    *)
(* The safety half of EveryWorkerServes.                                   *)
StartsShrink ==
    [][\A w \in Workers : pc[w] \in Starting =>
          /\ StartupStep(w) => StepsLeft(w)' < StepsLeft(w)
          /\ ~StartupStep(w) => StepsLeft(w)' = StepsLeft(w) \/ pc'[w] = "down"]_vars

(* Nothing that another worker creates sends a start back to a step it has *)
(* passed.                                                                 *)
THEOREM StartsDoShrink == Spec => StartsShrink
  <1>1. Inv /\ [Next]_vars =>
          [\A w \in Workers : pc[w] \in Starting =>
              /\ StartupStep(w) => StepsLeft(w)' < StepsLeft(w)
              /\ ~StartupStep(w) => StepsLeft(w)' = StepsLeft(w) \/ pc'[w] = "down"]_vars
    BY StartShrinks, OthersLeaveStart
  <1> QED BY <1>1, Places, PTL DEF Spec, StartsShrink

-----------------------------------------------------------------------------
(* A start never comes to a loop, or to a row, with nothing in it: its     *)
(* next step has no guard but the place it is at.  Together with           *)
(* StartsShrink this is why each start ends.                               *)
Waiting(p, T, S) ==
    \/ p \in {"columns", "create"} /\ T = {}
    \/ p = "rewrite" /\ S = {}

NoneWaits == \A w \in Workers : ~Waiting(pc[w], todo[w], seen[w])

NeverStuck ==
    \A w \in Workers :
        /\ pc[w] = "columns" => todo[w] # {}
        /\ pc[w] = "rewrite" => seen[w] # {}
        /\ pc[w] = "create" => \E t \in todo[w] : IsFirst(t, todo[w])

LEMMA FirstIndex ==
  ASSUME NEW S \in SUBSET Nat, S # {}
  PROVE  \E m \in S : \A n \in S : m <= n
  <1> DEFINE R == OpToRel(<, Nat)
  <1>1. IsWellFoundedOn(R, Nat)
    BY NatLessThanWellFounded
  <1>2. \A x, y \in Nat : x < y => <<x, y>> \in R
    BY DEF OpToRel
  <1> HIDE DEF R
  <1>3. PICK m \in S : \A n \in S : <<n, m>> \notin R
    BY <1>1, WFMin, Zenon
  <1>4. ASSUME NEW n \in S PROVE m <= n
    <2>1. ~(n < m)
      BY <1>2, <1>3
    <2> QED BY <2>1
  <1> QED BY <1>4

(* Of any tables one comes first.                                          *)
LEMMA FirstExists ==
  ASSUME NEW T, T \subseteq Tables, T # {}
  PROVE  \E t \in T : IsFirst(t, T)
  <1> DEFINE S == {i \in 1 .. Len(Order) : Order[i] \in T}
  <1>1. S \in SUBSET Nat /\ S # {}
    BY OrderTables
  <1>2. PICK i \in S : \A j \in S : i <= j
    BY <1>1, FirstIndex
  <1>3. i \in 1 .. Len(Order) /\ Order[i] \in T
    BY <1>2
  <1>4. ASSUME NEW j \in 1 .. i - 1 PROVE Order[j] \notin T
    <2>1. j \in 1 .. Len(Order) /\ ~(i <= j)
      BY <1>3, OrderTables
    <2>2. j \notin S
      BY <1>2, <2>1
    <2> QED BY <2>1, <2>2
  <1>5. IsFirst(Order[i], T)
    BY <1>3, <1>4, OrderTables DEF IsFirst
  <1> QED BY <1>3, <1>5

LEMMA NoneWaitsStays ==
  ASSUME NoneWaits, NEW w \in Workers,
         \A v \in Workers \ {w} : pc'[v] = pc[v] /\ todo'[v] = todo[v] /\ seen'[v] = seen[v],
         ~Waiting(pc'[w], todo'[w], seen'[w])
  PROVE  NoneWaits'
  <1>1. ASSUME NEW v \in Workers PROVE ~Waiting(pc'[v], todo'[v], seen'[v])
    <2>1. v # w => ~Waiting(pc[v], todo[v], seen[v])
      BY DEF NoneWaits
    <2> QED BY <2>1
  <1> QED BY <1>1 DEF NoneWaits, Waiting

(* A step of a worker gives itself something to look for.                  *)
LEMMA StepFinds ==
  ASSUME Shape, NEW w \in Workers, StartupStep(w) \/ Stop(w) \/ Crash(w)
  PROVE  ~Waiting(pc'[w], todo'[w], seen'[w])
  <1> USE DEF Waiting
  <1>1. \A to : GoTo(w, to) => pc'[w] = to
    BY DEF GoTo, Shape
  <1>2. ASSUME NEW T, NextTable(w, T), todo'[w] = T
        PROVE  ~Waiting(pc'[w], todo'[w], seen'[w])
    BY <1>1, <1>2 DEF NextTable
  <1>3. ASSUME NEW T, NextColumn(w, T), todo'[w] = T
        PROVE  ~Waiting(pc'[w], todo'[w], seen'[w])
    BY <1>1, <1>3 DEF NextColumn
  <1>4. CASE MigrateTable(w)
    <2>1. CASE at[w] > Len(Order)
      BY <1>1, <1>4, <2>1 DEF MigrateTable
    <2>2. CASE ~(at[w] > Len(Order))
      BY <1>1, <1>4, <2>2 DEF MigrateTable, Shape
    <2> QED BY <2>1, <2>2
  <1>5. CASE CheckColumn(w)
    <2>1. GoTo(w, "alter") \/ NextColumn(w, todo'[w])
      BY <1>5 DEF CheckColumn
    <2> QED BY <1>1, <1>3, <2>1
  <1>6. CASE Raise(w)
    BY <1>1, <1>6 DEF Raise
  <1>7. CASE AlterTable(w) /\ ~Raise(w)
    <2>1. NextColumn(w, todo[w]) /\ todo'[w] = todo[w]
      BY <1>7 DEF AlterTable
    <2> QED BY <1>3, <2>1
  <1>8. CASE ReadSettings(w)
    <2>1. PICK S : /\ seen' = [seen EXCEPT ![w] = S]
                   /\ GoTo(w, IF S = {} THEN "indexes" ELSE "rewrite")
      BY <1>8 DEF ReadSettings
    <2> QED BY <1>1, <2>1 DEF Shape
  <1>9. CASE CheckTables(w)
    BY <1>1, <1>9 DEF CheckTables, Shape
  <1>10. CASE CreateTable(w) /\ ~Raise(w)
    <2>1. GoTo(w, "index") \/ NextTable(w, todo'[w])
      BY <1>10 DEF CreateTable
    <2> QED BY <1>1, <1>2, <2>1
  <1>11. CASE CreateIndex(w) /\ ~Raise(w)
    <2>1. NextTable(w, todo[w]) /\ todo'[w] = todo[w]
      BY <1>11 DEF CreateIndex
    <2> QED BY <1>2, <2>1
  <1>12. CASE /\ ~Raise(w)
              /\ \/ Boot(w) \/ RewriteSettings(w) \/ CreateMissingIndexes(w)
                 \/ LoadSettings(w) \/ InsertSettings(w) \/ FindAdmin(w) \/ AddAdmin(w)
                 \/ Sweep(w) \/ Stop(w) \/ Crash(w)
    <2>1. \/ GoTo(w, "migrate") \/ GoTo(w, "indexes") \/ GoTo(w, "check")
          \/ GoTo(w, "insert") \/ GoTo(w, "admin") \/ GoTo(w, "add admin")
          \/ GoTo(w, "sweep") \/ GoTo(w, "serving") \/ GoTo(w, "down")
      BY <1>12 DEF Boot, RewriteSettings, CreateMissingIndexes, LoadSettings,
                   InsertSettings, FindAdmin, AddAdmin, Sweep, Stop, Crash
    <2> QED BY <1>1, <2>1
  <1> QED BY <1>4, <1>5, <1>6, <1>7, <1>8, <1>9, <1>10, <1>11, <1>12 DEF StartupStep

LEMMA NextNoneWaits ==
  ASSUME Shape, NoneWaits, [Next]_vars
  PROVE  NoneWaits'
  <1>1. ASSUME NEW w \in Workers, StartupStep(w) \/ Stop(w) \/ Crash(w)
        PROVE  NoneWaits'
    <2>1. \A v \in Workers \ {w} : pc'[v] = pc[v] /\ todo'[v] = todo[v] /\ seen'[v] = seen[v]
      BY <1>1, OwnStep DEF OnlyWorker
    <2> QED BY <1>1, <2>1, StepFinds, NoneWaitsStays
  <1>2. UNCHANGED vars \/ (\E w \in Workers : Submit(w) \/ DeleteServer(w))
           \/ (\E s \in Saves : Handle(s))
           => UNCHANGED <<pc, todo, seen>>
    BY DEF vars, Submit, DeleteServer, Handle, localVars
  <1>3. UNCHANGED <<pc, todo, seen>> => NoneWaits'
    BY DEF NoneWaits, Waiting
  <1>4. Restart => NoneWaits'
    BY DEF Restart, NoneWaits, Waiting
  <1> QED BY <1>1, <1>2, <1>3, <1>4 DEF Next

(* Whatever the other workers create between two steps of a worker, it has *)
(* a next step until it serves or has failed: create_all finds a first     *)
(* table among those it missed, and each loop ends with its last item.     *)
THEOREM StartsNeverStick == Spec => []NeverStuck
  <1>1. Init => NoneWaits
    BY DEF Init, NoneWaits, Waiting
  <1>2. Inv /\ NoneWaits /\ [Next]_vars => NoneWaits'
    BY NextNoneWaits DEF Inv
  <1>3. Inv /\ NoneWaits => NeverStuck
    <2> SUFFICES ASSUME Inv, NoneWaits, NEW w \in Workers
                 PROVE  /\ pc[w] = "columns" => todo[w] # {}
                        /\ pc[w] = "rewrite" => seen[w] # {}
                        /\ pc[w] = "create" => \E t \in todo[w] : IsFirst(t, todo[w])
      BY DEF NeverStuck
    <2>1. ~Waiting(pc[w], todo[w], seen[w])
      BY DEF NoneWaits
    <2>2. pc[w] = "create" => todo[w] \subseteq Tables
      BY DEF Inv, Progress
    <2> QED BY <2>1, <2>2, FirstExists DEF Waiting
  <1>4. Spec => [](Inv /\ NoneWaits)
    BY <1>1, <1>2, Places, PTL DEF Spec
  <1> QED BY <1>3, <1>4, PTL

-----------------------------------------------------------------------------
(* Restarts.  The database never goes back, and a worker stops gunicorn    *)
(* only by what it finds already there, or because a server was deleted    *)
(* during its sweep: each other halt leaves the database further than it   *)
(* was when the last restart began.                                        *)
Kept(T, C, R) ==
    /\ T \subseteq tables
    /\ \A t \in Tables : C[t] \subseteq columns[t]
    /\ R # {} => row # {}

Further(T, C, R) ==
    \/ tables \ T # {}
    \/ \E t \in Tables : columns[t] \ C[t] # {}
    \/ R = {} /\ row # {}

StartsFrom(T, C, R, N) ==
    /\ master = "running"
    /\ \A w \in Workers : pc[w] \notin Starting
    /\ tables = T /\ columns = C /\ row = R /\ deletions = N

(* What a worker that boots later knows at p, with i, D and x as the       *)
(* position, the list and the item of Progress.                            *)
Lacking(p, i, D, x, T, C, R) ==
    /\ p = "alter" => x \ C[Order[i]] # {}
    /\ p \in {"create", "index"} => D \intersect T = {}
    /\ p = "index" => Further(T, C, R)
    /\ p = "insert" => R = {}

(* Whoever is disturbed in a start was so after the last restart: it is    *)
(* forgotten when the worker boots.                                        *)
DisturbedSince(N) ==
    /\ deletions \in Nat /\ deletions >= N
    /\ \A w \in Workers \intersect disturbed : pc[w] \in Starting => deletions > N

SinceInv(T, C, R, N) ==
    /\ Kept(T, C, R)
    /\ \A w \in Workers : Lacking(pc[w], at[w], todo[w], item[w], T, C, R)
    /\ DisturbedSince(N)
    /\ master = "halting" => Further(T, C, R) \/ deletions > N

(* What a step leaves of the database: all of it.                          *)
NoLess ==
    /\ tables \subseteq tables'
    /\ \A t \in Tables : columns[t] \subseteq columns'[t]
    /\ row # {} => row' # {}

LEMMA NextNoLess ==
  ASSUME Inv, [Next]_vars
  PROVE  NoLess
  <1> USE DEF NoLess
  <1>1. ASSUME NEW w \in Workers, AlterTable(w)
        PROVE  NoLess
    BY <1>1 DEF AlterTable, Raise, settingsVars, schemaVars, Inv, Schema
  <1>2. ASSUME NEW w \in Workers, CreateTable(w)
        PROVE  NoLess
    BY <1>2 DEF CreateTable, Raise, settingsVars, schemaVars, Inv, Schema
  <1>3. ASSUME NEW w \in Workers, CreateIndex(w) \/ InsertSettings(w) \/ RewriteSettings(w)
        PROVE  NoLess
    BY <1>3 DEF CreateIndex, InsertSettings, RewriteSettings, Raise, settingsVars, schemaVars
  <1>4. ASSUME NEW w \in Workers,
               \/ Boot(w) \/ MigrateTable(w) \/ CheckColumn(w) \/ ReadSettings(w)
               \/ CreateMissingIndexes(w) \/ CheckTables(w) \/ LoadSettings(w)
               \/ FindAdmin(w) \/ AddAdmin(w) \/ Stop(w) \/ Crash(w)
               \/ Sweep(w) \/ DeleteServer(w)
        PROVE  UNCHANGED <<tables, columns, row>>
    BY <1>4 DEF Boot, MigrateTable, CheckColumn, ReadSettings, CreateMissingIndexes,
                CheckTables, LoadSettings, FindAdmin, AddAdmin, Stop, Crash, Sweep, Raise,
                DeleteServer, settingsVars, schemaVars
  <1>5. ASSUME (\E w \in Workers : Submit(w)) \/ (\E s \in Saves : Handle(s))
        PROVE  NoLess
    BY <1>5 DEF Submit, Handle, Open, Step, Refuse, WriteFiles, Fail, Commit, Publish,
                schemaVars
  <1>6. Restart \/ UNCHANGED vars => UNCHANGED <<tables, columns, row>>
    BY DEF Restart, vars, settingsVars, schemaVars
  <1>7. UNCHANGED <<tables, columns, row>> => NoLess
    OBVIOUS
  <1> QED BY <1>1, <1>2, <1>3, <1>4, <1>5, <1>6, <1>7 DEF Next, StartupStep

LEMMA NextDisturbed ==
  ASSUME Inv, NEW N \in Nat, DisturbedSince(N), [Next]_vars
  PROVE  DisturbedSince(N)'
  <1>1. CASE /\ deletions' = deletions + 1
             /\ disturbed' = disturbed \union {v \in Workers : pc[v] = "sweep"}
    BY <1>1 DEF DisturbedSince
  <1>2. CASE deletions' = deletions /\ disturbed' \subseteq disturbed
    <2> SUFFICES ASSUME NEW w \in Workers \intersect disturbed', pc'[w] \in Starting
                 PROVE  pc[w] \in Starting
      BY <1>2 DEF DisturbedSince
    <2>1. ASSUME NEW v \in Workers, StartupStep(v) \/ Stop(v) \/ Crash(v)
          PROVE  pc[w] \in Starting
      <3>1. CASE v = w
        <4>1. CASE Boot(w)
          BY <4>1 DEF Boot
        <4>2. CASE Stop(w) \/ Crash(w)
          BY <4>2 DEF Stop, Crash, GoTo, Starting, Inv, Shape
        <4>3. CASE StartupStep(w) /\ ~Boot(w)
          BY <4>3 DEF StartupStep, MigrateTable, CheckColumn, AlterTable, ReadSettings,
             RewriteSettings, CreateMissingIndexes, CheckTables, CreateTable, CreateIndex,
             LoadSettings, InsertSettings, FindAdmin, AddAdmin, Sweep, Starting
        <4> QED BY <2>1, <3>1, <4>1, <4>2, <4>3
      <3>2. CASE v # w
        BY <2>1, <3>2, OwnStep DEF Inv, OnlyWorker
      <3> QED BY <3>1, <3>2
    <2>2. UNCHANGED vars \/ (\E v \in Workers : Submit(v) \/ DeleteServer(v))
             \/ (\E s \in Saves : Handle(s))
             => UNCHANGED pc
      BY DEF vars, Submit, DeleteServer, Handle
    <2>3. ~Restart
      BY DEF Restart, Starting
    <2> QED BY <2>1, <2>2, <2>3 DEF Next
  <1> QED BY <1>1, <1>2, RegistryStep

LEMMA KeptStays ==
  ASSUME NEW T, NEW C, NEW R, Kept(T, C, R), NoLess
  PROVE  Kept(T, C, R)'
  BY DEF Kept, NoLess

LEMMA FurtherStays ==
  ASSUME NEW T, NEW C, NEW R, NoLess, Further(T, C, R)
  PROVE  Further(T, C, R)'
  <1>1. CASE tables \ T # {}
    BY <1>1 DEF Further, NoLess
  <1>2. CASE \E t \in Tables : columns[t] \ C[t] # {}
    BY <1>2 DEF Further, NoLess
  <1>3. CASE R = {} /\ row # {}
    BY <1>3 DEF Further, NoLess
  <1> QED BY <1>1, <1>2, <1>3 DEF Further

LEMMA LackingStays ==
  ASSUME NEW T, NEW C, NEW R, NoLess, NEW p, NEW i, NEW D, NEW x,
         Lacking(p, i, D, x, T, C, R)
  PROVE  Lacking(p, i, D, x, T, C, R)'
  BY FurtherStays DEF Lacking

(* What makes a start fail was not there when the restart began.           *)
LEMMA HaltFindsMore ==
  ASSUME Inv, NEW T, NEW C, NEW R, NEW N \in Nat, SinceInv(T, C, R, N),
         NEW w \in Workers, StartupStep(w), master # "halting", master' = "halting"
  PROVE  Further(T, C, R) \/ deletions > N
  <1>1. Lacking(pc[w], at[w], todo[w], item[w], T, C, R)
    BY DEF SinceInv
  <1>2. CASE AlterTable(w)
    <2>1. pc[w] = "alter" /\ item[w] \subseteq columns[Order[at[w]]]
      BY <1>2 DEF AlterTable
    <2>2. at[w] \in 1 .. Len(Order)
      BY <2>1 DEF Inv, Progress
    <2>3. Order[at[w]] \in Tables
      BY <2>2, OrderTables
    <2>4. columns[Order[at[w]]] \ C[Order[at[w]]] # {}
      BY <1>1, <2>1 DEF Lacking
    <2> QED BY <2>3, <2>4 DEF Further
  <1>3. CASE CreateTable(w)
    BY <1>1, <1>3 DEF CreateTable, Lacking, Further
  <1>4. CASE CreateIndex(w)
    BY <1>1, <1>4 DEF CreateIndex, Lacking
  <1>5. CASE InsertSettings(w)
    BY <1>1, <1>5 DEF InsertSettings, Lacking, Further
  <1>6. CASE \/ Boot(w) \/ MigrateTable(w) \/ CheckColumn(w) \/ ReadSettings(w)
             \/ RewriteSettings(w) \/ CreateMissingIndexes(w) \/ CheckTables(w)
             \/ LoadSettings(w) \/ FindAdmin(w) \/ AddAdmin(w)
    BY <1>6 DEF Boot, MigrateTable, CheckColumn, ReadSettings, RewriteSettings,
                CreateMissingIndexes, CheckTables, LoadSettings, FindAdmin, AddAdmin
  <1>7. CASE Sweep(w)
    <2>1. w \in disturbed /\ pc[w] = "sweep"
      BY <1>7 DEF Sweep
    <2> QED BY <2>1 DEF SinceInv, DisturbedSince, Starting
  <1> QED BY <1>2, <1>3, <1>4, <1>5, <1>6, <1>7 DEF StartupStep

(* What a worker's own step makes it look for was not there either.        *)
LEMMA StepLacks ==
  ASSUME Inv, NEW T, NEW C, NEW R, NEW N \in Nat, SinceInv(T, C, R, N),
         NEW w \in Workers, StartupStep(w) \/ Stop(w) \/ Crash(w), NoLess
  PROVE  Lacking(pc[w], at[w], todo[w], item[w], T, C, R)'
  <1>1. Lacking(pc[w], at[w], todo[w], item[w], T, C, R) /\ Kept(T, C, R)
    BY DEF SinceInv
  <1>2. \A to : GoTo(w, to) => pc'[w] = to
    BY DEF GoTo, Inv, Shape
  <1>3. Shape
    BY DEF Inv
  <1>4. CASE pc'[w] \notin {"alter", "create", "index", "insert"}
    BY <1>4 DEF Lacking
  <1>5. CASE CheckColumn(w)
    <2>1. CASE pc'[w] = "alter"
      <3>1. PICK c : /\ c \notin columns[Order[at[w]]]
                     /\ item' = [item EXCEPT ![w] = {c}] /\ UNCHANGED at
        BY <1>2, <1>5, <2>1 DEF CheckColumn, NextColumn
      <3>2. at[w] \in 1 .. Len(Order)
        BY <1>5 DEF CheckColumn, Inv, Progress
      <3>3. C[Order[at[w]]] \subseteq columns[Order[at[w]]]
        BY <1>1, <3>2, OrderTables DEF Kept
      <3>4. item'[w] = {c} /\ at'[w] = at[w]
        BY <1>3, <3>1 DEF Shape
      <3>5. item'[w] \ C[Order[at'[w]]] # {}
        BY <3>1, <3>3, <3>4
      <3> QED BY <2>1, <3>5 DEF Lacking
    <2>2. CASE pc'[w] # "alter"
      BY <1>2, <1>4, <1>5, <2>2 DEF CheckColumn, NextColumn
    <2> QED BY <2>1, <2>2
  <1>6. CASE CheckTables(w)
    <2>1. todo'[w] = Tables \ tables /\ pc'[w] \in {"load", "create"}
      BY <1>2, <1>3, <1>6 DEF CheckTables, MissingTables, Shape
    <2>2. todo'[w] \intersect T = {}
      BY <1>1, <2>1 DEF Kept
    <2> QED BY <2>1, <2>2 DEF Lacking
  <1>7. CASE Raise(w)
    BY <1>2, <1>4, <1>7 DEF Raise
  <1>8. CASE CreateTable(w) /\ ~Raise(w)
    <2>1. pc[w] = "create"
      BY <1>8 DEF CreateTable
    <2>2. PICK t \in todo[w] :
            /\ tables' = tables \union {t}
            /\ todo' = [todo EXCEPT ![w] = @ \ {t}]
            /\ GoTo(w, "index") \/ NextTable(w, todo'[w])
      BY <1>8 DEF CreateTable
    <2>3. todo[w] \intersect T = {}
      BY <1>1, <2>1 DEF Lacking
    <2>4. todo'[w] \intersect T = {}
      BY <1>3, <2>2, <2>3 DEF Shape
    <2>5. Further(T, C, R)'
      BY <2>2, <2>3 DEF Further
    <2>6. pc'[w] \in {"index", "load", "create"}
      BY <1>2, <2>2 DEF NextTable
    <2> QED BY <2>4, <2>5, <2>6 DEF Lacking
  <1>9. CASE CreateIndex(w) /\ ~Raise(w)
    <2>1. pc[w] = "index" /\ todo'[w] = todo[w] /\ pc'[w] \in {"load", "create"}
      BY <1>2, <1>9 DEF CreateIndex, NextTable
    <2> QED BY <1>1, <2>1 DEF Lacking
  <1>10. CASE LoadSettings(w)
    <2>1. /\ row = {} => pc'[w] = "insert"
          /\ row # {} => pc'[w] = "admin"
      BY <1>2, <1>10 DEF LoadSettings
    <2>2. row = {} => R = {}
      BY <1>1 DEF Kept
    <2> QED BY <2>1, <2>2 DEF Lacking
  <1>11. CASE AlterTable(w) /\ ~Raise(w)
    <2>1. NextColumn(w, todo[w])
      BY <1>11 DEF AlterTable
    <2> QED BY <1>2, <1>4, <2>1 DEF NextColumn
  <1>12. CASE MigrateTable(w)
    <2>1. pc'[w] \in {"settings", "migrate", "columns"}
      BY <1>2, <1>12 DEF MigrateTable
    <2> QED BY <1>4, <2>1
  <1>13. CASE InsertSettings(w) /\ ~Raise(w)
    BY <1>2, <1>4, <1>13 DEF InsertSettings
  <1>14. CASE \/ Boot(w) \/ ReadSettings(w) \/ RewriteSettings(w) \/ CreateMissingIndexes(w)
              \/ FindAdmin(w) \/ AddAdmin(w) \/ (Sweep(w) /\ ~Raise(w))
              \/ Stop(w) \/ Crash(w)
    <2>1. \/ GoTo(w, "migrate") \/ GoTo(w, "indexes") \/ GoTo(w, "rewrite")
          \/ GoTo(w, "check") \/ GoTo(w, "add admin") \/ GoTo(w, "sweep")
          \/ GoTo(w, "serving") \/ GoTo(w, "down")
      BY <1>14 DEF Boot, ReadSettings, RewriteSettings, CreateMissingIndexes, FindAdmin,
                   AddAdmin, Sweep, Stop, Crash
    <2> QED BY <1>2, <1>4, <2>1
  <1> QED BY <1>5, <1>6, <1>7, <1>8, <1>9, <1>10, <1>11, <1>12, <1>13, <1>14
          DEF StartupStep

LEMMA NextSince ==
  ASSUME Inv, NEW T, NEW C, NEW R, NEW N \in Nat, SinceInv(T, C, R, N), [Next]_vars
  PROVE  SinceInv(T, C, R, N)'
  <1>1. NoLess
    BY NextNoLess
  <1>2. Kept(T, C, R)'
    BY <1>1, KeptStays DEF SinceInv
  <1>3. DisturbedSince(N)' /\ deletions' >= deletions
    BY NextDisturbed, RegistryStep DEF SinceInv, DisturbedSince
  <1> DEFINE Gained == Further(T, C, R) \/ deletions > N
  <1>4. Gained => Gained'
    <2>1. deletions > N => deletions' > N
      BY <1>3 DEF SinceInv, DisturbedSince
    <2> QED BY <1>1, <2>1, FurtherStays
  <1> HIDE DEF Gained
  <1>5. master = "halting" => Gained'
    BY <1>4 DEF SinceInv, Gained
  <1>6. ASSUME NEW w \in Workers,
               pc'[w] = pc[w] /\ at'[w] = at[w] /\ todo'[w] = todo[w] /\ item'[w] = item[w]
        PROVE  Lacking(pc[w], at[w], todo[w], item[w], T, C, R)'
    <2>1. PICK p, i, D, x : p = pc[w] /\ i = at[w] /\ D = todo[w] /\ x = item[w]
      OBVIOUS
    <2>2. Lacking(p, i, D, x, T, C, R)
      BY <2>1 DEF SinceInv
    <2>3. Lacking(p, i, D, x, T, C, R)'
      BY <1>1, <2>2, LackingStays
    <2> QED BY <1>6, <2>1, <2>3 DEF Lacking
  <1>7. ASSUME NEW w \in Workers, StartupStep(w) \/ Stop(w) \/ Crash(w)
        PROVE  SinceInv(T, C, R, N)'
    <2>1. \A v \in Workers \ {w} :
             pc'[v] = pc[v] /\ at'[v] = at[v] /\ todo'[v] = todo[v] /\ item'[v] = item[v]
      BY <1>7, OwnStep DEF Inv, OnlyWorker
    <2>2. \A v \in Workers : Lacking(pc[v], at[v], todo[v], item[v], T, C, R)'
      BY <1>1, <1>6, <1>7, <2>1, StepLacks
    <2>3. (Stop(w) \/ Crash(w)) /\ master' = "halting" => master = "halting"
      BY DEF Stop, Crash
    <2>4. StartupStep(w) /\ master # "halting" /\ master' = "halting" => Gained
      BY HaltFindsMore DEF Gained
    <2>5. master' = "halting" => Gained'
      BY <1>4, <1>5, <1>7, <2>3, <2>4
    <2> QED BY <1>2, <1>3, <2>2, <2>5 DEF SinceInv, Gained
  <1>8. ASSUME UNCHANGED <<pc, at, todo, item, master>>
        PROVE  SinceInv(T, C, R, N)'
    BY <1>2, <1>3, <1>5, <1>6, <1>8 DEF SinceInv, Gained
  <1>9. UNCHANGED vars \/ (\E w \in Workers : Submit(w) \/ DeleteServer(w))
           \/ (\E s \in Saves : Handle(s))
           => UNCHANGED <<pc, at, todo, item, master>>
    BY DEF vars, Submit, DeleteServer, Handle, localVars
  <1>10. ASSUME Restart
         PROVE  SinceInv(T, C, R, N)'
    <2>1. master' = "running" /\ \A w \in Workers : pc'[w] = "down"
      BY <1>10 DEF Restart
    <2> QED BY <1>2, <1>3, <2>1 DEF SinceInv, Lacking
  <1> QED BY <1>7, <1>8, <1>9, <1>10 DEF Next

(* Whatever the database is when gunicorn runs and no worker starts yet    *)
(* (after each restart it is so), gunicorn halts after that only if the    *)
(* database has gained a table, a column or the settings row since, or a   *)
(* server has been deleted.  Of the former there are finitely many: but    *)
(* for deletions, run.sh's restarts do not go round for ever on a database *)
(* that some start cannot get past.                                        *)
THEOREM HaltsMakeProgress ==
  ASSUME NEW CONSTANT T, NEW CONSTANT C, NEW CONSTANT R, NEW CONSTANT N \in Nat
  PROVE  Spec => [](StartsFrom(T, C, R, N) =>
                       [](master = "halting" => Further(T, C, R) \/ deletions > N))
  <1>1. StartsFrom(T, C, R, N) => SinceInv(T, C, R, N)
    <2>1. StartsFrom(T, C, R, N) => DisturbedSince(N)
      BY DEF StartsFrom, DisturbedSince
    <2> QED BY <2>1 DEF StartsFrom, SinceInv, Kept, Lacking, Starting
  <1>2. Inv /\ SinceInv(T, C, R, N) /\ [Next]_vars => SinceInv(T, C, R, N)'
    BY NextSince
  <1>3. SinceInv(T, C, R, N) => (master = "halting" => Further(T, C, R) \/ deletions > N)
    BY DEF SinceInv
  <1> QED BY <1>1, <1>2, <1>3, Places, PTL DEF Spec

(* All tables, all columns and the settings row are there, and no worker   *)
(* has begun to look for them.                                             *)
StartsComplete(N) ==
    /\ master = "running"
    /\ \A w \in Workers : pc[w] \notin Starting
    /\ tables = Tables /\ columns = Expected /\ row # {} /\ deletions = N

(* From a complete database on a start fails only by the deletion of a     *)
(* server, however many workers start at the same time: gunicorn does not  *)
(* halt unless one has been deleted since.                                 *)
THEOREM OnlyDeletionsHalt ==
  ASSUME NEW CONSTANT N \in Nat
  PROVE  Spec => [](StartsComplete(N) => [](master = "halting" => deletions > N))
  <1>1. StartsComplete(N) => SinceInv(Tables, Expected, {0}, N)
    <2>1. StartsComplete(N) => DisturbedSince(N)
      BY DEF StartsComplete, DisturbedSince
    <2> QED BY <2>1 DEF StartsComplete, SinceInv, Kept, Lacking, Starting
  <1>2. Inv /\ SinceInv(Tables, Expected, {0}, N) /\ [Next]_vars
           => SinceInv(Tables, Expected, {0}, N)'
    BY NextSince
  <1>3. Inv /\ SinceInv(Tables, Expected, {0}, N) => (master = "halting" => deletions > N)
    BY DEF SinceInv, Further, Inv, Schema
  <1> QED BY <1>1, <1>2, <1>3, Places, PTL DEF Spec

=============================================================================
