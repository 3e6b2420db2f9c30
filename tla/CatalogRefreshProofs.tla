------------------------ MODULE CatalogRefreshProofs ------------------------
(***************************************************************************)
(* Proofs about CatalogRefresh, for any number of servers, sweeps,         *)
(* administrators' refreshes and edits.                                    *)
(***************************************************************************)
EXTENDS CatalogRefresh, FiniteSetTheorems, TLAPS

(* The rows a fetch may leave behind.                                      *)
LEMMA SucceededRow ==
  ASSUME NEW b \in Rows, NEW v \in Versions
  PROVE  /\ Succeeded(b, v) \in Rows
         /\ Succeeded(b, v).url = b.url
         /\ Sound(Succeeded(b, v))
  BY DEF Rows, ModelLists, Succeeded, Sound

LEMMA FailedRow ==
  ASSUME NEW b \in Rows, NEW e \in Errors
  PROVE  /\ Failed(b, e) \in Rows
         /\ Failed(b, e).url = b.url
         /\ Sound(Failed(b, e))
  BY DEF Rows, Failed, Sound

LEMMA BlockedRow ==
  ASSUME NEW b \in Rows, NEW e \in Errors
  PROVE  Blocked(b, e) \in Rows /\ Blocked(b, e).url = b.url
  BY DEF Rows, Blocked

(* A commit writes each column from the one row or the other.              *)
LEMMA WrittenRow ==
  ASSUME NEW r \in Rows, NEW b \in Rows, NEW n \in Rows
  PROVE  Written(r, b, n) \in Rows
  BY DEF Rows, Written, ChangedColumn

(* Over the row that was loaded, it writes the new one.                    *)
LEMMA WrittenOver ==
  ASSUME NEW b \in Rows, NEW n \in Rows, Sound(n), n.url = b.url
  PROVE  Sound(Written(b, b, n))
  BY DEF Rows, Written, ChangedColumn, Sound

-----------------------------------------------------------------------------

(* What TypeOK says of the registry and of one task.                       *)
RegistryOK ==
    /\ row \in [present -> Rows]
    /\ present \subseteq Servers
    /\ doubtful \subseteq present
    /\ edits \in 0..MaxEdits

TaskOK(h, v, p) ==
    /\ DOMAIN h \subseteq Servers
    /\ \A s \in DOMAIN h : h[s] \in Rows
    /\ (v # {}) <=> p \in {"fetch", "saved"}
    /\ \A x, y \in v : x = y
    /\ v \subseteq [server : Servers, base : Rows]

TasksOK ==
    /\ pc \in [Tasks -> {"idle", "next", "fetch", "saved"}]
    /\ todo \in [Tasks -> SUBSET Servers]
    /\ \A t \in Tasks : TaskOK(held[t], visit[t], pc[t])
    /\ held = [t \in Tasks |-> held[t]]
    /\ visit = [t \in Tasks |-> visit[t]]

(* Inductive: the types, and that the sound rows stay so.                  *)
Inv == RegistryOK /\ TasksOK /\ WrongRowsExplained

(* The registry as it is before the first task.                            *)
THEOREM InitInv ==
  ASSUME Init
  PROVE  Inv
  <1>1. \A u \in Urls : NewRow(u) \in Rows /\ Sound(NewRow(u))
    BY DEF NewRow, Rows, Sound
  <1>2. PICK S \in SUBSET Servers : row \in [S -> {NewRow(u) : u \in Urls}]
    BY DEF Init
  <1>3. present = S /\ \A s \in S : row[s] \in Rows /\ Sound(row[s])
    BY <1>1, <1>2 DEF present
  <1>4. row = [s \in S |-> row[s]]
    BY <1>2
  <1>5. RegistryOK /\ WrongRowsExplained
    BY <1>3, <1>4, EditsAssumption DEF Init, RegistryOK, WrongRowsExplained
  <1>6. TasksOK
    BY DEF Init, TasksOK, TaskOK
  <1> QED BY <1>5, <1>6 DEF Inv

(* A step of one task that leaves it well-formed leaves the others alone.  *)
LEMMA TaskStep ==
  ASSUME TasksOK, NEW t \in Tasks, NEW h, NEW v,
         NEW p \in {"idle", "next", "fetch", "saved"}, NEW S \in SUBSET Servers,
         TaskOK(h, v, p),
         pc' = [pc EXCEPT ![t] = p], todo' = [todo EXCEPT ![t] = S],
         held' = [held EXCEPT ![t] = h], visit' = [visit EXCEPT ![t] = v]
  PROVE  TasksOK'
  <1>1. pc' \in [Tasks -> {"idle", "next", "fetch", "saved"}]
    BY DEF TasksOK
  <1>2. todo' \in [Tasks -> SUBSET Servers]
    BY DEF TasksOK
  <1>3. held' = [u \in Tasks |-> held'[u]] /\ visit' = [u \in Tasks |-> visit'[u]]
    BY DEF TasksOK
  <1>4. ASSUME NEW u \in Tasks
        PROVE  TaskOK(held'[u], visit'[u], pc'[u])
    <2>1. CASE u = t
      <3>1. held'[u] = h /\ visit'[u] = v /\ pc'[u] = p
        BY <2>1 DEF TasksOK
      <3> QED BY <3>1
    <2>2. CASE u # t
      <3>1. held'[u] = held[u] /\ visit'[u] = visit[u] /\ pc'[u] = pc[u]
        BY <2>2 DEF TasksOK
      <3> QED BY <3>1 DEF TasksOK
    <2> QED BY <2>1, <2>2
  <1> QED BY <1>1, <1>2, <1>3, <1>4 DEF TasksOK

(* A variable that stays is one that takes its own value.                  *)
LEMMA Stays ==
  ASSUME TasksOK, NEW t \in Tasks
  PROVE  /\ pc = [pc EXCEPT ![t] = pc[t]]
         /\ todo = [todo EXCEPT ![t] = todo[t]]
         /\ held = [held EXCEPT ![t] = held[t]]
         /\ visit = [visit EXCEPT ![t] = visit[t]]
         /\ pc[t] \in {"idle", "next", "fetch", "saved"}
         /\ todo[t] \in SUBSET Servers
         /\ TaskOK(held[t], visit[t], pc[t])
  BY DEF TasksOK

LEMMA RegistryStays ==
  ASSUME RegistryOK, WrongRowsExplained, UNCHANGED <<row, doubtful, edits>>
  PROVE  RegistryOK' /\ WrongRowsExplained'
  BY DEF RegistryOK, WrongRowsExplained, present

LEMMA EmptySession ==
  ASSUME NEW v, NEW p, NEW h, TaskOK(h, v, p)
  PROVE  TaskOK(<<>>, v, p)
  BY DEF TaskOK

LEMMA NoVisit ==
  ASSUME NEW h, NEW v, NEW p, TaskOK(h, v, p), NEW q \in {"idle", "next"}
  PROVE  TaskOK(h, {}, q)
  BY DEF TaskOK

-----------------------------------------------------------------------------

LEMMA BeginInv ==
  ASSUME Inv, NEW t \in Tasks, NEW S \in SUBSET Servers, NEW loaded,
         DOMAIN loaded \subseteq Servers, \A s \in DOMAIN loaded : loaded[s] \in Rows,
         Begin(t, S, loaded)
  PROVE  Inv'
  <1>1. TaskOK(held[t], visit[t], pc[t]) /\ visit = [visit EXCEPT ![t] = visit[t]]
    BY Stays DEF Inv
  <1>2. TaskOK(loaded, visit[t], "next")
    BY <1>1 DEF TaskOK, Begin
  <1>3. TasksOK'
    BY <1>1, <1>2, TaskStep DEF Inv, Begin
  <1> QED BY <1>3, RegistryStays DEF Inv, Begin

(* The rows that are there.                                                *)
LEMMA LoadedRows ==
  ASSUME RegistryOK, NEW S \in SUBSET present
  PROVE  /\ DOMAIN Loaded(S) = S
         /\ \A s \in S : Loaded(S)[s] \in Rows
  BY DEF RegistryOK, Loaded, Restrict, present

LEMMA StartSweepInv ==
  ASSUME Inv, NEW t \in Sweeps, StartSweep(t)
  PROVE  Inv'
  BY LoadedRows, BeginInv DEF Inv, RegistryOK, StartSweep, Tasks

LEMMA StartAdminInv ==
  ASSUME Inv, NEW t \in Admins, StartAdmin(t)
  PROVE  Inv'
  <1>1. PICK s \in Servers : \/ Begin(t, {s}, <<>>)
                             \/ s \in present /\ Begin(t, {s}, Loaded({s}))
    BY DEF StartAdmin
  <1>2. t \in Tasks /\ {s} \in SUBSET Servers
    BY DEF Tasks
  <1>3. CASE Begin(t, {s}, <<>>)
    BY <1>2, <1>3, BeginInv
  <1>4. CASE s \in present /\ Begin(t, {s}, Loaded({s}))
    <2>1. {s} \in SUBSET present
      BY <1>4
    <2>2. DOMAIN Loaded({s}) = {s} /\ \A x \in {s} : Loaded({s})[x] \in Rows
      BY <2>1, LoadedRows DEF Inv
    <2> QED BY <1>2, <1>4, <2>2, BeginInv
  <1> QED BY <1>1, <1>3, <1>4

LEMMA LoadInv ==
  ASSUME Inv, NEW t \in Tasks, Load(t)
  PROVE  Inv'
  <1>1. PICK s \in todo[t] :
          /\ todo' = [todo EXCEPT ![t] = Visited(t, s)]
          /\ IF s \in present
             THEN /\ pc' = [pc EXCEPT ![t] = "fetch"]
                  /\ visit' = [visit EXCEPT ![t] =
                         {[server |-> s,
                           base |-> IF s \in DOMAIN held[t] THEN held[t][s] ELSE row[s]]}]
             ELSE UNCHANGED <<pc, visit>>
    BY DEF Load
  <1>2. Visited(t, s) \in SUBSET Servers /\ s \in Servers
    BY Stays DEF Inv, Visited
  <1>3. held' = [held EXCEPT ![t] = held[t]]
    BY Stays DEF Inv, Load
  <1>4. CASE s \in present
    <2> DEFINE b == IF s \in DOMAIN held[t] THEN held[t][s] ELSE row[s]
    <2>1. b \in Rows
      BY <1>4, Stays DEF Inv, TaskOK, RegistryOK
    <2>2. TaskOK(held[t], {[server |-> s, base |-> b]}, "fetch")
      BY <1>2, <2>1, Stays DEF Inv, TaskOK
    <2>3. TasksOK'
      BY <1>1, <1>2, <1>3, <1>4, <2>2, TaskStep DEF Inv
    <2> QED BY <2>3, RegistryStays DEF Inv, Load
  <1>5. CASE s \notin present
    <2>1. UNCHANGED <<pc, held, visit>>
      BY <1>1, <1>5 DEF Load
    <2>2. todo' \in [Tasks -> SUBSET Servers]
      BY <1>1, <1>2 DEF Inv, TasksOK
    <2>3. TasksOK'
      BY <2>1, <2>2 DEF Inv, TasksOK
    <2> QED BY <2>3, RegistryStays DEF Inv, Load
  <1> QED BY <1>4, <1>5

LEMMA DoneInv ==
  ASSUME Inv, NEW t \in Tasks, Done(t)
  PROVE  Inv'
  <1>1. TaskOK(<<>>, visit[t], "idle")
    BY Stays DEF Inv, TaskOK, Done
  <1>2. TasksOK'
    BY <1>1, Stays, TaskStep DEF Inv, Done
  <1> QED BY <1>2, RegistryStays DEF Inv, Done

(* Each way in which a visit ends.                                         *)
LEMMA AbortTask ==
  ASSUME TasksOK, NEW t \in Tasks, Abort(t)
  PROVE  TasksOK'
  <1>1. TaskOK(<<>>, {}, "idle")
    BY DEF TaskOK
  <1> QED BY <1>1, TaskStep DEF Abort

LEMMA ReturnTask ==
  ASSUME TasksOK, NEW t \in Tasks, Return(t), NEW h, h = held[t] \/ h = <<>>,
         held' = [held EXCEPT ![t] = h]
  PROVE  TasksOK'
  <1>1. TaskOK(h, {}, "next")
    BY Stays, EmptySession, NoVisit
  <1> QED BY <1>1, Stays, TaskStep DEF Return

-----------------------------------------------------------------------------

(* A commit overwrites the row with a sound one unless it leaves the row   *)
(* among the doubtful.                                                     *)
LEMMA WriteInv ==
  ASSUME RegistryOK, WrongRowsExplained, NEW s \in present, NEW b \in Rows,
         NEW n \in Rows, NEW kind, kind # "blocked" => Sound(n) /\ n.url = b.url,
         row' = [row EXCEPT ![s] = Written(@, b, n)],
         doubtful' = IF row[s] = b /\ kind # "blocked" THEN doubtful \ {s}
                                                       ELSE doubtful \union {s},
         edits' = edits
  PROVE  RegistryOK' /\ WrongRowsExplained'
  <1>1. present' = present
    BY DEF RegistryOK, present
  <1>2. row'[s] = Written(row[s], b, n) /\ row[s] \in Rows
    BY DEF RegistryOK
  <1>3. row'[s] \in Rows
    BY <1>2, WrittenRow
  <1>4. \A x \in present \ {s} : row'[x] = row[x]
    BY DEF RegistryOK
  <1>5. row' \in [present -> Rows]
    BY <1>3, <1>4 DEF RegistryOK
  <1>6. RegistryOK'
    BY <1>1, <1>5 DEF RegistryOK
  <1>7. ASSUME NEW x \in present' \ doubtful'
        PROVE  Sound(row'[x])
    <2>1. CASE x = s
      <3>1. row[s] = b /\ kind # "blocked"
        BY <1>7, <2>1
      <3> QED BY <1>2, <2>1, <3>1, WrittenOver
    <2>2. CASE x # s
      <3>1. x \in present \ doubtful /\ row'[x] = row[x]
        BY <1>1, <1>4, <1>7, <2>2
      <3> QED BY <3>1 DEF WrongRowsExplained
    <2> QED BY <2>1, <2>2
  <1> QED BY <1>6, <1>7 DEF WrongRowsExplained

LEMMA CommitInv ==
  ASSUME Inv, NEW t \in Tasks, NEW s \in Servers, NEW b \in Rows, NEW n \in Rows,
         NEW kind, kind # "blocked" => Sound(n) /\ n.url = b.url,
         pc[t] = "fetch", Commit(t, s, b, n, kind), edits' = edits
  PROVE  Inv'
  <1> DEFINE update == kind = "success" \/ n # b
  <1>1. CASE /\ update /\ s \in present
             /\ row' = [row EXCEPT ![s] = Written(@, b, n)]
             /\ doubtful' = IF row[s] = b /\ kind # "blocked" THEN doubtful \ {s}
                                                               ELSE doubtful \union {s}
             /\ held' = [held EXCEPT ![t] = <<>>]
             /\ IF kind = "success"
                THEN pc' = [pc EXCEPT ![t] = "saved"] /\ UNCHANGED <<todo, visit>>
                ELSE Return(t)
    <2>1. RegistryOK' /\ WrongRowsExplained'
      BY <1>1, WriteInv DEF Inv
    <2>2. TasksOK'
      <3>1. CASE kind = "success"
        <4>1. TaskOK(<<>>, visit[t], "saved")
          BY Stays DEF Inv, TaskOK
        <4>2. /\ pc' = [pc EXCEPT ![t] = "saved"]
              /\ todo' = [todo EXCEPT ![t] = todo[t]]
              /\ visit' = [visit EXCEPT ![t] = visit[t]]
              /\ held' = [held EXCEPT ![t] = <<>>]
              /\ todo[t] \in SUBSET Servers
          BY <1>1, <3>1, Stays DEF Inv
        <4> QED BY <4>1, <4>2, TaskStep DEF Inv
      <3>2. CASE kind # "success"
        BY <1>1, <3>2, ReturnTask DEF Inv
      <3> QED BY <3>1, <3>2
    <2> QED BY <2>1, <2>2 DEF Inv
  <1>2. CASE /\ ~update
             /\ held' = [held EXCEPT ![t] = <<>>]
             /\ Return(t)
             /\ UNCHANGED <<row, doubtful>>
    <2>1. TasksOK'
      BY <1>2, ReturnTask DEF Inv
    <2> QED BY <1>2, <2>1, RegistryStays DEF Inv
  <1>3. CASE /\ update
             /\ Abort(t)
             /\ UNCHANGED <<row, doubtful>>
    <2>1. TasksOK'
      BY <1>3, AbortTask DEF Inv
    <2> QED BY <1>3, <2>1, RegistryStays DEF Inv
  <1> QED BY <1>1, <1>2, <1>3 DEF Commit

LEMMA SaveInv ==
  ASSUME Inv, NEW t \in Tasks, Save(t)
  PROVE  Inv'
  <1>1. PICK x \in visit[t] :
          \/ \E v \in Versions :
                Commit(t, x.server, x.base, Succeeded(x.base, v), "success")
          \/ \E e \in Errors :
                \/ Commit(t, x.server, x.base, Failed(x.base, e), "failure")
                \/ Commit(t, x.server, x.base, Blocked(x.base, e), "blocked")
    BY DEF Save
  <1>2. x.server \in Servers /\ x.base \in Rows
    BY Stays DEF Inv, TaskOK
  <1>3. pc[t] = "fetch" /\ edits' = edits
    BY DEF Save
  <1>4. ASSUME NEW v \in Versions,
               Commit(t, x.server, x.base, Succeeded(x.base, v), "success")
        PROVE  Inv'
    BY <1>2, <1>3, <1>4, SucceededRow, CommitInv
  <1>5. ASSUME NEW e \in Errors,
               Commit(t, x.server, x.base, Failed(x.base, e), "failure")
        PROVE  Inv'
    BY <1>2, <1>3, <1>5, FailedRow, CommitInv
  <1>6. ASSUME NEW e \in Errors,
               Commit(t, x.server, x.base, Blocked(x.base, e), "blocked")
        PROVE  Inv'
    BY <1>2, <1>3, <1>6, BlockedRow, CommitInv
  <1> QED BY <1>1, <1>4, <1>5, <1>6

LEMMA RefreshInv ==
  ASSUME Inv, NEW t \in Tasks, Refresh(t)
  PROVE  Inv'
  <1>1. \/ Return(t) /\ UNCHANGED held
        \/ Abort(t)
    BY DEF Refresh
  <1>2. TasksOK'
    BY <1>1, Stays, ReturnTask, AbortTask DEF Inv
  <1> QED BY <1>2, RegistryStays DEF Inv, Refresh

-----------------------------------------------------------------------------

(* The administrator's handlers leave the tasks alone.                     *)
LEMMA TasksStay ==
  ASSUME TasksOK, UNCHANGED <<pc, todo, held, visit>>
  PROVE  TasksOK'
  BY DEF TasksOK

LEMMA EditInv ==
  ASSUME Inv, Edit
  PROVE  edits' \in 0..MaxEdits /\ TasksOK'
  BY TasksStay, EditsAssumption DEF Inv, RegistryOK, Edit

LEMMA CreateInv ==
  ASSUME Inv, NEW s \in Servers, NEW u \in Urls, Create(s, u)
  PROVE  Inv'
  <1>1. /\ row' = [x \in present \union {s} |->
                     IF x = s THEN NewRow(u) ELSE row[x]]
        /\ s \notin present /\ doubtful' = doubtful
    BY DEF Create, present
  <1>2. present' = present \union {s}
    BY <1>1 DEF present
  <1>3. NewRow(u) \in Rows /\ Sound(NewRow(u))
    BY DEF NewRow, Rows, Sound
  <1>4. row' \in [present' -> Rows]
    BY <1>1, <1>2, <1>3 DEF Inv, RegistryOK
  <1>5. WrongRowsExplained'
    BY <1>1, <1>2, <1>3 DEF Inv, WrongRowsExplained
  <1>6. RegistryOK'
    BY <1>1, <1>2, <1>4, EditInv DEF Inv, RegistryOK, Create
  <1> QED BY <1>5, <1>6, EditInv DEF Inv, Create

LEMMA UpdateInv ==
  ASSUME Inv, NEW s \in Servers, NEW u \in Urls, Update(s, u)
  PROVE  Inv'
  <1>1. /\ row' = [row EXCEPT ![s] = [row[s] EXCEPT !.url = u]]
        /\ s \in present /\ doubtful' = doubtful \union {s}
    BY DEF Update
  <1>2. present' = present
    BY <1>1 DEF Inv, RegistryOK, present
  <1>3. ASSUME NEW r \in Rows
        PROVE  [r EXCEPT !.url = u] \in Rows
    BY DEF Rows
  <1>4. row' \in [present' -> Rows]
    BY <1>1, <1>2, <1>3 DEF Inv, RegistryOK
  <1>5. WrongRowsExplained'
    BY <1>1, <1>2 DEF Inv, RegistryOK, WrongRowsExplained
  <1>6. RegistryOK'
    BY <1>1, <1>2, <1>4, EditInv DEF Inv, RegistryOK, Update
  <1> QED BY <1>5, <1>6, EditInv DEF Inv, Update

LEMMA DeleteInv ==
  ASSUME Inv, NEW s \in Servers, Delete(s)
  PROVE  Inv'
  <1>1. row' = [x \in present \ {s} |-> row[x]] /\ doubtful' = doubtful \ {s}
    BY DEF Delete, Restrict
  <1>2. present' = present \ {s}
    BY <1>1 DEF present
  <1>3. row' \in [present' -> Rows]
    BY <1>1, <1>2 DEF Inv, RegistryOK
  <1>4. WrongRowsExplained'
    BY <1>1, <1>2 DEF Inv, WrongRowsExplained
  <1>5. RegistryOK'
    BY <1>1, <1>2, <1>3, EditInv DEF Inv, RegistryOK, Delete
  <1> QED BY <1>4, <1>5, EditInv DEF Inv, Delete

-----------------------------------------------------------------------------

(* Loads, commits and refreshes of tasks, and edits of rows, keep the      *)
(* invariant in every order.                                               *)
THEOREM NextInv ==
  ASSUME Inv, [Next]_vars
  PROVE  Inv'
  <1>1. CASE UNCHANGED vars
    BY <1>1, TasksStay, RegistryStays DEF Inv, vars
  <1>2. ASSUME NEW t \in Sweeps, StartSweep(t) PROVE Inv'
    BY <1>2, StartSweepInv
  <1>3. ASSUME NEW t \in Admins, StartAdmin(t) PROVE Inv'
    BY <1>3, StartAdminInv
  <1>4. ASSUME NEW t \in Tasks, Visit(t) PROVE Inv'
    BY <1>4, LoadInv, DoneInv, SaveInv, RefreshInv DEF Visit
  <1>5. ASSUME NEW s \in Servers, NEW u \in Urls, Create(s, u) \/ Update(s, u)
        PROVE  Inv'
    BY <1>5, CreateInv, UpdateInv
  <1>6. ASSUME NEW s \in Servers, Delete(s) PROVE Inv'
    BY <1>6, DeleteInv
  <1> QED BY <1>1, <1>2, <1>3, <1>4, <1>5, <1>6 DEF Next

(* Rows and tasks keep their types, and a wrong row has one of the causes  *)
(* that the code allows.                                                   *)
THEOREM Invariance == Spec => []Inv
  <1>1. Init => Inv
    BY InitInv
  <1>2. Inv /\ [Next]_vars => Inv'
    BY NextInv
  <1> QED BY <1>1, <1>2, PTL DEF Spec

(* The variables keep their types: a task that fetches visits exactly one  *)
(* server, and a row keeps its shape whichever columns a commit writes.    *)
THEOREM TypeCorrect == Spec => []TypeOK
  <1>1. Inv => TypeOK
    BY DEF Inv, RegistryOK, TasksOK, TaskOK, TypeOK
  <1> QED BY <1>1, Invariance, PTL

(* A row that lists another backend's models, or lists models beside an    *)
(* error, was edited, blocked or written from an outdated load, whatever   *)
(* the tasks, their sessions and the edits.                                *)
THEOREM WrongRows == Spec => []WrongRowsExplained
  <1>1. Inv => WrongRowsExplained
    BY DEF Inv
  <1> QED BY <1>1, Invariance, PTL

-----------------------------------------------------------------------------
(* Termination.  A visit takes a query, a commit and, after a success, a   *)
(* refresh; StepsLeft bounds the steps that a task still takes.            *)
StepsLeft(t) ==
    CASE pc[t] = "next" -> 3 * Cardinality(todo[t]) + 1
      [] pc[t] = "saved" -> 3 * Cardinality(todo[t]) + 2
      [] pc[t] = "fetch" -> 3 * Cardinality(todo[t]) + 3
      [] OTHER -> 0

LEMMA TodoFinite ==
  ASSUME TasksOK, NEW t \in Tasks
  PROVE  /\ IsFiniteSet(todo[t])
         /\ Cardinality(todo[t]) \in Nat
         /\ Cardinality(todo[t]) <= Cardinality(Servers)
         /\ Cardinality(Servers) \in Nat
  <1>1. todo[t] \in SUBSET Servers
    BY DEF TasksOK
  <1> QED BY <1>1, ServersAssumption, FS_Subset, FS_CardinalityType

(* A visit that is over, one way or the other.                             *)
LEMMA VisitEnds ==
  ASSUME TasksOK, NEW t \in Tasks, pc[t] \in {"fetch", "saved"}, Return(t) \/ Abort(t)
  PROVE  StepsLeft(t)' < StepsLeft(t)
  <1>1. Cardinality(todo[t]) \in Nat
    BY TodoFinite
  <1>2. CASE Return(t)
    <2>1. pc'[t] = "next" /\ todo'[t] = todo[t]
      BY <1>2 DEF Return, TasksOK
    <2> QED BY <1>1, <2>1 DEF StepsLeft
  <1>3. CASE Abort(t)
    <2>1. pc'[t] = "idle"
      BY <1>3 DEF Abort, TasksOK
    <2> QED BY <1>1, <2>1 DEF StepsLeft
  <1> QED BY <1>2, <1>3

LEMMA VisitShrinks ==
  ASSUME Inv, NEW t \in Tasks, Visit(t)
  PROVE  StepsLeft(t)' < StepsLeft(t)
  <1>1. TasksOK /\ Cardinality(todo[t]) \in Nat /\ IsFiniteSet(todo[t])
    BY TodoFinite DEF Inv
  <1>2. CASE Load(t)
    <2>1. PICK s \in todo[t] :
            /\ todo' = [todo EXCEPT ![t] = Visited(t, s)]
            /\ \/ pc' = [pc EXCEPT ![t] = "fetch"]
               \/ UNCHANGED pc
      BY <1>2 DEF Load
    <2>2. todo'[t] = todo[t] \ {s} /\ pc[t] = "next" /\ pc'[t] \in {"next", "fetch"}
      BY <1>1, <1>2, <2>1 DEF Load, Visited, TasksOK
    <2>3. Cardinality(todo'[t]) = Cardinality(todo[t]) - 1
      BY <1>1, <2>2, FS_RemoveElement
    <2> QED BY <1>1, <2>2, <2>3 DEF StepsLeft
  <1>3. CASE Done(t)
    <2>1. pc[t] = "next" /\ pc'[t] = "idle"
      BY <1>1, <1>3 DEF Done, TasksOK
    <2> QED BY <1>1, <2>1 DEF StepsLeft
  <1>4. CASE Save(t)
    <2>1. /\ pc[t] = "fetch"
          /\ \/ pc' = [pc EXCEPT ![t] = "saved"] /\ UNCHANGED todo
             \/ Return(t)
             \/ Abort(t)
      BY <1>4 DEF Save, Commit
    <2>2. CASE pc' = [pc EXCEPT ![t] = "saved"] /\ UNCHANGED todo
      <3>1. pc'[t] = "saved" /\ todo'[t] = todo[t]
        BY <1>1, <2>2 DEF TasksOK
      <3> QED BY <1>1, <2>1, <3>1 DEF StepsLeft
    <2> QED BY <1>1, <2>1, <2>2, VisitEnds
  <1>5. CASE Refresh(t)
    BY <1>1, <1>5, VisitEnds DEF Refresh
  <1> QED BY <1>2, <1>3, <1>4, <1>5 DEF Visit

LEMMA OthersLeaveTask ==
  ASSUME Inv, Next, NEW t \in Tasks, ~Visit(t), pc[t] # "idle"
  PROVE  StepsLeft(t)' = StepsLeft(t)
  <1>1. pc'[t] = pc[t] /\ todo'[t] = todo[t]
    <2>1. ASSUME NEW u \in Tasks, Visit(u) \/ \E S, loaded : Begin(u, S, loaded)
          PROVE  pc'[t] = pc[t] /\ todo'[t] = todo[t]
      <3>1. u # t
        BY <2>1 DEF Begin
      <3>2. /\ UNCHANGED pc \/ \E x : pc' = [pc EXCEPT ![u] = x]
            /\ UNCHANGED todo \/ \E x : todo' = [todo EXCEPT ![u] = x]
        BY <2>1 DEF Begin, Visit, Load, Done, Save, Refresh, Commit, Return, Abort
      <3> QED BY <3>1, <3>2 DEF Inv, TasksOK
    <2>2. ASSUME Edit PROVE UNCHANGED <<pc, todo>>
      BY <2>2 DEF Edit
    <2> QED BY <2>1, <2>2 DEF Next, StartSweep, StartAdmin, Tasks, Create, Update, Delete
  <1> QED BY <1>1 DEF StepsLeft

(* A task never has more than three steps before it for each server there  *)
(* may be, and three more; it is over when none is left.                   *)
SweepsBounded ==
    \A t \in Tasks :
        /\ StepsLeft(t) \in 0 .. 3 * Cardinality(Servers) + 3
        /\ StepsLeft(t) = 0 => pc[t] = "idle"

(* Servers that are created while a sweep runs do not prolong it:          *)
(* refresh_all_server_models lists the servers once.                       *)
THEOREM SweepsAreBounded == Spec => []SweepsBounded
  <1>1. Inv => SweepsBounded
    <2> SUFFICES ASSUME Inv, NEW t \in Tasks
                 PROVE  /\ StepsLeft(t) \in 0 .. 3 * Cardinality(Servers) + 3
                        /\ StepsLeft(t) = 0 => pc[t] = "idle"
      BY DEF SweepsBounded
    <2>1. /\ Cardinality(todo[t]) \in Nat /\ Cardinality(Servers) \in Nat
          /\ Cardinality(todo[t]) <= Cardinality(Servers)
          /\ pc[t] \in {"idle", "next", "fetch", "saved"}
      BY TodoFinite DEF Inv, TasksOK
    <2> QED BY <2>1 DEF StepsLeft
  <1> QED BY <1>1, Invariance, PTL

(* Every step of a sweep leaves it fewer to take, and nothing that other   *)
(* tasks or an administrator do, deleting its servers or adding others,    *)
(* gives it more: the safety half of EverySweepEnds.                       *)
SweepsShrink ==
    [][\A t \in Tasks :
        /\ Visit(t) => StepsLeft(t)' < StepsLeft(t)
        /\ pc[t] # "idle" /\ ~Visit(t) => StepsLeft(t)' = StepsLeft(t)]_vars

(* A visit ends with a commit, a rollback or an exception, and each of     *)
(* them brings the sweep nearer to its end.                                *)
THEOREM SweepsDoShrink == Spec => SweepsShrink
  <1>1. Inv /\ [Next]_vars =>
          [\A t \in Tasks :
              /\ Visit(t) => StepsLeft(t)' < StepsLeft(t)
              /\ pc[t] # "idle" /\ ~Visit(t) => StepsLeft(t)' = StepsLeft(t)]_vars
    BY VisitShrinks, OthersLeaveTask
  <1> QED BY <1>1, Invariance, PTL DEF Spec, SweepsShrink

=============================================================================
