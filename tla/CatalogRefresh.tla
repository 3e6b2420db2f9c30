--------------------------- MODULE CatalogRefresh ---------------------------
(***************************************************************************)
(* The model lists of the server registry and the tasks that refresh them: *)
(* the sweep every worker runs at startup and then periodically, and the   *)
(* administrator's refresh of one server.  Each task has a session of its  *)
(* own, and the session decides what a commit writes: the columns whose    *)
(* value differs from the one the session loaded, WHERE id = that row's.   *)
(* Nobody else's write in between is noticed.  A NULL column is {}, a set  *)
(* column a singleton; the timestamp of a success is left out but for the  *)
(* fact that it makes every success an UPDATE.                             *)
(***************************************************************************)
EXTENDS FiniteSets, Naturals, Functions

CONSTANTS
    Servers,   \* ids; SQLite gives the id of a deleted last row out again
    Urls,      \* addresses of backends
    Versions,  \* the lists a backend may report over time
    Errors,    \* messages of failed fetches
    Sweeps,    \* tasks in refresh_all_server_models, of all workers
    Admins,    \* requests that refresh one server
    MaxEdits   \* bound on changes by the administrator

ASSUME ServersAssumption == IsFiniteSet(Servers)
ASSUME EditsAssumption == MaxEdits \in Nat

Tasks == Sweeps \union Admins

ModelLists == [url : Urls, version : Versions]

Rows ==
    [url : Urls,
     models : {{}} \union {{l} : l \in ModelLists},
     error : {{}} \union {{e} : e \in Errors}]

NewRow(u) == [url |-> u, models |-> {}, error |-> {}]

VARIABLES
    row,       \* ollama_servers: id -> url, available_models, last_error
    doubtful,  \* history: rows edited, blocked or written by a refresh whose
               \* session had outdated values, since their last good refresh
    edits,
    pc,        \* where a task is
    todo,      \* the servers it has still to visit
    held,      \* the rows its session keeps as it loaded them
    visit      \* the visit in progress, if any: the server, the loaded row

vars == <<row, doubtful, edits, pc, todo, held, visit>>

present == DOMAIN row

Init ==
    /\ row \in UNION {[S -> {NewRow(u) : u \in Urls}] : S \in SUBSET Servers}
    /\ \A s, t \in present : row[s].url = row[t].url => s = t
    /\ doubtful = {}
    /\ edits = 0
    /\ pc = [t \in Tasks |-> "idle"]
    /\ todo = [t \in Tasks |-> {}]
    /\ held = [t \in Tasks |-> <<>>]
    /\ visit = [t \in Tasks |-> {}]

-----------------------------------------------------------------------------

Loaded(S) == Restrict(row, S)

Begin(t, S, loaded) ==
    /\ pc[t] = "idle"
    /\ pc' = [pc EXCEPT ![t] = "next"]
    /\ todo' = [todo EXCEPT ![t] = S]
    /\ held' = [held EXCEPT ![t] = loaded]
    /\ UNCHANGED <<row, doubtful, edits, visit>>

(* refresh_all_server_models: get_servers loads every row.  (It leaves out *)
(* inactive servers; no handler ever makes one.)                           *)
StartSweep(t) == Begin(t, present, Loaded(present))

(* The handlers of the administrator.  Those that pull or delete a model   *)
(* load the row first and keep it during that long call to the server.     *)
StartAdmin(t) ==
    \E s \in Servers :
        \/ Begin(t, {s}, <<>>)
        \/ s \in present /\ Begin(t, {s}, Loaded({s}))

(* get_server_by_id.  A query does not renew rows that the session keeps;  *)
(* a row that is gone ends the visit with "Server not found".              *)
VisitedIfFound(t, s) == IF s \in present THEN todo[t] \ {s} ELSE todo[t]
Visited(t, s) == todo[t] \ {s}

Load(t) ==
    /\ pc[t] = "next"
    /\ \E s \in todo[t] :
        /\ todo' = [todo EXCEPT ![t] = Visited(t, s)]
        /\ IF s \in present
           THEN /\ pc' = [pc EXCEPT ![t] = "fetch"]
                /\ visit' = [visit EXCEPT ![t] =
                       {[server |-> s,
                         base |-> IF s \in DOMAIN held[t] THEN held[t][s] ELSE row[s]]}]
           ELSE UNCHANGED <<pc, visit>>
    /\ UNCHANGED <<row, doubtful, edits, held>>

Done(t) ==
    /\ pc[t] = "next"
    /\ todo[t] = {}
    /\ pc' = [pc EXCEPT ![t] = "idle"]
    /\ held' = [held EXCEPT ![t] = <<>>]
    /\ UNCHANGED <<row, doubtful, edits, todo, visit>>

(* An exception leaves fetch_and_update_models, and with it the sweep: the *)
(* periodic task logs it and sleeps, a startup fails.                      *)
Abort(t) ==
    /\ pc' = [pc EXCEPT ![t] = "idle"]
    /\ todo' = [todo EXCEPT ![t] = {}]
    /\ held' = [held EXCEPT ![t] = <<>>]
    /\ visit' = [visit EXCEPT ![t] = {}]

Return(t) ==
    /\ pc' = [pc EXCEPT ![t] = "next"]
    /\ visit' = [visit EXCEPT ![t] = {}]
    /\ UNCHANGED todo

(* What a visit makes of the row its session has.                          *)
ModelsKept(b, e) == [b EXCEPT !.error = {e}]
Appended(b, v) ==
    [b EXCEPT !.models = @ \union {[url |-> b.url, version |-> v]}, !.error = {}]
Succeeded(b, v) ==
    [url |-> b.url, models |-> {[url |-> b.url, version |-> v]}, error |-> {}]
Failed(b, e) == [url |-> b.url, models |-> {}, error |-> {e}]
Blocked(b, e) == [b EXCEPT !.error = {e}]

(* The value of a column after the commit of a session that loaded b.      *)
ChangedColumn(stored, b, new) == IF new = b THEN stored ELSE new

Written(stored, b, new) ==
    [url |-> stored.url,
     models |-> ChangedColumn(stored.models, b.models, new.models),
     error |-> ChangedColumn(stored.error, b.error, new.error)]

(* db.commit() on the row of the visited server.  An UPDATE that matches   *)
(* no row raises, as does one that the database refuses; the handler of    *)
(* that exception reads the expired server.name, which raises again.       *)
Commit(t, s, b, new, kind) ==
    LET update == kind = "success" \/ new # b
    IN  \/ /\ update /\ s \in present
           /\ row' = [row EXCEPT ![s] = Written(@, b, new)]
           /\ doubtful' = IF row[s] = b /\ kind # "blocked" THEN doubtful \ {s}
                                                             ELSE doubtful \union {s}
           /\ held' = [held EXCEPT ![t] = <<>>]
           /\ IF kind = "success"
              THEN pc' = [pc EXCEPT ![t] = "saved"] /\ UNCHANGED <<todo, visit>>
              ELSE Return(t)
        \/ /\ ~update
           /\ held' = [held EXCEPT ![t] = <<>>]
           /\ Return(t)
           /\ UNCHANGED <<row, doubtful>>
        \/ /\ update
           /\ Abort(t)
           /\ UNCHANGED <<row, doubtful>>

(* The fetch ends with a list, with any error, or was never made because   *)
(* _is_safe_url refused the address.                                       *)
Save(t) ==
    /\ pc[t] = "fetch"
    /\ \E x \in visit[t] :
        \/ \E v \in Versions :
              Commit(t, x.server, x.base, Succeeded(x.base, v), "success")
        \/ \E e \in Errors :
              \/ Commit(t, x.server, x.base, Failed(x.base, e), "failure")
              \/ Commit(t, x.server, x.base, Blocked(x.base, e), "blocked")
    /\ UNCHANGED edits

(* db.refresh(server) after a success.                                     *)
Refresh(t) ==
    /\ pc[t] = "saved"
    /\ \E x \in visit[t] :
        IF x.server \in present THEN Return(t) /\ UNCHANGED held ELSE Abort(t)
    /\ UNCHANGED <<row, doubtful, edits>>

Visit(t) == Load(t) \/ Done(t) \/ Save(t) \/ Refresh(t)

-----------------------------------------------------------------------------

(* The administrator's handlers on rows; urls are unique.                  *)
Unused(u) == \A s \in present : row[s].url # u

Edit ==
    /\ edits < MaxEdits
    /\ edits' = edits + 1
    /\ UNCHANGED <<pc, todo, held, visit>>

Create(s, u) ==
    /\ s \notin present
    /\ Unused(u)
    /\ row' = [x \in present \union {s} |-> IF x = s THEN NewRow(u) ELSE row[x]]
    /\ Edit
    /\ UNCHANGED doubtful

Update(s, u) ==
    /\ s \in present
    /\ Unused(u)
    /\ row' = [row EXCEPT ![s].url = u]
    /\ doubtful' = doubtful \union {s}
    /\ Edit

Delete(s) ==
    /\ s \in present
    /\ row' = Restrict(row, present \ {s})
    /\ doubtful' = doubtful \ {s}
    /\ Edit

Next ==
    \/ \E t \in Sweeps : StartSweep(t)
    \/ \E t \in Admins : StartAdmin(t)
    \/ \E t \in Tasks : Visit(t)
    \/ \E s \in Servers, u \in Urls : Create(s, u) \/ Update(s, u)
    \/ \E s \in Servers : Delete(s)

(* A fetch has a timeout and the database a busy timeout.  Nothing is      *)
(* assumed of the administrators' requests.                                *)
Spec == Init /\ [][Next]_vars /\ \A t \in Sweeps : WF_vars(Visit(t))

-----------------------------------------------------------------------------

(* The variables have their types; a task that fetches or has saved visits *)
(* one server.                                                             *)
TypeOK ==
    /\ present \subseteq Servers
    /\ row \in [present -> Rows]
    /\ doubtful \subseteq present
    /\ edits \in 0..MaxEdits
    /\ pc \in [Tasks -> {"idle", "next", "fetch", "saved"}]
    /\ todo \in [Tasks -> SUBSET Servers]
    /\ \A t \in Tasks :
        /\ DOMAIN held[t] \subseteq Servers
        /\ \A s \in DOMAIN held[t] : held[t][s] \in Rows
        /\ (visit[t] # {}) <=> pc[t] \in {"fetch", "saved"}
        /\ \A x, y \in visit[t] : x = y
        /\ visit[t] \subseteq [server : Servers, base : Rows]

(* A list belongs to the backend at the row's address, and there is none   *)
(* beside an error.                                                        *)
Sound(r) == r.models # {} => r.error = {} /\ \A l \in r.models : l.url = r.url

(* A row that lists another backend's models, or lists models beside an    *)
(* error, was edited, blocked or refreshed by two tasks at once; the next  *)
(* refresh that nobody disturbs mends it, whatever went wrong before.      *)
WrongRowsExplained == \A s \in present \ doubtful : Sound(row[s])

(* A sweep that has begun ends, servers deleted under it or not, so that   *)
(* the periodic refresh goes on; it needs nothing of the administrators.   *)
EverySweepEnds == \A t \in Sweeps : pc[t] # "idle" ~> pc[t] = "idle"
=============================================================================
