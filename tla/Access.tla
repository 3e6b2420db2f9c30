------------------------------- MODULE Access -------------------------------
(***************************************************************************)
(* API keys: the administrator's handlers that create, toggle, revoke and  *)
(* delete them, and the dependencies a proxied request passes, key check   *)
(* and rate limiter.  A handler has its own session and loses control at   *)
(* every statement, so handlers act on rows that changed since they read   *)
(* them; no statement is part of a longer lock.  The database is SQLite as *)
(* the default DATABASE_URL has it: foreign keys are not enforced.  Secret *)
(* checks are left out: the requests modelled know their key's secret.     *)
(***************************************************************************)
EXTENDS Integers, FiniteSets

CONSTANTS
    Users,     \* accounts that are not administrators
    Keys,      \* the keys a run may create
    Owner,     \* Owner[k]: the user k is created for
    Name,      \* Name[k]: its key_name
    Handlers,  \* administrator requests under way at a time
    Requests,  \* proxied requests under way at a time
    Limit,     \* requests allowed in a window
    Window,    \* length of the window
    MaxHits    \* bound on the count of a window

ASSUME OwnerAssumption == Owner \in [Keys -> Users]
ASSUME LimitAssumption ==
    /\ Limit \in Nat
    /\ Window \in Nat \ {0}
    /\ MaxHits \in Nat

VARIABLES
    users,    \* rows of table users
    unused,   \* keys not created yet
    rows,     \* rows of table api_keys
    active,   \* those with is_active
    revoked,  \* those with is_revoked
    task,     \* task[h]: what a handler is about to write, from what it read
    hits,     \* hits[k]: the Redis counter rate_limit:<prefix>, 0 for none
    ttl,      \* ttl[k]: what is left of its expiry, 0 for none
    pc,       \* where a request is
    key,      \* the key it carries
    late,     \* history: the key was revoked when the request arrived
    count,    \* current_requests
    lost      \* history: the counters whose window was opened and given no end

keyRows == <<users, unused, rows, active, revoked>>
redis   == <<hits, ttl>>
request == <<pc, key, late, count>>
vars    == <<keyRows, task, redis, request, lost>>

NoTask == [op |-> "none"]

Tasks ==
    {NoTask}
        \union [op : {"create", "revoke"}, key : Keys]
        \union [op : {"toggle"}, key : Keys, to : BOOLEAN]
        \union [op : {"delete"}, user : Users, keys : SUBSET Keys]

Init ==
    /\ users = Users
    /\ unused = Keys
    /\ rows = {} /\ active = {} /\ revoked = {}
    /\ task = [h \in Handlers |-> NoTask]
    /\ hits = [k \in Keys |-> 0]
    /\ ttl = [k \in Keys |-> 0]
    /\ pc = [r \in Requests |-> "idle"]
    /\ key \in {[r \in Requests |-> k] : k \in Keys}
    /\ late = [r \in Requests |-> FALSE]
    /\ count = [r \in Requests |-> 0]
    /\ lost = {}

-----------------------------------------------------------------------------

Plan(h, t) ==
    /\ task[h] = NoTask
    /\ task' = [task EXCEPT ![h] = t]
    /\ UNCHANGED <<keyRows, redis, request, lost>>

Done(h) == task' = [task EXCEPT ![h] = NoTask]

NameTaken(k) == \E x \in rows : Owner[x] = Owner[k] /\ Name[x] = Name[k]

(* create_user_api_key looks for a key of that name, never for the user.   *)
CreateChecks(h, k) ==
    /\ k \in unused
    /\ \A g \in Handlers : task[g] # [op |-> "create", key |-> k]
    /\ ~NameTaken(k)
    /\ Plan(h, [op |-> "create", key |-> k])

(* uq_user_key_name makes the insert fail when the name is taken by now.   *)
NeverTaken(k) == FALSE
InsertFails(k) == NameTaken(k)

CreateInserts(h) ==
    /\ task[h].op = "create"
    /\ LET k == task[h].key
       IN  /\ unused' = unused \ {k}
           /\ rows' = IF InsertFails(k) THEN rows ELSE rows \union {k}
           /\ active' = IF InsertFails(k) THEN active ELSE active \union {k}
    /\ Done(h)
    /\ UNCHANGED <<users, revoked, redis, request, lost>>

(* toggle_api_key_active refuses a missing or a revoked key, ...           *)
ToggleReads(h, k) ==
    /\ k \in rows \ revoked
    /\ Plan(h, [op |-> "toggle", key |-> k, to |-> k \notin active])

(* ... and writes the one column it changed.  A row deleted in between     *)
(* makes the flush raise.                                                  *)
RevokedRowWritten(k) == revoked \ {k}
RevokedColumnKept(k) == revoked

RowAssumed(k) == TRUE
RowMatched(k) == k \in rows

ToggleWrites(h) ==
    /\ task[h].op = "toggle"
    /\ LET k == task[h].key
       IN  IF RowMatched(k)
           THEN /\ active' = IF task[h].to THEN active \union {k} ELSE active \ {k}
                /\ revoked' = RevokedColumnKept(k)
           ELSE UNCHANGED <<active, revoked>>
    /\ Done(h)
    /\ UNCHANGED <<users, unused, rows, redis, request, lost>>

(* revoke_user_api_key: the key exists, then one UPDATE of both columns.   *)
RevokeReads(h, k) ==
    /\ k \in rows
    /\ Plan(h, [op |-> "revoke", key |-> k])

RevokeWrites(h) ==
    /\ task[h].op = "revoke"
    /\ revoked' = revoked \union ({task[h].key} \intersect rows)
    /\ active' = active \ {task[h].key}
    /\ Done(h)
    /\ UNCHANGED <<users, unused, rows, redis, request, lost>>

(* delete_user loads the user's keys, which the ORM's cascade deletes.     *)
DeleteReads(h, u) ==
    /\ u \in users
    /\ Plan(h, [op |-> "delete", user |-> u, keys |-> {k \in rows : Owner[k] = u}])

DeleteWrites(h) ==
    /\ task[h].op = "delete"
    /\ users' = users \ {task[h].user}
    /\ rows' = rows \ task[h].keys
    /\ active' = active \ task[h].keys
    /\ revoked' = revoked \ task[h].keys
    /\ Done(h)
    /\ UNCHANGED <<unused, redis, request, lost>>

(* A handler's worker ends, or its statement fails: nothing is committed.  *)
HandlerEnds(h) ==
    /\ task[h] # NoTask
    /\ Done(h)
    /\ UNCHANGED <<keyRows, redis, request, lost>>

Handle(h) ==
    \/ \E k \in Keys : CreateChecks(h, k) \/ ToggleReads(h, k) \/ RevokeReads(h, k)
    \/ \E u \in Users : DeleteReads(h, u)
    \/ CreateInserts(h) \/ ToggleWrites(h) \/ RevokeWrites(h) \/ DeleteWrites(h)
    \/ HandlerEnds(h)

-----------------------------------------------------------------------------

Goto(r, l) == pc' = [pc EXCEPT ![r] = l]

(* A request arrives with a key that was created.                          *)
Arrive(r, k) ==
    /\ pc[r] \in {"idle", "refused", "admitted"}
    /\ k \notin unused
    /\ Goto(r, "check")
    /\ key' = [key EXCEPT ![r] = k]
    /\ late' = [late EXCEPT ![r] = k \in revoked]
    /\ count' = [count EXCEPT ![r] = 0]
    /\ UNCHANGED <<keyRows, task, redis, lost>>

(* get_valid_api_key's verdict on the row it loads.                        *)
AcceptsActive(k) == k \in active
Accepts(k) == k \in rows /\ k \notin revoked /\ k \in active

Authenticate(r) ==
    /\ pc[r] = "check"
    /\ Goto(r, IF Accepts(key[r]) THEN "incr" ELSE "refused")
    /\ UNCHANGED <<keyRows, task, redis, key, late, count, lost>>

(* rate_limiter: only the first request of a window starts its clock.      *)
AlwaysFirst(n) == TRUE
NeverFirst(n) == FALSE
FirstOfWindow(n) == n = 1

Count(r) ==
    /\ pc[r] = "incr"
    /\ hits[key[r]] < MaxHits
    /\ hits' = [hits EXCEPT ![key[r]] = @ + 1]
    /\ count' = [count EXCEPT ![r] = hits[key[r]] + 1]
    /\ Goto(r, IF FirstOfWindow(hits[key[r]] + 1) THEN "expire" ELSE "judge")
    /\ UNCHANGED <<keyRows, task, ttl, key, late, lost>>

ClockSet(r) == ttl' = IF hits[key[r]] = 0 THEN ttl ELSE [ttl EXCEPT ![key[r]] = Window]

Expire(r) ==
    /\ pc[r] = "expire"
    /\ ClockSet(r)
    /\ Goto(r, "judge")
    /\ UNCHANGED <<keyRows, task, hits, key, late, count, lost>>

(* Over the limit an HTTPException is raised, which the handler below it   *)
(* takes for a failure of Redis; every request goes on to the backend.     *)
Judge(r) ==
    /\ pc[r] = "judge"
    /\ Goto(r, "admitted")
    /\ UNCHANGED <<keyRows, task, redis, key, late, count, lost>>

(* A call to Redis fails before Redis has done it, or its answer is lost   *)
(* afterwards: either way the limiter lets the request pass.               *)
NotDone(r) ==
    /\ pc[r] \in {"incr", "expire"}
    /\ lost' = IF pc[r] = "expire" THEN lost \union {key[r]} ELSE lost
    /\ UNCHANGED redis

CountedUnheard(r) ==
    /\ pc[r] = "incr"
    /\ hits[key[r]] < MaxHits
    /\ hits' = [hits EXCEPT ![key[r]] = @ + 1]
    /\ lost' = IF hits[key[r]] = 0 THEN lost \union {key[r]} ELSE lost
    /\ UNCHANGED ttl

StartedUnheard(r) == pc[r] = "expire" /\ ClockSet(r) /\ UNCHANGED <<hits, lost>>

RedisFails(r) ==
    /\ NotDone(r) \/ CountedUnheard(r) \/ StartedUnheard(r)
    /\ Goto(r, "admitted")
    /\ UNCHANGED <<keyRows, task, key, late, count>>

(* Time passes in Redis; a counter whose time is up is gone.               *)
Tick ==
    /\ \E k \in Keys : ttl[k] > 0
    /\ ttl' = [k \in Keys |-> IF ttl[k] > 0 THEN ttl[k] - 1 ELSE 0]
    /\ hits' = [k \in Keys |-> IF ttl[k] = 1 THEN 0 ELSE hits[k]]
    /\ UNCHANGED <<keyRows, task, request, lost>>

(* The worker that serves a request ends, and the request with it.         *)
WorkerEnds(r) ==
    /\ pc[r] \in {"check", "incr", "expire", "judge"}
    /\ lost' = IF pc[r] = "expire" THEN lost \union {key[r]} ELSE lost
    /\ Goto(r, "idle")
    /\ UNCHANGED <<keyRows, task, redis, key, late, count>>

Pass(r) == Authenticate(r) \/ Count(r) \/ Expire(r) \/ Judge(r) \/ RedisFails(r) \/ WorkerEnds(r)

Next ==
    \/ \E h \in Handlers : Handle(h)
    \/ \E r \in Requests : Pass(r) \/ \E k \in Keys : Arrive(r, k)
    \/ Tick

Spec == Init /\ [][Next]_vars

-----------------------------------------------------------------------------

(* The variables have their types; only rows are active or revoked.        *)
TypeOK ==
    /\ users \subseteq Users
    /\ unused \subseteq Keys
    /\ rows \subseteq Keys \ unused
    /\ active \subseteq rows
    /\ revoked \subseteq rows
    /\ task \in [Handlers -> Tasks]
    /\ hits \in [Keys -> 0..MaxHits]
    /\ ttl \in [Keys -> 0..Window]
    /\ pc \in [Requests -> {"idle", "check", "incr", "expire", "judge", "refused", "admitted"}]
    /\ key \in [Requests -> Keys]
    /\ late \in [Requests -> BOOLEAN]
    /\ count \in [Requests -> 0..MaxHits]
    /\ lost \subseteq Keys

(* A request that arrives after its key's revocation is committed is never *)
(* let through, whatever other handlers write to the row afterwards from   *)
(* what they read before.                                                  *)
RevokedStaysOut == \A r \in Requests : late[r] => pc[r] \in {"check", "refused", "idle"}

(* Two handlers that both saw a name free do not both create it: a user's  *)
(* keys can be told apart by name.                                         *)
NamesUnique ==
    \A j, k \in rows : Owner[j] = Owner[k] /\ Name[j] = Name[k] => j = k

(* Requests do not prolong a running window: a key in steady use gets a    *)
(* new allowance when the window that its first request opened is over.    *)
WindowNotExtended == [][\A k \in Keys : ttl[k] > 0 => ttl'[k] <= ttl[k]]_vars

(* A counter is without an expiry while the request that opened its window *)
(* is about to give it one, and for ever if that request was cut short     *)
(* between its two calls: EXPIRE not done, INCR done with its answer lost, *)
(* or the worker ended.  No other way of losing calls or workers, and no   *)
(* other request, leaves or mends such a counter.                          *)
EndlessIffCutShort ==
    \A k \in Keys :
        (hits[k] > 0 /\ ttl[k] = 0)
            <=> (k \in lost \/ \E r \in Requests : pc[r] = "expire" /\ key[r] = k)

(* README.md, "Rate Limiting": within a window no more than Limit requests *)
(* pass the limiter.                                                       *)
RateLimitEnforced == \A r \in Requests : pc[r] = "admitted" => count[r] <= Limit

(* apikey_crud.py, "Revoking also deactivates".                            *)
RevokedIsInactive == revoked \intersect active = {}
=============================================================================
