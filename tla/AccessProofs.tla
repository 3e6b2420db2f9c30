---------------------------- MODULE AccessProofs ----------------------------
(***************************************************************************)
(* Proofs about Access, for any number of users, keys, handlers and        *)
(* requests that interleave at every statement.                            *)
(***************************************************************************)
EXTENDS Access, TLAPS

(* What a handler is about to write belongs to the tables it read.         *)
LEMMA TaskTypes ==
  ASSUME TypeOK, NEW h \in Handlers
  PROVE  /\ task[h].op \in {"create", "toggle", "revoke"} => task[h].key \in Keys
         /\ task[h].op = "toggle" => task[h].to \in BOOLEAN
         /\ task[h].op = "delete" => task[h].user \in Users /\ task[h].keys \subseteq Keys
  <1>1. task[h] \in Tasks
    BY DEF TypeOK
  <1>2. CASE task[h] = NoTask
    BY <1>2 DEF NoTask
  <1>3. CASE task[h] \in [op : {"create", "revoke"}, key : Keys]
    BY <1>3
  <1>4. CASE task[h] \in [op : {"toggle"}, key : Keys, to : BOOLEAN]
    BY <1>4
  <1>5. CASE task[h] \in [op : {"delete"}, user : Users, keys : SUBSET Keys]
    BY <1>5
  <1> QED BY <1>1, <1>2, <1>3, <1>4, <1>5 DEF Tasks

(* A handler that plans something, or is done, changes its own task only.  *)
LEMMA PlanType ==
  ASSUME TypeOK, NEW h \in Handlers, NEW t \in Tasks, Plan(h, t)
  PROVE  TypeOK'
  BY DEF Plan, TypeOK, keyRows, redis, request

LEMMA DoneType ==
  ASSUME TypeOK, NEW h \in Handlers, Done(h)
  PROVE  task' \in [Handlers -> Tasks]
  BY DEF Done, TypeOK, Tasks

(* Nothing is in the tables at first, and no request under way.            *)
LEMMA TypeInit == Init => TypeOK
  <1> SUFFICES ASSUME Init PROVE TypeOK
    OBVIOUS
  <1>1. task \in [Handlers -> Tasks]
    BY DEF Init, Tasks
  <1>2. key \in [Requests -> Keys]
    BY DEF Init
  <1>3. hits \in [Keys -> 0..MaxHits] /\ ttl \in [Keys -> 0..Window]
        /\ count \in [Requests -> 0..MaxHits]
    BY LimitAssumption DEF Init
  <1> QED BY <1>1, <1>2, <1>3 DEF Init, TypeOK

(* Every step of a handler, of a request and of the clock keeps the types. *)
LEMMA TypeStep == TypeOK /\ [Next]_vars => TypeOK'
  <1> SUFFICES ASSUME TypeOK, [Next]_vars PROVE TypeOK'
    OBVIOUS
  <1> USE LimitAssumption
  <1>1. ASSUME NEW h \in Handlers, NEW k \in Keys,
               CreateChecks(h, k) \/ ToggleReads(h, k) \/ RevokeReads(h, k)
        PROVE  TypeOK'
    <2>1. /\ [op |-> "create", key |-> k] \in Tasks
          /\ [op |-> "revoke", key |-> k] \in Tasks
          /\ [op |-> "toggle", key |-> k, to |-> k \notin active] \in Tasks
      BY DEF Tasks
    <2> QED BY <1>1, <2>1, PlanType DEF CreateChecks, ToggleReads, RevokeReads
  <1>2. ASSUME NEW h \in Handlers, NEW u \in Users, DeleteReads(h, u)
        PROVE  TypeOK'
    <2>1. [op |-> "delete", user |-> u, keys |-> {k \in rows : Owner[k] = u}] \in Tasks
      BY DEF Tasks, TypeOK
    <2> QED BY <1>2, <2>1, PlanType DEF DeleteReads
  <1>3. ASSUME NEW h \in Handlers, CreateInserts(h) PROVE TypeOK'
    BY <1>3, TaskTypes, DoneType DEF CreateInserts, TypeOK, redis, request
  <1>4. ASSUME NEW h \in Handlers, ToggleWrites(h) PROVE TypeOK'
    <2>1. active' \subseteq rows /\ revoked' \subseteq rows
      BY <1>4 DEF ToggleWrites, RowMatched, RevokedColumnKept, TypeOK
    <2> QED BY <1>4, <2>1, DoneType DEF ToggleWrites, TypeOK, redis, request
  <1>5. ASSUME NEW h \in Handlers, RevokeWrites(h) PROVE TypeOK'
    BY <1>5, DoneType DEF RevokeWrites, TypeOK, redis, request
  <1>6. ASSUME NEW h \in Handlers, DeleteWrites(h) PROVE TypeOK'
    BY <1>6, DoneType DEF DeleteWrites, TypeOK, redis, request
  <1>7. ASSUME NEW r \in Requests, NEW k \in Keys, Arrive(r, k) PROVE TypeOK'
    BY <1>7 DEF Arrive, Goto, TypeOK, keyRows, redis
  <1>8. ASSUME NEW r \in Requests, Authenticate(r) \/ Judge(r) \/ WorkerEnds(r)
        PROVE  TypeOK'
    BY <1>8 DEF Authenticate, Judge, WorkerEnds, Goto, TypeOK, keyRows, redis
  <1>9. ASSUME NEW r \in Requests, hits[key[r]] < MaxHits PROVE hits[key[r]] + 1 \in 0..MaxHits
    BY <1>9 DEF TypeOK
  <1>10. ASSUME NEW r \in Requests, Count(r) PROVE TypeOK'
    BY <1>9, <1>10 DEF Count, Goto, TypeOK, keyRows
  <1>11. ASSUME NEW r \in Requests, Expire(r) PROVE TypeOK'
    BY <1>11 DEF Expire, ClockSet, Goto, TypeOK, keyRows
  <1>12. ASSUME NEW r \in Requests, RedisFails(r) PROVE TypeOK'
    <2>1. hits' \in [Keys -> 0..MaxHits] /\ ttl' \in [Keys -> 0..Window] /\ lost' \subseteq Keys
      BY <1>9, <1>12 DEF RedisFails, NotDone, CountedUnheard, StartedUnheard, ClockSet, TypeOK,
                         redis
    <2> QED BY <1>12, <2>1 DEF RedisFails, Goto, TypeOK, keyRows
  <1>13. ASSUME NEW h \in Handlers, HandlerEnds(h) PROVE TypeOK'
    BY <1>13, DoneType DEF HandlerEnds, TypeOK, keyRows, redis, request
  <1>14. CASE Tick
    BY <1>14 DEF Tick, TypeOK, keyRows, request
  <1>15. CASE UNCHANGED vars
    BY <1>15 DEF vars, keyRows, redis, request, TypeOK
  <1> QED
    BY <1>1, <1>2, <1>3, <1>4, <1>5, <1>6, <1>7, <1>8, <1>10, <1>11, <1>12, <1>13, <1>14,
       <1>15 DEF Next, Handle, Pass

(* The tables, counters, tasks and requests keep their types.              *)
THEOREM TypeCorrect == Spec => []TypeOK
  BY TypeInit, TypeStep, PTL DEF Spec

-----------------------------------------------------------------------------
(* Names.  The unique constraint decides at the insert, so the property is *)
(* inductive by itself.                                                    *)
LEMMA NamesStep == TypeOK /\ NamesUnique /\ [Next]_vars => NamesUnique'
  <1> SUFFICES ASSUME TypeOK, NamesUnique, [Next]_vars PROVE NamesUnique'
    OBVIOUS
  <1>1. CASE rows' \subseteq rows
    BY <1>1 DEF NamesUnique
  <1>2. ASSUME NEW h \in Handlers, CreateInserts(h) PROVE NamesUnique'
    BY <1>2 DEF CreateInserts, InsertFails, NameTaken, NamesUnique
  <1>3. rows' \subseteq rows \/ \E h \in Handlers : CreateInserts(h)
    BY DEF Next, Handle, Pass, vars, keyRows, CreateChecks, ToggleReads, RevokeReads,
           DeleteReads, Plan, ToggleWrites, RevokeWrites, DeleteWrites, HandlerEnds, Arrive,
           Authenticate, Count, Expire, Judge, RedisFails, WorkerEnds, Tick
  <1> QED BY <1>1, <1>2, <1>3

(* Whatever handlers raced for a name, one of them created its key.        *)
THEOREM NamesStayUnique == Spec => []NamesUnique
  <1>1. Init => NamesUnique
    BY DEF Init, NamesUnique
  <1> QED BY <1>1, TypeInit, TypeStep, NamesStep, PTL DEF Spec

-----------------------------------------------------------------------------
(* Revocation.  A key that was revoked, or whose row is gone, has no way   *)
(* back: rows are inserted for unused keys only.  Two handlers never hold  *)
(* the same key for creation, as each makes a new one.                     *)
Refused(k) == k \notin unused /\ (k \in revoked \/ k \notin rows)

CreateUnused ==
    \A g, h \in Handlers :
        task[g].op = "create" =>
            /\ task[g].key \in unused
            /\ task[h].op = "create" /\ task[h].key = task[g].key => g = h

LateRefused ==
    \A r \in Requests :
        late[r] => pc[r] \in {"refused", "idle"} \/ (pc[r] = "check" /\ Refused(key[r]))

RevocationInv == TypeOK /\ CreateUnused /\ LateRefused

(* A handler that plans or finishes something else does not create.        *)
LEMMA CreateUnusedStep == RevocationInv /\ [Next]_vars => CreateUnused'
  <1> SUFFICES ASSUME RevocationInv, [Next]_vars PROVE CreateUnused'
    OBVIOUS
  <1>0. TypeOK /\ CreateUnused
    BY DEF RevocationInv
  <1>1. ASSUME NEW h \in Handlers, NEW k \in Keys, CreateChecks(h, k)
        PROVE  CreateUnused'
    <2>1. /\ k \in unused /\ unused' = unused
          /\ \A g \in Handlers : task[g] # [op |-> "create", key |-> k]
          /\ task' = [task EXCEPT ![h] = [op |-> "create", key |-> k]]
      BY <1>1 DEF CreateChecks, Plan, keyRows
    <2>2. \A g \in Handlers : task[g].op = "create" => task[g].key # k
      <3> SUFFICES ASSUME NEW g \in Handlers, task[g].op = "create", task[g].key = k
                   PROVE  FALSE
        OBVIOUS
      <3>1. task[g] \in [op : {"create", "revoke"}, key : Keys]
        BY <1>0 DEF TypeOK, Tasks, NoTask
      <3>2. task[g] = [op |-> "create", key |-> k]
        BY <3>1
      <3> QED BY <2>1, <3>2
    <2> QED BY <1>0, <2>1, <2>2 DEF CreateUnused, TypeOK
  <1>2. ASSUME NEW h \in Handlers, task'[h].op # "create",
               \A g \in Handlers \ {h} : task'[g] = task[g], unused' = unused
        PROVE  CreateUnused'
    BY <1>0, <1>2 DEF CreateUnused
  <1>3. ASSUME NEW h \in Handlers, CreateInserts(h) PROVE CreateUnused'
    <2>1. /\ task[h].op = "create" /\ unused' = unused \ {task[h].key}
          /\ task' = [task EXCEPT ![h] = NoTask]
      BY <1>3 DEF CreateInserts, Done
    <2> QED BY <1>0, <2>1 DEF CreateUnused, TypeOK, NoTask
  <1>4. ASSUME NEW h \in Handlers,
               ToggleWrites(h) \/ RevokeWrites(h) \/ DeleteWrites(h) \/ HandlerEnds(h)
        PROVE  CreateUnused'
    <2>1. task' = [task EXCEPT ![h] = NoTask] /\ unused' = unused
      BY <1>4 DEF ToggleWrites, RevokeWrites, DeleteWrites, HandlerEnds, Done, keyRows
    <2> QED BY <1>0, <1>2, <2>1 DEF TypeOK, NoTask
  <1>5. ASSUME NEW h \in Handlers, NEW k \in Keys, ToggleReads(h, k) \/ RevokeReads(h, k)
        PROVE  CreateUnused'
    BY <1>0, <1>2, <1>5 DEF ToggleReads, RevokeReads, Plan, keyRows, TypeOK
  <1>6. ASSUME NEW h \in Handlers, NEW u \in Users, DeleteReads(h, u) PROVE CreateUnused'
    BY <1>0, <1>2, <1>6 DEF DeleteReads, Plan, keyRows, TypeOK
  <1>7. CASE UNCHANGED <<task, unused>>
    BY <1>0, <1>7 DEF CreateUnused
  <1>8. CASE \/ \E r \in Requests : Pass(r) \/ \E k \in Keys : Arrive(r, k)
             \/ Tick \/ UNCHANGED vars
    BY <1>7, <1>8 DEF Pass, Arrive, Authenticate, Count, Expire, Judge, RedisFails, WorkerEnds,
                      Tick, vars, keyRows
  <1> QED BY <1>1, <1>3, <1>4, <1>5, <1>6, <1>8 DEF Next, Handle

(* A key that is refused for good stays so.                                *)
LEMMA RefusedStays ==
  ASSUME RevocationInv, [Next]_vars, NEW k \in Keys, Refused(k)
  PROVE  Refused(k)'
  <1>1. ASSUME NEW h \in Handlers, CreateInserts(h) PROVE Refused(k)'
    <2>1. task[h].op = "create" /\ task[h].key # k
      BY <1>1 DEF CreateInserts, RevocationInv, CreateUnused, Refused
    <2> QED BY <1>1, <2>1 DEF CreateInserts, Refused
  <1>2. ASSUME NEW h \in Handlers, DeleteWrites(h) PROVE Refused(k)'
    BY <1>2 DEF DeleteWrites, Refused
  <1>3. CASE unused' = unused /\ rows' = rows /\ revoked \subseteq revoked'
    BY <1>3 DEF Refused
  <1>4. ASSUME NEW h \in Handlers, ToggleWrites(h) \/ RevokeWrites(h) PROVE Refused(k)'
    BY <1>3, <1>4 DEF ToggleWrites, RevokeWrites, RevokedColumnKept
  <1>5. \/ unused' = unused /\ rows' = rows /\ revoked \subseteq revoked'
        \/ \E h \in Handlers :
               CreateInserts(h) \/ DeleteWrites(h) \/ ToggleWrites(h) \/ RevokeWrites(h)
    BY DEF Next, Handle, Pass, vars, keyRows, CreateChecks, ToggleReads, RevokeReads,
           DeleteReads, Plan, HandlerEnds, Arrive, Authenticate, Count, Expire, Judge,
           RedisFails, WorkerEnds, Tick
  <1> QED BY <1>1, <1>2, <1>3, <1>4, <1>5

(* A request that arrived after the revocation is checked, and refused.    *)
LEMMA LateRefusedStep == RevocationInv /\ [Next]_vars => LateRefused'
  <1> SUFFICES ASSUME RevocationInv, [Next]_vars, NEW q \in Requests, late'[q]
               PROVE  pc'[q] \in {"refused", "idle"} \/ (pc'[q] = "check" /\ Refused(key[q])')
    BY DEF LateRefused, Refused
  <1>0. TypeOK
    BY DEF RevocationInv
  <1>1. CASE pc'[q] = pc[q] /\ key'[q] = key[q] /\ late'[q] = late[q]
    <2>1. key[q] \in Keys
      BY <1>0 DEF TypeOK
    <2>2. pc[q] \in {"refused", "idle"} \/ (pc[q] = "check" /\ Refused(key[q]))
      BY <1>1 DEF RevocationInv, LateRefused
    <2>3. Refused(key[q]) => Refused(key[q])'
      <3> DEFINE k == key[q]
      <3>1. Refused(k) => k \notin unused' /\ (k \in revoked' \/ k \notin rows')
        <4> HIDE DEF k
        <4>1. k \in Keys
          BY <2>1 DEF k
        <4> QED BY <4>1, RefusedStays DEF Refused
      <3> QED BY <1>1, <3>1 DEF Refused
    <2> QED BY <1>1, <2>2, <2>3
  <1>2. ASSUME NEW k \in Keys, Arrive(q, k)
        PROVE  pc'[q] = "check" /\ Refused(key[q])'
    BY <1>0, <1>2 DEF Arrive, Goto, Refused, TypeOK, keyRows
  <1>3. CASE Pass(q)
    <2>1. late[q] /\ key'[q] = key[q]
      BY <1>3 DEF Pass, Authenticate, Count, Expire, Judge, RedisFails, WorkerEnds
    <2>2. pc[q] \in {"refused", "idle"} \/ (pc[q] = "check" /\ Refused(key[q]))
      BY <2>1 DEF RevocationInv, LateRefused
    <2>3. pc[q] = "check" /\ ~Accepts(key[q]) /\ (Authenticate(q) \/ WorkerEnds(q))
      BY <1>3, <2>2 DEF Pass, Authenticate, Count, Expire, Judge, RedisFails, NotDone,
                        CountedUnheard, StartedUnheard, WorkerEnds, Accepts, Refused
    <2> QED BY <1>0, <2>3 DEF Authenticate, WorkerEnds, Goto, TypeOK
  <1>4. \/ pc'[q] = pc[q] /\ key'[q] = key[q] /\ late'[q] = late[q]
        \/ Pass(q)
        \/ \E k \in Keys : Arrive(q, k)
    <2>1. ASSUME NEW r \in Requests, r # q, Pass(r) \/ \E k \in Keys : Arrive(r, k)
          PROVE  pc'[q] = pc[q] /\ key'[q] = key[q] /\ late'[q] = late[q]
      BY <1>0, <2>1 DEF Pass, Arrive, Authenticate, Count, Expire, Judge, RedisFails,
                        WorkerEnds, Goto, TypeOK
    <2>2. CASE \E h \in Handlers : Handle(h)
      BY <2>2 DEF Handle, CreateChecks, ToggleReads, RevokeReads, DeleteReads, Plan,
                  CreateInserts, ToggleWrites, RevokeWrites, DeleteWrites, HandlerEnds, request
    <2>3. CASE Tick \/ UNCHANGED vars
      BY <2>3 DEF Tick, vars, request
    <2> QED BY <2>1, <2>2, <2>3 DEF Next
  <1> QED BY <1>1, <1>2, <1>3, <1>4

(* However toggles, deletions and creations that read earlier are          *)
(* interleaved with it, a revocation keeps later requests out.             *)
THEOREM Revocation == Spec => []RevokedStaysOut
  <1>1. Init => RevocationInv
    BY TypeInit DEF Init, RevocationInv, CreateUnused, LateRefused, NoTask
  <1>2. RevocationInv /\ [Next]_vars => RevocationInv'
    BY TypeStep, CreateUnusedStep, LateRefusedStep DEF RevocationInv
  <1>3. RevocationInv => RevokedStaysOut
    BY DEF RevocationInv, LateRefused, RevokedStaysOut
  <1> QED BY <1>1, <1>2, <1>3, PTL DEF Spec

-----------------------------------------------------------------------------
(* The counters in Redis.  While one request is about to start the clock   *)
(* of a counter, the counter has none and cannot vanish, so that no other  *)
(* request can find it at its first hit; nor can one that was cut short.   *)
ClockCounts == \A k \in Keys : ttl[k] > 0 => hits[k] > 0

OneStarts ==
    \A r \in Requests :
        pc[r] = "expire" =>
            /\ key[r] \notin lost
            /\ \A q \in Requests : pc[q] = "expire" /\ key[q] = key[r] => q = r

CounterInv == TypeOK /\ ClockCounts /\ OneStarts /\ EndlessIffCutShort

(* A call or a process that is cut short before its clock is set.          *)
LEMMA CutStep ==
  ASSUME CounterInv, NEW r \in Requests, UNCHANGED <<redis, key>>,
         pc'[r] # "expire", \A q \in Requests \ {r} : pc'[q] = pc[q],
         lost' = IF pc[r] = "expire" THEN lost \union {key[r]} ELSE lost
  PROVE  ClockCounts' /\ OneStarts' /\ EndlessIffCutShort'
  <1>0. TypeOK /\ ClockCounts /\ OneStarts /\ EndlessIffCutShort
    BY DEF CounterInv
  <1>1. ClockCounts'
    BY <1>0 DEF ClockCounts, redis
  <1>2. OneStarts'
    BY <1>0 DEF OneStarts
  <1>3. EndlessIffCutShort'
    BY <1>0 DEF EndlessIffCutShort, redis
  <1> QED BY <1>1, <1>2, <1>3

(* INCR done: the request goes on to start the clock of a new window, or   *)
(* its answer is lost, and then a new window has no end.                   *)
LEMMA CountStep ==
  ASSUME CounterInv, NEW r \in Requests, pc[r] = "incr",
         hits' = [hits EXCEPT ![key[r]] = @ + 1], UNCHANGED <<ttl, key>>,
         \A q \in Requests \ {r} : pc'[q] = pc[q],
         IF hits[key[r]] = 0
           THEN \/ pc'[r] = "expire" /\ lost' = lost
                \/ pc'[r] # "expire" /\ lost' = lost \union {key[r]}
           ELSE pc'[r] # "expire" /\ lost' = lost
  PROVE  ClockCounts' /\ OneStarts' /\ EndlessIffCutShort'
  <1> DEFINE k == key[r]
  <1>0. TypeOK /\ ClockCounts /\ OneStarts /\ EndlessIffCutShort
    BY DEF CounterInv
  <1>1. k \in Keys /\ k = key[r]
    BY <1>0 DEF TypeOK
  <1> HIDE DEF k
  <1>2. /\ hits'[k] = hits[k] + 1 /\ \A x \in Keys \ {k} : hits'[x] = hits[x]
        /\ \A x \in Keys : hits[x] \in Nat /\ ttl[x] \in Nat /\ ttl'[x] = ttl[x]
    BY <1>0, <1>1 DEF TypeOK
  <1>3. ClockCounts'
    BY <1>0, <1>1, <1>2 DEF ClockCounts
  <1>4. hits[k] = 0 => ttl[k] = 0 /\ k \notin lost
                       /\ \A q \in Requests : pc[q] = "expire" => key[q] # k
    BY <1>0, <1>1, <1>2 DEF ClockCounts, EndlessIffCutShort
  <1>5. OneStarts'
    BY <1>0, <1>1, <1>4 DEF OneStarts
  <1>6. EndlessIffCutShort'
    <2> SUFFICES ASSUME NEW x \in Keys
                 PROVE  (hits'[x] > 0 /\ ttl'[x] = 0)
                            <=> (x \in lost' \/ \E q \in Requests : pc'[q] = "expire" /\ key'[q] = x)
      BY DEF EndlessIffCutShort
    <2>1. (hits[x] > 0 /\ ttl[x] = 0)
              <=> (x \in lost \/ \E q \in Requests : pc[q] = "expire" /\ key[q] = x)
      BY <1>0 DEF EndlessIffCutShort
    <2>2. CASE x # k
      BY <1>1, <1>2, <2>1, <2>2
    <2>3. CASE x = k
      BY <1>1, <1>2, <1>4, <2>1, <2>3
    <2> QED BY <2>2, <2>3
  <1> QED BY <1>3, <1>5, <1>6

(* EXPIRE done, whether or not its answer comes: the window has an end.    *)
LEMMA ClockStep ==
  ASSUME CounterInv, NEW r \in Requests, pc[r] = "expire", ClockSet(r),
         UNCHANGED <<hits, key, lost>>,
         pc'[r] # "expire", \A q \in Requests \ {r} : pc'[q] = pc[q]
  PROVE  ClockCounts' /\ OneStarts' /\ EndlessIffCutShort'
  <1> DEFINE k == key[r]
  <1>0. TypeOK /\ ClockCounts /\ OneStarts /\ EndlessIffCutShort
    BY DEF CounterInv
  <1>1. k \in Keys /\ k = key[r] /\ hits[k] > 0 /\ k \notin lost
    BY <1>0 DEF TypeOK, EndlessIffCutShort, OneStarts
  <1> HIDE DEF k
  <1>2. ttl'[k] > 0 /\ \A x \in Keys \ {k} : ttl'[x] = ttl[x]
    BY <1>0, <1>1, LimitAssumption DEF ClockSet, TypeOK
  <1>3. \A q \in Requests \ {r} : pc[q] = "expire" => key[q] # k
    BY <1>0, <1>1 DEF OneStarts
  <1>4. ClockCounts'
    BY <1>0, <1>1, <1>2 DEF ClockCounts
  <1>5. OneStarts'
    BY <1>0 DEF OneStarts
  <1>6. EndlessIffCutShort'
    BY <1>0, <1>1, <1>2, <1>3 DEF EndlessIffCutShort
  <1> QED BY <1>4, <1>5, <1>6

(* Everything but the limiter and the clock leaves the counters alone.     *)
LEMMA CounterStep == CounterInv /\ [Next]_vars => CounterInv'
  <1> SUFFICES ASSUME CounterInv, [Next]_vars
               PROVE  ClockCounts' /\ OneStarts' /\ EndlessIffCutShort'
    BY TypeStep DEF CounterInv
  <1>0. TypeOK /\ ClockCounts /\ OneStarts /\ EndlessIffCutShort
    BY DEF CounterInv
  <1> USE LimitAssumption
  <1>1. CASE UNCHANGED <<redis, request, lost>>
    BY <1>0, <1>1 DEF ClockCounts, OneStarts, EndlessIffCutShort, redis, request
  <1>2. ASSUME NEW r \in Requests, NotDone(r) /\ Goto(r, "admitted") /\ UNCHANGED key
        PROVE  ClockCounts' /\ OneStarts' /\ EndlessIffCutShort'
    BY <1>0, <1>2, CutStep DEF NotDone, Goto, TypeOK
  <1>3. ASSUME NEW r \in Requests, WorkerEnds(r)
        PROVE  ClockCounts' /\ OneStarts' /\ EndlessIffCutShort'
    BY <1>0, <1>3, CutStep DEF WorkerEnds, Goto, TypeOK
  <1>4. ASSUME NEW r \in Requests, Authenticate(r) \/ Judge(r)
        PROVE  ClockCounts' /\ OneStarts' /\ EndlessIffCutShort'
    BY <1>0, <1>4, CutStep DEF Authenticate, Judge, Goto, TypeOK
  <1>5. ASSUME NEW r \in Requests, NEW k \in Keys, Arrive(r, k)
        PROVE  ClockCounts' /\ OneStarts' /\ EndlessIffCutShort'
    <2>1. /\ UNCHANGED <<redis, lost>> /\ pc[r] # "expire" /\ pc'[r] # "expire"
          /\ \A q \in Requests \ {r} : pc'[q] = pc[q] /\ key'[q] = key[q]
      BY <1>0, <1>5 DEF Arrive, Goto, TypeOK
    <2> QED BY <1>0, <2>1 DEF ClockCounts, OneStarts, EndlessIffCutShort, redis
  <1>6. ASSUME NEW r \in Requests, Count(r)
        PROVE  ClockCounts' /\ OneStarts' /\ EndlessIffCutShort'
    <2>1. hits[key[r]] \in Nat
      BY <1>0 DEF TypeOK
    <2>2. \/ hits[key[r]] = 0 /\ Goto(r, "expire")
          \/ hits[key[r]] # 0 /\ Goto(r, "judge")
      BY <1>6, <2>1 DEF Count, FirstOfWindow
    <2> QED BY <1>0, <1>6, <2>2, CountStep DEF Count, Goto, TypeOK
  <1>7. ASSUME NEW r \in Requests, Expire(r)
        PROVE  ClockCounts' /\ OneStarts' /\ EndlessIffCutShort'
    BY <1>0, <1>7, ClockStep DEF Expire, Goto, TypeOK
  <1>8. ASSUME NEW r \in Requests, RedisFails(r)
        PROVE  ClockCounts' /\ OneStarts' /\ EndlessIffCutShort'
    <2>1. CASE NotDone(r)
      BY <1>2, <1>8, <2>1 DEF RedisFails
    <2>2. CASE CountedUnheard(r)
      BY <1>8, <2>2, <1>0, CountStep DEF RedisFails, CountedUnheard, Goto, TypeOK
    <2>3. CASE StartedUnheard(r)
      BY <1>8, <2>3, <1>0, ClockStep DEF RedisFails, StartedUnheard, Goto, TypeOK
    <2> QED BY <1>8, <2>1, <2>2, <2>3 DEF RedisFails
  <1>9. CASE Tick
    <2>1. /\ \A k \in Keys : /\ ttl'[k] = IF ttl[k] > 0 THEN ttl[k] - 1 ELSE 0
                             /\ hits'[k] = IF ttl[k] = 1 THEN 0 ELSE hits[k]
                             /\ ttl[k] \in Nat /\ hits[k] \in Nat
          /\ UNCHANGED <<pc, key, lost>>
      BY <1>0, <1>9 DEF Tick, TypeOK, request
    <2>2. ClockCounts'
      BY <1>0, <2>1 DEF ClockCounts
    <2>3. OneStarts'
      BY <1>0, <2>1 DEF OneStarts, TypeOK
    <2>4. EndlessIffCutShort'
      BY <1>0, <2>1 DEF EndlessIffCutShort, ClockCounts
    <2> QED BY <2>2, <2>3, <2>4
  <1>10. CASE \E h \in Handlers : Handle(h)
    BY <1>1, <1>10 DEF Handle, CreateChecks, ToggleReads, RevokeReads, DeleteReads, Plan,
                CreateInserts, ToggleWrites, RevokeWrites, DeleteWrites, HandlerEnds
  <1>11. CASE UNCHANGED vars
    BY <1>1, <1>11 DEF vars
  <1> QED BY <1>3, <1>4, <1>5, <1>6, <1>7, <1>8, <1>9, <1>10, <1>11 DEF Next, Pass

(* No counter exists at first.                                             *)
LEMMA CounterInit == Init => CounterInv
  BY TypeInit DEF Init, CounterInv, ClockCounts, OneStarts, EndlessIffCutShort

(* A counter has no expiry while the request that opened its window is     *)
(* about to set one, and for ever if that request was cut short before.    *)
THEOREM EndlessCounters == Spec => []EndlessIffCutShort
  <1>1. CounterInv => EndlessIffCutShort
    BY DEF CounterInv
  <1> QED BY <1>1, CounterInit, CounterStep, PTL DEF Spec

(* A window ends when the request that opened it said it would.            *)
THEOREM WindowKept == Spec => WindowNotExtended
  <1>1. CounterInv /\ [Next]_vars => [\A k \in Keys : ttl[k] > 0 => ttl'[k] <= ttl[k]]_vars
    <2> SUFFICES ASSUME CounterInv, [Next]_vars, NEW k \in Keys, ttl[k] > 0
                 PROVE  ttl'[k] <= ttl[k]
      OBVIOUS
    <2>0. ttl[k] \in Nat
      BY DEF CounterInv, TypeOK
    <2>1. ASSUME NEW r \in Requests, pc[r] = "expire", ClockSet(r) PROVE ttl'[k] <= ttl[k]
      <3>1. key[r] # k
        BY <2>1 DEF CounterInv, TypeOK, EndlessIffCutShort
      <3> QED BY <2>0, <2>1, <3>1 DEF ClockSet, CounterInv, TypeOK
    <2>2. CASE Tick
      BY <2>0, <2>2 DEF Tick
    <2>3. CASE ttl' = ttl
      BY <2>0, <2>3
    <2>4. ttl' = ttl \/ Tick \/ \E r \in Requests : pc[r] = "expire" /\ ClockSet(r)
      BY DEF Next, Handle, Pass, vars, redis, CreateChecks, ToggleReads, RevokeReads,
             DeleteReads, Plan, CreateInserts, ToggleWrites, RevokeWrites, DeleteWrites,
             HandlerEnds, Arrive, Authenticate, Count, Expire, Judge, RedisFails, NotDone,
             CountedUnheard, StartedUnheard, WorkerEnds
    <2> QED BY <2>1, <2>2, <2>3, <2>4
  <1> QED BY <1>1, CounterInit, CounterStep, PTL DEF Spec, WindowNotExtended

=============================================================================
