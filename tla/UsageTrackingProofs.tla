------------------------ MODULE UsageTrackingProofs ------------------------
(***************************************************************************)
(* Proofs about UsageTracking, for any keys, number of requests, size of   *)
(* the pool and number of crashes.                                         *)
(***************************************************************************)
EXTENDS UsageTracking, FiniteSetTheorems, WellFoundedInduction, TLAPS

Stages == {"new", "log", "send", "wait", "answer", "stream", "over"}

(* The variables that are functions of the requests.                       *)
Shape ==
    /\ stage \in [Requests -> Stages]
    /\ kind = [r \in Requests |-> kind[r]]
    /\ mode = [r \in Requests |-> mode[r]]

NoRow(r) == \A id \in DOMAIN rows : rows[id].req # r
NoEntry(r) == \A e \in logging : e.req # r

(* Before it is logged a request has neither a row nor a task to insert    *)
(* one; what is not tracked has no row as long as it has no task.          *)
Unlogged ==
    \A r \in Requests :
        /\ stage[r] \in {"new", "log"} => NoRow(r)
        /\ stage[r] = "log" => Kind(r).tracked
        /\ stage[r] \in {"send", "wait", "answer"} /\ ~Kind(r).tracked => NoRow(r)
        /\ stage[r] \notin {"stream", "over"} => NoEntry(r)

(* The tasks insert at most one row for a request, and the first.          *)
Inserting ==
    /\ \A e, f \in logging : e.req = f.req => e = f
    /\ \A e \in logging : NoRow(e.req)

CountInv == Shape /\ Unlogged /\ Inserting /\ CountedOnce

(* Before the first request nothing has been counted.                      *)
THEOREM InitCount ==
  ASSUME Init
  PROVE  CountInv
  BY DEF Init, CountInv, Shape, Stages, Unlogged, Inserting, CountedOnce, NoRow, NoEntry

-----------------------------------------------------------------------------
(* A step that keeps the requests of the rows, starts no task and only     *)
(* moves requests on that have been logged as they should.                 *)

SameRequests ==
    /\ DOMAIN rows' \subseteq DOMAIN rows
    /\ \A id \in DOMAIN rows' : rows'[id].req = rows[id].req

LEMMA RowsKept ==
  ASSUME SameRequests, NEW r, NoRow(r)
  PROVE  NoRow(r)'
  BY DEF SameRequests, NoRow

LEMMA CountKept ==
  ASSUME CountInv, SameRequests, logging' \subseteq logging, Shape',
         \A r \in Requests : \/ stage'[r] = "over"
                             \/ stage[r] = stage'[r] /\ kind'[r] = kind[r]
                             \/ /\ stage[r] \in {"send", "wait"}
                                /\ stage'[r] \in {"wait", "answer"}
                                /\ kind'[r] = kind[r]
                             \/ stage'[r] = "stream"
  PROVE  CountInv'
  <1>1. ASSUME NEW r \in Requests PROVE kind'[r] = kind[r] => Kind(r)' = Kind(r)
    BY DEF Kind
  <1>2. ASSUME NEW r \in Requests, NoEntry(r) PROVE NoEntry(r)'
    BY <1>2 DEF NoEntry
  <1>3. Unlogged'
    BY <1>1, <1>2, RowsKept DEF CountInv, Unlogged
  <1>4. Inserting'
    BY RowsKept DEF CountInv, Inserting
  <1>5. CountedOnce'
    BY DEF CountInv, CountedOnce, SameRequests
  <1> QED BY <1>3, <1>4, <1>5 DEF CountInv

LEMMA OverShape ==
  ASSUME Shape, NEW r \in Requests, Over(r)
  PROVE  Shape' /\ stage'[r] = "over"
         /\ \A q \in Requests \ {r} : stage'[q] = stage[q] /\ kind'[q] = kind[q]
  BY DEF Shape, Over, Stages

LEMMA GoToShape ==
  ASSUME Shape, NEW r \in Requests, NEW to \in Stages, GoTo(r, to)
  PROVE  /\ stage' \in [Requests -> Stages]
         /\ stage'[r] = to
         /\ \A q \in Requests \ {r} : stage'[q] = stage[q]
  BY DEF Shape, GoTo

LEMMA RowsUnchanged ==
  ASSUME UNCHANGED rows
  PROVE  SameRequests
  BY DEF SameRequests

(* A row that is inserted for a request that has none.                     *)
LEMMA Inserted ==
  ASSUME CountedOnce, NEW e, Insert(e), NoRow(e.req)
  PROVE  /\ CountedOnce'
         /\ \A r : r # e.req /\ NoRow(r) => NoRow(r)'
  <1>1. \A id \in DOMAIN rows' :
          \/ id \in DOMAIN rows /\ rows'[id] = rows[id] /\ id # NewId
          \/ id = NewId /\ rows'[id].req = e.req
    BY DEF Insert, Row
  <1> QED BY <1>1 DEF CountedOnce, NoRow

-----------------------------------------------------------------------------

LEMMA SubmitCount ==
  ASSUME CountInv, NEW r \in Requests, Submit(r)
  PROVE  CountInv'
  <1>1. PICK k \in Kinds :
          /\ kind' = [kind EXCEPT ![r] = {k}]
          /\ GoTo(r, CASE k.backend = "none" -> "answer"
                       [] k.tracked -> "log"
                       [] OTHER -> "send")
    BY DEF Submit
  <1>2. k \in AllKinds
    BY KindsAssumption
  <1>3. PICK to \in {"answer", "log", "send"} :
          GoTo(r, to) /\ (to = "log" => k.tracked) /\ (to # "log" => ~k.tracked)
    BY <1>1, <1>2 DEF AllKinds
  <1>4. stage'[r] = to /\ stage' \in [Requests -> Stages]
        /\ \A q \in Requests \ {r} : stage'[q] = stage[q]
    BY <1>3, GoToShape DEF CountInv, Stages
  <1>5. kind'[r] = {k} /\ \A q \in Requests \ {r} : kind'[q] = kind[q]
    BY <1>1 DEF CountInv, Shape
  <1>6. Shape'
    BY <1>1, <1>4 DEF CountInv, Shape, Submit
  <1>7. Kind(r)' = k /\ \A q \in Requests \ {r} : Kind(q)' = Kind(q)
    BY <1>5 DEF Kind
  <1>8. UNCHANGED <<rows, logging>>
    BY DEF Submit, logVars, taskVars
  <1>9. \A q : (NoRow(q)' <=> NoRow(q)) /\ (NoEntry(q)' <=> NoEntry(q))
    BY <1>8 DEF NoRow, NoEntry
  <1>10. NoRow(r) /\ NoEntry(r)
    BY DEF CountInv, Unlogged, Submit
  <1>11. Unlogged'
    BY <1>3, <1>4, <1>7, <1>9, <1>10 DEF CountInv, Unlogged
  <1>12. Inserting' /\ CountedOnce'
    BY <1>8, <1>9 DEF CountInv, Inserting, CountedOnce
  <1> QED BY <1>6, <1>11, <1>12 DEF CountInv

LEMMA LogRequestCount ==
  ASSUME CountInv, NEW r \in Requests, LogRequest(r)
  PROVE  CountInv'
  <1>1. /\ stage' \in [Requests -> Stages]
        /\ stage'[r] = "send"
        /\ \A q \in Requests \ {r} : stage'[q] = stage[q]
    BY GoToShape DEF CountInv, LogRequest, Stages
  <1>2. UNCHANGED <<kind, mode, logging>>
    BY DEF LogRequest, taskVars
  <1>3. Shape'
    BY <1>1, <1>2 DEF CountInv, Shape
  <1>4. NoRow(r) /\ NoEntry(r) /\ Kind(r).tracked
    BY DEF CountInv, Unlogged, LogRequest
  <1>5. CountedOnce' /\ \A q : q # r /\ NoRow(q) => NoRow(q)'
    <2>1. CASE Insert(Entry(r, {}))
      <3>1. Entry(r, {}).req = r
        BY DEF Entry
      <3> QED BY <1>4, <2>1, <3>1, Inserted DEF CountInv
    <2>2. CASE UNCHANGED rows
      BY <2>2 DEF CountInv, CountedOnce, NoRow
    <2> QED BY <2>1, <2>2 DEF LogRequest
  <1>6. \A q : (NoEntry(q)' <=> NoEntry(q)) /\ Kind(q)' = Kind(q)
    BY <1>2 DEF NoEntry, Kind
  <1>7. Unlogged'
    BY <1>1, <1>4, <1>5, <1>6 DEF CountInv, Unlogged
  <1>8. Inserting'
    BY <1>2, <1>4, <1>5 DEF CountInv, Inserting, NoEntry
  <1> QED BY <1>3, <1>5, <1>7, <1>8 DEF CountInv

LEMMA LogAfterwardsCount ==
  ASSUME CountInv, NEW e \in logging, LogAfterwards(e)
  PROVE  CountInv'
  <1>1. UNCHANGED <<kind, mode, stage>> /\ logging' = logging \ {e}
    BY DEF LogAfterwards
  <1>2. Shape'
    BY <1>1 DEF CountInv, Shape
  <1>3. NoRow(e.req) /\ \A f \in logging' : f.req # e.req
    BY <1>1 DEF CountInv, Inserting
  <1>4. CountedOnce' /\ \A q : q # e.req /\ NoRow(q) => NoRow(q)'
    <2>1. CASE Insert(e)
      BY <1>3, <2>1, Inserted DEF CountInv
    <2>2. CASE UNCHANGED rows
      BY <2>2 DEF CountInv, CountedOnce, NoRow
    <2> QED BY <2>1, <2>2 DEF LogAfterwards
  <1>5. \A q : (NoEntry(q) => NoEntry(q)') /\ Kind(q)' = Kind(q)
    BY <1>1 DEF NoEntry, Kind
  <1>6. \A q : NoEntry(q) => q # e.req
    BY DEF NoEntry
  <1>7. Unlogged'
    <2> SUFFICES ASSUME NEW q \in Requests
                 PROVE  /\ stage'[q] \in {"new", "log"} => NoRow(q)'
                        /\ stage'[q] = "log" => Kind(q)'.tracked
                        /\ stage'[q] \in {"send", "wait", "answer"} /\ ~Kind(q)'.tracked
                              => NoRow(q)'
                        /\ stage'[q] \notin {"stream", "over"} => NoEntry(q)'
      BY DEF Unlogged
    <2>1. stage'[q] = stage[q] /\ Kind(q)' = Kind(q)
      BY <1>1, <1>5
    <2> QED BY <1>4, <1>5, <1>6, <2>1 DEF CountInv, Unlogged
  <1>8. Inserting'
    BY <1>1, <1>3, <1>4 DEF CountInv, Inserting
  <1> QED BY <1>2, <1>4, <1>7, <1>8 DEF CountInv

LEMMA AnswerCount ==
  ASSUME CountInv, NEW r \in Requests, Answer(r)
  PROVE  CountInv'
  <1>1. /\ Shape'
        /\ stage'[r] \in {"stream", "over"}
        /\ \A q \in Requests \ {r} : stage'[q] = stage[q] /\ kind'[q] = kind[q]
    <2>1. CASE GoTo(r, "stream") /\ UNCHANGED <<kind, log, mode, part>>
      BY <2>1, GoToShape DEF CountInv, Shape, Stages
    <2>2. CASE Over(r)
      BY <2>2, OverShape DEF CountInv
    <2> QED BY <2>1, <2>2 DEF Answer
  <1>2. SameRequests
    <2>1. CASE rows' = [id \in DOMAIN rows |->
                 IF id \in log[r] THEN [rows[id] EXCEPT !.server = {r}] ELSE rows[id]]
      <3>1. \A x : [x EXCEPT !.server = {r}].req = x.req
        OBVIOUS
      <3> QED BY <2>1, <3>1 DEF SameRequests
    <2>2. CASE UNCHANGED rows
      BY <2>2, RowsUnchanged
    <2> QED BY <2>1, <2>2 DEF Answer
  <1>3. stage[r] = "answer"
    BY DEF Answer
  <1>4. CASE Kind(r).tracked
    <2>1. logging' = logging
      BY <1>4 DEF Answer
    <2> QED BY <1>1, <1>2, <2>1, CountKept
  <1>5. CASE ~Kind(r).tracked
    <2> DEFINE e == Entry(r, Used(r))
    <2>1. logging' = logging \union {e} /\ e.req = r
      BY <1>5 DEF Answer, Entry
    <2> HIDE DEF e
    <2>2. NoRow(r) /\ NoEntry(r)
      BY <1>3, <1>5 DEF CountInv, Unlogged
    <2>3. \A q \in Requests \ {r} : Kind(q)' = Kind(q) /\ (NoEntry(q) => NoEntry(q)')
      BY <1>1, <2>1 DEF Kind, NoEntry
    <2>4. Unlogged'
      BY <1>1, <1>2, <2>3, RowsKept DEF CountInv, Unlogged
    <2>5. Inserting'
      <3>1. \A f \in logging' : NoRow(f.req)'
        BY <1>2, <2>1, <2>2, RowsKept DEF CountInv, Inserting
      <3>2. \A f, g \in logging' : f.req = g.req => f = g
        BY <2>1, <2>2 DEF CountInv, Inserting, NoEntry
      <3> QED BY <3>1, <3>2 DEF Inserting
    <2>6. CountedOnce'
      BY <1>2 DEF CountInv, CountedOnce, SameRequests
    <2> QED BY <1>1, <2>4, <2>5, <2>6 DEF CountInv
  <1> QED BY <1>4, <1>5

(* What moves a request on without touching rows and tasks.                *)
LEMMA MoveCount ==
  ASSUME CountInv, NEW r \in Requests, UNCHANGED <<rows, logging>>,
         \/ Over(r)
         \/ /\ stage[r] \in {"send", "wait"}
            /\ UNCHANGED kind
            /\ \E to \in {"wait", "answer"} : GoTo(r, to)
            /\ \/ UNCHANGED mode
               \/ \E m : mode' = [mode EXCEPT ![r] = m]
         \/ UNCHANGED <<stage, kind, mode>>
  PROVE  CountInv'
  <1>1. SameRequests
    BY RowsUnchanged
  <1>2. CASE Over(r)
    BY <1>1, <1>2, OverShape, CountKept DEF CountInv
  <1>3. CASE /\ stage[r] \in {"send", "wait"}
             /\ UNCHANGED kind
             /\ \E to \in {"wait", "answer"} : GoTo(r, to)
             /\ \/ UNCHANGED mode
                \/ \E m : mode' = [mode EXCEPT ![r] = m]
    <2>1. PICK to \in {"wait", "answer"} : GoTo(r, to)
      BY <1>3
    <2>2. /\ stage' \in [Requests -> Stages]
          /\ stage'[r] = to
          /\ \A q \in Requests \ {r} : stage'[q] = stage[q]
      BY <2>1, GoToShape DEF CountInv, Stages
    <2>3. Shape'
      BY <1>3, <2>2 DEF CountInv, Shape
    <2> QED BY <1>1, <1>3, <2>2, <2>3, CountKept
  <1>4. CASE UNCHANGED <<stage, kind, mode>>
    <2>1. Shape'
      BY <1>4 DEF CountInv, Shape
    <2> QED BY <1>1, <1>4, <2>1, CountKept
  <1> QED BY <1>2, <1>3, <1>4

LEMMA RequestStepCount ==
  ASSUME CountInv, NEW r \in Requests, RequestStep(r)
  PROVE  CountInv'
  <1> USE DEF logVars, taskVars, historyVars
  <1>1. CASE LogRequest(r)
    BY <1>1, LogRequestCount
  <1>2. CASE Connect(r)
    BY <1>2, MoveCount DEF Connect
  <1>3. CASE Fail(r)
    BY <1>3, MoveCount DEF Fail
  <1>4. CASE \E m : Reply(r, m) /\ UNCHANGED logging
    BY <1>4, MoveCount DEF Reply
  <1>5. CASE ReplyWhole(r) \/ ReplyStream(r) \/ ReplyRaw(r) \/ ReplyUncounted(r)
    BY <1>4, <1>5 DEF ReplyWhole, ReplyStream, ReplyRaw, ReplyUncounted, Reply
  <1>6. CASE PromiseStream(r)
    BY <1>6, MoveCount DEF PromiseStream
  <1>7. CASE Answer(r)
    BY <1>7, AnswerCount
  <1>8. CASE OpenPromised(r) \/ LastLine(r) \/ FinishReason(r) \/ UsageChunk(r) \/ UnreadChunk(r)
    BY <1>8, MoveCount
    DEF OpenPromised, LastLine, FinishReason, UsageChunk, UnreadChunk, Miss
  <1>9. CASE EndStream(r) \/ BreakStream(r)
    BY <1>9, MoveCount DEF EndStream, BreakStream, Close
  <1> QED BY <1>1, <1>2, <1>3, <1>5, <1>6, <1>7, <1>8, <1>9 DEF RequestStep

LEMMA TaskCount ==
  ASSUME CountInv, NEW r \in Requests, Task(r)
  PROVE  CountInv'
  <1>1. ASSUME NEW e \in logging, LogAfterwards(e) PROVE CountInv'
    BY <1>1, LogAfterwardsCount
  <1>2. ASSUME NEW u \in updates, UpdateTokens(u) PROVE CountInv'
    <2>1. \A x : [x EXCEPT !.tokens = {u.req}].req = x.req
      OBVIOUS
    <2>2. SameRequests
      BY <1>2, <2>1 DEF UpdateTokens, SameRequests
    <2>3. UNCHANGED <<stage, kind, mode, logging>>
      BY <1>2 DEF UpdateTokens
    <2>4. Shape'
      BY <2>3 DEF CountInv, Shape
    <2> QED BY <2>2, <2>3, <2>4, CountKept
  <1> QED BY <1>1, <1>2 DEF Task

LEMMA DeleteUserCount ==
  ASSUME CountInv, NEW k \in Keys, DeleteUser(k)
  PROVE  CountInv'
  <1>1. SameRequests
    BY DEF DeleteUser, Restrict, SameRequests
  <1>2. UNCHANGED <<stage, kind, mode, logging>>
    BY DEF DeleteUser, taskVars
  <1>3. Shape'
    BY <1>2 DEF CountInv, Shape
  <1> QED BY <1>1, <1>2, <1>3, CountKept

LEMMA CrashCount ==
  ASSUME CountInv, Crash
  PROVE  CountInv'
  <1>1. rows' = rows /\ logging' = {}
    BY DEF Crash, logVars
  <1>2. \A q \in Requests : stage'[q] \in {"new", "over"} /\ (stage'[q] = "new" => stage[q] = "new")
    BY DEF Crash
  <1>3. Shape'
    BY DEF CountInv, Shape, Crash, Stages
  <1>4. Unlogged'
    BY <1>1, <1>2 DEF CountInv, Unlogged, NoRow, NoEntry
  <1>5. Inserting' /\ CountedOnce'
    BY <1>1 DEF CountInv, Inserting, CountedOnce
  <1> QED BY <1>3, <1>4, <1>5 DEF CountInv

(* No step of a reply, a task or a break inserts a second row for a        *)
(* request.                                                                *)
THEOREM NextCount ==
  ASSUME CountInv, [Next]_vars
  PROVE  CountInv'
  <1>1. CASE UNCHANGED vars
    <2>1. UNCHANGED <<rows, stage, kind, mode, logging>>
      BY <1>1 DEF vars
    <2>2. SameRequests /\ Shape'
      BY <2>1, RowsUnchanged DEF CountInv, Shape
    <2> QED BY <2>1, <2>2, CountKept
  <1>2. CASE Next
    BY <1>2, SubmitCount, RequestStepCount, TaskCount, DeleteUserCount, CrashCount DEF Next
  <1> QED BY <1>1, <1>2

(* However the insertions, the tasks, the deletions of users and the       *)
(* crashes interleave, no request has two rows of usage_logs.              *)
THEOREM OneRowEach == Spec => []CountedOnce
  <1>1. Init => CountInv
    BY InitCount
  <1>2. CountInv /\ [Next]_vars => CountInv'
    BY NextCount
  <1>3. CountInv => CountedOnce
    BY DEF CountInv
  <1> QED BY <1>1, <1>2, <1>3, PTL DEF Spec

-----------------------------------------------------------------------------
(* Where a request has a connection, and what is then to become of it.     *)

Held(r) ==
    /\ stage[r] \in {"new", "log", "send"} => r \notin open /\ mode[r] = "none"
    /\ stage[r] = "answer" /\ r \in open => mode[r] \in {"stream", "promise", "raw"}
    /\ stage[r] = "over" /\ r \in open => mode[r] = "raw"

ConnInv == Shape /\ open \subseteq Requests /\ \A r \in Requests : Held(r)

(* A step of one request is nothing to the others.                         *)
LEMMA HeldFrame ==
  ASSUME ConnInv, NEW r \in Requests, Held(r)', Shape',
         open' \in {open, open \union {r}, open \ {r}},
         stage' = [stage EXCEPT ![r] = stage'[r]],
         mode' = [mode EXCEPT ![r] = mode'[r]]
  PROVE  ConnInv'
  <1>1. ASSUME NEW q \in Requests, q # r
        PROVE  Held(q)'
    <2>1. stage'[q] = stage[q] /\ mode'[q] = mode[q] /\ (q \in open' <=> q \in open)
      BY <1>1 DEF ConnInv, Shape
    <2> QED BY <2>1 DEF ConnInv, Held
  <1>2. open' \subseteq Requests
    BY DEF ConnInv
  <1> QED BY <1>1, <1>2 DEF ConnInv

(* The ways in which a request goes on: to another stage, with another     *)
(* mode or the same one, and over.                                         *)
LEMMA HeldMoves ==
  ASSUME ConnInv, NEW r \in Requests, NEW to \in Stages, GoTo(r, to), UNCHANGED kind,
         UNCHANGED mode \/ \E m : mode' = [mode EXCEPT ![r] = m],
         open' \in {open, open \union {r}, open \ {r}},
         Held(r)'
  PROVE  ConnInv'
  <1>1. /\ stage' \in [Requests -> Stages]
        /\ stage' = [stage EXCEPT ![r] = stage'[r]]
    BY DEF ConnInv, Shape, GoTo
  <1>2. /\ mode' = [q \in Requests |-> mode'[q]]
        /\ mode' = [mode EXCEPT ![r] = mode'[r]]
    BY DEF ConnInv, Shape
  <1>3. Shape'
    BY <1>1, <1>2 DEF ConnInv, Shape
  <1> QED BY <1>1, <1>2, <1>3, HeldFrame

LEMMA HeldOver ==
  ASSUME ConnInv, NEW r \in Requests, Over(r), open' \in {open, open \ {r}},
         r \in open' => mode[r] = "raw"
  PROVE  ConnInv'
  <1>1. Shape'
    BY OverShape DEF ConnInv
  <1>2. /\ stage' = [stage EXCEPT ![r] = stage'[r]] /\ stage'[r] = "over"
        /\ mode' = [mode EXCEPT ![r] = mode'[r]]
        /\ mode[r] = "raw" => mode'[r] = "raw"
    BY DEF ConnInv, Shape, Over
  <1>3. Held(r)'
    BY <1>2 DEF Held
  <1> QED BY <1>1, <1>2, <1>3, HeldFrame

(* What leaves the stages and the modes leaves this as it is; a stream may *)
(* open its connection.                                                    *)
LEMMA HeldStays ==
  ASSUME ConnInv, UNCHANGED <<stage, kind, mode>>,
         \/ UNCHANGED open
         \/ \E r \in Requests : stage[r] = "stream" /\ open' = open \union {r}
  PROVE  ConnInv'
  BY DEF ConnInv, Shape, Held

LEMMA StepConn ==
  ASSUME ConnInv, NEW r \in Requests, RequestStep(r)
  PROVE  ConnInv'
  <1> USE DEF logVars, taskVars, historyVars
  <1>1. Held(r) /\ \A to : GoTo(r, to) => stage'[r] = to
    BY DEF ConnInv, Shape, GoTo
  <1>2. CASE LogRequest(r)
    <2>1. Held(r)'
      BY <1>1, <1>2 DEF Held, LogRequest
    <2> QED BY <1>2, <2>1, HeldMoves DEF LogRequest, Stages
  <1>3. CASE Connect(r)
    <2>1. Held(r)'
      BY <1>1, <1>3 DEF Held, Connect
    <2> QED BY <1>3, <2>1, HeldMoves DEF Connect, Stages
  <1>4. CASE Fail(r)
    BY <1>4, HeldOver DEF Fail
  <1>5. ASSUME NEW m, Reply(r, m), open' = open \/ open' = open \ {r},
               m \in {"stream", "raw"} \/ r \notin open'
        PROVE  ConnInv'
    <2>1. mode'[r] = m /\ stage'[r] = "answer"
      BY <1>1, <1>5 DEF Reply, ConnInv, Shape
    <2>2. Held(r)'
      BY <1>5, <2>1 DEF Held
    <2> QED BY <1>5, <2>2, HeldMoves DEF Reply, Stages
  <1>6. CASE ReplyWhole(r) \/ ReplyStream(r) \/ ReplyRaw(r) \/ ReplyUncounted(r)
    BY <1>5, <1>6 DEF ReplyWhole, ReplyStream, ReplyRaw, ReplyUncounted
  <1>7. CASE PromiseStream(r)
    <2>1. mode'[r] = "promise" /\ stage'[r] = "answer"
      BY <1>1, <1>7 DEF PromiseStream, ConnInv, Shape
    <2>2. Held(r)'
      BY <2>1 DEF Held
    <2> QED BY <1>7, <2>2, HeldMoves DEF PromiseStream, Stages
  <1>8. CASE Answer(r)
    <2>1. CASE mode[r] \in {"stream", "promise"}
      <3>1. GoTo(r, "stream") /\ UNCHANGED <<kind, mode, open>>
        BY <1>8, <2>1 DEF Answer
      <3>2. Held(r)'
        BY <1>1, <3>1 DEF Held
      <3> QED BY <3>1, <3>2, HeldMoves DEF Stages
    <2>2. CASE mode[r] \notin {"stream", "promise"}
      <3>1. Over(r) /\ UNCHANGED open /\ stage[r] = "answer"
        BY <1>8, <2>2 DEF Answer
      <3>2. r \in open' => mode[r] = "raw"
        BY <1>1, <2>2, <3>1 DEF Held
      <3> QED BY <3>1, <3>2, HeldOver
    <2> QED BY <2>1, <2>2
  <1>9. CASE OpenPromised(r) \/ LastLine(r) \/ FinishReason(r) \/ UsageChunk(r) \/ UnreadChunk(r)
    BY <1>9, HeldStays
    DEF OpenPromised, LastLine, FinishReason, UsageChunk, UnreadChunk, Miss
  <1>10. CASE EndStream(r) \/ BreakStream(r)
    BY <1>10, HeldOver DEF EndStream, BreakStream, Close
  <1> QED BY <1>2, <1>3, <1>4, <1>6, <1>7, <1>8, <1>9, <1>10 DEF RequestStep

LEMMA SubmitConn ==
  ASSUME ConnInv, NEW r \in Requests, Submit(r)
  PROVE  ConnInv'
  <1>1. PICK k \in Kinds :
          /\ kind' = [kind EXCEPT ![r] = {k}]
          /\ GoTo(r, CASE k.backend = "none" -> "answer"
                       [] k.tracked -> "log"
                       [] OTHER -> "send")
    BY DEF Submit
  <1>2. PICK to \in {"answer", "log", "send"} : GoTo(r, to)
    BY <1>1
  <1>3. stage'[r] = to /\ stage' = [stage EXCEPT ![r] = stage'[r]]
    BY <1>2 DEF ConnInv, Shape, GoTo
  <1>4. Shape'
    BY <1>1, <1>2, GoToShape DEF ConnInv, Shape, Stages, Submit
  <1>5. open' = open /\ mode' = mode /\ mode = [mode EXCEPT ![r] = mode[r]]
    BY DEF Submit, ConnInv, Shape
  <1>6. Held(r)'
    BY <1>3, <1>5 DEF ConnInv, Held, Submit
  <1> QED BY <1>3, <1>4, <1>5, <1>6, HeldFrame

(* Whoever takes a connection either returns it or is still reading, or is *)
(* one of the kinds that never do.                                         *)
THEOREM NextConn ==
  ASSUME ConnInv, [Next]_vars
  PROVE  ConnInv'
  <1>1. CASE UNCHANGED vars
    BY <1>1, HeldStays DEF vars
  <1>2. ASSUME NEW r \in Requests, Task(r) PROVE ConnInv'
    BY <1>2, HeldStays DEF Task, LogAfterwards, UpdateTokens
  <1>3. ASSUME NEW k \in Keys, DeleteUser(k) PROVE ConnInv'
    BY <1>3, HeldStays DEF DeleteUser
  <1>4. CASE Crash
    BY <1>4 DEF Crash, ConnInv, Shape, Held, Stages
  <1> QED BY <1>1, <1>2, <1>3, <1>4, SubmitConn, StepConn DEF Next

(* A connection that is occupied serves its request, or its response was   *)
(* returned unread: no end of a request, a stream or the process leaves    *)
(* another one behind, whatever the size of the pool.                      *)
THEOREM NoConnectionLeaks == Spec => []ConnectionsReturned
  <1>1. Init => ConnInv
    BY DEF Init, ConnInv, Shape, Held, Stages
  <1>2. ConnInv /\ [Next]_vars => ConnInv'
    BY NextConn
  <1>3. ConnInv => ConnectionsReturned
    BY DEF ConnInv, Shape, Held, Stages, ConnectionsReturned
  <1> QED BY <1>1, <1>2, <1>3, PTL DEF Spec

-----------------------------------------------------------------------------
(* Whose row an id is.  A task or a request that knows an id got it when   *)
(* it was given out; if it is given out again, the row says so.            *)
Own(r, id) ==
    /\ id \in issued
    /\ id \in DOMAIN rows /\ ~rows[id].again => rows[id].req = r

OwnInv ==
    /\ OwnRow
    /\ DOMAIN rows \subseteq issued
    /\ log = [r \in Requests |-> log[r]]
    /\ \A r \in Requests : \A id \in log[r] : Own(r, id)
    /\ \A u \in updates : Own(u.req, u.id)
    /\ \A e \in logging : e.server \subseteq {e.req}

SameOwners ==
    /\ issued' = issued
    /\ DOMAIN rows' \subseteq DOMAIN rows
    /\ \A id \in DOMAIN rows' : /\ rows'[id].req = rows[id].req
                                /\ rows'[id].again = rows[id].again

LEMMA UpdateOwn ==
  ASSUME OwnInv, NEW r \in Requests, NEW counts, NEW u \in Update(r, counts)
  PROVE  Own(u.req, u.id)
  BY DEF OwnInv, Update

(* What inserts no row, forgets ids and starts only tasks for its own.     *)
LEMMA OwnKept ==
  ASSUME OwnInv, SameOwners, OwnRow', log' = [r \in Requests |-> log'[r]],
         \A r \in Requests : log'[r] \subseteq log[r],
         \A u \in updates' : u \in updates \/ Own(u.req, u.id),
         \A e \in logging' : e \in logging \/ e.server \subseteq {e.req}
  PROVE  OwnInv'
  <1>1. \A r, id : Own(r, id) => Own(r, id)'
    BY DEF Own, SameOwners
  <1>2. DOMAIN rows' \subseteq issued'
    BY DEF OwnInv, SameOwners
  <1> QED BY <1>1, <1>2 DEF OwnInv

LEMMA OwnMoves ==
  ASSUME OwnInv, UNCHANGED <<rows, issued>>, log' = [r \in Requests |-> log'[r]],
         \A r \in Requests : log'[r] \subseteq log[r],
         \A u \in updates' : u \in updates \/ Own(u.req, u.id),
         \A e \in logging' : e \in logging \/ e.server \subseteq {e.req}
  PROVE  OwnInv'
  <1>1. SameOwners
    BY DEF SameOwners
  <1>2. OwnRow'
    BY DEF OwnInv, OwnRow
  <1> QED BY <1>1, <1>2, OwnKept

LEMMA InsertOwn ==
  ASSUME OwnInv, NEW e, Insert(e), e.server \subseteq {e.req}
  PROVE  /\ OwnRow'
         /\ DOMAIN rows' \subseteq issued'
         /\ \A r, id : Own(r, id) => Own(r, id)'
         /\ \A id \in {NewId} : Own(e.req, id)'
  <1>1. PICK new : new = NewId
    OBVIOUS
  <1>2. DOMAIN rows' = DOMAIN rows \union {new} /\ issued' = issued \union {new}
    BY <1>1 DEF Insert
  <1>3. \A id \in DOMAIN rows' : id # new => rows'[id] = rows[id] /\ id \in DOMAIN rows
    BY <1>1 DEF Insert
  <1>4. /\ rows'[new].req = e.req /\ rows'[new].server = e.server /\ rows'[new].tokens = {}
        /\ new \in issued => rows'[new].again
    BY <1>1 DEF Insert, Row
  <1>5. OwnRow'
    BY <1>2, <1>3, <1>4 DEF OwnInv, OwnRow
  <1>6. DOMAIN rows' \subseteq issued'
    BY <1>2 DEF OwnInv
  <1>7. ASSUME NEW r, NEW id, Own(r, id)
        PROVE  Own(r, id)'
    <2>1. CASE id = new
      BY <1>2, <1>4, <1>7, <2>1 DEF Own
    <2>2. CASE id # new
      BY <1>2, <1>3, <1>7, <2>2 DEF Own
    <2> QED BY <2>1, <2>2
  <1>8. \A id \in {NewId} : Own(e.req, id)'
    <2> SUFFICES ASSUME NEW id, id = new
                 PROVE  Own(e.req, id)'
      BY <1>1
    <2> QED BY <1>2, <1>4 DEF Own
  <1> QED BY <1>5, <1>6, <1>7, <1>8

LEMMA LogRequestOwn ==
  ASSUME OwnInv, NEW r \in Requests, LogRequest(r)
  PROVE  OwnInv'
  <1>1. UNCHANGED <<updates, logging>>
    BY DEF LogRequest, taskVars
  <1>2. CASE Insert(Entry(r, {})) /\ (log' = [log EXCEPT ![r] = {NewId}] \/ UNCHANGED log)
    <2>1. Entry(r, {}).req = r /\ Entry(r, {}).server = {}
      BY DEF Entry
    <2>2. /\ OwnRow' /\ DOMAIN rows' \subseteq issued'
          /\ \A q, id : Own(q, id) => Own(q, id)'
          /\ \A id \in {NewId} : Own(r, id)'
      BY <1>2, <2>1, InsertOwn
    <2>3. log' = [q \in Requests |-> log'[q]]
      BY <1>2 DEF OwnInv
    <2>4. \A q \in Requests : log'[q] = log[q] \/ (q = r /\ log'[q] = {NewId})
      BY <1>2 DEF OwnInv
    <2>5. \A q \in Requests : \A id \in log'[q] : Own(q, id)'
      BY <2>2, <2>4 DEF OwnInv
    <2>6. /\ \A u \in updates' : Own(u.req, u.id)'
          /\ \A e \in logging' : e.server \subseteq {e.req}
      BY <1>1, <2>2 DEF OwnInv
    <2> QED BY <2>2, <2>3, <2>5, <2>6 DEF OwnInv
  <1>3. CASE UNCHANGED <<rows, issued, log>>
    BY <1>1, <1>3, OwnMoves DEF OwnInv
  <1> QED BY <1>2, <1>3 DEF LogRequest

LEMMA OverLog ==
  ASSUME OwnInv, NEW r, Over(r) \/ UNCHANGED log
  PROVE  log' = [q \in Requests |-> log'[q]] /\ \A q \in Requests : log'[q] \subseteq log[q]
  BY DEF OwnInv, Over

LEMMA AnswerOwn ==
  ASSUME OwnInv, NEW r \in Requests, Answer(r)
  PROVE  OwnInv'
  <1>1. log' = [q \in Requests |-> log'[q]] /\ \A q \in Requests : log'[q] \subseteq log[q]
    BY OverLog DEF Answer
  <1>2. issued' = issued /\ updates' = updates
    BY DEF Answer
  <1>3. \A e \in logging' : e \in logging \/ e.server \subseteq {e.req}
    BY DEF Answer, Entry, Used
  <1>4. CASE rows' = [id \in DOMAIN rows |->
                 IF id \in log[r] THEN [rows[id] EXCEPT !.server = {r}] ELSE rows[id]]
    <2>1. \A x : /\ [x EXCEPT !.server = {r}].req = x.req
                 /\ [x EXCEPT !.server = {r}].again = x.again
                 /\ [x EXCEPT !.server = {r}].tokens = x.tokens
                 /\ [x EXCEPT !.server = {r}].server \subseteq {r}
      OBVIOUS
    <2>2. DOMAIN rows' = DOMAIN rows
          /\ \A id \in DOMAIN rows :
                /\ rows'[id].req = rows[id].req
                /\ rows'[id].again = rows[id].again
                /\ rows'[id].tokens = rows[id].tokens
                /\ id \in log[r] => rows'[id].server \subseteq {r}
                /\ id \notin log[r] => rows'[id].server = rows[id].server
      BY <1>4, <2>1
    <2>3. SameOwners
      BY <1>2, <2>2 DEF SameOwners
    <2>4. OwnRow'
      <3> SUFFICES ASSUME NEW id \in DOMAIN rows, ~rows[id].again
                   PROVE  rows'[id].server \union rows'[id].tokens \subseteq {rows[id].req}
        BY <2>2 DEF OwnRow
      <3>1. rows[id].server \union rows[id].tokens \subseteq {rows[id].req}
        BY DEF OwnInv, OwnRow
      <3>2. id \in log[r] => rows[id].req = r
        BY DEF OwnInv, Own
      <3> QED BY <2>2, <3>1, <3>2
    <2> QED BY <1>1, <1>2, <1>3, <2>3, <2>4, OwnKept
  <1>5. CASE UNCHANGED rows
    BY <1>1, <1>2, <1>3, <1>5, OwnMoves
  <1> QED BY <1>4, <1>5 DEF Answer

LEMMA StepOwn ==
  ASSUME OwnInv, NEW r \in Requests, RequestStep(r)
  PROVE  OwnInv'
  <1> USE DEF logVars, taskVars, historyVars
  <1>1. ASSUME UNCHANGED <<rows, issued, logging>>,
               Over(r) \/ UNCHANGED log,
               \/ UNCHANGED updates
               \/ \E counts : updates' = updates \union Update(r, counts)
        PROVE  OwnInv'
    <2>1. \A u \in updates' : u \in updates \/ Own(u.req, u.id)
      BY <1>1, UpdateOwn
    <2> QED BY <1>1, <2>1, OverLog, OwnMoves
  <1>2. CASE \/ Connect(r) \/ Fail(r) \/ PromiseStream(r) \/ OpenPromised(r)
             \/ UsageChunk(r) \/ UnreadChunk(r)
    BY <1>1, <1>2
    DEF Connect, Fail, PromiseStream, OpenPromised, UsageChunk, UnreadChunk, Miss
  <1>3. CASE ReplyWhole(r) \/ ReplyStream(r) \/ ReplyRaw(r) \/ ReplyUncounted(r)
    BY <1>1, <1>3 DEF ReplyWhole, ReplyStream, ReplyRaw, ReplyUncounted, Reply
  <1>4. CASE LastLine(r) \/ FinishReason(r)
    BY <1>1, <1>4 DEF LastLine, FinishReason
  <1>5. CASE EndStream(r) \/ BreakStream(r)
    BY <1>1, <1>5 DEF EndStream, BreakStream, Close
  <1> QED BY <1>2, <1>3, <1>4, <1>5, LogRequestOwn, AnswerOwn DEF RequestStep

LEMMA LogAfterwardsOwn ==
  ASSUME OwnInv, NEW e \in logging, LogAfterwards(e)
  PROVE  OwnInv'
  <1>1. UNCHANGED <<log, updates>> /\ logging' = logging \ {e}
    BY DEF LogAfterwards
  <1>2. CASE Insert(e)
    <2>1. /\ OwnRow' /\ DOMAIN rows' \subseteq issued'
          /\ \A q, id : Own(q, id) => Own(q, id)'
      BY <1>2, InsertOwn DEF OwnInv
    <2> QED BY <1>1, <2>1 DEF OwnInv
  <1>3. CASE UNCHANGED <<rows, issued>>
    BY <1>1, <1>3, OwnMoves DEF OwnInv
  <1> QED BY <1>2, <1>3 DEF LogAfterwards

LEMMA UpdateTokensOwn ==
  ASSUME OwnInv, NEW u \in updates, UpdateTokens(u)
  PROVE  OwnInv'
  <1>1. UNCHANGED <<log, issued, logging>> /\ updates' = updates \ {u}
    BY DEF UpdateTokens
  <1>2. CASE u.id \in DOMAIN rows /\ rows' = [rows EXCEPT ![u.id].tokens = {u.req}]
    <2>1. \A x : /\ [x EXCEPT !.tokens = {u.req}].req = x.req
                 /\ [x EXCEPT !.tokens = {u.req}].again = x.again
                 /\ [x EXCEPT !.tokens = {u.req}].server = x.server
                 /\ [x EXCEPT !.tokens = {u.req}].tokens \subseteq {u.req}
      OBVIOUS
    <2>2. DOMAIN rows' = DOMAIN rows
          /\ \A id \in DOMAIN rows :
                /\ rows'[id].req = rows[id].req
                /\ rows'[id].again = rows[id].again
                /\ rows'[id].server = rows[id].server
                /\ id = u.id => rows'[id].tokens \subseteq {u.req}
                /\ id # u.id => rows'[id].tokens = rows[id].tokens
      BY <1>2, <2>1
    <2>3. SameOwners
      BY <1>1, <2>2 DEF SameOwners
    <2>4. OwnRow'
      <3> SUFFICES ASSUME NEW id \in DOMAIN rows, ~rows[id].again
                   PROVE  rows'[id].server \union rows'[id].tokens \subseteq {rows[id].req}
        BY <2>2 DEF OwnRow
      <3>1. rows[id].server \union rows[id].tokens \subseteq {rows[id].req}
        BY DEF OwnInv, OwnRow
      <3>2. id = u.id => rows[id].req = u.req
        BY DEF OwnInv, Own
      <3> QED BY <2>2, <3>1, <3>2
    <2> QED BY <1>1, <2>3, <2>4, OwnKept DEF OwnInv
  <1>3. CASE UNCHANGED rows
    BY <1>1, <1>3, OwnMoves DEF OwnInv
  <1> QED BY <1>2, <1>3 DEF UpdateTokens

LEMMA DeleteUserOwn ==
  ASSUME OwnInv, NEW k \in Keys, DeleteUser(k)
  PROVE  OwnInv'
  <1>1. UNCHANGED <<issued, log, updates, logging>>
    BY DEF DeleteUser, taskVars
  <1>2. DOMAIN rows' \subseteq DOMAIN rows /\ \A id \in DOMAIN rows' : rows'[id] = rows[id]
    BY DEF DeleteUser, Restrict
  <1>3. SameOwners /\ OwnRow'
    BY <1>1, <1>2 DEF SameOwners, OwnInv, OwnRow
  <1> QED BY <1>1, <1>3, OwnKept DEF OwnInv

LEMMA CrashOwn ==
  ASSUME OwnInv, Crash
  PROVE  OwnInv'
  <1>1. UNCHANGED <<rows, issued>> /\ updates' = {} /\ logging' = {}
    BY DEF Crash, logVars
  <1>2. log' = [q \in Requests |-> log'[q]] /\ \A q \in Requests : log'[q] \subseteq log[q]
    BY DEF Crash
  <1> QED BY <1>1, <1>2, OwnMoves

(* Ids are handed on only within a request, from its insertion to its      *)
(* tasks.                                                                  *)
THEOREM NextOwn ==
  ASSUME OwnInv, [Next]_vars
  PROVE  OwnInv'
  <1>1. CASE UNCHANGED vars
    BY <1>1, OwnMoves DEF vars, OwnInv
  <1>2. ASSUME NEW r \in Requests, Submit(r) PROVE OwnInv'
    BY <1>2, OwnMoves DEF Submit, logVars, taskVars, OwnInv
  <1>3. ASSUME NEW r \in Requests, Task(r) PROVE OwnInv'
    BY <1>3, LogAfterwardsOwn, UpdateTokensOwn DEF Task
  <1> QED BY <1>1, <1>2, <1>3, StepOwn, DeleteUserOwn, CrashOwn DEF Next

(* A row whose id was never another's is written by its own request only,  *)
(* although the tasks find it by the id, whoever is deleted meanwhile.     *)
THEOREM RowsAreOwn == Spec => []OwnRow
  <1>1. Init => OwnInv
    BY DEF Init, OwnInv, OwnRow
  <1>2. OwnInv /\ [Next]_vars => OwnInv'
    BY NextOwn
  <1>3. OwnInv => OwnRow
    BY DEF OwnInv
  <1> QED BY <1>1, <1>2, <1>3, PTL DEF Spec

-----------------------------------------------------------------------------
(* Facts about numbers that the library states with an operator parameter. *)

LEMMA LeastElement ==
  ASSUME NEW S \in SUBSET Nat, S # {}
  PROVE  \E m \in S : \A n \in S : m <= n
  <1> DEFINE R == OpToRel(<, Nat)
  <1>1. IsWellFoundedOn(R, Nat)
    BY NatLessThanWellFounded
  <1>2. \A x, y \in Nat : x < y => <<x, y>> \in R
    BY DEF OpToRel
  <1> HIDE DEF R
  <1>3. PICK m \in S : \A n \in S : <<n, m>> \notin R
    BY <1>1, WFMin, Zenon
  <1>4. ASSUME NEW n \in S PROVE m <= n
    <2>1. ~(n < m)
      BY <1>2, <1>3
    <2> QED BY <2>1
  <1> QED BY <1>4

LEMMA MaxIsGreatest ==
  ASSUME NEW S \in SUBSET Nat, S # {}, NEW b \in Nat, \A n \in S : n <= b
  PROVE  Max(S) \in S /\ \A n \in S : n <= Max(S)
  <1> DEFINE U == {n \in Nat : \A k \in S : k <= n}
  <1>1. PICK m \in U : \A n \in U : m <= n
    <2>1. b \in U /\ U \in SUBSET Nat
      OBVIOUS
    <2> HIDE DEF U
    <2> QED BY <2>1, LeastElement
  <1>2. m \in S
    <2> SUFFICES ASSUME m \notin S PROVE FALSE
      OBVIOUS
    <2>1. PICK k \in S : TRUE
      OBVIOUS
    <2>2. m \in Nat /\ k < m
      BY <1>1, <2>1
    <2>3. m - 1 \in U
      BY <1>1, <2>2
    <2> QED BY <1>1, <2>2, <2>3
  <1>3. \E x \in S : \A y \in S : x >= y
    BY <1>1, <1>2
  <1>4. Max(S) \in S /\ \A y \in S : Max(S) >= y
    BY <1>3 DEF Max
  <1> QED BY <1>4

-----------------------------------------------------------------------------
(* The types of the variables.  No id exceeds the number of requests that  *)
(* have had their insertion: each has one, whether it succeeds or not.     *)
RowType == [req : Requests, key : Keys, server : SUBSET Requests,
            tokens : SUBSET Requests, again : BOOLEAN]
EntryType == [req : Requests, key : Keys, server : SUBSET Requests]

Spent == {r \in Requests :
            /\ stage[r] \notin {"new", "log"}
            /\ stage[r] \in {"send", "wait", "answer"} => Kind(r).tracked
            /\ NoEntry(r)}

KindsOK ==
    \A r \in Requests :
        /\ kind[r] \subseteq Kinds
        /\ stage[r] \notin {"new", "over"} => \E k \in Kinds : kind[r] = {k}
RowsOK == \A id \in DOMAIN rows : rows[id] \in RowType
TasksOK == logging \subseteq EntryType /\ \A u \in updates : u.req \in Requests
IdsOK == issued \subseteq 1 .. Cardinality(Spent)
PoolOK == Cardinality(open) <= MaxConnections

TypedInv == CountInv /\ ConnInv /\ OwnInv /\ KindsOK /\ RowsOK /\ TasksOK /\ IdsOK /\ PoolOK

LEMMA RequestsFinite ==
  ASSUME NEW S \in SUBSET Requests
  PROVE  /\ IsFiniteSet(S)
         /\ Cardinality(S) \in Nat
         /\ Cardinality(S) <= MaxRequests
  <1>1. IsFiniteSet(Requests) /\ Cardinality(Requests) = MaxRequests
    BY BoundsAssumption, FS_Interval DEF Requests
  <1>2. IsFiniteSet(S) /\ Cardinality(S) <= Cardinality(Requests)
    BY <1>1, FS_Subset
  <1> QED BY <1>1, <1>2, FS_CardinalityType

(* The id of a new row is no other row's.                                  *)
LEMMA NewIdIsNew ==
  ASSUME OwnInv, IdsOK
  PROVE  NewId \in 1 .. Cardinality(Spent) + 1 /\ NewId \notin DOMAIN rows
  <1> DEFINE n == Cardinality(Spent)
  <1>1. n \in Nat
    <2>1. Spent \in SUBSET Requests
      BY DEF Spent
    <2> QED BY <2>1, RequestsFinite
  <1>2. DOMAIN rows \subseteq 1 .. n
    BY DEF OwnInv, IdsOK
  <1> HIDE DEF n
  <1>3. CASE DOMAIN rows = {}
    BY <1>1, <1>3 DEF NewId, n
  <1>4. CASE DOMAIN rows # {}
    <2>1. DOMAIN rows \in SUBSET Nat /\ \A id \in DOMAIN rows : id <= n
      BY <1>1, <1>2
    <2>2. Max(DOMAIN rows) \in DOMAIN rows /\ \A id \in DOMAIN rows : id <= Max(DOMAIN rows)
      BY <1>1, <1>4, <2>1, MaxIsGreatest
    <2>3. PICK m : m = Max(DOMAIN rows)
      OBVIOUS
    <2>4. m \in 1 .. n /\ m + 1 \notin DOMAIN rows
      BY <1>1, <1>2, <2>1, <2>2, <2>3
    <2>5. NewId = m + 1
      BY <1>4, <2>3 DEF NewId
    <2> QED BY <1>1, <2>4, <2>5 DEF n
  <1> QED BY <1>3, <1>4

(* A step that inserts no row, and one that inserts a request's row.       *)
LEMMA IdsKept ==
  ASSUME IdsOK, issued' = issued, Spent \subseteq Spent'
  PROVE  IdsOK'
  <1>1. Spent \in SUBSET Spent' /\ Spent' \in SUBSET Requests /\ Spent \in SUBSET Requests
    BY DEF Spent
  <1>2. IsFiniteSet(Spent') /\ Cardinality(Spent') \in Nat /\ Cardinality(Spent) \in Nat
    BY <1>1, RequestsFinite
  <1>3. Cardinality(Spent) <= Cardinality(Spent')
    BY <1>1, <1>2, FS_Subset
  <1> QED BY <1>2, <1>3 DEF IdsOK

LEMMA IdsMore ==
  ASSUME IdsOK, OwnInv, NEW r \in Requests, r \notin Spent, r \in Spent', Spent \subseteq Spent',
         issued' \subseteq issued \union {NewId}
  PROVE  IdsOK'
  <1>1. /\ Spent \in SUBSET Requests
        /\ Spent' \in SUBSET Requests
        /\ Spent \union {r} \in SUBSET Spent'
    BY DEF Spent
  <1>2. /\ IsFiniteSet(Spent) /\ IsFiniteSet(Spent')
        /\ Cardinality(Spent) \in Nat /\ Cardinality(Spent') \in Nat
    BY <1>1, RequestsFinite
  <1>3. Cardinality(Spent \union {r}) = Cardinality(Spent) + 1
    BY <1>2, FS_AddElement
  <1>4. Cardinality(Spent) + 1 <= Cardinality(Spent')
    BY <1>1, <1>2, <1>3, FS_Subset
  <1>5. NewId \in 1 .. Cardinality(Spent) + 1
    BY NewIdIsNew
  <1> QED BY <1>2, <1>4, <1>5 DEF IdsOK

(* What is spent stays so: a request that goes on as it is, or has got as  *)
(* far as its stream, and is owed no other insertion.                      *)
LEMMA SpentGrows ==
  ASSUME \A r \in Spent : NoEntry(r)',
         \A r \in Requests :
            \/ stage'[r] \in {"stream", "over"}
            \/ /\ stage[r] \in {"send", "wait", "answer"} <=>
                     stage'[r] \in {"send", "wait", "answer"}
               /\ stage[r] \in {"new", "log"} <=> stage'[r] \in {"new", "log"}
               /\ kind'[r] = kind[r]
            \/ stage[r] \in {"new", "log"}
  PROVE  Spent \subseteq Spent'
  <1> SUFFICES ASSUME NEW r \in Spent PROVE r \in Spent'
    OBVIOUS
  <1>1. r \in Requests /\ NoEntry(r)'
    BY DEF Spent
  <1>2. kind'[r] = kind[r] => Kind(r)' = Kind(r)
    BY DEF Kind
  <1> QED BY <1>1, <1>2 DEF Spent

LEMMA KindsKept ==
  ASSUME KindsOK,
         \A r \in Requests :
            \/ /\ kind'[r] = kind[r]
               /\ stage'[r] \in {"new", "over"} \/ stage[r] \notin {"new", "over"}
            \/ kind'[r] = {} /\ stage'[r] \in {"new", "over"}
            \/ \E k \in Kinds : kind'[r] = {k}
  PROVE  KindsOK'
  BY DEF KindsOK

LEMMA KindTyped ==
  ASSUME KindsOK, NEW r \in Requests, stage[r] \notin {"new", "over"}
  PROVE  Kind(r) \in Kinds /\ Kind(r).key \in Keys
  <1>1. Kind(r) \in Kinds
    BY DEF KindsOK, Kind
  <1> QED BY <1>1, KindsAssumption DEF AllKinds

LEMMA PoolKept ==
  ASSUME ConnInv, PoolOK,
         \/ open' \subseteq open
         \/ \E r \in Requests : Cardinality(open) < MaxConnections /\ open' = open \union {r}
  PROVE  PoolOK'
  <1>1. IsFiniteSet(open) /\ Cardinality(open) \in Nat
    BY RequestsFinite DEF ConnInv
  <1>2. CASE open' \subseteq open
    <2>1. open' \in SUBSET open /\ open' \in SUBSET Requests
      BY <1>2 DEF ConnInv
    <2>2. Cardinality(open') <= Cardinality(open) /\ Cardinality(open') \in Nat
      BY <1>1, <2>1, FS_Subset, RequestsFinite
    <2> QED BY <1>1, <2>2, BoundsAssumption DEF PoolOK
  <1>3. ASSUME NEW r \in Requests, Cardinality(open) < MaxConnections, open' = open \union {r}
        PROVE  PoolOK'
    <2>1. Cardinality(open') \in {Cardinality(open), Cardinality(open) + 1}
      BY <1>1, <1>3, FS_AddElement
    <2> QED BY <1>1, <1>3, <2>1, BoundsAssumption DEF PoolOK
  <1> QED BY <1>2, <1>3

-----------------------------------------------------------------------------

LEMMA SubmitTyped ==
  ASSUME TypedInv, CountInv', ConnInv', OwnInv', NEW r \in Requests, Submit(r)
  PROVE  TypedInv'
  <1>1. PICK k \in Kinds : kind' = [kind EXCEPT ![r] = {k}] /\ stage[r] = "new"
    BY DEF Submit
  <1>2. \E to \in Stages : GoTo(r, to)
    BY DEF Submit, Stages
  <1>3. UNCHANGED <<rows, issued, open, logging, updates>>
    BY DEF Submit, logVars, taskVars
  <1>4. \A q \in Requests \ {r} : stage'[q] = stage[q] /\ kind'[q] = kind[q]
    BY <1>1, <1>2, GoToShape DEF TypedInv, CountInv, Shape
  <1>5. kind'[r] = {k}
    BY <1>1 DEF TypedInv, CountInv, Shape
  <1>6. KindsOK'
    BY <1>4, <1>5, KindsKept DEF TypedInv
  <1>7. \A q \in Spent : NoEntry(q)'
    BY <1>3 DEF Spent, NoEntry
  <1>8. Spent \subseteq Spent'
    BY <1>1, <1>4, <1>7, SpentGrows
  <1>9. IdsOK' /\ PoolOK'
    BY <1>3, <1>8, IdsKept, PoolKept DEF TypedInv
  <1>10. RowsOK' /\ TasksOK'
    BY <1>3 DEF TypedInv, RowsOK, TasksOK
  <1> QED BY <1>6, <1>9, <1>10 DEF TypedInv

(* A row that is inserted.                                                 *)
LEMMA InsertTyped ==
  ASSUME RowsOK, NEW e \in EntryType, Insert(e)
  PROVE  RowsOK'
  <1>1. Row(e) \in RowType
    BY DEF Row, RowType, EntryType
  <1>2. \A id \in DOMAIN rows' : rows'[id] = Row(e) \/ (id \in DOMAIN rows /\ rows'[id] = rows[id])
    BY DEF Insert
  <1> QED BY <1>1, <1>2 DEF RowsOK

LEMMA LogRequestTyped ==
  ASSUME TypedInv, CountInv', ConnInv', OwnInv', NEW r \in Requests, LogRequest(r)
  PROVE  TypedInv'
  <1>1. /\ stage[r] = "log" /\ GoTo(r, "send")
        /\ UNCHANGED <<kind, open, logging, updates>>
    BY DEF LogRequest, taskVars
  <1>2. stage'[r] = "send" /\ \A q \in Requests \ {r} : stage'[q] = stage[q]
    BY <1>1, GoToShape DEF TypedInv, CountInv, Stages
  <1>3. KindsOK'
    BY <1>1, <1>2, KindsKept DEF TypedInv
  <1>4. \A q : NoEntry(q) => NoEntry(q)'
    BY <1>1 DEF NoEntry
  <1>5. Spent \subseteq Spent'
    BY <1>1, <1>2, <1>4, SpentGrows DEF Spent
  <1>6. r \notin Spent /\ r \in Spent'
    <2>1. Kind(r).tracked /\ NoEntry(r) /\ Kind(r)' = Kind(r)
      BY <1>1 DEF TypedInv, CountInv, Unlogged, Kind
    <2> QED BY <1>1, <1>2, <1>4, <2>1 DEF Spent
  <1>7. CASE Insert(Entry(r, {}))
    <2>1. Entry(r, {}) \in EntryType
      BY <1>1, KindTyped DEF TypedInv, Entry, EntryType
    <2>2. RowsOK'
      BY <1>7, <2>1, InsertTyped DEF TypedInv
    <2>3. IdsOK'
      BY <1>5, <1>6, <1>7, IdsMore DEF TypedInv, Insert
    <2> QED BY <1>1, <1>3, <2>2, <2>3, PoolKept DEF TypedInv, TasksOK
  <1>8. CASE UNCHANGED <<rows, issued>>
    BY <1>1, <1>3, <1>5, <1>8, IdsKept, PoolKept DEF TypedInv, TasksOK, RowsOK
  <1> QED BY <1>7, <1>8 DEF LogRequest

LEMMA LogAfterwardsTyped ==
  ASSUME TypedInv, CountInv', ConnInv', OwnInv', NEW e \in logging, LogAfterwards(e)
  PROVE  TypedInv'
  <1>1. UNCHANGED <<kind, stage, open, updates>> /\ logging' = logging \ {e}
    BY DEF LogAfterwards
  <1>2. KindsOK' /\ TasksOK' /\ PoolOK'
    BY <1>1, PoolKept DEF TypedInv, KindsOK, TasksOK
  <1>3. \A q : NoEntry(q) => NoEntry(q)'
    BY <1>1 DEF NoEntry
  <1>4. Spent \subseteq Spent'
    BY <1>1, <1>3, SpentGrows DEF Spent
  <1>5. e \in EntryType /\ e.req \in Requests
    BY DEF TypedInv, TasksOK, EntryType
  <1>6. e.req \notin Spent /\ e.req \in Spent'
    <2>1. ~NoEntry(e.req) /\ NoEntry(e.req)'
      BY <1>1 DEF NoEntry, TypedInv, CountInv, Inserting
    <2>2. stage[e.req] \in {"stream", "over"}
      BY <1>5, <2>1 DEF TypedInv, CountInv, Unlogged
    <2> QED BY <1>1, <1>5, <2>1, <2>2 DEF Spent
  <1>7. CASE Insert(e)
    <2>1. RowsOK'
      BY <1>5, <1>7, InsertTyped DEF TypedInv
    <2>2. IdsOK'
      BY <1>4, <1>5, <1>6, <1>7, IdsMore DEF TypedInv, Insert
    <2> QED BY <1>2, <2>1, <2>2 DEF TypedInv
  <1>8. CASE UNCHANGED <<rows, issued>>
    BY <1>2, <1>4, <1>8, IdsKept DEF TypedInv, RowsOK
  <1> QED BY <1>7, <1>8 DEF LogAfterwards

LEMMA UpdateTokensTyped ==
  ASSUME TypedInv, CountInv', ConnInv', OwnInv', NEW u \in updates, UpdateTokens(u)
  PROVE  TypedInv'
  <1>1. UNCHANGED <<issued, kind, stage, open, logging>> /\ updates' = updates \ {u}
    BY DEF UpdateTokens
  <1>2. KindsOK' /\ TasksOK' /\ PoolOK'
    BY <1>1, PoolKept DEF TypedInv, KindsOK, TasksOK
  <1>3. Spent \subseteq Spent'
    BY <1>1, SpentGrows DEF Spent, NoEntry
  <1>4. IdsOK'
    BY <1>1, <1>3, IdsKept DEF TypedInv
  <1>5. RowsOK'
    <2>1. CASE u.id \in DOMAIN rows /\ rows' = [rows EXCEPT ![u.id].tokens = {u.req}]
      <3>1. \A x \in RowType : [x EXCEPT !.tokens = {u.req}] \in RowType
        BY DEF RowType, TypedInv, TasksOK
      <3>2. \A id \in DOMAIN rows' :
              /\ id \in DOMAIN rows
              /\ rows'[id] = rows[id] \/ rows'[id] = [rows[id] EXCEPT !.tokens = {u.req}]
        BY <2>1
      <3> QED BY <3>1, <3>2 DEF TypedInv, RowsOK
    <2>2. CASE UNCHANGED rows
      BY <2>2 DEF TypedInv, RowsOK
    <2> QED BY <2>1, <2>2 DEF UpdateTokens
  <1> QED BY <1>2, <1>4, <1>5 DEF TypedInv

LEMMA AnswerTyped ==
  ASSUME TypedInv, CountInv', ConnInv', OwnInv', NEW r \in Requests, Answer(r)
  PROVE  TypedInv'
  <1>1. UNCHANGED <<issued, open, updates>> /\ stage[r] = "answer"
    BY DEF Answer
  <1>2. /\ \/ stage'[r] = "stream" /\ kind'[r] = kind[r]
           \/ stage'[r] = "over" /\ kind'[r] = {}
        /\ \A q \in Requests \ {r} : stage'[q] = stage[q] /\ kind'[q] = kind[q]
    <2>1. CASE GoTo(r, "stream") /\ UNCHANGED <<kind, log, mode, part>>
      BY <2>1, GoToShape DEF TypedInv, CountInv, Shape, Stages
    <2>2. CASE Over(r)
      BY <2>2, OverShape DEF TypedInv, CountInv, Shape, Over
    <2> QED BY <2>1, <2>2 DEF Answer
  <1>3. KindsOK'
    BY <1>1, <1>2, KindsKept DEF TypedInv
  <1>4. logging' = logging \/ (~Kind(r).tracked /\ logging' = logging \union {Entry(r, Used(r))})
    BY DEF Answer
  <1>5. TasksOK'
    <2>1. Entry(r, Used(r)) \in EntryType
      BY <1>1, KindTyped DEF TypedInv, Entry, EntryType, Used
    <2> QED BY <1>1, <1>4, <2>1 DEF TypedInv, TasksOK
  <1>6. \A q \in Spent : NoEntry(q)'
    <2>1. Entry(r, Used(r)).req = r
      BY DEF Entry
    <2>2. r \in Spent => Kind(r).tracked
      BY <1>1 DEF Spent
    <2> QED BY <1>4, <2>1, <2>2 DEF Spent, NoEntry
  <1>7. Spent \subseteq Spent'
    BY <1>1, <1>2, <1>6, SpentGrows
  <1>8. RowsOK'
    <2>1. CASE rows' = [id \in DOMAIN rows |->
                 IF id \in log[r] THEN [rows[id] EXCEPT !.server = {r}] ELSE rows[id]]
      <3>1. \A x \in RowType : [x EXCEPT !.server = {r}] \in RowType
        BY DEF RowType
      <3> QED BY <2>1, <3>1 DEF TypedInv, RowsOK
    <2>2. CASE UNCHANGED rows
      BY <2>2 DEF TypedInv, RowsOK
    <2> QED BY <2>1, <2>2 DEF Answer
  <1> QED BY <1>1, <1>3, <1>5, <1>7, <1>8, IdsKept, PoolKept DEF TypedInv

(* What moves a request on without touching rows and insertions.           *)
LEMMA MoveTyped ==
  ASSUME TypedInv, CountInv', ConnInv', OwnInv', NEW r \in Requests,
         UNCHANGED <<rows, issued, logging>>,
         \/ Over(r)
         \/ /\ stage[r] \in {"send", "wait"}
            /\ UNCHANGED kind
            /\ \E to \in {"wait", "answer"} : GoTo(r, to)
         \/ UNCHANGED <<stage, kind>>,
         updates' = updates \/ \E counts : updates' = updates \union Update(r, counts),
         \/ open' \subseteq open
         \/ Cardinality(open) < MaxConnections /\ open' = open \union {r}
  PROVE  TypedInv'
  <1>1. /\ \/ stage'[r] = "over" /\ kind'[r] = {}
           \/ /\ stage[r] \in {"send", "wait"} /\ stage'[r] \in {"wait", "answer"}
              /\ kind'[r] = kind[r]
           \/ stage'[r] = stage[r] /\ kind'[r] = kind[r]
        /\ \A q \in Requests \ {r} : stage'[q] = stage[q] /\ kind'[q] = kind[q]
    <2>1. CASE Over(r)
      BY <2>1, OverShape DEF TypedInv, CountInv, Shape, Over
    <2>2. ASSUME stage[r] \in {"send", "wait"}, UNCHANGED kind,
                 NEW to \in {"wait", "answer"}, GoTo(r, to)
          PROVE  <1>1!:
      BY <2>2, GoToShape DEF TypedInv, CountInv, Stages
    <2> QED BY <2>1, <2>2
  <1>2. KindsOK'
    BY <1>1, KindsKept DEF TypedInv, KindsOK
  <1>3. Spent \subseteq Spent'
    BY <1>1, SpentGrows DEF Spent, NoEntry
  <1>4. TasksOK'
    <2>1. \A counts : \A u \in Update(r, counts) : u.req = r
      BY DEF Update
    <2> QED BY <2>1 DEF TypedInv, TasksOK
  <1> QED BY <1>2, <1>3, <1>4, IdsKept, PoolKept DEF TypedInv, RowsOK

LEMMA StepTyped ==
  ASSUME TypedInv, CountInv', ConnInv', OwnInv', NEW r \in Requests, RequestStep(r)
  PROVE  TypedInv'
  <1> USE DEF logVars, taskVars, historyVars
  <1>1. CASE Connect(r)
    BY <1>1, MoveTyped DEF Connect
  <1>2. CASE Fail(r)
    BY <1>2, MoveTyped DEF Fail
  <1>3. CASE ReplyWhole(r) \/ ReplyStream(r) \/ ReplyRaw(r) \/ ReplyUncounted(r)
    <2>1. open' \subseteq open
      BY <1>3 DEF ReplyWhole, ReplyStream, ReplyRaw, ReplyUncounted
    <2>2. updates' = updates \/ \E counts : updates' = updates \union Update(r, counts)
      BY <1>3 DEF ReplyWhole, ReplyStream, ReplyRaw, ReplyUncounted
    <2>3. stage[r] = "wait" /\ GoTo(r, "answer") /\ UNCHANGED <<kind, rows, issued, logging>>
      BY <1>3 DEF ReplyWhole, ReplyStream, ReplyRaw, ReplyUncounted, Reply
    <2> QED BY <2>1, <2>2, <2>3, MoveTyped
  <1>4. CASE PromiseStream(r)
    BY <1>4, MoveTyped DEF PromiseStream
  <1>5. CASE OpenPromised(r)
    BY <1>5, MoveTyped DEF OpenPromised
  <1>6. CASE LastLine(r) \/ FinishReason(r) \/ UsageChunk(r) \/ UnreadChunk(r)
    BY <1>6, MoveTyped DEF LastLine, FinishReason, UsageChunk, UnreadChunk, Miss
  <1>7. CASE EndStream(r) \/ BreakStream(r)
    BY <1>7, MoveTyped DEF EndStream, BreakStream, Close
  <1> QED BY <1>1, <1>2, <1>3, <1>4, <1>5, <1>6, <1>7, LogRequestTyped, AnswerTyped
          DEF RequestStep

LEMMA DeleteUserTyped ==
  ASSUME TypedInv, CountInv', ConnInv', OwnInv', NEW k \in Keys, DeleteUser(k)
  PROVE  TypedInv'
  <1>1. UNCHANGED <<issued, kind, stage, open, logging, updates>>
    BY DEF DeleteUser, taskVars
  <1>2. \A id \in DOMAIN rows' : id \in DOMAIN rows /\ rows'[id] = rows[id]
    BY DEF DeleteUser, Restrict
  <1>3. Spent \subseteq Spent'
    BY <1>1, SpentGrows DEF Spent, NoEntry
  <1> QED BY <1>1, <1>2, <1>3, IdsKept, PoolKept DEF TypedInv, KindsOK, RowsOK, TasksOK

LEMMA CrashTyped ==
  ASSUME TypedInv, CountInv', ConnInv', OwnInv', Crash
  PROVE  TypedInv'
  <1>1. /\ UNCHANGED <<rows, issued>> /\ open' = {} /\ logging' = {} /\ updates' = {}
        /\ \A q \in Requests : kind'[q] = {}
        /\ \A q \in Requests : stage[q] = "new" \/ stage'[q] = "over"
    BY DEF Crash, logVars
  <1>2. \A q \in Requests : stage'[q] \in {"new", "over"}
    BY DEF Crash
  <1>3. KindsOK'
    BY <1>1, <1>2, KindsKept DEF TypedInv
  <1>4. Spent \subseteq Spent'
    BY <1>1, SpentGrows DEF NoEntry
  <1> QED BY <1>1, <1>3, <1>4, IdsKept, PoolKept DEF TypedInv, RowsOK, TasksOK

(* The first state has the types.                                          *)
THEOREM InitTyped ==
  ASSUME Init
  PROVE  TypedInv
  <1>1. CountInv /\ ConnInv /\ OwnInv
    BY InitCount DEF Init, ConnInv, Shape, Held, Stages, OwnInv, OwnRow
  <1>2. PoolOK
    BY FS_EmptySet, BoundsAssumption DEF Init, PoolOK
  <1> QED BY <1>1, <1>2 DEF Init, TypedInv, KindsOK, RowsOK, TasksOK, IdsOK

(* Every step keeps the types: ids are given out one by one, by insertions *)
(* that each request has once.                                             *)
THEOREM NextTyped ==
  ASSUME TypedInv, [Next]_vars
  PROVE  TypedInv'
  <1>1. CountInv' /\ ConnInv' /\ OwnInv'
    BY NextCount, NextConn, NextOwn DEF TypedInv
  <1>2. CASE UNCHANGED vars
    <2>1. UNCHANGED <<rows, issued, kind, stage, open, logging, updates>>
      BY <1>2 DEF vars
    <2>2. Spent \subseteq Spent'
      BY <2>1, SpentGrows DEF Spent, NoEntry
    <2> QED BY <1>1, <2>1, <2>2, IdsKept, PoolKept DEF TypedInv, KindsOK, RowsOK, TasksOK
  <1>3. ASSUME NEW r \in Requests, Task(r) PROVE TypedInv'
    BY <1>1, <1>3, LogAfterwardsTyped, UpdateTokensTyped DEF Task
  <1> QED BY <1>1, <1>2, <1>3, SubmitTyped, StepTyped, DeleteUserTyped, CrashTyped DEF Next

(* The variables have their types: there are no more ids than requests,    *)
(* although rows are inserted before and after a request, by tasks that    *)
(* outlive it; and the pool keeps its limit.                               *)
THEOREM TypeCorrect == Spec => []TypeOK
  <1>1. Init => TypedInv
    BY InitTyped
  <1>2. TypedInv /\ [Next]_vars => TypedInv'
    BY NextTyped
  <1>3. TypedInv => TypeOK
    <2> SUFFICES ASSUME TypedInv PROVE TypeOK
      OBVIOUS
    <2>1. issued \subseteq Requests
      <3>1. Spent \in SUBSET Requests
        BY DEF Spent
      <3>2. Cardinality(Spent) \in Nat /\ Cardinality(Spent) <= MaxRequests
        BY <3>1, RequestsFinite
      <3> QED BY <3>2, BoundsAssumption DEF TypedInv, IdsOK, Requests
    <2>2. \A r \in Requests : kind[r] \subseteq Kinds /\ log[r] \subseteq issued
      BY DEF TypedInv, KindsOK, OwnInv, Own
    <2> QED BY <2>1, <2>2
            DEF TypedInv, OwnInv, RowsOK, RowType, CountInv, Shape, Stages, ConnInv, PoolOK,
                TypeOK
  <1> QED BY <1>1, <1>2, <1>3, PTL DEF Spec

-----------------------------------------------------------------------------
(* Where the tokens are that a client was sent and is to be charged for:   *)
(* in the row, with a task, or in the buffer of a stream, but for those    *)
(* the proxy has missed.                                                   *)
HasRow(r, id) == id \in DOMAIN rows /\ rows[id].req = r

Arrived(r) == \E id \in DOMAIN rows : HasRow(r, id) /\ (rows[id].tokens = {r} \/ rows[id].again)
Pending(r) == \E u \in updates : u.req = r /\ u.counts /\ HasRow(r, u.id)
Buffered(r) ==
    /\ stage[r] = "stream" /\ part[r] = "buffered"
    /\ \E id \in log[r] : HasRow(r, id)

NoneLost == \A r \in owed \ missed : Arrived(r) \/ Pending(r) \/ Buffered(r)

OwedInv == TypedInv /\ part = [r \in Requests |-> part[r]] /\ owed \subseteq Requests /\ NoneLost

(* What becomes of the tokens of a request in a step.                      *)
MovesOn(r) ==
    /\ Arrived(r) => Arrived(r)'
    /\ Pending(r) => Pending(r)' \/ Arrived(r)'
    /\ Buffered(r) => Buffered(r)' \/ Pending(r)'

(* Rows stay, whatever is inserted and whichever server is noted.          *)
RowsPersist ==
    \A id \in DOMAIN rows :
        /\ id \in DOMAIN rows'
        /\ rows'[id].req = rows[id].req
        /\ rows'[id].again = rows[id].again
        /\ rows'[id].tokens = rows[id].tokens

LEMMA InsertPersists ==
  ASSUME TypedInv, NEW e, Insert(e)
  PROVE  RowsPersist
  <1>1. NewId \notin DOMAIN rows
    BY NewIdIsNew DEF TypedInv
  <1>2. PICK new : new = NewId
    OBVIOUS
  <1>3. rows' = [id \in DOMAIN rows \union {new} |-> IF id = new THEN Row(e) ELSE rows[id]]
    BY <1>2 DEF Insert
  <1> QED BY <1>1, <1>2, <1>3 DEF RowsPersist

LEMMA AnswerPersists ==
  ASSUME NEW r, Answer(r)
  PROVE  RowsPersist
  <1>1. CASE rows' = [id \in DOMAIN rows |->
                 IF id \in log[r] THEN [rows[id] EXCEPT !.server = {r}] ELSE rows[id]]
    <2>1. \A x : /\ [x EXCEPT !.server = {r}].req = x.req
                 /\ [x EXCEPT !.server = {r}].again = x.again
                 /\ [x EXCEPT !.server = {r}].tokens = x.tokens
      OBVIOUS
    <2> QED BY <1>1, <2>1 DEF RowsPersist
  <1>2. CASE UNCHANGED rows
    BY <1>2 DEF RowsPersist
  <1> QED BY <1>1, <1>2 DEF Answer

LEMMA RowsDo ==
  ASSUME TypedInv, [Next]_vars
  PROVE  \/ RowsPersist
         \/ \E u \in updates : UpdateTokens(u)
         \/ \E k \in Keys : DeleteUser(k)
  <1> USE DEF logVars
  <1>1. UNCHANGED rows => RowsPersist
    BY DEF RowsPersist
  <1>2. CASE UNCHANGED vars
    BY <1>1, <1>2 DEF vars
  <1>3. ASSUME NEW r \in Requests, Submit(r) PROVE RowsPersist
    BY <1>1, <1>3 DEF Submit
  <1>4. ASSUME NEW r \in Requests, LogRequest(r) PROVE RowsPersist
    BY <1>1, <1>4, InsertPersists DEF LogRequest
  <1>5. ASSUME NEW e \in logging, LogAfterwards(e) PROVE RowsPersist
    BY <1>1, <1>5, InsertPersists DEF LogAfterwards
  <1>6. ASSUME NEW r \in Requests, RequestStep(r) PROVE RowsPersist
    <2>1. CASE \/ Connect(r) \/ Fail(r) \/ PromiseStream(r) \/ OpenPromised(r)
               \/ UsageChunk(r) \/ UnreadChunk(r)
      BY <1>1, <2>1
      DEF Connect, Fail, PromiseStream, OpenPromised, UsageChunk, UnreadChunk, Miss
    <2>2. CASE ReplyWhole(r) \/ ReplyStream(r) \/ ReplyRaw(r) \/ ReplyUncounted(r)
      BY <1>1, <2>2 DEF ReplyWhole, ReplyStream, ReplyRaw, ReplyUncounted, Reply
    <2>3. CASE LastLine(r) \/ FinishReason(r) \/ EndStream(r) \/ BreakStream(r)
      BY <1>1, <2>3 DEF LastLine, FinishReason, EndStream, BreakStream, Close
    <2> QED BY <1>4, <1>6, <2>1, <2>2, <2>3, AnswerPersists DEF RequestStep
  <1>7. CASE Crash
    BY <1>1, <1>7 DEF Crash
  <1> QED BY <1>2, <1>3, <1>5, <1>6, <1>7 DEF Next, Task

(* A token task finds the row of its own request, or one that has been     *)
(* another's.                                                              *)
LEMMA UpdateWrites ==
  ASSUME TypedInv, NEW u \in updates, UpdateTokens(u)
  PROVE  \A id \in DOMAIN rows :
            /\ id \in DOMAIN rows'
            /\ rows'[id].req = rows[id].req
            /\ rows'[id].again = rows[id].again
            /\ rows'[id].tokens # rows[id].tokens =>
                  rows'[id].again \/ rows'[id].tokens = {rows[id].req}
            /\ id = u.id /\ u.counts /\ u.req \in owed' => rows'[id].tokens = {u.req}
  <1>1. CASE u.id \in DOMAIN rows /\ u.counts /\ rows' = [rows EXCEPT ![u.id].tokens = {u.req}]
    <2>1. \A x \in RowType : /\ [x EXCEPT !.tokens = {u.req}].req = x.req
                             /\ [x EXCEPT !.tokens = {u.req}].again = x.again
                             /\ [x EXCEPT !.tokens = {u.req}].tokens = {u.req}
      BY DEF RowType
    <2>2. /\ DOMAIN rows' = DOMAIN rows
          /\ \A id \in DOMAIN rows : id # u.id => rows'[id] = rows[id]
          /\ rows'[u.id] = [rows[u.id] EXCEPT !.tokens = {u.req}]
      BY <1>1
    <2>3. rows[u.id] \in RowType
      BY <1>1 DEF TypedInv, RowsOK
    <2>4. rows[u.id].again \/ rows[u.id].req = u.req
      BY <1>1 DEF TypedInv, OwnInv, Own
    <2>5. /\ rows'[u.id].req = rows[u.id].req
          /\ rows'[u.id].again = rows[u.id].again
          /\ rows'[u.id].tokens = {u.req}
      BY <2>1, <2>2, <2>3
    <2> QED BY <2>2, <2>4, <2>5
  <1>2. CASE UNCHANGED rows /\ ~(u.id \in DOMAIN rows /\ u.counts)
    BY <1>2
  <1>3. CASE UNCHANGED rows /\ owed' = owed \ {u.req}
    BY <1>3
  <1> QED BY <1>1, <1>2, <1>3 DEF UpdateTokens

LEMMA DeleteKeeps ==
  ASSUME TypedInv, NEW k, DeleteUser(k), NEW r \in owed', NEW id, HasRow(r, id)
  PROVE  id \in DOMAIN rows' /\ rows'[id] = rows[id]
  <1>1. /\ DOMAIN rows' \subseteq DOMAIN rows
        /\ \A i \in DOMAIN rows' : rows'[i] = rows[i]
    BY DEF DeleteUser, Restrict
  <1>2. PICK i \in DOMAIN rows' : rows[i].req = r
    BY DEF DeleteUser
  <1>3. i = id
    BY <1>1, <1>2 DEF HasRow, TypedInv, CountInv, CountedOnce
  <1> QED BY <1>1, <1>2, <1>3

(* Tokens that have arrived stay where they are.                           *)
LEMMA ArrivedStays ==
  ASSUME TypedInv, [Next]_vars, NEW r \in owed', Arrived(r)
  PROVE  Arrived(r)'
  <1>1. PICK id \in DOMAIN rows : HasRow(r, id) /\ (rows[id].tokens = {r} \/ rows[id].again)
    BY DEF Arrived
  <1>2. CASE RowsPersist
    BY <1>1, <1>2 DEF RowsPersist, Arrived, HasRow
  <1>3. ASSUME NEW u \in updates, UpdateTokens(u) PROVE Arrived(r)'
    BY <1>1, <1>3, UpdateWrites DEF Arrived, HasRow
  <1>4. ASSUME NEW k \in Keys, DeleteUser(k) PROVE Arrived(r)'
    <2>1. id \in DOMAIN rows' /\ rows'[id] = rows[id]
      BY <1>1, <1>4, DeleteKeeps
    <2> QED BY <1>1, <2>1 DEF Arrived, HasRow
  <1> QED BY <1>2, <1>3, <1>4, RowsDo

LEMMA UpdatesDo ==
  ASSUME [Next]_vars
  PROVE  updates \subseteq updates' \/ (\E u \in updates : UpdateTokens(u)) \/ Crash
  <1> USE DEF taskVars
  <1>1. CASE UNCHANGED vars
    BY <1>1 DEF vars
  <1>2. ASSUME NEW r \in Requests, RequestStep(r) PROVE updates \subseteq updates'
    <2>1. CASE \/ LogRequest(r) \/ Connect(r) \/ Fail(r) \/ PromiseStream(r) \/ Answer(r)
               \/ OpenPromised(r) \/ UsageChunk(r) \/ UnreadChunk(r)
      BY <2>1 DEF LogRequest, Connect, Fail, PromiseStream, Answer, OpenPromised, UsageChunk,
                  UnreadChunk, Miss
    <2>2. CASE ReplyWhole(r) \/ ReplyStream(r) \/ ReplyRaw(r) \/ ReplyUncounted(r)
      BY <2>2 DEF ReplyWhole, ReplyStream, ReplyRaw, ReplyUncounted
    <2>3. CASE LastLine(r) \/ FinishReason(r) \/ EndStream(r) \/ BreakStream(r)
      BY <2>3 DEF LastLine, FinishReason, EndStream, BreakStream
    <2> QED BY <1>2, <2>1, <2>2, <2>3 DEF RequestStep
  <1> QED BY <1>1, <1>2 DEF Next, Task, Submit, LogAfterwards, DeleteUser

(* A task that is there is still there, or has done its work.              *)
LEMMA PendingMoves ==
  ASSUME TypedInv, [Next]_vars, NEW r \in owed', r \in owed, Pending(r)
  PROVE  Pending(r)' \/ Arrived(r)'
  <1>1. PICK v \in updates : v.req = r /\ v.counts /\ HasRow(r, v.id)
    BY DEF Pending
  <1>2. CASE Crash
    BY <1>1, <1>2 DEF Crash
  <1>3. ASSUME NEW u \in updates, UpdateTokens(u) PROVE Pending(r)' \/ Arrived(r)'
    <2>1. updates' = updates \ {u}
      BY <1>3 DEF UpdateTokens
    <2>2. v.id \in DOMAIN rows' /\ rows'[v.id].req = r
      BY <1>1, <1>3, UpdateWrites DEF HasRow
    <2>3. CASE v = u
      <3>1. rows'[v.id].tokens = {r}
        BY <1>1, <1>3, <2>3, UpdateWrites DEF HasRow
      <3> QED BY <2>2, <3>1 DEF Arrived, HasRow
    <2>4. CASE v # u
      BY <1>1, <2>1, <2>2, <2>4 DEF Pending, HasRow
    <2> QED BY <2>3, <2>4
  <1>4. CASE updates \subseteq updates' /\ RowsPersist
    BY <1>1, <1>4 DEF Pending, HasRow, RowsPersist
  <1>5. ASSUME NEW k \in Keys, DeleteUser(k) PROVE Pending(r)'
    <2>1. v.id \in DOMAIN rows' /\ rows'[v.id] = rows[v.id]
      BY <1>1, <1>5, DeleteKeeps
    <2>2. updates' = updates
      BY <1>5 DEF DeleteUser, taskVars
    <2> QED BY <1>1, <2>1, <2>2 DEF Pending, HasRow
  <1> QED BY <1>2, <1>3, <1>4, <1>5, RowsDo, UpdatesDo

LEMMA HasRowStays ==
  ASSUME TypedInv, [Next]_vars, NEW r \in owed', NEW id, HasRow(r, id)
  PROVE  HasRow(r, id)'
  <1>1. CASE RowsPersist
    BY <1>1 DEF RowsPersist, HasRow
  <1>2. ASSUME NEW u \in updates, UpdateTokens(u) PROVE HasRow(r, id)'
    BY <1>2, UpdateWrites DEF HasRow
  <1>3. ASSUME NEW k \in Keys, DeleteUser(k) PROVE HasRow(r, id)'
    BY <1>3, DeleteKeeps DEF HasRow
  <1> QED BY <1>1, <1>2, <1>3, RowsDo

(* Where a request is, and what it remembers, is its own.                  *)
SamePlace(r) == stage'[r] = stage[r] /\ part'[r] = part[r] /\ log'[r] = log[r]

LEMMA OthersStay ==
  ASSUME OwedInv, NEW q \in Requests, Submit(q) \/ RequestStep(q), NEW r \in Requests \ {q}
  PROVE  SamePlace(r)
  <1>1. Over(q) => SamePlace(r)
    BY DEF Over, OwedInv, TypedInv, CountInv, Shape, OwnInv, SamePlace
  <1>2. \A to : GoTo(q, to) /\ UNCHANGED <<part, log>> => SamePlace(r)
    BY DEF GoTo, OwedInv, TypedInv, CountInv, Shape, SamePlace
  <1>3. UNCHANGED <<stage, log>> /\ (UNCHANGED part \/ \E to : part' = [part EXCEPT ![q] = to])
          => SamePlace(r)
    BY DEF OwedInv, SamePlace
  <1>4. CASE Submit(q) \/ Connect(q) \/ PromiseStream(q)
    BY <1>2, <1>4 DEF Submit, Connect, PromiseStream
  <1>5. CASE LogRequest(q)
    <2>1. log' = log \/ log' = [log EXCEPT ![q] = {NewId}]
      BY <1>5 DEF LogRequest
    <2>2. stage'[r] = stage[r] /\ part'[r] = part[r]
      BY <1>5 DEF LogRequest, GoTo, OwedInv, TypedInv, CountInv, Shape
    <2>3. log'[r] = log[r]
      BY <2>1 DEF OwedInv, TypedInv, OwnInv
    <2> QED BY <2>2, <2>3 DEF SamePlace
  <1>6. CASE Fail(q) \/ EndStream(q) \/ BreakStream(q)
    BY <1>1, <1>6 DEF Fail, EndStream, BreakStream, Close
  <1>7. CASE ReplyWhole(q) \/ ReplyStream(q) \/ ReplyRaw(q) \/ ReplyUncounted(q)
    BY <1>2, <1>7 DEF ReplyWhole, ReplyStream, ReplyRaw, ReplyUncounted, Reply
  <1>8. CASE Answer(q)
    BY <1>1, <1>2, <1>8 DEF Answer
  <1>9. CASE OpenPromised(q) \/ LastLine(q) \/ FinishReason(q) \/ UsageChunk(q) \/ UnreadChunk(q)
    BY <1>3, <1>9 DEF OpenPromised, LastLine, FinishReason, UsageChunk, UnreadChunk, Miss
  <1> QED BY <1>4, <1>5, <1>6, <1>7, <1>8, <1>9 DEF RequestStep

(* A buffered line waits for the end of its stream, and is then counted.   *)
LEMMA BufferedMoves ==
  ASSUME OwedInv, [Next]_vars, NEW r \in owed', r \in owed, Buffered(r)
  PROVE  Buffered(r)' \/ Pending(r)'
  <1> USE DEF taskVars, historyVars
  <1>1. PICK id \in log[r] : HasRow(r, id)
    BY DEF Buffered
  <1>2. HasRow(r, id)' /\ r \in Requests
    BY <1>1, HasRowStays DEF OwedInv
  <1>3. SamePlace(r) => Buffered(r)'
    BY <1>1, <1>2 DEF SamePlace, Buffered
  <1>4. CASE UNCHANGED vars
    BY <1>3, <1>4 DEF vars, SamePlace
  <1>5. ASSUME NEW q \in Requests, Submit(q) PROVE Buffered(r)'
    <2>1. q # r
      BY <1>5 DEF Submit, Buffered
    <2> QED BY <1>2, <1>3, <1>5, <2>1, OthersStay
  <1>6. ASSUME NEW q \in Requests, q # r, RequestStep(q) PROVE Buffered(r)'
    BY <1>2, <1>3, <1>6, OthersStay
  <1>7. CASE RequestStep(r)
    <2>1. stage[r] = "stream" /\ part[r] = "buffered"
      BY DEF Buffered
    <2>2. OpenPromised(r) \/ EndStream(r) \/ BreakStream(r)
      BY <1>7, <2>1 DEF RequestStep, LogRequest, Connect, Fail, ReplyWhole, ReplyStream, ReplyRaw,
                        ReplyUncounted, Reply, PromiseStream, Answer, LastLine, FinishReason,
                        UsageChunk, UnreadChunk
    <2>3. CASE OpenPromised(r)
      BY <1>3, <2>3 DEF OpenPromised, SamePlace
    <2>4. CASE EndStream(r)
      <3>1. updates' = updates \union Update(r, TRUE)
        BY <2>1, <2>4 DEF EndStream
      <3> DEFINE v == [req |-> r, id |-> id, counts |-> TRUE]
      <3>2. v \in updates' /\ v.req = r /\ v.counts /\ v.id = id
        BY <1>1, <3>1 DEF Update
      <3> QED BY <1>2, <3>2 DEF Pending
    <2>5. CASE BreakStream(r)
      BY <2>1, <2>5 DEF BreakStream
    <2> QED BY <2>2, <2>3, <2>4, <2>5
  <1>8. ASSUME NEW q \in Requests, Task(q) PROVE Buffered(r)'
    BY <1>3, <1>8 DEF Task, LogAfterwards, UpdateTokens, SamePlace
  <1>9. ASSUME NEW k \in Keys, DeleteUser(k) PROVE Buffered(r)'
    BY <1>3, <1>9 DEF DeleteUser, SamePlace
  <1>10. CASE Crash
    BY <1>2, <1>10 DEF Crash, Buffered
  <1> QED BY <1>4, <1>5, <1>6, <1>7, <1>8, <1>9, <1>10 DEF Next

(* Tokens are owed when they are sent, and are then with a task or in the  *)
(* buffer, or missed.                                                      *)
Counting(r) == ReplyWhole(r) \/ LastLine(r) \/ FinishReason(r)

LEMMA MissedStays ==
  ASSUME [Next]_vars
  PROVE  missed \subseteq missed'
  <1> USE DEF historyVars
  <1>1. CASE UNCHANGED vars
    BY <1>1 DEF vars
  <1>2. ASSUME NEW r \in Requests, RequestStep(r) PROVE missed \subseteq missed'
    <2>1. CASE \/ LogRequest(r) \/ Connect(r) \/ Fail(r) \/ PromiseStream(r) \/ Answer(r)
               \/ OpenPromised(r)
      BY <2>1 DEF LogRequest, Connect, Fail, PromiseStream, Answer, OpenPromised
    <2>2. CASE ReplyWhole(r) \/ ReplyStream(r) \/ ReplyRaw(r) \/ ReplyUncounted(r)
      BY <2>2 DEF ReplyWhole, ReplyStream, ReplyRaw, ReplyUncounted, Reply
    <2>3. CASE LastLine(r) \/ FinishReason(r) \/ UsageChunk(r) \/ UnreadChunk(r)
      BY <2>3 DEF LastLine, FinishReason, UsageChunk, UnreadChunk, Miss
    <2>4. CASE EndStream(r) \/ BreakStream(r)
      BY <2>4 DEF EndStream, BreakStream, Close
    <2> QED BY <1>2, <2>1, <2>2, <2>3, <2>4 DEF RequestStep
  <1> QED BY <1>1, <1>2 DEF Next, Task, Submit, LogAfterwards, UpdateTokens, DeleteUser, Crash

LEMMA OwedSteps ==
  ASSUME [Next]_vars, NEW r \in owed', r \notin owed
  PROVE  r \in Requests /\ r \in Charged(r) /\ (Counting(r) \/ r \in missed')
  <1> USE DEF taskVars, historyVars
  <1>1. \A q : Charged(q) \subseteq {q}
    BY DEF Charged
  <1>2. UNCHANGED vars => owed' \subseteq owed
    BY DEF vars
  <1>3. ASSUME NEW q \in Requests, RequestStep(q)
        PROVE  \/ owed' \subseteq owed
               \/ /\ owed' = owed \union Charged(q)
                  /\ Counting(q) \/ Charged(q) \subseteq missed'
    <2>1. CASE \/ LogRequest(q) \/ Connect(q) \/ Fail(q) \/ PromiseStream(q) \/ Answer(q)
               \/ OpenPromised(q)
      BY <2>1 DEF LogRequest, Connect, Fail, PromiseStream, Answer, OpenPromised
    <2>2. CASE ReplyWhole(q)
      BY <2>2 DEF ReplyWhole, Counting
    <2>3. CASE ReplyStream(q) \/ ReplyRaw(q) \/ ReplyUncounted(q)
      BY <2>3 DEF ReplyStream, ReplyRaw, ReplyUncounted
    <2>4. CASE LastLine(q) \/ FinishReason(q)
      BY <2>4 DEF LastLine, FinishReason, Counting
    <2>5. CASE EndStream(q) \/ BreakStream(q)
      BY <2>5 DEF EndStream, BreakStream
    <2>6. CASE UsageChunk(q) \/ UnreadChunk(q)
      BY <2>6 DEF UsageChunk, UnreadChunk, Miss
    <2> QED BY <1>3, <2>1, <2>2, <2>3, <2>4, <2>5, <2>6 DEF RequestStep
  <1>4. ASSUME NEW q \in Requests, Submit(q) \/ Task(q) PROVE owed' \subseteq owed
    BY <1>4 DEF Submit, Task, LogAfterwards, UpdateTokens
  <1>5. ASSUME NEW k \in Keys, DeleteUser(k) PROVE owed' \subseteq owed
    BY <1>5 DEF DeleteUser
  <1>6. Crash => owed' \subseteq owed
    BY DEF Crash
  <1>7. PICK q \in Requests : RequestStep(q)
    BY <1>2, <1>4, <1>5, <1>6 DEF Next
  <1>8. owed' = owed \union Charged(q) /\ (Counting(q) \/ Charged(q) \subseteq missed')
    BY <1>3, <1>7
  <1>9. q = r /\ r \in Charged(r)
    BY <1>1, <1>8
  <1> QED BY <1>8, <1>9

LEMMA OwedIsPending ==
  ASSUME OwedInv, [Next]_vars, NEW r \in owed', r \notin owed, r \notin missed'
  PROVE  Pending(r)' \/ Buffered(r)'
  <1>1. r \in Requests /\ r \in Charged(r) /\ Counting(r)
    BY OwedSteps
  <1>2. PICK id \in log[r] : HasRow(r, id)
    BY <1>1 DEF Charged, HasRow
  <1>3. HasRow(r, id)'
    BY <1>2, HasRowStays DEF OwedInv
  <1>4. updates' = updates \union Update(r, TRUE) => Pending(r)'
    <2> DEFINE v == [req |-> r, id |-> id, counts |-> TRUE]
    <2>1. v \in Update(r, TRUE) /\ v.req = r /\ v.counts /\ v.id = id
      BY <1>2 DEF Update
    <2> QED BY <1>3, <2>1 DEF Pending
  <1>5. CASE ReplyWhole(r)
    BY <1>4, <1>5 DEF ReplyWhole
  <1>7. CASE FinishReason(r)
    BY <1>4, <1>7 DEF FinishReason
  <1>6. CASE LastLine(r)
    <2>1. stage'[r] = "stream" /\ log' = log
      BY <1>6 DEF LastLine, Streaming
    <2>2. updates' = updates \union Update(r, TRUE) \/ part' = [part EXCEPT ![r] = "buffered"]
      BY <1>6 DEF LastLine
    <2>3. part' = [part EXCEPT ![r] = "buffered"] => Buffered(r)'
      BY <1>1, <1>2, <1>3, <2>1 DEF Buffered, OwedInv
    <2> QED BY <1>4, <2>2, <2>3
  <1> QED BY <1>1, <1>5, <1>6, <1>7 DEF Counting

LEMMA PartsShape ==
  ASSUME OwedInv, [Next]_vars
  PROVE  part' = [r \in Requests |-> part'[r]]
  <1> USE DEF OwedInv, taskVars, historyVars
  <1>1. CASE UNCHANGED vars
    BY <1>1 DEF vars
  <1>2. ASSUME NEW q \in Requests, RequestStep(q) PROVE part' = [r \in Requests |-> part'[r]]
    <2>1. CASE LogRequest(q) \/ Connect(q) \/ PromiseStream(q) \/ OpenPromised(q)
      BY <2>1 DEF LogRequest, Connect, PromiseStream, OpenPromised
    <2>2. CASE ReplyWhole(q) \/ ReplyStream(q) \/ ReplyRaw(q) \/ ReplyUncounted(q)
      BY <2>2 DEF ReplyWhole, ReplyStream, ReplyRaw, ReplyUncounted, Reply
    <2>3. CASE Fail(q) \/ Answer(q) \/ EndStream(q) \/ BreakStream(q)
      BY <2>3 DEF Fail, Answer, EndStream, BreakStream, Close, Over
    <2>4. CASE LastLine(q) \/ FinishReason(q) \/ UsageChunk(q) \/ UnreadChunk(q)
      BY <2>4 DEF LastLine, FinishReason, UsageChunk, UnreadChunk, Miss
    <2> QED BY <1>2, <2>1, <2>2, <2>3, <2>4 DEF RequestStep
  <1>3. ASSUME NEW q \in Requests, Submit(q) \/ Task(q) PROVE part' = [r \in Requests |-> part'[r]]
    BY <1>3 DEF Submit, Task, LogAfterwards, UpdateTokens
  <1> QED BY <1>1, <1>2, <1>3 DEF Next, DeleteUser, Crash

(* A step that takes tokens from the buffer or from a task puts them where *)
(* they are due.                                                           *)
THEOREM NextOwed ==
  ASSUME OwedInv, [Next]_vars
  PROVE  OwedInv' /\ \A r \in owed \intersect owed' : MovesOn(r)
  <1>1. TypedInv' /\ part' = [r \in Requests |-> part'[r]]
    BY NextTyped, PartsShape DEF OwedInv
  <1>2. owed' \subseteq Requests
    BY OwedSteps DEF OwedInv
  <1>3. \A r \in owed \intersect owed' : MovesOn(r)
    BY ArrivedStays, PendingMoves, BufferedMoves DEF OwedInv, MovesOn
  <1>4. NoneLost'
    <2> SUFFICES ASSUME NEW r \in owed', r \notin missed'
                 PROVE  Arrived(r)' \/ Pending(r)' \/ Buffered(r)'
      BY DEF NoneLost
    <2>1. CASE r \in owed
      BY <1>3, <2>1, MissedStays DEF OwedInv, NoneLost, MovesOn
    <2>2. CASE r \notin owed
      BY <2>2, OwedIsPending
    <2> QED BY <2>1, <2>2
  <1> QED BY <1>1, <1>2, <1>3, <1>4 DEF OwedInv

(* No tokens are owed before the first request.                            *)
THEOREM InitOwed ==
  ASSUME Init
  PROVE  OwedInv
  BY InitTyped DEF Init, OwedInv, NoneLost

(* The safety half of TokensArrive: tokens that a client owes, and that    *)
(* came where the proxy looks for them, are in its row, or with a task     *)
(* that knows the row, or in the buffer of a stream that is still read,    *)
(* whatever is inserted, deleted or lost meanwhile.                        *)
THEOREM TokensAreSomewhere == Spec => []NoneLost
  <1>1. Init => OwedInv
    BY InitOwed
  <1>2. OwedInv /\ [Next]_vars => OwedInv'
    BY NextOwed
  <1>3. OwedInv => NoneLost
    BY DEF OwedInv
  <1> QED BY <1>1, <1>2, <1>3, PTL DEF Spec

(* They only ever move on, from the buffer to a task and from the task to  *)
(* the row, and stay there, as long as they are owed.                      *)
THEOREM TokensMoveOn == Spec => [][\A r \in owed \intersect owed' : MovesOn(r)]_vars
  <1>1. Init => OwedInv
    BY InitOwed
  <1>2. OwedInv /\ [Next]_vars => OwedInv'
    BY NextOwed
  <1>3. OwedInv /\ [Next]_vars => [\A r \in owed \intersect owed' : MovesOn(r)]_vars
    BY NextOwed
  <1> QED BY <1>1, <1>2, <1>3, PTL DEF Spec

=============================================================================
