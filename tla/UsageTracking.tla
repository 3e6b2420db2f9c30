--------------------------- MODULE UsageTracking ---------------------------
(***************************************************************************)
(* What a request leaves behind in one worker: a row of usage_logs, and a  *)
(* connection of the pool of the HTTP client.  For the endpoints whose     *)
(* tokens are tracked the row is inserted before the request is sent; the  *)
(* server and the tokens are added to the row with that id afterwards, the *)
(* tokens by a task nobody waits for.  For the others a task inserts the   *)
(* row in the end.  A connection is given back when the reply has been     *)
(* read, or closed.                                                        *)
(*                                                                         *)
(* The id of a row is that of the last row plus one, and the deletion of a *)
(* user deletes the rows of its keys: an id may be given out again while a *)
(* request remembers it.  Which servers are tried, and how often, belongs  *)
(* to module ReverseProxy: here a request is sent once, or fails.  Chunks  *)
(* of a stream without token counts are left out.                          *)
(***************************************************************************)
EXTENDS FiniteSetsExt, Functions, Naturals

CONSTANTS
    Keys,            \* API keys, each of a user of its own
    MaxRequests,     \* bound on requests
    MaxConnections,  \* max_connections of the pool
    MaxCrashes,      \* bound on deaths of the process
    Kinds            \* what a request may be, a subset of AllKinds

ASSUME BoundsAssumption ==
    /\ MaxRequests \in Nat
    /\ MaxConnections \in Nat \ {0}
    /\ MaxCrashes \in Nat

Requests == 1 .. MaxRequests

(* Tracked or not; for a server of which type, or for none (/api/tags).    *)
(* A vLLM server is asked for nothing else than what is tracked.           *)
AllKinds ==
    {k \in [key : Keys, tracked : BOOLEAN, backend : {"ollama", "vllm", "none"}] :
        (k.backend = "vllm" => k.tracked) /\ (k.backend = "none" => ~k.tracked)}

ASSUME KindsAssumption == Kinds \subseteq AllKinds

VARIABLES
    keys,      \* those that have not been deleted
    rows,      \* usage_logs: id -> row
    issued,    \* history: the ids that were ever given out
    kind,      \* {} or {the kind of a request}, until it is over
    stage,     \* where it is
    log,       \* log_id: {} or {the id it got}
    mode,      \* how the reply is passed on
    part,      \* how far a stream has come
    open,      \* requests that occupy a connection of the pool
    logging,   \* tasks that insert a row, as the entry they insert
    updates,   \* tasks that add tokens to a row
    owed,      \* history: requests whose client was sent token counts, unless
               \* the reply broke off in that line, their row has been deleted,
               \* or the update failed or died
    missed,    \* history: requests whose client was sent them where the proxy
               \* does not look
    crashes

vars == <<keys, rows, issued, kind, stage, log, mode, part, open, logging, updates,
          owed, missed, crashes>>

logVars == <<keys, rows, issued>>
taskVars == <<logging, updates>>
historyVars == <<owed, missed, crashes>>

Init ==
    /\ keys = Keys
    /\ rows = <<>>
    /\ issued = {}
    /\ kind = [r \in Requests |-> {}]
    /\ stage = [r \in Requests |-> "new"]
    /\ log = [r \in Requests |-> {}]
    /\ mode = [r \in Requests |-> "none"]
    /\ part = [r \in Requests |-> "text"]
    /\ open = {}
    /\ logging = {}
    /\ updates = {}
    /\ owed = {}
    /\ missed = {}
    /\ crashes = 0

(* What is left of a request when it is over: its connection, if nobody    *)
(* closed it, and the tasks.                                               *)
Over(r) ==
    /\ stage' = [stage EXCEPT ![r] = "over"]
    /\ kind' = [kind EXCEPT ![r] = {}]
    /\ log' = [log EXCEPT ![r] = {}]
    /\ part' = [part EXCEPT ![r] = "text"]
    /\ mode' = [mode EXCEPT ![r] = IF @ = "raw" THEN @ ELSE "none"]

Kind(r) == CHOOSE k \in kind[r] : TRUE
Logged(r) == log[r] # {}
GoTo(r, to) == stage' = [stage EXCEPT ![r] = to]

-----------------------------------------------------------------------------
(* The table of the rows.  `req` is the request a row is about; server and *)
(* tokens are {}, or name the request they are from; `again` says that the *)
(* id had been another row's.                                              *)

NewId == IF DOMAIN rows = {} THEN 1 ELSE Max(DOMAIN rows) + 1

Entry(r, server) == [req |-> r, key |-> Kind(r).key, server |-> server]

Row(e) ==
    [req |-> e.req, key |-> e.key, server |-> e.server, tokens |-> {},
     again |-> NewId \in issued]

Insert(e) ==
    /\ rows' = [id \in DOMAIN rows \union {NewId} |->
                   IF id = NewId THEN Row(e) ELSE rows[id]]
    /\ issued' = issued \union {NewId}

(* The insertion may fail, and so may the refresh after it: then the row   *)
(* is there and its id unknown.                                            *)
LogRequest(r) ==
    /\ stage[r] = "log"
    /\ \/ Insert(Entry(r, {})) /\ log' = [log EXCEPT ![r] = {NewId}]
       \/ Insert(Entry(r, {})) /\ UNCHANGED log
       \/ UNCHANGED <<rows, issued, log>>
    /\ GoTo(r, "send")
    /\ UNCHANGED <<keys, kind, mode, part, open, taskVars, historyVars>>

(* _async_log_usage as a task of its own, for what is not tracked.         *)
LogAfterwards(e) ==
    /\ logging' = logging \ {e}
    /\ \/ Insert(e)
       \/ UNCHANGED <<rows, issued>>
    /\ UNCHANGED <<keys, kind, stage, log, mode, part, open, updates, historyVars>>

Update(r, counts) == {[req |-> r, id |-> id, counts |-> counts] : id \in log[r]}

(* A request whose own row is still there.                                 *)
Charged(r) == {q \in {r} : \E id \in log[r] \intersect DOMAIN rows : rows[id].req = q}

(* A mutant: the task adds the tokens to the latest row.                   *)
UpdateLatestRow(u) ==
    /\ updates' = updates \ {u}
    /\ rows' = IF DOMAIN rows # {} /\ u.counts
               THEN [rows EXCEPT ![Max(DOMAIN rows)].tokens = {u.req}]
               ELSE rows
    /\ UNCHANGED <<keys, issued, kind, stage, log, mode, part, open, logging,
                   historyVars>>

(* update_usage_log_with_tokens: only counts that are there are written,   *)
(* and only if there is a row with this id.                                *)
UpdateTokens(u) ==
    /\ updates' = updates \ {u}
    /\ \/ /\ rows' = IF u.id \in DOMAIN rows /\ u.counts
                     THEN [rows EXCEPT ![u.id].tokens = {u.req}]
                     ELSE rows
          /\ UNCHANGED owed
       \/ /\ owed' = owed \ {u.req}
          /\ UNCHANGED rows
    /\ UNCHANGED <<keys, issued, kind, stage, log, mode, part, open, logging,
                   missed, crashes>>

-----------------------------------------------------------------------------
(* A request until it is answered.                                         *)

Submit(r) ==
    /\ stage[r] = "new"
    /\ \A earlier \in 1 .. r - 1 : stage[earlier] # "new"
    /\ \E k \in Kinds :
        /\ k.key \in keys
        /\ kind' = [kind EXCEPT ![r] = {k}]
        /\ GoTo(r, CASE k.backend = "none" -> "answer"
                     [] k.tracked -> "log"
                     [] OTHER -> "send")
    /\ UNCHANGED <<logVars, log, mode, part, open, taskVars, historyVars>>

(* A mutant: the pool has no limit.                                        *)
ConnectAnyway(r) ==
    /\ stage[r] = "send"
    /\ open' = open \union {r}
    /\ GoTo(r, "wait")
    /\ UNCHANGED <<logVars, kind, log, mode, part, taskVars, historyVars>>

Connect(r) ==
    /\ stage[r] = "send"
    /\ Cardinality(open) < MaxConnections
    /\ open' = open \union {r}
    /\ GoTo(r, "wait")
    /\ UNCHANGED <<logVars, kind, log, mode, part, taskVars, historyVars>>

(* No server answers, or none gives way to a connection in time.           *)
Fail(r) ==
    /\ stage[r] \in {"send", "wait"}
    /\ open' = open \ {r}
    /\ Over(r)
    /\ UNCHANGED <<logVars, taskVars, historyVars>>

Reply(r, m) ==
    /\ stage[r] = "wait"
    /\ mode' = [mode EXCEPT ![r] = m]
    /\ GoTo(r, "answer")
    /\ UNCHANGED <<logVars, kind, log, part, logging, missed, crashes>>

(* The reply is read in whole; it may lack the counts, or be cut short.    *)
ReplyWhole(r) ==
    /\ Reply(r, "whole")
    /\ Logged(r)
    /\ open' = open \ {r}
    /\ \/ /\ updates' = updates \union Update(r, TRUE)
          /\ owed' = owed \union Charged(r)
       \/ UNCHANGED <<updates, owed>>

(* The reply of an Ollama server is a stream, and tracked.                 *)
ReplyStream(r) ==
    /\ Reply(r, "stream")
    /\ Logged(r)
    /\ Kind(r).backend = "ollama"
    /\ UNCHANGED <<open, updates, owed>>

(* Without a row, and for a refusal that is no stream, the response of the *)
(* client is returned as it is, neither read nor closed.                   *)
ReplyRaw(r) ==
    /\ Reply(r, "raw")
    /\ Kind(r).backend = "ollama"
    /\ UNCHANGED <<open, updates, owed>>

(* A vLLM server whose reply nobody counts gets its connection back too.   *)
ReplyUncounted(r) ==
    /\ Reply(r, "whole")
    /\ ~Logged(r)
    /\ Kind(r).backend = "vllm"
    /\ open' = open \ {r}
    /\ UNCHANGED <<updates, owed>>

(* The stream of a vLLM server is returned before it is asked for.         *)
PromiseStream(r) ==
    /\ stage[r] = "send"
    /\ Kind(r).backend = "vllm"
    /\ mode' = [mode EXCEPT ![r] = "promise"]
    /\ GoTo(r, "answer")
    /\ UNCHANGED <<logVars, kind, log, part, open, taskVars, historyVars>>

(* The server that is logged with a request: /api/tags uses none.          *)
Used(r) == IF Kind(r).backend = "none" THEN {} ELSE {r}

(* A mutant: tracked requests are logged in the end as well.               *)
AnswerLogging(r) ==
    /\ stage[r] = "answer"
    /\ rows' = [id \in DOMAIN rows |->
                   IF id \in log[r] THEN [rows[id] EXCEPT !.server = {r}] ELSE rows[id]]
    /\ logging' = logging \union {Entry(r, Used(r))}
    /\ IF mode[r] \in {"stream", "promise"}
       THEN GoTo(r, "stream") /\ UNCHANGED <<kind, log, mode, part>>
       ELSE Over(r)
    /\ UNCHANGED <<keys, issued, open, updates, historyVars>>

(* The rest of proxy_ollama: the server is added to the row, which may     *)
(* fail, or the task that inserts a row is started.                        *)
Answer(r) ==
    /\ stage[r] = "answer"
    /\ \/ rows' = [id \in DOMAIN rows |->
                      IF id \in log[r] THEN [rows[id] EXCEPT !.server = {r}] ELSE rows[id]]
       \/ UNCHANGED rows
    /\ logging' = IF Kind(r).tracked THEN logging ELSE logging \union {Entry(r, Used(r))}
    /\ IF mode[r] \in {"stream", "promise"}
       THEN GoTo(r, "stream") /\ UNCHANGED <<kind, log, mode, part>>
       ELSE Over(r)
    /\ UNCHANGED <<keys, issued, open, updates, historyVars>>

-----------------------------------------------------------------------------
(* Streams.                                                                *)

Streaming(r) == stage[r] = "stream" /\ r \in open

OpenPromised(r) ==
    /\ stage[r] = "stream"
    /\ mode[r] = "promise"
    /\ r \notin open
    /\ Cardinality(open) < MaxConnections
    /\ open' = open \union {r}
    /\ UNCHANGED <<logVars, kind, stage, log, mode, part, taskVars, historyVars>>

(* The last line of an Ollama server has the counts.  It comes at the end  *)
(* of a chunk, or without its newline and waits in the buffer.             *)
LastLine(r) ==
    /\ Streaming(r)
    /\ mode[r] = "stream"
    /\ part[r] = "text"
    /\ \/ /\ part' = [part EXCEPT ![r] = "counted"]
          /\ updates' = updates \union Update(r, TRUE)
       \/ /\ part' = [part EXCEPT ![r] = "buffered"]
          /\ UNCHANGED updates
    /\ owed' = owed \union Charged(r)
    /\ UNCHANGED <<logVars, kind, stage, log, mode, open, logging, missed, crashes>>

(* The reason for the end, from a vLLM server, makes the proxy update the  *)
(* row: with the counts, if they came before it or with it.                *)
FinishReason(r) ==
    /\ Streaming(r)
    /\ mode[r] = "promise"
    /\ part[r] = "text"
    /\ \/ /\ part' = [part EXCEPT ![r] = "counted"]
          /\ updates' = updates \union Update(r, TRUE)
          /\ owed' = owed \union Charged(r)
       \/ /\ part' = [part EXCEPT ![r] = "finished"]
          /\ updates' = updates \union Update(r, FALSE)
          /\ UNCHANGED owed
    /\ UNCHANGED <<logVars, kind, stage, log, mode, open, logging, missed, crashes>>

(* The client gets counts that the proxy passes on and does not read.      *)
Miss(r, to) ==
    /\ part' = [part EXCEPT ![r] = to]
    /\ owed' = owed \union Charged(r)
    /\ missed' = missed \union Charged(r)
    /\ UNCHANGED <<logVars, kind, stage, log, mode, open, taskVars, crashes>>

(* The counts, from a vLLM server, in a chunk of their own after the end.  *)
UsageChunk(r) ==
    /\ Streaming(r)
    /\ part[r] = "finished"
    /\ Miss(r, "counted late")

(* The counts in a chunk that is cut inside a character, or, from a vLLM   *)
(* server, in a last line without its newline.                             *)
UnreadChunk(r) ==
    /\ Streaming(r)
    /\ mode[r] \in {"stream", "promise"}
    /\ part[r] = "text"
    /\ Miss(r, "skipped")

Close(r) ==
    /\ open' = open \ {r}
    /\ Over(r)
    /\ UNCHANGED <<logVars, logging, missed, crashes>>

(* A mutant: what is in the buffer at the end is dropped.                  *)
EndDroppingBuffer(r) ==
    /\ Streaming(r)
    /\ Close(r)
    /\ UNCHANGED <<updates, owed>>

EndStream(r) ==
    /\ Streaming(r)
    /\ Close(r)
    /\ updates' = IF part[r] = "buffered" THEN updates \union Update(r, TRUE) ELSE updates
    /\ UNCHANGED owed

(* A mutant: the generator is abandoned with the connection.               *)
AbandonStream(r) ==
    /\ stage[r] = "stream"
    /\ Over(r)
    /\ UNCHANGED <<logVars, open, taskVars, historyVars>>

(* The client goes away, the server stops in the middle, or a promised     *)
(* stream gets no connection: nobody looks at the buffer.                  *)
BreakStream(r) ==
    /\ stage[r] = "stream"
    /\ Close(r)
    /\ owed' = IF part[r] = "buffered" THEN owed \ {r} ELSE owed
    /\ UNCHANGED updates

-----------------------------------------------------------------------------
(* delete_user: the keys of the user go, and the rows of these keys.  (A   *)
(* request of the key may go on; the rows it inserts refer to no key.)     *)
DeleteUser(k) ==
    /\ k \in keys
    /\ keys' = keys \ {k}
    /\ rows' = Restrict(rows, {id \in DOMAIN rows : rows[id].key # k})
    /\ owed' = {r \in owed : \E id \in DOMAIN rows' : rows[id].req = r}
    /\ UNCHANGED <<issued, kind, stage, log, mode, part, open, taskVars, missed, crashes>>

(* The process dies and is replaced.                                       *)
Crash ==
    /\ crashes < MaxCrashes
    /\ crashes' = crashes + 1
    /\ stage' = [r \in Requests |-> IF stage[r] = "new" THEN "new" ELSE "over"]
    /\ kind' = [r \in Requests |-> {}]
    /\ log' = [r \in Requests |-> {}]
    /\ mode' = [r \in Requests |-> "none"]
    /\ part' = [r \in Requests |-> "text"]
    /\ open' = {}
    /\ logging' = {}
    /\ updates' = {}
    /\ owed' = owed \ ({u.req : u \in updates} \union {r \in Requests : part[r] = "buffered"})
    /\ UNCHANGED <<logVars, missed>>

RequestStep(r) ==
    \/ LogRequest(r) \/ Connect(r) \/ Fail(r)
    \/ ReplyWhole(r) \/ ReplyStream(r) \/ ReplyRaw(r) \/ ReplyUncounted(r)
    \/ PromiseStream(r) \/ Answer(r)
    \/ OpenPromised(r) \/ LastLine(r) \/ FinishReason(r) \/ UsageChunk(r)
    \/ UnreadChunk(r) \/ EndStream(r) \/ BreakStream(r)

Task(r) ==
    \/ \E e \in logging : e.req = r /\ LogAfterwards(e)
    \/ \E u \in updates : u.req = r /\ UpdateTokens(u)

Next ==
    \/ \E r \in Requests : Submit(r) \/ RequestStep(r) \/ Task(r)
    \/ \E k \in Keys : DeleteUser(k)
    \/ Crash

Spec ==
    /\ Init
    /\ [][Next]_vars
    /\ \A r \in Requests : WF_vars(RequestStep(r)) /\ WF_vars(Task(r))

-----------------------------------------------------------------------------
(* The variables have their types, and the pool its limit.                 *)
TypeOK ==
    /\ DOMAIN rows \subseteq issued
    /\ issued \subseteq Requests
    /\ \A id \in DOMAIN rows :
        rows[id] \in [req : Requests, key : Keys, server : SUBSET Requests,
                      tokens : SUBSET Requests, again : BOOLEAN]
    /\ \A r \in Requests : kind[r] \subseteq Kinds /\ log[r] \subseteq issued
    /\ stage \in [Requests -> {"new", "log", "send", "wait", "answer", "stream", "over"}]
    /\ open \subseteq Requests
    /\ Cardinality(open) <= MaxConnections

(* The server and the tokens of a row are those of the request it is       *)
(* about, although tasks write them late and by the id alone, unless the   *)
(* id was once a deleted row's.                                            *)
OwnRow ==
    \A id \in DOMAIN rows :
        ~rows[id].again => rows[id].server \union rows[id].tokens \subseteq {rows[id].req}

(* However it is logged, before or after, a request counts once.           *)
CountedOnce ==
    \A i, j \in DOMAIN rows : rows[i].req = rows[j].req => i = j

(* A connection is occupied only as long as its request is being served,   *)
(* whichever way it ends, but for responses that are returned unread: they *)
(* keep theirs for good, and as many as the pool has connections stop the  *)
(* worker.                                                                 *)
ConnectionsReturned ==
    \A r \in open : stage[r] \in {"wait", "answer", "stream"} \/ mode[r] = "raw"

(* A client that got its tokens is charged for them: they reach the row,   *)
(* in the end, unless the row was deleted or the update failed or died (or *)
(* the id was a deleted row's, whose request may overwrite them).  Not so  *)
(* those the proxy misses, although its docstrings speak of token tracking *)
(* without exception: in a chunk cut inside a character, and of a vLLM     *)
(* stream in a chunk after the one with the reason for the end, or in a    *)
(* last line without its newline.                                          *)
TokensArrive ==
    \A r \in Requests :
        r \in owed ~>
            \/ r \notin owed
            \/ r \in missed
            \/ \E id \in DOMAIN rows :
                rows[id].req = r /\ (rows[id].tokens = {r} \/ rows[id].again)

=============================================================================
