--------------------------- MODULE CatalogService ---------------------------
(***************************************************************************)
(* The catalog of models, kept in memory by every process and persisted by *)
(* all of them through one temporary file into one JSON file, from which a *)
(* process that starts takes it.  Tasks of one process interleave wherever *)
(* one awaits (the file is opened, written and closed by a thread), those  *)
(* of different processes anywhere.                                        *)
(*                                                                         *)
(* What a catalog says is abstracted to a version: the number of the sync  *)
(* that fetched it last.  (A sync that reached no server counts as well.)  *)
(* A file is a name, an inode is what it names: whoever opened the         *)
(* temporary file writes to its inode even when it has been renamed.       *)
(***************************************************************************)
EXTENDS FiniteSets, Naturals

CONSTANTS
    Processes,
    MaxTasks,    \* bound on calls of get_local_models and get_cloud_models
    MaxCrashes,  \* bound on deaths of processes
    MaxFaults    \* bound on errors of the disk

ASSUME BoundsAssumption ==
    /\ MaxTasks \in Nat
    /\ MaxCrashes \in Nat
    /\ MaxFaults \in Nat

(* Tasks in the order of their calls; the inode a task creates is named    *)
(* after it.                                                               *)
Tasks == 1 .. MaxTasks
Versions == 0 .. MaxTasks

VARIABLES
    version,   \* what the process has in memory; 0 is the empty catalog
    cloud,     \* processes that have cloud models in memory
    fresh,     \* catalogs a process takes from its cache
    json,      \* catalog_state.json: {} or {its inode}
    tmp,       \* catalog_state.tmp: {} or {its inode}
    content,   \* of an inode: a version, and whether it is all of it
    pc,        \* where a task is
    owner,     \* {} or {the process of a task}
    what,      \* the catalog it fetches
    fetched,   \* the version it fetched, or 0
    fd,        \* {} or {the inode it has opened}
    text,      \* what it is writing
    disturbed, \* tasks whose inode another task has touched meanwhile
    syncs,     \* versions so far
    met,       \* history: tasks that were persisting at the same time
    last,      \* history: what the last task that replaced the file fetched
    crashes, faults

vars == <<version, cloud, fresh, json, tmp, content, pc, owner, what, fetched, fd, text,
          disturbed, syncs, met, last, crashes, faults>>

memVars == <<version, cloud, fresh, syncs>>
fileVars == <<json, tmp, content>>
writeVars == <<fd, text, disturbed>>
taskVars == <<owner, what, fetched>>
historyVars == <<met, last, crashes, faults>>

Contents == [version : Versions, whole : BOOLEAN]

Init ==
    /\ version = [p \in Processes |-> 0]
    /\ cloud = {}
    /\ fresh = [p \in Processes |-> {}]
    /\ json = {} /\ tmp = {}
    /\ content = [t \in Tasks |-> [version |-> 0, whole |-> FALSE]]
    /\ pc = [t \in Tasks |-> "new"]
    /\ owner = [t \in Tasks |-> {}]
    /\ what = [t \in Tasks |-> "local"]
    /\ fetched = [t \in Tasks |-> 0]
    /\ fd = [t \in Tasks |-> {}]
    /\ text = [t \in Tasks |-> 0]
    /\ disturbed = {}
    /\ syncs = 0
    /\ met = {}
    /\ last = 0
    /\ crashes = 0
    /\ faults = 0

Owner(t) == CHOOSE p \in owner[t] : TRUE
GoTo(t, to) == pc' = [pc EXCEPT ![t] = to]

(* The calls of the tasks in T are over.                                   *)
Over(T, how) ==
    /\ pc' = [t \in Tasks |-> IF t \in T THEN how ELSE pc[t]]
    /\ owner' = [t \in Tasks |-> IF t \in T THEN {} ELSE owner[t]]
    /\ what' = [t \in Tasks |-> IF t \in T THEN "local" ELSE what[t]]
    /\ fetched' = [t \in Tasks |-> IF t \in T THEN 0 ELSE fetched[t]]
    /\ text' = [t \in Tasks |-> IF t \in T THEN 0 ELSE text[t]]
    /\ fd' = [t \in Tasks |-> IF t \in T THEN {} ELSE fd[t]]
    /\ disturbed' = disturbed \ T

-----------------------------------------------------------------------------
(* get_local_models, get_cloud_models.                                     *)

Call(t, p) ==
    /\ pc[t] = "new"
    /\ \A earlier \in 1 .. t - 1 : pc[earlier] # "new"
    /\ \E w \in {"local", "cloud"} :
        IF w \in fresh[p]
        THEN Over({t}, "returned")
        ELSE /\ owner' = [owner EXCEPT ![t] = {p}]
             /\ what' = [what EXCEPT ![t] = w]
             /\ GoTo(t, "fetch")
             /\ UNCHANGED <<fetched, writeVars>>
    /\ UNCHANGED <<memVars, fileVars, historyVars>>

Expire(p) ==
    /\ fresh[p] # {}
    /\ \E w \in fresh[p] : fresh' = [fresh EXCEPT ![p] = @ \ {w}]
    /\ UNCHANGED <<version, cloud, syncs, fileVars, pc, taskVars, writeVars,
                   historyVars>>

(* A mutant: the state is changed after it has been persisted.             *)
FetchForLater(t) ==
    /\ pc[t] = "fetch"
    /\ syncs' = syncs + 1
    /\ fetched' = [fetched EXCEPT ![t] = syncs']
    /\ fresh' = [fresh EXCEPT ![Owner(t)] = @ \union {what[t]}]
    /\ GoTo(t, "open")
    /\ UNCHANGED <<version, cloud, fileVars, owner, what, writeVars, historyVars>>

(* Whatever the servers answered, the catalog is replaced and is fresh.    *)
Fetch(t) ==
    /\ pc[t] = "fetch"
    /\ syncs' = syncs + 1
    /\ fetched' = [fetched EXCEPT ![t] = syncs']
    /\ version' = [version EXCEPT ![Owner(t)] = syncs']
    /\ cloud' = IF what[t] = "cloud" THEN cloud \union owner[t] ELSE cloud
    /\ fresh' = [fresh EXCEPT ![Owner(t)] = @ \union {what[t]}]
    /\ GoTo(t, "open")
    /\ UNCHANGED <<fileVars, owner, what, writeVars, historyVars>>

-----------------------------------------------------------------------------
(* _persist_to_disk.                                                       *)

Persisting == {t \in Tasks : pc[t] \in {"write", "writing", "replace", "except", "unlink"}}

Unwritten(i) == [content EXCEPT ![i].whole = FALSE]

(* A thread opens the file: the inode of an existing file is truncated.    *)
Truncate(t, i) ==
    /\ fd' = [fd EXCEPT ![t] = {i}]
    /\ content' = Unwritten(i)
    /\ disturbed' = disturbed \union {u \in Tasks \ {t} : fd[u] = {i}}
    /\ met' = IF Persisting = {} THEN met ELSE met \union {t} \union Persisting
    /\ GoTo(t, "write")

(* A mutant: it is the JSON file that is opened.                           *)
OpenInPlace(t) ==
    /\ pc[t] = "open"
    /\ LET i == IF json = {} THEN t ELSE CHOOSE j \in json : TRUE
       IN Truncate(t, i) /\ json' = {i} /\ tmp' = {i}
    /\ UNCHANGED <<memVars, taskVars, text, last, crashes, faults>>

Open(t) ==
    /\ pc[t] = "open"
    /\ LET i == IF tmp = {} THEN t ELSE CHOOSE j \in tmp : TRUE
       IN Truncate(t, i) /\ tmp' = {i}
    /\ UNCHANGED <<memVars, json, taskVars, text, last, crashes, faults>>

(* The state is dumped when it is about to be written.  A catalog with     *)
(* cloud models cannot be: CloudModel.to_dict reads fields there are not.  *)
Dump(t) ==
    /\ pc[t] = "write"
    /\ IF Owner(t) \in cloud
       THEN /\ GoTo(t, "except")
            /\ fd' = [fd EXCEPT ![t] = {}]
            /\ UNCHANGED <<text, disturbed, content>>
       ELSE /\ GoTo(t, "writing")
            /\ text' = [text EXCEPT ![t] = version[Owner(t)]]
            /\ content' = Unwritten(CHOOSE i \in fd[t] : TRUE)
            /\ disturbed' = disturbed \union {u \in Tasks \ {t} : fd[u] = fd[t]}
            /\ UNCHANGED fd
    /\ UNCHANGED <<memVars, json, tmp, taskVars, historyVars>>

(* A mutant: the file is renamed before it is closed.                      *)
FlushOnly(t) ==
    /\ pc[t] = "writing"
    /\ \E i \in fd[t] : content' = [content EXCEPT ![i] = [version |-> text[t], whole |-> TRUE]]
    /\ GoTo(t, "replace")
    /\ UNCHANGED <<memVars, json, tmp, taskVars, writeVars, historyVars>>

(* The file is complete when it is closed.  Where others have written too, *)
(* it is only if this text is the longer one and comes last.               *)
Close(t) ==
    /\ pc[t] = "writing"
    /\ \E i \in fd[t], whole \in BOOLEAN :
        /\ t \notin disturbed => whole
        /\ content' = [content EXCEPT ![i] = [version |-> text[t], whole |-> whole]]
    /\ fd' = [fd EXCEPT ![t] = {}]
    /\ disturbed' = (disturbed \union {u \in Tasks \ {t} : fd[u] = fd[t]}) \ {t}
    /\ GoTo(t, "replace")
    /\ UNCHANGED <<memVars, json, tmp, taskVars, text, historyVars>>

(* The temporary file may be another task's by now, or gone.               *)
Replace(t) ==
    /\ pc[t] = "replace"
    /\ IF tmp = {}
       THEN GoTo(t, "except") /\ UNCHANGED <<json, tmp, last, taskVars, writeVars>>
       ELSE Over({t}, "returned") /\ json' = tmp /\ tmp' = {} /\ last' = fetched[t]
    /\ UNCHANGED <<memVars, content, met, crashes, faults>>

DiskError(t) ==
    /\ faults < MaxFaults
    /\ pc[t] \in {"open", "write", "writing", "replace"}
    /\ faults' = faults + 1
    /\ fd' = [fd EXCEPT ![t] = {}]
    /\ disturbed' = disturbed \ {t}
    /\ GoTo(t, "except")
    /\ UNCHANGED <<memVars, fileVars, taskVars, text, met, last, crashes>>

(* The handler looks for the temporary file, whoever's it is, and removes  *)
(* it; if a process has taken it in between, the call fails.               *)
LookForTmp(t) ==
    /\ pc[t] = "except"
    /\ IF tmp = {}
       THEN Over({t}, "returned")
       ELSE GoTo(t, "unlink") /\ UNCHANGED <<taskVars, writeVars>>
    /\ UNCHANGED <<memVars, fileVars, historyVars>>

Unlink(t) ==
    /\ pc[t] = "unlink"
    /\ Over({t}, IF tmp = {} THEN "raised" ELSE "returned")
    /\ tmp' = {}
    /\ UNCHANGED <<memVars, json, content, historyVars>>

(* Its process does nothing else in between.                               *)
Unlinking(p) == \E t \in Tasks : pc[t] = "unlink" /\ owner[t] = {p}

-----------------------------------------------------------------------------
(* A process dies, and the next one loads the file: when it is not whole,  *)
(* the catalog is empty.                                                   *)
Restart(p) ==
    /\ crashes < MaxCrashes
    /\ crashes' = crashes + 1
    /\ Over({t \in Tasks : owner[t] = {p}}, "raised")
    /\ LET found == {content[i].version : i \in {j \in json : content[j].whole}}
           loaded == IF found = {} THEN 0 ELSE CHOOSE v \in found : TRUE
       IN /\ version' = [version EXCEPT ![p] = loaded]
          /\ fresh' = [fresh EXCEPT ![p] = IF loaded = 0 THEN {} ELSE {"local"}]
    /\ cloud' = cloud \ {p}
    /\ UNCHANGED <<syncs, fileVars, met, last, faults>>

Step(t) ==
    Fetch(t) \/ Open(t) \/ Dump(t) \/ Close(t) \/ Replace(t) \/ DiskError(t) \/ LookForTmp(t)

Next ==
    \/ \E p \in Processes :
        \/ Restart(p)
        \/ ~Unlinking(p) /\ (Expire(p) \/ \E t \in Tasks : Call(t, p))
    \/ \E t \in Tasks :
        \/ owner[t] # {} /\ ~Unlinking(Owner(t)) /\ Step(t)
        \/ Unlink(t)

Spec == Init /\ [][Next]_vars

-----------------------------------------------------------------------------
(* The variables have their types.                                         *)
TypeOK ==
    /\ version \in [Processes -> 0 .. syncs]
    /\ cloud \subseteq Processes
    /\ fresh \in [Processes -> SUBSET {"local", "cloud"}]
    /\ json \subseteq Tasks /\ Cardinality(json) <= 1
    /\ tmp \subseteq Tasks /\ Cardinality(tmp) <= 1
    /\ content \in [Tasks -> Contents]
    /\ pc \in [Tasks -> {"new", "fetch", "open", "write", "writing", "replace", "except",
                         "unlink", "returned", "raised"}]
    /\ \A t \in Tasks : fd[t] # {} <=> pc[t] \in {"write", "writing"}

(* Wherever a process dies, the JSON file is whole, as MODEL_MATRIX.md     *)
(* says (:618), unless two tasks have persisted at the same time: the one  *)
(* may truncate what the other renames, and write into it after that.      *)
TornOnlyByOverlap ==
    \A i \in json : ~content[i].whole => met # {}

(* A sync that has replaced the file has stored what it fetched, or        *)
(* something later: a restart does not fall behind it.                     *)
ReturnedIsDurable ==
    met = {} /\ last > 0 => \E i \in json : content[i].whole /\ content[i].version >= last

=============================================================================
