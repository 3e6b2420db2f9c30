------------------------ MODULE CatalogServiceProofs ------------------------
(***************************************************************************)
(* Proofs about CatalogService, for any processes and any number of tasks, *)
(* crashes and errors of the disk.                                         *)
(***************************************************************************)
EXTENDS CatalogService, FiniteSetTheorems, TLAPS

Pcs == {"new", "fetch", "open", "write", "writing", "replace", "except", "unlink",
        "returned", "raised"}
Before == {"new", "fetch", "open"}
WithFile == {"write", "writing"}
Writer == {"write", "writing", "replace"}

Shape ==
    /\ pc \in [Tasks -> Pcs]
    /\ fd \in [Tasks -> SUBSET Tasks]
    /\ content = [i \in Tasks |-> content[i]]
    /\ json \subseteq Tasks
    /\ tmp \subseteq Tasks
    /\ \A t \in Tasks : fd[t] # {} <=> pc[t] \in WithFile
    /\ \A t \in Tasks : \A i, j \in fd[t] : i = j

(* As long as no two tasks have met, there is one that writes, into the    *)
(* inode of the temporary file, or one that has been unlinked; the JSON    *)
(* file is another inode, and whole.                                       *)
Clean ==
    /\ \A i \in json : content[i].whole
    /\ json \intersect tmp = {}
    /\ disturbed = {}
    /\ \A t \in Tasks : fd[t] \intersect json = {}
    /\ \A t, u \in Tasks : pc[t] \in Writer /\ pc[u] \in Writer => t = u
    /\ \A t \in Tasks : pc[t] \in WithFile => tmp \subseteq fd[t]
    /\ \A t \in Tasks : pc[t] = "replace" => \A i \in tmp : content[i].whole
    /\ \A t \in Tasks : pc[t] \in Before => t \notin json \union tmp

Inv == Shape /\ (met = {} => Clean)

LEMMA UnwrittenShape ==
  ASSUME NEW i \in Tasks, content = [j \in Tasks |-> content[j]]
  PROVE  /\ Unwritten(i) = [j \in Tasks |-> Unwritten(i)[j]]
         /\ \A j \in Tasks \ {i} : Unwritten(i)[j] = content[j]
  BY DEF Unwritten

LEMMA OverShape ==
  ASSUME Shape, NEW T, NEW how \in {"returned", "raised"}, Over(T, how),
         UNCHANGED content, json' \subseteq Tasks, tmp' \subseteq Tasks
  PROVE  /\ Shape'
         /\ \A t \in Tasks :
               \/ pc'[t] = pc[t] /\ fd'[t] = fd[t]
               \/ pc'[t] \in {"returned", "raised"} /\ fd'[t] = {}
         /\ disturbed' \subseteq disturbed
  <1>1. \A t \in Tasks :
          \/ pc'[t] = pc[t] /\ fd'[t] = fd[t]
          \/ pc'[t] = how /\ fd'[t] = {}
    <2>1. /\ pc' = [t \in Tasks |-> IF t \in T THEN how ELSE pc[t]]
          /\ fd' = [t \in Tasks |-> IF t \in T THEN {} ELSE fd[t]]
      BY DEF Over
    <2> SUFFICES ASSUME NEW t \in Tasks
                 PROVE  \/ pc'[t] = pc[t] /\ fd'[t] = fd[t]
                        \/ pc'[t] = how /\ fd'[t] = {}
      OBVIOUS
    <2>2. CASE t \in T
      BY <2>1, <2>2
    <2>3. CASE t \notin T
      BY <2>1, <2>3
    <2> QED BY <2>2, <2>3
  <1>2. pc' \in [Tasks -> Pcs] /\ fd' \in [Tasks -> SUBSET Tasks]
    <2>1. \A t \in Tasks : pc'[t] \in Pcs /\ fd'[t] \in SUBSET Tasks
      BY <1>1 DEF Shape, Pcs
    <2>2. pc' = [t \in Tasks |-> pc'[t]] /\ fd' = [t \in Tasks |-> fd'[t]]
      BY DEF Over
    <2> QED BY <2>1, <2>2
  <1>3. \A t \in Tasks : /\ fd'[t] # {} <=> pc'[t] \in WithFile
                         /\ \A i, j \in fd'[t] : i = j
    BY <1>1 DEF Shape, WithFile
  <1>4. content' = [i \in Tasks |-> content'[i]]
    BY DEF Shape
  <1>5. Shape'
    BY <1>2, <1>3, <1>4 DEF Shape
  <1>6. disturbed' \subseteq disturbed
    BY DEF Over
  <1> QED BY <1>1, <1>5, <1>6

(* A step that leaves the files alone, or removes the temporary one, and   *)
(* makes nobody a writer.                                                  *)
LEMMA CleanKept ==
  ASSUME Inv, Shape', met' = met, UNCHANGED <<json, content>>, tmp' \subseteq tmp,
         disturbed' \subseteq disturbed,
         \A t \in Tasks : /\ fd'[t] \subseteq fd[t]
                          /\ \/ pc'[t] = pc[t] /\ fd'[t] = fd[t]
                             \/ pc'[t] \notin Writer \union Before
                             \/ pc[t] \in Before /\ pc'[t] \in Before
  PROVE  Inv'
  <1>1. ASSUME met = {}
        PROVE  Clean'
    <2>1. Clean
      BY <1>1 DEF Inv
    <2>2. \A t \in Tasks : /\ pc'[t] \in Writer => pc'[t] = pc[t] /\ fd'[t] = fd[t]
                           /\ pc'[t] \in Before => pc[t] \in Before
      BY DEF Writer, Before
    <2>3. \A t \in Tasks : pc'[t] \in WithFile => pc'[t] \in Writer
      BY DEF WithFile, Writer
    <2>4. \A t \in Tasks : pc'[t] = "replace" => pc'[t] \in Writer
      BY DEF Writer
    <2> QED BY <2>1, <2>2, <2>3, <2>4 DEF Clean
  <1> QED BY <1>1 DEF Inv

LEMMA OverInv ==
  ASSUME Inv, NEW T, NEW how \in {"returned", "raised"}, Over(T, how),
         UNCHANGED <<json, content, met>>, tmp' \subseteq tmp
  PROVE  Inv'
  <1>1. json' \subseteq Tasks /\ tmp' \subseteq Tasks
    BY DEF Inv, Shape
  <1>2. /\ Shape' /\ disturbed' \subseteq disturbed
        /\ \A t \in Tasks :
              \/ pc'[t] = pc[t] /\ fd'[t] = fd[t]
              \/ pc'[t] \in {"returned", "raised"} /\ fd'[t] = {}
    BY <1>1, OverShape DEF Inv
  <1> QED BY <1>2, CleanKept DEF Writer, Before

-----------------------------------------------------------------------------

LEMMA CallInv ==
  ASSUME Inv, NEW t \in Tasks, NEW p \in Processes, Call(t, p)
  PROVE  Inv'
  <1>1. UNCHANGED <<json, tmp, content, met>>
    BY DEF Call, fileVars, historyVars
  <1>2. CASE Over({t}, "returned")
    BY <1>1, <1>2, OverInv
  <1>3. CASE GoTo(t, "fetch") /\ UNCHANGED <<fetched, writeVars>>
    <2>1. pc[t] = "new" /\ pc' = [pc EXCEPT ![t] = "fetch"] /\ UNCHANGED <<fd, disturbed>>
      BY <1>3 DEF Call, GoTo, writeVars
    <2>2. Shape'
      BY <1>1, <2>1 DEF Inv, Shape, Pcs, WithFile
    <2> QED BY <1>1, <2>1, <2>2, CleanKept DEF Inv, Shape, Before
  <1> QED BY <1>2, <1>3 DEF Call

LEMMA ExpireInv ==
  ASSUME Inv, UNCHANGED <<json, tmp, content, met, pc, fd, disturbed>>
  PROVE  Inv'
  BY DEF Inv, Shape, Clean

LEMMA FetchInv ==
  ASSUME Inv, NEW t \in Tasks, Fetch(t)
  PROVE  Inv'
  <1>1. UNCHANGED <<json, tmp, content, met, fd, disturbed>>
    BY DEF Fetch, fileVars, historyVars, writeVars
  <1>2. pc[t] = "fetch" /\ pc' = [pc EXCEPT ![t] = "open"]
    BY DEF Fetch, GoTo
  <1>3. Shape'
    BY <1>1, <1>2 DEF Inv, Shape, Pcs, WithFile
  <1> QED BY <1>1, <1>2, <1>3, CleanKept DEF Inv, Shape, Before

LEMMA OpenInv ==
  ASSUME Inv, NEW t \in Tasks, Open(t)
  PROVE  Inv'
  <1>1. PICK i : /\ i = IF tmp = {} THEN t ELSE CHOOSE j \in tmp : TRUE
                 /\ Truncate(t, i) /\ tmp' = {i}
    BY DEF Open
  <1>2. i \in Tasks /\ (i \in tmp \/ i = t) /\ tmp' = {i} /\ (i \in tmp \/ tmp = {})
    BY <1>1 DEF Inv, Shape
  <1>3. /\ pc[t] = "open" /\ json' = json
        /\ pc' = [pc EXCEPT ![t] = "write"]
        /\ fd' = [fd EXCEPT ![t] = {i}]
        /\ content' = Unwritten(i)
        /\ disturbed' = disturbed \union {u \in Tasks \ {t} : fd[u] = {i}}
        /\ met' = IF Persisting = {} THEN met ELSE met \union {t} \union Persisting
    BY <1>1 DEF Open, Truncate, GoTo
  <1>4. /\ content' = [j \in Tasks |-> content'[j]]
        /\ \A j \in Tasks \ {i} : content'[j] = content[j]
    BY <1>2, <1>3, UnwrittenShape DEF Inv, Shape
  <1>5. Shape'
    <2>1. pc' \in [Tasks -> Pcs] /\ fd' \in [Tasks -> SUBSET Tasks]
      BY <1>2, <1>3 DEF Inv, Shape, Pcs
    <2>2. /\ pc'[t] = "write" /\ fd'[t] = {i}
          /\ \A u \in Tasks \ {t} : pc'[u] = pc[u] /\ fd'[u] = fd[u]
      BY <1>3 DEF Inv, Shape
    <2>3. \A u \in Tasks : /\ fd'[u] # {} <=> pc'[u] \in WithFile
                           /\ \A j, k \in fd'[u] : j = k
      BY <2>2 DEF Inv, Shape, WithFile
    <2>4. json' \subseteq Tasks /\ tmp' \subseteq Tasks
      BY <1>2, <1>3 DEF Inv, Shape
    <2> QED BY <1>4, <2>1, <2>3, <2>4 DEF Shape
  <1>6. ASSUME met' = {}
        PROVE  Clean'
    <2>1. Persisting = {} /\ met = {}
      BY <1>3, <1>6
    <2>2. Clean
      BY <2>1 DEF Inv
    <2>3. \A u \in Tasks : pc[u] \notin Writer /\ fd[u] = {}
      BY <2>1 DEF Persisting, Writer, Inv, Shape, WithFile
    <2>4. /\ pc'[t] = "write" /\ fd'[t] = {i}
          /\ \A u \in Tasks \ {t} : pc'[u] = pc[u] /\ fd'[u] = {}
      BY <1>3, <2>3 DEF Inv, Shape
    <2>5. i \notin json
      BY <1>2, <1>3, <2>2 DEF Clean, Before
    <2>6. disturbed' = {}
      BY <1>3, <2>2, <2>3 DEF Clean
    <2>7. \A u \in Tasks : pc'[u] \in Writer => u = t
      BY <2>3, <2>4
    <2>8. \A u \in Tasks : pc'[u] \in Before => u # t /\ pc[u] \in Before
      BY <2>4 DEF Before
    <2>9. \A j \in json' : content'[j].whole
      BY <1>3, <1>4, <2>2, <2>5 DEF Clean, Inv, Shape
    <2>10. \A u \in Tasks : pc'[u] \in Before => u \notin json' \union tmp'
      BY <1>2, <1>3, <2>2, <2>8 DEF Clean
    <2>11. \A u \in Tasks : pc'[u] \in WithFile => u = t
      BY <2>7 DEF WithFile, Writer
    <2>12. \A u \in Tasks : pc'[u] # "replace"
      BY <2>3, <2>4 DEF Writer
    <2>13. \A u \in Tasks : fd'[u] \intersect json' = {}
      BY <1>3, <2>4, <2>5
    <2>14. json' \intersect tmp' = {}
      BY <1>2, <1>3, <2>5
    <2>15. \A u \in Tasks : pc'[u] \in WithFile => tmp' \subseteq fd'[u]
      BY <1>2, <2>4, <2>11
    <2> QED BY <2>6, <2>7, <2>9, <2>10, <2>12, <2>13, <2>14, <2>15 DEF Clean
  <1> QED BY <1>5, <1>6 DEF Inv

LEMMA DumpInv ==
  ASSUME Inv, NEW t \in Tasks, Dump(t)
  PROVE  Inv'
  <1>1. UNCHANGED <<json, tmp, met>> /\ pc[t] = "write"
    BY DEF Dump, historyVars
  <1>2. CASE GoTo(t, "except") /\ fd' = [fd EXCEPT ![t] = {}]
             /\ UNCHANGED <<text, disturbed, content>>
    <2>1. Shape'
      BY <1>1, <1>2 DEF Inv, Shape, Pcs, WithFile, GoTo
    <2> QED BY <1>1, <1>2, <2>1, CleanKept DEF Inv, Shape, GoTo, Writer, Before
  <1>3. CASE /\ GoTo(t, "writing")
             /\ content' = Unwritten(CHOOSE i \in fd[t] : TRUE)
             /\ disturbed' = disturbed \union {u \in Tasks \ {t} : fd[u] = fd[t]}
             /\ UNCHANGED fd
    <2>1. PICK i : i = CHOOSE j \in fd[t] : TRUE
      OBVIOUS
    <2>2. fd[t] = {i} /\ i \in Tasks
      BY <1>1, <2>1 DEF Inv, Shape, WithFile
    <2>3. /\ content' = [j \in Tasks |-> content'[j]]
          /\ \A j \in Tasks \ {i} : content'[j] = content[j]
      BY <1>3, <2>1, <2>2, UnwrittenShape DEF Inv, Shape
    <2>4. pc' = [pc EXCEPT ![t] = "writing"]
      BY <1>3 DEF GoTo
    <2>5. Shape'
      BY <1>1, <1>3, <2>3, <2>4 DEF Inv, Shape, Pcs, WithFile
    <2>6. ASSUME met = {}
          PROVE  Clean'
      <3>1. Clean
        BY <2>6 DEF Inv
      <3>2. i \notin json
        BY <2>2, <3>1 DEF Clean
      <3>3. \A u \in Tasks \ {t} : pc'[u] = pc[u] /\ pc[u] \notin Writer /\ fd[u] = {}
        <4>1. \A u \in Tasks \ {t} : pc'[u] = pc[u] /\ pc[u] \notin Writer
          BY <1>1, <2>4, <3>1 DEF Clean, Writer, Inv, Shape
        <4> QED BY <4>1 DEF Inv, Shape, WithFile, Writer
      <3>4. disturbed' = {}
        BY <1>3, <2>2, <3>1, <3>3 DEF Clean
      <3>5. pc'[t] = "writing"
        BY <2>4 DEF Inv, Shape
      <3>6. \A j \in json' : content'[j].whole
        BY <1>1, <2>3, <3>1, <3>2 DEF Clean, Inv, Shape
      <3>7. tmp' \subseteq fd'[t]
        BY <1>1, <1>3, <3>1 DEF Clean, WithFile
      <3>8. /\ \A u \in Tasks : pc'[u] \in Writer => u = t
            /\ \A u \in Tasks : pc'[u] \in WithFile => u = t
            /\ \A u \in Tasks : pc'[u] # "replace"
            /\ \A u \in Tasks : pc'[u] \in Before => pc[u] \in Before
        BY <3>3, <3>5 DEF Writer, WithFile, Before
      <3> QED BY <1>1, <1>3, <3>1, <3>4, <3>6, <3>7, <3>8 DEF Clean
    <2> QED BY <1>1, <2>5, <2>6 DEF Inv
  <1> QED BY <1>2, <1>3 DEF Dump

LEMMA CloseInv ==
  ASSUME Inv, NEW t \in Tasks, Close(t)
  PROVE  Inv'
  <1>1. UNCHANGED <<json, tmp, met>> /\ pc[t] = "writing"
    BY DEF Close, historyVars
  <1>2. PICK i \in fd[t], whole \in BOOLEAN :
          /\ t \notin disturbed => whole
          /\ content' = [content EXCEPT ![i] = [version |-> text[t], whole |-> whole]]
    BY DEF Close
  <1>3. fd[t] = {i} /\ i \in Tasks
    BY <1>2 DEF Inv, Shape
  <1>4. /\ content' = [j \in Tasks |-> content'[j]]
        /\ content'[i].whole = whole
        /\ \A j \in Tasks \ {i} : content'[j] = content[j]
    BY <1>2, <1>3 DEF Inv, Shape
  <1>5. /\ pc' = [pc EXCEPT ![t] = "replace"] /\ fd' = [fd EXCEPT ![t] = {}]
        /\ disturbed' = (disturbed \union {u \in Tasks \ {t} : fd[u] = fd[t]}) \ {t}
    BY DEF Close, GoTo
  <1>6. Shape'
    BY <1>1, <1>4, <1>5 DEF Inv, Shape, Pcs, WithFile
  <1>7. ASSUME met = {}
        PROVE  Clean'
    <2>1. Clean
      BY <1>7 DEF Inv
    <2>2. \A u \in Tasks \ {t} : pc'[u] = pc[u] /\ pc[u] \notin Writer /\ fd[u] = {}
      <3>1. \A u \in Tasks \ {t} : pc'[u] = pc[u] /\ pc[u] \notin Writer
        BY <1>1, <1>5, <2>1 DEF Clean, Writer, Inv, Shape
      <3> QED BY <3>1 DEF Inv, Shape, WithFile, Writer
    <2>3. disturbed' = {}
      BY <1>3, <1>5, <2>1, <2>2 DEF Clean
    <2>4. pc'[t] = "replace" /\ fd'[t] = {}
      BY <1>5 DEF Inv, Shape
    <2>5. whole = TRUE
      BY <1>2, <2>1 DEF Clean
    <2>6. \A j \in json' : content'[j].whole
      BY <1>1, <1>3, <1>4, <2>1 DEF Clean, Inv, Shape
    <2>7. \A j \in tmp' : content'[j].whole
      BY <1>1, <1>3, <1>4, <2>1, <2>5 DEF Clean, WithFile
    <2>8. /\ \A u \in Tasks : pc'[u] \in Writer => u = t
          /\ \A u \in Tasks : pc'[u] \notin WithFile
          /\ \A u \in Tasks : pc'[u] \in Before => pc[u] \in Before
      BY <2>2, <2>4 DEF Writer, WithFile, Before
    <2>9. \A u \in Tasks : fd'[u] = {}
      BY <1>5, <2>2 DEF Inv, Shape
    <2> QED BY <1>1, <2>1, <2>3, <2>6, <2>7, <2>8, <2>9 DEF Clean
  <1> QED BY <1>1, <1>6, <1>7 DEF Inv

LEMMA ReplaceInv ==
  ASSUME Inv, NEW t \in Tasks, Replace(t)
  PROVE  Inv'
  <1>1. UNCHANGED <<content, met>> /\ pc[t] = "replace"
    BY DEF Replace
  <1>2. CASE tmp = {}
    <2>1. /\ pc' = [pc EXCEPT ![t] = "except"] /\ UNCHANGED <<json, tmp, fd, disturbed>>
      BY <1>2 DEF Replace, GoTo, writeVars
    <2>2. Shape'
      BY <1>1, <2>1 DEF Inv, Shape, Pcs, WithFile
    <2> QED BY <1>1, <2>1, <2>2, CleanKept DEF Inv, Shape, Writer, Before
  <1>3. CASE tmp # {}
    <2>1. Over({t}, "returned") /\ json' = tmp /\ tmp' = {}
      BY <1>3 DEF Replace
    <2>2. /\ Shape' /\ disturbed' \subseteq disturbed
          /\ \A u \in Tasks :
                \/ pc'[u] = pc[u] /\ fd'[u] = fd[u]
                \/ pc'[u] \in {"returned", "raised"} /\ fd'[u] = {}
      BY <1>1, <2>1, OverShape DEF Inv, Shape
    <2>3. pc'[t] = "returned" /\ fd'[t] = {}
      BY <2>1 DEF Over
    <2>4. ASSUME met = {}
          PROVE  Clean'
      <3>1. Clean
        BY <2>4 DEF Inv
      <3>2. \A u \in Tasks \ {t} : pc[u] \notin Writer /\ fd[u] = {}
        <4>1. \A u \in Tasks \ {t} : pc[u] \notin Writer
          BY <1>1, <3>1 DEF Clean, Writer
        <4> QED BY <4>1 DEF Inv, Shape, WithFile, Writer
      <3>3. \A u \in Tasks : pc'[u] \notin Writer /\ fd'[u] = {}
        BY <2>2, <2>3, <3>2 DEF Writer
      <3>4. \A u \in Tasks : pc'[u] \in Before => pc[u] \in Before
        BY <2>2 DEF Before
      <3>5. \A j \in json' : content'[j].whole
        BY <1>1, <2>1, <3>1 DEF Clean
      <3>6. \A u \in Tasks : pc'[u] \notin WithFile /\ pc'[u] # "replace"
        BY <3>3 DEF Writer, WithFile
      <3> QED BY <2>1, <2>2, <3>1, <3>3, <3>4, <3>5, <3>6 DEF Clean
    <2> QED BY <1>1, <2>2, <2>4 DEF Inv
  <1> QED BY <1>2, <1>3

LEMMA FaultInv ==
  ASSUME Inv, NEW t \in Tasks, DiskError(t)
  PROVE  Inv'
  <1>1. /\ UNCHANGED <<json, tmp, content, met>>
        /\ pc' = [pc EXCEPT ![t] = "except"] /\ fd' = [fd EXCEPT ![t] = {}]
        /\ disturbed' = disturbed \ {t}
    BY DEF DiskError, fileVars, GoTo
  <1>2. Shape'
    BY <1>1 DEF Inv, Shape, Pcs, WithFile
  <1> QED BY <1>1, <1>2, CleanKept DEF Inv, Shape, Writer, Before

LEMMA LookForTmpInv ==
  ASSUME Inv, NEW t \in Tasks, LookForTmp(t)
  PROVE  Inv'
  <1>1. UNCHANGED <<json, tmp, content, met>>
    BY DEF LookForTmp, fileVars, historyVars
  <1>2. CASE Over({t}, "returned")
    BY <1>1, <1>2, OverInv
  <1>3. CASE GoTo(t, "unlink") /\ UNCHANGED <<taskVars, writeVars>>
    <2>1. pc[t] = "except" /\ pc' = [pc EXCEPT ![t] = "unlink"] /\ UNCHANGED <<fd, disturbed>>
      BY <1>3 DEF LookForTmp, GoTo, writeVars
    <2>2. Shape'
      BY <1>1, <2>1 DEF Inv, Shape, Pcs, WithFile
    <2> QED BY <1>1, <2>1, <2>2, CleanKept DEF Inv, Shape, Before, Writer
  <1> QED BY <1>2, <1>3 DEF LookForTmp

LEMMA UnlinkInv ==
  ASSUME Inv, NEW t \in Tasks, Unlink(t)
  PROVE  Inv'
  BY OverInv DEF Unlink, historyVars

LEMMA RestartInv ==
  ASSUME Inv, NEW p \in Processes, Restart(p)
  PROVE  Inv'
  BY OverInv DEF Restart, fileVars

-----------------------------------------------------------------------------

(* No file is written and no task runs before the first sync.              *)
THEOREM InitInv ==
  ASSUME Init
  PROVE  Inv
  BY DEF Init, Inv, Shape, Clean, Pcs, Before, WithFile, Writer

(* Syncs, persists, crashes and restarts keep the shape of the files, and  *)
(* their content as long as no two persists have met.                      *)
THEOREM NextInv ==
  ASSUME Inv, [Next]_vars
  PROVE  Inv'
  <1>1. CASE UNCHANGED vars
    BY <1>1, ExpireInv DEF vars
  <1>2. ASSUME NEW p \in Processes, Expire(p) PROVE Inv'
    BY <1>2, ExpireInv DEF Expire, fileVars, historyVars, writeVars
  <1>3. ASSUME NEW t \in Tasks, Step(t) PROVE Inv'
    BY <1>3, FetchInv, OpenInv, DumpInv, CloseInv, ReplaceInv, FaultInv, LookForTmpInv
    DEF Step
  <1> QED BY <1>1, <1>2, <1>3, CallInv, UnlinkInv, RestartInv DEF Next

(* Wherever a process dies and whatever the disk refuses, the JSON file is *)
(* whole as long as no two tasks persisted at the same time.               *)
THEOREM WholeAlone == Spec => []TornOnlyByOverlap
  <1>1. Init => Inv
    BY InitInv
  <1>2. Inv /\ [Next]_vars => Inv'
    BY NextInv
  <1>3. Inv => TornOnlyByOverlap
    BY DEF Inv, Clean, TornOnlyByOverlap
  <1> QED BY <1>1, <1>2, <1>3, PTL DEF Spec

-----------------------------------------------------------------------------
(* What a restart finds.  A task persists no less than it fetched: the     *)
(* catalog of its process only grows until the process dies, and with it   *)
(* the task.                                                               *)
Doing == {"open", "write", "writing", "replace"}

Counted ==
    /\ syncs \in Nat
    /\ last \in Nat
    /\ version \in [Processes -> 0 .. syncs]
    /\ fetched \in [Tasks -> 0 .. syncs]
    /\ text \in [Tasks -> 0 .. syncs]
    /\ content \in [Tasks -> [version : 0 .. syncs, whole : BOOLEAN]]
    /\ owner \in [Tasks -> SUBSET Processes]

Owned == \A t \in Tasks : pc[t] \in Doing \union {"fetch"} => \E p \in Processes : owner[t] = {p}

UpToDate ==
    \A t \in Tasks :
        /\ pc[t] \in Doing => \A p \in owner[t] : fetched[t] <= version[p]
        /\ pc[t] = "writing" => fetched[t] <= text[t]

Durable ==
    /\ \A t \in Tasks : pc[t] = "replace" => \A i \in tmp : fetched[t] <= content[i].version
    /\ last > 0 => json # {}
    /\ \A i \in json : last <= content[i].version

DurableInv == Inv /\ Counted /\ Owned /\ UpToDate /\ (met = {} => Durable)

LEMMA OverTasks ==
  ASSUME Counted, Shape, NEW T, NEW how \in {"returned", "raised"}, Over(T, how)
  PROVE  /\ fetched' \in [Tasks -> 0 .. syncs]
         /\ text' \in [Tasks -> 0 .. syncs]
         /\ owner' \in [Tasks -> SUBSET Processes]
         /\ \A u \in Tasks :
               \/ /\ u \notin T
                  /\ pc'[u] = pc[u] /\ owner'[u] = owner[u]
                  /\ fetched'[u] = fetched[u] /\ text'[u] = text[u]
               \/ pc'[u] \notin Doing \union {"fetch"}
  <1>1. /\ fetched' = [t \in Tasks |-> IF t \in T THEN 0 ELSE fetched[t]]
        /\ text' = [t \in Tasks |-> IF t \in T THEN 0 ELSE text[t]]
    BY DEF Over
  <1>2. owner' = [t \in Tasks |-> IF t \in T THEN {} ELSE owner[t]]
    BY DEF Over
  <1>3. pc' = [t \in Tasks |-> IF t \in T THEN how ELSE pc[t]]
    BY DEF Over
  <1>4. fetched' \in [Tasks -> 0 .. syncs] /\ text' \in [Tasks -> 0 .. syncs]
    BY <1>1 DEF Counted
  <1>5. owner' \in [Tasks -> SUBSET Processes]
    BY <1>2 DEF Counted
  <1>6. ASSUME NEW u \in Tasks
        PROVE  \/ /\ u \notin T
                  /\ pc'[u] = pc[u] /\ owner'[u] = owner[u]
                  /\ fetched'[u] = fetched[u] /\ text'[u] = text[u]
               \/ pc'[u] \notin Doing \union {"fetch"}
    <2>1. CASE u \in T
      BY <1>3, <2>1 DEF Doing
    <2>2. CASE u \notin T
      BY <1>1, <1>2, <1>3, <2>2
    <2> QED BY <2>1, <2>2
  <1> QED BY <1>4, <1>5, <1>6

(* A step that moves no task on and leaves the files to those that have    *)
(* them.                                                                   *)
LEMMA DurableKept ==
  ASSUME DurableInv, Inv', met' = met, last' = last, UNCHANGED <<json, content, version, syncs>>,
         tmp' \subseteq tmp,
         fetched' \in [Tasks -> 0 .. syncs], text' \in [Tasks -> 0 .. syncs],
         owner' \in [Tasks -> SUBSET Processes],
         \A u \in Tasks :
            \/ /\ pc'[u] = pc[u] /\ owner'[u] = owner[u]
               /\ fetched'[u] = fetched[u] /\ text'[u] = text[u]
            \/ pc'[u] \notin Doing \union {"fetch"}
            \/ pc'[u] = "fetch" /\ \E p \in Processes : owner'[u] = {p}
  PROVE  DurableInv'
  <1>1. Counted'
    BY DEF DurableInv, Counted
  <1>2. Owned'
    BY DEF DurableInv, Owned
  <1>3. \A u \in Tasks : pc'[u] \in Doing => /\ pc'[u] = pc[u] /\ owner'[u] = owner[u]
                                           /\ fetched'[u] = fetched[u] /\ text'[u] = text[u]
    BY DEF Doing
  <1>4. \A u \in Tasks : pc'[u] \in {"writing", "replace"} => pc'[u] \in Doing
    BY DEF Doing
  <1>5. UpToDate'
    BY <1>3, <1>4 DEF DurableInv, UpToDate
  <1>6. met' = {} => Durable'
    BY <1>3, <1>4 DEF DurableInv, Durable
  <1> QED BY <1>1, <1>2, <1>5, <1>6 DEF DurableInv

LEMMA OverDurable ==
  ASSUME DurableInv, Inv', met' = met, last' = last, UNCHANGED <<json, content, version, syncs>>,
         tmp' \subseteq tmp, NEW T, NEW how \in {"returned", "raised"}, Over(T, how)
  PROVE  DurableInv'
  <1>1. Counted /\ Shape
    BY DEF DurableInv, Inv
  <1> QED BY <1>1, OverTasks, DurableKept

LEMMA CallDurable ==
  ASSUME DurableInv, Inv', NEW t \in Tasks, NEW p \in Processes, Call(t, p)
  PROVE  DurableInv'
  <1>1. UNCHANGED <<json, tmp, content, met, last, version, syncs>>
    BY DEF Call, memVars, fileVars, historyVars
  <1>2. CASE Over({t}, "returned")
    BY <1>1, <1>2, OverDurable
  <1>3. CASE /\ owner' = [owner EXCEPT ![t] = {p}]
             /\ GoTo(t, "fetch")
             /\ UNCHANGED <<fetched, writeVars>>
    <2>1. /\ pc' = [pc EXCEPT ![t] = "fetch"] /\ UNCHANGED <<fetched, text>>
          /\ owner' \in [Tasks -> SUBSET Processes]
      BY <1>3 DEF GoTo, writeVars, DurableInv, Counted
    <2>2. /\ pc'[t] = "fetch" /\ owner'[t] = {p}
          /\ \A u \in Tasks \ {t} : pc'[u] = pc[u] /\ owner'[u] = owner[u]
      BY <1>3, <2>1 DEF DurableInv, Counted, Inv, Shape
    <2>3. fetched' \in [Tasks -> 0 .. syncs] /\ text' \in [Tasks -> 0 .. syncs]
      BY <2>1 DEF DurableInv, Counted
    <2> QED BY <1>1, <2>1, <2>2, <2>3, DurableKept
  <1> QED BY <1>2, <1>3 DEF Call

LEMMA FetchDurable ==
  ASSUME DurableInv, Inv', NEW t \in Tasks, Fetch(t)
  PROVE  DurableInv'
  <1>1. UNCHANGED <<json, tmp, content, met, last, owner, text>>
    BY DEF Fetch, fileVars, historyVars, writeVars
  <1>2. pc[t] = "fetch" /\ pc' = [pc EXCEPT ![t] = "open"] /\ syncs' = syncs + 1
    BY DEF Fetch, GoTo
  <1>3. PICK p \in Processes : owner[t] = {p}
    BY <1>2 DEF DurableInv, Owned
  <1>4. /\ version' = [version EXCEPT ![p] = syncs']
        /\ fetched' = [fetched EXCEPT ![t] = syncs']
    BY <1>3 DEF Fetch, Owner
  <1>5. Counted'
    BY <1>1, <1>2, <1>4 DEF DurableInv, Counted
  <1>6. /\ pc'[t] = "open"
        /\ \A u \in Tasks \ {t} : pc'[u] = pc[u] /\ fetched'[u] = fetched[u]
        /\ fetched'[t] = syncs' /\ version'[p] = syncs'
        /\ \A q \in Processes : version[q] <= version'[q]
    BY <1>2, <1>4 DEF DurableInv, Counted, Inv, Shape
  <1>7. Owned'
    BY <1>1, <1>3, <1>6 DEF DurableInv, Owned
  <1>8. UpToDate'
    <2>1. ASSUME NEW u \in Tasks, pc'[u] \in Doing, NEW q \in owner'[u]
          PROVE  fetched'[u] <= version'[q]
      <3>1. CASE u = t
        BY <1>1, <1>3, <1>5, <1>6, <2>1, <3>1 DEF Counted
      <3>2. CASE u # t
        <4>1. fetched[u] <= version[q] /\ q \in Processes
          BY <1>1, <1>6, <2>1, <3>2 DEF DurableInv, UpToDate, Counted
        <4> QED BY <1>6, <3>2, <4>1, <1>5 DEF DurableInv, Counted
      <3> QED BY <3>1, <3>2
    <2>2. ASSUME NEW u \in Tasks, pc'[u] = "writing"
          PROVE  fetched'[u] <= text'[u]
      BY <1>1, <1>6, <2>2 DEF DurableInv, UpToDate
    <2> QED BY <2>1, <2>2 DEF UpToDate
  <1>9. met' = {} => Durable'
    BY <1>1, <1>6 DEF DurableInv, Durable
  <1> QED BY <1>5, <1>7, <1>8, <1>9 DEF DurableInv

LEMMA UnwrittenVersions ==
  ASSUME Counted, NEW i \in Tasks
  PROVE  /\ Unwritten(i) \in [Tasks -> [version : 0 .. syncs, whole : BOOLEAN]]
         /\ \A j \in Tasks : Unwritten(i)[j].version = content[j].version
  BY DEF Counted, Unwritten

LEMMA OpenDurable ==
  ASSUME DurableInv, Inv', NEW t \in Tasks, Open(t)
  PROVE  DurableInv'
  <1>1. PICK i : /\ i = IF tmp = {} THEN t ELSE CHOOSE j \in tmp : TRUE
                 /\ Truncate(t, i) /\ tmp' = {i}
    BY DEF Open
  <1>2. i \in Tasks
    BY <1>1 DEF DurableInv, Inv, Shape
  <1>3. /\ pc[t] = "open" /\ pc' = [pc EXCEPT ![t] = "write"]
        /\ content' = Unwritten(i)
        /\ met' = IF Persisting = {} THEN met ELSE met \union {t} \union Persisting
        /\ UNCHANGED <<version, syncs, json, fetched, owner, text, last>>
    BY <1>1 DEF Open, Truncate, GoTo, memVars, taskVars
  <1>4. /\ content' \in [Tasks -> [version : 0 .. syncs, whole : BOOLEAN]]
        /\ \A j \in Tasks : content'[j].version = content[j].version
    BY <1>2, <1>3, UnwrittenVersions DEF DurableInv
  <1>5. Counted'
    BY <1>3, <1>4 DEF DurableInv, Counted
  <1>6. /\ pc'[t] = "write"
        /\ \A u \in Tasks \ {t} : pc'[u] = pc[u]
    BY <1>3 DEF DurableInv, Inv, Shape
  <1>7. Owned' /\ UpToDate'
    BY <1>3, <1>6 DEF DurableInv, Owned, UpToDate, Doing
  <1>8. ASSUME met' = {}
        PROVE  Durable'
    <2>1. Persisting = {} /\ met = {}
      BY <1>3, <1>8
    <2>2. \A u \in Tasks : pc'[u] # "replace"
      BY <1>6, <2>1 DEF Persisting
    <2>3. json \subseteq Tasks
      BY DEF DurableInv, Inv, Shape
    <2> QED BY <1>3, <1>4, <2>1, <2>2, <2>3 DEF DurableInv, Durable
  <1> QED BY <1>5, <1>7, <1>8 DEF DurableInv

LEMMA DumpDurable ==
  ASSUME DurableInv, Inv', NEW t \in Tasks, Dump(t)
  PROVE  DurableInv'
  <1>1. /\ UNCHANGED <<version, syncs, json, tmp, fetched, owner, what, met, last>>
        /\ pc[t] = "write"
    BY DEF Dump, memVars, taskVars, historyVars
  <1>2. CASE GoTo(t, "except") /\ UNCHANGED <<text, disturbed, content>>
    <2>1. pc' = [pc EXCEPT ![t] = "except"]
      BY <1>2 DEF GoTo
    <2>2. /\ pc'[t] = "except"
          /\ \A u \in Tasks \ {t} : pc'[u] = pc[u]
      BY <2>1 DEF DurableInv, Inv, Shape
    <2>3. /\ fetched' \in [Tasks -> 0 .. syncs] /\ text' \in [Tasks -> 0 .. syncs]
          /\ owner' \in [Tasks -> SUBSET Processes]
      BY <1>1, <1>2 DEF DurableInv, Counted
    <2> QED BY <1>1, <1>2, <2>2, <2>3, DurableKept DEF Doing
  <1>3. CASE /\ GoTo(t, "writing")
             /\ text' = [text EXCEPT ![t] = version[Owner(t)]]
             /\ content' = Unwritten(CHOOSE i \in fd[t] : TRUE)
    <2>1. PICK p \in Processes : owner[t] = {p}
      BY <1>1 DEF DurableInv, Owned, Doing
    <2>2. text' = [text EXCEPT ![t] = version[p]]
      BY <1>3, <2>1 DEF Owner
    <2>3. PICK i \in Tasks : content' = Unwritten(i)
      BY <1>1, <1>3 DEF DurableInv, Inv, Shape, WithFile
    <2>4. /\ content' \in [Tasks -> [version : 0 .. syncs, whole : BOOLEAN]]
          /\ \A j \in Tasks : content'[j].version = content[j].version
      BY <2>3, UnwrittenVersions DEF DurableInv
    <2>5. Counted'
      BY <1>1, <2>2, <2>4 DEF DurableInv, Counted
    <2>6. /\ pc'[t] = "writing" /\ text'[t] = version[p]
          /\ \A u \in Tasks \ {t} : pc'[u] = pc[u] /\ text'[u] = text[u]
      BY <1>3, <2>2 DEF GoTo, DurableInv, Inv, Shape, Counted
    <2>7. Owned' /\ UpToDate'
      BY <1>1, <2>1, <2>6 DEF DurableInv, Owned, UpToDate, Doing
    <2>8. met' = {} => Durable'
      BY <1>1, <2>4, <2>6 DEF DurableInv, Durable, Inv, Shape
    <2> QED BY <2>5, <2>7, <2>8 DEF DurableInv
  <1> QED BY <1>2, <1>3 DEF Dump

LEMMA CloseDurable ==
  ASSUME DurableInv, Inv', NEW t \in Tasks, Close(t)
  PROVE  DurableInv'
  <1>1. /\ UNCHANGED <<version, syncs, json, tmp, fetched, owner, text, met, last>>
        /\ pc[t] = "writing" /\ pc' = [pc EXCEPT ![t] = "replace"]
    BY DEF Close, memVars, taskVars, historyVars, GoTo
  <1>2. PICK i \in fd[t], whole \in BOOLEAN :
          content' = [content EXCEPT ![i] = [version |-> text[t], whole |-> whole]]
    BY DEF Close
  <1>3. i \in Tasks
    BY DEF DurableInv, Inv, Shape
  <1>4. /\ content' \in [Tasks -> [version : 0 .. syncs, whole : BOOLEAN]]
        /\ content'[i].version = text[t]
        /\ \A j \in Tasks \ {i} : content'[j] = content[j]
    BY <1>2, <1>3 DEF DurableInv, Counted
  <1>5. Counted'
    BY <1>1, <1>4 DEF DurableInv, Counted
  <1>6. /\ pc'[t] = "replace"
        /\ \A u \in Tasks \ {t} : pc'[u] = pc[u]
    BY <1>1 DEF DurableInv, Inv, Shape
  <1>7. Owned' /\ UpToDate'
    BY <1>1, <1>6 DEF DurableInv, Owned, UpToDate, Doing
  <1>8. ASSUME met = {}
        PROVE  Durable'
    <2>1. Clean /\ Durable
      BY <1>8 DEF DurableInv, Inv
    <2>2. i \notin json
      BY <2>1 DEF Clean
    <2>3. tmp \subseteq {i}
      BY <1>1, <2>1 DEF Clean, WithFile, DurableInv, Inv, Shape
    <2>4. \A u \in Tasks : pc'[u] = "replace" => u = t
      BY <1>1, <1>6, <2>1 DEF Clean, Writer
    <2>5. fetched[t] <= content'[i].version
      BY <1>1, <1>4 DEF DurableInv, UpToDate
    <2>6. \A j \in json : last <= content'[j].version
      BY <1>4, <2>1, <2>2 DEF Durable, DurableInv, Inv, Shape
    <2> QED BY <1>1, <2>1, <2>3, <2>4, <2>5, <2>6 DEF Durable
  <1> QED BY <1>1, <1>5, <1>7, <1>8 DEF DurableInv

LEMMA ReplaceDurable ==
  ASSUME DurableInv, Inv', NEW t \in Tasks, Replace(t)
  PROVE  DurableInv'
  <1>1. UNCHANGED <<version, syncs, content, met>> /\ pc[t] = "replace"
    BY DEF Replace, memVars
  <1>2. CASE tmp = {}
    <2>1. /\ pc' = [pc EXCEPT ![t] = "except"]
          /\ UNCHANGED <<json, tmp, last, fetched, owner, text>>
      BY <1>2 DEF Replace, GoTo, taskVars, writeVars
    <2>2. /\ pc'[t] = "except"
          /\ \A u \in Tasks \ {t} : pc'[u] = pc[u]
      BY <2>1 DEF DurableInv, Inv, Shape
    <2>3. /\ fetched' \in [Tasks -> 0 .. syncs] /\ text' \in [Tasks -> 0 .. syncs]
          /\ owner' \in [Tasks -> SUBSET Processes]
      BY <2>1 DEF DurableInv, Counted
    <2> QED BY <1>1, <2>1, <2>2, <2>3, DurableKept DEF Doing
  <1>3. CASE tmp # {}
    <2>1. Over({t}, "returned") /\ json' = tmp /\ tmp' = {} /\ last' = fetched[t]
      BY <1>3 DEF Replace
    <2>2. /\ fetched' \in [Tasks -> 0 .. syncs] /\ text' \in [Tasks -> 0 .. syncs]
          /\ owner' \in [Tasks -> SUBSET Processes]
          /\ \A u \in Tasks :
                \/ /\ pc'[u] = pc[u] /\ owner'[u] = owner[u]
                   /\ fetched'[u] = fetched[u] /\ text'[u] = text[u]
                \/ pc'[u] \notin Doing \union {"fetch"}
      BY <2>1, OverTasks DEF DurableInv, Inv
    <2>3. Counted'
      BY <1>1, <2>1, <2>2 DEF DurableInv, Counted
    <2>4. \A u \in Tasks : pc'[u] \in {"writing", "replace"} => pc'[u] \in Doing
      BY DEF Doing
    <2>5. Owned' /\ UpToDate'
      BY <1>1, <2>2, <2>4 DEF DurableInv, Owned, UpToDate
    <2>6. met' = {} => Durable'
      BY <1>1, <1>3, <2>1 DEF DurableInv, Durable
    <2> QED BY <2>3, <2>5, <2>6 DEF DurableInv
  <1> QED BY <1>2, <1>3

LEMMA FaultDurable ==
  ASSUME DurableInv, Inv', NEW t \in Tasks, DiskError(t)
  PROVE  DurableInv'
  <1>1. /\ UNCHANGED <<version, syncs, json, tmp, content, met, last, fetched, owner, text>>
        /\ pc' = [pc EXCEPT ![t] = "except"]
    BY DEF DiskError, memVars, fileVars, taskVars, GoTo
  <1>2. /\ pc'[t] = "except"
        /\ \A u \in Tasks \ {t} : pc'[u] = pc[u]
    BY <1>1 DEF DurableInv, Inv, Shape
  <1>3. /\ fetched' \in [Tasks -> 0 .. syncs] /\ text' \in [Tasks -> 0 .. syncs]
        /\ owner' \in [Tasks -> SUBSET Processes]
    BY <1>1 DEF DurableInv, Counted
  <1> QED BY <1>1, <1>2, <1>3, DurableKept DEF Doing

LEMMA LookForTmpDurable ==
  ASSUME DurableInv, Inv', NEW t \in Tasks, LookForTmp(t)
  PROVE  DurableInv'
  <1>1. UNCHANGED <<version, syncs, json, tmp, content, met, last>>
    BY DEF LookForTmp, memVars, fileVars, historyVars
  <1>2. CASE Over({t}, "returned")
    BY <1>1, <1>2, OverDurable
  <1>3. CASE GoTo(t, "unlink") /\ UNCHANGED <<taskVars, writeVars>>
    <2>1. pc' = [pc EXCEPT ![t] = "unlink"] /\ UNCHANGED <<fetched, owner, text>>
      BY <1>3 DEF GoTo, taskVars, writeVars
    <2>2. /\ pc'[t] = "unlink"
          /\ \A u \in Tasks \ {t} : pc'[u] = pc[u]
      BY <2>1 DEF DurableInv, Inv, Shape
    <2>3. /\ fetched' \in [Tasks -> 0 .. syncs] /\ text' \in [Tasks -> 0 .. syncs]
          /\ owner' \in [Tasks -> SUBSET Processes]
      BY <2>1 DEF DurableInv, Counted
    <2> QED BY <1>1, <2>1, <2>2, <2>3, DurableKept DEF Doing
  <1> QED BY <1>2, <1>3 DEF LookForTmp

LEMMA UnlinkDurable ==
  ASSUME DurableInv, Inv', NEW t \in Tasks, Unlink(t)
  PROVE  DurableInv'
  BY OverDurable DEF Unlink, memVars, historyVars

(* The tasks of the process that dies go with it; those of the others keep *)
(* what their own process has in memory.                                   *)
LEMMA RestartDurable ==
  ASSUME DurableInv, Inv', NEW p \in Processes, Restart(p)
  PROVE  DurableInv'
  <1> DEFINE T == {t \in Tasks : owner[t] = {p}}
  <1>1. UNCHANGED <<syncs, json, tmp, content, met, last>>
    BY DEF Restart, fileVars
  <1>2. Over(T, "raised")
    BY DEF Restart
  <1>3. /\ fetched' \in [Tasks -> 0 .. syncs] /\ text' \in [Tasks -> 0 .. syncs]
        /\ owner' \in [Tasks -> SUBSET Processes]
        /\ \A u \in Tasks :
              \/ /\ u \notin T
                 /\ pc'[u] = pc[u] /\ owner'[u] = owner[u]
                 /\ fetched'[u] = fetched[u] /\ text'[u] = text[u]
              \/ pc'[u] \notin Doing \union {"fetch"}
    BY <1>2, OverTasks DEF DurableInv, Inv
  <1>4. PICK loaded \in 0 .. syncs : version' = [version EXCEPT ![p] = loaded]
    <2> DEFINE found == {content[i].version : i \in {j \in json : content[j].whole}}
    <2>1. found \subseteq 0 .. syncs
      BY DEF DurableInv, Inv, Shape, Counted
    <2>2. (IF found = {} THEN 0 ELSE CHOOSE v \in found : TRUE) \in 0 .. syncs
      <3>1. CASE found = {}
        BY <3>1 DEF DurableInv, Counted
      <3>2. CASE found # {}
        <4>1. (CHOOSE v \in found : TRUE) \in found
          BY <3>2
        <4> QED BY <2>1, <3>2, <4>1
      <3> QED BY <3>1, <3>2
    <2>3. version' = [version EXCEPT ![p] = IF found = {} THEN 0 ELSE CHOOSE v \in found : TRUE]
      BY DEF Restart
    <2> QED BY <2>2, <2>3
  <1>5. Counted'
    BY <1>1, <1>3, <1>4 DEF DurableInv, Counted
  <1>6. Owned'
    BY <1>3 DEF DurableInv, Owned
  <1>7. \A u \in Tasks : pc'[u] \in {"writing", "replace"} => pc'[u] \in Doing
    BY DEF Doing
  <1>8. UpToDate'
    <2>1. ASSUME NEW u \in Tasks, pc'[u] \in Doing, NEW q \in owner'[u]
          PROVE  fetched'[u] <= version'[q]
      <3>1. /\ u \notin T /\ pc[u] \in Doing
            /\ owner'[u] = owner[u] /\ fetched'[u] = fetched[u]
        BY <1>3, <2>1
      <3>2. q # p
        BY <2>1, <3>1 DEF DurableInv, Owned
      <3>3. q \in Processes /\ fetched[u] <= version[q]
        BY <2>1, <3>1 DEF DurableInv, UpToDate, Counted
      <3> QED BY <1>4, <3>1, <3>2, <3>3 DEF DurableInv, Counted
    <2>2. ASSUME NEW u \in Tasks, pc'[u] = "writing"
          PROVE  fetched'[u] <= text'[u]
      BY <1>3, <1>7, <2>2 DEF DurableInv, UpToDate
    <2> QED BY <2>1, <2>2 DEF UpToDate
  <1>9. met' = {} => Durable'
    BY <1>1, <1>3, <1>7 DEF DurableInv, Durable
  <1> QED BY <1>5, <1>6, <1>8, <1>9 DEF DurableInv

LEMMA StillDurable ==
  ASSUME DurableInv, Inv',
         UNCHANGED <<version, syncs, json, tmp, content, pc, owner, fetched, text, met, last>>
  PROVE  DurableInv'
  BY DEF DurableInv, Counted, Owned, UpToDate, Durable

(* Nothing was reported before the first sync.                             *)
THEOREM InitDurable ==
  ASSUME Init
  PROVE  DurableInv
  <1>1. Counted
    BY DEF Init, Counted
  <1> QED BY <1>1, InitInv DEF Init, DurableInv, Owned, UpToDate, Durable, Doing

(* No step of a task, nor a crash, takes back what a sync has reported, as *)
(* long as no two persists have met.                                       *)
THEOREM NextDurable ==
  ASSUME DurableInv, [Next]_vars
  PROVE  DurableInv'
  <1>0. Inv'
    BY NextInv DEF DurableInv
  <1>1. CASE UNCHANGED vars
    BY <1>0, <1>1, StillDurable DEF vars
  <1>2. ASSUME NEW p \in Processes, Expire(p) PROVE DurableInv'
    BY <1>0, <1>2, StillDurable DEF Expire, fileVars, taskVars, historyVars, writeVars
  <1>3. ASSUME NEW t \in Tasks, Step(t) PROVE DurableInv'
    BY <1>0, <1>3, FetchDurable, OpenDurable, DumpDurable, CloseDurable, ReplaceDurable,
       FaultDurable, LookForTmpDurable
    DEF Step
  <1> QED BY <1>0, <1>1, <1>2, <1>3, CallDurable, UnlinkDurable, RestartDurable DEF Next

(* The JSON file is no older than what the last sync to replace it fetched *)
(* as long as no two tasks persisted at the same time: a process that dies *)
(* loses nothing that a call has stored.                                   *)
THEOREM StoredSurvives == Spec => []ReturnedIsDurable
  <1>1. Init => DurableInv
    BY InitDurable
  <1>2. DurableInv /\ [Next]_vars => DurableInv'
    BY NextDurable
  <1>3. DurableInv => ReturnedIsDurable
    <2> SUFFICES ASSUME DurableInv, met = {}, last > 0
                 PROVE  \E i \in json : content[i].whole /\ content[i].version >= last
      BY DEF ReturnedIsDurable
    <2>1. Clean /\ Durable
      BY DEF DurableInv, Inv
    <2>2. PICK i \in json : last <= content[i].version
      BY <2>1 DEF Durable
    <2>3. i \in Tasks /\ content[i].version \in Nat /\ last \in Nat
      BY DEF DurableInv, Counted, Inv, Shape
    <2> QED BY <2>1, <2>2, <2>3 DEF Clean
  <1> QED BY <1>1, <1>2, <1>3, PTL DEF Spec

-----------------------------------------------------------------------------
(* The types of the other variables.  There are as many versions as syncs, *)
(* and a task is one sync at most: it counts once it has fetched.          *)
Catalogs == {"local", "cloud"}
Synced == {t \in Tasks : pc[t] \notin {"new", "fetch"}}

Typed ==
    /\ what \in [Tasks -> Catalogs]
    /\ cloud \subseteq Processes
    /\ fresh \in [Processes -> SUBSET Catalogs]
    /\ \A i, j \in json : i = j
    /\ \A i, j \in tmp : i = j
    /\ syncs <= Cardinality(Synced)

TypedInv == DurableInv /\ Typed

LEMMA TasksFinite ==
  ASSUME NEW S \in SUBSET Tasks
  PROVE  /\ IsFiniteSet(S)
         /\ Cardinality(S) \in Nat
         /\ Cardinality(S) <= MaxTasks
  <1>1. MaxTasks \in Nat
    BY BoundsAssumption
  <1>2. IsFiniteSet(Tasks) /\ Cardinality(Tasks) = MaxTasks
    BY <1>1, FS_Interval DEF Tasks
  <1>3. IsFiniteSet(S) /\ Cardinality(S) <= Cardinality(Tasks)
    BY <1>2, FS_Subset
  <1> QED BY <1>2, <1>3, FS_CardinalityType

LEMMA AtMostOne ==
  ASSUME NEW S, \A i, j \in S : i = j
  PROVE  Cardinality(S) <= 1
  <1>1. CASE S = {}
    BY <1>1, FS_EmptySet
  <1>2. CASE S # {}
    <2>1. PICK i \in S : TRUE
      BY <1>2
    <2>2. S = {i}
      BY <2>1
    <2>3. Cardinality({i}) = 1
      BY FS_Singleton
    <2> QED BY <2>2, <2>3
  <1> QED BY <1>1, <1>2

(* No step takes a task back, and only a sync makes a version.             *)
LEMMA CountKept ==
  ASSUME TypedInv, syncs' = syncs,
         \A u \in Tasks : pc'[u] \in {"new", "fetch"} => pc[u] \in {"new", "fetch"}
  PROVE  (syncs <= Cardinality(Synced))'
  <1>1. Synced' \in SUBSET Tasks /\ Synced \in SUBSET Synced'
    BY DEF Synced
  <1>2. IsFiniteSet(Synced')
    BY <1>1, TasksFinite
  <1>3. Cardinality(Synced) <= Cardinality(Synced')
    BY <1>1, <1>2, FS_Subset
  <1>4. Cardinality(Synced) \in Nat /\ Cardinality(Synced') \in Nat /\ syncs \in Nat
    BY <1>1, TasksFinite DEF Synced, TypedInv, DurableInv, Counted
  <1> QED BY <1>3, <1>4 DEF TypedInv, Typed

LEMMA CountFetched ==
  ASSUME TypedInv, NEW t \in Tasks, pc[t] = "fetch", syncs' = syncs + 1,
         pc' = [pc EXCEPT ![t] = "open"]
  PROVE  (syncs <= Cardinality(Synced))'
  <1>1. Synced' = Synced \cup {t} /\ t \notin Synced
    BY DEF Synced, TypedInv, DurableInv, Inv, Shape
  <1>2. Synced \in SUBSET Tasks
    BY DEF Synced
  <1>3. IsFiniteSet(Synced) /\ Cardinality(Synced) \in Nat
    BY <1>2, TasksFinite
  <1>4. Cardinality(Synced') = Cardinality(Synced) + 1
    BY <1>1, <1>3, FS_AddElement
  <1> QED BY <1>3, <1>4 DEF TypedInv, Typed, DurableInv, Counted

(* A step that leaves what is in memory alone.                             *)
LEMMA TypedKept ==
  ASSUME TypedInv, DurableInv', UNCHANGED <<cloud, fresh, syncs>>,
         what' \in [Tasks -> Catalogs],
         json' \subseteq json \/ json' \subseteq tmp,
         tmp' \subseteq tmp \/ \E i \in Tasks : tmp' = {i},
         \A u \in Tasks : pc'[u] \in {"new", "fetch"} => pc[u] \in {"new", "fetch"}
  PROVE  TypedInv'
  <1>1. (syncs <= Cardinality(Synced))'
    BY CountKept
  <1>2. \A i, j \in json' : i = j
    BY DEF TypedInv, Typed
  <1>3. \A i, j \in tmp' : i = j
    BY DEF TypedInv, Typed
  <1> QED BY <1>1, <1>2, <1>3 DEF TypedInv, Typed

LEMMA OverTyped ==
  ASSUME TypedInv, NEW T, NEW how \in {"returned", "raised"}, Over(T, how)
  PROVE  /\ what' \in [Tasks -> Catalogs]
         /\ \A u \in Tasks : pc'[u] \in {"new", "fetch"} => pc[u] \in {"new", "fetch"}
  <1>1. /\ pc' = [t \in Tasks |-> IF t \in T THEN how ELSE pc[t]]
        /\ what' = [t \in Tasks |-> IF t \in T THEN "local" ELSE what[t]]
    BY DEF Over
  <1> QED BY <1>1 DEF TypedInv, Typed, Catalogs

(* A task that goes on.                                                    *)
LEMMA GoToTyped ==
  ASSUME TypedInv, NEW t \in Tasks, NEW to, to \notin {"new", "fetch"}, GoTo(t, to)
  PROVE  \A u \in Tasks : pc'[u] \in {"new", "fetch"} => pc[u] \in {"new", "fetch"}
  BY DEF GoTo, TypedInv, DurableInv, Inv, Shape

LEMMA CallTyped ==
  ASSUME TypedInv, DurableInv', NEW t \in Tasks, NEW p \in Processes, Call(t, p)
  PROVE  TypedInv'
  <1>1. UNCHANGED <<json, tmp, cloud, fresh, syncs>> /\ pc[t] = "new"
    BY DEF Call, memVars, fileVars
  <1>2. PICK w \in Catalogs :
          IF w \in fresh[p]
          THEN Over({t}, "returned")
          ELSE /\ owner' = [owner EXCEPT ![t] = {p}]
               /\ what' = [what EXCEPT ![t] = w]
               /\ GoTo(t, "fetch")
               /\ UNCHANGED <<fetched, writeVars>>
    BY DEF Call, Catalogs
  <1>3. CASE Over({t}, "returned")
    BY <1>1, <1>3, OverTyped, TypedKept
  <1>4. CASE what' = [what EXCEPT ![t] = w] /\ GoTo(t, "fetch")
    <2>1. what' \in [Tasks -> Catalogs]
      BY <1>4 DEF TypedInv, Typed
    <2>2. \A u \in Tasks : pc'[u] \in {"new", "fetch"} => pc[u] \in {"new", "fetch"}
      BY <1>1, <1>4 DEF GoTo, TypedInv, DurableInv, Inv, Shape
    <2> QED BY <1>1, <2>1, <2>2, TypedKept
  <1> QED BY <1>2, <1>3, <1>4

LEMMA ExpireTyped ==
  ASSUME TypedInv, DurableInv', NEW p \in Processes, Expire(p)
  PROVE  TypedInv'
  <1>1. UNCHANGED <<json, tmp, cloud, syncs, what, pc>>
    BY DEF Expire, fileVars, taskVars
  <1>2. fresh' \in [Processes -> SUBSET Catalogs]
    BY DEF Expire, TypedInv, Typed
  <1>3. (syncs <= Cardinality(Synced))'
    BY <1>1, CountKept
  <1> QED BY <1>1, <1>2, <1>3 DEF TypedInv, Typed

LEMMA FetchTyped ==
  ASSUME TypedInv, DurableInv', NEW t \in Tasks, Fetch(t)
  PROVE  TypedInv'
  <1>1. /\ UNCHANGED <<json, tmp, what>> /\ pc[t] = "fetch"
        /\ pc' = [pc EXCEPT ![t] = "open"] /\ syncs' = syncs + 1
    BY DEF Fetch, fileVars, GoTo
  <1>2. PICK p \in Processes : owner[t] = {p}
    BY <1>1 DEF TypedInv, DurableInv, Owned
  <1>3. fresh' = [fresh EXCEPT ![p] = @ \union {what[t]}]
    BY <1>2 DEF Fetch, Owner
  <1>4. fresh' \in [Processes -> SUBSET Catalogs]
    BY <1>3 DEF TypedInv, Typed
  <1>5. cloud' \subseteq Processes
    BY <1>2 DEF Fetch, TypedInv, Typed
  <1>6. (syncs <= Cardinality(Synced))'
    BY <1>1, CountFetched
  <1> QED BY <1>1, <1>4, <1>5, <1>6 DEF TypedInv, Typed

LEMMA OpenTyped ==
  ASSUME TypedInv, DurableInv', NEW t \in Tasks, Open(t)
  PROVE  TypedInv'
  <1>1. PICK i : /\ i = IF tmp = {} THEN t ELSE CHOOSE j \in tmp : TRUE
                 /\ Truncate(t, i) /\ tmp' = {i}
    BY DEF Open
  <1>2. i \in Tasks
    BY <1>1 DEF TypedInv, DurableInv, Inv, Shape
  <1>3. UNCHANGED <<cloud, fresh, syncs, json, what>>
    BY DEF Open, memVars, taskVars
  <1>4. GoTo(t, "write")
    BY <1>1 DEF Truncate
  <1>5. \A u \in Tasks : pc'[u] \in {"new", "fetch"} => pc[u] \in {"new", "fetch"}
    BY <1>4, GoToTyped
  <1> QED BY <1>1, <1>2, <1>3, <1>5, TypedKept DEF TypedInv, Typed

LEMMA MovedTyped ==
  ASSUME TypedInv, DurableInv', NEW t \in Tasks,
         NEW to, to \notin {"new", "fetch"}, GoTo(t, to),
         UNCHANGED <<cloud, fresh, syncs, json, tmp, what>>
  PROVE  TypedInv'
  <1>1. \A u \in Tasks : pc'[u] \in {"new", "fetch"} => pc[u] \in {"new", "fetch"}
    BY GoToTyped
  <1> QED BY <1>1, TypedKept DEF TypedInv, Typed

LEMMA DumpTyped ==
  ASSUME TypedInv, DurableInv', NEW t \in Tasks, Dump(t)
  PROVE  TypedInv'
  <1>1. UNCHANGED <<cloud, fresh, syncs, json, tmp, what>>
    BY DEF Dump, memVars, taskVars
  <1>2. GoTo(t, "except") \/ GoTo(t, "writing")
    BY DEF Dump
  <1> QED BY <1>1, <1>2, MovedTyped

LEMMA CloseTyped ==
  ASSUME TypedInv, DurableInv', NEW t \in Tasks, Close(t)
  PROVE  TypedInv'
  <1>1. UNCHANGED <<cloud, fresh, syncs, json, tmp, what>> /\ GoTo(t, "replace")
    BY DEF Close, memVars, taskVars
  <1> QED BY <1>1, MovedTyped

LEMMA ReplaceTyped ==
  ASSUME TypedInv, DurableInv', NEW t \in Tasks, Replace(t)
  PROVE  TypedInv'
  <1>1. UNCHANGED <<cloud, fresh, syncs>>
    BY DEF Replace, memVars
  <1>2. CASE GoTo(t, "except") /\ UNCHANGED <<json, tmp, last, taskVars, writeVars>>
    BY <1>1, <1>2, MovedTyped DEF taskVars
  <1>3. CASE Over({t}, "returned") /\ json' = tmp /\ tmp' = {}
    BY <1>1, <1>3, OverTyped, TypedKept
  <1> QED BY <1>2, <1>3 DEF Replace

LEMMA FaultTyped ==
  ASSUME TypedInv, DurableInv', NEW t \in Tasks, DiskError(t)
  PROVE  TypedInv'
  <1>1. UNCHANGED <<cloud, fresh, syncs, json, tmp, what>> /\ GoTo(t, "except")
    BY DEF DiskError, memVars, fileVars, taskVars
  <1> QED BY <1>1, MovedTyped

LEMMA LookForTmpTyped ==
  ASSUME TypedInv, DurableInv', NEW t \in Tasks, LookForTmp(t)
  PROVE  TypedInv'
  <1>1. UNCHANGED <<cloud, fresh, syncs, json, tmp>>
    BY DEF LookForTmp, memVars, fileVars
  <1>2. CASE Over({t}, "returned")
    BY <1>1, <1>2, OverTyped, TypedKept
  <1>3. CASE GoTo(t, "unlink") /\ UNCHANGED <<taskVars, writeVars>>
    BY <1>1, <1>3, MovedTyped DEF taskVars
  <1> QED BY <1>2, <1>3 DEF LookForTmp

LEMMA UnlinkTyped ==
  ASSUME TypedInv, DurableInv', NEW t \in Tasks, Unlink(t)
  PROVE  TypedInv'
  <1>1. UNCHANGED <<cloud, fresh, syncs, json>> /\ tmp' = {}
    BY DEF Unlink, memVars
  <1>2. PICK how \in {"returned", "raised"} : Over({t}, how)
    BY DEF Unlink
  <1>3. /\ what' \in [Tasks -> Catalogs]
        /\ \A u \in Tasks : pc'[u] \in {"new", "fetch"} => pc[u] \in {"new", "fetch"}
    BY <1>2, OverTyped
  <1> QED BY <1>1, <1>3, TypedKept

LEMMA RestartTyped ==
  ASSUME TypedInv, DurableInv', NEW p \in Processes, Restart(p)
  PROVE  TypedInv'
  <1>1. UNCHANGED <<syncs, json, tmp>> /\ cloud' = cloud \ {p}
    BY DEF Restart, fileVars
  <1>2. /\ what' \in [Tasks -> Catalogs]
        /\ \A u \in Tasks : pc'[u] \in {"new", "fetch"} => pc[u] \in {"new", "fetch"}
    BY OverTyped DEF Restart
  <1>3. \E S \in SUBSET Catalogs : fresh' = [fresh EXCEPT ![p] = S]
    BY DEF Restart, Catalogs
  <1>4. fresh' \in [Processes -> SUBSET Catalogs]
    BY <1>3 DEF TypedInv, Typed
  <1>5. (syncs <= Cardinality(Synced))'
    BY <1>1, <1>2, CountKept
  <1> QED BY <1>1, <1>2, <1>4, <1>5 DEF TypedInv, Typed

(* The first state has the types.                                          *)
THEOREM InitTyped ==
  ASSUME Init
  PROVE  TypedInv
  <1>1. syncs <= Cardinality(Synced)
    <2>1. Synced = {} /\ syncs = 0
      BY DEF Init, Synced
    <2> QED BY <2>1, FS_EmptySet
  <1> QED BY <1>1, InitDurable DEF Init, TypedInv, Typed, Catalogs

(* Every step of the service and of its environment keeps the types.       *)
THEOREM NextTyped ==
  ASSUME TypedInv, [Next]_vars
  PROVE  TypedInv'
  <1>0. DurableInv'
    BY NextDurable DEF TypedInv
  <1>1. CASE UNCHANGED vars
    BY <1>0, <1>1, TypedKept DEF vars, TypedInv, Typed
  <1>2. ASSUME NEW t \in Tasks, Step(t) PROVE TypedInv'
    BY <1>0, <1>2, FetchTyped, OpenTyped, DumpTyped, CloseTyped, ReplaceTyped, FaultTyped,
       LookForTmpTyped
    DEF Step
  <1> QED BY <1>0, <1>1, <1>2, CallTyped, ExpireTyped, UnlinkTyped, RestartTyped DEF Next

(* The variables have their types: the two names are of one file at most,  *)
(* and no file, no process and no task knows of a sync that has not been.  *)
THEOREM TypeCorrect == Spec => []TypeOK
  <1>1. Init => TypedInv
    BY InitTyped
  <1>2. TypedInv /\ [Next]_vars => TypedInv'
    BY NextTyped
  <1>3. TypedInv => TypeOK
    <2> SUFFICES ASSUME TypedInv PROVE TypeOK
      OBVIOUS
    <2>1. Shape /\ Counted /\ Typed
      BY DEF TypedInv, DurableInv, Inv
    <2>2. Cardinality(json) <= 1 /\ Cardinality(tmp) <= 1
      BY <2>1, AtMostOne DEF Typed
    <2>3. 0 .. syncs \subseteq Versions
      <3>1. Synced \in SUBSET Tasks
        BY DEF Synced
      <3>2. Cardinality(Synced) \in Nat /\ Cardinality(Synced) <= MaxTasks
        BY <3>1, TasksFinite
      <3> QED BY <2>1, <3>2, BoundsAssumption DEF Typed, Counted, Versions
    <2>4. content \in [Tasks -> Contents]
      BY <2>1, <2>3 DEF Counted, Contents
    <2>5. \A t \in Tasks : fd[t] # {} <=> pc[t] \in {"write", "writing"}
      BY <2>1 DEF Shape, WithFile
    <2> QED BY <2>1, <2>2, <2>4, <2>5 DEF Shape, Counted, Typed, TypeOK, Pcs, Catalogs
  <1> QED BY <1>1, <1>2, <1>3, PTL DEF Spec

=============================================================================
