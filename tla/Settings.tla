------------------------------ MODULE Settings ------------------------------
(***************************************************************************)
(* The application settings: one row of the database, one copy of it in    *)
(* app.state of every worker, and the files of the uploads.  The handler   *)
(* of the settings form takes the copy of the worker that runs it as the   *)
(* base of the update, then deletes and writes files, then commits the     *)
(* whole row, then replaces the copy of its own worker.  No other worker   *)
(* hears of it.  Loading the copy at startup belongs to module Startup.    *)
(*                                                                         *)
(* Of the fields four kinds are told apart: the logo (a file or a URL, and *)
(* always what the form says), the key file of HTTPS (uploaded, a path     *)
(* typed in, or kept when the form says nothing new), the Redis password   *)
(* (kept when left blank) and the other fields, which a form submits all   *)
(* together: `by` is the save they are from.  `retry` says whether the row *)
(* has the keys a migration adds.                                          *)
(***************************************************************************)
EXTENDS FiniteSets, Naturals

CONSTANTS
    Workers,   \* processes of gunicorn
    MaxSaves,  \* bound on submissions of the settings form
    Forms      \* what a submission may ask for, a subset of AllForms

ASSUME SavesAssumption == MaxSaves \in Nat

(* gunicorn runs as many workers as its configuration says, at least one.  *)
ASSUME WorkersAssumption == IsFiniteSet(Workers) /\ Workers # {}

(* Submissions, in the order of their arrival; 0 stands for none.          *)
Saves == 1 .. MaxSaves
None == 0

AllForms ==
    [logo : {"upload", "remove", "url", "blank"},
     key : {"upload", "remove", "path", "keep"},
     secret : {"new", "blank", "too long"}]

ASSUME FormsAssumption == Forms \subseteq AllForms

(* Uploaded files get a random name: no two uploads share one.             *)
LogoFile(s) == <<"logo", s>>
KeyFile(s) == <<"key", s>>
LogoFiles == {LogoFile(s) : s \in Saves}
KeyFiles == {KeyFile(s) : s \in Saves}

SettingsRows ==
    [logo : {<<>>, <<"url">>} \union LogoFiles,
     key : {<<>>, <<"path">>} \union KeyFiles,
     secret : 0 .. MaxSaves,
     by : 0 .. MaxSaves,
     retry : BOOLEAN]

Default ==
    [logo |-> <<>>, key |-> <<>>, secret |-> None, by |-> None, retry |-> TRUE]

VARIABLES
    row,       \* app_settings: {} or {the row with id 1}
    copy,      \* app.state.settings of a worker: {} until it is loaded
    files,     \* what is in the directories of the uploads
    stage,     \* where a submission is
    handler,   \* {} or {the worker that runs it}
    base,      \* current_settings: the worker's copy when it began, or {}
    form       \* {} or {what it asks for}

settingsVars == <<row, copy, files, stage, handler, base, form>>

Open(s, w) ==
    /\ stage[s] = "new"
    /\ \A earlier \in 1 .. s - 1 : stage[earlier] # "new"
    /\ copy[w] # {}
    /\ stage' = [stage EXCEPT ![s] = "open"]
    /\ handler' = [handler EXCEPT ![s] = {w}]
    /\ base' = [base EXCEPT ![s] = copy[w]]
    /\ UNCHANGED <<row, copy, files, form>>

-----------------------------------------------------------------------------
(* What a form makes of the settings it is based on.                       *)

Logo(s, f) ==
    CASE f.logo = "upload" -> LogoFile(s)
      [] f.logo = "url" -> <<"url">>
      [] OTHER -> <<>>

(* A mutant: a form that says nothing of the key drops it.                 *)
KeyForgotten(s, b, f) ==
    CASE f.key = "upload" -> KeyFile(s)
      [] f.key = "path" -> <<"path">>
      [] OTHER -> <<>>

(* A path that was typed in is stored whether or not there is such a file. *)
Key(s, b, f) ==
    CASE f.key = "upload" -> KeyFile(s)
      [] f.key = "remove" -> <<>>
      [] f.key = "path" -> <<"path">>
      [] OTHER -> b.key

(* A mutant: a form without a logo field leaves the logo as it was, the    *)
(* file of which is deleted all the same.                                  *)
UpdatedKeepingLogo(s, b, f) ==
    [logo |-> IF f.logo = "remove" THEN b.logo ELSE Logo(s, f),
     key |-> Key(s, b, f),
     secret |-> IF f.secret = "new" THEN s ELSE b.secret,
     by |-> s,
     retry |-> TRUE]

Updated(s, b, f) ==
    [logo |-> Logo(s, f),
     key |-> Key(s, b, f),
     secret |-> IF f.secret = "new" THEN s ELSE b.secret,
     by |-> s,
     retry |-> TRUE]

(* A new logo, or its removal, deletes the uploaded one the base refers    *)
(* to.  The file of a key stays: the handler looks for it under the random *)
(* name of a new upload.                                                   *)
Dropped(b, f) ==
    IF f.logo \in {"upload", "remove"} THEN {b.logo} \intersect LogoFiles ELSE {}

Uploaded(s, f) ==
    (IF f.logo = "upload" THEN {LogoFile(s)} ELSE {})
        \union (IF f.key = "upload" THEN {KeyFile(s)} ELSE {})

Base(s) == CHOOSE b \in base[s] : TRUE
Form(s) == CHOOSE f \in form[s] : TRUE
Result(s) == Updated(s, Base(s), Form(s))

End(s) ==
    /\ stage' = [stage EXCEPT ![s] = "done"]
    /\ base' = [base EXCEPT ![s] = {}]
    /\ form' = [form EXCEPT ![s] = {}]
    /\ handler' = [handler EXCEPT ![s] = {}]

(* An invalid logo ends the handler before it touched anything.            *)
Refuse(s) ==
    /\ stage[s] = "open"
    /\ End(s)
    /\ UNCHANGED <<row, copy, files>>

WriteFiles(s) ==
    /\ stage[s] = "open"
    /\ \E f \in Forms :
        /\ form' = [form EXCEPT ![s] = {f}]
        /\ files' = (files \ Dropped(Base(s), f)) \union Uploaded(s, f)
    /\ stage' = [stage EXCEPT ![s] = "files"]
    /\ UNCHANGED <<row, copy, handler, base>>

(* A mutant: the copy is replaced although nothing was stored.             *)
FailPublishing(s) ==
    /\ stage[s] = "files"
    /\ stage' = [stage EXCEPT ![s] = "failed"]
    /\ copy' = [w \in Workers |-> IF w \in handler[s] THEN {Result(s)} ELSE copy[w]]
    /\ UNCHANGED <<row, files, handler, base, form>>

(* The password is checked after the files have been changed, and the      *)
(* database may refuse the write: the page reports it, the settings stay.  *)
Fail(s) ==
    /\ stage[s] = "files"
    /\ stage' = [stage EXCEPT ![s] = "failed"]
    /\ UNCHANGED <<row, copy, files, handler, base, form>>

(* update_app_settings writes every field of the row.                      *)
Commit(s) ==
    /\ stage[s] = "files"
    /\ Form(s).secret # "too long"
    /\ row' = {Result(s)}
    /\ stage' = [stage EXCEPT ![s] = "committed"]
    /\ UNCHANGED <<copy, files, handler, base, form>>

Publish(s) ==
    /\ stage[s] = "committed"
    /\ copy' = [w \in Workers |-> IF w \in handler[s] THEN {Result(s)} ELSE copy[w]]
    /\ End(s)
    /\ UNCHANGED <<row, files>>

Step(s) == Refuse(s) \/ WriteFiles(s) \/ Fail(s) \/ Commit(s) \/ Publish(s)

(* The process of the worker ends, and with it what it was handling.       *)
Interrupted(s, w) ==
    CASE w \notin handler[s] -> stage[s]
      [] stage[s] = "files" -> "failed"
      [] stage[s] \in {"open", "committed"} -> "done"
      [] OTHER -> stage[s]

Forget(w) ==
    /\ copy' = [copy EXCEPT ![w] = {}]
    /\ stage' = [s \in Saves |-> Interrupted(s, w)]

-----------------------------------------------------------------------------
(* settings.html, "Leave blank to keep current": a save changes the key    *)
(* and the password of the row only if its form says so, unless another    *)
(* save has come in between of which this worker's copy knows nothing.     *)
KeepsCurrent ==
    [][\A s \in Saves :
          stage[s] = "files" /\ stage'[s] = "committed" =>
              \A old \in row, new \in row' :
                  old.by = Base(s).by =>
                      /\ Form(s).key = "keep" => new.key = old.key
                      /\ Form(s).secret = "blank" => new.secret = old.secret]_settingsVars

(* The uploaded logo the settings name is there, unless a save deleted it  *)
(* that has not committed, or never will (the files are changed first).    *)
LogoOnDisk ==
    \A r \in row :
        r.logo \in LogoFiles \ files =>
            \E s \in Saves :
                /\ stage[s] \in {"files", "failed"}
                /\ r.logo \in Dropped(Base(s), Form(s))

(* A setting takes effect in a worker only once it is in the database: a   *)
(* save that fails, or whose process dies before it commits, leaves no     *)
(* worker running on settings that were never stored.                      *)
CopyWasSaved ==
    \A w \in Workers : \A r \in copy[w] :
        r.by \in Saves => stage[r.by] \in {"committed", "done"}

=============================================================================
