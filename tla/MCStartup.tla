----------------------------- MODULE MCStartup -----------------------------
(* Two workers and two saves of the settings on three tables: users, whose *)
(* index no migration looks after; usage_logs, with two added columns and  *)
(* an index the migrations know; app_settings.                             *)
EXTENDS Startup

MCOrder == <<"app_settings", "users", "usage_logs">>
MCExpected == [app_settings |-> {}, users |-> {}, usage_logs |-> {"model", "total_tokens"}]
MCForms ==
    {[logo |-> "upload", key |-> "path", secret |-> "new"],
     [logo |-> "url", key |-> "upload", secret |-> "too long"],
     [logo |-> "remove", key |-> "keep", secret |-> "blank"]}

=============================================================================
