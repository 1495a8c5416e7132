----------------------------- MODULE Workspace -----------------------------
(***************************************************************************)
(* What users and administrators keep on the server and on their machines, *)
(* and the pages they do it with: parts that share no state, each checked  *)
(* for itself in one run; part, chosen at first, says which one moves.     *)
(***************************************************************************)
EXTENDS Admins, KeyStore, History, Connections, ConfigFile,
        Cron, WebForm, WebMarket, WebEditor, WebShell, TaskStream

VARIABLE part

vars == <<adminVars, keyVars, historyVars, connVars, configVars,
          cronVars, formVars, marketVars, editorVars, shellVars, streamVars, part>>

Init ==
    /\ part \in {"admins", "keys", "history", "connections", "config",
               "cron", "form", "market", "editor", "shell", "stream"}
    /\ AdminsInit /\ KeysInit /\ HistoryInit /\ ConnectionsInit
    /\ ConfigInit /\ MarketInit /\ ShellInit /\ StreamInit
    \* Parts with several initial states begin in one of them when they rest.
    /\ IF part = "cron" THEN CronInit ELSE CronRests
    /\ IF part = "form" THEN FormInit ELSE FormRests
    /\ part = "connections" \/ ~conn.there
    /\ EditorInit /\ (part = "editor" \/ page = "configs")

Next ==
    /\ UNCHANGED part
    /\ IF part = "admins" THEN AdminsNext ELSE UNCHANGED adminVars
    /\ IF part = "keys" THEN KeysNext ELSE UNCHANGED keyVars
    /\ IF part = "history" THEN HistoryNext ELSE UNCHANGED historyVars
    /\ IF part = "connections" THEN ConnectionsNext ELSE UNCHANGED connVars
    /\ IF part = "config" THEN ConfigNext ELSE UNCHANGED configVars
    /\ IF part = "cron" THEN CronNext ELSE UNCHANGED cronVars
    /\ IF part = "form" THEN FormNext ELSE UNCHANGED formVars
    /\ IF part = "market" THEN MarketNext ELSE UNCHANGED marketVars
    /\ IF part = "editor" THEN EditorNext ELSE UNCHANGED editorVars
    /\ IF part = "shell" THEN ShellNext ELSE UNCHANGED shellVars
    /\ IF part = "stream" THEN StreamNext ELSE UNCHANGED streamVars

Spec == Init /\ [][Next]_vars
=============================================================================
