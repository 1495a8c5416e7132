------------------------------ MODULE Backend -------------------------------
(***************************************************************************)
(* What the server does for all its users, in parts that share no modelled *)
(* state: the runtime document in its row of SQLite, the queue of          *)
(* notifications with the audit log in the tables, the catalog and its     *)
(* files, runs of playbooks on a machine and what is announced of them,    *)
(* what is kept of a machine and put on another one, the plan to migrate   *)
(* one, and the start of the server itself.  A behavior is one of one      *)
(* part.                                                                   *)
(***************************************************************************)
EXTENDS DocumentStore, NotificationQueue, Catalog, Playbook, Capture, Migration, StartUp

VARIABLE part

backendVars == <<storeVars, noteVars, catalogVars, playbookVars, captureVars,
                 migrationVars, startVars, part>>

AnyScenario == CHOOSE s \in Scenarios : TRUE
AnySource == CHOOSE s \in Sources : TRUE

BackendInit ==
    /\ part \in {"document", "notes", "catalog", "playbook", "capture", "migration", "start"}
    /\ StoreInit /\ (part = "document" \/ row = Empty)
    /\ NotifyInit /\ CatalogInit /\ MigrationInit
    /\ PlaybookInit /\ (part = "playbook" \/ scenario = AnyScenario)
    /\ CaptureInit /\ (part = "capture" \/ source = AnySource)
    /\ StartUpInit /\ (part = "start" \/ ~LegacyFileThere)

BackendNext ==
    /\ UNCHANGED part
    /\ IF part = "document" THEN StoreNext ELSE UNCHANGED storeVars
    /\ IF part = "notes" THEN NotifyNext ELSE UNCHANGED noteVars
    /\ IF part = "catalog" THEN CatalogNext ELSE UNCHANGED catalogVars
    /\ IF part = "playbook" THEN PlaybookNext ELSE UNCHANGED playbookVars
    /\ IF part = "capture" THEN CaptureNext ELSE UNCHANGED captureVars
    /\ IF part = "migration" THEN MigrationNext ELSE UNCHANGED migrationVars
    /\ IF part = "start" THEN StartUpNext ELSE UNCHANGED startVars

BackendSpec == BackendInit /\ [][BackendNext]_backendVars
=============================================================================
