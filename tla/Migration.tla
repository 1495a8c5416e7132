----------------------------- MODULE Migration -----------------------------
(***************************************************************************)
(* From what a probe found on a machine to a plan of migration:            *)
(* src/apps/api/src/migration-*.ts, pure functions of the software of the  *)
(* probe and of the decisions the user took, which are computed anew for   *)
(* each page, while the user decides and the machine is probed again.      *)
(***************************************************************************)
EXTENDS Naturals, FiniteSets

CONSTANTS
    Installable, \* what may be installed: [source, name, trust, base, rule]
    NoRule,
    MaxSteps     \* bound: probes and decisions

VARIABLES
    snapshot,    \* the software of the last probe
    decisions,   \* candidate id -> decision
    verify,      \* a run of the checks of the plan: [stage, todo, results, real (ghost)]
    steps,
    everSkipped  \* ghost: ids whose last decision is to skip

migrationVars == <<snapshot, decisions, verify, steps, everSkipped>>

LanguageSources == {"npm", "pip", "gem", "cargo", "go-bin", "nvm", "pyenv", "rbenv", "asdf", "sdkman"}
ManualSources == {"local-bin", "local-app", "opt", "srv", "user-bin"}
ServiceSources == {"systemd", "systemd-timer", "cron"}
SystemPackages == {"apt", "rpm"}
PackageSources == SystemPackages \cup {"snap", "flatpak"}

\* A rule of the catalog: which actions it has.
Rules == [package : BOOLEAN, config : BOOLEAN, data : BOOLEAN, validate : BOOLEAN, restart : BOOLEAN]

ASSUME InstallableAssumption ==
    Installable \subseteq [source : STRING, name : STRING, trust : STRING, base : BOOLEAN,
                          rule : Rules \cup {NoRule}]

CandidateId(x) == <<x.source, x.name>>

\* fullSnapshotToStored: what the collector thinks of an item is not stored.
AsStored(x) == [x EXCEPT !.trust = "none"]

\* Points that the source earns, in hundredths.
SourcePoints(x) ==
    CASE x.source \in LanguageSources -> 18
      [] x.source = "docker" -> 14
      [] x.source \in ServiceSources \cup ManualSources -> 22
      [] x.source \in PackageSources -> IF x.trust = "user" THEN 12 ELSE 4
      [] OTHER -> 0

\* Seeded fault: an item of a package manager earns what one with a rule does.
ScoreWithoutRule(x) ==
    10 + 45 + (CASE x.trust = "user" -> 18 [] x.trust = "uncertain" -> 8 [] OTHER -> 0) + SourcePoints(x)

Score(x) ==
    10 + (IF x.rule = NoRule THEN 0 ELSE 45)
       + (CASE x.trust = "user" -> 18 [] x.trust = "uncertain" -> 8 [] OTHER -> 0)
       + SourcePoints(x)

LowValue(x) == x.source \in SystemPackages /\ x.base

ClassOf(x) ==
    IF LowValue(x) THEN "do-not-migrate"
    ELSE IF x.source = "docker" THEN "container-workload"
    ELSE IF x.rule # NoRule THEN "managed-software"
    ELSE IF x.source \in LanguageSources THEN "language-global-package"
    ELSE IF x.source \in ServiceSources THEN "service-config"
    ELSE IF x.source \in ManualSources THEN "manual-install"
    ELSE "unknown-review"

Confidence(x) == IF LowValue(x) THEN 5 ELSE IF Score(x) > 99 THEN 99 ELSE Score(x)

Band(x) ==
    IF Confidence(x) >= 75 THEN "high"
    ELSE IF Confidence(x) >= 45 THEN "medium"
    ELSE IF ClassOf(x) = "do-not-migrate" THEN "ignore" ELSE "low"

\* recommendedActions and the kinds actionsForCandidate reads off their labels.
ActionsOf(x) ==
    LET r == x.rule
        kinds == {k \in {"installPackage", "copyConfig", "review", "validate", "restart"} :
                     CASE k = "installPackage" -> r.package [] k = "copyConfig" -> r.config
                       [] k = "review" -> r.data [] k = "validate" -> r.validate [] OTHER -> r.restart}
    IN  IF LowValue(x) \/ r = NoRule \/ kinds = {} THEN {"review"} ELSE kinds

Decision(i) == IF i \in DOMAIN decisions THEN decisions[i] ELSE "pending"

\* Seeded fault: decisions are looked up before the list is cut.
PlannedRegardless == {x \in snapshot : Band(x) # "ignore"}

\* buildMigrationPlanFromCandidates.
Planned ==
    {x \in snapshot : /\ Band(x) # "ignore"
                      /\ ClassOf(x) # "do-not-migrate"
                      /\ Decision(CandidateId(x)) # "skipped"}

\* buildMigrationDryRun.
DryStep(k) == IF k \in {"installPackage", "validate", "restart"} THEN "would-run" ELSE "needs-review"

\* exportMigrationPlan: what the exported text does to a machine when it is
\* run, for one action of an item.  The script only prints and holds the rest
\* as comments; the play takes the package manager of the machine.
Exported(format, x, k) ==
    IF format # "ansible" THEN "nothing"
    ELSE CASE k = "installPackage" -> "installs"
           [] k = "validate" -> "checks"
           [] k = "restart" -> "restarts if allowed"
           [] OTHER -> "nothing"

\* The pages of the plan: what is exported, and what the dry run lists.
ExportPage(format) ==
    UNION {{<<CandidateId(x), k, Exported(format, x, k)>> : k \in ActionsOf(x)} : x \in Planned}

DryRunPage == UNION {{<<CandidateId(x), k, DryStep(k)>> : k \in ActionsOf(x)} : x \in Planned}

\* checksForItem: what is checked of an item after it was migrated.
ChecksOf(x) ==
    {k \in ActionsOf(x) : k \in {"validate", "restart"}}
        \cup (IF "validate" \in ActionsOf(x) THEN {} ELSE {"manual"})

\* buildMigrationVerificationPreview.
PlannedChecks == UNION {{<<CandidateId(x), k>> : k \in ChecksOf(x)} : x \in Planned}
Manual(checks) == {c \in checks : c[2] = "manual"}

\* assessMigrationApplyReadiness.
Blocked(x) ==
    \/ Decision(CandidateId(x)) # "approved"
    \/ ClassOf(x) \in {"manual-install", "unknown-review"}
    \/ "copyConfig" \in ActionsOf(x)
ReadyToApply == \A x \in Planned : ~Blocked(x)

\* buildUnknownReviewQueue.
ToReview ==
    {x \in snapshot : /\ Band(x) # "ignore"
                      /\ \/ ClassOf(x) \in {"manual-install", "unknown-review", "container-workload"}
                         \/ Band(x) = "low"}

-----------------------------------------------------------------------------
NoVerify == [stage |-> "idle", todo |-> {}, results |-> [c \in {} |-> "passed"], real |-> {}]

MigrationInit ==
    /\ snapshot = {} /\ decisions = [i \in {} |-> "pending"]
    /\ verify = NoVerify /\ steps = 0 /\ everSkipped = {}

\* The machine is probed again: one thing more or less is found.
ProbeAgain(x) ==
    /\ steps < MaxSteps /\ steps' = steps + 1
    /\ snapshot' = IF AsStored(x) \in snapshot THEN snapshot \ {AsStored(x)} ELSE snapshot \cup {AsStored(x)}
    /\ UNCHANGED <<decisions, verify, everSkipped>>

\* POST migration-decisions: any id is taken, found or not.
Decide(i, d) ==
    /\ steps < MaxSteps /\ steps' = steps + 1
    /\ decisions' = [j \in DOMAIN decisions \cup {i} |-> IF j = i THEN d ELSE decisions[j]]
    /\ everSkipped' = IF d = "skipped" THEN everSkipped \cup {i} ELSE everSkipped \ {i}
    /\ UNCHANGED <<snapshot, verify>>

\* POST verify-run: the checks are those of the plan as it is now, whatever is
\* decided or probed while they run.
BeginVerify ==
    /\ steps < MaxSteps /\ steps' = steps + 1
    /\ snapshot # {} /\ verify.stage = "idle"
    /\ verify' = [NoVerify EXCEPT !.stage = "connecting", !.todo = PlannedChecks]
    /\ UNCHANGED <<snapshot, decisions, everSkipped>>

\* connect: the key or the password may be missing, the machine may not answer.
ReachMachine(answered) ==
    /\ verify.stage = "connecting"
    /\ verify' = [verify EXCEPT !.stage = IF answered THEN "running" ELSE "refused"]
    /\ UNCHANGED <<snapshot, decisions, steps, everSkipped>>

\* Seeded fault: a command that was given up counts as one that ended.
ExitCodeOrNone(end) == IF end = "failure" THEN 1 ELSE 0

\* exec: a channel that closes without a code, as when a signal ends the
\* command or the connection is lost, counts as success.
ExitCode(end) == CASE end = "failure" -> 1 [] end = "late" -> 124 [] OTHER -> 0

\* runMigrationVerificationPreview: one command after another, then the
\* checks that have none; without a connection the next command throws.
RunCheck(c, end) ==
    /\ verify.stage = "running" /\ c \in verify.todo \ Manual(verify.todo)
    /\ LET left == verify.todo \ {c}
           result == IF ExitCode(end) = 0 THEN "passed" ELSE "failed"
       IN  verify' = [stage |-> IF end = "lost" /\ left # Manual(left) THEN "refused" ELSE "running",
                      todo |-> left,
                      results |-> [d \in DOMAIN verify.results \cup {c} |->
                                      IF d = c THEN result ELSE verify.results[d]],
                      real |-> verify.real \cup {<<c, end>>}]
    /\ UNCHANGED <<snapshot, decisions, steps, everSkipped>>

FinishVerify ==
    /\ verify.stage = "running" /\ verify.todo = Manual(verify.todo)
    /\ verify' = [verify EXCEPT !.stage = "done", !.todo = {},
                      !.results = [d \in DOMAIN verify.results \cup verify.todo |->
                                      IF d \in verify.todo THEN "skipped" ELSE verify.results[d]]]
    /\ UNCHANGED <<snapshot, decisions, steps, everSkipped>>

MigrationNext ==
    \/ \E x \in Installable : ProbeAgain(x)
    \/ \E x \in snapshot, d \in {"pending", "approved", "skipped"} : Decide(CandidateId(x), d)
    \/ BeginVerify
    \/ \E answered \in BOOLEAN : ReachMachine(answered)
    \/ \E c \in verify.todo, end \in {"success", "failure", "late", "killed", "lost"} : RunCheck(c, end)
    \/ FinishVerify

-----------------------------------------------------------------------------
\* summary.failed = 0.
VerifiedOk == \A c \in DOMAIN verify.results : verify.results[c] # "failed"

\* A verification that answers has asked all it was to ask, and is good only
\* if no command failed or was given up; that one was cut off, or ended by a
\* signal, does not show.
VerificationIsWhole ==
    verify.stage = "done" =>
        /\ \A c \in DOMAIN verify.results :
               c[2] = "manual" \/ \E r \in verify.real : r[1] = c
        /\ VerifiedOk <=> \A r \in verify.real : r[2] \notin {"failure", "late"}

\* What the user skipped stays out of every later plan, also when it is gone
\* and found again, and all else but the base system is planned; nothing would
\* run for what no rule of the catalog knows, which never counts as certain
\* and, but for language packages and services, is in the review queue.  Of
\* what is exported only the play acts, and no more than the dry run says.
NothingIsPlannedSilently ==
    /\ \A x \in snapshot :
           x \in Planned <=> ~(CandidateId(x) \in everSkipped \/ LowValue(x))
    /\ \A x \in Planned :
           /\ (\E k \in ActionsOf(x) : DryStep(k) = "would-run") \/ Band(x) = "high"
                  => x.rule # NoRule /\ ChecksOf(x) # {}
           /\ x.rule # NoRule \/ x.source \in LanguageSources \cup ServiceSources \/ x \in ToReview
    /\ \A f \in {"json", "markdown", "bash", "ansible"} : \A e \in ExportPage(f) :
           e[3] # "nothing" => f = "ansible" /\ <<e[1], e[2], "would-run">> \in DryRunPage
    /\ ReadyToApply => \A x \in Planned : CandidateId(x) \in DOMAIN decisions
    /\ VerificationIsWhole
=============================================================================
