------------------------------ MODULE Playbook ------------------------------
(***************************************************************************)
(* The playbook engine (engine/runner.ts, engine/ssh-executor.ts): runs of *)
(* playbooks on one machine.  Runs on one connection wait for each other,  *)
(* the connections of two users to one machine do not, and a run can be    *)
(* started again when it is over.  At the end: what is announced of a      *)
(* playbook, compared with its runs.                                       *)
(***************************************************************************)
EXTENDS Machine

CONSTANTS
    Scenarios,      \* what is run, how, and on what: [plays, dry, host]
    MaxFaults       \* bound on what goes wrong on the way

VARIABLES
    scenario,       \* the one of this behaviour
    host,           \* the machine
    run,            \* the runs: see NotStarted
    leftOver,       \* commands that timed out and are still running on the machine
    faults,         \* how many things went wrong
    \* history variables
    unseen,         \* a command did not work and its module could not see it
    blind,          \* a file was taken to be empty, or left so
    together      \* two runs, or a run and a command left over, were at work together

playbookVars == <<scenario, host, run, leftOver, faults, unseen, blind, together>>

Runs == 1..2

\* A playbook is a list of tasks (parsePlaybook), their users those of the machine.
ASSUME ScenariosAssumption ==
    \A s \in Scenarios :
        /\ IsMachine(s.host)
        /\ \A r \in Runs :
            /\ s.dry[r] \in BOOLEAN
            /\ s.plays[r] \in Seq({s.plays[r][i] : i \in DOMAIN s.plays[r]})
            /\ \A i \in DOMAIN s.plays[r] :
                /\ IsTask(s.plays[r][i])
                /\ s.plays[r][i].module = "user" => s.plays[r][i].name \in DOMAIN s.host.users

Play(r) == scenario.plays[r]
Dry(r) == scenario.dry[r]

\* at: the task; commands: what the module has still to send, changed what it will
\* say then; lost, got: packages one by one; logs: the status of each task so far;
\* said: the tasks that registered "changed".
NotStarted == [at |-> 1, phase |-> "idle", commands |-> <<>>, changed |-> FALSE,
         lost |-> {}, got |-> {}, logs |-> <<>>, said |-> {}, result |-> "none"]

PlaybookInit ==
    /\ scenario \in Scenarios
    /\ host = scenario.host
    /\ run = [r \in Runs |-> NotStarted]
    /\ leftOver = {} /\ faults = 0
    /\ unseen = FALSE /\ blind = FALSE /\ together = FALSE

AtWork(r) == run[r].phase \notin {"idle", "done"}
Task(r) == Play(r)[run[r].at]
FailedTasks(x) == {i \in DOMAIN x.logs : x.logs[i] = "failed"}

Fault == faults < MaxFaults /\ faults' = faults + 1

-----------------------------------------------------------------------------
(* runPlaybook                                                             *)

\* The runs are numbered in the order in which they start.
Start(r) ==
    /\ run[r].phase = "idle" /\ \A q \in 1..(r - 1) : run[q].phase # "idle"
    /\ run' = [run EXCEPT ![r].phase = "task"]
    /\ together' = (together \/ leftOver # {} \/ \E q \in Runs \ {r} : AtWork(q))
    /\ UNCHANGED <<scenario, host, leftOver, faults, unseen, blind>>

\* The status is logged; a failure that is not to be ignored ends the run.
Ended(r, x, status) ==
    LET next == [x EXCEPT !.logs = Append(@, status), !.commands = <<>>, !.changed = FALSE,
                          !.lost = {}, !.got = {},
                          !.said = IF status = "changed" \/ (status = "failed" /\ x.got # {})
                                   THEN @ \cup {x.at} ELSE @] IN
    IF status = "failed" /\ ~Task(r).ignore
    THEN [next EXCEPT !.phase = "done", !.result = "failed"]
    ELSE [next EXCEPT !.phase = "task", !.at = @ + 1]

\* What the module returns once its commands are through: packages that could not be
\* had make it fail if there are no others or it is not lenient.
Status(r, x) ==
    IF x.lost # {} /\ (x.got = {} \/ ~Task(r).lenient) THEN "failed"
    ELSE IF x.changed THEN "changed" ELSE "ok"

\* evalWhen on "task.changed": a task that was skipped has registered nothing.
MayRun(t, x) == t.when = 0 \/ t.when \in x.said

Skip(r) ==
    /\ run[r].phase = "task" /\ run[r].at <= Len(Play(r))
    /\ ~MayRun(Task(r), run[r])
    /\ run' = [run EXCEPT ![r] = Ended(r, run[r], "skipped")]
    /\ UNCHANGED <<scenario, host, leftOver, faults, unseen, blind, together>>

Dispatch(r, plan) ==
    /\ run[r].phase = "task" /\ run[r].at <= Len(Play(r))
    /\ MayRun(Task(r), run[r])
    /\ LET x == [run[r] EXCEPT !.phase = "act", !.commands = plan.commands,
                               !.changed = plan.changed] IN
       run' = [run EXCEPT ![r] =
           IF plan.refused THEN Ended(r, x, "failed")
           ELSE IF plan.commands = <<>> THEN Ended(r, x, Status(r, x)) ELSE x]
    /\ UNCHANGED <<scenario, host, leftOver, unseen, together>>

\* The module asks the machine what there is.
Look(r) ==
    /\ run[r].phase = "task" /\ run[r].at <= Len(Play(r))
    /\ Dispatch(r, Plan(Task(r), host, Dry(r)))
    /\ UNCHANGED <<faults, blind>>

\* ... and the answer to its read of a file is an error.
LookBlind(r) ==
    /\ run[r].phase = "task" /\ run[r].at <= Len(Play(r))
    /\ Task(r).module \in {"copy", "lineinfile", "cron", "env_path", "systemd_unit"}
    /\ Dispatch(r, PlanBlind(Task(r), host, Dry(r)))
    /\ Fault /\ blind' = TRUE

-----------------------------------------------------------------------------
(* Ssh2Executor.exec and putFile, and what the module makes of the answer  *)

\* Seeded fault: no exit code is looked at.
GoesOnRegardless(r, x, worked) ==
    LET tried == [x EXCEPT !.commands = Tail(x.commands)] IN
    IF tried.commands = <<>> THEN Ended(r, tried, Status(r, tried)) ELSE tried

\* The module goes on after a command that was seen to work, or is not checked.
GoesOn(r, x, worked) ==
    LET c == Head(x.commands)
        rest == Tail(x.commands)
        tried == [x EXCEPT !.commands = rest,
                           !.got = IF worked /\ (IsOne(c) \/ c.do \in {"install", "uninstall"}) THEN @ \cup c.on ELSE @,
                           !.lost = IF worked \/ ~IsOne(c) THEN @ ELSE @ \cup c.on] IN
    CASE worked \/ ~c.checked \/ IsOne(c) ->
             IF rest = <<>> THEN Ended(r, tried, Status(r, tried)) ELSE tried
      [] ~worked /\ c.do \in {"install", "uninstall"} ->
             [x EXCEPT !.commands = OneByOne(c) \o rest]
      [] OTHER -> Ended(r, x, "failed")

\* A file that was being written is left empty.
Torn(c, m) == IF c.do = "write" THEN [m EXCEPT !.files[c.on] = <<>>] ELSE m

SendsCommands(r) == run[r].phase = "act"
Command1(r) == Head(run[r].commands)

Exec(r) ==
    /\ SendsCommands(r)
    /\ LET c == Command1(r)
           works == Possible(c, host) IN
       /\ host' = IF works THEN Effect(c, host) ELSE host
       /\ run' = [run EXCEPT ![r] = GoesOn(r, run[r], works)]
       /\ unseen' = (unseen \/ (~works /\ ~c.checked))
    /\ UNCHANGED <<scenario, leftOver, faults, blind, together>>

\* It exits with an error.
ExecFails(r) ==
    /\ SendsCommands(r) /\ Fault
    /\ run' = [run EXCEPT ![r] = GoesOn(r, run[r], FALSE)]
    /\ host' \in {host, Torn(Command1(r), host)}
    /\ blind' = (blind \/ host' # host)
    /\ unseen' = (unseen \/ ~Command1(r).checked)
    /\ UNCHANGED <<scenario, leftOver, together>>

\* The channel cannot be opened: the module throws, whatever the command was.
ExecRejects(r) ==
    /\ SendsCommands(r) /\ Fault
    /\ run' = [run EXCEPT ![r] = Ended(r, run[r], "failed")]
    /\ UNCHANGED <<scenario, host, leftOver, unseen, blind, together>>

\* No answer in ten minutes: exit code -1, and the command goes on without anybody.
ExecTimesOut(r) ==
    /\ SendsCommands(r) /\ Fault
    /\ leftOver' = leftOver \cup {Command1(r)}
    /\ run' = [run EXCEPT ![r] = GoesOn(r, run[r], FALSE)]
    /\ together' = TRUE
    /\ UNCHANGED <<scenario, host, unseen, blind>>

LeftOverEnds(c) ==
    /\ c \in leftOver
    /\ leftOver' = leftOver \ {c}
    /\ host' = IF Possible(c, host) THEN Effect(c, host) ELSE host
    /\ UNCHANGED <<scenario, run, faults, unseen, blind, together>>

\* The stream closes without an exit code, which is taken for 0.
ExecCut(r) ==
    /\ SendsCommands(r) /\ Fault
    /\ host' \in {host, Torn(Command1(r), host)}
    /\ run' = [run EXCEPT ![r] = GoesOn(r, run[r], TRUE)]
    /\ unseen' = TRUE
    /\ blind' = (blind \/ host' # host)
    /\ UNCHANGED <<scenario, leftOver, together>>

-----------------------------------------------------------------------------
\* After the last task, the verify block, unless the run is dry or a task failed;
\* what it finds is reported and changes nothing.
Finish(r) ==
    /\ run[r].phase = "task" /\ run[r].at > Len(Play(r))
    /\ run' = [run EXCEPT ![r].phase =
                   IF Dry(r) \/ FailedTasks(run[r]) # {} THEN "done" ELSE "verify",
               ![r].result = IF Dry(r) \/ FailedTasks(run[r]) # {} THEN "ok" ELSE "none"]
    /\ UNCHANGED <<scenario, host, leftOver, faults, unseen, blind, together>>

Verify(r) ==
    /\ run[r].phase = "verify"
    /\ run' = [run EXCEPT ![r].phase = "done", ![r].result = "ok"]
    /\ UNCHANGED <<scenario, host, leftOver, faults, unseen, blind, together>>

\* A check that cannot be sent throws out of runPlaybook.
VerifyThrows(r) ==
    /\ run[r].phase = "verify" /\ Fault
    /\ run' = [run EXCEPT ![r].phase = "done", ![r].result = "threw"]
    /\ UNCHANGED <<scenario, host, leftOver, unseen, blind, together>>

PlaybookNext ==
    \/ \E r \in Runs :
        \/ Start(r) \/ Skip(r) \/ Look(r) \/ LookBlind(r) \/ Exec(r)
        \/ ExecFails(r) \/ ExecRejects(r) \/ ExecTimesOut(r) \/ ExecCut(r)
        \/ Finish(r) \/ Verify(r) \/ VerifyThrows(r)
    \/ \E c \in leftOver : LeftOverEnds(c)


-----------------------------------------------------------------------------
(* Properties.                                                             *)

origin == scenario.host
Started == {r \in Runs : run[r].phase # "idle"}
Tasks == UNION {{Play(r)[i] : i \in DOMAIN Play(r)} : r \in Runs}
Follows(lines, l) == {lines[i] : i \in {j \in 2..Len(lines) : lines[j - 1] = l}}

\* The files a task may write.
Written(t) ==
    CASE t.module = "env_path" -> t.paths
      [] t.module = "sysctl" -> {t.path, t.live}
      [] t.module \in {"copy", "template", "systemd_unit", "acme", "file", "lineinfile",
                       "cron", "shell"} -> {t.path}
      [] OTHER -> {}

\* What a task changes on such a machine, and what else decides what it does.
Concern(t, m) ==
    {<<"file", p>> : p \in Written(t)} \cup
    CASE t.module = "package" -> {<<"package", PackageName(p, m)>> : p \in t.names}
      [] t.module = "service" -> {<<"unit", IF m.apt THEN t.name ELSE RpmUnit[t.name]>>}
      [] t.module = "systemd_unit" -> {<<"unit", t.unit>>}
      [] t.module = "user" -> {<<"user", t.name>>}
      [] t.module = "ufw" -> {<<"firewall", "ufw">>, <<"package", "ufw">>}
      [] OTHER -> {}

Apart(t, u) == Concern(t, origin) \cap Concern(u, origin) = {}

\* What a task asks for, whatever the module does to get there.
IsInPlace(t, m) ==
    CASE t.module = "package" ->
             LET names == {PackageName(p, m) : p \in t.names} \ {None} IN
             IF t.state = "absent"
             THEN names \cap m.packages = {} \/ (t.lenient /\ ~(names \subseteq m.packages))
             ELSE names \subseteq m.packages \/ (t.lenient /\ names \cap m.packages # {})
      [] t.module = "service" ->
             LET unit == IF m.apt THEN t.name ELSE RpmUnit[t.name] IN
             unit \in m.units =>
                 /\ t.state \in {"started", "restarted"} => unit \in m.active
                 /\ t.state = "stopped" => unit \notin m.active
                 /\ t.boot = "on" => unit \in m.enabled
                 /\ t.boot = "off" => unit \notin m.enabled
      [] t.module \in {"copy", "template"} -> m.files[t.path] = t.text
      [] t.module \in {"systemd_unit", "sysctl"} ->
             IF t.state = "present" THEN m.files[t.path] = t.text ELSE m.files[t.path] = None
      [] t.module = "acme" -> m.files[t.path] # None
      [] t.module = "file" -> (m.files[t.path] = None) = (t.state = "absent")
      [] t.module = "lineinfile" ->
             IF t.state = "present" THEN Contains(m.files[t.path], t.line)
             ELSE m.files[t.path] = None \/
                  ToSet(m.files[t.path]) \cap (IF t.match = None THEN {t.line} ELSE t.match) = {}
      [] t.module = "cron" ->
             IF t.state = "present" THEN Follows(m.files[t.path], t.marker) = {t.line}
             ELSE m.files[t.path] = None \/ ~Contains(m.files[t.path], t.marker)
      [] t.module = "env_path" -> \A p \in t.paths :
             Follows(m.files[p], t.marker) = {t.line} \/ Last(m.files[p]) = t.marker
      [] t.module = "user" ->
             IF t.state = "absent" THEN m.users[t.name] = None
             ELSE m.users[t.name] # None /\ t.groups \subseteq m.users[t.name]
      [] t.module = "ufw" /\ t.state = "rule" ->
             \E rule \in m.rules : rule[2] \in Within[t.port]
      [] t.module = "ufw" /\ t.state # "rule" -> m.firewall = (t.state = "enabled")
      [] OTHER -> TRUE

\* When a run has ended well, what each task that was not skipped and did not fail
\* asks for is so, if no later task is about the same thing, unless a command failed
\* without its module seeing it (ssh-executor.ts:41 takes a missing exit code for 0, some
\* exit codes are not looked at, those of reads among them) or somebody else was at work.
\* A firewall rule may be another one whose port has the same digits (ufw.ts:49), some of
\* several packages do for a lenient task (package.ts:516), and a block whose end is
\* missing is left as it is (env_path.ts:113).
OkMeansInPlace ==
    \A r \in Runs :
        (/\ run[r].phase = "done" /\ run[r].result = "ok" /\ ~Dry(r)
         /\ \A q \in (r + 1)..2 : run[q].phase = "idle"
         /\ ~unseen /\ ~blind /\ ~together) =>
        \A i \in DOMAIN run[r].logs :
            (/\ run[r].logs[i] \in {"ok", "changed"}
             /\ \A j \in (i + 1)..Len(Play(r)) : Apart(Play(r)[i], Play(r)[j])) =>
            IsInPlace(Play(r)[i], host)

\* Tasks that report a change each time, or fail the second time because what they
\* could not get is all that is left (package.ts:496).
Restless(t) ==
    \/ t.module = "shell" /\ t.unless # t.path
    \/ t.module = "file" /\ t.state = "touch"
    \/ t.module = "service" /\ t.state \in {"restarted", "reloaded"}
    \/ t.module = "user" /\ t.state = "present" /\ t.groups # {}
    \/ t.module = "ufw" /\ t.state \in {"rule", "reset"}
    \/ t.module = "lineinfile" /\ t.state = "present" /\ t.match # None /\ t.line \notin t.match
    \/ t.module = "package" /\ \E p \in {PackageName(q, origin) : q \in t.names} \ {None} :
           /\ ~Obtainable(origin, p)
           /\ origin.apt \/ HomeOf[p] \notin {"epel", "stream"}

\* Run again after it went well, and alone, a playbook whose tasks are about different
\* things finds nothing to change.
SecondRunIsQuiet ==
    (/\ Play(1) = Play(2) /\ ~Dry(1) /\ ~Dry(2) /\ \A t \in Tasks : ~Restless(t)
     /\ \A i, j \in DOMAIN Play(1) : i # j => Apart(Play(1)[i], Play(1)[j])
     /\ run[1].result = "ok" /\ FailedTasks(run[1]) = {}
     /\ run[2].phase = "done" /\ faults = 0 /\ ~together) =>
    run[2].result = "ok" /\ \A i \in DOMAIN run[2].logs : run[2].logs[i] \in {"ok", "skipped"}

Writers(p) == {t \in Tasks : p \in Written(t)}

\* Modules that keep the file as it is before they write it.
KeepsOriginal(t) ==
    /\ t.module \in {"copy", "lineinfile", "systemd_unit"} /\ t.backup
    /\ t.module = "systemd_unit" => t.state = "present"

\* However often the modules that keep a backup rewrite a file, and whatever fails
\* in between, its backup is the one that was there, or else the file as it was before the
\* first of them, unless the cp failed unseen (lineinfile.ts:145) or two runs made it at
\* the same time.
OriginalIsKept ==
    \A p \in Paths :
        (/\ \A t \in Writers(p) : KeepsOriginal(t)
         /\ origin.files[p] # None /\ host.files[p] # origin.files[p]
         /\ ~unseen /\ ~together) =>
        host.backups[p] = IF origin.backups[p] = None THEN origin.files[p] ELSE origin.backups[p]

\* The markers of the blocks in a file, and the lines of tasks there: what they
\* write, what they match, what a marker takes with it.
Markers(p) == {t.marker : t \in {u \in Writers(p) : u.module \in {"cron", "env_path"}}}
Own(p) == UNION {{t.line, t.marker} \cup (IF t.match = None THEN {} ELSE t.match)
                 \cup Follows(origin.files[p], t.marker) : t \in Writers(p)}

\* No marker is without the line it stands for.
BlocksWhole(lines, markers) ==
    \A i \in 1..Len(lines) : lines[i] \in markers =>
        i < Len(lines) /\ lines[i + 1] \notin markers

\* Only parts of the file are rewritten, and no line is taken from under its marker.
LineByLine(p) ==
    /\ BlocksWhole(origin.files[p], Markers(p))
    /\ \A t \in Writers(p) :
        /\ t.module \in {"lineinfile", "cron", "env_path"} /\ t.line \notin Markers(p)
        /\ t.module = "lineinfile" /\ t.state = "absent" => Markers(p) = {}

\* Modules that change part of a file leave the lines of others there, also when two
\* runs write it at the same time, unless their read of the file failed (env_path.ts:124 and
\* cron.ts:52 then take it to be empty) or their write broke off.
LinesOfOthersSurvive ==
    ~blind =>
    \A p \in Paths : origin.files[p] # None /\ LineByLine(p) =>
        ToSet(origin.files[p]) \ Own(p) \subseteq ToSet(host.files[p])

\* What was on the machine before the first run is not lost: the two together.
WhatWasThereStays == OriginalIsKept /\ LinesOfOthersSurvive

-----------------------------------------------------------------------------
(* What is announced of a playbook before it is run: the preview of a      *)
(* configured item (catalog-preview.ts) and the estimate of its impact     *)
(* (engine/impact.ts), both made from the text alone, and the dry run,     *)
(* which asks the machine.                                                 *)

\* Seeded fault: only what is stopped, or not started at boot, is more than low.
RiskOfStops(t) ==
    CASE t.module = "service" -> IF t.state = "stopped" \/ t.boot = "off" THEN "medium" ELSE "low"
      [] OTHER -> "low"

\* The risk analyzeTask gives a task.  riskForModule, which knows the deletion of a file,
\* is asked for commands only.
RiskOf(t) ==
    CASE t.module = "package" -> IF t.state = "absent" THEN "medium" ELSE "low"
      [] t.module = "service" -> IF t.state = "stopped" \/ t.boot = "off" THEN "medium" ELSE "low"
      [] t.module = "user" -> IF t.state = "absent" THEN "high" ELSE "low"
      [] t.module = "ufw" -> IF t.state = "reset" THEN "high" ELSE "medium"
      [] t.module = "shell" -> "medium"
      [] OTHER -> "low"

\* analyzeTask: the item a task has in the report; tasks of other modules have none.
ImpactItem(t) ==
    CASE t.module \in {"package", "service", "user"} -> <<t.module, t.state>>
      [] t.module \in {"lineinfile", "copy", "template"} -> <<"file", t.path>>
      [] t.module = "ufw" -> <<"firewall", t.state>>
      [] t.module = "shell" -> <<"command", t.path>>
      [] OTHER -> None

\* estimateImpact: every task counts, whatever its condition.
ImpactItems(play) == {ImpactItem(play[i]) : i \in DOMAIN play} \ {None}

MaxRisk(play) ==
    LET risks == {RiskOf(play[i]) : i \in {j \in DOMAIN play : ImpactItem(play[j]) # None}} IN
    IF "high" \in risks THEN "high" ELSE IF "medium" \in risks THEN "medium" ELSE "low"

\* buildPlaybookPreview evaluates conditions on the variables only: a result that is
\* yet to be registered is nothing, and the task is shown as skipped.
WillSkip(t) == t.when # 0

\* collectFileTargets: the list of files that will change.
FileTargets(play) ==
    {play[i].path : i \in {j \in DOMAIN play :
        /\ ~WillSkip(play[j])
        /\ \/ play[j].module \in {"template", "copy", "lineinfile"}
           \/ play[j].module = "file" /\ play[j].state = "absent"}}

-----------------------------------------------------------------------------
(* What was announced against what a run does.                             *)

Changed(r) == {i \in DOMAIN run[r].logs : run[r].logs[i] = "changed"}

\* The runs to compare: one real run of the play, on the machine of the beginning.
FirstReal(r) == ~Dry(r) /\ \A q \in Started \ {r} : Dry(q)

\* What is taken from a machine, files apart: files are deleted by a module the
\* report does not know.
Loses(old, new) ==
    \/ old.packages \ new.packages # {} \/ old.active \ new.active # {}
    \/ old.rules \ new.rules # {}
    \/ \E u \in DOMAIN old.users : old.users[u] # None /\ new.users[u] = None

FilesAreListed(r) ==
    \A i \in Changed(r) : Play(r)[i].module \in {"template", "copy", "lineinfile"} =>
        Play(r)[i].path \in FileTargets(Play(r)) \/ Play(r)[i].when # 0

RiskIsNotUnderstated(r) ==
    MaxRisk(Play(r)) = "low" /\ (\A i \in DOMAIN Play(r) : ImpactItem(Play(r)[i]) # None) =>
        ~Loses(origin, host)

DryRunTouchesNothing == (\A r \in Started : Dry(r)) => host = origin

DryRunForetells ==
    (/\ Play(1) = Play(2) /\ Dry(1) /\ FirstReal(2) /\ faults = 0 /\ ~together
     /\ run[1].result = "ok") =>
    \A i \in Changed(2) : i \in Changed(1) \/
        \E j \in 1..(i - 1) : j \in Changed(2) \/ (j \in FailedTasks(run[2]) /\ j \in Changed(1))

\* A real run does nothing the user was not told of.  A file that a module of the
\* preview changes is in its list, or its task waits for another's result; what takes
\* something from the machine is not called a low risk; a dry run changes nothing, and one
\* that ended well has reported each change that the real run makes first, or breaks off.
\* (collectFileTargets, analyzeTask, runPlaybook with dryRun)
AnnouncedBeforehand ==
    /\ \A r \in Started : FirstReal(r) /\ ~together => FilesAreListed(r) /\ RiskIsNotUnderstated(r)
    /\ DryRunTouchesNothing /\ DryRunForetells
=============================================================================
