------------------------------ MODULE Machine ------------------------------
(***************************************************************************)
(* A target machine and the modules of the playbook engine                 *)
(* (src/apps/api/src/engine/modules).  A module first asks the machine     *)
(* what there is and then sends commands; here it is a plan: whether the   *)
(* task is refused, whether it will say "changed", and the commands it     *)
(* will send, in order.                                                    *)
(***************************************************************************)
EXTENDS Naturals, FiniteSets, SequencesExt

CONSTANTS
    Paths,          \* files, directories, crontabs, certificates, live kernel values
    Lines,          \* what a line of a file can be
    Groups,         \* groups of users
    Packages,       \* names of packages, on any distribution
    HomeOf,         \* the repository a package comes from
    RpmName,        \* its name on an rpm machine, None to leave it out
    RpmUnit,        \* a service's name there, None to leave it out
    Within,         \* the ports whose number contains that of a port
    None            \* no file, no user, no name

\* What is not there is none of what is.
ASSUME NoneAssumption ==
    None \notin Seq(Lines) \cup Paths /\ \A g \in SUBSET Groups : g # None

FileContents == Seq(Lines) \cup {None}

\* What a machine is: the unit files, packages, users and files the modules ask for.
IsMachine(m) ==
    /\ m \in [apt : BOOLEAN, packages : {m.packages}, repos : {m.repos},
             units : {m.units}, active : {m.active}, enabled : {m.enabled}, broken : {m.broken},
             files : [Paths -> FileContents], backups : [Paths -> FileContents], modes : {m.modes},
             users : [DOMAIN m.users -> (SUBSET Groups) \cup {None}],
             firewall : BOOLEAN, rules : {m.rules}]
    /\ None \notin m.units

\* A command of a plan: what it does, to what, the new value, and whether the
\* module looks at its exit code.
Command(do, on, value) == [do |-> do, on |-> on, value |-> value, checked |-> TRUE]
Unchecked(do, on, value) == [Command(do, on, value) EXCEPT !.checked = FALSE]

Refused == [refused |-> TRUE, changed |-> FALSE, commands |-> <<>>]
Same == [refused |-> FALSE, changed |-> FALSE, commands |-> <<>>]
Sends(commands, dry) ==
    [refused |-> FALSE, changed |-> TRUE, commands |-> IF dry THEN <<>> ELSE commands]

-----------------------------------------------------------------------------
(* What a command does to the machine.                                     *)

Obtainable(m, p) == HomeOf[p] \in m.repos

\* Would the command exit with 0?
Possible(c, m) ==
    CASE c.do = "install" -> \A p \in c.on : Obtainable(m, p)
      [] c.do = "installOne" -> \A p \in c.on :
             Obtainable(m, p) \/ (~m.apt /\ HomeOf[p] \in {"epel", "stream"})
      [] c.do \in {"start", "restart"} -> c.on \notin m.broken
      [] c.do = "reload" -> c.on \in m.active
      [] c.do = "useradd" -> m.users[c.on] = None
      [] c.do \in {"usermod", "userdel"} -> m.users[c.on] # None
      [] OTHER -> TRUE

Effect(c, m) ==
    CASE c.do \in {"write", "run", "certbot"} -> [m EXCEPT !.files[c.on] = c.value]
      [] c.do = "remove" -> [m EXCEPT !.files[c.on] = None]
      [] c.do = "backup" -> [m EXCEPT !.backups[c.on] = m.files[c.on]]
      [] c.do = "chmod" -> [m EXCEPT !.modes[c.on] = c.value]
      [] c.do \in {"install", "installOne"} -> [m EXCEPT !.packages = @ \cup c.on,
                                                        !.repos = @ \cup {HomeOf[p] : p \in c.on}]
      [] c.do \in {"uninstall", "uninstallOne"} -> [m EXCEPT !.packages = @ \ c.on]
      [] c.do = "repo" -> [m EXCEPT !.repos = @ \cup {c.on}]
      [] c.do \in {"start", "restart"} -> [m EXCEPT !.active = @ \cup {c.on}]
      [] c.do = "stop" -> [m EXCEPT !.active = @ \ {c.on}]
      [] c.do = "enable" -> [m EXCEPT !.enabled = @ \cup {c.on}]
      [] c.do = "disable" -> [m EXCEPT !.enabled = @ \ {c.on}]
      [] c.do = "useradd" -> [m EXCEPT !.users[c.on] = c.value]
      [] c.do = "usermod" -> [m EXCEPT !.users[c.on] = @ \cup c.value]
      [] c.do = "userdel" -> [m EXCEPT !.users[c.on] = None]
      [] c.do = "ufw" -> [m EXCEPT !.firewall = (c.value = "enabled")]
      [] c.do = "rule" -> [m EXCEPT !.rules = @ \cup {c.value}]
      [] c.do = "reset" -> [m EXCEPT !.rules = {}, !.firewall = FALSE]
      [] c.do = "reload" -> m

-----------------------------------------------------------------------------
(* package.ts                                                              *)

\* translatePackageName; the rpm names are those of the alias table.
PackageName(p, m) == IF m.apt THEN p ELSE RpmName[p]

Wanted(t, m) ==
    LET todo == {PackageName(p, m) : p \in t.names} \ {None} IN
    IF t.state = "present" THEN todo \ m.packages ELSE todo \cap m.packages

\* runPreflight: the repositories the packages are known to need.  What does not work
\* out is noted and left.
Preflight(need, m) ==
    IF m.apt THEN <<>>
    ELSE SetToSeq({Unchecked("repo", HomeOf[p], None) :
                   p \in {q \in need : HomeOf[q] \in {"epel", "stream"}}})

PlanPackage(t, m, dry) ==
    LET need == Wanted(t, m) IN
    IF need = {} THEN Same
    ELSE Sends(IF t.state = "present"
             THEN Append(Preflight(need, m), Command("install", need, None))
             ELSE <<Command("uninstall", need, None)>>, dry)

\* A batch that failed is tried again package by package, each with the recovery
\* that its repository calls for.
OneByOne(c) ==
    SetToSeq({Command(IF c.do = "install" THEN "installOne" ELSE "uninstallOne", {p}, None) :
              p \in c.on})

IsOne(c) == c.do \in {"installOne", "uninstallOne"}

-----------------------------------------------------------------------------
(* service.ts: the actions that are needed, each of them checked.          *)

PlanService(t, m, dry) ==
    LET unit == IF m.apt THEN t.name ELSE RpmUnit[t.name]
        stateActions ==
            CASE t.state = "started" /\ unit \notin m.active -> <<Command("start", unit, None)>>
              [] t.state = "stopped" /\ unit \in m.active -> <<Command("stop", unit, None)>>
              [] t.state = "restarted" -> <<Command("restart", unit, None)>>
              [] t.state = "reloaded" -> <<Command("reload", unit, None)>>
              [] OTHER -> <<>>
        bootActions ==
            CASE t.boot = "on" /\ unit \notin m.enabled -> <<Command("enable", unit, None)>>
              [] t.boot = "off" /\ unit \in m.enabled -> <<Command("disable", unit, None)>>
              [] OTHER -> <<>>
        actions == stateActions \o bootActions IN
    CASE unit = None -> Same
      [] unit # None /\ unit \notin m.units -> IF t.lenient THEN Same ELSE Refused
      [] OTHER -> IF actions = <<>> THEN Same ELSE Sends(actions, dry)

-----------------------------------------------------------------------------
(* The modules that write a file.                                          *)

\* Seeded fault: a backup at each change.
BackupEachTime(t, m) ==
    IF t.backup /\ m.files[t.path] # None THEN <<Unchecked("backup", t.path, None)>> ELSE <<>>

\* Kept once: the first backup stays.  Its cp is not checked.
BackupOnce(t, m) ==
    IF t.backup /\ m.files[t.path] # None /\ m.backups[t.path] = None
    THEN <<Unchecked("backup", t.path, None)>> ELSE <<>>

Chmod(t) == IF t.mode = None THEN <<>> ELSE <<Unchecked("chmod", t.path, t.mode)>>

\* copy.ts: the whole content.
PlanCopy(t, m, dry) ==
    IF m.files[t.path] = t.text THEN Same
    ELSE Sends(BackupOnce(t, m) \o <<Command("write", t.path, t.text)>> \o Chmod(t), dry)

\* template.ts: the rendered content; a backup is only made on demand, and then
\* each time.
PlanTemplate(t, m, dry) ==
    LET keep == IF t.backup /\ m.files[t.path] # None
                THEN <<Unchecked("backup", t.path, None)>> ELSE <<>> IN
    IF m.files[t.path] = t.text THEN Same
    ELSE Sends(keep \o <<Command("write", t.path, t.text)>> \o Chmod(t), dry)

\* systemd_unit.ts: a unit file, or none, its service disabled and stopped.
PlanUnit(t, m, dry) ==
    IF t.state = "present"
    THEN IF m.files[t.path] = t.text THEN Same
         ELSE Sends(BackupOnce(t, m) \o <<Command("write", t.path, t.text)>>, dry)
    ELSE IF m.files[t.path] = None THEN Same
         ELSE Sends(<<Unchecked("disable", t.unit, None), Unchecked("stop", t.unit, None),
                    Command("remove", t.path, None)>>, dry)

\* sysctl.ts: the file for the next boot and the value for now.
PlanSysctl(t, m, dry) ==
    IF t.state = "present"
    THEN IF m.files[t.path] = t.text /\ m.files[t.live] = t.text THEN Same
         ELSE Sends(<<Command("write", t.path, t.text), Unchecked("write", t.live, t.text)>>, dry)
    ELSE IF m.files[t.path] = None THEN Same ELSE Sends(<<Command("remove", t.path, None)>>, dry)

\* acme.ts: there is a certificate, or certbot gets one.
PlanAcme(t, m, dry) ==
    IF m.files[t.path] # None THEN Same
    ELSE IF ~dry /\ "certbot" \notin m.packages THEN Refused
    ELSE Sends(<<Command("certbot", t.path, t.text)>>, dry)

\* Seeded fault: a dry run says nothing of a file that is there.
PlanFileUntold(t, m, dry) ==
    IF dry /\ m.files[t.path] # None THEN Same
    ELSE Sends(<<Command(IF t.state = "absent" THEN "remove" ELSE "write", t.path, t.text)>>, dry)

\* file.ts: the mode of what is already there is set without being reported.
PlanFile(t, m, dry) ==
    LET here == m.files[t.path]
        there == (t.state = "file" /\ here # None) \/ (t.state = "directory" /\ here = t.text)
        create == <<Command("write", t.path, IF here = None THEN t.text ELSE here)>> IN
    CASE t.state = "absent" /\ here = None -> Same
      [] t.state = "absent" /\ here # None -> Sends(<<Command("remove", t.path, None)>>, dry)
      [] there -> IF dry THEN Same ELSE [Same EXCEPT !.commands = Chmod(t)]
      [] t.state = "directory" /\ here \notin {None, t.text} ->
             IF dry THEN Sends(<<>>, TRUE) ELSE Refused
      [] OTHER -> Sends(create \o Chmod(t), dry)

-----------------------------------------------------------------------------
(* The modules that change part of a file.                                 *)

\* The lines at these positions, in their order.
Picked(lines, positions) ==
    [i \in 1..Cardinality(positions) |->
        lines[CHOOSE j \in positions : Cardinality({k \in positions : k <= j}) = i]]

\* lineinfile.ts, its line: the first line the pattern matches is replaced, a line
\* is added where none is.  t.match is the set of lines the pattern matches, None without one.
LineEdited(t, lines) ==
    LET hits == {i \in 1..Len(lines) : lines[i] \in t.match}
        first == CHOOSE i \in hits : \A j \in hits : i <= j IN
    CASE t.state = "absent" -> Picked(lines, {i \in 1..Len(lines) :
             IF t.match = None THEN lines[i] # t.line ELSE lines[i] \notin t.match})
      [] t.state = "present" /\ t.match = None ->
             IF Contains(lines, t.line) THEN lines ELSE Append(lines, t.line)
      [] OTHER -> IF hits = {} THEN Append(lines, t.line) ELSE [lines EXCEPT ![first] = t.line]

PlanLine(t, m, dry) ==
    LET here == m.files[t.path]
        lines == IF here = None THEN <<>> ELSE here
        new == LineEdited(t, lines) IN
    CASE here = None /\ t.state = "present" /\ ~t.create -> Refused
      [] here = None /\ t.state = "absent" -> Same
      [] OTHER -> IF new = lines THEN Same
                  ELSE Sends(BackupOnce(t, m) \o <<Command("write", t.path, new)>>, dry)

\* Seeded fault: the entry that is there is not taken out.
CrontabKeepsOld(t, lines) ==
    IF t.state = "present" THEN lines \o <<t.marker, t.line>> ELSE lines

\* Seeded fault: one line too many goes with the entry.
CrontabDropsTwo(t, lines) ==
    LET rest == {i \in 1..Len(lines) : \A j \in 0..2 : i - j >= 1 => lines[i - j] # t.marker}
        cleaned == Picked(lines, rest) IN
    IF t.state = "present" THEN cleaned \o <<t.marker, t.line>> ELSE cleaned

\* A marker takes the line under it with it, which may be a marker.
Takes(lines, marker) ==
    LET takes[i \in 0..Len(lines)] == i > 0 /\ lines[i] = marker /\ ~takes[i - 1] IN takes

\* cron.ts: the marker and the entry under it go, and come back at the end.
CrontabWith(t, lines) ==
    LET takes == Takes(lines, t.marker)
        cleaned == Picked(lines, {i \in 1..Len(lines) : ~takes[i] /\ ~takes[i - 1]}) IN
    IF t.state = "present" THEN cleaned \o <<t.marker, t.line>> ELSE cleaned

PlanCron(t, m, dry) ==
    LET lines == IF m.files[t.path] = None THEN <<>> ELSE m.files[t.path]
        new == CrontabWith(t, lines) IN
    IF new = lines THEN Same ELSE Sends(<<Command("write", t.path, new)>>, dry)

\* env_path.ts: a block between marks, in the start-up file of every shell there is;
\* a dry run does not look.
BlockUpserted(t, lines) ==
    IF Contains(lines, t.marker)
    THEN [i \in 1..Len(lines) |-> IF i > 1 /\ lines[i - 1] = t.marker THEN t.line ELSE lines[i]]
    ELSE lines \o <<t.marker, t.line>>

PlanEnvPath(t, m, dry) ==
    LET new(p) == BlockUpserted(t, IF m.files[p] = None THEN <<>> ELSE m.files[p])
        written == {p \in t.paths : new(p) # m.files[p]} IN
    IF dry THEN Sends(<<>>, TRUE)
    ELSE IF written = {} THEN Same
    ELSE Sends(SetToSeq({Command("write", p, new(p)) : p \in written}), FALSE)

-----------------------------------------------------------------------------
(* user.ts, ufw.ts, shell.ts                                               *)

PlanUser(t, m, dry) ==
    LET there == m.users[t.name] # None IN
    CASE t.state = "absent" -> IF there THEN Sends(<<Command("userdel", t.name, None)>>, dry) ELSE Same
      [] t.state = "present" /\ ~there -> Sends(<<Command("useradd", t.name, t.groups)>>, dry)
      [] t.state = "present" /\ there /\ t.groups # {} ->
             Sends(<<Command("usermod", t.name, t.groups)>>, dry)
      [] OTHER -> Same

\* ruleExists looks for the digits of the port in what "ufw status" prints, which is
\* nothing as long as the firewall is off.
RuleListed(t, m) == m.firewall /\ \E rule \in m.rules : rule[2] \in Within[t.port]

PlanUfw(t, m, dry) ==
    CASE "ufw" \notin m.packages -> Refused
      [] "ufw" \in m.packages /\ t.state \in {"enabled", "disabled"} ->
             IF m.firewall = (t.state = "enabled") THEN Same
             ELSE Sends(<<Command("ufw", "ufw", t.state)>>, dry)
      [] "ufw" \in m.packages /\ t.state = "reset" -> Sends(<<Command("reset", "ufw", None)>>, dry)
      [] OTHER -> IF RuleListed(t, m) THEN Same
                  ELSE Sends(<<Command("rule", "ufw", <<t.verb, t.port>>)>>, dry)

\* A command that leaves t.text in t.path, skipped when t.unless is there.
PlanShell(t, m, dry) ==
    IF t.unless # None /\ m.files[t.unless] # None THEN Same
    ELSE Sends(<<Command("run", t.path, t.text)>>, dry)

-----------------------------------------------------------------------------
\* What the types of the arguments and the checks at the head of each module leave.
IsTask(t) ==
    /\ t.module \in {"copy", "template", "systemd_unit", "sysctl", "acme", "file", "shell"} =>
           t.path \in Paths /\ t.text \in Seq(Lines)
    /\ t.module = "sysctl" => t.live \in Paths
    /\ t.module \in {"lineinfile", "cron"} => t.path \in Paths
    /\ t.module = "env_path" => t.paths \subseteq Paths /\ IsFiniteSet(t.paths)
    /\ t.module \in {"lineinfile", "cron", "env_path"} => t.line \in Lines
    /\ t.module \in {"cron", "env_path"} => t.marker \in Lines \ {t.line}
    /\ t.module \in {"package", "systemd_unit", "sysctl", "lineinfile", "cron", "user"} =>
           t.state \in {"present", "absent"}
    /\ t.module = "package" => IsFiniteSet(t.names)
    /\ t.module = "file" => t.state \in {"directory", "file", "absent", "touch"}
    /\ t.module = "user" => t.groups \subseteq Groups
    /\ t.module = "ufw" => /\ t.state \in {"enabled", "disabled", "reset", "rule"}
                          /\ t.port \in Within[t.port]

\* REGISTRY in runner.ts.
Plan(t, m, dry) ==
    CASE t.module = "package" -> PlanPackage(t, m, dry)
      [] t.module = "service" -> PlanService(t, m, dry)
      [] t.module = "copy" -> PlanCopy(t, m, dry)
      [] t.module = "template" -> PlanTemplate(t, m, dry)
      [] t.module = "systemd_unit" -> PlanUnit(t, m, dry)
      [] t.module = "sysctl" -> PlanSysctl(t, m, dry)
      [] t.module = "acme" -> PlanAcme(t, m, dry)
      [] t.module = "file" -> PlanFile(t, m, dry)
      [] t.module = "lineinfile" -> PlanLine(t, m, dry)
      [] t.module = "cron" -> PlanCron(t, m, dry)
      [] t.module = "env_path" -> PlanEnvPath(t, m, dry)
      [] t.module = "user" -> PlanUser(t, m, dry)
      [] t.module = "ufw" -> PlanUfw(t, m, dry)
      [] t.module = "shell" -> PlanShell(t, m, dry)
      [] OTHER -> Refused

\* A module whose read of the file failed: lineinfile gives up, the others take the
\* file to be empty.
PlanBlind(t, m, dry) ==
    IF t.module = "lineinfile" THEN Refused
    ELSE LET paths == IF t.module = "env_path" THEN t.paths ELSE {t.path} IN
         Plan(t, [m EXCEPT !.files = [p \in Paths |->
             IF p \in paths /\ m.files[p] # None THEN <<>> ELSE m.files[p]]], dry)
=============================================================================
