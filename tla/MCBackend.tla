----------------------------- MODULE MCBackend ------------------------------
(***************************************************************************)
(* Backend for TLC: two updates of the document, one of them in place, and *)
(* a plain read; a notification that two ticks may take, and a suggestion  *)
(* that two administrators decide; each module of the playbook engine with *)
(* its interesting arguments, run twice, run dry, and against another run  *)
(* on the same machine; a machine that is captured and put on another one, *)
(* and one to migrate; an item that comes with the server, one that is     *)
(* added, and two requests about them at a time; starts with and without   *)
(* the JSON file of an earlier release.                                    *)
(***************************************************************************)
EXTENDS Backend

CONSTANTS u1, u2, r1, n1, w1, w2, a1, a2

TwoUpdates == {u1, u2}
OneUpdate == {u1}
OneReader == {r1}
NoCalls == {}

MCNotes == {n1}
MCTicks == {w1, w2}
MCAdmins == {a1, a2}

MCPaths == {"f", "g"}
MCLines == {"a", "b", "x", "s", "new", "old", "other", "cert", "# job", "# env"}
MCGroups == {"adm", "docker"}
MCPackages == {"git", "bat", "nginx", "ssl-dev", "ssl-devel", "gone", "ufw", "certbot"}
MCHomeOf == [p \in MCPackages |->
    CASE p = "bat" -> "epel" [] p = "nginx" -> "stream" [] p = "gone" -> "nowhere"
      [] OTHER -> "base"]
MCRpmName == [p \in MCPackages |->
    CASE p = "ssl-dev" -> "ssl-devel" [] p = "ufw" -> None [] OTHER -> p]
MCRpmUnit == [u \in {"ssh", "snapd", "web"} |->
    CASE u = "ssh" -> "sshd" [] u = "snapd" -> None [] OTHER -> u]
MCWithin == [p \in {80} |-> {80, 8080}]

\* Fields that a module does not have.
Plain == [when |-> 0, ignore |-> FALSE, lenient |-> TRUE, backup |-> FALSE, state |-> "present",
        mode |-> None, line |-> None, match |-> None, marker |-> None]

Package(names, state, lenient) == [Plain EXCEPT !.state = state, !.lenient = lenient]
                                  @@ [module |-> "package", names |-> names]
Service(name, state, boot) == [Plain EXCEPT !.state = state]
                              @@ [module |-> "service", name |-> name, boot |-> boot]
Text(module, path, text, state) == [Plain EXCEPT !.state = state, !.backup = TRUE, !.mode = "0600"]
    @@ [module |-> module, path |-> path, text |-> text, live |-> "g", unit |-> "web"]
Line(path, entry, match, state) == [Plain EXCEPT !.line = entry, !.match = match, !.state = state,
                                              !.backup = TRUE]
                                  @@ [module |-> "lineinfile", path |-> path, create |-> TRUE]
Cron(path, entry, state) == [Plain EXCEPT !.line = entry, !.marker = "# job", !.state = state]
                           @@ [module |-> "cron", path |-> path]
EnvPath(paths, entry) == [Plain EXCEPT !.line = entry, !.marker = "# env"]
                        @@ [module |-> "env_path", paths |-> paths]
User(name, groups, state) == [Plain EXCEPT !.state = state]
                             @@ [module |-> "user", name |-> name, groups |-> groups]
Ufw(state) == [Plain EXCEPT !.state = state] @@ [module |-> "ufw", verb |-> "allow", port |-> 80]
Shell(path, text, unless) == Plain @@ [module |-> "shell", path |-> path, text |-> text,
                                     unless |-> unless]
Unknown == Plain @@ [module |-> "unknown"]
Ignored(t) == [t EXCEPT !.ignore = TRUE]
After(t, i) == [t EXCEPT !.when = i]

FilePlays ==
    {<<Text(m, "f", <<"x">>, "present")>> : m \in {"copy", "template", "systemd_unit", "sysctl"}}
    \cup {<<Text(m, "f", <<"x">>, "absent")>> : m \in {"systemd_unit", "sysctl"}}
    \cup {<<Text("file", "f", <<>>, s)>> : s \in {"directory", "file", "touch", "absent"}}
    \cup {<<Line("f", "new", m, s)>> : m \in {None, {"a", "new"}, {"a"}}, s \in {"present", "absent"}}
    \cup {<<Cron("f", "new", s)>> : s \in {"present", "absent"}}
    \cup {<<EnvPath({"f", "g"}, "new")>>,
          <<Text("acme", "f", <<"cert">>, "present")>>,
          <<Shell("f", <<"s">>, "f")>>, <<Shell("g", <<"s">>, "f")>>}

OtherPlays ==
    {<<Package(n, s, l)>> : n \in {{"git", "bat"}, {"nginx", "gone"}, {"ssl-dev", "ufw"}, {"git", "ufw"}},
                            s \in {"present", "absent"}, l \in BOOLEAN}
    \cup {<<Service(n, s, b)>> : n \in {"ssh", "snapd", "web"}, s \in {"started", "stopped", "restarted", "reloaded"},
                                 b \in {"on", "off"}}
    \cup {<<User("u", g, s)>> : g \in {{}, {"docker"}}, s \in {"present", "absent"}}
    \cup {<<Ufw(s)>> : s \in {"enabled", "disabled", "reset", "rule"}}

Mixed == {
    <<Text("copy", "f", <<"x">>, "present"), After(Service("web", "restarted", "on"), 1)>>,
    <<Ignored(Unknown), Line("f", "new", None, "present")>>,
    <<Unknown, Line("f", "new", None, "present")>>,
    <<Ignored(Package({"gone", "git"}, "present", FALSE)), After(Shell("g", <<"s">>, None), 1)>>}

\* Machines.
Files(f) == [p \in MCPaths |-> IF p = "f" THEN f ELSE None]
Debian(f) == [apt |-> TRUE, packages |-> {"git", "ufw", "certbot"}, repos |-> {"base"},
              units |-> {"ssh", "web"}, active |-> {"ssh"}, enabled |-> {}, broken |-> {},
              files |-> Files(f), backups |-> Files(None), modes |-> Files(None),
              users |-> [u \in {"u"} |-> None], firewall |-> FALSE, rules |-> {}]
Rpm(f) == [Debian(f) EXCEPT !.apt = FALSE, !.units = {"sshd", "web"}, !.active = {"sshd", "web"},
                            !.enabled = {"sshd"}, !.broken = {"web"}, !.packages = {"nginx", "ufw"},
                            !.users = [u \in {"u"} |-> {"adm"}], !.firewall = TRUE,
                            !.rules = {<<"deny", 8080>>}]
Contents == {None, <<"a", "b">>, <<"new", "# job", "old", "# env", "old", "b">>, <<"x">>}

KeptBefore == [Debian(<<"a", "b">>) EXCEPT !.backups = Files(<<"old">>)]

Both(p, q, dry, m) == [plays |-> <<p, q>>, dry |-> dry, host |-> m]

MCScenarios ==
    {Both(p, p, d, m) : p \in FilePlays \cup Mixed, m \in {Debian(f) : f \in Contents},
                        d \in {<<FALSE, FALSE>>, <<TRUE, FALSE>>}}
    \cup {Both(p, p, d, m) : p \in OtherPlays, m \in {Debian(None), Rpm(None)},
                             d \in {<<FALSE, FALSE>>, <<TRUE, FALSE>>}}
    \cup {Both(p, q, <<FALSE, FALSE>>, m) : m \in {Debian(<<"a", "b">>), KeptBefore},
             p, q \in {<<Line("f", "new", None, "present")>>, <<Line("f", "other", {"a"}, "present")>>,
                       <<Text("copy", "f", <<"x">>, "present")>>}}
    \cup {Both(<<Cron("f", "new", "present")>>, <<[Cron("f", "other", s) EXCEPT !.marker = "# env"]>>,
               <<FALSE, FALSE>>, Debian(f)) : s \in {"present", "absent"}, f \in Contents}
-----------------------------------------------------------------------------
MCConfigPaths == <<"bashrc", "git">>

\* Machines to capture: files with values, keys, a key without end, and one that is too
\* long; the machine to restore to has a start-up file of its own.
TwoFiles(bashrc, other) == [f \in {"bashrc", "git"} |-> IF f = "bashrc" THEN bashrc ELSE other]
MCSources ==
    {[packages |-> {"nginx", "libc"}, services |-> {"nginx"}, npm |-> {"pm2"}, files |-> TwoFiles(b, g)] :
        b \in {<<"plain", "value">>, <<"comment", "sample", "plain">>},
        g \in {NoText, <<"plain", "begin", "inner", "end", "value">>, <<"begin", "inner", "plain">>,
               <<"end", "begin", "begin", "end">>, <<"plain", "plain", "plain", "plain", "plain", "plain">>}}
MCFresh == [packages |-> {"libc"}, services |-> {}, npm |-> {},
            files |-> TwoFiles(<<"plain", "old">>, NoText)]
MCSoftwares == {<<"nginx", "pm2">>, <<"git">>}
-----------------------------------------------------------------------------
\* Two users with the same local part of their addresses and one whose name is taken; the
\* builds are two releases and one with an edited migration.
Person(i, base, username, password, fool) ==
    [id |-> i, base |-> base, username |-> username, password |-> password, fool |-> fool]
MCLegacy == <<Person("ada", "a", NoUsername, TRUE, FALSE), Person("amy", "a", NoUsername, FALSE, FALSE),
              Person("bob", "b", <<"a", 2>>, TRUE, TRUE)>>
MCNewcomers == {Person("new", "a", NoUsername, TRUE, FALSE), Person("hub", "a", NoUsername, FALSE, FALSE)}
MCAsked == {<<"a", 1>>}
MCBuilds == {<<"x">>, <<"x", "y">>, <<"x", "z">>}
-----------------------------------------------------------------------------
\* Software of a machine: with and without a rule, of each kind of source, two
\* of them with one id.
MCRule == [package |-> TRUE, config |-> FALSE, data |-> TRUE, validate |-> TRUE, restart |-> TRUE]
MCConfigRule == [MCRule EXCEPT !.config = TRUE, !.validate = FALSE]

Item(s, n, t, b, r) == [source |-> s, name |-> n, trust |-> t, base |-> b, rule |-> r]

MCInstallable ==
    {Item("apt", "nginx", "user", FALSE, MCRule), Item("apt", "libc6", "user", TRUE, MCConfigRule),
     Item("apt", "jq", "uncertain", FALSE, NoRule), Item("npm", "pm2", "user", FALSE, NoRule),
     Item("docker", "redis", "user", FALSE, MCConfigRule), Item("docker", "redis", "other", FALSE, NoRule),
     Item("opt", "tool", "user", FALSE, NoRule), Item("cron", "job", "other", FALSE, NoRule),
     Item("systemd", "sshd", "other", FALSE, MCConfigRule)}
=============================================================================
