----------------------------- MODULE Connections -----------------------------
(***************************************************************************)
(* A connection of a user, src/apps/api/src/connections.ts, and the drift  *)
(* of its machine from a baseline, drift.ts.  A probe takes long: what was *)
(* read of the document before it is written back after it, while others   *)
(* probe, set a baseline, delete the key or the connection.                *)
(*                                                                         *)
(* What a machine has installed comes from collectors/remote-collector.ts: *)
(* one script prints section after section, each under a heading, and one  *)
(* parser reads it; when the script takes longer than thirty seconds, what *)
(* has come by then is taken for the whole.  Software is a set of pairs:   *)
(* the section that prints it, and a name.  Sections about the machine     *)
(* itself and its configuration are left out.                              *)
(***************************************************************************)
EXTENDS Integers, Sequences, SequencesExt, FiniteSets

CONSTANTS
    SectionOrder,\* the sections of the script that list software
    SystemNames, \* section -> the names its filter takes for part of the system
    Fragment0,   \* the name that is left of a line cut short
    Machines,    \* what a machine may have installed
    Probes,      \* requests that probe at a time
    MaxMoments,  \* bound: changes of the machine
    MaxProbes    \* bound: requests that probe

\* A section has entries of its own, and no section has the name of another's source.
ASSUME ConnectionsAssumption ==
    /\ SectionOrder \in Seq(STRING)
    /\ ToSet(SectionOrder) \cap {"", "local-app", "docker", "cron", "systemd-timer", "systemd"} = {}
    /\ Machines # {}
    /\ \A soft \in Machines :
           /\ soft \subseteq ToSet(SectionOrder) \X STRING /\ IsFiniteSet(soft)
           /\ \A x \in soft : x[2] # Fragment0

-----------------------------------------------------------------------------
(* The collector.                                                           *)

Heading(section) == <<"heading", section>>
Entry(name) == <<"entry", name>>
\* A heading cut short after its first three signs; cut before that it is like an entry.
BrokenHeading == <<"===", "">>

\* What the script prints under the heading of a section.
Block(soft, section) ==
    <<Heading(section)>> \o SetToSeq({Entry(x[2]) : x \in {y \in soft : y[1] = section}})

\* COLLECT_SCRIPT.
Printed(soft) ==
    LET upTo[n \in 0..Len(SectionOrder)] ==
            IF n = 0 THEN <<>> ELSE upTo[n - 1] \o Block(soft, SectionOrder[n])
    IN  Append(upTo[Len(SectionOrder)], Heading("end"))

\* collectRemoteSnapshot: all of it, or any part from the beginning when the timer runs out.
Received(soft) ==
    LET lines == Printed(soft)
        broken(line) == {Entry(Fragment0)} \cup {BrokenHeading : h \in {line[1]} \cap {"heading"}}
    IN  {lines} \cup UNION {{SubSeq(lines, 1, k)} \cup
                            {Append(SubSeq(lines, 1, k), b) : b \in broken(lines[k + 1])} :
                            k \in 0..Len(lines) - 1}

\* Seeded fault: the lines of a section stay in the buffer of the next.
TakeLineKeeps(acc, line) ==
    CASE line[1] = "heading" -> [section |-> line[2], of |-> acc.of \cup {<<line[2], x[2]>> : x \in acc.of}]
      [] line[1] = "entry" /\ acc.section # "" -> [acc EXCEPT !.of = @ \cup {<<acc.section, line[2]>>}]
      [] OTHER -> acc

\* A step of parseSections: a heading opens its section, an entry belongs to the one that is
\* open; what is before the first, or begins like a heading, belongs to none.
TakeLine(acc, line) ==
    CASE line[1] = "heading" -> [section |-> line[2], of |-> acc.of]
      [] line[1] = "entry" /\ acc.section # "" -> [acc EXCEPT !.of = @ \cup {<<acc.section, line[2]>>}]
      [] OTHER -> acc

\* parseSections and parseLines.
Sectioned(lines) ==
    LET upTo[n \in 0..Len(lines)] ==
            IF n = 0 THEN [section |-> "", of |-> {}] ELSE TakeLine(upTo[n - 1], lines[n])
    IN  upTo[Len(lines)].of

\* isSystemAptPackage: exact names and prefixes.
IsSystemApt(x) == x[1] = "apt" /\ x[2] \in SystemNames["apt"]
\* isSystemRpmPackage.
IsSystemRpm(x) == x[1] = "rpm" /\ x[2] \in SystemNames["rpm"]
\* isSystemSnap, isSystemService, isSystemCron and isSystemTimer.
IsSystemOther(x) ==
    x[1] \in {"snap", "custom-services", "cron-jobs", "systemd-timers"} /\ x[2] \in SystemNames[x[1]]
IsSystem(x) == IsSystemApt(x) \/ IsSystemRpm(x) \/ IsSystemOther(x)

\* The source under which the entries of a section are listed.
SourceOf(section) ==
    CASE section = "local-sbin" -> "local-bin"
      [] section = "local-apps" -> "local-app"
      [] section = "docker-images" -> "docker"
      [] section = "cron-jobs" -> "cron"
      [] section = "systemd-timers" -> "systemd-timer"
      [] section = "custom-services" -> "systemd"
      [] OTHER -> section

\* A service of the user's own is listed when nothing else of its name is.
Services(of, listed) ==
    {<<SourceOf(x[1]), x[2]>> : x \in {y \in of : /\ y[1] = "custom-services" /\ ~IsSystem(y)
                                                  /\ \A z \in listed : z[2] # y[2]}}

\* parseFullOutput: the software of the snapshot.
SoftwareOf(lines) ==
    LET of == Sectioned(lines)
        listed == {<<SourceOf(x[1]), x[2]>> : x \in {y \in of : y[1] # "custom-services" /\ ~IsSystem(y)}}
    IN  listed \cup Services(of, listed)

\* What a snapshot lists of what is installed.
Listed(soft) == SoftwareOf(Printed(soft))

-----------------------------------------------------------------------------
(* A connection, its probes and its baseline.                               *)

VARIABLES
    conn,        \* there, status, and the moment of the probe it shows
    keyThere,    \* the key it logs in with is still in the key store
    machine,     \* what is installed, and the moment
    baseline,    \* id (0: none), soft, taken at, and the last report
    probe,       \* requests: [do, pc, status, base, ok, soft, at]
    probes

connVars == <<conn, keyThere, machine, baseline, probe, probes>>

NoReport == [at |-> 0, added |-> {}, removed |-> {}, soft |-> {}, installed |-> {}, whole |-> TRUE]
NoBaseline == [id |-> 0, soft |-> {}, at |-> 0, installed |-> {}, whole |-> TRUE, report |-> NoReport]
NoProbe == [do |-> "none", pc |-> "idle", status |-> "none", base |-> NoBaseline,
            ok |-> FALSE, soft |-> {}, at |-> 0, installed |-> {}, whole |-> TRUE]
Probing(do) == {p \in Probes : probe[p].do = do}

ConnectionsInit ==
    /\ conn \in {[there |-> FALSE, status |-> "none", at |-> 0], [there |-> TRUE, status |-> "probed", at |-> 0]}
    /\ keyThere = TRUE
    /\ machine = [soft |-> CHOOSE s \in Machines : TRUE, at |-> 1]
    /\ baseline = NoBaseline
    /\ probe = [p \in Probes |-> NoProbe]
    /\ probes = 0

\* The user installs or removes something on the machine.
MachineChanges ==
    /\ machine.at < MaxMoments
    /\ \E s \in Machines : s # machine.soft /\ machine' = [soft |-> s, at |-> machine.at + 1]
    /\ UNCHANGED <<conn, keyThere, baseline, probe, probes>>

EnterProbe(p, do) ==
    /\ probes < MaxProbes /\ probes' = probes + 1
    /\ probe[p].do = "none"
    /\ probe' = [probe EXCEPT ![p] =
           [NoProbe EXCEPT !.do = do, !.pc = "see", !.status = conn.status, !.base = baseline]]
    /\ UNCHANGED <<conn, keyThere, machine, baseline>>

\* createConnection tests the connection before it stores it, as it came out.
Connect(p) == ~conn.there /\ conn.status = "none" /\ keyThere /\ Probing("connect") = {} /\ EnterProbe(p, "connect")
Reprobe(p) == conn.there /\ EnterProbe(p, "reprobe")
SetBaseline(p) == conn.there /\ EnterProbe(p, "baseline")
\* runDriftCheck: without a baseline there is nothing to do.
CheckDrift(p) == conn.there /\ baseline.id # 0 /\ EnterProbe(p, "drift")

\* testSshConnection, or connectSshForConnection and collectRemoteSnapshot, which takes a channel
\* that closes, like its timer, for the end of the script.  What a connection shows of its
\* machine is kept as its moment only.
Reached(p) ==
    /\ probe[p].pc = "see" /\ keyThere
    /\ \E lines \in Received(machine.soft) :
           probe' = [probe EXCEPT ![p] = IF @.do \in {"connect", "reprobe"}
               THEN [@ EXCEPT !.pc = "write", !.ok = TRUE, !.status = "probed", !.at = machine.at]
               ELSE [@ EXCEPT !.pc = "write", !.at = machine.at, !.soft = SoftwareOf(lines),
                              !.installed = machine.soft, !.whole = lines = Printed(machine.soft)]]
    /\ UNCHANGED <<conn, keyThere, machine, baseline, probes>>

\* A failure is stored by connect and reprobe; the other two throw.
NotReached(p) ==
    /\ probe[p].pc = "see" /\ keyThere
    /\ probe' = [probe EXCEPT ![p] = IF @.do \in {"connect", "reprobe"}
           THEN [@ EXCEPT !.pc = "write", !.status = "ssh_failed"] ELSE NoProbe]
    /\ UNCHANGED <<conn, keyThere, machine, baseline, probes>>

\* Without the key reprobe tries nothing and keeps the status it has read;
\* the others throw.
KeyMissing(p) ==
    /\ probe[p].pc = "see" /\ ~keyThere
    /\ probe' = [probe EXCEPT ![p] = IF @.do = "reprobe" THEN [@ EXCEPT !.pc = "write"] ELSE NoProbe]
    /\ UNCHANGED <<conn, keyThere, machine, baseline, probes>>

Ends(p) == probe' = [probe EXCEPT ![p] = NoProbe] /\ UNCHANGED <<keyThere, machine, probes>>

\* What the update makes of the connection.
Stored(p) ==
    IF probe[p].ok THEN [conn EXCEPT !.status = probe[p].status, !.at = probe[p].at]
    ELSE [conn EXCEPT !.status = probe[p].status]

StoreConnection(p) ==
    /\ probe[p].do = "connect" /\ probe[p].pc = "write"
    /\ conn' = [Stored(p) EXCEPT !.there = TRUE]
    /\ Ends(p) /\ UNCHANGED baseline

StoreProbe(p) ==
    /\ probe[p].do = "reprobe" /\ probe[p].pc = "write"
    /\ conn' = IF conn.there THEN Stored(p) ELSE conn
    /\ Ends(p) /\ UNCHANGED baseline

\* A new baseline takes the place of any other of the connection, which nobody
\* looks for any more.
StoreBaseline(p) ==
    /\ probe[p].do = "baseline" /\ probe[p].pc = "write"
    /\ baseline' = [id |-> probes * 10 + baseline.id + 1, soft |-> probe[p].soft,
                    at |-> probe[p].at, installed |-> probe[p].installed, whole |-> probe[p].whole,
                    report |-> NoReport]
    /\ Ends(p) /\ UNCHANGED conn

Report(p) ==
    [at |-> probe[p].at, soft |-> probe[p].soft,
     installed |-> probe[p].installed, whole |-> probe[p].whole,
     added |-> probe[p].soft \ probe[p].base.soft,
     removed |-> probe[p].base.soft \ probe[p].soft]

\* Seeded fault: the baseline is looked for by its connection.
StoreReportAnyway(p) ==
    /\ probe[p].do = "drift" /\ probe[p].pc = "write"
    /\ baseline' = [baseline EXCEPT !.report = Report(p)]
    /\ Ends(p) /\ UNCHANGED conn

\* The report goes to the baseline it was made with, if that is still there.
StoreReport(p) ==
    /\ probe[p].do = "drift" /\ probe[p].pc = "write"
    /\ baseline' = IF baseline.id = probe[p].base.id
                   THEN [baseline EXCEPT !.report = Report(p)] ELSE baseline
    /\ Ends(p) /\ UNCHANGED conn

\* DELETE: the baseline (and tasks, schedules, decisions) stay.
DeleteConnection ==
    /\ conn.there
    /\ conn' = [conn EXCEPT !.there = FALSE]
    /\ UNCHANGED <<keyThere, machine, baseline, probe, probes>>

DeleteItsKey ==
    /\ keyThere /\ keyThere' = FALSE
    /\ UNCHANGED <<conn, machine, baseline, probe, probes>>

ConnectionsNext ==
    \/ MachineChanges \/ DeleteConnection \/ DeleteItsKey
    \/ \E p \in Probes :
           \/ Connect(p) \/ Reprobe(p) \/ SetBaseline(p) \/ CheckDrift(p)
           \/ Reached(p) \/ NotReached(p) \/ KeyMissing(p)
           \/ StoreConnection(p) \/ StoreProbe(p) \/ StoreBaseline(p) \/ StoreReport(p)

-----------------------------------------------------------------------------
\* A report of drift is about the baseline it is shown with: its differences
\* are those between that baseline and what was installed at a later moment.
ReportIsOfItsBaseline ==
    LET r == baseline.report IN
    r.at # 0 =>
        /\ r.at >= baseline.at
        /\ r.added = r.soft \ baseline.soft
        /\ r.removed = baseline.soft \ r.soft

\* A report of drift (drift.ts:58-117) names as added what is installed and was not, and as
\* removed what was and is not, whatever the parser of the script's output makes of its lines.
\* When the baseline was cut it may name as added what was there, and when the report was, as
\* removed what still is, or the piece of a line.  A service listed only for want of something
\* else of its name comes and goes with that.
ReportIsTrue ==
    LET r == baseline.report
        from(soft, x) == {y \in soft : SourceOf(y[1]) = x[1] /\ y[2] = x[2]}
        shadowed(x) == x[1] = "systemd"
    IN  r.at # 0 =>
        /\ \A x \in r.added : /\ x[2] = Fragment0 => ~r.whole
                              /\ x[2] # Fragment0 => from(r.installed, x) # {}
                              /\ baseline.whole /\ ~shadowed(x) => from(baseline.installed, x) = {}
        /\ \A x \in r.removed : /\ x[2] = Fragment0 => ~baseline.whole
                                /\ x[2] # Fragment0 => from(baseline.installed, x) # {}
                                /\ r.whole /\ ~shadowed(x) => from(r.installed, x) = {}
        /\ r.whole /\ baseline.whole /\ r.added = {} /\ r.removed = {} =>
               Listed(r.installed) = Listed(baseline.installed)

\* The two together: a report shows the change of the machine since its baseline.
ReportIsSound == ReportIsOfItsBaseline /\ ReportIsTrue
=============================================================================
