------------------------------ MODULE Capture ------------------------------
(***************************************************************************)
(* What of a machine is kept and put on another one: the capture, which    *)
(* reads a machine channel by channel and writes a playbook from what came *)
(* back (capture.ts, sensitive-scan.ts), and profiles, which are made from *)
(* the snapshot of a connection, edited, and deployed in stages            *)
(* (profiles.ts, snapshot-deploy.ts).                                      *)
(***************************************************************************)
EXTENDS Naturals, FiniteSets, SequencesExt

CONSTANTS
    Known,          \* the packages isKnownUserPackage knows
    Bashrc,         \* ~/.bashrc, which is read twice: by lines and as a file
    ConfigPaths,    \* the files that are read, in their order, Bashrc among them
    LongFrom,       \* the number of lines at which a file is too long to keep
    Sources,        \* machines to capture: [packages, services, npm, files]
    Fresh,         \* the machine to restore to
    ServiceLikely,  \* programs whose service has their name
    Softwares,      \* what a probe may find: sequences of names
    MaxComponents,  \* the cap of normalizeComponents
    NoText,         \* no such file
    Fragment,       \* the first half of a name
    MaxMishaps,     \* bound on answers that are not whole
    MaxOrders       \* bound on requests about profiles

VARIABLES
    source, target, \* the two machines
    kept,           \* summary and configContents of captureEnvironment
    turn,           \* which read of the capture, then which task of the restore, is next
    mishaps, orders,
    probe,          \* probeSnapshot.software of the connection
    found,          \* what a request to make a profile has read of it, and for which kind
    profiles,       \* db.userProfiles: [kind, components]
    \* history variables
    cut,            \* channels whose answer was not whole
    everFound       \* programs that were in a probe

captureVars == <<source, target, kept, turn, mishaps, orders, probe, found, profiles,
                 cut, everFound>>

Lists == <<"packages", "services", "lines", "npm">>
Channels == Lists \o ConfigPaths
Configs == ToSet(ConfigPaths)

Texts == Seq(STRING)
Computers == [packages : SUBSET STRING, services : SUBSET STRING, npm : SUBSET STRING,
              files : [Configs -> Texts \cup {NoText}]]

ASSUME CaptureAssumption ==
    /\ ConfigPaths \in Seq(STRING) /\ Bashrc \in Configs /\ Configs \cap ToSet(Lists) = {}
    /\ NoText \notin Texts /\ LongFrom \in Nat \ {0} /\ MaxComponents \in Nat
    /\ Sources \subseteq Computers /\ Fresh \in Computers /\ Softwares \subseteq Seq(STRING)

CaptureInit ==
    /\ source \in Sources
    /\ target = Fresh
    /\ kept = [packages |-> {}, services |-> {}, lines |-> <<>>, npm |-> {},
               files |-> [f \in Configs |-> NoText]]
    /\ turn = [phase |-> "read", at |-> 1]
    /\ mishaps = 0 /\ orders = 0
    /\ probe = <<>> /\ found = <<>> /\ profiles = <<>>
    /\ cut = {} /\ everFound = {}

profileVars == <<orders, probe, found, profiles, everFound>>

-----------------------------------------------------------------------------
(* scanAndRedact.  A line is of a kind: "plain", "comment", "value" (it has *)
(* a value to mask), "sample" (the value is a placeholder), or begin and    *)
(* end of a key.                                                            *)

MaskLine(l) == IF l = "value" THEN "masked" ELSE l

Shown(l) == IF l = "begin" THEN "maskedKey" ELSE MaskLine(l)
Scan(text) ==
    LET upTo[n \in 0..Len(text)] ==
            IF n = 0 THEN [inKey |-> FALSE, out |-> <<>>]
            ELSE LET s == upTo[n - 1]
                     l == text[n]
                 IN  IF s.inKey THEN [inKey |-> l # "end", out |-> s.out]
                     ELSE [inKey |-> l = "begin", out |-> Append(s.out, Shown(l))]
    IN  upTo[Len(text)].out

\* What it should be: lines of a key go, a key that does not end has the rest of the
\* file as its lines.
InKey(text, i) == \E j \in 1..(i - 1) :
    text[j] = "begin" /\ \A k \in (j + 1)..(i - 1) : text[k] # "end"

Masked(text) ==
    LET shown == {i \in 1..Len(text) : ~InKey(text, i)}
        nth(n) == CHOOSE i \in shown : Cardinality({j \in shown : j <= i}) = n IN
    [n \in 1..Cardinality(shown) |-> Shown(text[nth(n)])]

-----------------------------------------------------------------------------
(* captureEnvironment                                                      *)

\* grep for exports, aliases and sourced files.
ShellLines(text) == IF text = NoText THEN <<>>
                    ELSE SelectSeq(text, LAMBDA l : l \in {"plain", "value", "sample"})

\* What exec may return for a channel: the answer with the exit code 0, the part of
\* it that came before the time was over (code -1) or before the channel was closed
\* without a status (code ?? 0).
Parts(c, m) ==
    CASE c = "packages" -> SUBSET m.packages
      [] c \in {"services", "npm"} -> {s \cup h : s \in SUBSET m[c], h \in {{}, {Fragment}}}
      [] c = "lines" -> Prefixes(ShellLines(m.files[Bashrc]))
      [] OTHER -> IF m.files[c] = NoText THEN {<<>>} ELSE Prefixes(m.files[c])

Whole(c, m) ==
    CASE c \in {"packages", "services", "npm"} -> m[c]
      [] c = "lines" -> ShellLines(m.files[Bashrc])
      [] OTHER -> IF m.files[c] = NoText THEN <<>> ELSE m.files[c]

\* Seeded fault: what cat returned is stored however it ended.
StoresUnchecked(text, code) == Len(text) \in 1..(LongFrom - 1)

\* A file is stored if cat said it went well and the text is not empty or too long.
Stores(text, code) == code = 0 /\ Len(text) \in 1..(LongFrom - 1)

\* Each channel has a try of its own: when it throws, nothing of it is kept.
Keep(c, answer, code) ==
    CASE c = "packages" -> [kept EXCEPT !.packages = answer \cap Known]
      [] c \in {"services", "npm"} -> [kept EXCEPT ![c] = answer]
      [] c = "lines" -> [kept EXCEPT !.lines = [i \in DOMAIN answer |-> MaskLine(answer[i])]]
      [] OTHER -> IF Stores(answer, code) THEN [kept EXCEPT !.files[c] = Scan(answer)] ELSE kept

Onward == turn' = IF turn.at < Len(Channels) THEN [turn EXCEPT !.at = @ + 1]
                  ELSE [phase |-> IF turn.phase = "read" THEN "restore" ELSE "done", at |-> 1]

Reading == turn.phase = "read"
Channel == Channels[turn.at]

ReadChannel ==
    /\ Reading
    /\ kept' = Keep(Channel, Whole(Channel, source),
                    IF Channel \in Configs /\ source.files[Channel] = NoText THEN 1 ELSE 0)
    /\ Onward
    /\ UNCHANGED <<source, target, mishaps, cut>> /\ UNCHANGED profileVars

Mishap == mishaps < MaxMishaps /\ mishaps' = mishaps + 1

ReadCut ==
    /\ Reading /\ Mishap
    /\ \E code \in {0, 0 - 1} : \E answer \in Parts(Channel, source) :
           /\ kept' = Keep(Channel, answer, code)
           \* A time-out is seen with files, and only with them.
           /\ cut' = IF Channel \in Configs /\ code # 0 THEN cut ELSE cut \cup {Channel}
    /\ Onward
    /\ UNCHANGED <<source, target>> /\ UNCHANGED profileVars

ReadThrows ==
    /\ Reading /\ Mishap
    /\ Onward
    /\ UNCHANGED <<source, target, kept, cut>> /\ UNCHANGED profileVars

-----------------------------------------------------------------------------
(* generatePlaybook, and its tasks run on the target one by one, in the    *)
(* order of the channels; Python packages and containers are reported and  *)
(* have no task.                                                           *)

WithLines(text, lines) ==
    FoldLeft(LAMBDA t, l : IF Contains(t, l) THEN t ELSE Append(t, l),
             IF text = NoText THEN <<>> ELSE text, lines)

Restored(c) ==
    CASE c = "packages" -> [target EXCEPT !.packages = @ \cup kept.packages]
      [] c \in {"services", "npm"} -> [target EXCEPT ![c] = @ \cup kept[c]]
      [] c = "lines" -> IF kept.lines = <<>> THEN target
                        ELSE [target EXCEPT !.files[Bashrc] = WithLines(@, kept.lines)]
      [] OTHER -> IF kept.files[c] = NoText THEN target
                  ELSE [target EXCEPT !.files[c] = kept.files[c]]

RestoreTask ==
    /\ turn.phase = "restore"
    /\ target' = Restored(Channel)
    /\ Onward
    /\ UNCHANGED <<source, kept, mishaps, cut>> /\ UNCHANGED profileVars

\* A task that fails ends the run.
RestoreStops ==
    /\ turn.phase = "restore" /\ Mishap
    /\ turn' = [phase |-> "done", at |-> 1]
    /\ UNCHANGED <<source, target, kept, cut>> /\ UNCHANGED profileVars

-----------------------------------------------------------------------------
(* Profiles, once the capture is done.                                     *)

\* A request about profiles.
Order == /\ turn.phase = "done" /\ orders < MaxOrders /\ orders' = orders + 1
         /\ UNCHANGED <<source, kept, turn, mishaps, cut>>

Reprobe(software) ==
    /\ Order /\ probe # software
    /\ probe' = software
    /\ everFound' = everFound \cup ToSet(software)
    /\ UNCHANGED <<target, found, profiles>>

Capped(components) == SubSeq(components, 1, IF Len(components) < MaxComponents
                                            THEN Len(components) ELSE MaxComponents)

\* createVmSnapshot and extract-combo read the probe ...
ReadProbe(kind) ==
    /\ Order /\ probe # <<>> /\ found = <<>>
    /\ found' = <<kind, probe>>
    /\ UNCHANGED <<target, probe, profiles, everFound>>

\* ... and the profile is stored later: the snapshot as it is,
StoreSnapshot ==
    /\ Order /\ found # <<>> /\ found[1] = "vm-snapshot"
    /\ profiles' = <<[kind |-> found[1], components |-> found[2]]>> \o profiles
    /\ found' = <<>>
    /\ UNCHANGED <<target, probe, everFound>>

\* a combo by createUserProfile, which normalizes what the page sends back.
StoreCombo ==
    /\ Order /\ found # <<>> /\ found[1] = "combo"
    /\ profiles' = <<[kind |-> found[1], components |-> Capped(found[2])]>> \o profiles
    /\ found' = <<>>
    /\ UNCHANGED <<target, probe, everFound>>

\* updateUserProfile: the page sends the components back, perhaps without one.
EditComponents(i) ==
    /\ Order /\ i \in DOMAIN profiles
    /\ \E drop \in 0..Len(profiles[i].components) :
           profiles' = [profiles EXCEPT ![i].components =
               Capped(IF drop = 0 THEN @ ELSE RemoveAt(@, drop))]
    /\ UNCHANGED <<target, probe, found, everFound>>

DeleteProfile(i) ==
    /\ Order /\ i \in DOMAIN profiles
    /\ profiles' = RemoveAt(profiles, i)
    /\ UNCHANGED <<target, probe, found, everFound>>

\* pkgsFromComponents, whatever they came from.
Names(p) == ToSet(p.components)

\* buildStagedPlaybooks: the playbook of a stage at work.  The stages for files and
\* variables write what the user's own request brought.
Staged(p, stage) ==
    IF stage = "software" THEN [target EXCEPT !.packages = @ \cup Names(p)]
    ELSE [target EXCEPT !.services = @ \cup (Names(p) \cap ServiceLikely)]

DeployStage(i, stage) ==
    /\ Order /\ i \in DOMAIN profiles /\ profiles[i].kind = "vm-snapshot"
    /\ target' = Staged(profiles[i], stage)
    /\ UNCHANGED <<probe, found, profiles, everFound>>

\* POST /api/execute with buildPlaybookFromProfile: any kind.
Execute(i) ==
    /\ Order /\ i \in DOMAIN profiles
    /\ target' = [target EXCEPT !.packages = @ \cup Names(profiles[i])]
    /\ UNCHANGED <<probe, found, profiles, everFound>>

\* POST /api/connections/:id/uninstall: the playbook depends on where a program is from.
Uninstall(name, from) ==
    /\ Order /\ name \in target[from]
    /\ target' = [target EXCEPT ![from] = @ \ {name}]
    /\ UNCHANGED <<probe, found, profiles, everFound>>

CaptureNext ==
    \/ ReadChannel \/ ReadCut \/ ReadThrows \/ RestoreTask \/ RestoreStops
    \/ \E s \in Softwares : Reprobe(s)
    \/ \E k \in {"vm-snapshot", "combo"} : ReadProbe(k)
    \/ StoreSnapshot \/ StoreCombo
    \/ \E i \in 1..MaxOrders : EditComponents(i) \/ DeleteProfile(i) \/ Execute(i)
                               \/ \E s \in {"software", "services"} : DeployStage(i, s)
    \/ \E from \in {"packages", "npm"} : \E n \in target[from] : Uninstall(n, from)

-----------------------------------------------------------------------------
(* What is on the target was on a machine.                                 *)

FileIsFaithful(f) ==
    \/ target.files[f] = Fresh.files[f]
    \/ source.files[f] # NoText /\ target.files[f] = Masked(source.files[f])
    \/ /\ f = Bashrc /\ "lines" \notin cut
       /\ target.files[f] = WithLines(Fresh.files[f],
              [i \in DOMAIN ShellLines(source.files[f]) |-> MaskLine(ShellLines(source.files[f])[i])])
    \/ f \in cut \/ (f = Bashrc /\ "lines" \in cut)

\* Whatever goes wrong while a machine is read, what a restore leaves on another
\* machine was there: a file has its old text or all of the captured one with its keys
\* and values masked, packages, services and programs are those of the machine or of a
\* probe.  Only a channel that closes without a status, and with lists a time-out, can
\* pass a part for the whole.  (captureEnvironment, scanAndRedact, buildStagedPlaybooks)
RestoredIsWhatWasThere ==
    /\ \A f \in Configs : FileIsFaithful(f)
    /\ target.packages \subseteq
           Fresh.packages \cup (source.packages \cap Known) \cup everFound
    /\ target.services \subseteq Fresh.services \cup source.services \cup everFound
                                 \cup (IF "services" \in cut THEN {Fragment} ELSE {})
    /\ target.npm \subseteq Fresh.npm \cup source.npm
                            \cup (IF "npm" \in cut THEN {Fragment} ELSE {})
=============================================================================
