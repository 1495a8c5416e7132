----------------------------- MODULE ConfigFile -----------------------------
(***************************************************************************)
(* One configuration file of a machine, edited through the routes          *)
(* /configs/* of routes.ts with src/apps/api/src/config-files.ts.  A write *)
(* is up to three commands: is there a backup, copy the file, write it.    *)
(* The tasks of a playbook that edit the file (Machine) do the same with   *)
(* the same backup file, on connections of their own.                      *)
(***************************************************************************)
EXTENDS Naturals, FiniteSets

CONSTANTS
    Writers,     \* writes under way at a time
    MaxWrites,   \* bound: writes ever begun; each writes a text of its own
    MaxSlips     \* bound: commands that time out, fail or are cut

VARIABLES
    text,        \* of the file: 0 the first, n that of write n
    backup,      \* the text in .envforge.bak, as a set: {} when there is none
    torn,        \* the file holds half a text
    writer,      \* each write: [pc, text, backup]
    reader,      \* a diff under way: [pc, text, torn]
    shown,       \* the last diff shown: texts of the file and of its backup
    writes, slips,
    spoiled      \* ghost: why the backup need not be the first text

configVars == <<text, backup, torn, writer, reader, shown, writes, slips, spoiled>>

NoWrite == [pc |-> "idle", text |-> 0, backup |-> FALSE]
Writing == {w \in Writers : writer[w].pc # "idle"}

ConfigInit ==
    /\ text = 0 /\ backup = {} /\ torn = FALSE
    /\ writer = [w \in Writers |-> NoWrite]
    /\ reader = [pc |-> "idle", text |-> 0]
    /\ shown = [text |-> {}, backup |-> {}]
    /\ writes = 0 /\ slips = 0 /\ spoiled = {}

Slip(why) == slips < MaxSlips /\ slips' = slips + 1 /\ spoiled' = spoiled \cup why

\* writeConfigFile, with a backup or, if the request says so, without.
BeginWrite(w, b) ==
    /\ writes < MaxWrites /\ writes' = writes + 1
    /\ writer[w].pc = "idle"
    /\ writer' = [writer EXCEPT ![w] = [pc |-> IF b THEN "check" ELSE "write", text |-> writes + 1, backup |-> b]]
    /\ spoiled' = spoiled \cup (IF Writing # {} THEN {"overlap"} ELSE {})
                          \cup (IF ~b /\ backup = {} THEN {"without"} ELSE {})
    /\ UNCHANGED <<text, backup, torn, reader, shown, slips>>

Goes(w, pc) ==
    /\ writer' = [writer EXCEPT ![w].pc = pc]
    /\ UNCHANGED <<reader, shown, writes>>

\* Seeded fault: the copy is made whether or not there is one.
CopyEachTime(w) ==
    /\ writer[w].pc = "check"
    /\ Goes(w, "copy")
    /\ UNCHANGED <<text, backup, torn, slips, spoiled>>

CheckBackup(w) ==
    /\ writer[w].pc = "check"
    /\ Goes(w, IF backup = {} THEN "copy" ELSE "write")
    /\ UNCHANGED <<text, backup, torn, slips, spoiled>>

\* Without an answer in 30 seconds the exit code is -1, "there is none".
CheckTimesOut(w) ==
    /\ writer[w].pc = "check"
    /\ Slip({"timeout"})
    /\ Goes(w, "copy")
    /\ UNCHANGED <<text, backup, torn>>

\* The copy keeps what is there, half a text too.
CopyToBackup(w) ==
    /\ writer[w].pc = "copy"
    /\ backup' = {text}
    /\ Goes(w, "write")
    /\ UNCHANGED <<text, torn, slips, spoiled>>

\* "|| true": a copy that fails is not noticed.
CopyFails(w) ==
    /\ writer[w].pc = "copy"
    /\ Slip({"nocopy"})
    /\ Goes(w, "write")
    /\ UNCHANGED <<text, backup, torn>>

WriteText(w) ==
    /\ writer[w].pc = "write"
    /\ text' = writer[w].text /\ torn' = FALSE
    /\ Goes(w, "idle")
    /\ UNCHANGED <<backup, slips, spoiled>>

\* The connection or the server ends in the middle of a command: tee has
\* emptied the file, or the write was not begun.
WriteIsCut(w) ==
    /\ writer[w].pc # "idle"
    /\ Slip({})
    /\ Goes(w, "idle")
    /\ IF writer[w].pc = "write" THEN torn' \in {torn, TRUE} ELSE UNCHANGED torn
    /\ UNCHANGED <<text, backup>>

\* readConfigFileWithBackup: two reads, one connection after the other.
ReadCurrent ==
    /\ reader.pc = "idle"
    /\ reader' = [pc |-> "backup", text |-> text]
    /\ UNCHANGED <<text, backup, torn, writer, shown, writes, slips, spoiled>>

ReadBackup ==
    /\ reader.pc = "backup"
    /\ reader' = [pc |-> "idle", text |-> 0]
    /\ shown' = [text |-> {reader.text}, backup |-> backup]
    /\ UNCHANGED <<text, backup, torn, writer, writes, slips, spoiled>>

ConfigNext ==
    \/ ReadCurrent \/ ReadBackup
    \/ \E w \in Writers :
           \/ CheckBackup(w) \/ CheckTimesOut(w) \/ CopyToBackup(w) \/ CopyFails(w)
           \/ WriteText(w) \/ WriteIsCut(w)
           \/ \E b \in BOOLEAN : BeginWrite(w, b)

-----------------------------------------------------------------------------
\* The backup holds the text from before the first write, and there is one as
\* soon as the file holds another text, so the diff shows "before EnvForge
\* first wrote" (config-files.ts:317): unless two writers overlapped, the check
\* timed out, the copy failed, or the first write did without.
BackupIsTheFirstText ==
    spoiled = {} =>
        /\ backup \subseteq {0} /\ shown.backup \subseteq {0}
        /\ text # 0 \/ torn => backup = {0}
=============================================================================
