-------------------------- MODULE Workspace_proofs --------------------------
(***************************************************************************)
(* Proofs about the parts of the workspace: what holds of each part alone  *)
(* is lifted to the composition, in which one part moves and the others    *)
(* rest.                                                                   *)
(***************************************************************************)
EXTENDS Workspace, SequenceTheorems, FiniteSetTheorems, Induction, TLAPS

-----------------------------------------------------------------------------
(* Administrators.                                                         *)

AdminTypeOK ==
    /\ admins \subseteq People /\ locked \subseteq People
    /\ order \in [People -> {NoOrder} \cup [do : {"demote", "promote", "lock", "delete"}, of : People]]
    /\ overlapped \in BOOLEAN /\ lockedActed \in BOOLEAN

\* One change at a time, ...
OneChange ==
    \A u, v \in People : order[u].do # "none" /\ order[v].do # "none" => u = v

\* ... and none that takes the last administrator away.
OthersRemain ==
    \A u \in People : order[u].do \notin {"none", "promote"} => OtherAdmins(order[u].of) # {}

AdminInv ==
    /\ AdminTypeOK
    /\ ~overlapped /\ ~lockedActed => LiveAdmins # {} /\ OneChange /\ OthersRemain

LEMMA AdminStarts == AdminsInit => AdminInv
<1> SUFFICES ASSUME AdminsInit PROVE AdminInv
  OBVIOUS
<1>1. AdminTypeOK
  BY AdminsAssumption DEF AdminsInit, AdminTypeOK, NoOrder
<1>2. \A u \in People : order[u].do = "none"
  BY DEF AdminsInit, NoOrder
<1>3. LiveAdmins # {}
  BY AdminsAssumption DEF AdminsInit, LiveAdmins
<1> QED
  BY <1>1, <1>2, <1>3 DEF AdminInv, OneChange, OthersRemain

\* What a request asks for is noted, and changes nobody's role yet.
LEMMA AskKeeps ==
  ASSUME AdminInv, NEW u \in People, NEW of \in People,
         NEW do \in {"demote", "promote", "lock", "delete"},
         Acting(u), Ask(u, do, of),
         do # "promote" /\ u \notin locked /\ LiveAdmins # {} => OtherAdmins(of) # {}
  PROVE  AdminInv'
<1>1. AdminTypeOK'
  <2>1. (overlapped \/ UnderWay # {}) \in BOOLEAN /\ (lockedActed \/ u \in locked) \in BOOLEAN
    OBVIOUS
  <2> QED
    BY <2>1 DEF AdminInv, AdminTypeOK, Ask
<1>2. ASSUME ~overlapped', ~lockedActed'
      PROVE  LiveAdmins' # {} /\ OneChange' /\ OthersRemain'
  <2>1. ~overlapped /\ ~lockedActed /\ UnderWay = {} /\ u \notin locked
    BY <1>2 DEF Ask
  <2>2. (LiveAdmins # {} /\ OtherAdmins(of) # {}) \/ (do = "promote" /\ LiveAdmins # {})
    BY <2>1 DEF AdminInv
  <2>3. \A v \in People : v # u => order'[v].do = "none"
    BY <2>1 DEF Ask, UnderWay, AdminInv, AdminTypeOK
  <2>4. order'[u] = [do |-> do, of |-> of]
    BY DEF Ask, AdminInv, AdminTypeOK
  <2>5. LiveAdmins' = LiveAdmins /\ \A p : OtherAdmins(p)' = OtherAdmins(p)
    BY DEF Ask, LiveAdmins, OtherAdmins
  <2>6. OneChange'
    BY <2>3 DEF OneChange
  <2>7. OthersRemain'
    <3> SUFFICES ASSUME NEW v \in People, order'[v].do \notin {"none", "promote"}
                 PROVE  OtherAdmins(order[v].of)' # {}
      BY DEF OthersRemain
    <3>1. v = u /\ order'[v].of = of /\ do # "promote"
      BY <2>3, <2>4
    <3> QED
      BY <3>1, <2>2, <2>5 DEF OtherAdmins, LiveAdmins
  <2> QED
    BY <2>2, <2>5, <2>6, <2>7
<1> QED
  BY <1>1, <1>2 DEF AdminInv

LEMMA CarryKeeps ==
  ASSUME AdminInv, NEW u \in People, Carry(u)
  PROVE  AdminInv'
<1> DEFINE of == order[u].of
<1>1. /\ order[u].do \in {"demote", "promote", "lock", "delete"} /\ of \in People
      /\ order' = [order EXCEPT ![u] = NoOrder]
      /\ overlapped' = overlapped /\ lockedActed' = lockedActed
  BY DEF Carry, AdminInv, AdminTypeOK, NoOrder
<1>2. AdminTypeOK'
  <2>1. admins' \subseteq People /\ locked' \subseteq People
    BY <1>1 DEF Carry, AdminInv, AdminTypeOK
  <2> QED
    BY <2>1, <1>1 DEF AdminInv, AdminTypeOK
<1>3. ASSUME ~overlapped', ~lockedActed'
      PROVE  LiveAdmins' # {} /\ OneChange' /\ OthersRemain'
  <2>1. LiveAdmins # {} /\ OneChange /\ OthersRemain
    BY <1>3, <1>1 DEF AdminInv
  <2>2. \A v \in People : order'[v].do = "none"
    <3> SUFFICES ASSUME NEW v \in People PROVE order'[v].do = "none"
      OBVIOUS
    <3>1. CASE v = u
      BY <3>1, <1>1 DEF AdminInv, AdminTypeOK, NoOrder
    <3>2. CASE v # u
      <4>1. order[v].do = "none"
        BY <3>2, <2>1, <1>1 DEF OneChange
      <4> QED
        BY <3>2, <4>1, <1>1 DEF AdminInv, AdminTypeOK
    <3> QED
      BY <3>1, <3>2
  <2>3. LiveAdmins' # {}
    <3>1. CASE order[u].do = "promote"
      \* Who is promoted may be locked, but whoever was there remains.
      <4>1. admins' = admins \cup {of} /\ locked' = locked
        BY <3>1 DEF Carry
      <4> QED
        BY <4>1, <2>1 DEF LiveAdmins
    <3>2. CASE order[u].do # "promote"
      <4>1. PICK p \in LiveAdmins \ {of} : TRUE
        BY <3>2, <1>1, <2>1 DEF OthersRemain, OtherAdmins
      <4>2. admins \ {of} \subseteq admins' /\ locked' \subseteq locked \cup {of}
        BY <1>1, <3>2 DEF Carry
      <4> QED
        BY <4>1, <4>2 DEF LiveAdmins
    <3> QED
      BY <3>1, <3>2
  <2> QED
    BY <2>2, <2>3 DEF OneChange, OthersRemain
<1> QED
  BY <1>2, <1>3 DEF AdminInv

LEMMA AdminStep == AdminInv /\ [AdminsNext]_adminVars => AdminInv'
<1> SUFFICES ASSUME AdminInv, [AdminsNext]_adminVars PROVE AdminInv'
  OBVIOUS
<1>1. ASSUME NEW u \in People, AskDelete(u) PROVE AdminInv'
  <2>1. LiveAdmins # {} => OtherAdmins(u) # {}
    BY <1>1 DEF AskDelete, OtherAdmins, LiveAdmins
  <2> QED
    BY <1>1, <2>1, AskKeeps DEF AskDelete
<1>2. ASSUME NEW u \in People, NEW of \in People, AskDemote(u, of) PROVE AdminInv'
  <2>1. u \notin locked => OtherAdmins(of) # {}
    BY <1>2 DEF AskDemote, OtherAdmins, LiveAdmins
  <2> QED
    BY <1>2, <2>1, AskKeeps DEF AskDemote
<1>3. ASSUME NEW u \in People, NEW of \in People, AskPromote(u, of) PROVE AdminInv'
  BY <1>3, AskKeeps DEF AskPromote
<1>4. ASSUME NEW u \in People, NEW of \in People, AskLock(u, of) PROVE AdminInv'
  <2>1. u \notin locked => OtherAdmins(of) # {}
    BY <1>4 DEF AskLock, OtherAdmins, LiveAdmins
  <2> QED
    BY <1>4, <2>1, AskKeeps DEF AskLock
<1>5. ASSUME NEW u \in People, SignsIn(u) PROVE AdminInv'
  BY <1>5 DEF SignsIn, AdminInv, AdminTypeOK, OneChange, OthersRemain, LiveAdmins, OtherAdmins
<1>6. CASE UNCHANGED adminVars
  BY <1>6 DEF adminVars, AdminInv, AdminTypeOK, OneChange, OthersRemain, LiveAdmins, OtherAdmins
<1> QED
  BY <1>1, <1>2, <1>3, <1>4, <1>5, <1>6, CarryKeeps DEF AdminsNext

\* Whatever the users and the number of founders, the server keeps somebody who
\* can administer it unless changes overlapped or a locked administrator acted.
THEOREM SomeAdminAlwaysRemains == Spec => []SomeAdminRemains
<1>1. Init => AdminInv
  BY AdminStarts DEF Init
<1>2. AdminInv /\ [Next]_vars => AdminInv'
  BY AdminStep DEF Next, vars
<1>3. AdminInv => SomeAdminRemains
  BY DEF AdminInv, SomeAdminRemains
<1> QED
  BY <1>1, <1>2, <1>3, PTL DEF Spec

-----------------------------------------------------------------------------
(* Keys.                                                                   *)

KeysTypeOK ==
    /\ files \subseteq Keys /\ listed \subseteq Keys
    /\ req \in [Uploads -> {NoUpload} \cup
           [do : {"save", "delete"}, key : Keys, pc : {"read", "open", "fill"}, rows : SUBSET Keys]]
    /\ metaTorn \in BOOLEAN /\ disturbed \in BOOLEAN

OneUpload == \A r, q \in Uploads : req[r].do # "none" /\ req[q].do # "none" => r = q

\* What a request that is alone knows: its file is written or deleted first, so
\* the list is behind by its key, until it has read the list and writes it again.
UploadKnows ==
    \A r \in Uploads :
        /\ req[r].pc = "read" => ~metaTorn /\ files = NewRows(r, listed)
        /\ req[r].pc = "open" => ~metaTorn /\ req[r].rows = files
        /\ req[r].pc = "fill" => req[r].rows = files

ListIsRight == (\A r \in Uploads : req[r].do = "none") => ~metaTorn /\ listed = files

KeysInv ==
    /\ KeysTypeOK /\ acked \subseteq files
    /\ ~disturbed => OneUpload /\ UploadKnows /\ ListIsRight

LEMMA KeysStart == KeysInit => KeysInv
<1> SUFFICES ASSUME KeysInit PROVE KeysInv
  OBVIOUS
<1>1. \A r \in Uploads : req[r] = NoUpload
  BY DEF KeysInit
<1>2. KeysTypeOK /\ acked \subseteq files
  BY DEF KeysInit, KeysTypeOK
<1> QED
  BY <1>1, <1>2 DEF KeysInit, KeysInv, OneUpload, UploadKnows, ListIsRight, NoUpload

\* A request that begins alone: the others rest, so the list was right.
LEMMA EnterKeeps ==
  ASSUME KeysInv, NEW r \in Uploads, NEW k \in Keys, NEW do \in {"save", "delete"},
         EnterKeys(r, do, k),
         files' = IF do = "save" THEN files \cup {k} ELSE files \ {k},
         acked' = IF do = "save" THEN acked ELSE acked \ {k},
         UNCHANGED <<listed, metaTorn>>
  PROVE  KeysInv'
<1> DEFINE new == [do |-> do, key |-> k, pc |-> "read", rows |-> {}]
<1>1. req' = [req EXCEPT ![r] = new] /\ req[r].do = "none"
  BY DEF EnterKeys
<1>2. KeysTypeOK'
  <2>1. new \in [do : {"save", "delete"}, key : Keys, pc : {"read", "open", "fill"}, rows : SUBSET Keys]
    OBVIOUS
  <2>2. req' \in [Uploads -> {NoUpload} \cup
           [do : {"save", "delete"}, key : Keys, pc : {"read", "open", "fill"}, rows : SUBSET Keys]]
    BY <1>1, <2>1 DEF KeysInv, KeysTypeOK
  <2>3. (disturbed \/ Busy # {}) \in BOOLEAN
    OBVIOUS
  <2> QED
    BY <2>2, <2>3 DEF KeysInv, KeysTypeOK, EnterKeys
<1>3. acked' \subseteq files'
  BY DEF KeysInv
<1>4. ASSUME ~disturbed' PROVE OneUpload' /\ UploadKnows' /\ ListIsRight'
  <2>1. ~disturbed /\ \A q \in Uploads : req[q].do = "none"
    BY <1>4 DEF EnterKeys, Busy
  <2>2. ~metaTorn /\ listed = files
    BY <2>1 DEF KeysInv, ListIsRight
  <2>3. req'[r] = new /\ \A q \in Uploads : q # r => req'[q] = NoUpload
    BY <2>1, <1>1 DEF KeysInv, KeysTypeOK
  <2>4. OneUpload'
    BY <2>3 DEF OneUpload, NoUpload
  <2>5. ListIsRight'
    BY <2>3 DEF ListIsRight
  <2>6. UploadKnows'
    BY <2>2, <2>3 DEF UploadKnows, NewRows, NoUpload
  <2> QED
    BY <2>4, <2>5, <2>6
<1> QED
  BY <1>2, <1>3, <1>4 DEF KeysInv

\* A step of the only request under way.
LEMMA KeyStepKeeps ==
  ASSUME KeysInv, NEW r \in Uploads,
         req[r].do # "none", req'[r] \in {NoUpload} \cup
           [do : {"save", "delete"}, key : Keys, pc : {"read", "open", "fill"}, rows : SUBSET Keys],
         req' = [req EXCEPT ![r] = req'[r]],
         files' = files, listed' \subseteq Keys, metaTorn' \in BOOLEAN, disturbed' = disturbed,
         acked' \subseteq files,
         ~disturbed => /\ req'[r].pc = "read" => ~metaTorn' /\ files = NewRows(r, listed)'
                       /\ req'[r].pc = "open" => ~metaTorn' /\ req'[r].rows = files
                       /\ req'[r].pc = "fill" => req'[r].rows = files
                       /\ req'[r].do = "none" => ~metaTorn' /\ listed' = files
  PROVE  KeysInv'
<1>1. KeysTypeOK'
  BY DEF KeysInv, KeysTypeOK
<1>2. ASSUME ~disturbed' PROVE OneUpload' /\ UploadKnows' /\ ListIsRight'
  <2>1. \A q \in Uploads : q # r => req'[q] = NoUpload
    BY <1>2 DEF KeysInv, KeysTypeOK, OneUpload
  <2>2. OneUpload'
    BY <2>1 DEF OneUpload, NoUpload
  <2>3. UploadKnows'
    BY <1>2, <2>1 DEF UploadKnows, NoUpload
  <2>4. ListIsRight'
    BY <1>2 DEF ListIsRight
  <2> QED
    BY <2>2, <2>3, <2>4
<1> QED
  BY <1>1, <1>2 DEF KeysInv

LEMMA KeysStepKeeps == KeysInv /\ [KeysNext]_keyVars => KeysInv'
<1> SUFFICES ASSUME KeysInv, [KeysNext]_keyVars PROVE KeysInv'
  OBVIOUS
<1> USE DEF KeysInv, KeysTypeOK
<1>1. ASSUME NEW r \in Uploads, NEW k \in Keys, SaveKey(r, k) PROVE KeysInv'
  BY <1>1, EnterKeeps DEF SaveKey
<1>2. ASSUME NEW r \in Uploads, NEW k \in Keys, DeleteKey(r, k) PROVE KeysInv'
  BY <1>2, EnterKeeps DEF DeleteKey
<1>3. ASSUME NEW r \in Uploads, ReadMeta(r) PROVE KeysInv'
  <2> DEFINE rows == NewRows(r, IF metaTorn THEN {} ELSE listed)
  <2>1. req[r] # NoUpload /\ req[r].do # "none" /\ req[r].key \in Keys
    BY <1>3 DEF ReadMeta, KeyStep, NoUpload
  <2>2. rows \in SUBSET Keys
    BY <2>1 DEF NewRows
  <2>3. req'[r] = [do |-> req[r].do, key |-> req[r].key, pc |-> "open", rows |-> rows]
    BY <1>3, <2>1 DEF ReadMeta, KeyStep
  <2>4. ~disturbed => ~metaTorn /\ rows = files
    BY <1>3 DEF ReadMeta, KeyStep, UploadKnows
  <2>5. req' = [req EXCEPT ![r] = req'[r]]
    BY <1>3 DEF ReadMeta, KeyStep
  <2>6. req'[r] \in {NoUpload} \cup
           [do : {"save", "delete"}, key : Keys, pc : {"read", "open", "fill"}, rows : SUBSET Keys]
    BY <2>1, <2>2, <2>3
  <2>7. req'[r].pc = "open" /\ req'[r].do # "none" /\ req'[r].rows = rows
    BY <2>1, <2>3
  <2>8. files' = files /\ listed' = listed /\ metaTorn' = metaTorn /\ acked' = acked /\ disturbed' = disturbed
    BY <1>3 DEF ReadMeta, KeyStep
  <2>9. listed' \subseteq Keys /\ metaTorn' \in BOOLEAN /\ acked' \subseteq files
    BY <2>8
  <2> HIDE DEF rows, KeysInv, KeysTypeOK
  <2> QED
    BY <2>1, <2>4, <2>5, <2>6, <2>7, <2>8, <2>9, KeyStepKeeps
<1>4. ASSUME NEW r \in Uploads, OpenMeta(r) PROVE KeysInv'
  <2>1. req[r] # NoUpload /\ req[r].do # "none"
    BY <1>4 DEF OpenMeta, KeyStep, NoUpload
  <2>2. req'[r] = [do |-> req[r].do, key |-> req[r].key, pc |-> "fill", rows |-> req[r].rows]
    BY <1>4, <2>1 DEF OpenMeta, KeyStep
  <2>3. ~disturbed => req[r].rows = files
    BY <1>4 DEF OpenMeta, KeyStep, UploadKnows
  <2>4. req' = [req EXCEPT ![r] = req'[r]]
    BY <1>4 DEF OpenMeta, KeyStep
  <2>5. req'[r] \in {NoUpload} \cup
           [do : {"save", "delete"}, key : Keys, pc : {"read", "open", "fill"}, rows : SUBSET Keys]
    BY <2>1, <2>2
  <2>6. req'[r].pc = "fill" /\ req'[r].do # "none" /\ req'[r].rows = req[r].rows
    BY <2>1, <2>2
  <2>7. files' = files /\ listed' = listed /\ acked' = acked /\ disturbed' = disturbed
    BY <1>4 DEF OpenMeta, KeyStep
  <2>8. listed' \subseteq Keys /\ metaTorn' \in BOOLEAN /\ acked' \subseteq files
    BY <1>4, <2>7 DEF OpenMeta
  <2> HIDE DEF KeysInv, KeysTypeOK
  <2> QED
    BY <2>1, <2>3, <2>4, <2>5, <2>6, <2>7, <2>8, KeyStepKeeps
<1>5. ASSUME NEW r \in Uploads, FillMeta(r) PROVE KeysInv'
  <2>1. req[r] # NoUpload /\ req[r].do # "none" /\ req[r].rows \subseteq Keys
    BY <1>5 DEF FillMeta, NoUpload
  <2>2. req' = [req EXCEPT ![r] = req'[r]] /\ req'[r] = NoUpload
    BY <1>5 DEF FillMeta
  <2>3. ~disturbed => req[r].rows = files
    BY <1>5 DEF FillMeta, UploadKnows
  <2>4. acked' \subseteq files
    BY <1>5 DEF FillMeta
  <2> QED
    BY <1>5, <2>1, <2>2, <2>3, <2>4, KeyStepKeeps DEF FillMeta, NoUpload
<1>6. CASE KeysCrash
  BY <1>6 DEF KeysCrash
<1>7. CASE UNCHANGED keyVars
  BY <1>7 DEF keyVars, OneUpload, UploadKnows, ListIsRight, NewRows
<1> QED
  BY <1>1, <1>2, <1>3, <1>4, <1>5, <1>6, <1>7 DEF KeysNext

\* For any keys and requests: a key that was acknowledged keeps its file, and
\* between requests the list is that of the files unless two requests
\* overlapped or a crash cut one short.
THEOREM KeysAreAlwaysListed == Spec => []KeysAreListed
<1>1. Init => KeysInv
  BY KeysStart DEF Init
<1>2. KeysInv /\ [Next]_vars => KeysInv'
  BY KeysStepKeeps DEF Next, vars
<1>3. KeysInv => KeysAreListed
  BY DEF KeysInv, KeysAreListed, Busy, ListIsRight
<1> QED
  BY <1>1, <1>2, <1>3, PTL DEF Spec

-----------------------------------------------------------------------------
(* One configuration file and its backup.                                  *)

ConfigTypeOK ==
    /\ text \in Nat /\ torn \in BOOLEAN /\ writes \in Nat
    /\ writer \in [Writers -> [pc : {"idle", "check", "copy", "write"}, text : Nat, backup : BOOLEAN]]

OneWriter == \A v, w \in Writers : writer[v].pc # "idle" /\ writer[w].pc # "idle" => v = w

\* As long as nothing is spoiled, there is at most the first text in the backup,
\* it is there when the file differs, and a writer knows whether it is.
BackupIsFirst ==
    /\ backup \subseteq {0} /\ shown.backup \subseteq {0}
    /\ text # 0 \/ torn => backup = {0}

WriterKnows ==
    \A w \in Writers :
        /\ writer[w].pc = "copy" => backup = {}
        /\ writer[w].pc = "write" => backup = {0}

ConfigInv ==
    /\ ConfigTypeOK
    /\ spoiled = {} => OneWriter /\ BackupIsFirst /\ WriterKnows

LEMMA ConfigStarts == ConfigInit => ConfigInv
<1> SUFFICES ASSUME ConfigInit PROVE ConfigInv
  OBVIOUS
<1>1. \A w \in Writers : writer[w].pc = "idle"
  BY DEF ConfigInit, NoWrite
<1>2. ConfigTypeOK
  BY DEF ConfigInit, ConfigTypeOK, NoWrite
<1> QED
  BY <1>1, <1>2 DEF ConfigInit, ConfigInv, OneWriter, BackupIsFirst, WriterKnows

LEMMA BeginWriteKeeps ==
  ASSUME ConfigInv, NEW w \in Writers, NEW b \in BOOLEAN, BeginWrite(w, b)
  PROVE  ConfigInv'
<1> DEFINE pc == IF b THEN "check" ELSE "write"
<1>1. writer' = [writer EXCEPT ![w] = [pc |-> pc, text |-> writes + 1, backup |-> b]]
  BY DEF BeginWrite
<1>2. ConfigTypeOK'
  <2>1. writes + 1 \in Nat
    BY DEF ConfigInv, ConfigTypeOK
  <2>2. [pc |-> pc, text |-> writes + 1, backup |-> b]
            \in [pc : {"idle", "check", "copy", "write"}, text : Nat, backup : BOOLEAN]
    BY <2>1
  <2> HIDE DEF pc
  <2> QED
    BY <1>1, <2>1, <2>2 DEF BeginWrite, ConfigInv, ConfigTypeOK
<1>3. ASSUME spoiled' = {} PROVE OneWriter' /\ BackupIsFirst' /\ WriterKnows'
  <2>1. spoiled = {} /\ Writing = {} /\ (b \/ backup # {})
    BY <1>3 DEF BeginWrite
  <2>2. BackupIsFirst'
    BY <2>1 DEF BeginWrite, ConfigInv, BackupIsFirst
  <2>3. \A v \in Writers : v # w => writer'[v].pc = "idle"
    BY <2>1, <1>1 DEF ConfigInv, ConfigTypeOK, Writing
  <2>4. writer'[w].pc = pc
    BY <1>1 DEF ConfigInv, ConfigTypeOK
  <2>5. backup' = backup /\ backup \subseteq {0}
    BY <2>1 DEF BeginWrite, ConfigInv, BackupIsFirst
  <2>6. OneWriter'
    BY <2>3 DEF OneWriter
  <2>7. WriterKnows'
    BY <2>1, <2>3, <2>4, <2>5 DEF WriterKnows
  <2> QED
    BY <2>2, <2>6, <2>7
<1> QED
  BY <1>2, <1>3 DEF ConfigInv

\* A step of a writer under way from one command to the next.
LEMMA GoesKeeps ==
  ASSUME ConfigInv, NEW w \in Writers, writer[w].pc # "idle",
         NEW pc \in {"idle", "check", "copy", "write"}, Goes(w, pc),
         text' \in Nat, torn' \in BOOLEAN, spoiled \subseteq spoiled',
         spoiled' = {} =>
             /\ backup' \subseteq {0} /\ (text' # 0 \/ torn' => backup' = {0})
             /\ pc = "copy" => backup' = {}
             /\ pc = "write" => backup' = {0}
  PROVE  ConfigInv'
<1>1. writer' = [writer EXCEPT ![w].pc = pc] /\ shown' = shown /\ writes' = writes
  BY DEF Goes
<1>2. writer'[w].pc = pc /\ \A v \in Writers : v # w => writer'[v] = writer[v]
  BY <1>1 DEF ConfigInv, ConfigTypeOK
<1>3. ConfigTypeOK'
  BY <1>1 DEF ConfigInv, ConfigTypeOK
<1>4. ASSUME spoiled' = {} PROVE OneWriter' /\ BackupIsFirst' /\ WriterKnows'
  <2>1. \A v \in Writers : v # w => writer'[v].pc = "idle"
    BY <1>2, <1>4 DEF ConfigInv, OneWriter
  <2>2. BackupIsFirst'
    BY <1>1, <1>4 DEF ConfigInv, BackupIsFirst
  <2> QED
    BY <2>1, <2>2, <1>2, <1>4 DEF OneWriter, WriterKnows
<1> QED
  BY <1>3, <1>4 DEF ConfigInv

LEMMA ConfigStep == ConfigInv /\ [ConfigNext]_configVars => ConfigInv'
<1> SUFFICES ASSUME ConfigInv, [ConfigNext]_configVars PROVE ConfigInv'
  OBVIOUS
<1>0. text \in Nat /\ torn \in BOOLEAN
  BY DEF ConfigInv, ConfigTypeOK
<1>a. spoiled = {} => BackupIsFirst /\ WriterKnows
  BY DEF ConfigInv
<1>1. ASSUME NEW w \in Writers, CheckBackup(w) PROVE ConfigInv'
  BY <1>0, <1>1, <1>a, GoesKeeps DEF CheckBackup, BackupIsFirst
<1>2. ASSUME NEW w \in Writers, CheckTimesOut(w) PROVE ConfigInv'
  BY <1>0, <1>2, GoesKeeps DEF CheckTimesOut, Slip
<1>3. ASSUME NEW w \in Writers, CopyToBackup(w) PROVE ConfigInv'
  <2>1. spoiled' = {} => text = 0 /\ ~torn
    BY <1>0, <1>3, <1>a DEF CopyToBackup, BackupIsFirst, WriterKnows
  <2> QED
    BY <1>0, <1>3, <2>1, GoesKeeps DEF CopyToBackup
<1>4. ASSUME NEW w \in Writers, CopyFails(w) PROVE ConfigInv'
  BY <1>0, <1>4, GoesKeeps DEF CopyFails, Slip
<1>5. ASSUME NEW w \in Writers, WriteText(w) PROVE ConfigInv'
  <2>1. writer[w].text \in Nat
    BY DEF ConfigInv, ConfigTypeOK
  <2>2. spoiled' = {} => backup = {0}
    BY <1>5, <1>a DEF WriteText, WriterKnows
  <2> QED
    BY <1>5, <2>1, <2>2, GoesKeeps DEF WriteText
<1>6. ASSUME NEW w \in Writers, WriteIsCut(w) PROVE ConfigInv'
  <2>1. spoiled' = spoiled /\ text' = text /\ backup' = backup /\ torn' \in BOOLEAN
    BY <1>0, <1>6 DEF WriteIsCut, Slip
  <2>2. spoiled = {} => backup \subseteq {0} /\ (text # 0 \/ torn' => backup = {0})
    BY <1>6, <1>a DEF WriteIsCut, BackupIsFirst, WriterKnows
  <2> QED
    BY <1>0, <1>6, <2>1, <2>2, GoesKeeps DEF WriteIsCut
<1>7. CASE ReadCurrent
  BY <1>7 DEF ReadCurrent, ConfigInv, ConfigTypeOK, OneWriter, BackupIsFirst, WriterKnows
<1>8. CASE ReadBackup
  BY <1>8 DEF ReadBackup, ConfigInv, ConfigTypeOK, OneWriter, BackupIsFirst, WriterKnows
<1>9. CASE UNCHANGED configVars
  BY <1>9 DEF configVars, ConfigInv, ConfigTypeOK, OneWriter, BackupIsFirst, WriterKnows
<1> QED
  BY <1>1, <1>2, <1>3, <1>4, <1>5, <1>6, <1>7, <1>8, <1>9, BeginWriteKeeps DEF ConfigNext

\* For any number of writers, writes and mishaps: the backup holds the text from
\* before the first write unless one of the named events spoiled it.
THEOREM BackupIsAlwaysTheFirstText == Spec => []BackupIsTheFirstText
<1>1. Init => ConfigInv
  BY ConfigStarts DEF Init
<1>2. ConfigInv /\ [Next]_vars => ConfigInv'
  BY ConfigStep DEF Next, vars
<1>3. ConfigInv => BackupIsTheFirstText
  BY DEF ConfigInv, BackupIsTheFirstText, BackupIsFirst
<1> QED
  BY <1>1, <1>2, <1>3, PTL DEF Spec

-----------------------------------------------------------------------------
(* The two editors.                                                        *)

EditorTypeOK ==
    /\ page \in {"playbooks", "configs"} /\ crossed \in BOOLEAN /\ acts \in Nat
    /\ editor \in [open : Docs \cup {NoDoc}, text : Docs \cup {NoDoc}, creating : BOOLEAN]
    /\ stored \in [Docs -> Docs \cup {NoDoc}]
    /\ reads \subseteq [n : Nat, of : Docs]
    /\ puts \subseteq [n : Nat, do : {"save", "restore"}, of : Docs \cup {NoDoc},
                       text : Docs \cup {NoDoc}, done : BOOLEAN]
    /\ \A w \in puts : w.do = "restore" => w.of # NoDoc
    /\ page = "configs" => ~editor.creating

OneSave == \A w, x \in puts : w.do = "save" /\ x.do = "save" => w = x

\* What is open and the text in the editor belong together ...
TextIsOfOpen == editor.open # NoDoc => editor.text = editor.open

CreatingIsAlone == editor.creating => editor.open = NoDoc /\ reads = {}

\* ... and stay so until the answer to a write, which opens its document again.
WritesAgree ==
    \A w \in puts :
        /\ w.of = NoDoc => editor.creating
        /\ w.of # NoDoc => /\ w.text = w.of /\ ~editor.creating
                           /\ editor.open = w.of
                           /\ \A r \in reads : r.of = w.of

EditorInv ==
    /\ EditorTypeOK /\ OneSave
    /\ ~crossed => /\ \A d \in Docs : stored[d] = d
                   /\ TextIsOfOpen /\ CreatingIsAlone /\ WritesAgree

LEMMA EditorStarts == EditorInit => EditorInv
<1> SUFFICES ASSUME EditorInit PROVE EditorInv
  OBVIOUS
<1>1. FALSE \in BOOLEAN
  OBVIOUS
<1> QED
  BY <1>1 DEF EditorInit, EditorInv, EditorTypeOK, OneSave, TextIsOfOpen, CreatingIsAlone, WritesAgree

LEMMA EditorStep == EditorInv /\ [EditorNext]_editorVars => EditorInv'
<1> SUFFICES ASSUME EditorInv, [EditorNext]_editorVars PROVE EditorInv'
  OBVIOUS
<1> USE DEF EditorInv, EditorTypeOK, OneSave, TextIsOfOpen, CreatingIsAlone, WritesAgree
<1>1. ASSUME NEW d \in Docs, OpenDoc(d) PROVE EditorInv'
  <2>1. EditorTypeOK' /\ OneSave'
    <3>1. acts \in Nat /\ acts' \in Nat /\ crossed' \in BOOLEAN
      BY <1>1 DEF OpenDoc, Act, Crossing
    <3>2. reads' \subseteq [n : Nat, of : Docs]
      BY <1>1, <3>1 DEF OpenDoc
    <3>3. /\ editor' \in [open : Docs \cup {NoDoc}, text : Docs \cup {NoDoc}, creating : BOOLEAN]
          /\ page = "configs" => ~editor'.creating
      BY <1>1 DEF OpenDoc
    <3>4. puts' = puts /\ stored' = stored /\ page' = page
      BY <1>1 DEF OpenDoc
    <3> QED
      BY <3>1, <3>2, <3>3, <3>4
  <2>2. ~crossed' => ~crossed /\ puts = {} /\ puts' = {} /\ stored' = stored
    BY <1>1 DEF OpenDoc, Crossing
  <2>3. ~editor'.creating
    BY <1>1 DEF OpenDoc
  <2>4. ~crossed' => TextIsOfOpen'
    BY <1>1, <2>2 DEF OpenDoc
  <2> QED
    BY <2>1, <2>2, <2>3, <2>4
<1>2. ASSUME NEW r \in reads, ReadArrives(r) PROVE EditorInv'
  BY <1>2 DEF ReadArrives
<1>3. ASSUME NEW r \in reads, ReadFails(r) PROVE EditorInv'
  BY <1>3 DEF ReadFails
<1>4. CASE NewText
  <2>1. acts' \in Nat /\ crossed' \in BOOLEAN
    BY <1>4 DEF NewText, Act, Crossing
  <2>2. /\ editor' = [open |-> NoDoc, text |-> NoDoc, creating |-> TRUE]
        /\ UNCHANGED <<page, reads, puts, stored>> /\ page = "playbooks"
    BY <1>4 DEF NewText
  <2>3. ~crossed' => ~crossed /\ reads = {} /\ puts = {}
    BY <1>4 DEF NewText, Crossing
  <2>4. EditorTypeOK'
    BY <2>1, <2>2
  <2> QED
    BY <2>2, <2>3, <2>4
<1>5. CASE SaveText
  <2> DEFINE of == IF editor.creating THEN NoDoc ELSE editor.open
             w  == [n |-> acts, do |-> "save", of |-> of, text |-> editor.text, done |-> FALSE]
  <2>1. puts' = puts \cup {w} /\ UNCHANGED <<page, editor, reads, stored>>
    BY <1>5 DEF SaveText
  <2>2. EditorTypeOK'
    <3>1. w \in [n : Nat, do : {"save", "restore"}, of : Docs \cup {NoDoc},
                 text : Docs \cup {NoDoc}, done : BOOLEAN]
      OBVIOUS
    <3>2. w.do = "save"
      OBVIOUS
    <3>3. acts' \in Nat /\ crossed' \in BOOLEAN
      BY <1>5 DEF SaveText, Act, Crossing
    <3> HIDE DEF w
    <3> QED
      BY <2>1, <3>1, <3>2, <3>3
  <2>3. OneSave'
    BY <1>5, <2>1 DEF SaveText
  <2>4. ASSUME ~crossed' PROVE WritesAgree' /\ TextIsOfOpen' /\ CreatingIsAlone' /\ ~crossed
    <3>1. ~crossed
      BY <1>5, <2>4 DEF SaveText, Crossing
    <3>2. w.of = of /\ w.text = editor.text
      OBVIOUS
    <3>3. of = NoDoc <=> editor.creating
      BY <1>5 DEF SaveText
    <3>4. of # NoDoc => editor.open = of /\ editor.text = of /\ \A r \in reads : r.of = of
      BY <1>5, <2>4, <3>1, <3>3 DEF SaveText, Crossing
    <3> HIDE DEF w, of
    <3> QED
      BY <2>1, <3>1, <3>2, <3>3, <3>4
  <2> QED
    BY <2>1, <2>2, <2>3, <2>4
<1>6. CASE RestoreText
  <2> DEFINE w == [n |-> acts, do |-> "restore", of |-> editor.open, text |-> editor.open, done |-> FALSE]
  <2>1. puts' = puts \cup {w} /\ UNCHANGED <<page, editor, reads, stored>>
    BY <1>6 DEF RestoreText
  <2>2. w.do = "restore" /\ w.of = editor.open /\ w.text = editor.open /\ editor.open # NoDoc
    BY <1>6 DEF RestoreText
  <2>3. EditorTypeOK'
    <3>1. w \in [n : Nat, do : {"save", "restore"}, of : Docs \cup {NoDoc},
                 text : Docs \cup {NoDoc}, done : BOOLEAN]
      OBVIOUS
    <3>2. acts' \in Nat /\ crossed' \in BOOLEAN
      BY <1>6 DEF RestoreText, Act, Crossing
    <3> HIDE DEF w
    <3> QED
      BY <2>1, <2>2, <3>1, <3>2
  <2>4. ~crossed' => ~crossed /\ reads = {} /\ puts = {}
    BY <1>6 DEF RestoreText, Crossing
  <2> HIDE DEF w
  <2> QED
    BY <2>1, <2>2, <2>3, <2>4
<1>7. ASSUME NEW w \in puts, WriteIsDone(w) PROVE EditorInv'
  BY <1>7 DEF WriteIsDone
<1>8. ASSUME NEW w \in puts, WriteAnswered(w) PROVE EditorInv'
  BY <1>8 DEF WriteAnswered
<1>9. ASSUME NEW w \in puts, WriteFails(w) PROVE EditorInv'
  BY <1>9 DEF WriteFails
<1>10. CASE UNCHANGED editorVars
  BY <1>10 DEF editorVars
<1> QED
  BY <1>1, <1>2, <1>3, <1>4, <1>5, <1>6, <1>7, <1>8, <1>9, <1>10 DEF EditorNext

\* For any documents and any number of requests: a text is stored under the name
\* it was opened from unless something was opened while a request was under way.
THEOREM TextsAlwaysStayUnderTheirName == Spec => []TextsStayUnderTheirName
<1>1. Init => EditorInv
  BY EditorStarts DEF Init
<1>2. EditorInv /\ [Next]_vars => EditorInv'
  BY EditorStep DEF Next, vars
<1>3. EditorInv => TextsStayUnderTheirName
  BY DEF EditorInv, EditorTypeOK, TextsStayUnderTheirName
<1> QED
  BY <1>1, <1>2, <1>3, PTL DEF Spec

-----------------------------------------------------------------------------
(* The versions of a playbook.                                             *)

Versions == [version : Nat, text : Texts]

HistoryTypeOK ==
    /\ saved \in Seq(Texts)
    /\ opened \in [Tabs -> Nat]
    /\ book \in [there : BOOLEAN, version : Nat, text : SUBSET Texts,
                 rows : Seq(Versions)]

\* The rows are the last versions, one after the other, and no fewer than Cap
\* if there ever were so many; a restore makes them more.
RowsAreLast(rows, texts) ==
    /\ Len(rows) <= Len(texts)
    /\ Len(rows) >= Cap \/ Len(rows) = Len(texts)
    /\ \A i \in 1..Len(rows) :
           LET v == Len(texts) - Len(rows) + i IN rows[i] = Row(v, texts[v])

HistoryInv ==
    /\ HistoryTypeOK
    /\ book.version = Len(saved)
    /\ RowsAreLast(book.rows, saved)
    /\ book.there => saved # <<>> /\ book.text = {saved[Len(saved)]}

LEMMA HistoryStarts == HistoryInit => HistoryInv
<1> SUFFICES ASSUME HistoryInit PROVE HistoryInv
  OBVIOUS
<1>1. book.rows = <<>> /\ saved = <<>> /\ book.version = 0 /\ ~book.there
  BY DEF HistoryInit
<1>2. HistoryTypeOK
  BY DEF HistoryInit, HistoryTypeOK
<1>3. RowsAreLast(book.rows, saved)
  BY <1>1 DEF RowsAreLast
<1> QED
  BY <1>1, <1>2, <1>3 DEF HistoryInv

\* A new version at the end keeps the rows consecutive.
LEMMA AppendIsLast ==
  ASSUME NEW rows \in Seq(Versions), NEW texts \in Seq(Texts), NEW t \in Texts,
         RowsAreLast(rows, texts)
  PROVE  /\ Append(rows, Row(Len(texts) + 1, t)) \in Seq(Versions)
         /\ RowsAreLast(Append(rows, Row(Len(texts) + 1, t)), Append(texts, t))
<1> DEFINE r == Row(Len(texts) + 1, t)
           new == Append(rows, r)
           all == Append(texts, t)
<1>1. r \in Versions
  BY DEF Row, Versions
<1> HIDE DEF r
<1>2. /\ new \in Seq(Versions) /\ Len(new) = Len(rows) + 1
      /\ \A i \in 1..Len(rows) : new[i] = rows[i]
      /\ new[Len(rows) + 1] = r
  BY <1>1
<1>3. /\ Len(all) = Len(texts) + 1 /\ \A v \in 1..Len(texts) : all[v] = texts[v]
      /\ all[Len(texts) + 1] = t
  OBVIOUS
<1>4. Len(rows) \in Nat /\ Len(texts) \in Nat /\ Cap \in Nat
  BY HistoryAssumption
<1> HIDE DEF new, all
<1>5. Len(new) <= Len(all) /\ (Len(new) >= Cap \/ Len(new) = Len(all))
  BY <1>2, <1>3, <1>4 DEF RowsAreLast
<1>6. ASSUME NEW i \in 1..Len(new)
      PROVE  new[i] = Row(Len(all) - Len(new) + i, all[Len(all) - Len(new) + i])
  <2>1. CASE i = Len(rows) + 1
    <3>1. Len(all) - Len(new) + i = Len(texts) + 1
      BY <2>1, <1>2, <1>3, <1>4
    <3> QED
      BY <2>1, <3>1, <1>2, <1>3 DEF r
  <2>2. CASE i # Len(rows) + 1
    <3> DEFINE v == Len(texts) - Len(rows) + i
    <3>1. i \in 1..Len(rows) /\ v \in 1..Len(texts) /\ Len(all) - Len(new) + i = v
      BY <2>2, <1>2, <1>3, <1>4 DEF RowsAreLast
    <3>2. rows[i] = Row(v, texts[v])
      BY <3>1 DEF RowsAreLast
    <3> QED
      BY <3>1, <3>2, <1>2, <1>3
  <2> QED
    BY <2>1, <2>2
<1> QED
  BY <1>2, <1>5, <1>6 DEF new, all, r, RowsAreLast

\* What KeepLast cuts off are the oldest.
LEMMA CutIsLast ==
  ASSUME NEW rows \in Seq(Versions), NEW texts \in Seq(Texts),
         RowsAreLast(rows, texts)
  PROVE  /\ KeepLast(rows) \in Seq(Versions)
         /\ RowsAreLast(KeepLast(rows), texts)
<1>1. Len(rows) \in Nat /\ Len(texts) \in Nat /\ Cap \in Nat \ {0}
  BY HistoryAssumption
<1>2. CASE Len(rows) <= Cap
  BY <1>1, <1>2 DEF KeepLast
<1>3. CASE Len(rows) > Cap
  <2> DEFINE cut == Len(rows) - Cap
             kept == SubSeq(rows, cut + 1, Len(rows))
  <2>1. /\ cut \in Nat /\ cut + 1 \in 1..Len(rows) /\ Len(rows) - (cut + 1) + 1 = Cap
        /\ \A i \in 1..Cap : (cut + 1) + i - 1 = cut + i
    BY <1>1, <1>3
  <2>2. \A i \in (cut + 1)..Len(rows) : rows[i] \in Versions
    BY <2>1, ElementOfSeq
  <2>3. /\ kept \in Seq(Versions)
        /\ Len(kept) = Cap /\ \A i \in 1..Cap : kept[i] = rows[cut + i]
    <3> HIDE DEF cut
    <3>1. cut + 1 \in Int /\ Len(rows) \in Int /\ cut + 1 <= Len(rows)
      BY <1>1, <2>1
    <3> QED
      BY <2>1, <2>2, <3>1, SubSeqProperties
  <2>4. KeepLast(rows) = kept
    BY <1>3 DEF KeepLast
  <2> HIDE DEF kept
  <2>5. ASSUME NEW i \in 1..Len(kept)
        PROVE  kept[i] = Row(Len(texts) - Len(kept) + i, texts[Len(texts) - Len(kept) + i])
    <3>1. cut + i \in 1..Len(rows) /\ Len(texts) - Len(rows) + (cut + i) = Len(texts) - Len(kept) + i
      BY <1>1, <1>3, <2>3
    <3>2. kept[i] = rows[cut + i]
      BY <2>3
    <3>3. rows[cut + i] = Row(Len(texts) - Len(rows) + (cut + i), texts[Len(texts) - Len(rows) + (cut + i)])
      BY <3>1 DEF RowsAreLast
    <3> HIDE DEF cut
    <3> QED
      BY <3>1, <3>2, <3>3
  <2> QED
    <3>1. Len(kept) <= Len(texts) /\ Len(kept) >= Cap
      BY <1>1, <1>3, <2>3 DEF RowsAreLast
    <3>2. RowsAreLast(kept, texts)
      BY <2>5, <3>1 DEF RowsAreLast
    <3> QED
      BY <2>3, <2>4, <3>2
<1> QED
  BY <1>1, <1>2, <1>3

LEMMA HistoryStep == HistoryInv /\ [HistoryNext]_historyVars => HistoryInv'
<1> SUFFICES ASSUME HistoryInv, [HistoryNext]_historyVars PROVE HistoryInv'
  OBVIOUS
<1>0. /\ saved \in Seq(Texts) /\ book.rows \in Seq(Versions)
      /\ RowsAreLast(book.rows, saved) /\ book.version = Len(saved) /\ Len(saved) \in Nat
  BY DEF HistoryInv, HistoryTypeOK
<1>1. ASSUME NEW t \in Texts, CreateBook(t) PROVE HistoryInv'
  <2>1. <<Row(1, t)>> \in Seq(Versions) /\ <<t>> \in Seq(Texts)
    BY DEF Row, Versions
  <2>2. book' = [there |-> TRUE, version |-> 1, text |-> {t}, rows |-> <<Row(1, t)>>]
        /\ saved' = <<t>> /\ opened' = opened
    BY <1>1 DEF CreateBook
  <2>3. HistoryTypeOK'
    BY <2>1, <2>2 DEF HistoryInv, HistoryTypeOK
  <2>4. RowsAreLast(<<Row(1, t)>>, <<t>>)
    BY DEF RowsAreLast, Row
  <2> QED
    BY <2>2, <2>3, <2>4 DEF HistoryInv
<1>2. ASSUME NEW t \in Texts, NEW rows \in Seq(Versions),
             AppendVersion(t, rows), RowsAreLast(rows, Append(saved, t)), book.there,
             opened' \in [Tabs -> Nat]
      PROVE  HistoryInv'
  <2>0. book \in [there : BOOLEAN, version : Nat, text : SUBSET Texts, rows : Seq(Versions)]
    BY DEF HistoryInv, HistoryTypeOK
  <2>a. book' = [book EXCEPT !.version = book.version + 1, !.text = {t}, !.rows = rows]
    BY <1>2 DEF AppendVersion
  <2>1. book' = [there |-> TRUE, version |-> Len(saved) + 1, text |-> {t}, rows |-> rows]
    BY <1>0, <1>2, <2>0, <2>a
  <2>2. /\ saved' = Append(saved, t) /\ saved' \in Seq(Texts) /\ Len(saved') = Len(saved) + 1
        /\ saved'[Len(saved')] = t /\ saved' # <<>>
    <3>1. saved' = Append(saved, t)
      BY <1>2 DEF AppendVersion
    <3> QED
      BY <1>0, <3>1
  <2>3. HistoryTypeOK'
    BY <1>0, <1>2, <2>1, <2>2 DEF HistoryTypeOK
  <2> QED
    BY <1>2, <2>1, <2>2, <2>3 DEF HistoryInv
<1>3. ASSUME NEW x \in Tabs, NEW t \in Texts, SaveBook(x, t) PROVE HistoryInv'
  <2> DEFINE all == Append(book.rows, Row(Len(saved) + 1, t))
  <2>1. all \in Seq(Versions) /\ RowsAreLast(all, Append(saved, t))
    BY <1>0, AppendIsLast
  <2>2. Append(saved, t) \in Seq(Texts)
    BY <1>0
  <2> HIDE DEF all
  <2>3. KeepLast(all) \in Seq(Versions) /\ RowsAreLast(KeepLast(all), Append(saved, t))
    BY <2>1, <2>2, CutIsLast
  <2>4. AppendVersion(t, KeepLast(all)) /\ book.there
    BY <1>0, <1>3 DEF SaveBook, all
  <2>5. opened' \in [Tabs -> Nat]
    BY <1>0, <1>3 DEF SaveBook, HistoryInv, HistoryTypeOK
  <2> QED
    BY <1>2, <2>3, <2>4, <2>5
<1>4. ASSUME NEW v \in 1..MaxVersion, RestoreBook(v) PROVE HistoryInv'
  <2>1. PICK i \in DOMAIN book.rows :
            AppendVersion(book.rows[i].text, Append(book.rows, Row(book.version + 1, book.rows[i].text)))
    BY <1>4 DEF RestoreBook
  <2> DEFINE t == book.rows[i].text
  <2>2. t \in Texts
    <3>1. book.rows[i] \in Versions
      BY <1>0, ElementOfSeq
    <3> QED
      BY <3>1 DEF Versions
  <2> HIDE DEF t
  <2>3. /\ Append(book.rows, Row(Len(saved) + 1, t)) \in Seq(Versions)
        /\ RowsAreLast(Append(book.rows, Row(Len(saved) + 1, t)), Append(saved, t))
    BY <1>0, <2>2, AppendIsLast
  <2>4. AppendVersion(t, Append(book.rows, Row(Len(saved) + 1, t)))
    BY <1>0, <2>1 DEF t
  <2>5. book.there /\ opened' \in [Tabs -> Nat]
    BY <1>4 DEF RestoreBook, HistoryInv, HistoryTypeOK
  <2> QED
    BY <1>2, <2>2, <2>3, <2>4, <2>5
<1>5. ASSUME NEW x \in Tabs, OpenBook(x) PROVE HistoryInv'
  BY <1>5 DEF OpenBook, HistoryInv, HistoryTypeOK
<1>6. CASE DeleteBook
  <2>1. book' = [book EXCEPT !.there = FALSE] /\ opened' = opened /\ saved' = saved
    BY <1>6 DEF DeleteBook
  <2> QED
    BY <2>1 DEF HistoryInv, HistoryTypeOK
<1>7. CASE UNCHANGED historyVars
  BY <1>7 DEF historyVars, HistoryInv, HistoryTypeOK
<1> QED
  BY <1>1, <1>3, <1>4, <1>5, <1>6, <1>7 DEF HistoryNext

LEMMA LastTextsFollow == HistoryInv => LastTextsAreKept
<1> SUFFICES ASSUME HistoryInv PROVE LastTextsAreKept
  OBVIOUS
<1> DEFINE rows == book.rows
           Rows(v) == {i \in DOMAIN rows : rows[i].version = v}
           At(i) == Len(saved) - Len(rows) + i
<1>0. /\ rows \in Seq(Versions) /\ saved \in Seq(Texts)
      /\ book.version = Len(saved) /\ RowsAreLast(rows, saved)
      /\ Len(rows) \in Nat /\ Len(saved) \in Nat /\ DOMAIN rows = 1..Len(rows) /\ Cap \in Nat
  BY HistoryAssumption DEF HistoryInv, HistoryTypeOK
<1> HIDE DEF rows
<1>1. \A i \in 1..Len(rows) : rows[i].version = At(i) /\ rows[i].text = saved[At(i)]
  BY <1>0 DEF RowsAreLast, Row
<1>2. \A i \in DOMAIN rows : rows[i].text = saved[rows[i].version]
  BY <1>0, <1>1
<1>3. ASSUME NEW v \in 1..book.version, v + Cap > book.version
      PROVE  \E i \in Rows(v) : Rows(v) = {i}
  <2> DEFINE i == v - Len(saved) + Len(rows)
  <2>1. i \in 1..Len(rows) /\ At(i) = v
    BY <1>0, <1>3 DEF RowsAreLast
  <2>2. \A k \in 1..Len(rows) : At(k) = v => k = i
    BY <1>0, <1>3
  <2>3. i \in Rows(v) /\ \A k \in Rows(v) : k = i
    BY <1>0, <1>1, <2>1, <2>2
  <2> HIDE DEF i
  <2> QED
    BY <2>3
<1>4. book.there => book.text = {saved[book.version]}
  BY <1>0 DEF HistoryInv
<1> QED
  BY <1>2, <1>3, <1>4 DEF LastTextsAreKept, rows

\* For any texts, editors and cap: the last Cap texts can be had back, each once
\* and under its version, whatever is saved, restored and saved over.
THEOREM LastTextsAreAlwaysKept == Spec => []LastTextsAreKept
<1>1. Init => HistoryInv
  BY HistoryStarts DEF Init
<1>2. HistoryInv /\ [Next]_vars => HistoryInv'
  BY HistoryStep DEF Next, vars
<1> QED
  BY <1>1, <1>2, LastTextsFollow, PTL DEF Spec

-----------------------------------------------------------------------------
(* The frame of the page.                                                  *)

Inboxes == [shown : SUBSET Letters, unread : SUBSET Letters, count : Nat]

Calls == [n : Nat, do : {"load", "read", "delete"}, letter : Letters,
          list : SUBSET Letters, unread : SUBSET Letters, done : BOOLEAN]

ShellTypeOK ==
    /\ turns \in Nat /\ hurried \in BOOLEAN
    /\ box \in [Letters -> {"unread", "read", "gone"}]
    /\ inbox \in Inboxes
    /\ calls \subseteq Calls
    /\ listLoads \subseteq [n : Nat, of : Users]

\* Who does not hurry has one request under way, made by who is signed in.
OneCall ==
    /\ \A c, d \in calls : c = d
    /\ \A c \in calls : c.do = "read" => c.letter \in inbox.unread
    /\ \A r \in listLoads : signed = r.of
    /\ signed # NoUser => lists = signed \/ listLoads # {}

CountIsRight == inbox.count = Cardinality(inbox.unread)

ShellInv == ShellTypeOK /\ (~hurried => OneCall /\ CountIsRight)

LEMMA ShellStarts == ShellInit => ShellInv
<1> SUFFICES ASSUME ShellInit PROVE ShellInv
  OBVIOUS
<1>1. inbox = [shown |-> {}, unread |-> {}, count |-> 0]
  BY DEF ShellInit, EmptyInbox
<1>2. CountIsRight
  BY <1>1, FS_EmptySet DEF CountIsRight
<1>3. ShellTypeOK
  <2>1. FALSE \in BOOLEAN /\ inbox \in Inboxes
    BY <1>1 DEF Inboxes
  <2> QED
    BY <2>1 DEF ShellInit, ShellTypeOK
<1> QED
  BY <1>2, <1>3 DEF ShellInit, ShellInv, OneCall

LEMMA FirstLetter == (CHOOSE l \in Letters : TRUE) \in Letters
  BY ShellAssumption

\* A request that is begun leaves the inbox as it is.
LEMMA CallKeeps ==
  ASSUME ShellInv, NEW do \in {"load", "read", "delete"}, NEW l \in Letters,
         Turn, Hurry, Call(do, l), UNCHANGED <<box, inbox, lists>>,
         do = "read" => l \in inbox.unread,
         listLoads' \subseteq [n : Nat, of : Users],
         ~hurried' => /\ \A r \in listLoads' : signed' = r.of
                      /\ signed' # NoUser => lists = signed' \/ listLoads' # {}
  PROVE  ShellInv'
<1> DEFINE c == [n |-> turns, do |-> do, letter |-> l, list |-> {}, unread |-> {}, done |-> FALSE]
<1>1. c \in Calls /\ c.do = do /\ c.letter = l
  BY DEF ShellInv, ShellTypeOK, Calls
<1>2. calls' = calls \cup {c}
  BY DEF Call
<1> HIDE DEF c
<1>3. turns' \in Nat /\ hurried' \in BOOLEAN
  BY DEF Turn, Hurry, ShellInv, ShellTypeOK
<1>4. ShellTypeOK'
  BY <1>1, <1>2, <1>3 DEF ShellInv, ShellTypeOK
<1>5. ASSUME ~hurried' PROVE OneCall' /\ CountIsRight'
  <2>1. ~hurried /\ calls = {} /\ listLoads = {}
    BY <1>5 DEF Hurry
  <2>2. CountIsRight'
    BY <2>1 DEF ShellInv, CountIsRight
  <2>3. OneCall'
    BY <1>1, <1>2, <1>5, <2>1 DEF OneCall
  <2> QED
    BY <2>2, <2>3
<1> QED
  BY <1>4, <1>5 DEF ShellInv

\* One unread letter less is one less in the count.
LEMMA OneLess ==
  ASSUME ShellTypeOK, CountIsRight, NEW l \in inbox.unread
  PROVE  Less(inbox.count) = Cardinality(inbox.unread \ {l})
<1>1. inbox.unread \subseteq Letters /\ IsFiniteSet(inbox.unread)
  BY ShellAssumption, FS_Subset DEF ShellTypeOK, Inboxes
<1>2. /\ Cardinality(inbox.unread \ {l}) = Cardinality(inbox.unread) - 1
      /\ Cardinality(inbox.unread \ {l}) \in Nat /\ Cardinality(inbox.unread) \in Nat
  BY <1>1, FS_RemoveElement, FS_CardinalityType
<1> QED
  BY <1>2 DEF CountIsRight, Less

LEMMA AnswerKeeps ==
  ASSUME ShellInv, NEW c \in calls, InboxAnswered(c)
  PROVE  ShellInv'
<1>1. /\ calls' = calls \ {c} /\ UNCHANGED <<signed, lists, listLoads, box, turns, hurried>>
      /\ c \in Calls
  BY DEF InboxAnswered, ShellInv, ShellTypeOK
<1>2. CASE c.do = "load"
  <2>1. inbox' = [shown |-> c.list, unread |-> c.unread, count |-> Cardinality(c.unread)]
    BY <1>2 DEF InboxAnswered
  <2>2. Cardinality(c.unread) \in Nat
    BY <1>1, ShellAssumption, FS_Subset, FS_CardinalityType DEF Calls
  <2>3. ShellTypeOK'
    BY <1>1, <2>1, <2>2 DEF ShellInv, ShellTypeOK, Inboxes, Calls
  <2>4. CountIsRight'
    BY <2>1 DEF CountIsRight
  <2>5. ~hurried => OneCall'
    BY <1>1 DEF ShellInv, OneCall
  <2> QED
    BY <1>1, <2>3, <2>4, <2>5 DEF ShellInv
<1>3. CASE c.do # "load"
  <2>1. /\ inbox'.unread = inbox.unread \ {c.letter}
        /\ inbox'.count \in {inbox.count, Less(inbox.count)}
        /\ c.letter \in inbox.unread => inbox'.count = Less(inbox.count)
        /\ c.letter \notin inbox.unread /\ c.do # "read" => inbox'.count = inbox.count
        /\ inbox'.shown \subseteq Letters
        /\ inbox' = [shown |-> inbox'.shown, unread |-> inbox'.unread, count |-> inbox'.count]
    BY <1>3 DEF InboxAnswered, AfterRead, AfterDelete, ShellInv, ShellTypeOK, Inboxes
  <2>2. inbox.count \in Nat /\ Less(inbox.count) \in Nat /\ inbox.unread \subseteq Letters
    BY DEF ShellInv, ShellTypeOK, Inboxes, Less
  <2>3. inbox' \in Inboxes
    BY <2>1, <2>2 DEF Inboxes
  <2>4. ShellTypeOK'
    BY <1>1, <2>3 DEF ShellInv, ShellTypeOK
  <2>5. ASSUME ~hurried PROVE OneCall' /\ CountIsRight'
    <3>1. OneCall'
      BY <1>1, <2>5 DEF ShellInv, OneCall
    <3>2. CASE c.letter \in inbox.unread
      <4>1. Less(inbox.count) = Cardinality(inbox.unread \ {c.letter})
        BY <2>5, <3>2, OneLess DEF ShellInv
      <4> QED
        BY <2>1, <3>1, <3>2, <4>1 DEF CountIsRight
    <3>3. CASE c.letter \notin inbox.unread
      <4>1. c.do # "read"
        BY <2>5, <3>3 DEF ShellInv, OneCall
      <4>2. inbox'.unread = inbox.unread /\ inbox'.count = inbox.count
        BY <2>1, <3>3, <4>1
      <4> QED
        BY <3>1, <4>2, <2>5 DEF ShellInv, CountIsRight
    <3> QED
      BY <3>1, <3>2, <3>3
  <2> QED
    BY <1>1, <2>4, <2>5 DEF ShellInv
<1> QED
  BY <1>2, <1>3

LEMMA ShellStep == ShellInv /\ [ShellNext]_shellVars => ShellInv'
<1> SUFFICES ASSUME ShellInv, [ShellNext]_shellVars PROVE ShellInv'
  OBVIOUS
<1>1. ASSUME NEW u \in Users, SignIn(u) PROVE ShellInv'
  <2>1. PICK l \in Letters : Call("load", l)
    BY <1>1, FirstLetter DEF SignIn
  <2>2. listLoads' = listLoads \cup {[n |-> turns, of |-> u]} /\ signed' = u /\ turns \in Nat
    BY <1>1 DEF SignIn, ShellInv, ShellTypeOK
  <2>3. ~hurried' => listLoads = {}
    BY <1>1 DEF SignIn, Hurry
  <2>4. listLoads' \subseteq [n : Nat, of : Users]
    BY <2>2 DEF ShellInv, ShellTypeOK
  <2>5. ~hurried' => (\A r \in listLoads' : signed' = r.of) /\ listLoads' # {}
    <3> DEFINE new == [n |-> turns, of |-> u]
    <3>1. new.of = u
      OBVIOUS
    <3>2. ~hurried' => listLoads' = {new}
      BY <2>2, <2>3
    <3> HIDE DEF new
    <3> QED
      BY <2>2, <3>1, <3>2
  <2>6. Turn /\ Hurry /\ UNCHANGED <<box, inbox, lists>>
    BY <1>1 DEF SignIn
  <2> QED
    BY <2>1, <2>4, <2>5, <2>6, CallKeeps
<1>2. ASSUME NEW do \in {"load", "read", "delete"}, NEW l \in Letters, Call(do, l), Turn, Hurry,
             do = "read" => l \in inbox.unread,
             UNCHANGED <<signed, lists, listLoads, box, inbox>>
      PROVE  ShellInv'
  BY <1>2, CallKeeps DEF ShellInv, ShellTypeOK, OneCall, Hurry
<1>3. CASE Reload
  <2>1. PICK l \in Letters : Call("load", l)
    BY <1>3, FirstLetter DEF Reload
  <2> QED
    BY <1>2, <1>3, <2>1 DEF Reload
<1>4. ASSUME NEW l \in Letters, NEW do \in {"read", "delete"}, AskInbox(do, l) PROVE ShellInv'
  BY <1>2, <1>4 DEF AskInbox
<1>5. CASE SignOut
  <2>1. inbox' = [shown |-> {}, unread |-> {}, count |-> 0] /\ signed' = NoUser
        /\ UNCHANGED <<lists, listLoads, box, calls, turns>>
    BY <1>5 DEF SignOut, EmptyInbox
  <2>2. hurried' \in BOOLEAN /\ (~hurried' => ~hurried /\ calls = {} /\ listLoads = {})
    BY <1>5 DEF SignOut, Hurry
  <2>3. CountIsRight'
    BY <2>1, FS_EmptySet DEF CountIsRight
  <2>4. ShellTypeOK'
    BY <2>1, <2>2 DEF ShellInv, ShellTypeOK, Inboxes
  <2> QED
    BY <2>1, <2>2, <2>3, <2>4 DEF ShellInv, OneCall
<1>6. ASSUME NEW r \in listLoads, ListsArrive(r) PROVE ShellInv'
  BY <1>6 DEF ListsArrive, ShellInv, ShellTypeOK, OneCall, CountIsRight
<1>7. ASSUME NEW l \in Letters, LetterComes(l) PROVE ShellInv'
  <2>1. hurried' \in BOOLEAN /\ (~hurried' => ~hurried) /\ box' = [box EXCEPT ![l] = "unread"]
        /\ UNCHANGED <<signed, lists, listLoads, inbox, calls, turns>>
    BY <1>7 DEF LetterComes
  <2> QED
    BY <2>1 DEF ShellInv, ShellTypeOK, OneCall, CountIsRight
<1>8. ASSUME NEW c \in calls, InboxServed(c) PROVE ShellInv'
  <2> DEFINE served == [c EXCEPT !.done = TRUE, !.list = InBox({"read", "unread"}), !.unread = InBox({"unread"})]
  <2>1. served \in Calls /\ served.do = c.do /\ served.letter = c.letter
    BY DEF ShellInv, ShellTypeOK, Calls, InBox
  <2>2. calls' = (calls \ {c}) \cup {served} /\ UNCHANGED <<signed, lists, listLoads, inbox, turns, hurried>>
    BY <1>8 DEF InboxServed
  <2>3. box' \in [Letters -> {"unread", "read", "gone"}]
    BY <1>8 DEF InboxServed, ShellInv, ShellTypeOK
  <2> HIDE DEF served
  <2>4. ShellTypeOK'
    BY <2>1, <2>2, <2>3 DEF ShellInv, ShellTypeOK
  <2>5. ~hurried => OneCall' /\ CountIsRight'
    BY <2>1, <2>2 DEF ShellInv, OneCall, CountIsRight
  <2> QED
    BY <2>2, <2>4, <2>5 DEF ShellInv
<1>9. ASSUME NEW c \in calls, InboxFails(c) PROVE ShellInv'
  BY <1>9 DEF InboxFails, ShellInv, ShellTypeOK, OneCall, CountIsRight
<1>10. CASE UNCHANGED shellVars
  BY <1>10 DEF shellVars, ShellInv, ShellTypeOK, OneCall, CountIsRight
<1> QED
  BY <1>1, <1>3, <1>4, <1>5, <1>6, <1>7, <1>8, <1>9, <1>10, AnswerKeeps DEF ShellNext

\* For any users and letters: what the page shows belongs to who is signed in,
\* and it counts the unread messages it shows, unless the user hurried.
THEOREM PageIsAlwaysInStep == Spec => []PageIsInStep
<1>1. Init => ShellInv
  BY ShellStarts DEF Init
<1>2. ShellInv /\ [Next]_vars => ShellInv'
  BY ShellStep DEF Next, vars
<1>3. ShellInv => PageIsInStep
  BY DEF ShellInv, OneCall, CountIsRight, PageIsInStep
<1> QED
  BY <1>1, <1>2, <1>3, PTL DEF Spec

-----------------------------------------------------------------------------
(* Configure and run.                                                      *)

Previews == [card : Cards \cup {NoCard}, of : Cards \cup {NoCard}, vars : Nat]
Panels == [card : Cards \cup {NoCard}, mount : Nat, vars : Nat, preview : Previews, busy : BOOLEAN]

Asks == [n : Nat, mount : Nat \ {0}, auto : BOOLEAN, what : Previews]

MarketTypeOK ==
    /\ clicks \in Nat /\ submitting \in BOOLEAN
    /\ panel \in Panels /\ cardForm \in Cards \cup {NoCard}
    /\ cardLoads \subseteq [n : Nat, card : Cards]
    /\ asked \subseteq Asks
    /\ started \in [ran : Previews, shown : Previews]
    /\ panel.card = NoCard <=> panel.mount = 0
    /\ panel.mount <= clicks /\ \A a \in asked : a.mount <= clicks

\* What a run of the panel would be started with now.
Now(p, of) == [card |-> p.card, of |-> of, vars |-> IF of = NoCard THEN 0 ELSE p.vars]

\* The form is that of the playbook, if it has one.
OwnForm(c) == IF c \in WithForm THEN c ELSE NoCard

\* One form is on its way, that of the panel, which has none until it comes.
OneForm ==
    /\ \A l, k \in cardLoads : l = k
    /\ cardLoads # {} => cardForm = NoCard
    /\ panel.card # NoCard => IF cardLoads = {} THEN cardForm = OwnForm(panel.card)
                              ELSE \A l \in cardLoads : l.card = panel.card

\* The panel asks for one preview at a time, and while it does nothing changes
\* what it asked for.
PreviewAgrees ==
    /\ \A a \in asked : a.mount = panel.mount =>
           /\ a.what = Now(panel, cardForm) /\ panel.busy
           /\ panel.preview = NoPreview
           /\ a.auto <=> cardForm = NoCard
           /\ \A b \in asked : b.mount = panel.mount => a = b
    /\ panel.preview # NoPreview => panel.preview = Now(panel, cardForm) /\ panel.card # NoCard

RunAgrees == started.ran = started.shown /\ started.ran.of = OwnForm(started.ran.card)

MarketInv ==
    /\ MarketTypeOK
    /\ unsettled = {} => OneForm /\ PreviewAgrees /\ RunAgrees

LEMMA MarketStarts == MarketInit => MarketInv
<1> SUFFICES ASSUME MarketInit PROVE MarketInv
  OBVIOUS
<1>1. NoPreview \in Previews /\ NoPreview.card = NoCard /\ NoPreview.of = NoCard
  BY DEF NoPreview, Previews
<1>2. Closed \in Panels /\ Closed.card = NoCard /\ Closed.mount = 0 /\ Closed.preview = NoPreview
  BY <1>1 DEF Closed, Panels
<1>3. NoRun \in [ran : Previews, shown : Previews] /\ NoRun.ran = NoPreview /\ NoRun.shown = NoPreview
  BY <1>1 DEF NoRun
<1>4. FALSE \in BOOLEAN
  OBVIOUS
<1>5. MarketTypeOK
  <2>1. panel \in Panels /\ panel.card = NoCard /\ panel.mount = 0
    BY <1>2 DEF MarketInit
  <2>2. started \in [ran : Previews, shown : Previews] /\ submitting \in BOOLEAN
    BY <1>3, <1>4 DEF MarketInit
  <2>3. clicks = 0 /\ cardForm = NoCard /\ cardLoads = {} /\ asked = {}
    BY DEF MarketInit
  <2> QED
    BY <2>1, <2>2, <2>3 DEF MarketTypeOK
<1>6. RunAgrees
  BY <1>1, <1>3, MarketAssumption DEF MarketInit, RunAgrees, OwnForm
<1> QED
  BY <1>2, <1>5, <1>6 DEF MarketInit, MarketInv, OneForm, PreviewAgrees

\* What is asked for is what a run would be started with.
LEMMA AskIsNow ==
  ASSUME NEW p \in Panels, p.mount # 0, NEW of \in Cards \cup {NoCard}, NEW auto \in BOOLEAN,
         MarketTypeOK
  PROVE  /\ PreviewOf(p, of, auto) \in Asks
         /\ PreviewOf(p, of, auto).what = Now(p, of)
         /\ PreviewOf(p, of, auto).mount = p.mount
         /\ PreviewOf(p, of, auto).auto = auto
         /\ Now(p, of) \in Previews
<1>1. Now(p, of) \in Previews
  BY DEF Now, Panels, Previews
<1>2. PreviewOf(p, of, auto) = [n |-> clicks, mount |-> p.mount, auto |-> auto, what |-> Now(p, of)]
  BY DEF PreviewOf, Now
<1>3. clicks \in Nat /\ p.mount \in Nat \ {0}
  BY DEF MarketTypeOK, Panels
<1> QED
  BY <1>1, <1>2, <1>3 DEF Asks

\* The panel closes.
LEMMA CloseKeeps ==
  ASSUME MarketInv, panel' = Closed, cardForm' \in {cardForm, NoCard},
         asked' = asked, clicks' = clicks, cardLoads' \subseteq cardLoads, submitting' \in BOOLEAN,
         UNCHANGED <<started, unsettled>>
  PROVE  MarketInv'
<1>1. NoPreview \in Previews
  BY DEF NoPreview, Previews
<1>2. Closed \in Panels /\ Closed.card = NoCard /\ Closed.mount = 0 /\ Closed.preview = NoPreview
  BY <1>1 DEF Closed, Panels
<1>3. MarketTypeOK'
  BY <1>2 DEF MarketInv, MarketTypeOK
<1>4. \A a \in asked : a.mount # 0
  BY DEF MarketInv, MarketTypeOK, Asks
<1> QED
  BY <1>2, <1>3, <1>4 DEF MarketInv, OneForm, PreviewAgrees, RunAgrees

LEMMA OpenKeeps ==
  ASSUME MarketInv, NEW i \in Cards, OpenCard(i)
  PROVE  MarketInv'
<1> DEFINE bare == cardForm = NoCard
           p == [Closed EXCEPT !.card = i, !.mount = clicks + 1, !.busy = bare]
           a == PreviewOf(p, NoCard, TRUE)
           l == [n |-> clicks, card |-> i]
<1>0. clicks \in Nat /\ cardForm \in Cards \cup {NoCard}
  BY DEF MarketInv, MarketTypeOK
<1>a. bare \in BOOLEAN /\ (cardForm = NoCard => bare)
  OBVIOUS
<1>4. /\ panel' = p /\ cardLoads' = cardLoads \cup {l} /\ clicks' = clicks + 1
      /\ asked' = asked \cup (IF cardForm = NoCard THEN {a} ELSE {})
      /\ UNCHANGED <<cardForm, submitting, started>>
  BY DEF OpenCard, Click
<1> HIDE DEF bare
<1>2. /\ p \in Panels /\ p.card = i /\ p.mount = clicks + 1 /\ p.preview = NoPreview
      /\ cardForm = NoCard => p.busy
  <2>1. NoPreview \in Previews
    BY DEF NoPreview, Previews
  <2>2. Closed \in Panels /\ Closed.preview = NoPreview
    BY <2>1 DEF Closed, Panels
  <2>3. clicks + 1 \in Nat
    BY <1>0
  <2>4. p \in Panels
    BY <1>a, <2>2, <2>3 DEF Panels
  <2>5. p.card = i /\ p.mount = clicks + 1 /\ p.preview = NoPreview
    BY <2>2 DEF Panels
  <2>6. bare => p.busy
    BY <2>2 DEF Panels
  <2> QED
    BY <1>a, <2>4, <2>5, <2>6
<1>3. l \in [n : Nat, card : Cards] /\ l.card = i
  BY <1>0
<1>5. unsettled' = {} => unsettled = {} /\ cardLoads = {} /\ cardForm = NoCard
  BY DEF OpenCard, Unsettles
<1> HIDE DEF p, l
<1>6. a \in Asks /\ a.what = Now(p, NoCard) /\ a.mount = p.mount /\ a.auto
  <2>1. p.mount # 0 /\ NoCard \in Cards \cup {NoCard} /\ TRUE \in BOOLEAN /\ MarketTypeOK
    BY <1>0, <1>2 DEF MarketInv
  <2>2. /\ PreviewOf(p, NoCard, TRUE) \in Asks
        /\ PreviewOf(p, NoCard, TRUE).what = Now(p, NoCard)
        /\ PreviewOf(p, NoCard, TRUE).mount = p.mount
        /\ PreviewOf(p, NoCard, TRUE).auto = TRUE
    BY <1>2, <2>1, AskIsNow
  <2> QED
    BY <2>2
<1> HIDE DEF a
<1>7. MarketTypeOK'
  <2>1. /\ cardLoads' \subseteq [n : Nat, card : Cards] /\ asked' \subseteq Asks
        /\ \A b \in asked' : b.mount <= clicks'
    BY <1>0, <1>2, <1>3, <1>4, <1>6 DEF MarketInv, MarketTypeOK, Asks
  <2>2. panel' \in Panels /\ panel'.card # NoCard /\ panel'.mount = clicks' /\ clicks' \in Nat \ {0}
    BY <1>0, <1>2, <1>4, MarketAssumption
  <2> QED
    BY <1>4, <2>1, <2>2 DEF MarketInv, MarketTypeOK
<1>8. ASSUME unsettled' = {} PROVE OneForm' /\ PreviewAgrees' /\ RunAgrees'
  <2>1. \A b \in asked : b.mount # p.mount
    BY <1>0, <1>2 DEF MarketInv, MarketTypeOK, Asks
  <2>2. OneForm'
    BY <1>2, <1>3, <1>4, <1>5, <1>8 DEF OneForm
  <2>3. PreviewAgrees'
    BY <1>2, <1>4, <1>5, <1>6, <1>8, <2>1 DEF PreviewAgrees
  <2>4. RunAgrees'
    BY <1>4, <1>5, <1>8 DEF MarketInv, RunAgrees
  <2> QED
    BY <2>2, <2>3, <2>4
<1> QED
  BY <1>7, <1>8 DEF MarketInv

LEMMA FormKeeps ==
  ASSUME MarketInv, NEW l \in cardLoads, FormArrives(l)
  PROVE  MarketInv'
<1> DEFINE has == l.card \in WithForm
<1>0. l.card \in Cards /\ panel \in Panels /\ cardForm \in Cards \cup {NoCard} /\ NoPreview \in Previews
  BY DEF MarketInv, MarketTypeOK, NoPreview, Previews
<1>1. /\ cardLoads' = cardLoads \ {l} /\ cardForm' = (IF has THEN l.card ELSE NoCard)
      /\ panel' = (IF panel.card # NoCard /\ (has \/ cardForm # NoCard) THEN ForNewForm(panel) ELSE panel)
      /\ asked' = (IF has THEN {a \in asked : ~a.auto} ELSE asked)
      /\ UNCHANGED <<submitting, started, clicks>>
  BY DEF FormArrives
<1>2. unsettled' = {} => unsettled = {} /\ \A a \in asked : a.auto
  BY DEF FormArrives, Unsettles
<1>3. ForNewForm(panel) = [card |-> panel.card, mount |-> panel.mount, vars |-> 0,
                           preview |-> NoPreview, busy |-> FALSE]
  <2>1. ForNewForm(panel) = [panel EXCEPT !.vars = 0, !.preview = NoPreview, !.busy = FALSE]
    BY DEF ForNewForm, Reset
  <2> QED
    BY <1>0, <2>1 DEF Panels
<1>4. panel' \in Panels /\ panel'.card = panel.card /\ panel'.mount = panel.mount
  <2>1. FALSE \in BOOLEAN
    OBVIOUS
  <2> QED
    BY <1>0, <1>1, <1>3, <2>1 DEF Panels
<1>5. MarketTypeOK'
  BY <1>0, <1>1, <1>4 DEF MarketInv, MarketTypeOK
<1>6. ASSUME unsettled' = {} PROVE OneForm' /\ PreviewAgrees' /\ RunAgrees'
  <2>1. OneForm /\ PreviewAgrees /\ RunAgrees /\ cardForm = NoCard /\ cardLoads' = {}
    BY <1>1, <1>2, <1>6 DEF MarketInv, OneForm
  <2>2. OneForm'
    BY <1>1, <1>4, <2>1 DEF OneForm, OwnForm
  <2>3. CASE has
    <3>1. asked' = {}
      BY <1>1, <1>2, <1>6, <2>3
    <3>2. panel'.preview = NoPreview
      BY <1>1, <1>3, <2>1, <2>3 DEF PreviewAgrees
    <3> QED
      BY <1>1, <2>1, <2>2, <3>1, <3>2 DEF PreviewAgrees, RunAgrees
  <2>4. CASE ~has
    BY <1>1, <2>1, <2>2, <2>4 DEF PreviewAgrees, RunAgrees
  <2> QED
    BY <2>3, <2>4
<1> QED
  BY <1>5, <1>6 DEF MarketInv

LEMMA TypeKeeps == ASSUME MarketInv, TypeInForm PROVE MarketInv'
<1>0. clicks \in Nat /\ panel \in Panels
  BY DEF MarketInv, MarketTypeOK
<1>1. /\ panel' = [card |-> panel.card, mount |-> panel.mount, vars |-> clicks + 1,
                   preview |-> panel.preview, busy |-> panel.busy]
      /\ clicks' = clicks + 1 /\ UNCHANGED <<cardForm, cardLoads, asked, submitting, started>>
  BY <1>0 DEF TypeInForm, Click, Panels
<1>2. unsettled' = {} => unsettled = {} /\ ~panel.busy
  BY DEF TypeInForm, Unsettles
<1>3. panel' \in Panels
  BY <1>0, <1>1 DEF Panels
<1>4. MarketTypeOK'
  BY <1>0, <1>1, <1>3 DEF MarketInv, MarketTypeOK, Panels, Asks
<1>5. panel.preview = NoPreview
  BY DEF TypeInForm, FormIsShown
<1> QED
  BY <1>1, <1>2, <1>4, <1>5 DEF MarketInv, OneForm, PreviewAgrees, RunAgrees

LEMMA ShowKeeps == ASSUME MarketInv, ShowPreview PROVE MarketInv'
<1> DEFINE a == PreviewOf(panel, cardForm, FALSE)
<1>0. clicks \in Nat /\ panel \in Panels /\ cardForm \in Cards \cup {NoCard} /\ panel.mount # 0
  BY DEF MarketInv, MarketTypeOK, ShowPreview, FormIsShown
<1>1. /\ panel' = [card |-> panel.card, mount |-> panel.mount, vars |-> panel.vars,
                   preview |-> panel.preview, busy |-> TRUE]
      /\ asked' = asked \cup {a}
      /\ clicks' = clicks + 1 /\ UNCHANGED <<cardForm, cardLoads, submitting, started, unsettled>>
  BY <1>0 DEF ShowPreview, Click, Panels
<1>2. a \in Asks /\ a.what = Now(panel, cardForm) /\ a.mount = panel.mount /\ ~a.auto
  BY <1>0, AskIsNow DEF MarketInv
<1>3. panel.preview = NoPreview /\ cardForm # NoCard /\ ~panel.busy
  BY DEF ShowPreview, FormIsShown
<1> HIDE DEF a
<1>4. panel' \in Panels /\ Now(panel, cardForm)' = Now(panel, cardForm)
  BY <1>0, <1>1 DEF Panels, Now
<1>5. MarketTypeOK'
  BY <1>0, <1>1, <1>2, <1>4 DEF MarketInv, MarketTypeOK, Panels, Asks
<1>6. ASSUME unsettled = {} PROVE PreviewAgrees'
  <2>1. \A b \in asked : b.mount # panel.mount
    BY <1>3, <1>6 DEF MarketInv, PreviewAgrees
  <2> QED
    BY <1>1, <1>2, <1>3, <1>4, <2>1 DEF PreviewAgrees
<1> QED
  BY <1>1, <1>5, <1>6 DEF MarketInv, OneForm, RunAgrees

LEMMA PreviewKeeps ==
  ASSUME MarketInv, NEW a \in asked, NEW ok \in BOOLEAN, PreviewArrives(a, ok)
  PROVE  MarketInv'
<1>0. panel \in Panels /\ a.what \in Previews /\ a.mount \in Nat \ {0}
  BY DEF MarketInv, MarketTypeOK, Asks
<1>1. asked' = asked \ {a} /\ UNCHANGED <<cardForm, cardLoads, submitting, started, clicks, unsettled>>
  BY DEF PreviewArrives
<1>2. CASE panel.mount # a.mount
  <2>1. panel' = panel
    BY <1>2 DEF PreviewArrives
  <2> QED
    BY <1>1, <2>1 DEF MarketInv, MarketTypeOK, OneForm, PreviewAgrees, RunAgrees
<1>3. CASE panel.mount = a.mount
  <2>1. panel' = [card |-> panel.card, mount |-> panel.mount, vars |-> panel.vars,
                  preview |-> IF ok THEN a.what ELSE panel.preview, busy |-> FALSE]
    BY <1>0, <1>3 DEF PreviewArrives, Panels
  <2>2. panel' \in Panels /\ panel'.card = panel.card /\ panel'.mount = panel.mount
        /\ Now(panel, cardForm)' = Now(panel, cardForm)
    BY <1>0, <1>1, <2>1 DEF Panels, Now
  <2>3. MarketTypeOK'
    BY <1>1, <2>2 DEF MarketInv, MarketTypeOK
  <2>4. ASSUME unsettled = {} PROVE PreviewAgrees'
    <3>1. \A b \in asked' : b.mount # panel.mount
      BY <1>1, <1>3, <2>4 DEF MarketInv, PreviewAgrees
    <3>2. a.what = Now(panel, cardForm) /\ panel.card # NoCard
      BY <1>0, <1>3, <2>4 DEF MarketInv, MarketTypeOK, PreviewAgrees
    <3>3. panel'.preview # NoPreview => panel'.preview = Now(panel, cardForm)
      BY <2>1, <2>4, <3>2 DEF MarketInv, PreviewAgrees
    <3> QED
      BY <2>2, <3>1, <3>2, <3>3 DEF PreviewAgrees
  <2> QED
    BY <1>1, <2>2, <2>3, <2>4 DEF MarketInv, OneForm, RunAgrees
<1> QED
  BY <1>2, <1>3

LEMMA BackKeeps == ASSUME MarketInv, BackToForm PROVE MarketInv'
<1>0. panel \in Panels /\ NoPreview \in Previews
  BY DEF MarketInv, MarketTypeOK, NoPreview, Previews
<1>1. /\ panel' = [card |-> panel.card, mount |-> panel.mount, vars |-> panel.vars,
                   preview |-> NoPreview, busy |-> panel.busy]
      /\ UNCHANGED <<cardForm, cardLoads, asked, submitting, started, clicks, unsettled>>
  BY <1>0 DEF BackToForm, Panels
<1>2. panel' \in Panels /\ panel'.card = panel.card /\ panel'.mount = panel.mount
      /\ Now(panel, cardForm)' = Now(panel, cardForm)
  BY <1>0, <1>1 DEF Panels, Now
<1>3. MarketTypeOK'
  BY <1>1, <1>2 DEF MarketInv, MarketTypeOK
<1>4. panel.preview # NoPreview
  BY DEF BackToForm
<1> QED
  BY <1>1, <1>2, <1>3, <1>4 DEF MarketInv, OneForm, PreviewAgrees, RunAgrees

LEMMA ConfirmKeeps == ASSUME MarketInv, Confirm PROVE MarketInv'
<1>0. panel \in Panels /\ panel.preview \in Previews /\ cardForm \in Cards \cup {NoCard}
  BY DEF MarketInv, MarketTypeOK, Panels
<1>1. started' = [ran |-> Now(panel, cardForm), shown |-> panel.preview]
  BY DEF Confirm, PreviewOf, Now
<1>2. UNCHANGED <<panel, cardForm, cardLoads, asked, clicks>> /\ submitting' = TRUE /\ panel.preview # NoPreview
  BY DEF Confirm
<1>3. unsettled' = {} => unsettled = {} /\ cardLoads = {}
  BY DEF Confirm, Unsettles
<1>4. Now(panel, cardForm) \in Previews /\ Now(panel, cardForm).card = panel.card
      /\ Now(panel, cardForm).of = cardForm
  BY <1>0 DEF Now, Panels, Previews
<1>5. MarketTypeOK'
  <2>1. TRUE \in BOOLEAN /\ started' \in [ran : Previews, shown : Previews]
    BY <1>0, <1>1, <1>4
  <2> QED
    BY <1>2, <2>1 DEF MarketInv, MarketTypeOK
<1>6. ASSUME unsettled' = {} PROVE OneForm' /\ PreviewAgrees' /\ RunAgrees'
  <2>1. panel.preview = Now(panel, cardForm) /\ panel.card # NoCard /\ cardForm = OwnForm(panel.card)
    BY <1>2, <1>3, <1>6 DEF MarketInv, PreviewAgrees, OneForm
  <2>2. RunAgrees'
    BY <1>1, <1>4, <2>1 DEF RunAgrees
  <2> QED
    BY <1>2, <1>3, <1>6, <2>2 DEF MarketInv, OneForm, PreviewAgrees
<1> QED
  BY <1>5, <1>6 DEF MarketInv

LEMMA MarketStep == MarketInv /\ [MarketNext]_marketVars => MarketInv'
<1> SUFFICES ASSUME MarketInv, [MarketNext]_marketVars PROVE MarketInv'
  OBVIOUS
<1>1. CASE ClosePanel
  BY <1>1, CloseKeeps DEF ClosePanel, MarketInv, MarketTypeOK
<1>2. ASSUME NEW l \in cardLoads, FormFails(l) PROVE MarketInv'
  BY <1>2, CloseKeeps DEF FormFails, MarketInv, MarketTypeOK
<1>3. ASSUME NEW ok \in BOOLEAN, SubmitAnswered(ok) PROVE MarketInv'
  <2>1. CASE ok
    BY <1>3, <2>1, CloseKeeps DEF SubmitAnswered
  <2>2. CASE ~ok
    BY <1>3, <2>2 DEF SubmitAnswered, MarketInv, MarketTypeOK, OneForm, PreviewAgrees, RunAgrees
  <2> QED
    BY <2>1, <2>2
<1>4. CASE UNCHANGED marketVars
  BY <1>4 DEF marketVars, MarketInv, MarketTypeOK, OneForm, PreviewAgrees, RunAgrees
<1> QED
  BY <1>1, <1>2, <1>3, <1>4, OpenKeeps, FormKeeps, TypeKeeps, ShowKeeps, PreviewKeeps, BackKeeps,
     ConfirmKeeps DEF MarketNext

\* For any playbooks, forms and clicks: what runs is what the preview showed,
\* with the form of its playbook, unless one of the named events unsettled it.
THEOREM RunsAlwaysWhatWasShown == Spec => []RunsWhatWasShown
<1>1. Init => MarketInv
  BY MarketStarts DEF Init
<1>2. MarketInv /\ [Next]_vars => MarketInv'
  BY MarketStep DEF Next, vars
<1>3. MarketInv => RunsWhatWasShown
  BY DEF MarketInv, RunAgrees, RunsWhatWasShown, OwnForm
<1> QED
  BY <1>1, <1>2, <1>3, PTL DEF Spec

-----------------------------------------------------------------------------
(* Tasks and the page that follows them.                                   *)

Statuses == {"unseen", "queued", "running", "forgotten"} \cup Ended
Updates == [status : Statuses, pos : Nat]
Replies == [job : Jobs, batch : BOOLEAN, visit : Nat]
MarketTabs == [visit : Nat, busy : BOOLEAN, batch : Jobs \cup {NoJob}, active : Jobs \cup {NoJob}]

StreamTypeOK ==
    /\ inLine \in Seq(Jobs)
    /\ job \in [Jobs -> Updates]
    /\ seen \in [Jobs -> Updates]
    /\ stream \in [Jobs -> {"none", "asked", "open", "over"}]
    /\ wire \in [Jobs -> Seq(Updates)]
    /\ replies \subseteq Replies
    /\ tab \in MarketTabs

\* The head of the line runs, what waits behind it is not nearer than its page was told.
LineInv ==
    /\ \A m, n \in 1..Len(inLine) : inLine[m] = inLine[n] => m = n
    /\ inLine # <<>> => job[inLine[1]] = Running
    /\ \A n \in 2..Len(inLine) : job[inLine[n]].status = "queued" /\ n - 1 <= job[inLine[n]].pos

\* What the page has been told of j once all that is on the way has arrived.
Latest(j) == IF wire[j] = <<>> THEN seen[j] ELSE wire[j][Len(wire[j])]

\* An open stream has its subscription until the task ends, and the end is the last that is
\* said on it.
OpenInv(j) ==
    stream[j] = "open" =>
        /\ Latest(j) = job[j]
        /\ j \in subs \/ job[j].status \in Ended
        /\ \A n \in 1..(Len(wire[j]) - 1) : wire[j][n].status \notin Ended

OverInv(j) ==
    stream[j] = "over" /\ j \notin cutOff =>
        /\ wire[j] = <<>>
        /\ seen[j].status \in Ended
        /\ seen[j] = job[j] \/ job[j] = Forgotten

WireInv ==
    \A j \in Jobs :
        /\ OpenInv(j) /\ OverInv(j)
        /\ seen[j].status \in Ended => stream[j] = "over"
        /\ stream[j] # "none" => job[j] # Unseen

\* An answer that is under way is the only one of its task, whose stream is not there yet.
ReplyInv ==
    /\ \A r \in replies : job[r.job] # Unseen /\ stream[r.job] = "none" /\ r.visit <= tab.visit
    /\ \A r, q \in replies : r.job = q.job => r = q
    /\ \A r \in replies : r.batch /\ r.visit = tab.visit => tab.busy /\ tab.batch = NoJob
    /\ \A r, q \in replies : r.batch /\ q.batch /\ r.visit = tab.visit /\ q.visit = tab.visit => r = q
    /\ tab.batch # NoJob => stream[tab.batch] # "none"

\* The button of the batch.
ButtonInv ==
    /\ tab.busy =>
           \/ \E r \in replies : r.batch /\ r.visit = tab.visit
           \/ tab.batch \in cutOff
           \/ tab.batch # NoJob /\ stream[tab.batch] \in {"asked", "open"}
    /\ ~tab.busy /\ tab.batch # NoJob => seen[tab.batch].status \in Ended

StreamInv == StreamTypeOK /\ LineInv /\ WireInv /\ ReplyInv /\ ButtonInv

\* An update of j that is written where it belongs.
LEMMA WriteKeeps ==
    ASSUME NEW j \in Jobs, NEW u \in Updates, NEW s \in Seq(Updates),
           \A n \in 1..Len(s) : s[n].status \notin Ended
    PROVE  LET t == Append(s, u) IN
           /\ t \in Seq(Updates) /\ t # <<>> /\ t[Len(t)] = u
           /\ \A n \in 1..(Len(t) - 1) : t[n].status \notin Ended
<1> DEFINE t == Append(s, u)
<1>1. /\ t \in Seq(Updates) /\ Len(t) = Len(s) + 1 /\ t[Len(s) + 1] = u
      /\ \A n \in 1..Len(s) : t[n] = s[n]
      /\ Len(s) \in Nat
  OBVIOUS
<1> HIDE DEF t
<1>2. t # <<>>
  BY <1>1
<1>3. \A n \in 1..(Len(t) - 1) : n \in 1..Len(s)
  BY <1>1
<1> QED
  BY <1>1, <1>2, <1>3 DEF t

\* What Tell does: tasks that have neither ended nor been forgotten change, and every stream
\* that is open hears of it.
LEMMA TellKeeps ==
    ASSUME StreamInv, NEW u, DOMAIN u \subseteq Jobs,
           \A j \in DOMAIN u : /\ u[j] \in Updates /\ u[j] # Unseen
                               /\ job[j] # Unseen /\ job[j].status \notin Ended
                               /\ job[j] # Forgotten,
           Tell(u), Same
    PROVE  /\ job' \in [Jobs -> Updates]
           /\ \A j \in Jobs : job'[j] = IF j \in DOMAIN u THEN u[j] ELSE job[j]
           /\ wire' \in [Jobs -> Seq(Updates)]
           /\ WireInv' /\ ReplyInv' /\ ButtonInv'
<1>1. /\ job \in [Jobs -> Updates] /\ wire \in [Jobs -> Seq(Updates)] /\ tab \in MarketTabs
      /\ replies \subseteq Replies
  BY DEF StreamInv, StreamTypeOK
<1>2. /\ job' \in [Jobs -> Updates]
      /\ \A j \in Jobs : job'[j] = IF j \in DOMAIN u THEN u[j] ELSE job[j]
  BY <1>1 DEF Tell
<1>3. /\ \A j \in Jobs : wire'[j] = IF j \in subs /\ j \in DOMAIN u THEN Append(wire[j], u[j]) ELSE wire[j]
      /\ wire' = [j \in Jobs |-> IF j \in subs \cap DOMAIN u THEN Append(wire[j], u[j]) ELSE wire[j]]
  BY DEF Tell
<1>4. \A j \in subs : j \in subs' \/ (j \in DOMAIN u /\ u[j].status \in Ended)
  BY DEF Tell
<1>5. UNCHANGED <<stream, seen, replies, tab, cutOff>>
  BY DEF Same
<1>6. wire' \in [Jobs -> Seq(Updates)]
  <2>1. \A j \in Jobs : (IF j \in subs \cap DOMAIN u THEN Append(wire[j], u[j]) ELSE wire[j]) \in Seq(Updates)
    BY <1>1
  <2> QED
    BY <1>3, <2>1
<1>7. ASSUME NEW j \in Jobs
      PROVE  /\ OpenInv(j)' /\ OverInv(j)'
             /\ seen'[j].status \in Ended => stream'[j] = "over"
             /\ stream'[j] # "none" => job'[j] # Unseen
  <2>1. /\ OpenInv(j) /\ OverInv(j)
        /\ seen[j].status \in Ended => stream[j] = "over"
        /\ stream[j] # "none" => job[j] # Unseen
    BY DEF StreamInv, WireInv
  <2>2. CASE j \notin DOMAIN u
    <3>1. job'[j] = job[j] /\ wire'[j] = wire[j]
      BY <1>2, <1>3, <2>2
    <3>2. OpenInv(j)'
      BY <1>4, <1>5, <2>1, <2>2, <3>1 DEF OpenInv, Latest
    <3>3. OverInv(j)'
      BY <1>5, <2>1, <3>1 DEF OverInv
    <3> QED
      BY <1>5, <2>1, <3>1, <3>2, <3>3
  <2>3. CASE j \in DOMAIN u
    <3>1. job'[j] = u[j] /\ job[j].status \notin Ended /\ job[j] # Forgotten /\ u[j] \in Updates /\ u[j] # Unseen
      BY <1>2, <2>3
    <3>2. OverInv(j)'
      BY <1>5, <2>1, <3>1 DEF OverInv
    <3>3. ASSUME stream[j] = "open" PROVE OpenInv(j)'
      <4>1. /\ j \in subs /\ Latest(j) = job[j]
            /\ \A n \in 1..(Len(wire[j]) - 1) : wire[j][n].status \notin Ended
        BY <2>1, <3>1, <3>3 DEF OpenInv
      <4>2. wire[j] \in Seq(Updates)
        BY <1>1
      <4>3. \A n \in 1..Len(wire[j]) : wire[j][n].status \notin Ended
        <5> SUFFICES ASSUME NEW n \in 1..Len(wire[j]) PROVE wire[j][n].status \notin Ended
          OBVIOUS
        <5>1. CASE n = Len(wire[j])
          <6>1. wire[j] # <<>>
            BY <4>2
          <6> QED
            BY <3>1, <4>1, <5>1, <6>1 DEF Latest
        <5>2. CASE n # Len(wire[j])
          <6>1. n \in 1..(Len(wire[j]) - 1)
            BY <4>2, <5>2
          <6> QED
            BY <4>1, <6>1
        <5> QED
          BY <5>1, <5>2
      <4>4. wire'[j] = Append(wire[j], u[j])
        BY <1>3, <2>3, <4>1
      <4>5. /\ wire'[j] # <<>> /\ wire'[j][Len(wire'[j])] = u[j]
            /\ \A n \in 1..(Len(wire'[j]) - 1) : wire'[j][n].status \notin Ended
        BY <3>1, <4>2, <4>3, <4>4, WriteKeeps
      <4>6. j \in subs' \/ u[j].status \in Ended
        BY <1>4, <4>1
      <4> QED
        BY <3>1, <4>5, <4>6 DEF OpenInv, Latest
    <3>4. OpenInv(j)'
      BY <1>5, <3>3 DEF OpenInv
    <3> QED
      BY <1>5, <2>1, <3>1, <3>2, <3>4
  <2> QED
    BY <2>2, <2>3
<1>8. WireInv'
  BY <1>7 DEF WireInv
<1>9. ReplyInv'
  <2>1. \A r \in replies : r.job \in Jobs
    BY <1>1 DEF Replies
  <2>2. \A r \in replies : job'[r.job] # Unseen
    BY <1>2, <2>1 DEF StreamInv, ReplyInv
  <2> QED
    BY <1>5, <2>2 DEF StreamInv, ReplyInv
<1>10. ButtonInv'
  BY <1>5 DEF StreamInv, ButtonInv
<1> QED
  BY <1>2, <1>6, <1>8, <1>9, <1>10

\* Who stands in line is known, and has not ended.
LEMMA InLineIsLive ==
    ASSUME StreamInv, NEW n \in 1..Len(inLine)
    PROVE  /\ inLine[n] \in Jobs
           /\ job[inLine[n]] # Unseen /\ job[inLine[n]] # Forgotten
           /\ job[inLine[n]].status \notin Ended
           /\ n = 1 => job[inLine[n]] = Running
           /\ n # 1 => job[inLine[n]].status = "queued"
<1>1. inLine \in Seq(Jobs) /\ inLine # <<>>
  BY DEF StreamInv, StreamTypeOK
<1>2. inLine[n] \in Jobs
  BY <1>1
<1>3. CASE n = 1
  BY <1>1, <1>2, <1>3 DEF StreamInv, LineInv, Running, Unseen, Forgotten, Ended
<1>4. CASE n # 1
  <2>1. n \in 2..Len(inLine)
    BY <1>1, <1>4
  <2> QED
    BY <1>2, <1>4, <2>1 DEF StreamInv, LineInv, Unseen, Forgotten, Ended
<1> QED
  BY <1>3, <1>4

LEMMA GoesOnKeeps ==
    ASSUME StreamInv, JobGoesOn
    PROVE  StreamInv'
<1> DEFINE h == Head(inLine)
           u == [j \in {h} |-> Running]
<1>1. /\ inLine # <<>> /\ Tell(u) /\ Same /\ inLine' = inLine /\ inLine \in Seq(Jobs)
  BY DEF JobGoesOn, StreamInv, StreamTypeOK
<1>2. 1 \in 1..Len(inLine) /\ h = inLine[1]
  BY <1>1
<1>3. h \in Jobs /\ job[h] = Running
  BY <1>1, <1>2, InLineIsLive
<1>4. Running \in Updates /\ Running # Unseen /\ Running # Forgotten /\ Running.status \notin Ended
  BY DEF Running, Updates, Statuses, Unseen, Forgotten, Ended
<1>5. DOMAIN u = {h} /\ u[h] = Running
  OBVIOUS
<1> HIDE DEF h, u
<1>6. /\ job' \in [Jobs -> Updates]
      /\ \A j \in Jobs : job'[j] = IF j \in DOMAIN u THEN u[j] ELSE job[j]
      /\ wire' \in [Jobs -> Seq(Updates)]
      /\ WireInv' /\ ReplyInv' /\ ButtonInv'
  BY <1>1, <1>3, <1>4, <1>5, TellKeeps
<1>7. \A j \in Jobs : job'[j] = job[j]
  BY <1>3, <1>5, <1>6
<1>8. \A n \in 1..Len(inLine) : inLine[n] \in Jobs
  BY <1>1
<1>9. LineInv'
  BY <1>1, <1>7, <1>8 DEF StreamInv, LineInv
<1> QED
  BY <1>1, <1>6, <1>9 DEF StreamInv, StreamTypeOK, Same

\* The second becomes the first.
LEMMA EndsKeeps ==
    ASSUME StreamInv, NEW result \in {"succeeded", "failed"}, JobEnds(result)
    PROVE  StreamInv'
<1> DEFINE h == Head(inLine)
           following == IF Len(inLine) > 1 THEN {inLine[2]} ELSE {}
           final == [status |-> IF h \in stops THEN "cancelled" ELSE result, pos |-> 0]
           u == [k \in {h} \cup following |-> IF k = h THEN final ELSE Running]
<1>1. /\ inLine # <<>> /\ Tell(u) /\ Same /\ inLine' = Tail(inLine) /\ inLine \in Seq(Jobs)
  BY DEF JobEnds, StreamInv, StreamTypeOK
<1>2. 1 \in 1..Len(inLine) /\ h = inLine[1]
  BY <1>1
<1>3. /\ h \in Jobs /\ job[h] # Unseen /\ job[h] # Forgotten /\ job[h].status \notin Ended
  BY <1>2, InLineIsLive
<1>4. final \in Updates /\ final # Unseen
  BY DEF Updates, Statuses, Unseen, Ended
<1>5. Running \in Updates /\ Running # Unseen
  BY DEF Running, Updates, Statuses, Unseen
<1>6. ASSUME NEW k \in following
      PROVE  k \in Jobs /\ job[k] # Unseen /\ job[k] # Forgotten /\ job[k].status \notin Ended
             /\ k # h /\ k = inLine[2] /\ Len(inLine) > 1
  <2>1. Len(inLine) > 1 /\ k = inLine[2]
    OBVIOUS
  <2>2. 2 \in 1..Len(inLine)
    BY <1>1, <2>1
  <2>3. k # h
    BY <1>2, <2>1, <2>2 DEF StreamInv, LineInv
  <2> QED
    BY <2>1, <2>2, <2>3, InLineIsLive
<1> HIDE DEF h, final, following
<1>7. DOMAIN u = {h} \cup following /\ u[h] = final /\ \A k \in following : u[k] = Running
  BY <1>6
<1> HIDE DEF u
<1>8. /\ job' \in [Jobs -> Updates]
      /\ \A j \in Jobs : job'[j] = IF j \in DOMAIN u THEN u[j] ELSE job[j]
      /\ wire' \in [Jobs -> Seq(Updates)]
      /\ WireInv' /\ ReplyInv' /\ ButtonInv'
  <2>1. DOMAIN u \subseteq Jobs
    BY <1>3, <1>6, <1>7
  <2>2. \A j \in DOMAIN u : /\ u[j] \in Updates /\ u[j] # Unseen
                            /\ job[j] # Unseen /\ job[j].status \notin Ended /\ job[j] # Forgotten
    BY <1>3, <1>4, <1>5, <1>6, <1>7
  <2> QED
    BY <1>1, <2>1, <2>2, TellKeeps
<1>9. /\ inLine' \in Seq(Jobs) /\ Len(inLine') = Len(inLine) - 1
      /\ \A n \in 1..Len(inLine') : inLine'[n] = inLine[n + 1] /\ n + 1 \in 2..Len(inLine)
  BY <1>1
<1>10. \A m, n \in 1..Len(inLine) : inLine[m] = inLine[n] => m = n
  BY DEF StreamInv, LineInv
<1>11. LineInv'
  <2>1. ASSUME inLine' # <<>> PROVE job'[inLine'[1]] = Running
    <3>1. Len(inLine) > 1 /\ inLine'[1] = inLine[2]
      BY <1>9, <2>1
    <3>2. inLine[2] \in following
      BY <3>1 DEF following
    <3> QED
      BY <1>6, <1>7, <1>8, <3>1, <3>2
  <2>2. ASSUME NEW n \in 2..Len(inLine')
        PROVE  job'[inLine'[n]].status = "queued" /\ n - 1 <= job'[inLine'[n]].pos
    <3>1. n + 1 \in 2..Len(inLine) /\ inLine'[n] = inLine[n + 1] /\ n \in Nat
      BY <1>9
    <3>2. inLine[n + 1] \in Jobs
      BY <1>1, <3>1
    <3>3. inLine[n + 1] # h
      BY <1>2, <1>9, <1>10, <3>1
    <3>4. inLine[n + 1] \notin following
      <4>1. 2 \in 1..Len(inLine) /\ n + 1 # 2 /\ n + 1 \in 1..Len(inLine)
        BY <1>9, <3>1
      <4> QED
        BY <1>6, <1>10, <4>1
    <3>5. job'[inLine'[n]] = job[inLine[n + 1]]
      BY <1>7, <1>8, <3>1, <3>2, <3>3, <3>4
    <3>6. job[inLine[n + 1]].status = "queued" /\ (n + 1) - 1 <= job[inLine[n + 1]].pos
      BY <3>1 DEF StreamInv, LineInv
    <3>7. job[inLine[n + 1]].pos \in Nat
      BY <3>2 DEF StreamInv, StreamTypeOK, Updates
    <3> QED
      BY <3>1, <3>5, <3>6, <3>7
  <2>3. \A m, n \in 1..Len(inLine') : inLine'[m] = inLine'[n] => m = n
    <3> SUFFICES ASSUME NEW m \in 1..Len(inLine'), NEW n \in 1..Len(inLine'), inLine'[m] = inLine'[n]
                 PROVE  m = n
      OBVIOUS
    <3>1. inLine[m + 1] = inLine[n + 1] /\ m + 1 \in 1..Len(inLine) /\ n + 1 \in 1..Len(inLine)
      BY <1>9
    <3>2. m + 1 = n + 1
      BY <1>10, <3>1
    <3> QED
      BY <3>2
  <2> QED
    BY <2>1, <2>2, <2>3 DEF LineInv
<1> QED
  BY <1>1, <1>8, <1>9, <1>11 DEF StreamInv, StreamTypeOK, Same

\* An entry leaves a sequence, and those behind it move up.
LEMMA RemovedEntries ==
    ASSUME NEW S, NEW list \in Seq(S), NEW i \in 1..Len(list)
    PROVE  /\ RemoveAt(list, i) \in Seq(S)
           /\ Len(RemoveAt(list, i)) = Len(list) - 1
           /\ \A k \in 1..(Len(list) - 1) :
                 RemoveAt(list, i)[k] = list[IF k < i THEN k ELSE k + 1]
<1> DEFINE a == SubSeq(list, 1, i - 1)
           b == SubSeq(list, i + 1, Len(list))
<1>1. a \in Seq(S) /\ Len(a) = i - 1 /\ \A k \in 1..(i - 1) : a[k] = list[k]
  OBVIOUS
<1>2. b \in Seq(S) /\ Len(b) = Len(list) - i /\ \A k \in 1..(Len(list) - i) : b[k] = list[i + k]
  OBVIOUS
<1>3. RemoveAt(list, i) = a \o b
  BY DEF RemoveAt
<1> HIDE DEF a, b
<1>4. a \o b \in Seq(S) /\ Len(a \o b) = Len(list) - 1
  <2>1. a \o b \in Seq(S) /\ Len(a \o b) = Len(a) + Len(b)
    BY <1>1, <1>2, ConcatProperties
  <2> QED
    BY <1>1, <1>2, <2>1, LenProperties
<1>5. ASSUME NEW k \in 1..(Len(list) - 1)
      PROVE  (a \o b)[k] = list[IF k < i THEN k ELSE k + 1]
  <2>1. CASE k < i
    BY <1>1, <1>2, <2>1
  <2>2. CASE ~(k < i)
    <3>1. (a \o b)[k] = b[k - (i - 1)]
      BY <1>1, <1>2, <2>2
    <3>2. k - (i - 1) \in 1..(Len(list) - i)
      BY <2>2
    <3>3. b[k - (i - 1)] = list[i + (k - (i - 1))]
      BY <1>2, <3>2
    <3> QED
      BY <2>2, <3>1, <3>3
  <2> QED
    BY <2>1, <2>2
<1> QED
  BY <1>3, <1>4, <1>5

\* One who waits leaves the line: those behind come nearer, and nobody passes.
LEMMA LeavesLine ==
    ASSUME StreamInv, NEW j \in Jobs, job[j].status = "queued",
           NEW p \in DOMAIN inLine, inLine[p] = j, inLine' = RemoveAt(inLine, p),
           \A k \in Jobs : k # j => job'[k] = job[k]
    PROVE  inLine' \in Seq(Jobs) /\ LineInv'
<1>1. inLine \in Seq(Jobs) /\ p \in 1..Len(inLine) /\ Len(inLine) \in Nat
  BY DEF StreamInv, StreamTypeOK
<1>2. p # 1
  BY <1>1, InLineIsLive DEF Running
<1> DEFINE at(n) == IF n < p THEN n ELSE n + 1
<1>3. /\ inLine' \in Seq(Jobs) /\ Len(inLine') = Len(inLine) - 1
      /\ \A n \in 1..Len(inLine') : inLine'[n] = inLine[at(n)]
  BY <1>1, RemovedEntries
<1>4. \A n \in 1..Len(inLine') : at(n) \in 1..Len(inLine) /\ at(n) # p /\ n <= at(n)
  BY <1>1, <1>3
<1>5. \A m, n \in 1..Len(inLine) : inLine[m] = inLine[n] => m = n
  BY DEF StreamInv, LineInv
<1>6. \A n \in 1..Len(inLine') : /\ inLine'[n] \in Jobs /\ job'[inLine'[n]] = job[inLine[at(n)]]
                                 /\ at(n) \in 1..Len(inLine)
  <2> SUFFICES ASSUME NEW n \in 1..Len(inLine')
               PROVE  /\ inLine'[n] \in Jobs /\ job'[inLine'[n]] = job[inLine[at(n)]]
                      /\ at(n) \in 1..Len(inLine)
    OBVIOUS
  <2>1. at(n) \in 1..Len(inLine) /\ at(n) # p /\ inLine'[n] = inLine[at(n)]
    BY <1>3, <1>4
  <2>2. inLine[at(n)] # j
    BY <1>1, <1>5, <2>1
  <2>3. inLine[at(n)] \in Jobs
    BY <1>1, <2>1
  <2> QED
    BY <2>1, <2>2, <2>3
<1>7. ASSUME inLine' # <<>> PROVE job'[inLine'[1]] = Running
  <2>1. 1 \in 1..Len(inLine') /\ at(1) = 1
    BY <1>1, <1>2, <1>3, <1>7
  <2>2. inLine # <<>>
    BY <1>1
  <2> QED
    BY <1>6, <2>1, <2>2 DEF StreamInv, LineInv
<1>8. ASSUME NEW n \in 2..Len(inLine')
      PROVE  job'[inLine'[n]].status = "queued" /\ n - 1 <= job'[inLine'[n]].pos
  <2>1. n \in 1..Len(inLine') /\ n \in Nat /\ at(n) \in 2..Len(inLine)
    BY <1>1, <1>3
  <2>2. job'[inLine'[n]] = job[inLine[at(n)]]
    BY <1>6, <2>1
  <2>3. inLine[at(n)] \in Jobs /\ job[inLine[at(n)]].pos \in Nat
    <3>1. \A a \in 2..Len(inLine) : inLine[a] \in Jobs
      BY <1>1
    <3>2. \A k \in Jobs : job[k].pos \in Nat
      BY DEF StreamInv, StreamTypeOK, Updates
    <3> HIDE DEF at
    <3> QED
      BY <2>1, <3>1, <3>2
  <2>4. job[inLine[at(n)]].status = "queued" /\ at(n) - 1 <= job[inLine[at(n)]].pos
    BY <2>1 DEF StreamInv, LineInv
  <2>5. n <= at(n) /\ at(n) \in Nat
    BY <1>1, <2>1
  <2> HIDE DEF at
  <2> QED
    BY <2>1, <2>2, <2>3, <2>4, <2>5
<1>9. ASSUME NEW m \in 1..Len(inLine'), NEW n \in 1..Len(inLine'), inLine'[m] = inLine'[n]
      PROVE  m = n
  <2>1. at(m) = at(n)
    BY <1>3, <1>4, <1>5, <1>9
  <2> QED
    BY <1>1, <1>3, <2>1
<1> QED
  BY <1>3, <1>7, <1>8, <1>9 DEF LineInv

LEMMA CancelKeeps ==
    ASSUME StreamInv, PressCancel
    PROVE  StreamInv'
<1> DEFINE j == tab.active
<1>1. j \in Jobs /\ CancelJob(j) /\ Same
  BY DEF PressCancel, StreamInv, StreamTypeOK, MarketTabs
<1> HIDE DEF j
<1>2. CASE UNCHANGED <<inLine, job, subs, wire>>
  BY <1>1, <1>2 DEF Same, StreamInv, StreamTypeOK, LineInv, WireInv, OpenInv, OverInv, Latest,
                    ReplyInv, ButtonInv
<1>3. CASE job[j].status = "queued" /\ j \in ToSet(inLine)
  <2> DEFINE final == [status |-> "cancelled", pos |-> 0]
             u == [k \in {j} |-> final]
  <2>1. PICK p \in DOMAIN inLine : inLine[p] = j /\ inLine' = RemoveAt(inLine, p)
    BY <1>1, <1>3 DEF CancelJob
  <2>2. Tell(u) /\ Same
    BY <1>1, <1>3 DEF CancelJob
  <2>3. final \in Updates /\ final # Unseen
    BY DEF Updates, Statuses, Ended, Unseen
  <2>4. DOMAIN u = {j} /\ u[j] = final
    OBVIOUS
  <2>5. job[j] # Unseen /\ job[j] # Forgotten /\ job[j].status \notin Ended
    BY <1>3 DEF Unseen, Forgotten, Ended
  <2> HIDE DEF final, u
  <2>6. /\ job' \in [Jobs -> Updates]
        /\ \A k \in Jobs : job'[k] = IF k \in DOMAIN u THEN u[k] ELSE job[k]
        /\ wire' \in [Jobs -> Seq(Updates)]
        /\ WireInv' /\ ReplyInv' /\ ButtonInv'
    BY <1>1, <2>2, <2>3, <2>4, <2>5, TellKeeps
  <2>7. inLine' \in Seq(Jobs) /\ LineInv'
    BY <1>1, <1>3, <2>1, <2>4, <2>6, LeavesLine
  <2> QED
    BY <2>2, <2>6, <2>7 DEF StreamInv, StreamTypeOK, Same
<1> QED
  BY <1>1, <1>2, <1>3 DEF CancelJob

\* A new task goes to the end of the line, and says how many are before it.
LEMMA StartJobKeeps ==
    ASSUME StreamInv, NEW j \in Jobs, NEW batch \in BOOLEAN, StartJob(j, batch)
    PROVE  StreamInv'
<1> DEFINE new == IF inLine = <<>> THEN Running ELSE [status |-> "queued", pos |-> Len(inLine)]
           r == [job |-> j, batch |-> batch, visit |-> tab.visit]
<1>1. /\ StreamTypeOK /\ LineInv /\ WireInv /\ ReplyInv /\ ButtonInv
      /\ inLine \in Seq(Jobs) /\ Len(inLine) \in Nat /\ tab.visit \in Nat
  BY DEF StreamInv, StreamTypeOK, MarketTabs
<1>2. /\ job[j] = Unseen
      /\ ~tab.busy \/ ~batch
      /\ ~\E q \in replies : q.visit = tab.visit /\ q.batch = batch
      /\ inLine' = Append(inLine, j)
      /\ job' = [job EXCEPT ![j] = new]
      /\ replies' = replies \cup {r}
      /\ tab' = IF batch THEN [tab EXCEPT !.busy = TRUE, !.batch = NoJob] ELSE tab
      /\ UNCHANGED <<stops, subs, stream, wire, seen, cutOff>>
  BY DEF StartJob
<1>3. new \in Updates /\ new # Unseen
  BY <1>1 DEF Updates, Statuses, Running, Unseen
<1>4. /\ job' \in [Jobs -> Updates] /\ job'[j] = new
      /\ \A k \in Jobs : k # j => job'[k] = job[k]
  BY <1>1, <1>2, <1>3 DEF StreamTypeOK
<1>5. stream[j] = "none"
  BY <1>1, <1>2 DEF WireInv, StreamTypeOK
<1>6. r \in Replies /\ r.job = j /\ r.batch = batch /\ r.visit = tab.visit
  BY <1>1 DEF Replies
<1> HIDE DEF r
<1>7. /\ tab' \in MarketTabs /\ tab'.visit = tab.visit
      /\ IF batch THEN tab'.busy /\ tab'.batch = NoJob ELSE tab' = tab
  BY <1>1, <1>2 DEF StreamTypeOK, MarketTabs
<1>8. /\ inLine' \in Seq(Jobs) /\ Len(inLine') = Len(inLine) + 1
      /\ inLine'[Len(inLine) + 1] = j
      /\ \A n \in 1..Len(inLine) : inLine'[n] = inLine[n]
  BY <1>1, <1>2
<1>9. StreamTypeOK'
  BY <1>1, <1>2, <1>4, <1>6, <1>7, <1>8 DEF StreamTypeOK
<1>10. LineInv'
  <2>1. \A n \in 1..Len(inLine) : inLine[n] # j /\ inLine[n] \in Jobs
    BY <1>2, InLineIsLive
  <2>2. \A m, n \in 1..Len(inLine') : inLine'[m] = inLine'[n] => m = n
    <3> SUFFICES ASSUME NEW m \in 1..Len(inLine'), NEW n \in 1..Len(inLine'), inLine'[m] = inLine'[n]
                 PROVE  m = n
      OBVIOUS
    <3>1. CASE m \in 1..Len(inLine) /\ n \in 1..Len(inLine)
      BY <1>1, <1>8, <3>1 DEF LineInv
    <3>2. CASE m = Len(inLine) + 1 \/ n = Len(inLine) + 1
      BY <1>1, <1>8, <2>1, <3>2
    <3> QED
      BY <1>1, <1>8, <3>1, <3>2
  <2>3. job'[inLine'[1]] = Running
    <3>1. CASE inLine = <<>>
      BY <1>4, <1>8, <3>1
    <3>2. CASE inLine # <<>>
      <4>1. 1 \in 1..Len(inLine)
        BY <1>1, <3>2
      <4> QED
        BY <1>1, <1>4, <1>8, <2>1, <3>2, <4>1 DEF LineInv
    <3> QED
      BY <3>1, <3>2
  <2>4. ASSUME NEW n \in 2..Len(inLine')
        PROVE  job'[inLine'[n]].status = "queued" /\ n - 1 <= job'[inLine'[n]].pos
    <3>1. CASE n \in 1..Len(inLine)
      <4>1. n \in 2..Len(inLine) /\ inLine'[n] = inLine[n] /\ inLine[n] # j /\ inLine[n] \in Jobs
        BY <1>8, <2>1, <3>1
      <4>2. job[inLine[n]].status = "queued" /\ n - 1 <= job[inLine[n]].pos
        BY <1>1, <4>1 DEF LineInv
      <4> QED
        BY <1>4, <4>1, <4>2
    <3>2. CASE n = Len(inLine) + 1
      <4>1. inLine # <<>> /\ n - 1 = Len(inLine)
        BY <1>1, <3>2
      <4> QED
        BY <1>1, <1>4, <1>8, <3>2, <4>1
    <3> QED
      BY <1>1, <1>8, <3>1, <3>2
  <2> QED
    BY <2>2, <2>3, <2>4 DEF LineInv
<1>11. WireInv'
  <2> SUFFICES ASSUME NEW k \in Jobs
               PROVE  /\ OpenInv(k)' /\ OverInv(k)'
                      /\ seen'[k].status \in Ended => stream'[k] = "over"
                      /\ stream'[k] # "none" => job'[k] # Unseen
    BY DEF WireInv
  <2>1. CASE k = j
    BY <1>1, <1>2, <1>5, <2>1 DEF WireInv, OpenInv, OverInv
  <2>2. CASE k # j
    BY <1>1, <1>2, <1>4, <2>2 DEF WireInv, OpenInv, OverInv, Latest
  <2> QED
    BY <2>1, <2>2
<1>12. ReplyInv'
  <2>1. \A q \in replies : q.job # j /\ q.job \in Jobs
    BY <1>1, <1>2 DEF ReplyInv, StreamTypeOK, Replies
  <2>2. \A q \in replies' : job'[q.job] # Unseen /\ stream'[q.job] = "none" /\ q.visit <= tab'.visit
    BY <1>1, <1>2, <1>3, <1>4, <1>5, <1>6, <1>7, <2>1 DEF ReplyInv
  <2>3. \A q, w \in replies' : q.job = w.job => q = w
    BY <1>1, <1>2, <1>6, <2>1 DEF ReplyInv
  <2>4. ASSUME NEW q \in replies', q.batch, q.visit = tab'.visit
        PROVE  /\ tab'.busy /\ tab'.batch = NoJob
               /\ \A w \in replies' : w.batch /\ w.visit = tab'.visit => q = w
    <3>1. CASE batch
      BY <1>1, <1>2, <1>6, <1>7, <2>4, <3>1 DEF StreamTypeOK, Replies
    <3>2. CASE ~batch
      <4>1. q \in replies /\ \A w \in replies' : w.batch => w \in replies
        BY <1>2, <1>6, <2>4, <3>2
      <4> QED
        BY <1>1, <1>7, <2>4, <3>2, <4>1 DEF ReplyInv
    <3> QED
      BY <3>1, <3>2
  <2>5. tab'.batch # NoJob => stream'[tab'.batch] # "none"
    BY <1>1, <1>2, <1>7 DEF ReplyInv
  <2> QED
    BY <2>2, <2>3, <2>4, <2>5 DEF ReplyInv
<1>13. ButtonInv'
  <2>1. CASE batch
    BY <1>2, <1>6, <1>7, <2>1 DEF ButtonInv
  <2>2. CASE ~batch
    BY <1>1, <1>2, <1>7, <2>2 DEF ButtonInv
  <2> QED
    BY <2>1, <2>2
<1> QED
  BY <1>9, <1>10, <1>11, <1>12, <1>13 DEF StreamInv

\* An answer arrives: the stream of its task is asked for.
LEMMA ReplyArrivesKeeps ==
    ASSUME StreamInv, NEW r \in replies, ReplyArrives(r)
    PROVE  StreamInv'
<1> DEFINE j == r.job
<1>1. /\ StreamTypeOK /\ LineInv /\ WireInv /\ ReplyInv /\ ButtonInv
      /\ j \in Jobs /\ r \in Replies /\ job[j] # Unseen /\ stream[j] = "none" /\ j # NoJob
  BY StreamAssumption DEF StreamInv, StreamTypeOK, ReplyInv, Replies
<1>2. /\ replies' = replies \ {r}
      /\ UNCHANGED <<inLine, job, stops, subs, wire, seen, cutOff>>
      /\ stream' = [stream EXCEPT ![j] = "asked"]
  BY DEF ReplyArrives
<1>3. /\ tab.visit = tab'.visit /\ tab.busy = tab'.busy /\ tab' \in MarketTabs
      /\ IF r.visit = tab.visit /\ r.batch THEN tab'.batch = j ELSE tab'.batch = tab.batch
  <2>1. CASE r.visit # tab.visit
    BY <1>1, <2>1 DEF ReplyArrives, StreamTypeOK
  <2>2. CASE r.visit = tab.visit
    BY <1>1, <2>2 DEF ReplyArrives, StreamTypeOK, MarketTabs
  <2> QED
    BY <2>1, <2>2
<1> HIDE DEF j
<1>4. /\ stream' \in [Jobs -> {"none", "asked", "open", "over"}]
      /\ stream'[j] = "asked" /\ \A k \in Jobs : k # j => stream'[k] = stream[k]
  BY <1>1, <1>2 DEF StreamTypeOK
<1>5. StreamTypeOK'
  BY <1>1, <1>2, <1>3, <1>4 DEF StreamTypeOK
<1>6. LineInv'
  BY <1>1, <1>2 DEF LineInv
<1>7. WireInv'
  BY <1>1, <1>2, <1>4 DEF WireInv, OpenInv, OverInv, Latest
<1>8. ReplyInv'
  <2>1. \A q \in replies' : q \in replies /\ q # r /\ q.job # j /\ q.job \in Jobs
    BY <1>1, <1>2 DEF ReplyInv, StreamTypeOK, Replies, j
  <2>2. \A q \in replies' : job'[q.job] # Unseen /\ stream'[q.job] = "none" /\ q.visit <= tab'.visit
    BY <1>1, <1>2, <1>3, <1>4, <2>1 DEF ReplyInv
  <2>3. \A q \in replies' : q.batch /\ q.visit = tab'.visit => tab'.busy /\ tab'.batch = NoJob
    BY <1>1, <1>3, <2>1 DEF ReplyInv
  <2>4. tab'.batch # NoJob => stream'[tab'.batch] # "none"
    BY <1>1, <1>3, <1>4 DEF ReplyInv, StreamTypeOK, MarketTabs
  <2> QED
    BY <1>1, <1>3, <2>1, <2>2, <2>3, <2>4 DEF ReplyInv
<1>9. ButtonInv'
  <2>1. CASE r.visit = tab.visit /\ r.batch
    <3>1. tab.busy
      BY <1>1, <2>1 DEF ReplyInv
    <3> QED
      BY <1>1, <1>3, <1>4, <2>1, <3>1 DEF ButtonInv
  <2>2. CASE ~(r.visit = tab.visit /\ r.batch)
    <3>1. tab'.batch = tab.batch
      BY <1>3, <2>2
    <3>2. tab.batch # NoJob => tab.batch \in Jobs
      BY <1>1 DEF StreamTypeOK, MarketTabs
    <3>3. \A q \in replies : q.batch /\ q.visit = tab.visit => q \in replies'
      BY <1>2, <2>2
    <3> QED
      BY <1>1, <1>2, <1>3, <1>4, <3>1, <3>2, <3>3 DEF ButtonInv
  <2> QED
    BY <2>1, <2>2
<1> QED
  BY <1>5, <1>6, <1>7, <1>8, <1>9 DEF StreamInv

\* An answer is lost: the button is free, and no batch is known to the page.
LEMMA ReplyLostKeeps ==
    ASSUME StreamInv, NEW r \in replies, ReplyLost(r)
    PROVE  StreamInv'
<1>1. /\ StreamTypeOK /\ LineInv /\ WireInv /\ ReplyInv /\ ButtonInv /\ r \in Replies
  BY DEF StreamInv, StreamTypeOK
<1>2. /\ replies' = replies \ {r}
      /\ UNCHANGED <<inLine, job, stops, subs, stream, wire, seen, cutOff>>
      /\ tab' = IF r.visit = tab.visit /\ r.batch THEN [tab EXCEPT !.busy = FALSE] ELSE tab
  BY DEF ReplyLost
<1>3. /\ tab' \in MarketTabs /\ tab'.visit = tab.visit /\ tab'.batch = tab.batch
      /\ IF r.visit = tab.visit /\ r.batch THEN ~tab'.busy ELSE tab' = tab
  BY <1>1, <1>2 DEF StreamTypeOK, MarketTabs
<1>4. StreamTypeOK'
  BY <1>1, <1>2, <1>3 DEF StreamTypeOK
<1>5. LineInv' /\ WireInv'
  BY <1>1, <1>2 DEF LineInv, WireInv, OpenInv, OverInv, Latest
<1>6. ReplyInv'
  <2>1. \A q \in replies' : q \in replies /\ q # r
    BY <1>2
  <2>2. \A q \in replies' : q.batch /\ q.visit = tab'.visit => tab'.busy /\ tab'.batch = NoJob
    BY <1>1, <1>3, <2>1 DEF ReplyInv
  <2> QED
    BY <1>1, <1>2, <1>3, <2>1, <2>2 DEF ReplyInv
<1>7. ButtonInv'
  <2>1. CASE r.visit = tab.visit /\ r.batch
    BY <1>1, <1>3, <2>1 DEF ReplyInv, ButtonInv
  <2>2. CASE ~(r.visit = tab.visit /\ r.batch)
    BY <1>1, <1>2, <1>3, <2>2 DEF ButtonInv
  <2> QED
    BY <2>1, <2>2
<1> QED
  BY <1>4, <1>5, <1>6, <1>7 DEF StreamInv

\* The stream begins with the task as it is, and its subscription is there from then on.
LEMMA StreamOpensKeeps ==
    ASSUME StreamInv, NEW j \in Jobs, StreamOpens(j)
    PROVE  StreamInv'
<1>1. /\ StreamTypeOK /\ LineInv /\ WireInv /\ ReplyInv /\ ButtonInv
  BY DEF StreamInv
<1>2. /\ stream[j] = "asked" /\ job[j] # Forgotten
      /\ stream' = [stream EXCEPT ![j] = "open"]
      /\ wire' = [wire EXCEPT ![j] = <<job[j]>>]
      /\ subs' = IF job[j].status \in Ended THEN subs ELSE subs \cup {j}
      /\ UNCHANGED <<inLine, job, stops, seen, replies, tab, cutOff>>
  BY DEF StreamOpens
<1>3. job[j] \in Updates /\ <<job[j]>> \in Seq(Updates)
  BY <1>1 DEF StreamTypeOK
<1>4. /\ stream' \in [Jobs -> {"none", "asked", "open", "over"}] /\ wire' \in [Jobs -> Seq(Updates)]
      /\ stream'[j] = "open" /\ wire'[j] = <<job[j]>>
      /\ \A k \in Jobs : k # j => stream'[k] = stream[k] /\ wire'[k] = wire[k]
  BY <1>1, <1>2, <1>3 DEF StreamTypeOK
<1>5. StreamTypeOK'
  BY <1>1, <1>2, <1>4 DEF StreamTypeOK
<1>6. LineInv'
  BY <1>1, <1>2 DEF LineInv
<1>7. WireInv'
  <2> SUFFICES ASSUME NEW k \in Jobs
               PROVE  /\ OpenInv(k)' /\ OverInv(k)'
                      /\ seen'[k].status \in Ended => stream'[k] = "over"
                      /\ stream'[k] # "none" => job'[k] # Unseen
    BY DEF WireInv
  <2>1. CASE k = j
    <3>1. Latest(j)' = job'[j] /\ Len(wire'[j]) = 1
      BY <1>2, <1>3, <1>4 DEF Latest
    <3>2. j \in subs' \/ job'[j].status \in Ended
      BY <1>2
    <3>3. OpenInv(j)'
      BY <3>1, <3>2 DEF OpenInv
    <3>4. seen'[j].status \notin Ended /\ job'[j] # Unseen
      BY <1>1, <1>2 DEF WireInv
    <3> QED
      BY <1>4, <2>1, <3>3, <3>4 DEF OverInv
  <2>2. CASE k # j
    <3>1. OpenInv(k) /\ OverInv(k)
      BY <1>1 DEF WireInv
    <3> QED
      BY <1>1, <1>2, <1>4, <2>2, <3>1 DEF WireInv, OpenInv, OverInv, Latest
  <2> QED
    BY <2>1, <2>2
<1>8. ReplyInv'
  <2>1. \A q \in replies : q.job # j /\ q.job \in Jobs
    BY <1>1, <1>2 DEF ReplyInv, StreamTypeOK, Replies
  <2>2. \A q \in replies' : job'[q.job] # Unseen /\ stream'[q.job] = "none" /\ q.visit <= tab'.visit
    BY <1>1, <1>2, <1>4, <2>1 DEF ReplyInv
  <2>3. tab'.batch # NoJob => stream'[tab'.batch] # "none"
    BY <1>1, <1>2, <1>4 DEF ReplyInv, StreamTypeOK, MarketTabs
  <2> QED
    BY <1>1, <1>2, <2>2, <2>3 DEF ReplyInv
<1>9. ButtonInv'
  BY <1>1, <1>2, <1>4 DEF ButtonInv, StreamTypeOK, MarketTabs
<1> QED
  BY <1>5, <1>6, <1>7, <1>8, <1>9 DEF StreamInv

\* What is delivered is seen; the end, which is the last there is, closes the stream.
LEMMA DeliveredKeeps ==
    ASSUME StreamInv, NEW j \in Jobs, Delivered(j)
    PROVE  StreamInv'
<1> DEFINE u == Head(wire[j])
<1>1. /\ StreamTypeOK /\ LineInv /\ WireInv /\ ReplyInv /\ ButtonInv
      /\ wire[j] \in Seq(Updates) /\ OpenInv(j)
  BY DEF StreamInv, StreamTypeOK, WireInv
<1>2. /\ stream[j] = "open" /\ wire[j] # <<>>
      /\ wire' = [wire EXCEPT ![j] = Tail(wire[j])]
      /\ seen' = [seen EXCEPT ![j] = u]
      /\ stream' = [stream EXCEPT ![j] = IF u.status \in Ended THEN "over" ELSE "open"]
      /\ tab' = IF u.status \in Ended /\ tab.batch = j THEN [tab EXCEPT !.busy = FALSE] ELSE tab
      /\ UNCHANGED <<inLine, job, stops, subs, replies, cutOff>>
  BY <1>1 DEF Delivered, StreamTypeOK
<1>3. /\ u \in Updates /\ u = wire[j][1] /\ Tail(wire[j]) \in Seq(Updates)
      /\ Len(wire[j]) \in Nat \ {0} /\ Len(Tail(wire[j])) = Len(wire[j]) - 1
      /\ \A n \in 1..Len(Tail(wire[j])) : Tail(wire[j])[n] = wire[j][n + 1]
  BY <1>1, <1>2
<1> HIDE DEF u
<1>4. /\ wire' \in [Jobs -> Seq(Updates)] /\ wire'[j] = Tail(wire[j])
      /\ seen' \in [Jobs -> Updates] /\ seen'[j] = u
      /\ stream' \in [Jobs -> {"none", "asked", "open", "over"}]
      /\ stream'[j] = IF u.status \in Ended THEN "over" ELSE "open"
      /\ \A k \in Jobs : k # j => stream'[k] = stream[k] /\ wire'[k] = wire[k] /\ seen'[k] = seen[k]
  BY <1>1, <1>2, <1>3 DEF StreamTypeOK
<1>5. /\ tab' \in MarketTabs /\ tab'.visit = tab.visit /\ tab'.batch = tab.batch
      /\ IF u.status \in Ended /\ tab.batch = j THEN ~tab'.busy ELSE tab' = tab
  BY <1>1, <1>2 DEF StreamTypeOK, MarketTabs
<1>6. StreamTypeOK'
  BY <1>1, <1>2, <1>4, <1>5 DEF StreamTypeOK
<1>7. LineInv'
  BY <1>1, <1>2 DEF LineInv
<1>8. /\ Latest(j) = job[j] /\ Latest(j) = wire[j][Len(wire[j])]
      /\ j \in subs \/ job[j].status \in Ended
      /\ \A n \in 1..(Len(wire[j]) - 1) : wire[j][n].status \notin Ended
  BY <1>1, <1>2 DEF OpenInv, Latest
<1>9. Len(wire[j]) > 1 => u.status \notin Ended
  BY <1>3, <1>8
<1>12. Len(wire[j]) \in Nat \ {0}
  BY <1>3
<1>10. CASE Len(wire[j]) > 1
  <2>1. Len(wire'[j]) = Len(wire[j]) - 1 /\ wire'[j] # <<>>
    <3>1. Len(wire'[j]) = Len(wire[j]) - 1
      BY <1>3, <1>4
    <3>2. Len(wire'[j]) > 0
      BY <1>10, <3>1, <1>12
    <3>3. Len(<<>>) = 0
      OBVIOUS
    <3> QED
      BY <3>1, <3>2, <3>3
  <2>2. wire'[j][Len(wire'[j])] = wire[j][Len(wire[j])]
    BY <1>3, <1>4, <1>10, <2>1
  <2>3. \A n \in 1..(Len(wire'[j]) - 1) : wire'[j][n].status \notin Ended
    <3> SUFFICES ASSUME NEW n \in 1..(Len(wire'[j]) - 1) PROVE wire'[j][n].status \notin Ended
      OBVIOUS
    <3>1. n \in 1..Len(Tail(wire[j])) /\ n + 1 \in 1..(Len(wire[j]) - 1)
      BY <1>3, <2>1
    <3> QED
      BY <1>3, <1>4, <1>8, <3>1
  <2>4. OpenInv(j)'
    BY <1>2, <1>8, <2>1, <2>2, <2>3 DEF OpenInv, Latest
  <2>5. stream'[j] = "open" /\ u.status \notin Ended
    BY <1>4, <1>9, <1>10
  <2>6. WireInv'
    <3> SUFFICES ASSUME NEW k \in Jobs
                 PROVE  /\ OpenInv(k)' /\ OverInv(k)'
                        /\ seen'[k].status \in Ended => stream'[k] = "over"
                        /\ stream'[k] # "none" => job'[k] # Unseen
      BY DEF WireInv
    <3>1. CASE k = j
      BY <1>1, <1>2, <1>4, <2>4, <2>5, <3>1 DEF WireInv, OverInv
    <3>2. CASE k # j
      <4>1. OpenInv(k) /\ OverInv(k)
        BY <1>1 DEF WireInv
      <4> QED
        BY <1>1, <1>2, <1>4, <3>2, <4>1 DEF WireInv, OpenInv, OverInv, Latest
    <3> QED
      BY <3>1, <3>2
  <2>7. ReplyInv'
    BY <1>1, <1>2, <1>4, <1>5, <2>5 DEF ReplyInv, StreamTypeOK, MarketTabs, Replies
  <2>8. ButtonInv'
    <3>1. tab.batch # NoJob => tab.batch \in Jobs
      BY <1>1 DEF StreamTypeOK, MarketTabs
    <3>2. ~tab.busy => tab.batch # j
      <4>1. seen[j].status \notin Ended
        BY <1>1, <1>2 DEF WireInv
      <4> QED
        BY <1>1, <4>1, StreamAssumption DEF ButtonInv
    <3> QED
      BY <1>1, <1>2, <1>4, <1>5, <2>5, <3>1, <3>2 DEF ButtonInv
  <2> QED
    BY <1>6, <1>7, <2>6, <2>7, <2>8 DEF StreamInv
<1>11. CASE Len(wire[j]) = 1
  <2>1. wire'[j] = <<>> /\ u = job[j]
    BY <1>3, <1>4, <1>8, <1>11
  <2>2. OpenInv(j)'
    <3>1. Latest(j)' = job'[j]
      BY <1>2, <1>4, <2>1 DEF Latest
    <3>2. j \in subs' \/ job'[j].status \in Ended
      BY <1>2, <1>8
    <3>3. Len(wire'[j]) = 0
      BY <2>1
    <3> QED
      BY <3>1, <3>2, <3>3 DEF OpenInv
  <2>3. OverInv(j)'
    BY <1>2, <1>4, <2>1 DEF OverInv
  <2>4. WireInv'
    <3> SUFFICES ASSUME NEW k \in Jobs
                 PROVE  /\ OpenInv(k)' /\ OverInv(k)'
                        /\ seen'[k].status \in Ended => stream'[k] = "over"
                        /\ stream'[k] # "none" => job'[k] # Unseen
      BY DEF WireInv
    <3>1. CASE k = j
      <4>1. job[j] # Unseen
        BY <1>1, <1>2 DEF WireInv
      <4> QED
        BY <1>2, <1>4, <2>2, <2>3, <3>1, <4>1
    <3>2. CASE k # j
      <4>1. OpenInv(k) /\ OverInv(k)
        BY <1>1 DEF WireInv
      <4> QED
        BY <1>1, <1>2, <1>4, <3>2, <4>1 DEF WireInv, OpenInv, OverInv, Latest
    <3> QED
      BY <3>1, <3>2
  <2>5. stream'[j] # "none" /\ \A k \in Jobs : stream[k] = "none" => k # j
    BY <1>2, <1>4
  <2>6. ReplyInv'
    <3>1. \A q \in replies : q.job \in Jobs
      BY <1>1 DEF StreamTypeOK, Replies
    <3>2. \A q \in replies' : job'[q.job] # Unseen /\ stream'[q.job] = "none" /\ q.visit <= tab'.visit
      BY <1>1, <1>2, <1>4, <1>5, <2>5, <3>1 DEF ReplyInv
    <3>3. tab'.batch # NoJob => stream'[tab'.batch] # "none"
      BY <1>1, <1>4, <1>5, <2>5 DEF ReplyInv, StreamTypeOK, MarketTabs
    <3>4. \A q \in replies' : q.batch /\ q.visit = tab'.visit => tab'.busy /\ tab'.batch = NoJob
      BY <1>1, <1>2, <1>5, StreamAssumption DEF ReplyInv
    <3> QED
      BY <1>1, <1>2, <1>5, <3>2, <3>3, <3>4 DEF ReplyInv
  <2>7. ButtonInv'
    <3>1. tab.batch # NoJob => tab.batch \in Jobs
      BY <1>1 DEF StreamTypeOK, MarketTabs
    <3>2. CASE u.status \in Ended /\ tab.batch = j
      BY <1>4, <1>5, <3>2 DEF ButtonInv
    <3>3. CASE tab.batch = j /\ u.status \notin Ended
      <4>1. tab.busy
        BY <1>1, <1>2, <3>3, StreamAssumption DEF ButtonInv, WireInv
      <4> QED
        BY <1>4, <1>5, <3>3, <4>1, StreamAssumption DEF ButtonInv
    <3>4. CASE tab.batch # j
      BY <1>1, <1>2, <1>4, <1>5, <3>1, <3>4 DEF ButtonInv
    <3> QED
      BY <3>2, <3>3, <3>4
  <2> QED
    BY <1>6, <1>7, <2>4, <2>6, <2>7 DEF StreamInv
<1>13. Len(wire[j]) > 1 \/ Len(wire[j]) = 1
  <2> DEFINE n == Len(wire[j])
  <2>1. n \in Nat \ {0}
    BY <1>12
  <2> HIDE DEF n
  <2>2. n > 1 \/ n = 1
    BY <2>1
  <2> QED
    BY <2>2 DEF n
<1> QED
  BY <1>10, <1>11, <1>13

LEMMA StreamCutKeeps ==
    ASSUME StreamInv, NEW j \in Jobs, StreamCut(j)
    PROVE  StreamInv'
<1>1. /\ StreamTypeOK /\ LineInv /\ WireInv /\ ReplyInv /\ ButtonInv
  BY DEF StreamInv
<1>2. /\ stream[j] \in {"asked", "open"}
      /\ stream' = [stream EXCEPT ![j] = "over"]
      /\ wire' = [wire EXCEPT ![j] = <<>>]
      /\ subs' = subs \ {j} /\ cutOff' = cutOff \cup {j}
      /\ UNCHANGED <<inLine, job, stops, seen, replies, tab>>
  BY DEF StreamCut
<1>3. /\ stream' \in [Jobs -> {"none", "asked", "open", "over"}] /\ wire' \in [Jobs -> Seq(Updates)]
      /\ stream'[j] = "over" /\ wire'[j] = <<>>
      /\ \A k \in Jobs : k # j => stream'[k] = stream[k] /\ wire'[k] = wire[k]
  BY <1>1, <1>2 DEF StreamTypeOK
<1>4. StreamTypeOK' /\ LineInv'
  BY <1>1, <1>2, <1>3 DEF StreamTypeOK, LineInv
<1>5. WireInv'
  <2> SUFFICES ASSUME NEW k \in Jobs
               PROVE  /\ OpenInv(k)' /\ OverInv(k)'
                      /\ seen'[k].status \in Ended => stream'[k] = "over"
                      /\ stream'[k] # "none" => job'[k] # Unseen
    BY DEF WireInv
  <2>1. CASE k = j
    BY <1>1, <1>2, <1>3, <2>1 DEF WireInv, OpenInv, OverInv
  <2>2. CASE k # j
    <3>1. OpenInv(k) /\ OverInv(k)
      BY <1>1 DEF WireInv
    <3> QED
      BY <1>1, <1>2, <1>3, <2>2, <3>1 DEF WireInv, OpenInv, OverInv, Latest
  <2> QED
    BY <2>1, <2>2
<1>6. \A k \in Jobs : (stream[k] = "none") <=> (stream'[k] = "none")
  BY <1>2, <1>3
<1>7. ReplyInv'
  <2>1. \A q \in replies : q.job \in Jobs
    BY <1>1 DEF StreamTypeOK, Replies
  <2>2. tab.batch # NoJob => tab.batch \in Jobs
    BY <1>1 DEF StreamTypeOK, MarketTabs
  <2> QED
    BY <1>1, <1>2, <1>6, <2>1, <2>2 DEF ReplyInv
<1>8. ButtonInv'
  BY <1>1, <1>2, <1>3 DEF ButtonInv, StreamTypeOK, MarketTabs
<1> QED
  BY <1>4, <1>5, <1>7, <1>8 DEF StreamInv

\* A new visit: no answer under way is for it.
LEMMA LeavePageKeeps ==
    ASSUME StreamInv, LeavePage
    PROVE  StreamInv'
<1>1. /\ StreamTypeOK /\ LineInv /\ WireInv /\ ReplyInv /\ ButtonInv
  BY DEF StreamInv
<1>2. /\ tab' = Fresh(tab.visit + 1) /\ tab.visit \in Nat
      /\ UNCHANGED <<inLine, job, stops, subs, stream, wire, seen, replies, cutOff>>
  BY <1>1 DEF LeavePage, StreamTypeOK, MarketTabs
<1>3. tab' \in MarketTabs /\ tab'.visit = tab.visit + 1 /\ tab'.busy = FALSE /\ tab'.batch = NoJob
  BY <1>2 DEF Fresh, MarketTabs
<1>4. StreamTypeOK' /\ LineInv' /\ WireInv'
  BY <1>1, <1>2, <1>3 DEF StreamTypeOK, LineInv, WireInv, OpenInv, OverInv, Latest
<1>5. \A r \in replies : r.visit \in Nat /\ r.visit <= tab.visit
  BY <1>1 DEF ReplyInv, StreamTypeOK, Replies
<1>6. \A r \in replies : r.visit # tab'.visit /\ r.visit <= tab'.visit
  BY <1>2, <1>3, <1>5
<1>7. ReplyInv'
  BY <1>1, <1>2, <1>3, <1>6 DEF ReplyInv
<1>8. ButtonInv'
  BY <1>3 DEF ButtonInv
<1> QED
  BY <1>4, <1>7, <1>8 DEF StreamInv

\* After a restart nobody stands in line, and every stream that was open was cut.
LEMMA ServerRestartsKeeps ==
    ASSUME StreamInv, ServerRestarts
    PROVE  StreamInv'
<1>1. /\ StreamTypeOK /\ LineInv /\ WireInv /\ ReplyInv /\ ButtonInv
  BY DEF StreamInv
<1>2. /\ inLine' = <<>>
      /\ job' = [j \in Jobs |-> IF job[j] = Unseen THEN Unseen ELSE Forgotten]
      /\ stream' = [j \in Jobs |-> IF stream[j] = "open" THEN "over" ELSE stream[j]]
      /\ wire' = [j \in Jobs |-> <<>>]
      /\ cutOff' = cutOff \cup {j \in Jobs : stream[j] = "open"}
      /\ UNCHANGED <<seen, replies, tab>>
  BY DEF ServerRestarts
<1>3. Unseen \in Updates /\ Forgotten \in Updates /\ Unseen # Forgotten /\ <<>> \in Seq(Updates)
  BY DEF Unseen, Forgotten, Updates, Statuses
<1>4. job' \in [Jobs -> Updates] /\ stream' \in [Jobs -> {"none", "asked", "open", "over"}]
      /\ wire' \in [Jobs -> Seq(Updates)]
  BY <1>1, <1>2, <1>3 DEF StreamTypeOK
<1>5. StreamTypeOK'
  BY <1>1, <1>2, <1>4 DEF StreamTypeOK
<1>6. LineInv'
  BY <1>2 DEF LineInv
<1>7. WireInv'
  <2> SUFFICES ASSUME NEW k \in Jobs
               PROVE  /\ OpenInv(k)' /\ OverInv(k)'
                      /\ seen'[k].status \in Ended => stream'[k] = "over"
                      /\ stream'[k] # "none" => job'[k] # Unseen
    BY DEF WireInv
  <2>1. /\ OverInv(k)
        /\ seen[k].status \in Ended => stream[k] = "over"
        /\ stream[k] # "none" => job[k] # Unseen
    BY <1>1 DEF WireInv
  <2>2. /\ stream'[k] = IF stream[k] = "open" THEN "over" ELSE stream[k]
        /\ job'[k] = IF job[k] = Unseen THEN Unseen ELSE Forgotten
        /\ wire'[k] = <<>> /\ seen'[k] = seen[k]
        /\ k \notin cutOff' => k \notin cutOff /\ stream[k] # "open"
    BY <1>2
  <2>3. OpenInv(k)'
    BY <2>2 DEF OpenInv
  <2>4. OverInv(k)'
    BY <2>1, <2>2 DEF OverInv
  <2> QED
    BY <1>1, <1>3, <2>1, <2>2, <2>3, <2>4 DEF WireInv
<1>8. \A k \in Jobs : /\ (stream[k] = "none") <=> (stream'[k] = "none")
                      /\ job[k] # Unseen => job'[k] # Unseen
  BY <1>2, <1>3
<1>9. ReplyInv'
  <2>1. \A q \in replies : q.job \in Jobs
    BY <1>1 DEF StreamTypeOK, Replies
  <2>2. tab.batch # NoJob => tab.batch \in Jobs
    BY <1>1 DEF StreamTypeOK, MarketTabs
  <2> QED
    BY <1>1, <1>2, <1>8, <2>1, <2>2 DEF ReplyInv
<1>10. ButtonInv'
  <2>1. tab.batch # NoJob => tab.batch \in Jobs
    BY <1>1 DEF StreamTypeOK, MarketTabs
  <2>2. \A k \in Jobs : stream[k] \in {"asked", "open"} => stream'[k] = "asked" \/ k \in cutOff'
    BY <1>2
  <2>3. cutOff \subseteq cutOff'
    BY <1>2
  <2> QED
    BY <1>1, <1>2, <2>1, <2>2, <2>3 DEF ButtonInv
<1> QED
  BY <1>5, <1>6, <1>7, <1>9, <1>10 DEF StreamInv

LEMMA StreamStarts == StreamInit => StreamInv
<1> SUFFICES ASSUME StreamInit PROVE StreamInv
  OBVIOUS
<1>1. Unseen \in Updates /\ Unseen.status \notin Ended /\ Fresh(0) \in MarketTabs
  BY DEF Unseen, Updates, Statuses, Ended, Fresh, MarketTabs
<1>2. StreamTypeOK
  BY <1>1 DEF StreamInit, StreamTypeOK
<1>3. LineInv
  BY DEF StreamInit, LineInv
<1>4. WireInv
  BY <1>1 DEF StreamInit, WireInv, OpenInv, OverInv
<1>5. ReplyInv /\ ButtonInv
  BY DEF StreamInit, ReplyInv, ButtonInv, Fresh
<1> QED
  BY <1>2, <1>3, <1>4, <1>5 DEF StreamInv

LEMMA StreamStep == StreamInv /\ [StreamNext]_streamVars => StreamInv'
<1> SUFFICES ASSUME StreamInv, [StreamNext]_streamVars PROVE StreamInv'
  OBVIOUS
<1>1. CASE UNCHANGED streamVars
  BY <1>1 DEF streamVars, StreamInv, StreamTypeOK, LineInv, WireInv, OpenInv, OverInv, Latest,
              ReplyInv, ButtonInv
<1>2. ASSUME NEW j \in Jobs, NEW batch \in BOOLEAN, StartJob(j, batch) PROVE StreamInv'
  BY <1>2, StartJobKeeps
<1>3. ASSUME NEW r \in replies, ReplyArrives(r) PROVE StreamInv'
  BY <1>3, ReplyArrivesKeeps
<1>4. ASSUME NEW r \in replies, ReplyLost(r) PROVE StreamInv'
  BY <1>4, ReplyLostKeeps
<1>5. ASSUME NEW j \in Jobs, StreamOpens(j) PROVE StreamInv'
  BY <1>5, StreamOpensKeeps
<1>6. ASSUME NEW j \in Jobs, Delivered(j) PROVE StreamInv'
  BY <1>6, DeliveredKeeps
<1>7. ASSUME NEW j \in Jobs, StreamCut(j) PROVE StreamInv'
  BY <1>7, StreamCutKeeps
<1>8. CASE JobGoesOn
  BY <1>8, GoesOnKeeps
<1>9. ASSUME NEW result \in {"succeeded", "failed"}, JobEnds(result) PROVE StreamInv'
  BY <1>9, EndsKeeps
<1>10. CASE PressCancel
  BY <1>10, CancelKeeps
<1>11. CASE LeavePage
  BY <1>11, LeavePageKeeps
<1>12. CASE ServerRestarts
  BY <1>12, ServerRestartsKeeps
<1> QED
  BY <1>1, <1>2, <1>3, <1>4, <1>5, <1>6, <1>7, <1>8, <1>9, <1>10, <1>11, <1>12 DEF StreamNext

\* The invariant says what the page may rely on.
LEMMA StreamInvShows == StreamInv => PageFollowsItsTasks
<1> SUFFICES ASSUME StreamInv PROVE PageFollowsItsTasks
  OBVIOUS
<1>1. /\ StreamTypeOK /\ LineInv /\ WireInv /\ ButtonInv
  BY DEF StreamInv
<1>2. \A j \in Jobs : stream[j] \in {"open", "over"} /\ j \notin cutOff /\ wire[j] = <<>> =>
           seen[j] = job[j] \/ (job[j] = Forgotten /\ seen[j].status \in Ended)
  BY <1>1 DEF WireInv, OpenInv, OverInv, Latest
<1>3. ASSUME NEW j \in ToSet(inLine), job[j].status = "queued"
      PROVE  \E n \in 1..Len(inLine) : inLine[n] = j /\ n - 1 <= job[j].pos
  <2>1. inLine \in Seq(Jobs)
    BY <1>1 DEF StreamTypeOK
  <2>2. PICK n \in 1..Len(inLine) : inLine[n] = j
    BY <2>1 DEF ToSet
  <2>3. n # 1
    BY <1>3, <2>2, InLineIsLive DEF Running
  <2>4. n \in 2..Len(inLine)
    BY <2>1, <2>3
  <2>5. n - 1 <= job[j].pos
    BY <1>1, <2>2, <2>4 DEF LineInv
  <2> QED
    BY <2>2, <2>5
<1> QED
  BY <1>1, <1>2, <1>3 DEF PageFollowsItsTasks, ButtonInv

\* For any tasks, presses, visits, cut streams and restarts: the page knows what the server
\* knows once all that is on the way has arrived, nobody in line is nearer than his page was
\* told, and the button of a batch is taken exactly until its end was seen.
THEOREM PagesAlwaysFollow == Spec => []PageFollowsItsTasks
<1>1. Init => StreamInv
  BY StreamStarts DEF Init
<1>2. StreamInv /\ [Next]_vars => StreamInv'
  BY StreamStep DEF Next, vars
<1>3. StreamInv => PageFollowsItsTasks
  BY StreamInvShows
<1> QED
  BY <1>1, <1>2, <1>3, PTL DEF Spec

-----------------------------------------------------------------------------
(* The form of a playbook's variables.                                     *)

FormInv ==
    /\ schema \in Schemas \cup {<<>>}
    /\ filled \in [Names -> Values \cup {""}]

LEMMA SchemaIsOrdered ==
    ASSUME schema \in Schemas \cup {<<>>}
    PROVE  /\ Len(schema) \in Nat /\ FormFields = 1..Len(schema)
           /\ \A k \in FormFields : schema[k] \in FieldShapes
           /\ \A j, k \in FormFields : schema[j].name = schema[k].name => j = k
<1>1. /\ schema \in Seq(FieldShapes)
      /\ \A j, k \in DOMAIN schema : schema[j].name = schema[k].name => j = k
  <2>1. CASE schema \in Schemas
    BY <2>1, FormAssumption
  <2>2. CASE schema = <<>>
    BY <2>2
  <2> QED
    BY <2>1, <2>2
<1> QED
  BY <1>1 DEF FormFields

\* A name belongs to one field.
LEMMA NameHasField ==
    ASSUME schema \in Schemas \cup {<<>>}, NEW n \in Names
    PROVE  \E k \in FormFields : schema[k].name = n /\ FieldOf(n) = schema[k]
<1>1. \E k \in FormFields : schema[k].name = n
  BY DEF Names
<1> DEFINE j == CHOOSE k \in FormFields : schema[k].name = n
<1>2. j \in FormFields /\ schema[j].name = n
  BY <1>1
<1>3. FieldOf(n) = schema[j]
  BY DEF FieldOf
<1> QED
  BY <1>2, <1>3

LEMMA FieldIsOwn ==
    ASSUME schema \in Schemas \cup {<<>>}, NEW k \in FormFields
    PROVE  schema[k].name \in Names /\ FieldOf(schema[k].name) = schema[k]
<1>1. schema[k].name \in Names
  BY DEF Names
<1>2. PICK j \in FormFields : schema[j].name = schema[k].name /\ FieldOf(schema[k].name) = schema[j]
  BY <1>1, NameHasField
<1> QED
  BY <1>1, <1>2, SchemaIsOrdered

LEMMA ValuesAreInitialised ==
    ASSUME schema \in Schemas \cup {<<>>}
    PROVE  InitialValues(schema) \in [Names -> Values \cup {""}]
<1> DEFINE value(n) == LET f == schema[CHOOSE j \in DOMAIN schema : schema[j].name = n]
                       IN  IF f.default = Unset THEN "" ELSE f.default
<1>1. \A n \in Names : value(n) = IF FieldOf(n).default = Unset THEN "" ELSE FieldOf(n).default
  BY DEF FieldOf, FormFields
<1>2. \A n \in Names : FieldOf(n) \in FieldShapes
  BY NameHasField, SchemaIsOrdered
<1>3. \A n \in Names : value(n) \in Values \cup {""}
  BY <1>1, <1>2 DEF FieldShapes
<1> HIDE DEF value
<1>4. InitialValues(schema) = [n \in Names |-> value(n)]
  BY DEF InitialValues, Names, FormFields, value
<1> QED
  BY <1>3, <1>4

LEMMA FormStarts ==
    ASSUME FormInit \/ FormRests PROVE FormInv
<1>1. schema \in Schemas \cup {<<>>} /\ filled = InitialValues(schema)
  BY DEF FormInit, FormRests
<1> QED
  BY <1>1, ValuesAreInitialised DEF FormInv

LEMMA FormStep == FormInv /\ [FormNext]_formVars => FormInv'
<1> SUFFICES ASSUME FormInv, [FormNext]_formVars PROVE FormInv'
  OBVIOUS
<1>1. schema' = schema
  BY DEF FormNext, ResetDefaults, SubmitForm, TypeValue, formVars
<1>2. Names' = Names
  BY <1>1 DEF Names, FormFields
<1>3. filled' \in [Names -> Values \cup {""}]
  <2>1. CASE ResetDefaults
    BY <2>1, ValuesAreInitialised DEF ResetDefaults, FormInv
  <2>2. ASSUME NEW n \in Names, NEW v \in Values \cup {""}, TypeValue(n, v)
        PROVE  filled' \in [Names -> Values \cup {""}]
    BY <2>2 DEF TypeValue, FormInv
  <2>3. CASE SubmitForm \/ UNCHANGED formVars
    BY <2>3 DEF SubmitForm, formVars, FormInv
  <2> QED
    BY <2>1, <2>2, <2>3 DEF FormNext
<1> QED
  BY <1>1, <1>2, <1>3 DEF FormInv

-----------------------------------------------------------------------------
(* What the server keeps, field by field.                                   *)

\* What is kept after field k, of what was kept before it.
After(k, vals) ==
    IF Holds(schema[k].when, vals) THEN vals ELSE [vals EXCEPT ![schema[k].name] = Unset]

\* The function that keeps what is kept exists.
LEMMA KeepingGoesOn ==
    ASSUME NEW N \in Nat
    PROVE  \E f : f = [k \in 0..N |-> IF k = 0 THEN Collected ELSE After(k, f[k - 1])]
<1> DEFINE Good(f, n) == f = [k \in 0..n |-> IF k = 0 THEN Collected ELSE After(k, f[k - 1])]
           S == {n \in 0..N : \E f : Good(f, n)}
<1>1. 0 \in S
  <2> DEFINE f == [k \in 0..0 |-> Collected]
  <2>1. f = [k \in 0..0 |-> IF k = 0 THEN Collected ELSE After(k, f[k - 1])]
    OBVIOUS
  <2> HIDE DEF f
  <2> QED
    BY <2>1
<1>2. ASSUME NEW n \in 0..(N - 1), n \in S PROVE n + 1 \in S
  <2>1. PICK f : Good(f, n)
    BY <1>2
  <2> DEFINE g == [k \in 0..(n + 1) |-> IF k = n + 1 THEN After(n + 1, f[n]) ELSE f[k]]
  <2>2. \A k \in 0..n : f[k] = IF k = 0 THEN Collected ELSE After(k, f[k - 1])
    BY <2>1
  <2>3. \A k \in 0..n : g[k] = f[k]
    OBVIOUS
  <2>4. ASSUME NEW k \in 0..(n + 1)
        PROVE  g[k] = IF k = 0 THEN Collected ELSE After(k, g[k - 1])
    <3>1. CASE k = n + 1
      <4>1. g[k - 1] = f[n] /\ k # 0
        BY <3>1
      <4> QED
        BY <3>1, <4>1
    <3>2. CASE k # n + 1 /\ k # 0
      <4>1. k \in 0..n /\ k - 1 \in 0..n
        BY <3>2
      <4> HIDE DEF g
      <4> QED
        BY <2>2, <2>3, <3>2, <4>1
    <3>3. CASE k = 0
      BY <2>2, <3>3
    <3> QED
      BY <3>1, <3>2, <3>3
  <2>5. DOMAIN g = 0..(n + 1)
    OBVIOUS
  <2>6. g = [k \in 0..(n + 1) |-> g[k]]
    OBVIOUS
  <2> HIDE DEF g
  <2>7. Good(g, n + 1)
    BY <2>4, <2>6
  <2> HIDE DEF Good
  <2> QED
    BY <2>7
<1> HIDE DEF S
<1>3. 0..N \subseteq S
  BY <1>1, <1>2, UpTo
<1> QED
  BY <1>3 DEF S

LEMMA KeptFieldByField ==
    ASSUME schema \in Schemas \cup {<<>>}
    PROVE  /\ KeptUpTo[0] = Collected
           /\ \A k \in FormFields : KeptUpTo[k] = After(k, KeptUpTo[k - 1])
<1>1. Len(schema) \in Nat /\ FormFields = 1..Len(schema)
  BY SchemaIsOrdered
<1>2. \E f : f = [k \in 0..Len(schema) |-> IF k = 0 THEN Collected ELSE After(k, f[k - 1])]
  BY <1>1, KeepingGoesOn
<1>3. KeptUpTo = CHOOSE f : f = [k \in 0..Len(schema) |-> IF k = 0 THEN Collected ELSE After(k, f[k - 1])]
  BY DEF KeptUpTo, After
<1>4. KeptUpTo = [k \in 0..Len(schema) |-> IF k = 0 THEN Collected ELSE After(k, KeptUpTo[k - 1])]
  BY <1>2, <1>3
<1> QED
  BY <1>1, <1>4

LEMMA FieldIsCounted ==
    ASSUME schema \in Schemas \cup {<<>>}, NEW k \in FormFields
    PROVE  k \in 0..Len(schema) /\ k - 1 \in 0..Len(schema) /\ ~(k <= k - 1)
<1> DEFINE L == Len(schema)
<1>1. L \in Nat /\ k \in 1..L
  BY SchemaIsOrdered
<1> HIDE DEF L
<1>2. k \in 0..L /\ k - 1 \in 0..L /\ ~(k <= k - 1)
  BY <1>1
<1> QED
  BY <1>2 DEF L

LEMMA CollectedNames == DOMAIN Collected = Names
  BY DEF Collected

\* A field keeps what was collected as long as it is not hidden.
LEMMA KeptUnlessHidden ==
    ASSUME schema \in Schemas \cup {<<>>}, NEW j \in FormFields, NEW N \in 0..Len(schema),
           j <= N => SeenByServer(j)
    PROVE  DOMAIN KeptUpTo[N] = Names /\ KeptUpTo[N][schema[j].name] = Collected[schema[j].name]
<1> DEFINE n == schema[j].name
           S == {k \in 0..N : DOMAIN KeptUpTo[k] = Names /\ KeptUpTo[k][n] = Collected[n]}
<1>1. /\ Len(schema) \in Nat /\ FormFields = 1..Len(schema) /\ N \in Nat
      /\ \A i \in FormFields : schema[i].name = n => i = j
  BY SchemaIsOrdered
<1>2. 0 \in S
  BY <1>1, KeptFieldByField, CollectedNames
<1>3. ASSUME NEW k \in 0..(N - 1), k \in S PROVE k + 1 \in S
  <2>1. k + 1 \in FormFields /\ k + 1 \in 0..N /\ (k + 1) - 1 = k
    BY <1>1
  <2>2. KeptUpTo[k + 1] = After(k + 1, KeptUpTo[k])
    BY <2>1, KeptFieldByField
  <2>3. DOMAIN KeptUpTo[k] = Names /\ KeptUpTo[k][n] = Collected[n]
    BY <1>3
  <2>4. CASE k + 1 = j
    <3>1. Holds(schema[k + 1].when, KeptUpTo[k])
      BY <1>1, <2>1, <2>4 DEF SeenByServer
    <3>2. KeptUpTo[k + 1] = KeptUpTo[k]
      BY <2>2, <3>1 DEF After
    <3> QED
      BY <2>1, <2>3, <3>2
  <2>5. CASE k + 1 # j
    <3>1. schema[k + 1].name # n
      BY <1>1, <2>1, <2>5
    <3>2. DOMAIN KeptUpTo[k + 1] = Names /\ KeptUpTo[k + 1][n] = KeptUpTo[k][n]
      <4>1. CASE Holds(schema[k + 1].when, KeptUpTo[k])
        BY <2>2, <2>3, <4>1 DEF After
      <4>2. CASE ~Holds(schema[k + 1].when, KeptUpTo[k])
        <5>1. KeptUpTo[k + 1] = [KeptUpTo[k] EXCEPT ![schema[k + 1].name] = Unset]
          BY <2>2, <4>2 DEF After
        <5>2. n \in Names
          BY FieldIsOwn
        <5> HIDE DEF n
        <5> QED
          BY <2>3, <3>1, <5>1, <5>2
      <4> QED
        BY <4>1, <4>2
    <3> QED
      BY <2>1, <2>3, <3>2
  <2> QED
    BY <2>4, <2>5
<1> HIDE DEF S
<1>4. 0..N \subseteq S
  BY <1>1, <1>2, <1>3, UpTo
<1>5. N \in S
  BY <1>1, <1>4
<1> QED
  BY <1>5 DEF S

\* What is submitted is collected as it was typed; what is empty comes back as its default.
LEMMA CollectedAsTyped ==
    ASSUME FormInv, NEW k \in FormFields, SeenByUser(schema[k])
    PROVE  LET n == schema[k].name IN
           /\ filled[n] # "" => Collected[n] = filled[n]
           /\ filled[n] = "" /\ schema[k].default # Unset => Collected[n] = schema[k].default
<1> DEFINE n == schema[k].name
<1>1. n \in Names /\ FieldOf(n) = schema[k]
  BY FieldIsOwn DEF FormInv
<1>2. filled[n] # "" => n \in Submitted
  BY DEF Submitted
<1>3. filled[n] = "" => n \notin Submitted
  BY DEF Submitted
<1> HIDE DEF n
<1> QED
  BY <1>1, <1>2, <1>3 DEF Collected, n

\* The condition of a field that is not unsteady reads the same value in the form and on the
\* server.
LEMMA SteadyIsSeenAlike ==
    ASSUME FormInv, NEW k \in FormFields, ~Unsteady(schema[k])
    PROVE  SeenByUser(schema[k]) <=> SeenByServer(k)
<1> DEFINE w == schema[k].when
<1>1. schema \in Schemas \cup {<<>>} /\ filled \in [Names -> Values \cup {""}]
  BY DEF FormInv
<1> DEFINE N == k - 1
<1>2. N \in 0..Len(schema) /\ ~(k <= N)
  BY <1>1, FieldIsCounted
<1> HIDE DEF N
<1>3. CASE w = Always
  BY <1>3 DEF SeenByUser, SeenByServer, Holds
<1>4. CASE w # Always
  <2>1. ValueOf(w.on, filled) = ValueOf(w.on, KeptUpTo[N])
    <3>1. DOMAIN filled = Names /\ DOMAIN KeptUpTo[N] = Names
      BY <1>1, <1>2, KeptUnlessHidden
    <3>2. CASE w.on \notin Names
      BY <3>1, <3>2 DEF ValueOf
    <3>3. CASE w.on \in Names
      <4>1. PICK j \in FormFields : schema[j].name = w.on /\ FieldOf(w.on) = schema[j]
        BY <1>1, <3>3, NameHasField
      <4>2. schema[j].when = Always /\ ~(filled[w.on] = "" /\ schema[j].default # "")
        BY <1>4, <3>3, <4>1 DEF Unsteady
      <4>3. SeenByServer(j) /\ SeenByUser(schema[j])
        BY <4>2 DEF SeenByServer, SeenByUser, Holds
      <4>4. KeptUpTo[N][w.on] = Collected[w.on]
        <5>1. KeptUpTo[N][schema[j].name] = Collected[schema[j].name]
          BY <1>1, <1>2, <4>3, KeptUnlessHidden
        <5> QED
          BY <4>1, <5>1
      <4>5. /\ filled[w.on] # "" => Collected[w.on] = filled[w.on]
            /\ filled[w.on] = "" /\ schema[j].default # Unset => Collected[w.on] = schema[j].default
        BY <4>1, <4>3, CollectedAsTyped
      <4>6. Collected[w.on] = filled[w.on]
        BY <4>2, <4>5, FormAssumption
      <4> QED
        BY <3>1, <3>3, <4>4, <4>6 DEF ValueOf
    <3> QED
      BY <3>2, <3>3
  <2> QED
    BY <1>4, <2>1 DEF SeenByUser, SeenByServer, Holds, N
<1> QED
  BY <1>3, <1>4

\* A form without unsteady conditions that the browser lets pass is not refused.
LEMMA SteadyPassesTwice ==
    ASSUME FormInv, \A k \in FormFields : ~Unsteady(schema[k]), WrongInForm = {}
    PROVE  WrongForServer = {}
<1> SUFFICES ASSUME NEW k \in FormFields, SeenByServer(k), schema[k].required,
                    KeptUpTo[k][schema[k].name] \in {"", Unset}
             PROVE  FALSE
  BY DEF WrongForServer
<1>1. SeenByUser(schema[k])
  BY SteadyIsSeenAlike
<1>2. filled[schema[k].name] # ""
  BY <1>1 DEF WrongInForm
<1>3. Collected[schema[k].name] = filled[schema[k].name]
  BY <1>1, <1>2, CollectedAsTyped
<1>4. k \in 0..Len(schema)
  BY FieldIsCounted DEF FormInv
<1>5. KeptUpTo[k][schema[k].name] = Collected[schema[k].name]
  BY <1>4, KeptUnlessHidden DEF FormInv
<1>6. schema[k].name \in Names
  BY FieldIsOwn DEF FormInv
<1>7. filled[schema[k].name] # Unset
  BY <1>6, FormAssumption DEF FormInv
<1> QED
  BY <1>2, <1>3, <1>5, <1>7

\* For any forms and whatever is typed: the browser shows the fields that the server checks,
\* and what it lets pass is not refused, unless a condition is unsteady.
THEOREM SeenIsAlwaysChecked == Spec => []SeenIsChecked
<1>1. Init => FormInv
  BY FormStarts DEF Init
<1>2. FormInv /\ [Next]_vars => FormInv'
  BY FormStep DEF Next, vars
<1>3. FormInv => SeenIsChecked
  BY SteadyIsSeenAlike, SteadyPassesTwice DEF SeenIsChecked
<1> QED
  BY <1>1, <1>2, <1>3, PTL DEF Spec

-----------------------------------------------------------------------------
(***************************************************************************)
(* Connections.  First the parser of what the script prints: each entry    *)
(* belongs to the last heading above it.                                   *)
(***************************************************************************)
Words == STRING \cup {"", "end", Fragment0}
PrintedLines == {"heading", "entry", "==="} \X Words
Accs == [section : Words, of : SUBSET (Words \X Words)]

\* Line i is in section s.
Opens(lines, j, i, s) ==
    lines[j] = Heading(s) /\ \A k \in (j + 1)..(i - 1) : lines[k][1] # "heading"
Under(lines, i, s) == s # "" /\ \E j \in 1..(i - 1) : Opens(lines, j, i, s)

Belongs(lines, n) ==
    {x \in Words \X Words : \E i \in 1..n : lines[i] = Entry(x[2]) /\ Under(lines, i, x[1])}

LEMMA UnderGoesOn ==
    ASSUME NEW lines \in Seq(PrintedLines), NEW n \in Nat, n + 1 \in DOMAIN lines, NEW s
    PROVE  Under(lines, n + 2, s) <=>
               IF lines[n + 1][1] = "heading" THEN s # "" /\ s = lines[n + 1][2] ELSE Under(lines, n + 1, s)
<1> DEFINE l == lines[n + 1]
<1>0. (n + 2) - 1 = n + 1 /\ (n + 1) - 1 = n
  OBVIOUS
<1>1. l \in PrintedLines
  OBVIOUS
<1>2. l = <<l[1], l[2]>>
  BY <1>1 DEF PrintedLines
<1>3. \A j \in 1..(n + 1) : j = n + 1 \/ j \in 1..n
  OBVIOUS
<1>4. (\A j \in 1..n : j \in 1..(n + 1) /\ j # n + 1 /\ n + 1 \in (j + 1)..(n + 1)) /\ n + 1 \in 1..(n + 1)
  OBVIOUS
<1>5. \A k : k \in ((n + 1) + 1)..(n + 1) => FALSE
  OBVIOUS
<1>6. \A j \in 1..n : \A k \in (j + 1)..(n + 1) : k = n + 1 \/ k \in (j + 1)..n
  OBVIOUS
<1>7. \A j \in 1..n : \A k \in (j + 1)..n : k \in (j + 1)..(n + 1)
  OBVIOUS
<1>8. CASE l[1] = "heading"
  <2>1. ASSUME Under(lines, n + 2, s) PROVE s # "" /\ s = l[2]
    <3>1. PICK j \in 1..(n + 1) : /\ lines[j] = Heading(s)
                                  /\ \A k \in (j + 1)..(n + 1) : lines[k][1] # "heading"
      BY <1>0, <2>1 DEF Under, Opens
    <3>2. j = n + 1
      BY <1>3, <1>4, <1>8, <3>1
    <3>3. l = <<"heading", s>>
      BY <3>1, <3>2 DEF Heading
    <3>4. l[2] = s
      BY <3>3
    <3>5. s # ""
      BY <2>1 DEF Under, Opens
    <3> QED
      BY <3>4, <3>5
  <2>2. ASSUME s # "", s = l[2] PROVE Under(lines, n + 2, s)
    <3>1. lines[n + 1] = Heading(s)
      BY <1>2, <1>8, <2>2 DEF Heading
    <3> QED
      BY <1>0, <1>4, <1>5, <2>2, <3>1 DEF Under, Opens
  <2> QED
    BY <1>8, <2>1, <2>2
<1>9. CASE l[1] # "heading"
  <2>1. ASSUME Under(lines, n + 2, s) PROVE Under(lines, n + 1, s)
    <3>1. PICK j \in 1..(n + 1) : /\ lines[j] = Heading(s)
                                  /\ \A k \in (j + 1)..(n + 1) : lines[k][1] # "heading"
      BY <1>0, <2>1 DEF Under, Opens
    <3>2. j # n + 1
      BY <1>9, <3>1 DEF Heading
    <3>3. j \in 1..n
      BY <1>3, <3>2
    <3> QED
      BY <1>0, <1>7, <2>1, <3>1, <3>3 DEF Under, Opens
  <2>2. ASSUME Under(lines, n + 1, s) PROVE Under(lines, n + 2, s)
    <3>1. PICK j \in 1..n : /\ lines[j] = Heading(s)
                            /\ \A k \in (j + 1)..n : lines[k][1] # "heading"
      BY <1>0, <2>2 DEF Under, Opens
    <3>2. \A k \in (j + 1)..(n + 1) : lines[k][1] # "heading"
      BY <1>6, <1>9, <3>1
    <3> QED
      BY <1>0, <1>4, <2>2, <3>1, <3>2 DEF Under, Opens
  <2> QED
    BY <1>9, <2>1, <2>2
<1> QED
  BY <1>8, <1>9

\* What the parser has after n lines.
TakenAt(lines, n, acc) ==
    /\ acc \in Accs /\ acc.of = Belongs(lines, n)
    /\ \A s \in Words : Under(lines, n + 1, s) <=> s # "" /\ s = acc.section

LEMMA TakingGoesOn ==
    ASSUME NEW lines \in Seq(PrintedLines), NEW n \in Nat, n + 1 \in DOMAIN lines, NEW acc, TakenAt(lines, n, acc)
    PROVE  TakenAt(lines, n + 1, TakeLine(acc, lines[n + 1]))
<1> DEFINE l == lines[n + 1]
           t == TakeLine(acc, l)
<1>1. l \in PrintedLines
  OBVIOUS
<1>2. l[1] \in {"heading", "entry", "==="} /\ l[2] \in Words /\ l = <<l[1], l[2]>>
  BY <1>1 DEF PrintedLines
<1>3. /\ acc.section \in Words /\ acc.of \subseteq Words \X Words /\ acc = [section |-> acc.section, of |-> acc.of]
      /\ acc.of = Belongs(lines, n)
      /\ \A s \in Words : Under(lines, n + 1, s) <=> s # "" /\ s = acc.section
  BY DEF TakenAt, Accs
<1>4. \A s \in Words : Under(lines, n + 2, s) <=>
          IF l[1] = "heading" THEN s # "" /\ s = l[2] ELSE s # "" /\ s = acc.section
  BY <1>3, UnderGoesOn
<1>5. (n + 1) + 1 = n + 2 /\ (\A i \in 1..(n + 1) : i = n + 1 \/ i \in 1..n) /\ n + 1 \in 1..(n + 1)
      /\ \A i \in 1..n : i \in 1..(n + 1)
  OBVIOUS
<1> HIDE DEF l
<1>6. CASE l[1] = "heading"
  <2>1. t = [section |-> l[2], of |-> acc.of]
    BY <1>6 DEF TakeLine
  <2>2. t \in Accs /\ t.section = l[2] /\ t.of = acc.of
    <3> HIDE DEF t
    <3>1. l[2] \in Words /\ acc.of \in SUBSET (Words \X Words)
      BY <1>2, <1>3
    <3> QED
      BY <2>1, <3>1 DEF Accs
  <2>3. Belongs(lines, n + 1) = Belongs(lines, n)
    <3>1. \A x : lines[n + 1] # Entry(x)
      BY <1>6 DEF Entry, l
    <3> QED
      BY <1>5, <3>1 DEF Belongs
  <2> HIDE DEF t
  <2> QED
    BY <1>3, <1>4, <1>5, <1>6, <2>2, <2>3 DEF TakenAt, t, l
<1>7. CASE l[1] = "entry" /\ acc.section # ""
  <2> DEFINE x0 == <<acc.section, l[2]>>
  <2>1. t = [acc EXCEPT !.of = acc.of \cup {x0}]
    BY <1>7 DEF TakeLine
  <2>2. x0 \in Words \X Words
    BY <1>2, <1>3
  <2>3. t \in Accs /\ t.section = acc.section /\ t.of = acc.of \cup {x0}
    <3> HIDE DEF x0, t
    <3>1. t = [section |-> acc.section, of |-> acc.of \cup {x0}]
      BY <1>3, <2>1
    <3> QED
      BY <1>3, <2>2, <3>1 DEF Accs
  <2>4. Belongs(lines, n + 1) = Belongs(lines, n) \cup {x0}
    <3>1. ASSUME NEW x \in Belongs(lines, n + 1) PROVE x \in Belongs(lines, n) \cup {x0}
      <4>1. x \in Words \X Words /\ x = <<x[1], x[2]>> /\ x[1] \in Words
        BY <3>1 DEF Belongs
      <4>2. PICK i \in 1..(n + 1) : lines[i] = Entry(x[2]) /\ Under(lines, i, x[1])
        BY <3>1 DEF Belongs
      <4>3. CASE i = n + 1
        <5>1. x[2] = l[2]
          BY <4>2, <4>3 DEF Entry, l
        <5>2. x[1] = acc.section
          BY <1>3, <4>1, <4>2, <4>3
        <5> QED
          BY <4>1, <5>1, <5>2
      <4>4. CASE i \in 1..n
        BY <4>1, <4>2, <4>4 DEF Belongs
      <4> QED
        BY <1>5, <4>3, <4>4
    <3>2. Belongs(lines, n) \subseteq Belongs(lines, n + 1)
      BY <1>5 DEF Belongs
    <3>3. x0 \in Belongs(lines, n + 1)
      <4>1. lines[n + 1] = Entry(x0[2])
        BY <1>2, <1>7 DEF Entry, l
      <4>2. Under(lines, n + 1, x0[1])
        BY <1>3, <1>7
      <4> QED
        BY <1>5, <2>2, <4>1, <4>2 DEF Belongs
    <3> QED
      BY <3>1, <3>2, <3>3
  <2> HIDE DEF t, x0
  <2>5. \A s \in Words : Under(lines, n + 2, s) <=> s # "" /\ s = t.section
    BY <1>4, <1>7, <2>3
  <2> QED
    BY <1>3, <1>5, <2>3, <2>4, <2>5 DEF TakenAt, t, l
<1>8. CASE l[1] # "heading" /\ ~(l[1] = "entry" /\ acc.section # "")
  <2>1. t = acc
    BY <1>8 DEF TakeLine
  <2>2. Belongs(lines, n + 1) = Belongs(lines, n)
    <3>1. Belongs(lines, n) \subseteq Belongs(lines, n + 1)
      BY <1>5 DEF Belongs
    <3>2. ASSUME NEW x \in Belongs(lines, n + 1) PROVE x \in Belongs(lines, n)
      <4>1. x \in Words \X Words /\ x[1] \in Words
        BY <3>2 DEF Belongs
      <4>2. PICK i \in 1..(n + 1) : lines[i] = Entry(x[2]) /\ Under(lines, i, x[1])
        BY <3>2 DEF Belongs
      <4>3. i # n + 1
        <5>1. ASSUME i = n + 1 PROVE FALSE
          <6>1. l[1] = "entry"
            BY <4>2, <5>1 DEF Entry, l
          <6>2. acc.section # ""
            BY <1>3, <4>1, <4>2, <5>1
          <6> QED
            BY <1>8, <6>1, <6>2
        <5> QED
          BY <5>1
      <4> QED
        BY <1>5, <4>1, <4>2, <4>3 DEF Belongs
    <3> QED
      BY <3>1, <3>2
  <2> HIDE DEF t
  <2>3. \A s \in Words : Under(lines, n + 2, s) <=> s # "" /\ s = t.section
    BY <1>4, <1>8, <2>1
  <2> QED
    BY <1>3, <1>5, <2>1, <2>2, <2>3 DEF TakenAt, t, l
<1> QED
  BY <1>6, <1>7, <1>8

\* parseSections is what it should be, for any lines.
LEMMA SectionedIs == \A lines \in Seq(PrintedLines) : Sectioned(lines) = Belongs(lines, Len(lines))
<1> TAKE lines \in Seq(PrintedLines)
<1> DEFINE N == Len(lines)
           start0 == [section |-> "", of |-> {}]
           follow == [k \in 1..N |-> [a \in Accs |-> TakeLine(a, lines[k])]]
           Reads(f) == f = [n \in 0..N |-> IF n = 0 THEN start0 ELSE TakeLine(f[n - 1], lines[n])]
<1>1. N \in Nat /\ DOMAIN lines = 1..N /\ \A k \in 1..N : lines[k] \in PrintedLines
  OBVIOUS
<1>2. start0 \in Accs
  BY DEF Accs, Words
<1>3. ASSUME NEW a \in Accs, NEW l \in PrintedLines PROVE TakeLine(a, l) \in Accs
  <2>1. l[1] \in {"heading", "entry", "==="} /\ l[2] \in Words
    BY DEF PrintedLines
  <2>2. a.section \in Words /\ a.of \in SUBSET (Words \X Words) /\ a = [section |-> a.section, of |-> a.of]
    BY DEF Accs
  <2>3. CASE l[1] = "heading"
    <3>1. TakeLine(a, l) = [section |-> l[2], of |-> a.of]
      BY <2>3 DEF TakeLine
    <3> QED
      BY <2>1, <2>2, <3>1 DEF Accs
  <2>4. CASE l[1] = "entry" /\ a.section # ""
    <3> DEFINE x == <<a.section, l[2]>>
    <3>1. x \in Words \X Words
      BY <2>1, <2>2
    <3>2. TakeLine(a, l) = [a EXCEPT !.of = a.of \cup {x}]
      BY <2>4 DEF TakeLine
    <3> HIDE DEF x
    <3>3. TakeLine(a, l) = [section |-> a.section, of |-> a.of \cup {x}]
      BY <2>2, <3>2
    <3> QED
      BY <2>2, <3>1, <3>3 DEF Accs
  <2>5. CASE l[1] # "heading" /\ ~(l[1] = "entry" /\ a.section # "")
    BY <2>5 DEF TakeLine
  <2> QED
    BY <2>3, <2>4, <2>5
<1>4. follow \in [1..N -> [Accs -> Accs]]
  BY <1>1, <1>3
<1>5. \E f : Reads(f)
  <2> HIDE DEF follow, start0
  <2>0. N \in Nat /\ start0 \in Accs /\ follow \in RecursionSteps(N, Accs)
    BY <1>1, <1>2, <1>4 DEF RecursionSteps
  <2> HIDE DEF N
  <2>1. PICK f : Recurs(f, N, Accs, start0, follow)
    BY <2>0, Recursion
  <2> USE DEF Recurs
  <2>2. ASSUME NEW k \in 0..N, k # 0 PROVE f[k] = TakeLine(f[k - 1], lines[k])
    <3>1. k \in 1..N /\ k - 1 \in 0..N
      BY <2>0, <2>2
    <3>2. f[k - 1] \in Accs /\ f[k] = follow[k][f[k - 1]]
      BY <2>1, <2>2, <3>1
    <3> QED
      BY <3>1, <3>2 DEF follow
  <2>3. f[0] = start0
    BY <2>0, <2>1
  <2>4. f = [k \in 0..N |-> f[k]]
    BY <2>1
  <2> QED
    BY <2>2, <2>3, <2>4
<1>6. Sectioned(lines) = (CHOOSE f : Reads(f))[N].of
  BY DEF Sectioned
<1>7. PICK f : Reads(f) /\ Sectioned(lines) = f[N].of
  BY <1>5, <1>6
<1>8. f[0] = start0
  <2>1. 0 \in 0..N
    BY <1>1
  <2> QED
    BY <1>7, <2>1
<1>9. \A k \in 0..(N - 1) : f[k + 1] = TakeLine(f[k], lines[k + 1])
  <2> TAKE k \in 0..(N - 1)
  <2>1. k + 1 \in 0..N /\ k + 1 # 0 /\ (k + 1) - 1 = k
    BY <1>1
  <2>2. \A n \in 0..N : n # 0 => f[n] = TakeLine(f[n - 1], lines[n])
    BY <1>7
  <2> HIDE DEF Reads
  <2> QED
    BY <2>1, <2>2
<1> HIDE DEF Reads, follow
<1> DEFINE S == {k \in 0..N : TakenAt(lines, k, f[k])}
<1>10. 0 \in S
  <2>1. Belongs(lines, 0) = {} /\ \A s : ~Under(lines, 0 + 1, s)
    BY DEF Belongs, Under, Opens
  <2>2. start0.section = "" /\ start0.of = {}
    OBVIOUS
  <2> HIDE DEF start0
  <2>3. \A s \in Words : Under(lines, 0 + 1, s) <=> s # "" /\ s = start0.section
    BY <2>1, <2>2
  <2>4. TakenAt(lines, 0, start0)
    BY <1>2, <2>1, <2>2, <2>3 DEF TakenAt
  <2> QED
    BY <1>1, <1>8, <2>4
<1>11. ASSUME NEW k \in 0..(N - 1), k \in S PROVE k + 1 \in S
  <2>1. k \in Nat /\ k + 1 \in DOMAIN lines /\ k + 1 \in 0..N
    BY <1>1
  <2>2. TakenAt(lines, k + 1, TakeLine(f[k], lines[k + 1]))
    BY <1>11, <2>1, TakingGoesOn
  <2> QED
    BY <1>9, <2>1, <2>2
<1> HIDE DEF S
<1>12. 0..N \subseteq S
  BY <1>1, <1>10, <1>11, UpTo
<1>13. N \in S
  BY <1>1, <1>12
<1> QED
  BY <1>7, <1>13 DEF S, TakenAt

-----------------------------------------------------------------------------
\* What the script prints, and what comes of it.
LEMMA SetToSeqIs ==
    ASSUME NEW S, IsFiniteSet(S)
    PROVE  /\ SetToSeq(S) \in Seq(S) /\ \A x \in S : \E i \in 1..Len(SetToSeq(S)) : SetToSeq(S)[i] = x
<1> DEFINE n == Cardinality(S)
           q == SetToSeq(S)
<1>1. n \in Nat /\ ExistsBijection(1..n, S)
  BY FS_CardinalityType
<1>2. \E f \in [1..n -> S] : IsInjective(f)
  BY <1>1 DEF ExistsBijection, Bijection, Injection, IsInjective
<1>3. q \in [1..n -> S] /\ IsInjective(q)
  BY <1>2 DEF SetToSeq
<1> HIDE DEF q
<1>4. q \in Injection(1..n, S)
  BY <1>3 DEF Injection, IsInjective
<1>5. Cardinality(1..n) = n
  BY <1>1, FS_Interval, 1 \in Int, n \in Int
<1> HIDE DEF n
<1>6. Cardinality(1..n) = Cardinality(S)
  BY <1>5 DEF n
<1>7. q \in Surjection(1..n, S)
  BY <1>4, <1>6, FS_Injection
<1>8. q \in Seq(S) /\ Len(q) = n
  BY <1>1, <1>3
<1> QED
  BY <1>7, <1>8 DEF Surjection, q

\* What belongs where does not depend on what comes later.
LEMMA SamePrefix ==
    ASSUME NEW k \in Nat, NEW l, NEW m, \A i \in 1..k : l[i] = m[i]
    PROVE  Belongs(l, k) = Belongs(m, k)
<1>1. ASSUME NEW i \in 1..k, NEW s PROVE Under(l, i, s) <=> Under(m, i, s)
  <2>1. \A j \in 1..(i - 1) : j \in 1..k
    OBVIOUS
  <2>2. \A j \in 1..(i - 1) : \A h \in (j + 1)..(i - 1) : h \in 1..k
    OBVIOUS
  <2> QED
    BY <2>1, <2>2 DEF Under, Opens
<1> QED
  BY <1>1 DEF Belongs

LEMMA MoreBelongs ==
    ASSUME NEW k \in Nat, NEW n \in Nat, k <= n, NEW l
    PROVE  Belongs(l, k) \subseteq Belongs(l, n)
<1>1. \A i \in 1..k : i \in 1..n
  OBVIOUS
<1> QED
  BY <1>1 DEF Belongs

\* A heading separates what is before it from what comes after.
LEMMA BlocksAreApart ==
    ASSUME NEW l \in Seq(PrintedLines), NEW m \in Seq(PrintedLines), m # <<>>, m[1][1] = "heading"
    PROVE  Belongs(l \o m, Len(l \o m)) = Belongs(l, Len(l)) \cup Belongs(m, Len(m))
<1> DEFINE L == Len(l)
           M == Len(m)
           c == l \o m
<1>1. L \in Nat /\ M \in Nat /\ M > 0 /\ Len(c) = L + M
  OBVIOUS
<1>2. (\A i \in 1..L : c[i] = l[i]) /\ \A i \in 1..M : c[L + i] = m[i]
  OBVIOUS
<1> HIDE DEF c, L, M
<1>3. c[L + 1][1] = "heading"
  BY <1>1, <1>2
<1>4. ASSUME NEW i \in 1..M, i # 1, NEW s PROVE Under(c, L + i, s) <=> Under(m, i, s)
  <2>1. ASSUME Under(c, L + i, s) PROVE Under(m, i, s)
    <3>0. PICK j \in 1..((L + i) - 1) : Opens(c, j, L + i, s)
      BY <2>1 DEF Under
    <3>1. c[j] = Heading(s) /\ \A k \in (j + 1)..((L + i) - 1) : c[k][1] # "heading"
      BY <3>0 DEF Opens
    <3>2. j >= L + 1
      <4>1. j <= L => L + 1 \in (j + 1)..((L + i) - 1)
        BY <1>1, <1>4
      <4> QED
        BY <1>1, <1>3, <3>1, <4>1
    <3>3. j - L \in 1..(i - 1) /\ j - L \in 1..M /\ j = L + (j - L)
      BY <1>1, <3>2
    <3>4. m[j - L] = Heading(s)
      BY <1>2, <3>1, <3>3
    <3>5. ASSUME NEW k \in ((j - L) + 1)..(i - 1) PROVE m[k][1] # "heading"
      <4>1. L + k \in (j + 1)..((L + i) - 1) /\ k \in 1..M
        BY <1>1, <3>3
      <4> QED
        BY <1>2, <3>1, <4>1
    <3>6. Opens(m, j - L, i, s)
      BY <3>4, <3>5 DEF Opens
    <3> QED
      BY <2>1, <3>3, <3>6 DEF Under
  <2>2. ASSUME Under(m, i, s) PROVE Under(c, L + i, s)
    <3>0. PICK j \in 1..(i - 1) : Opens(m, j, i, s)
      BY <2>2 DEF Under
    <3>1. m[j] = Heading(s) /\ \A k \in (j + 1)..(i - 1) : m[k][1] # "heading"
      BY <3>0 DEF Opens
    <3>2. L + j \in 1..((L + i) - 1) /\ j \in 1..M
      BY <1>1
    <3>3. c[L + j] = Heading(s)
      BY <1>2, <3>1, <3>2
    <3>4. ASSUME NEW k \in (L + j + 1)..((L + i) - 1) PROVE c[k][1] # "heading"
      <4>1. k - L \in (j + 1)..(i - 1) /\ k - L \in 1..M /\ k = L + (k - L)
        BY <1>1
      <4> QED
        BY <1>2, <3>1, <4>1
    <3>5. Opens(c, L + j, L + i, s)
      BY <3>3, <3>4 DEF Opens
    <3> QED
      BY <2>2, <3>2, <3>5 DEF Under
  <2> QED
    BY <2>1, <2>2
<1>5. Belongs(c, L) = Belongs(l, L)
  BY <1>1, <1>2, SamePrefix
<1>6. Belongs(c, L) \subseteq Belongs(c, L + M)
  BY <1>1, MoreBelongs
<1>7. ASSUME NEW x \in Belongs(m, M) PROVE x \in Belongs(c, L + M)
  <2>1. PICK i \in 1..M : m[i] = Entry(x[2]) /\ Under(m, i, x[1])
    BY <1>7 DEF Belongs
  <2>2. i # 1
    BY <2>1 DEF Entry
  <2>3. L + i \in 1..(L + M) /\ c[L + i] = Entry(x[2]) /\ Under(c, L + i, x[1])
    BY <1>1, <1>2, <1>4, <2>1, <2>2
  <2> QED
    BY <1>7, <2>3 DEF Belongs
<1>8. ASSUME NEW x \in Belongs(c, L + M) PROVE x \in Belongs(l, L) \cup Belongs(m, M)
  <2>1. PICK i \in 1..(L + M) : c[i] = Entry(x[2]) /\ Under(c, i, x[1])
    BY <1>8 DEF Belongs
  <2>2. CASE i <= L
    <3>1. i \in 1..L
      BY <1>1, <2>2
    <3>2. x \in Belongs(c, L)
      BY <1>8, <2>1, <3>1 DEF Belongs
    <3> QED
      BY <1>5, <3>2
  <2>3. CASE ~(i <= L)
    <3>1. i - L \in 1..M /\ i = L + (i - L)
      BY <1>1, <2>3
    <3>2. i - L # 1
      BY <1>3, <2>1, <3>1 DEF Entry
    <3>3. m[i - L] = Entry(x[2]) /\ Under(m, i - L, x[1])
      BY <1>2, <1>4, <2>1, <3>1, <3>2
    <3> QED
      BY <1>8, <3>1, <3>3 DEF Belongs
  <2> QED
    BY <2>2, <2>3
<1>9. Belongs(c, L + M) = Belongs(l, L) \cup Belongs(m, M)
  BY <1>5, <1>6, <1>7, <1>8
<1> QED
  BY <1>1, <1>9 DEF c, L, M

InSection(soft, section) == {x \in soft : x[1] = section}

LEMMA BlockIs ==
    ASSUME NEW soft \in Machines, NEW section \in ToSet(SectionOrder)
    PROVE  /\ Block(soft, section) \in Seq(PrintedLines) /\ Block(soft, section) # <<>>
           /\ Block(soft, section)[1][1] = "heading"
           /\ Belongs(Block(soft, section), Len(Block(soft, section))) = InSection(soft, section)
<1> DEFINE T == InSection(soft, section)
           E == {Entry(x[2]) : x \in T}
           q == SetToSeq(E)
           h == <<Heading(section)>>
           b == h \o q
<1>1. soft \subseteq ToSet(SectionOrder) \X STRING /\ IsFiniteSet(soft) /\ section # "" /\ section \in STRING
  <2>1. section # ""
    BY ConnectionsAssumption
  <2>2. section \in STRING
    <3>1. SectionOrder \in Seq(STRING)
      BY ConnectionsAssumption
    <3>2. PICK i \in DOMAIN SectionOrder : section = SectionOrder[i]
      BY DEF ToSet
    <3> QED
      BY <3>1, <3>2
  <2>3. soft \subseteq ToSet(SectionOrder) \X STRING /\ IsFiniteSet(soft)
    BY ConnectionsAssumption
  <2> QED
    BY <2>1, <2>2, <2>3
<1>2. IsFiniteSet(T) /\ \A x \in T : x \in Words \X Words /\ x = <<section, x[2]>> /\ x[2] \in STRING
  <2>1. T \in SUBSET soft
    BY DEF InSection
  <2>2. \A x \in T : x \in ToSet(SectionOrder) \X STRING /\ x[1] = section
    BY <1>1 DEF InSection
  <2>3. \A x \in T : x = <<section, x[2]>> /\ x[2] \in STRING
    BY <2>2
  <2>4. \A x \in T : x \in Words \X Words
    <3>1. section \in Words /\ \A w \in STRING : w \in Words
      BY <1>1 DEF Words
    <3>2. ASSUME NEW x \in T PROVE x \in Words \X Words
      <4>1. x = <<section, x[2]>> /\ x[2] \in Words
        BY <2>3, <3>1, <3>2
      <4> QED
        BY <3>1, <4>1
    <3> QED
      BY <3>2
  <2>5. IsFiniteSet(T)
    BY <1>1, <2>1, FS_Subset
  <2> QED
    BY <2>3, <2>4, <2>5
<1>3. IsFiniteSet(E)
  <2> DEFINE f == [x \in T |-> Entry(x[2])]
  <2>1. f \in Surjection(T, E)
    BY DEF Surjection
  <2> QED
    BY <1>2, <2>1, FS_Surjection
<1>4. q \in Seq(E) /\ \A x \in E : \E i \in 1..Len(q) : q[i] = x
  BY <1>3, SetToSeqIs
<1>5. E \subseteq PrintedLines
  <2>1. \A w \in STRING : Entry(w) \in PrintedLines
    BY DEF Entry, PrintedLines, Words
  <2> QED
    BY <1>2, <2>1
<1>6. q \in Seq(PrintedLines)
  <2> HIDE DEF q, E
  <2> QED
    BY <1>4, <1>5
<1>7. Heading(section) \in PrintedLines
  BY <1>1 DEF Heading, PrintedLines, Words
<1>8. h \in Seq(PrintedLines) /\ Len(h) = 1 /\ h[1] = Heading(section)
  BY <1>7
<1> HIDE DEF h, q, E
<1>9. /\ b \in Seq(PrintedLines) /\ Len(b) = Len(q) + 1 /\ b[1] = Heading(section) /\ Len(q) \in Nat
      /\ \A i \in 1..Len(q) : b[i + 1] = q[i]
  <2>1. b \in Seq(PrintedLines) /\ Len(b) = Len(h) + Len(q) /\ Len(q) \in Nat
    BY <1>6, <1>8, ConcatProperties
  <2>2. \A i \in 1..(Len(h) + Len(q)) : b[i] = IF i <= Len(h) THEN h[i] ELSE q[i - Len(h)]
    BY <1>6, <1>8, ConcatProperties
  <2>3. \A i \in 1..Len(q) : i + 1 \in 1..(1 + Len(q)) /\ ~(i + 1 <= 1) /\ (i + 1) - 1 = i
    BY <2>1
  <2>4. 1 \in 1..(1 + Len(q))
    BY <2>1
  <2> HIDE DEF b
  <2> QED
    BY <1>8, <2>1, <2>2, <2>3, <2>4
<1>10. Block(soft, section) = b
  BY DEF Block, h, q, E, InSection
<1> HIDE DEF b
<1>11. \A i \in 1..Len(q) : b[i + 1] \in E
  <2> TAKE i \in 1..Len(q)
  <2>1. q[i] \in E
    BY <1>4
  <2> QED
    BY <1>9, <2>1
<1> USE DEF E
<1>12. \A i \in 2..Len(b) : b[i] \in E
  <2> TAKE i \in 2..Len(b)
  <2>1. i - 1 \in 1..Len(q) /\ (i - 1) + 1 = i
    BY <1>9
  <2> QED
    BY <1>11, <2>1
<1>13. \A i \in 2..Len(b) : b[i][1] = "entry"
  BY <1>12 DEF Entry
<1>14. b # <<>> /\ b[1][1] = "heading"
  BY <1>9 DEF Heading
<1>15. ASSUME NEW i \in 2..Len(b), NEW s PROVE Under(b, i, s) <=> s = section
  <2>1. ASSUME Under(b, i, s) PROVE s = section
    <3>1. PICK j \in 1..(i - 1) : b[j] = Heading(s)
      BY <2>1 DEF Under, Opens
    <3>2. b[j][1] = "heading"
      BY <3>1 DEF Heading
    <3>3. j = 1 \/ j \in 2..Len(b)
      BY <1>9
    <3>4. j = 1
      BY <1>13, <3>2, <3>3
    <3>5. <<"heading", s>> = <<"heading", section>>
      BY <1>9, <3>1, <3>4 DEF Heading
    <3> QED
      BY <3>5
  <2>2. Under(b, i, section)
    <3>1. 1 \in 1..(i - 1)
      BY <1>9
    <3>2. \A k \in (1 + 1)..(i - 1) : k \in 2..Len(b)
      BY <1>9
    <3> QED
      BY <1>1, <1>9, <1>13, <3>1, <3>2 DEF Under, Opens
  <2> QED
    BY <2>1, <2>2
<1>16. ASSUME NEW x \in Belongs(b, Len(b)) PROVE x \in T
  <2>1. PICK i \in 1..Len(b) : b[i] = Entry(x[2]) /\ Under(b, i, x[1])
    BY <1>16 DEF Belongs
  <2>2. i # 1
    BY <1>9, <2>1 DEF Entry, Heading
  <2>3. i \in 2..Len(b)
    BY <1>9, <2>2
  <2>4. x[1] = section /\ b[i] \in E
    BY <1>12, <1>15, <2>1, <2>3
  <2>5. PICK y \in T : Entry(x[2]) = Entry(y[2])
    BY <2>1, <2>4
  <2>6. x[2] = y[2]
    BY <2>5 DEF Entry
  <2>7. x = <<x[1], x[2]>>
    BY <1>16 DEF Belongs
  <2> QED
    BY <1>2, <2>4, <2>6, <2>7
<1>17. ASSUME NEW x \in T PROVE x \in Belongs(b, Len(b))
  <2>1. Entry(x[2]) \in E
    OBVIOUS
  <2>2. PICK i \in 1..Len(q) : q[i] = Entry(x[2])
    BY <1>4, <2>1
  <2>3. i + 1 \in 2..Len(b) /\ i + 1 \in 1..Len(b) /\ b[i + 1] = Entry(x[2])
    BY <1>9, <2>2
  <2>4. x \in Words \X Words /\ x[1] = section
    BY <1>2 DEF InSection
  <2>5. Under(b, i + 1, x[1])
    BY <1>15, <2>3, <2>4
  <2> QED
    BY <2>3, <2>4, <2>5 DEF Belongs
<1> QED
  BY <1>9, <1>10, <1>14, <1>16, <1>17

\* The script prints what is installed, each entry under its heading.
LEMMA PrintedIs ==
    ASSUME NEW soft \in Machines
    PROVE  /\ Printed(soft) \in Seq(PrintedLines) /\ Sectioned(Printed(soft)) = soft
           /\ Belongs(Printed(soft), Len(Printed(soft))) = soft
<1> DEFINE N == Len(SectionOrder)
           none == <<>>
           X == Seq(PrintedLines)
           follow == [k \in 1..N |-> [l \in X |-> l \o Block(soft, SectionOrder[k])]]
           Prints(f) == f = [n \in 0..N |-> IF n = 0 THEN none ELSE f[n - 1] \o Block(soft, SectionOrder[n])]
<1>1. /\ N \in Nat /\ \A k \in 1..N : SectionOrder[k] \in ToSet(SectionOrder)
      /\ ToSet(SectionOrder) = {SectionOrder[k] : k \in 1..N}
  <2>1. SectionOrder \in Seq(STRING)
    BY ConnectionsAssumption
  <2> QED
    BY <2>1 DEF ToSet
<1>2. none \in X /\ Len(none) = 0
  OBVIOUS
<1> HIDE DEF none, N
<1>3. \A k \in 1..N : /\ Block(soft, SectionOrder[k]) \in X /\ Block(soft, SectionOrder[k]) # <<>>
                      /\ Block(soft, SectionOrder[k])[1][1] = "heading"
                      /\ Belongs(Block(soft, SectionOrder[k]), Len(Block(soft, SectionOrder[k])))
                             = InSection(soft, SectionOrder[k])
  BY <1>1, BlockIs
<1>4. \A k \in 1..N : \A l \in X : l \o Block(soft, SectionOrder[k]) \in X
  BY <1>3, ConcatProperties
<1>5. follow \in [1..N -> [X -> X]]
  <2> HIDE DEF X
  <2> QED
    BY <1>4
<1> HIDE DEF X
<1>6. \E f : Prints(f)
  <2> HIDE DEF follow
  <2>0. follow \in RecursionSteps(N, X)
    BY <1>5 DEF RecursionSteps
  <2>1. PICK f : Recurs(f, N, X, none, follow)
    BY <1>1, <1>2, <2>0, Recursion
  <2> USE DEF Recurs
  <2>2. ASSUME NEW k \in 0..N, k # 0 PROVE f[k] = f[k - 1] \o Block(soft, SectionOrder[k])
    <3>1. k \in 1..N /\ k - 1 \in 0..N
      BY <1>1, <2>2
    <3>2. f[k - 1] \in X /\ f[k] = follow[k][f[k - 1]]
      BY <2>1, <2>2, <3>1
    <3> QED
      BY <3>1, <3>2 DEF follow
  <2>3. f[0] = none
    BY <1>1, <2>1
  <2>4. f = [k \in 0..N |-> f[k]]
    BY <2>1
  <2> QED
    BY <2>2, <2>3, <2>4
<1>7. Printed(soft) = Append((CHOOSE f : Prints(f))[N], Heading("end"))
  BY DEF Printed, none, N
<1>8. PICK f : Prints(f) /\ Printed(soft) = Append(f[N], Heading("end"))
  BY <1>6, <1>7
<1>9. f[0] = none
  <2>1. 0 \in 0..N
    BY <1>1
  <2> QED
    BY <1>8, <2>1
<1>10. \A k \in 0..(N - 1) : f[k + 1] = f[k] \o Block(soft, SectionOrder[k + 1])
  <2> TAKE k \in 0..(N - 1)
  <2>1. k + 1 \in 0..N /\ k + 1 # 0 /\ (k + 1) - 1 = k
    BY <1>1
  <2>2. \A n \in 0..N : n # 0 => f[n] = f[n - 1] \o Block(soft, SectionOrder[n])
    BY <1>8
  <2> HIDE DEF Prints
  <2> QED
    BY <2>1, <2>2
<1> HIDE DEF Prints, follow
<1> DEFINE Upto(k) == {x \in soft : \E i \in 1..k : x[1] = SectionOrder[i]}
           S == {k \in 0..N : f[k] \in X /\ Belongs(f[k], Len(f[k])) = Upto(k)}
<1>11. 0 \in S
  <2>1. Upto(0) = {}
    OBVIOUS
  <2>2. Belongs(none, 0) = {}
    BY DEF Belongs
  <2> QED
    BY <1>1, <1>2, <1>9, <2>1, <2>2
<1>12. ASSUME NEW k \in 0..(N - 1), k \in S PROVE k + 1 \in S
  <2> DEFINE l == f[k]
             b == Block(soft, SectionOrder[k + 1])
  <2>1. k \in Nat /\ k + 1 \in 1..N /\ k + 1 \in 0..N
    BY <1>1
  <2>2. /\ b \in X /\ b # <<>> /\ b[1][1] = "heading"
        /\ Belongs(b, Len(b)) = InSection(soft, SectionOrder[k + 1])
    BY <1>3, <2>1
  <2>3. l \in X /\ Belongs(l, Len(l)) = Upto(k)
    BY <1>12
  <2>4. f[k + 1] = l \o b
    BY <1>10
  <2> HIDE DEF l, b
  <2>5. l \o b \in X /\ Belongs(l \o b, Len(l \o b)) = Belongs(l, Len(l)) \cup Belongs(b, Len(b))
    BY <2>2, <2>3, BlocksAreApart, ConcatProperties DEF X
  <2>6. Upto(k + 1) = Upto(k) \cup InSection(soft, SectionOrder[k + 1])
    <3>1. (\A i \in 1..(k + 1) : i = k + 1 \/ i \in 1..k) /\ (\A i \in 1..k : i \in 1..(k + 1)) /\ k + 1 \in 1..(k + 1)
      BY <2>1
    <3> QED
      BY <3>1 DEF InSection
  <2> HIDE DEF Upto
  <2> QED
    BY <2>1, <2>2, <2>3, <2>4, <2>5, <2>6
<1> HIDE DEF S
<1>13. 0..N \subseteq S
  BY <1>1, <1>11, <1>12, UpTo
<1>14. N \in S
  BY <1>1, <1>13
<1>15. Upto(N) = soft
  <2>1. \A x \in soft : x[1] \in ToSet(SectionOrder)
    BY ConnectionsAssumption
  <2> QED
    BY <1>1, <2>1
<1>16. f[N] \in X /\ Belongs(f[N], Len(f[N])) = soft
  BY <1>14, <1>15 DEF S
<1> DEFINE e == <<Heading("end")>>
           l == f[N]
<1> HIDE DEF S, Upto
<1>17. e \in X /\ e # <<>> /\ e[1][1] = "heading" /\ Belongs(e, Len(e)) = {}
  <2>1. Heading("end") \in PrintedLines /\ Heading("end")[1] = "heading"
    BY DEF Heading, PrintedLines, Words
  <2>2. e \in Seq(PrintedLines) /\ Len(e) = 1 /\ e[1] = Heading("end") /\ e # <<>>
    BY <2>1
  <2>3. Belongs(e, 1) = {}
    <3>1. \A x : e[1] # Entry(x)
      BY <2>2 DEF Heading, Entry
    <3>2. \A i \in 1..1 : i = 1
      OBVIOUS
    <3> QED
      BY <3>1, <3>2 DEF Belongs
  <2> HIDE DEF e
  <2> QED
    BY <2>1, <2>2, <2>3 DEF X
<1>18. Printed(soft) = l \o e
  <2>1. f[N] \in Seq(PrintedLines)
    BY <1>16 DEF X
  <2>2. Append(f[N], Heading("end")) = f[N] \o <<Heading("end")>>
    BY <2>1, AppendIsConcat, <1>17
  <2> QED
    BY <1>8, <2>2
<1> HIDE DEF e
<1>19. l \o e \in Seq(PrintedLines) /\ Belongs(l \o e, Len(l \o e)) = soft
  <2>1. l \in Seq(PrintedLines) /\ e \in Seq(PrintedLines) /\ Belongs(l, Len(l)) = soft
    BY <1>16, <1>17 DEF X
  <2> HIDE DEF l
  <2>2. l \o e \in Seq(PrintedLines)
    BY <2>1, ConcatProperties
  <2>3. Belongs(l \o e, Len(l \o e)) = Belongs(l, Len(l)) \cup Belongs(e, Len(e))
    BY <1>17, <2>1, BlocksAreApart
  <2> QED
    BY <1>17, <2>1, <2>2, <2>3
<1> QED
  BY <1>18, <1>19, SectionedIs

\* What has come when the timer ends: what is installed, and the piece of a line.
LEMMA ReceivedIs ==
    ASSUME NEW soft \in Machines, NEW lines \in Received(soft)
    PROVE  \A x \in Sectioned(lines) : x = <<x[1], x[2]>> /\ (x \in soft \/ x[2] = Fragment0)
<1> DEFINE P == Printed(soft)
           broken(line) == {Entry(Fragment0)} \cup {BrokenHeading : h \in {line[1]} \cap {"heading"}}
<1>1. P \in Seq(PrintedLines) /\ Belongs(P, Len(P)) = soft /\ Len(P) \in Nat
  BY PrintedIs
<1> HIDE DEF P
<1>2. \A l : \A x \in Belongs(l, Len(l)) : x = <<x[1], x[2]>>
  BY DEF Belongs
<1>3. CASE lines = P
  BY <1>1, <1>2, <1>3, SectionedIs
<1>4. ASSUME NEW k \in 0..Len(P) - 1, lines = SubSeq(P, 1, k) \/ \E b \in broken(P[k + 1]) : lines = Append(SubSeq(P, 1, k), b)
      PROVE  \A x \in Sectioned(lines) : x = <<x[1], x[2]>> /\ (x \in soft \/ x[2] = Fragment0)
  <2> DEFINE l == SubSeq(P, 1, k)
  <2>1. l \in Seq(PrintedLines) /\ Len(l) = k /\ k \in Nat /\ \A i \in 1..k : l[i] = P[i]
    <3>1. 1 \in Int /\ k \in Int /\ \A i \in 1..k : P[i] \in PrintedLines
      BY <1>1
    <3>2. /\ l \in Seq(PrintedLines)
          /\ Len(l) = IF 1 <= k THEN k - 1 + 1 ELSE 0
          /\ \A i \in 1..k - 1 + 1 : l[i] = P[1 + i - 1]
      BY <3>1, SubSeqProperties
    <3> QED
      BY <3>1, <3>2
  <2> HIDE DEF l
  <2>2. Belongs(l, k) = Belongs(P, k)
    BY <2>1, SamePrefix
  <2>3. Belongs(P, k) \subseteq soft
    BY <1>1, <2>1, MoreBelongs
  <2>4. CASE lines = l
    <3>1. Sectioned(lines) = Belongs(l, k)
      BY <2>1, <2>4, SectionedIs
    <3> QED
      BY <1>2, <2>1, <2>2, <2>3, <2>4, <3>1
  <2>5. ASSUME NEW b \in {Entry(Fragment0), BrokenHeading}, lines = Append(l, b)
        PROVE  \A x \in Sectioned(lines) : x = <<x[1], x[2]>> /\ (x \in soft \/ x[2] = Fragment0)
    <3>1. b \in PrintedLines
      <4>1. Fragment0 \in Words /\ "" \in Words
        BY DEF Words
      <4>2. Entry(Fragment0) \in PrintedLines
        BY <4>1 DEF Entry, PrintedLines
      <4>3. BrokenHeading \in PrintedLines
        BY <4>1 DEF BrokenHeading, PrintedLines
      <4> QED
        BY <4>2, <4>3
    <3>2. /\ lines \in Seq(PrintedLines) /\ Len(lines) = k + 1 /\ lines[k + 1] = b
          /\ \A i \in 1..k : lines[i] = l[i]
      BY <2>1, <2>5, <3>1, AppendProperties
    <3>3. Sectioned(lines) = Belongs(lines, k + 1)
      BY <3>2, SectionedIs
    <3>4. Belongs(lines, k) = Belongs(l, k)
      BY <2>1, <3>2, SamePrefix
    <3>5. ASSUME NEW x \in Belongs(lines, k + 1) PROVE x \in soft \/ x[2] = Fragment0
      <4>1. PICK i \in 1..(k + 1) : lines[i] = Entry(x[2]) /\ Under(lines, i, x[1])
        BY <3>5 DEF Belongs
      <4>2. CASE i = k + 1
        <5>1. b = Entry(x[2])
          BY <3>2, <4>1, <4>2
        <5>2. b = Entry(Fragment0)
          BY <5>1 DEF Entry, BrokenHeading
        <5> QED
          BY <5>1, <5>2 DEF Entry
      <4>3. CASE i # k + 1
        <5>1. i \in 1..k
          BY <2>1, <4>3
        <5>2. x \in Belongs(lines, k)
          BY <3>5, <4>1, <5>1 DEF Belongs
        <5> QED
          BY <2>2, <2>3, <3>4, <5>2
      <4> QED
        BY <4>2, <4>3
    <3>6. \A x \in Belongs(lines, k + 1) : x = <<x[1], x[2]>>
      BY DEF Belongs
    <3> QED
      BY <3>3, <3>5, <3>6
  <2>6. \A b \in broken(P[k + 1]) : b \in {Entry(Fragment0), BrokenHeading}
    OBVIOUS
  <2> QED
    BY <1>4, <2>4, <2>5, <2>6 DEF l
<1>5. lines = P \/ \E k \in 0..Len(P) - 1 :
          lines = SubSeq(P, 1, k) \/ \E b \in broken(P[k + 1]) : lines = Append(SubSeq(P, 1, k), b)
  <2> DEFINE R(k) == {SubSeq(P, 1, k)} \cup {Append(SubSeq(P, 1, k), b) : b \in broken(P[k + 1])}
  <2>1. lines \in {P} \cup UNION {R(k) : k \in 0..Len(P) - 1}
    BY DEF Received, P
  <2> HIDE DEF R
  <2>2. lines = P \/ \E k \in 0..Len(P) - 1 : lines \in R(k)
    BY <2>1
  <2> HIDE DEF broken
  <2>3. \A k : lines \in R(k) => lines = SubSeq(P, 1, k) \/ \E b \in broken(P[k + 1]) : lines = Append(SubSeq(P, 1, k), b)
    BY DEF R
  <2> QED
    BY <2>2, <2>3
<1> QED
  BY <1>3, <1>4, <1>5

-----------------------------------------------------------------------------
\* What a snapshot says of a machine.  (collectRemoteSnapshot)
SnapshotOf(soft, installed, whole) ==
    /\ installed \in Machines
    /\ \E lines \in Received(installed) :
           soft = SoftwareOf(lines) /\ (whole <=> lines = Printed(installed))

Installs(y, x) == SourceOf(y[1]) = x[1] /\ y[2] = x[2]

LEMMA SourcesDiffer ==
    ASSUME NEW s \in ToSet(SectionOrder), NEW t \in ToSet(SectionOrder), SourceOf(s) = SourceOf(t),
           s \in {"apt", "rpm", "snap", "cron-jobs", "systemd-timers", "custom-services"}
    PROVE  s = t
<1>1. /\ s \notin {"", "local-app", "docker", "cron", "systemd-timer", "systemd"}
      /\ t \notin {"", "local-app", "docker", "cron", "systemd-timer", "systemd"}
  BY ConnectionsAssumption
<1> QED
  BY <1>1 DEF SourceOf

\* Entries of the same source and name are alike parts of the system.
LEMMA SystemBySource ==
    ASSUME NEW soft \in Machines, NEW more \in Machines, NEW y \in soft, NEW z \in more,
           SourceOf(y[1]) = SourceOf(z[1]), y[2] = z[2], IsSystem(y)
    PROVE  IsSystem(z)
<1>1. y[1] \in ToSet(SectionOrder) /\ z[1] \in ToSet(SectionOrder)
  <2>1. soft \subseteq ToSet(SectionOrder) \X STRING /\ more \subseteq ToSet(SectionOrder) \X STRING
    BY ConnectionsAssumption
  <2> QED
    BY <2>1
<1>2. y[1] \in {"apt", "rpm", "snap", "cron-jobs", "systemd-timers", "custom-services"}
  BY DEF IsSystem, IsSystemApt, IsSystemRpm, IsSystemOther
<1>3. y[1] = z[1]
  BY <1>1, <1>2, SourcesDiffer
<1> QED
  BY <1>3 DEF IsSystem, IsSystemApt, IsSystemRpm, IsSystemOther

\* What a snapshot lists is installed, or the piece of a line; what is installed and not part
\* of the system is listed by one that is whole.
LEMMA SnapshotIsTrue ==
    ASSUME NEW soft, NEW installed, NEW whole, SnapshotOf(soft, installed, whole)
    PROVE  /\ installed \in Machines
           /\ whole => soft = Listed(installed)
           /\ \A x \in soft : x = <<x[1], x[2]>> /\ (x[2] = Fragment0 => ~whole)
           /\ \A x \in soft : x[2] # Fragment0 => \E y \in installed : Installs(y, x) /\ ~IsSystem(y)
           /\ whole => \A y \in installed : y[1] # "custom-services" /\ ~IsSystem(y) => <<SourceOf(y[1]), y[2]>> \in soft
<1>1. PICK lines \in Received(installed) : soft = SoftwareOf(lines) /\ (whole <=> lines = Printed(installed))
  BY DEF SnapshotOf
<1>2. installed \in Machines
  BY DEF SnapshotOf
<1> DEFINE of == Sectioned(lines)
           entries == {<<SourceOf(x[1]), x[2]>> : x \in {y \in of : y[1] # "custom-services" /\ ~IsSystem(y)}}
<1>3. \A y \in of : y \in installed \/ y[2] = Fragment0
  BY <1>2, ReceivedIs
<1>4. whole => of = installed
  BY <1>1, <1>2, PrintedIs
<1>5. soft = entries \cup Services(of, entries)
  BY <1>1 DEF SoftwareOf
<1>6. \A x \in soft : \E y \in of : x = <<SourceOf(y[1]), y[2]>> /\ ~IsSystem(y)
  <2> TAKE x \in soft
  <2>1. CASE x \in entries
    BY <2>1
  <2>2. CASE x \in Services(of, entries)
    <3> HIDE DEF of, entries
    <3> QED
      BY <2>2 DEF Services
  <2> HIDE DEF of, entries
  <2> QED
    BY <1>5, <2>1, <2>2
<1>7. \A y \in of : y[1] # "custom-services" /\ ~IsSystem(y) => <<SourceOf(y[1]), y[2]>> \in entries
  OBVIOUS
<1> HIDE DEF of, entries
<1>8. \A x \in soft : x = <<x[1], x[2]>> /\ (x[2] = Fragment0 => ~whole)
  <2> TAKE x \in soft
  <2>1. PICK y \in of : x = <<SourceOf(y[1]), y[2]>>
    BY <1>6
  <2>2. x = <<x[1], x[2]>> /\ x[2] = y[2]
    BY <2>1
  <2>3. \A z \in installed : z[2] # Fragment0
    BY <1>2, ConnectionsAssumption
  <2> QED
    BY <1>4, <2>2, <2>3
<1>9. \A x \in soft : x[2] # Fragment0 => \E y \in installed : Installs(y, x) /\ ~IsSystem(y)
  <2> SUFFICES ASSUME NEW x \in soft, x[2] # Fragment0
               PROVE  \E y \in installed : Installs(y, x) /\ ~IsSystem(y)
    OBVIOUS
  <2>1. PICK y \in of : x = <<SourceOf(y[1]), y[2]>> /\ ~IsSystem(y)
    BY <1>6
  <2>2. x[1] = SourceOf(y[1]) /\ x[2] = y[2]
    BY <2>1
  <2>3. y \in installed
    BY <1>3, <2>2
  <2> QED
    BY <2>1, <2>2, <2>3 DEF Installs
<1>10. whole => \A y \in installed : y[1] # "custom-services" /\ ~IsSystem(y) => <<SourceOf(y[1]), y[2]>> \in soft
  BY <1>4, <1>5, <1>7
<1>11. whole => soft = Listed(installed)
  BY <1>1 DEF Listed
<1> QED
  BY <1>2, <1>8, <1>9, <1>10, <1>11

\* What one snapshot lists and a whole one does not was not there, services apart.
LEMMA DifferenceIsTrue ==
    ASSUME NEW soft, NEW installed, NEW whole, SnapshotOf(soft, installed, whole),
           NEW soft2, NEW installed2, NEW whole2, SnapshotOf(soft2, installed2, whole2),
           NEW x \in soft \ soft2
    PROVE  /\ x[2] = Fragment0 => ~whole
           /\ x[2] # Fragment0 => \E y \in installed : Installs(y, x)
           /\ whole2 /\ x[1] # "systemd" => \A y \in installed2 : ~Installs(y, x)
<1>1. /\ installed \in Machines /\ installed2 \in Machines
      /\ x = <<x[1], x[2]>> /\ (x[2] = Fragment0 => ~whole)
      /\ x[2] # Fragment0 => \E y \in installed : Installs(y, x) /\ ~IsSystem(y)
      /\ whole2 => \A y \in installed2 : y[1] # "custom-services" /\ ~IsSystem(y) => <<SourceOf(y[1]), y[2]>> \in soft2
  BY SnapshotIsTrue
<1>2. ASSUME whole2, x[1] # "systemd", NEW y \in installed2, Installs(y, x) PROVE FALSE
  <2>1. x[2] # Fragment0
    BY <1>1, <1>2, ConnectionsAssumption DEF Installs
  <2>2. PICK z \in installed : Installs(z, x) /\ ~IsSystem(z)
    BY <1>1, <2>1
  <2>3. ~IsSystem(y)
    BY <1>1, <1>2, <2>2, SystemBySource DEF Installs
  <2>4. y[1] # "custom-services"
    BY <1>2 DEF Installs, SourceOf
  <2>5. <<SourceOf(y[1]), y[2]>> \in soft2
    BY <1>1, <1>2, <2>3, <2>4
  <2>6. x = <<SourceOf(y[1]), y[2]>>
    BY <1>1, <1>2 DEF Installs
  <2> QED
    BY <2>5, <2>6
<1> QED
  BY <1>1, <1>2

-----------------------------------------------------------------------------
\* The requests that probe.
IsProbe(r) == r = [do |-> r.do, pc |-> r.pc, status |-> r.status, base |-> r.base, ok |-> r.ok,
                   soft |-> r.soft, at |-> r.at, installed |-> r.installed, whole |-> r.whole]
IsBaseline(b) == b = [id |-> b.id, soft |-> b.soft, at |-> b.at, installed |-> b.installed,
                      whole |-> b.whole, report |-> b.report]
Taken(b) == <<b.soft, b.at, b.installed, b.whole>>
Differs(r, b) == r.at >= b.at /\ r.added = r.soft \ b.soft /\ r.removed = b.soft \ r.soft

MachineOK == machine.soft \in Machines /\ machine.at \in Nat /\ machine.at # 0 /\ probes \in Nat

BaselineIs(b, now) ==
    /\ IsBaseline(b) /\ b.id \in Nat /\ b.at \in Nat /\ b.at <= now
    /\ b.id # 0 => SnapshotOf(b.soft, b.installed, b.whole)
    /\ b.report.at # 0 => /\ b.id # 0 /\ Differs(b.report, b)
                          /\ SnapshotOf(b.report.soft, b.report.installed, b.report.whole)

\* A drift check knows a baseline that there was, and the one there is if it has its number.
ProbeIs(r, b, now) ==
    /\ IsProbe(r)
    /\ r.do = "drift" => /\ r.base.id \in Nat /\ r.base.id # 0 /\ r.base.id <= b.id
                         /\ r.base.at \in Nat /\ r.base.at <= now
                         /\ r.base.id = b.id => Taken(r.base) = Taken(b)
    /\ r.do \in {"drift", "baseline"} /\ r.pc = "write" =>
           /\ SnapshotOf(r.soft, r.installed, r.whole)
           /\ r.at \in Nat /\ r.at # 0 /\ r.at <= now
    /\ r.do = "drift" /\ r.pc = "write" => r.base.at <= r.at

ConnInv ==
    /\ MachineOK /\ BaselineIs(baseline, machine.at)
    /\ probe = [p \in Probes |-> probe[p]]
    /\ \A p \in Probes : ProbeIs(probe[p], baseline, machine.at)

LEMMA IdleIs == ASSUME NEW b, NEW now PROVE ProbeIs(NoProbe, b, now)
  BY DEF NoProbe, ProbeIs, IsProbe

LEMMA ConnectionsStart == ConnectionsInit => ConnInv
<1> SUFFICES ASSUME ConnectionsInit PROVE ConnInv
  OBVIOUS
<1>1. machine.soft \in Machines /\ machine.at = 1 /\ probes = 0
  BY ConnectionsAssumption DEF ConnectionsInit
<1>2. BaselineIs(baseline, machine.at)
  <2>1. baseline = NoBaseline
    BY DEF ConnectionsInit
  <2>2. NoBaseline.id = 0 /\ NoBaseline.at = 0 /\ NoBaseline.report.at = 0
    BY DEF NoBaseline, NoReport
  <2>3. IsBaseline(NoBaseline)
    BY DEF NoBaseline, IsBaseline
  <2> QED
    BY <1>1, <2>1, <2>2, <2>3 DEF BaselineIs
<1>3. probe = [p \in Probes |-> NoProbe]
  BY DEF ConnectionsInit
<1> QED
  BY <1>1, <1>2, <1>3, IdleIs DEF ConnInv, MachineOK

\* A request stays right while time goes on and baselines come with new numbers.
LEMMA ProbeStays ==
    ASSUME NEW r, NEW b, NEW c, NEW now \in Nat, NEW later \in Nat, ProbeIs(r, b, now), now <= later,
           b.id \in Nat, c.id \in Nat, c.id > b.id \/ (c.id = b.id /\ Taken(c) = Taken(b))
    PROVE  ProbeIs(r, c, later)
<1> USE DEF ProbeIs
<1>1. r.do = "drift" => /\ r.base.id \in Nat /\ r.base.id # 0 /\ r.base.id <= c.id
                        /\ r.base.at \in Nat /\ r.base.at <= later
                        /\ r.base.id = c.id => Taken(r.base) = Taken(c)
  OBVIOUS
<1>2. r.do \in {"drift", "baseline"} /\ r.pc = "write" =>
           /\ SnapshotOf(r.soft, r.installed, r.whole)
           /\ r.at \in Nat /\ r.at # 0 /\ r.at <= later
  OBVIOUS
<1> QED
  BY <1>1, <1>2

LEMMA BaselineStays ==
    ASSUME NEW b, NEW now \in Nat, NEW later \in Nat, BaselineIs(b, now), now <= later
    PROVE  BaselineIs(b, later)
  BY DEF BaselineIs

\* One request goes on.
LEMMA OneProbe ==
    ASSUME ConnInv, NEW p \in Probes, NEW r, probe' = [probe EXCEPT ![p] = r],
           machine' = machine, probes' \in Nat,
           BaselineIs(baseline', machine.at), ProbeIs(r, baseline', machine.at),
           baseline'.id > baseline.id \/ (baseline'.id = baseline.id /\ Taken(baseline') = Taken(baseline))
    PROVE  ConnInv'
<1>1. /\ machine.at \in Nat /\ baseline.id \in Nat /\ baseline'.id \in Nat
      /\ probe = [q \in Probes |-> probe[q]] /\ \A q \in Probes : ProbeIs(probe[q], baseline, machine.at)
  BY DEF ConnInv, MachineOK, BaselineIs
<1>2. \A q \in Probes : probe'[q] = IF q = p THEN r ELSE probe[q]
  BY <1>1
<1>3. ASSUME NEW q \in Probes PROVE ProbeIs(probe'[q], baseline', machine.at)
  <2>1. CASE q = p
    BY <1>2, <2>1
  <2>2. CASE q # p
    BY <1>1, <1>2, <2>2, ProbeStays
  <2> QED
    BY <2>1, <2>2
<1>4. probe' = [q \in Probes |-> probe'[q]]
  BY <1>1
<1>5. MachineOK'
  BY DEF ConnInv, MachineOK
<1> QED
  BY <1>3, <1>4, <1>5 DEF ConnInv

LEMMA SameBaseline ==
    ASSUME ConnInv, NEW p \in Probes, NEW r, probe' = [probe EXCEPT ![p] = r],
           machine' = machine, probes' \in Nat, baseline' = baseline, ProbeIs(r, baseline, machine.at)
    PROVE  ConnInv'
<1>1. BaselineIs(baseline', machine.at) /\ ProbeIs(r, baseline', machine.at)
      /\ baseline'.id = baseline.id /\ Taken(baseline') = Taken(baseline)
  BY DEF ConnInv
<1> QED
  BY <1>1, OneProbe

\* What a request becomes when some of its fields are set, one field at a time.
LEMMA GoesOn ==
    ASSUME NEW q, IsProbe(q), NEW pc0
    PROVE  [q EXCEPT !.pc = pc0] =
              [do |-> q.do, pc |-> pc0, status |-> q.status, base |-> q.base, ok |-> q.ok,
               soft |-> q.soft, at |-> q.at, installed |-> q.installed, whole |-> q.whole]
<1> DEFINE a == q.do  b == q.pc  c == q.status  d == q.base  e == q.ok  f == q.soft  g == q.at
           h == q.installed  i == q.whole
<1>1. q = [do |-> a, pc |-> b, status |-> c, base |-> d, ok |-> e,
           soft |-> f, at |-> g, installed |-> h, whole |-> i]
  BY DEF IsProbe
<1> HIDE DEF a, b, c, d, e, f, g, h, i
<1> DEFINE r1 == [q EXCEPT !.pc = pc0]
<1>2. r1 = [do |-> a, pc |-> pc0, status |-> c, base |-> d, ok |-> e,
            soft |-> f, at |-> g, installed |-> h, whole |-> i]
  BY <1>1
<1> HIDE DEF r1
<1>3. [q EXCEPT !.pc = pc0] = r1
  BY Zenon DEF r1
<1> QED
  BY <1>2, <1>3 DEF a, b, c, d, e, f, g, h, i

LEMMA EndsIn ==
    ASSUME NEW q, IsProbe(q), NEW pc0, NEW status0
    PROVE  [q EXCEPT !.pc = pc0, !.status = status0] =
              [do |-> q.do, pc |-> pc0, status |-> status0, base |-> q.base, ok |-> q.ok,
               soft |-> q.soft, at |-> q.at, installed |-> q.installed, whole |-> q.whole]
<1> DEFINE a == q.do  b == q.pc  c == q.status  d == q.base  e == q.ok  f == q.soft  g == q.at
           h == q.installed  i == q.whole
<1>1. q = [do |-> a, pc |-> b, status |-> c, base |-> d, ok |-> e,
           soft |-> f, at |-> g, installed |-> h, whole |-> i]
  BY DEF IsProbe
<1> HIDE DEF a, b, c, d, e, f, g, h, i
<1> DEFINE r1 == [q EXCEPT !.pc = pc0]
<1>2. r1 = [do |-> a, pc |-> pc0, status |-> c, base |-> d, ok |-> e,
            soft |-> f, at |-> g, installed |-> h, whole |-> i]
  BY <1>1
<1> HIDE DEF r1
<1> DEFINE r2 == [r1 EXCEPT !.status = status0]
<1>3. r2 = [do |-> a, pc |-> pc0, status |-> status0, base |-> d, ok |-> e,
            soft |-> f, at |-> g, installed |-> h, whole |-> i]
  BY <1>2
<1> HIDE DEF r2
<1>4. [q EXCEPT !.pc = pc0, !.status = status0] = r2
  BY Zenon DEF r1, r2
<1> QED
  BY <1>3, <1>4 DEF a, b, c, d, e, f, g, h, i

LEMMA IsOne ==
    ASSUME NEW r, NEW a, NEW b, NEW c, NEW d, NEW e, NEW f, NEW g, NEW h, NEW i,
           r = [do |-> a, pc |-> b, status |-> c, base |-> d, ok |-> e, soft |-> f, at |-> g,
                installed |-> h, whole |-> i]
    PROVE  /\ IsProbe(r) /\ r.do = a /\ r.pc = b /\ r.base = d /\ r.soft = f /\ r.at = g
           /\ r.installed = h /\ r.whole = i
<1>1. /\ r.do = a /\ r.pc = b /\ r.status = c /\ r.base = d /\ r.ok = e /\ r.soft = f /\ r.at = g
      /\ r.installed = h /\ r.whole = i
  OBVIOUS
<1> QED
  BY <1>1 DEF IsProbe

LEMMA EnterProbeKeeps ==
    ASSUME ConnInv, NEW p \in Probes, NEW do, EnterProbe(p, do), do = "drift" => baseline.id # 0
    PROVE  ConnInv'
<1> DEFINE r == [NoProbe EXCEPT !.do = do, !.pc = "see", !.status = conn.status, !.base = baseline]
<1>1. /\ probe' = [probe EXCEPT ![p] = r] /\ machine' = machine /\ baseline' = baseline /\ probes' = probes + 1
  BY DEF EnterProbe
<1>2. IsProbe(r) /\ r.do = do /\ r.pc = "see" /\ r.base = baseline
  <2> DEFINE np == NoProbe  st == conn.status  bl == baseline
  <2>3. IsProbe(np)
    BY DEF NoProbe, IsProbe
  <2>5. r = [np EXCEPT !.do = do, !.pc = "see", !.status = st, !.base = bl]
    OBVIOUS
  <2> HIDE DEF r, np, st, bl
  <2>4. r = [do |-> do, pc |-> "see", status |-> st, base |-> bl, ok |-> np.ok,
             soft |-> np.soft, at |-> np.at, installed |-> np.installed, whole |-> np.whole]
    <3> DEFINE a == np.do  b == np.pc  c == np.status  d == np.base  e == np.ok  f == np.soft  g == np.at
               h == np.installed  i == np.whole
    <3>1. np = [do |-> a, pc |-> b, status |-> c, base |-> d, ok |-> e,
                soft |-> f, at |-> g, installed |-> h, whole |-> i]
      BY <2>3 DEF IsProbe
    <3> HIDE DEF a, b, c, d, e, f, g, h, i
    <3> DEFINE r1 == [np EXCEPT !.do = do]
    <3>2. r1 = [do |-> do, pc |-> b, status |-> c, base |-> d, ok |-> e,
                soft |-> f, at |-> g, installed |-> h, whole |-> i]
      BY <3>1
    <3> HIDE DEF r1
    <3> DEFINE r2 == [r1 EXCEPT !.pc = "see"]
    <3>3. r2 = [do |-> do, pc |-> "see", status |-> c, base |-> d, ok |-> e,
                soft |-> f, at |-> g, installed |-> h, whole |-> i]
      BY <3>2
    <3> HIDE DEF r2
    <3> DEFINE r3 == [r2 EXCEPT !.status = st]
    <3>4. r3 = [do |-> do, pc |-> "see", status |-> st, base |-> d, ok |-> e,
                soft |-> f, at |-> g, installed |-> h, whole |-> i]
      BY <3>3
    <3> HIDE DEF r3
    <3> DEFINE r4 == [r3 EXCEPT !.base = bl]
    <3>5. r4 = [do |-> do, pc |-> "see", status |-> st, base |-> bl, ok |-> e,
                soft |-> f, at |-> g, installed |-> h, whole |-> i]
      BY <3>4
    <3> HIDE DEF r4
    <3>6. r = r4
      BY <2>5, Zenon DEF r1, r2, r3, r4
    <3> QED
      BY <3>5, <3>6 DEF a, b, c, d, e, f, g, h, i
  <2> QED
    BY <2>4, IsOne DEF bl
<1> HIDE DEF r
<1>3. /\ baseline.id \in Nat /\ baseline.at \in Nat /\ baseline.at <= machine.at /\ probes \in Nat
  BY DEF ConnInv, BaselineIs, MachineOK
<1>5. probes' \in Nat
  BY <1>1, <1>3
<1>4. ProbeIs(r, baseline, machine.at)
  BY <1>2, <1>3 DEF ProbeIs
<1> QED
  BY <1>1, <1>4, <1>5, SameBaseline

LEMMA ReachedKeeps == ASSUME ConnInv, NEW p \in Probes, Reached(p) PROVE ConnInv'
<1> DEFINE q == probe[p]
<1>1. PICK lines \in Received(machine.soft) :
          probe' = [probe EXCEPT ![p] = IF q.do \in {"connect", "reprobe"}
               THEN [q EXCEPT !.pc = "write", !.ok = TRUE, !.status = "probed", !.at = machine.at]
               ELSE [q EXCEPT !.pc = "write", !.at = machine.at, !.soft = SoftwareOf(lines),
                              !.installed = machine.soft, !.whole = (lines = Printed(machine.soft))]]
  BY DEF Reached
<1>2. machine' = machine /\ baseline' = baseline /\ probes' = probes
  BY DEF Reached
<1>3. /\ ProbeIs(q, baseline, machine.at) /\ machine.soft \in Machines /\ machine.at \in Nat /\ machine.at # 0
      /\ probes \in Nat
  BY DEF ConnInv, MachineOK
<1> HIDE DEF q
<1>4. CASE q.do \in {"connect", "reprobe"}
  <2> DEFINE r == [q EXCEPT !.pc = "write", !.ok = TRUE, !.status = "probed", !.at = machine.at]
  <2>1. probe' = [probe EXCEPT ![p] = r]
    BY <1>1, <1>4
  <2>4. IsProbe(q)
    BY <1>3 DEF ProbeIs
  <2> DEFINE m == machine.at  yes == TRUE
  <2>6. r = [q EXCEPT !.pc = "write", !.ok = yes, !.status = "probed", !.at = m]
    OBVIOUS
  <2> HIDE DEF r, m, yes
  <2>5. r = [do |-> q.do, pc |-> "write", status |-> "probed", base |-> q.base, ok |-> yes,
             soft |-> q.soft, at |-> m, installed |-> q.installed, whole |-> q.whole]
    <3> DEFINE a == q.do  b == q.pc  c == q.status  d == q.base  e == q.ok  f == q.soft  g == q.at
               h == q.installed  i == q.whole
    <3>1. q = [do |-> a, pc |-> b, status |-> c, base |-> d, ok |-> e,
               soft |-> f, at |-> g, installed |-> h, whole |-> i]
      BY <2>4 DEF IsProbe
    <3> HIDE DEF a, b, c, d, e, f, g, h, i
    <3> DEFINE r1 == [q EXCEPT !.pc = "write"]
    <3>2. r1 = [do |-> a, pc |-> "write", status |-> c, base |-> d, ok |-> e,
                soft |-> f, at |-> g, installed |-> h, whole |-> i]
      BY <3>1
    <3> HIDE DEF r1
    <3> DEFINE r2 == [r1 EXCEPT !.ok = yes]
    <3>3. r2 = [do |-> a, pc |-> "write", status |-> c, base |-> d, ok |-> yes,
                soft |-> f, at |-> g, installed |-> h, whole |-> i]
      BY <3>2
    <3> HIDE DEF r2
    <3> DEFINE r3 == [r2 EXCEPT !.status = "probed"]
    <3>4. r3 = [do |-> a, pc |-> "write", status |-> "probed", base |-> d, ok |-> yes,
                soft |-> f, at |-> g, installed |-> h, whole |-> i]
      BY <3>3
    <3> HIDE DEF r3
    <3> DEFINE r4 == [r3 EXCEPT !.at = m]
    <3>5. r4 = [do |-> a, pc |-> "write", status |-> "probed", base |-> d, ok |-> yes,
                soft |-> f, at |-> m, installed |-> h, whole |-> i]
      BY <3>4
    <3> HIDE DEF r4
    <3>6. r = r4
      BY <2>6, Zenon DEF r1, r2, r3, r4
    <3> QED
      BY <3>5, <3>6 DEF a, b, c, d, e, f, g, h, i
  <2>2. IsProbe(r) /\ r.do = q.do
    BY <2>5, IsOne
  <2>3. ProbeIs(r, baseline, machine.at)
    BY <1>4, <2>2 DEF ProbeIs
  <2> QED
    BY <1>2, <1>3, <2>1, <2>3, SameBaseline
<1>5. CASE q.do \notin {"connect", "reprobe"}
  <2> DEFINE w == lines = Printed(machine.soft)
             s == SoftwareOf(lines)
             m == machine.at
             n == machine.soft
             r == [q EXCEPT !.pc = "write", !.at = m, !.soft = s, !.installed = n, !.whole = w]
  <2>1. probe' = [probe EXCEPT ![p] = r]
    BY <1>1, <1>5
  <2>2. SnapshotOf(s, machine.soft, w)
    BY <1>1, <1>3 DEF SnapshotOf
  <2>10. r = [q EXCEPT !.pc = "write", !.at = m, !.soft = s, !.installed = n, !.whole = w]
    OBVIOUS
  <2> HIDE DEF w, s, m, n, r
  <2>3. /\ IsProbe(r) /\ r.do = q.do /\ r.base = q.base /\ r.pc = "write" /\ r.at = machine.at
        /\ r.soft = s /\ r.installed = machine.soft /\ r.whole = w
    <3>1. IsProbe(q)
      BY <1>3 DEF ProbeIs
    <3>2. r = [do |-> q.do, pc |-> "write", status |-> q.status, base |-> q.base, ok |-> q.ok,
               soft |-> s, at |-> m, installed |-> n, whole |-> w]
      <4> DEFINE a == q.do  b == q.pc  c == q.status  d == q.base  e == q.ok  f == q.soft  g == q.at
                 h == q.installed  i == q.whole
      <4>1. q = [do |-> a, pc |-> b, status |-> c, base |-> d, ok |-> e,
                 soft |-> f, at |-> g, installed |-> h, whole |-> i]
        BY <3>1 DEF IsProbe
      <4> HIDE DEF a, b, c, d, e, f, g, h, i
      <4> DEFINE r1 == [q EXCEPT !.pc = "write"]
      <4>2. r1 = [do |-> a, pc |-> "write", status |-> c, base |-> d, ok |-> e,
                  soft |-> f, at |-> g, installed |-> h, whole |-> i]
        BY <4>1
      <4> HIDE DEF r1
      <4> DEFINE r2 == [r1 EXCEPT !.at = m]
      <4>3. r2 = [do |-> a, pc |-> "write", status |-> c, base |-> d, ok |-> e,
                  soft |-> f, at |-> m, installed |-> h, whole |-> i]
        BY <4>2
      <4> HIDE DEF r2
      <4> DEFINE r3 == [r2 EXCEPT !.soft = s]
      <4>4. r3 = [do |-> a, pc |-> "write", status |-> c, base |-> d, ok |-> e,
                  soft |-> s, at |-> m, installed |-> h, whole |-> i]
        BY <4>3
      <4> HIDE DEF r3
      <4> DEFINE r4 == [r3 EXCEPT !.installed = n]
      <4>5. r4 = [do |-> a, pc |-> "write", status |-> c, base |-> d, ok |-> e,
                  soft |-> s, at |-> m, installed |-> n, whole |-> i]
        BY <4>4
      <4> HIDE DEF r4
      <4> DEFINE r5 == [r4 EXCEPT !.whole = w]
      <4>6. r5 = [do |-> a, pc |-> "write", status |-> c, base |-> d, ok |-> e,
                  soft |-> s, at |-> m, installed |-> n, whole |-> w]
        BY <4>5
      <4> HIDE DEF r5
      <4>7. r = r5
        BY <2>10, Zenon DEF r1, r2, r3, r4, r5
      <4> QED
        BY <4>6, <4>7 DEF a, b, c, d, e, f, g, h, i
    <3> QED
      BY <3>2, IsOne DEF m, n
  <2>5. /\ q.do = "drift" => /\ q.base.id \in Nat /\ q.base.id # 0 /\ q.base.id <= baseline.id
                             /\ q.base.at \in Nat /\ q.base.at <= machine.at
                             /\ q.base.id = baseline.id => Taken(q.base) = Taken(baseline)
    BY <1>3 DEF ProbeIs
  <2>6. r.do = "drift" => /\ r.base.id \in Nat /\ r.base.id # 0 /\ r.base.id <= baseline.id
                          /\ r.base.at \in Nat /\ r.base.at <= machine.at
                          /\ r.base.id = baseline.id => Taken(r.base) = Taken(baseline)
    BY <2>3, <2>5
  <2>7. SnapshotOf(r.soft, r.installed, r.whole)
    BY <2>2, <2>3
  <2>8. r.at \in Nat /\ r.at # 0 /\ r.at <= machine.at
    BY <1>3, <2>3
  <2>9. r.do = "drift" => r.base.at <= r.at
    BY <2>3, <2>6
  <2>4. ProbeIs(r, baseline, machine.at)
    BY <2>3, <2>6, <2>7, <2>8, <2>9 DEF ProbeIs
  <2> QED
    BY <1>2, <1>3, <2>1, <2>4, SameBaseline
<1> QED
  BY <1>4, <1>5

\* Requests that fail, or write no more than the connection.
LEMMA OthersKeep ==
    ASSUME ConnInv, NEW p \in Probes, NotReached(p) \/ KeyMissing(p) \/ StoreConnection(p) \/ StoreProbe(p)
    PROVE  ConnInv'
<1> DEFINE q == probe[p]
           failed0 == [q EXCEPT !.pc = "write", !.status = "ssh_failed"]
           stays0 == [q EXCEPT !.pc = "write"]
<1>1. machine' = machine /\ baseline' = baseline /\ probes' = probes /\ probes \in Nat
  BY DEF NotReached, KeyMissing, StoreConnection, StoreProbe, Ends, ConnInv, MachineOK
<1>2. \/ probe' = [probe EXCEPT ![p] = NoProbe]
      \/ q.do \in {"connect", "reprobe"} /\ (probe' = [probe EXCEPT ![p] = failed0] \/ probe' = [probe EXCEPT ![p] = stays0])
  BY DEF NotReached, KeyMissing, StoreConnection, StoreProbe, Ends
<1>3. IsProbe(q)
  BY DEF ConnInv, ProbeIs
<1>4. IsProbe(failed0) /\ failed0.do = q.do /\ IsProbe(stays0) /\ stays0.do = q.do
  <2> HIDE DEF q
  <2>1. failed0 = [do |-> q.do, pc |-> "write", status |-> "ssh_failed", base |-> q.base, ok |-> q.ok,
                   soft |-> q.soft, at |-> q.at, installed |-> q.installed, whole |-> q.whole]
    BY <1>3, EndsIn
  <2>2. stays0 = [do |-> q.do, pc |-> "write", status |-> q.status, base |-> q.base, ok |-> q.ok,
                  soft |-> q.soft, at |-> q.at, installed |-> q.installed, whole |-> q.whole]
    BY <1>3, GoesOn
  <2> HIDE DEF failed0, stays0
  <2> QED
    BY <2>1, <2>2, IsOne
<1> HIDE DEF failed0, stays0, q
<1>5. ProbeIs(NoProbe, baseline, machine.at)
  BY IdleIs
<1>6. q.do \in {"connect", "reprobe"} => ProbeIs(failed0, baseline, machine.at) /\ ProbeIs(stays0, baseline, machine.at)
  BY <1>4 DEF ProbeIs
<1> QED
  BY <1>1, <1>2, <1>5, <1>6, SameBaseline

LEMMA StoreBaselineKeeps == ASSUME ConnInv, NEW p \in Probes, StoreBaseline(p) PROVE ConnInv'
<1> DEFINE q == probe[p]
           b == [id |-> probes * 10 + baseline.id + 1, soft |-> q.soft, at |-> q.at,
                 installed |-> q.installed, whole |-> q.whole, report |-> NoReport]
<1>1. /\ q.do = "baseline" /\ q.pc = "write" /\ baseline' = b /\ probe' = [probe EXCEPT ![p] = NoProbe]
      /\ machine' = machine /\ probes' = probes
  BY DEF StoreBaseline, Ends
<1>2. /\ SnapshotOf(q.soft, q.installed, q.whole) /\ q.at \in Nat /\ q.at <= machine.at
      /\ machine.at \in Nat /\ probes \in Nat /\ baseline.id \in Nat
  BY <1>1 DEF ConnInv, ProbeIs, MachineOK, BaselineIs
<1> HIDE DEF q
<1>3. /\ IsBaseline(b) /\ b.id = probes * 10 + baseline.id + 1 /\ b.soft = q.soft /\ b.at = q.at
      /\ b.installed = q.installed /\ b.whole = q.whole /\ b.report.at = 0
  BY DEF IsBaseline, NoReport
<1> HIDE DEF b
<1>4. b.id \in Nat /\ b.id > baseline.id
  BY <1>2, <1>3
<1>5. BaselineIs(b, machine.at)
  BY <1>2, <1>3, <1>4 DEF BaselineIs
<1>6. ProbeIs(NoProbe, b, machine.at)
  BY IdleIs
<1> QED
  BY <1>1, <1>2, <1>4, <1>5, <1>6, OneProbe

LEMMA StoreReportKeeps == ASSUME ConnInv, NEW p \in Probes, StoreReport(p) PROVE ConnInv'
<1> DEFINE q == probe[p]
           r == Report(p)
           b == [baseline EXCEPT !.report = r]
<1>1. /\ q.do = "drift" /\ q.pc = "write" /\ baseline' = (IF baseline.id = q.base.id THEN b ELSE baseline)
      /\ probe' = [probe EXCEPT ![p] = NoProbe] /\ machine' = machine /\ probes' = probes
  BY DEF StoreReport, Ends
<1>2. ProbeIs(q, baseline, machine.at) /\ BaselineIs(baseline, machine.at) /\ probes \in Nat
  BY DEF ConnInv, MachineOK
<1>3. /\ r.at = q.at /\ r.soft = q.soft /\ r.installed = q.installed /\ r.whole = q.whole
      /\ r.added = q.soft \ q.base.soft /\ r.removed = q.base.soft \ q.soft
  BY DEF Report
<1> HIDE DEF q, r
<1>4. /\ IsBaseline(b) /\ b.id = baseline.id /\ b.soft = baseline.soft /\ b.at = baseline.at
      /\ b.installed = baseline.installed /\ b.whole = baseline.whole /\ b.report = r
  BY <1>2 DEF BaselineIs, IsBaseline
<1> HIDE DEF b
<1>5. CASE baseline.id = q.base.id
  <2>1. q.base.id # 0 /\ Taken(q.base) = Taken(baseline) /\ q.base.at <= q.at
    BY <1>1, <1>2, <1>5 DEF ProbeIs
  <2>2. q.base.soft = baseline.soft /\ q.base.at = baseline.at
    BY <2>1 DEF Taken
  <2>3. Differs(r, b)
    <3>1. baseline.at \in Nat /\ q.at \in Nat
      BY <1>1, <1>2 DEF BaselineIs, ProbeIs
    <3> QED
      BY <1>3, <1>4, <2>1, <2>2, <3>1 DEF Differs
  <2>4. SnapshotOf(r.soft, r.installed, r.whole)
    BY <1>1, <1>2, <1>3 DEF ProbeIs
  <2>5. BaselineIs(b, machine.at)
    BY <1>2, <1>4, <1>5, <2>1, <2>3, <2>4 DEF BaselineIs
  <2>6. b.id = baseline.id /\ Taken(b) = Taken(baseline) /\ baseline' = b
    BY <1>1, <1>4, <1>5 DEF Taken
  <2>7. ProbeIs(NoProbe, b, machine.at)
    BY IdleIs
  <2> QED
    BY <1>1, <1>2, <2>5, <2>6, <2>7, OneProbe
<1>6. CASE baseline.id # q.base.id
  BY <1>1, <1>2, <1>6, IdleIs, SameBaseline
<1> QED
  BY <1>5, <1>6

LEMMA ConnectionsStep == ConnInv /\ [ConnectionsNext]_connVars => ConnInv'
<1> SUFFICES ASSUME ConnInv, [ConnectionsNext]_connVars PROVE ConnInv'
  OBVIOUS
<1>1. CASE UNCHANGED connVars
  <2>1. machine' = machine /\ baseline' = baseline /\ probe' = probe /\ probes' = probes
    BY <1>1 DEF connVars
  <2> QED
    BY <2>1 DEF ConnInv, MachineOK
<1>2. CASE DeleteConnection \/ DeleteItsKey
  <2>1. machine' = machine /\ baseline' = baseline /\ probe' = probe /\ probes' = probes
    BY <1>2 DEF DeleteConnection, DeleteItsKey
  <2> QED
    BY <2>1 DEF ConnInv, MachineOK
<1>3. CASE MachineChanges
  <2>1. PICK s \in Machines : machine' = [soft |-> s, at |-> machine.at + 1]
    BY <1>3 DEF MachineChanges
  <2>2. baseline' = baseline /\ probe' = probe /\ probes' = probes
    BY <1>3 DEF MachineChanges
  <2>3. machine.at \in Nat /\ machine.at # 0 /\ probes \in Nat
    BY DEF ConnInv, MachineOK
  <2>4. machine'.soft \in Machines /\ machine'.at = machine.at + 1
    BY <2>1
  <2>5. MachineOK'
    BY <2>2, <2>3, <2>4 DEF MachineOK
  <2>6. machine.at <= machine'.at /\ machine'.at \in Nat
    BY <2>3, <2>4
  <2>7. BaselineIs(baseline, machine'.at)
    BY <2>3, <2>6, BaselineStays DEF ConnInv
  <2>8. baseline.id \in Nat
    BY DEF ConnInv, BaselineIs
  <2>9. \A p \in Probes : ProbeIs(probe[p], baseline, machine'.at)
    BY <2>3, <2>6, <2>8, ProbeStays DEF ConnInv
  <2> QED
    BY <2>2, <2>5, <2>7, <2>9 DEF ConnInv
<1>4. CASE \E p \in Probes : Connect(p) \/ Reprobe(p) \/ SetBaseline(p) \/ CheckDrift(p)
  BY <1>4, EnterProbeKeeps DEF Connect, Reprobe, SetBaseline, CheckDrift
<1>5. CASE \E p \in Probes : Reached(p)
  BY <1>5, ReachedKeeps
<1>6. CASE \E p \in Probes : NotReached(p) \/ KeyMissing(p) \/ StoreConnection(p) \/ StoreProbe(p)
  BY <1>6, OthersKeep
<1>7. CASE \E p \in Probes : StoreBaseline(p) \/ StoreReport(p)
  BY <1>7, StoreBaselineKeeps, StoreReportKeeps
<1> QED
  BY <1>1, <1>2, <1>3, <1>4, <1>5, <1>6, <1>7 DEF ConnectionsNext

LEMMA ConnectionsShow == ConnInv => ReportIsSound
<1> SUFFICES ASSUME ConnInv PROVE ReportIsSound
  OBVIOUS
<1> DEFINE r == baseline.report
           b == baseline
<1>1. BaselineIs(b, machine.at)
  BY DEF ConnInv
<1> HIDE DEF b, r
<1>2. ReportIsOfItsBaseline
  BY <1>1 DEF BaselineIs, Differs, ReportIsOfItsBaseline, b, r
<1>3. ASSUME r.at # 0
      PROVE  /\ Differs(r, b) /\ SnapshotOf(r.soft, r.installed, r.whole) /\ SnapshotOf(b.soft, b.installed, b.whole)
  BY <1>1, <1>3 DEF BaselineIs, b, r
<1> DEFINE found(soft, x) == {y \in soft : SourceOf(y[1]) = x[1] /\ y[2] = x[2]}
<1>4. ASSUME r.at # 0, NEW x \in r.added
      PROVE  /\ x[2] = Fragment0 => ~r.whole
             /\ x[2] # Fragment0 => found(r.installed, x) # {}
             /\ b.whole /\ x[1] # "systemd" => found(b.installed, x) = {}
  <2>1. x \in r.soft \ b.soft
    BY <1>3, <1>4 DEF Differs
  <2>2. /\ x[2] = Fragment0 => ~r.whole
        /\ x[2] # Fragment0 => \E y \in r.installed : Installs(y, x)
        /\ b.whole /\ x[1] # "systemd" => \A y \in b.installed : ~Installs(y, x)
    BY <1>3, <1>4, <2>1, DifferenceIsTrue
  <2> QED
    BY <2>2 DEF Installs
<1>5. ASSUME r.at # 0, NEW x \in r.removed
      PROVE  /\ x[2] = Fragment0 => ~b.whole
             /\ x[2] # Fragment0 => found(b.installed, x) # {}
             /\ r.whole /\ x[1] # "systemd" => found(r.installed, x) = {}
  <2>1. x \in b.soft \ r.soft
    BY <1>3, <1>5 DEF Differs
  <2>2. /\ x[2] = Fragment0 => ~b.whole
        /\ x[2] # Fragment0 => \E y \in b.installed : Installs(y, x)
        /\ r.whole /\ x[1] # "systemd" => \A y \in r.installed : ~Installs(y, x)
    BY <1>3, <1>5, <2>1, DifferenceIsTrue
  <2> QED
    BY <2>2 DEF Installs
<1>6. ASSUME r.at # 0, r.whole, b.whole, r.added = {}, r.removed = {}
      PROVE  Listed(r.installed) = Listed(b.installed)
  <2>1. r.soft = Listed(r.installed) /\ b.soft = Listed(b.installed)
    BY <1>3, <1>6, SnapshotIsTrue
  <2>2. r.soft = b.soft
    BY <1>3, <1>6 DEF Differs
  <2> QED
    BY <2>1, <2>2
<1>7. ReportIsTrue
  BY <1>4, <1>5, <1>6 DEF ReportIsTrue, r, b
<1> QED
  BY <1>2, <1>7 DEF ReportIsSound

\* The invariant ReportIsSound holds in every behavior of the workspace, for every list of sections,
\* every machine and any number of requests: whatever collectRemoteSnapshot is cut short to, and
\* whoever sets another baseline in between, a report of runDriftCheck shows the change of its
\* machine since the baseline it stands with.
THEOREM ReportsAreAlwaysSound == Spec => []ReportIsSound
<1>1. Init => ConnInv
  BY ConnectionsStart DEF Init
<1>2. ConnInv /\ [Next]_vars => ConnInv'
  <2> SUFFICES ASSUME ConnInv, [Next]_vars PROVE ConnInv'
    OBVIOUS
  <2>1. [ConnectionsNext]_connVars
    BY DEF Next, vars
  <2> QED
    BY <2>1, ConnectionsStep
<1> QED
  BY <1>1, <1>2, ConnectionsShow, PTL DEF Spec
=============================================================================
