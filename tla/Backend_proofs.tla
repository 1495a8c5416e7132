--------------------------- MODULE Backend_proofs ---------------------------
(***************************************************************************)
(* Proofs about the parts of the server: what holds of each part alone is  *)
(* lifted to the composition, in which one part moves and the others rest. *)
(***************************************************************************)
EXTENDS Backend, Playbook_proofs, SequenceTheorems, FiniteSetTheorems, Induction, TLAPS

-----------------------------------------------------------------------------
(* The audit log of a suggestion.                                          *)

Statuses == {"pending", "accepted", "rejected"}
Entries == [old : Statuses, new : Statuses]

Chains(log, status) ==
    /\ \A i \in DOMAIN log : log[i].old = IF i = 1 THEN "pending" ELSE log[i - 1].new
    /\ status = IF log = <<>> THEN "pending" ELSE log[Len(log)].new

NotesTypeOK ==
    /\ suggestion \in Statuses /\ audit \in Seq(Entries)
    /\ DOMAIN step = Ticks \cup Admins

\* Who is in the middle of a transaction has it open, and read the status after
\* it had begun.
TransactionIsOwned ==
    /\ \A w \in Ticks : step[w][1] \in {"send", "commit"} => open = w
    /\ \A a \in Admins : /\ step[a][1] \in {"old", "written"} => open = a
                         /\ step[a][1] = "old" => step[a][2] = suggestion

\* What a rollback brings back was a chain as well.
SavedChains ==
    open # "nobody" => /\ committed[2] \in Seq(Entries) /\ committed[3] \in Statuses
                       /\ Chains(committed[2], committed[3])

NotesInv == NotesTypeOK /\ TransactionIsOwned /\ SavedChains /\ Chains(audit, suggestion)

LEMMA NotesStart == NotifyInit => NotesInv
<1> SUFFICES ASSUME NotifyInit PROVE NotesInv
  OBVIOUS
<1>1. \A x \in Ticks \cup Admins : step[x] = Idle /\ step[x][1] = "idle"
  BY DEF NotifyInit, Idle
<1>2. NotesTypeOK
  <2>1. audit \in Seq(Entries) /\ suggestion \in Statuses /\ DOMAIN step = Ticks \cup Admins
    BY DEF NotifyInit, Statuses
  <2> QED
    BY <2>1 DEF NotesTypeOK
<1>3. Chains(audit, suggestion)
  BY DEF NotifyInit, Chains
<1> QED
  BY <1>1, <1>2, <1>3 DEF NotifyInit, NotesInv, TransactionIsOwned, SavedChains

\* An entry that starts at the status makes a chain to its end.
LEMMA ChainGrows ==
  ASSUME NEW log \in Seq(Entries), NEW status, Chains(log, status),
         NEW e \in Entries, e.old = status
  PROVE  Append(log, e) \in Seq(Entries) /\ Chains(Append(log, e), e.new)
<1> DEFINE new == Append(log, e)
<1>1. /\ new \in Seq(Entries) /\ Len(new) = Len(log) + 1 /\ new # <<>>
      /\ \A i \in 1..Len(log) : new[i] = log[i]
      /\ new[Len(log) + 1] = e /\ Len(log) \in Nat /\ DOMAIN new = 1..Len(new) /\ DOMAIN log = 1..Len(log)
  OBVIOUS
<1>2. Len(log) = 0 <=> log = <<>>
  OBVIOUS
<1> HIDE DEF new
<1>3. ASSUME NEW i \in 1..Len(new)
      PROVE  new[i].old = IF i = 1 THEN "pending" ELSE new[i - 1].new
  <2>1. CASE i = Len(log) + 1
    <3>1. CASE log = <<>>
      BY <1>1, <1>2, <2>1, <3>1 DEF Chains
    <3>2. CASE log # <<>>
      <4>1. i # 1 /\ i - 1 = Len(log) /\ i - 1 \in 1..Len(log) /\ new[i] = e
        BY <1>1, <1>2, <2>1, <3>2
      <4>2. status = log[Len(log)].new
        BY <3>2 DEF Chains
      <4> QED
        BY <1>1, <4>1, <4>2
    <3> QED
      BY <3>1, <3>2
  <2>2. CASE i # Len(log) + 1
    <3>1. i \in 1..Len(log) /\ (i # 1 => i - 1 \in 1..Len(log))
      BY <1>1, <2>2
    <3>2. log[i].old = IF i = 1 THEN "pending" ELSE log[i - 1].new
      BY <1>1, <3>1 DEF Chains
    <3> QED
      BY <1>1, <3>1, <3>2
  <2> QED
    BY <2>1, <2>2
<1>4. e.new = new[Len(new)].new
  BY <1>1
<1>5. Chains(new, e.new)
  BY <1>1, <1>3, <1>4 DEF Chains
<1> QED
  BY <1>1, <1>5 DEF new

\* What changes neither the log nor the transaction, for a tick that moves on.
LEMMA TickMoves ==
  ASSUME NotesInv, NEW w \in Ticks, NEW s,
         step' = [step EXCEPT ![w] = s],
         UNCHANGED <<audit, suggestion, open, committed>>,
         s[1] \in {"send", "commit"} => open = w
  PROVE  NotesInv'
<1>1. step'[w] = s /\ DOMAIN step' = DOMAIN step /\ w \notin Admins
      /\ \A x \in Ticks \cup Admins : x # w => step'[x] = step[x]
  BY NotifyAssumption DEF NotesInv, NotesTypeOK
<1>2. NotesTypeOK'
  BY <1>1 DEF NotesInv, NotesTypeOK
<1>3. TransactionIsOwned'
  BY <1>1 DEF NotesInv, TransactionIsOwned
<1> QED
  BY <1>2, <1>3 DEF NotesInv, SavedChains

\* A transaction that begins keeps the chain for a rollback.
LEMMA BeginKeeps ==
  ASSUME NotesInv, NEW x \in Ticks \cup Admins, BeginTx(x), UNCHANGED tables, NEW s,
         step' = [step EXCEPT ![x] = s],
         x \in Admins => (s[1] = "old" => s[2] = suggestion)
  PROVE  NotesInv'
<1>1. audit' = audit /\ suggestion' = suggestion /\ rows' = rows
  BY DEF tables
<1>2. open = "nobody" /\ open' = x /\ committed' = <<rows, audit, suggestion>>
  BY DEF BeginTx, tables
<1>3. step'[x] = s /\ DOMAIN step' = DOMAIN step
      /\ \A y \in Ticks \cup Admins : y # x => step'[y] = step[y]
  BY DEF NotesInv, NotesTypeOK
<1>4. NotesTypeOK'
  BY <1>1, <1>3 DEF NotesInv, NotesTypeOK
<1>5. \A w \in Ticks : step[w][1] \notin {"send", "commit"}
  BY <1>2, NotifyAssumption DEF NotesInv, TransactionIsOwned
<1>6. \A a \in Admins : step[a][1] \notin {"old", "written"}
  BY <1>2, NotifyAssumption DEF NotesInv, TransactionIsOwned
<1>7. TransactionIsOwned'
  BY <1>1, <1>2, <1>3, <1>5, <1>6 DEF TransactionIsOwned
<1>8. SavedChains'
  BY <1>1, <1>2 DEF SavedChains, NotesInv, NotesTypeOK
<1> QED
  BY <1>1, <1>4, <1>7, <1>8 DEF NotesInv

\* A transaction that ends, by its owner, leaves a chain.
LEMMA EndKeeps ==
  ASSUME NotesInv, NEW x \in Ticks \cup Admins, open = x, NEW s,
         step' = [step EXCEPT ![x] = s],
         x \in Ticks => s[1] \notin {"send", "commit"},
         x \in Admins => s[1] \notin {"old", "written"},
         RollbackTx \/ (CommitTx /\ UNCHANGED tables)
  PROVE  NotesInv'
<1>1. open # "nobody"
  BY NotifyAssumption
<1>2. /\ audit' \in Seq(Entries) /\ suggestion' \in Statuses /\ Chains(audit', suggestion')
      /\ open' = "nobody"
  <2>1. CASE RollbackTx
    BY <1>1, <2>1 DEF RollbackTx, NotesInv, SavedChains
  <2>2. CASE CommitTx /\ UNCHANGED tables
    BY <2>2 DEF CommitTx, tables, NotesInv, NotesTypeOK
  <2> QED
    BY <2>1, <2>2
<1>3. step'[x] = s /\ DOMAIN step' = DOMAIN step
      /\ \A y \in Ticks \cup Admins : y # x => step'[y] = step[y]
  BY DEF NotesInv, NotesTypeOK
<1>4. NotesTypeOK'
  BY <1>2, <1>3 DEF NotesInv, NotesTypeOK
<1>5. \A w \in Ticks : w # x => step[w][1] \notin {"send", "commit"}
  BY DEF NotesInv, TransactionIsOwned
<1>6. \A a \in Admins : a # x => step[a][1] \notin {"old", "written"}
  BY DEF NotesInv, TransactionIsOwned
<1>7. TransactionIsOwned'
  BY <1>3, <1>5, <1>6 DEF TransactionIsOwned
<1>8. Chains(audit, suggestion)' /\ SavedChains'
  BY <1>2 DEF SavedChains
<1> QED
  BY <1>4, <1>7, <1>8 DEF NotesInv

LEMMA DecisionKeeps ==
  ASSUME NotesInv, NEW a \in Admins, NEW action \in {"accepted", "rejected"}, WriteDecision(a, action)
  PROVE  NotesInv'
<1> DEFINE e == [old |-> step[a][2], new |-> action]
<1>1. open = a /\ step[a][2] = suggestion
  BY DEF WriteDecision, NotesInv, TransactionIsOwned
<1>2. e \in Entries /\ e.old = suggestion /\ e.new = action
  BY <1>1 DEF NotesInv, NotesTypeOK, Entries, Statuses
<1>3. audit' = Append(audit, e) /\ suggestion' = action /\ open' = open /\ committed' = committed
  BY DEF WriteDecision
<1> HIDE DEF e
<1>4. audit' \in Seq(Entries) /\ Chains(audit', suggestion')
  <2>1. audit \in Seq(Entries) /\ Chains(audit, suggestion)
    BY DEF NotesInv, NotesTypeOK
  <2>2. Append(audit, e) \in Seq(Entries) /\ Chains(Append(audit, e), e.new)
    BY <1>2, <2>1, ChainGrows
  <2> QED
    BY <1>2, <1>3, <2>2
<1>5. /\ step'[a] = <<"written">> /\ DOMAIN step' = DOMAIN step /\ a \notin Ticks
      /\ \A x \in Ticks \cup Admins : x # a => step'[x] = step[x]
  BY NotifyAssumption DEF WriteDecision, NotesInv, NotesTypeOK
<1>6. NotesTypeOK'
  <2>1. suggestion' \in Statuses
    BY <1>3 DEF Statuses
  <2> QED
    BY <1>4, <1>5, <2>1 DEF NotesInv, NotesTypeOK
<1>7. TransactionIsOwned'
  <2>1. \A b \in Admins : b # a => step[b][1] \notin {"old", "written"}
    BY <1>1 DEF NotesInv, TransactionIsOwned
  <2>2. step'[a][1] = "written"
    BY <1>5
  <2> QED
    BY <1>1, <1>3, <1>5, <2>1, <2>2 DEF NotesInv, TransactionIsOwned
<1>8. Chains(audit, suggestion)' /\ SavedChains'
  BY <1>3, <1>4 DEF NotesInv, SavedChains
<1> QED
  BY <1>6, <1>7, <1>8 DEF NotesInv

LEMMA NotesStep == NotesInv /\ [NotifyNext]_noteVars => NotesInv'
<1> SUFFICES ASSUME NotesInv, [NotifyNext]_noteVars PROVE NotesInv'
  OBVIOUS
<1> DEFINE Quiet == UNCHANGED <<audit, suggestion, open, committed, step>>
<1>0. Quiet => NotesInv'
  BY DEF NotesInv, NotesTypeOK, TransactionIsOwned, SavedChains
<1>1. ASSUME NEW n \in Notes, EnqueueNotification(n) PROVE NotesInv'
  BY <1>0, <1>1 DEF EnqueueNotification
<1>2. ASSUME NEW w \in Ticks, SelectDue(w) PROVE NotesInv'
  BY <1>0, <1>2 DEF SelectDue, tables
<1>3. ASSUME NEW w \in Ticks, BeginItem(w) PROVE NotesInv'
  <2>1. CASE UNCHANGED <<open, committed, step>>
    BY <1>0, <1>3, <2>1 DEF BeginItem, tables
  <2>2. ASSUME BeginTx(w), NEW n \in DOMAIN batch[w], step' = [step EXCEPT ![w] = <<"send", n>>]
        PROVE  NotesInv'
    BY <1>3, <2>2, BeginKeeps, NotifyAssumption DEF BeginItem
  <2> QED
    BY <1>3, <2>1, <2>2 DEF BeginItem
<1>4. ASSUME NEW w \in Ticks, NEW n \in Notes, SendAndMark(w, n) PROVE NotesInv'
  <2>1. open = w
    BY <1>4 DEF SendAndMark, NotesInv, TransactionIsOwned
  <2> QED
    BY <1>4, <2>1, TickMoves DEF SendAndMark
<1>5. ASSUME NEW w \in Ticks, NEW n \in Notes, CommitItem(w, n) PROVE NotesInv'
  <2>1. open = w /\ w \notin Admins /\ Idle[1] \notin {"send", "commit"}
    BY <1>5, NotifyAssumption DEF CommitItem, NotesInv, TransactionIsOwned, Idle
  <2> QED
    BY <1>5, <2>1, EndKeeps DEF CommitItem
<1>6. ASSUME NEW w \in Ticks, NEW n \in Notes, RollbackItem(w, n) PROVE NotesInv'
  <2> DEFINE s == <<"record", n>>
  <2>1. open = w /\ w \notin Admins /\ s[1] \notin {"send", "commit"}
    BY <1>6, NotifyAssumption DEF RollbackItem, NotesInv, TransactionIsOwned
  <2>2. step' = [step EXCEPT ![w] = s] /\ RollbackTx
    BY <1>6 DEF RollbackItem
  <2> HIDE DEF s
  <2> QED
    BY <2>1, <2>2, EndKeeps
<1>7. ASSUME NEW w \in Ticks, NEW n \in Notes, RecordFailure(w, n) PROVE NotesInv'
  <2>1. Idle[1] \notin {"send", "commit"}
    BY DEF Idle
  <2> QED
    BY <1>7, <2>1, TickMoves DEF RecordFailure
<1>8. ASSUME NEW a \in Admins, BeginProcess(a) PROVE NotesInv'
  BY <1>8, BeginKeeps DEF BeginProcess
<1>9. ASSUME NEW a \in Admins, EndProcess(a) PROVE NotesInv'
  <2> DEFINE s == <<"done">>
  <2>1. open = a /\ a \notin Ticks /\ s[1] \notin {"old", "written"}
    BY <1>9, NotifyAssumption DEF EndProcess, NotesInv, TransactionIsOwned
  <2>2. step' = [step EXCEPT ![a] = s] /\ (RollbackTx \/ (CommitTx /\ UNCHANGED tables))
    BY <1>9 DEF EndProcess
  <2> HIDE DEF s
  <2> QED
    BY <2>1, <2>2, EndKeeps
<1>10. CASE UNCHANGED noteVars
  BY <1>0, <1>10 DEF noteVars
<1> QED
  BY <1>1, <1>2, <1>3, <1>4, <1>5, <1>6, <1>7, <1>8, <1>9, <1>10, DecisionKeeps DEF NotifyNext

\* For any notifications, ticks and administrators: the audit log of a suggestion
\* is a chain to its status, whatever is rolled back.
THEOREM AuditAlwaysChains == BackendSpec => []AuditChains
<1>1. BackendInit => NotesInv
  BY NotesStart DEF BackendInit
<1>2. NotesInv /\ [BackendNext]_backendVars => NotesInv'
  BY NotesStep DEF BackendNext, backendVars
<1>3. NotesInv => AuditChains
  BY DEF NotesInv, Chains, AuditChains
<1> QED
  BY <1>1, <1>2, <1>3, PTL DEF BackendSpec

-----------------------------------------------------------------------------
(* Notifications that are sent again.                                      *)

Table(t) == DOMAIN t = Notes /\ \A n \in Notes : "status" \in DOMAIN t[n]

\* One more send than the repeats account for.
Extra(n) == sends[n] > repeats[n]

\* A tick has sent n and not yet ended its transaction.
UnderWay(n) == \E w \in Ticks : step[w] = <<"commit", n>>

Holds(w, n) == batch[w] # NoBatch /\ n \in DOMAIN batch[w]

SendsTypeOK ==
    /\ sends \in [Notes -> Nat] /\ repeats \in [Notes -> Nat]
    /\ Table(rows) /\ (open # "nobody" => Table(committed[1]))
    /\ DOMAIN batch = Ticks
    /\ \A w \in Ticks, n \in Notes :
           step[w] \in {<<"send", n>>, <<"commit", n>>, <<"record", n>>} => Holds(w, n)

\* Whatever was sent once more than is accounted for is marked as sent, also in
\* what a rollback brings back unless it is being sent; and a tick that could
\* send it again knows that it has changed.
SendsAreMarked ==
    /\ \A n \in Notes : sends[n] <= repeats[n] + 1
    /\ \A n \in Notes : Extra(n) => rows[n].status = "sent"
    /\ open # "nobody" =>
           \A n \in Notes : Extra(n) => committed[1][n].status = "sent" \/ UnderWay(n)
    /\ \A w \in Ticks, n \in Notes :
           Holds(w, n) /\ <<w, n>> \notin changed /\ Extra(n) => UnderWay(n)

SendsInv == NotesInv /\ SendsTypeOK /\ SendsAreMarked

LEMMA SendsStart == NotifyInit => SendsInv
<1> SUFFICES ASSUME NotifyInit PROVE SendsInv
  OBVIOUS
<1>1. sends = [n \in Notes |-> 0] /\ repeats = [n \in Notes |-> 0] /\ open = "nobody"
  BY DEF NotifyInit
<1>2. Table(rows) /\ \A n \in Notes : ~Extra(n)
  BY <1>1 DEF NotifyInit, Table, Row, Extra
<1>3. \A w \in Ticks, n \in Notes : ~Holds(w, n) /\ step[w] = Idle
  BY DEF NotifyInit, Holds
<1>4. SendsTypeOK
  <2>1. \A w \in Ticks, n \in Notes : step[w] \notin {<<"send", n>>, <<"commit", n>>, <<"record", n>>}
    BY <1>3 DEF Idle
  <2>2. DOMAIN batch = Ticks
    BY DEF NotifyInit
  <2> QED
    BY <1>1, <1>2, <2>1, <2>2 DEF SendsTypeOK
<1>5. SendsAreMarked
  BY <1>1, <1>2, <1>3 DEF SendsAreMarked
<1> QED
  BY <1>4, <1>5, NotesStart DEF SendsInv

\* The tick whose transaction is open is alone at it.
LEMMA OneIsUnderWay ==
  ASSUME NotesInv, NEW w \in Ticks, NEW n \in Notes, step[w] \in {<<"send", n>>, <<"commit", n>>}
  PROVE  /\ open = w /\ open # "nobody"
         /\ \A v \in Ticks, m \in Notes : v # w => step[v] \notin {<<"send", m>>, <<"commit", m>>}
         /\ \A m \in Notes : UnderWay(m) => m = n /\ step[w] = <<"commit", n>>
<1>1. \A v \in Ticks, m \in Notes : step[v] \in {<<"send", m>>, <<"commit", m>>} => open = v
  BY DEF NotesInv, TransactionIsOwned
<1>2. open = w /\ open # "nobody"
  BY <1>1, NotifyAssumption
<1>3. \A v \in Ticks, m \in Notes : v # w => step[v] \notin {<<"send", m>>, <<"commit", m>>}
  BY <1>1, <1>2
<1>4. \A m \in Notes : step[w] = <<"commit", m>> => m = n /\ step[w] = <<"commit", n>>
  OBVIOUS
<1> QED
  BY <1>2, <1>3, <1>4 DEF UnderWay

\* While a transaction is not a tick's, nothing is under way.
LEMMA NothingIsUnderWay ==
  ASSUME NotesInv, open \notin Ticks PROVE \A n \in Notes : ~UnderWay(n)
<1>1. \A w \in Ticks, n \in Notes : step[w] = <<"commit", n>> => step[w][1] \in {"send", "commit"}
  OBVIOUS
<1> QED
  BY <1>1 DEF UnderWay, NotesInv, TransactionIsOwned

LEMMA SendAndMarkKeeps ==
  ASSUME SendsInv, NEW w \in Ticks, NEW n \in Notes, SendAndMark(w, n)
  PROVE  SendsTypeOK' /\ SendsAreMarked'
<1>1. /\ step[w] = <<"send", n>>
      /\ sends' = [sends EXCEPT ![n] = @ + 1]
      /\ rows' = [rows EXCEPT ![n].status = "sent"]
      /\ step' = [step EXCEPT ![w] = <<"commit", n>>]
      /\ repeats' = [repeats EXCEPT ![n] = @ + IF <<w, n>> \in changed THEN 1 ELSE 0]
      /\ open' = open /\ committed' = committed /\ batch' = batch /\ changed' = changed
  BY DEF SendAndMark
<1>2. /\ open = w /\ open # "nobody"
      /\ \A m \in Notes : ~UnderWay(m)
  <2>1. <<"send", n>> # <<"commit", n>>
    OBVIOUS
  <2> QED
    BY <1>1, <2>1, OneIsUnderWay DEF SendsInv
<1>3. /\ \A m \in Notes : sends'[m] = (IF m = n THEN sends[n] + 1 ELSE sends[m])
      /\ \A m \in Notes : repeats'[m] = (IF m = n THEN repeats[n] + (IF <<w, n>> \in changed THEN 1 ELSE 0) ELSE repeats[m])
      /\ \A m \in Notes : sends[m] \in Nat /\ repeats[m] \in Nat
      /\ sends' \in [Notes -> Nat] /\ repeats' \in [Notes -> Nat]
  BY <1>1 DEF SendsInv, SendsTypeOK
<1>4. Table(rows') /\ rows'[n].status = "sent" /\ \A m \in Notes : m # n => rows'[m] = rows[m]
  BY <1>1 DEF SendsInv, SendsTypeOK, Table
<1>5. /\ step'[w] = <<"commit", n>>
      /\ \A v \in Ticks : v # w => step'[v] = step[v]
  BY <1>1 DEF SendsInv, NotesInv, NotesTypeOK
<1>6. Holds(w, n) /\ \A v \in Ticks, m \in Notes : Holds(v, m)' <=> Holds(v, m)
  BY <1>1 DEF SendsInv, SendsTypeOK, Holds
<1>7. \A m \in Notes : UnderWay(m)' <=> m = n
  BY <1>2, <1>5 DEF UnderWay
<1>8. \A m \in Notes : m # n => (Extra(m)' <=> Extra(m))
  BY <1>3 DEF Extra
<1>9. SendsTypeOK'
  <2>1. \A v \in Ticks, m \in Notes :
            step'[v] \in {<<"send", m>>, <<"commit", m>>, <<"record", m>>} => Holds(v, m)'
    BY <1>5, <1>6 DEF SendsInv, SendsTypeOK
  <2> QED
    BY <1>1, <1>3, <1>4, <2>1 DEF SendsInv, SendsTypeOK
<1>10. sends'[n] <= repeats'[n] + 1
  BY <1>2, <1>3, <1>6 DEF SendsInv, SendsAreMarked, Extra
<1>11. SendsAreMarked'
  <2>1. \A m \in Notes : sends'[m] <= repeats'[m] + 1
    BY <1>3, <1>10 DEF SendsInv, SendsAreMarked
  <2>2. \A m \in Notes : Extra(m)' => rows'[m].status = "sent"
    BY <1>4, <1>8 DEF SendsInv, SendsAreMarked
  <2>3. \A m \in Notes : Extra(m)' => committed'[1][m].status = "sent" \/ UnderWay(m)'
    BY <1>1, <1>2, <1>7, <1>8 DEF SendsInv, SendsAreMarked
  <2>4. \A v \in Ticks, m \in Notes :
            Holds(v, m)' /\ <<v, m>> \notin changed' /\ Extra(m)' => UnderWay(m)'
    BY <1>1, <1>2, <1>6, <1>7, <1>8 DEF SendsInv, SendsAreMarked
  <2> QED
    BY <2>1, <2>2, <2>3, <2>4 DEF SendsAreMarked
<1> QED
  BY <1>9, <1>11

LEMMA CommitItemKeeps ==
  ASSUME SendsInv, NEW w \in Ticks, NEW n \in Notes, CommitItem(w, n)
  PROVE  SendsTypeOK' /\ SendsAreMarked'
<1>1. /\ step[w] = <<"commit", n>> /\ open' = "nobody"
      /\ batch' = [batch EXCEPT ![w] = Rest(w, n)] /\ step' = [step EXCEPT ![w] = Idle]
      /\ changed' = changed \cup {<<v, n>> : v \in Ticks}
      /\ rows' = rows /\ sends' = sends /\ repeats' = repeats
  BY DEF CommitItem, CommitTx, Touch, tables
<1>2. \A m \in Notes : UnderWay(m) => m = n
  BY <1>1, OneIsUnderWay DEF SendsInv
<1>3. /\ step'[w] = Idle /\ batch'[w] = Rest(w, n)
      /\ \A v \in Ticks : v # w => step'[v] = step[v] /\ batch'[v] = batch[v]
  BY <1>1 DEF SendsInv, SendsTypeOK, NotesInv, NotesTypeOK
<1>4. \A v \in Ticks, m \in Notes : Holds(v, m)' => Holds(v, m)
  <2>1. ASSUME NEW m \in Notes, Holds(w, m)' PROVE Holds(w, m)
    <3>1. batch[w] # NoBatch
      BY <1>1 DEF SendsInv, SendsTypeOK, Holds
    <3> QED
      BY <1>3, <2>1, <3>1 DEF Holds, Rest
  <2> QED
    BY <1>3, <2>1 DEF Holds
<1>5. SendsTypeOK'
  <2>1. \A v \in Ticks, m \in Notes :
            step'[v] \in {<<"send", m>>, <<"commit", m>>, <<"record", m>>} => v # w
    BY <1>3 DEF Idle
  <2>2. \A v \in Ticks, m \in Notes :
            step'[v] \in {<<"send", m>>, <<"commit", m>>, <<"record", m>>} => Holds(v, m)'
    BY <1>3, <2>1 DEF SendsInv, SendsTypeOK, Holds
  <2> QED
    BY <1>1, <2>2 DEF SendsInv, SendsTypeOK
<1>6. ASSUME NEW v \in Ticks, NEW m \in Notes, Holds(v, m)', <<v, m>> \notin changed', Extra(m)'
      PROVE  UnderWay(m)'
  <2>1. m # n /\ <<v, m>> \notin changed
    BY <1>1, <1>6
  <2>2. UnderWay(m)
    BY <1>1, <1>4, <1>6, <2>1 DEF SendsInv, SendsAreMarked, Extra
  <2> QED
    BY <1>2, <2>1, <2>2
<1>7. SendsAreMarked'
  BY <1>1, <1>6 DEF SendsInv, SendsAreMarked, Extra
<1> QED
  BY <1>5, <1>7

LEMMA RollbackItemKeeps ==
  ASSUME SendsInv, NEW w \in Ticks, NEW n \in Notes, RollbackItem(w, n)
  PROVE  SendsTypeOK' /\ SendsAreMarked'
<1>1. /\ step[w] \in {<<"send", n>>, <<"commit", n>>} /\ open' = "nobody" /\ rows' = committed[1]
      /\ batch' = batch /\ step' = [step EXCEPT ![w] = <<"record", n>>]
      /\ changed' = changed /\ sends' = sends
      /\ repeats' = [repeats EXCEPT ![n] = @ + IF step[w][1] = "commit" THEN 1 ELSE 0]
  BY DEF RollbackItem, RollbackTx
<1>2. /\ open = w /\ open # "nobody"
      /\ \A m \in Notes : UnderWay(m) => m = n /\ step[w] = <<"commit", n>>
  BY <1>1, OneIsUnderWay DEF SendsInv
<1>3. /\ step'[w] = <<"record", n>>
      /\ \A v \in Ticks : v # w => step'[v] = step[v]
  BY <1>1 DEF SendsInv, NotesInv, NotesTypeOK
<1>4. \A v \in Ticks, m \in Notes : Holds(v, m)' <=> Holds(v, m)
  BY <1>1 DEF Holds
<1>5. /\ repeats' \in [Notes -> Nat]
      /\ \A m \in Notes : sends[m] \in Nat /\ repeats[m] \in Nat /\ sends[m] <= repeats[m] + 1
      /\ \A m \in Notes : repeats'[m] = (IF m = n THEN repeats[n] + (IF step[w][1] = "commit" THEN 1 ELSE 0) ELSE repeats[m])
  BY <1>1 DEF SendsInv, SendsTypeOK, SendsAreMarked
<1>6. SendsTypeOK'
  <2>1. Holds(w, n)
    BY <1>1 DEF SendsInv, SendsTypeOK
  <2>2. \A m \in Notes : step'[w] \in {<<"send", m>>, <<"commit", m>>, <<"record", m>>} => m = n
    BY <1>3
  <2>3. \A v \in Ticks, m \in Notes :
            step'[v] \in {<<"send", m>>, <<"commit", m>>, <<"record", m>>} => Holds(v, m)'
    BY <1>3, <1>4, <2>1, <2>2 DEF SendsInv, SendsTypeOK
  <2> QED
    BY <1>1, <1>2, <1>5, <2>3 DEF SendsInv, SendsTypeOK
<1>7. ASSUME NEW m \in Notes, Extra(m)' PROVE Extra(m) /\ ~UnderWay(m)
  <2>1. sends[m] > repeats'[m]
    BY <1>1, <1>7 DEF Extra
  <2>2. m = n => step[w][1] # "commit"
    BY <1>5, <2>1
  <2>3. ~UnderWay(m)
    BY <1>2, <2>2
  <2>4. Extra(m)
    BY <1>5, <2>1 DEF Extra
  <2> QED
    BY <2>3, <2>4
<1>8. SendsAreMarked'
  <2>1. \A m \in Notes : sends'[m] <= repeats'[m] + 1
    BY <1>1, <1>5
  <2>2. \A m \in Notes : Extra(m)' => rows'[m].status = "sent"
    BY <1>1, <1>2, <1>7 DEF SendsInv, SendsAreMarked
  <2>3. \A v \in Ticks, m \in Notes : Holds(v, m)' /\ <<v, m>> \notin changed' => ~Extra(m)'
    BY <1>1, <1>4, <1>7 DEF SendsInv, SendsAreMarked
  <2> QED
    BY <1>1, <2>1, <2>2, <2>3 DEF SendsAreMarked
<1> QED
  BY <1>6, <1>8

LEMMA RecordFailureKeeps ==
  ASSUME SendsInv, NEW w \in Ticks, NEW n \in Notes, RecordFailure(w, n)
  PROVE  SendsTypeOK' /\ SendsAreMarked'
<1>1. PICK row2 : /\ rows' = [rows EXCEPT ![n] = row2] /\ "status" \in DOMAIN row2
  <2>1. rows' = [rows EXCEPT ![n] = Row(AfterFailure(batch[w][n] + 1), batch[w][n] + 1)]
    BY DEF RecordFailure
  <2>2. "status" \in DOMAIN Row(AfterFailure(batch[w][n] + 1), batch[w][n] + 1)
    BY DEF Row
  <2> QED
    BY <2>1, <2>2
<1>2. /\ step[w] = <<"record", n>> /\ open' = open /\ committed' = committed /\ sends' = sends
      /\ repeats' = [repeats EXCEPT ![n] = @ + IF rows[n].status = "sent" THEN 1 ELSE 0]
      /\ batch' = [batch EXCEPT ![w] = Rest(w, n)] /\ step' = [step EXCEPT ![w] = Idle]
      /\ changed' = changed \cup {<<v, n>> : v \in Ticks}
  BY DEF RecordFailure, Touch
<1>3. /\ step'[w] = Idle /\ batch'[w] = Rest(w, n)
      /\ \A v \in Ticks : v # w => step'[v] = step[v] /\ batch'[v] = batch[v]
  BY <1>2 DEF SendsInv, SendsTypeOK, NotesInv, NotesTypeOK
<1>4. \A v \in Ticks, m \in Notes : Holds(v, m)' => Holds(v, m)
  <2>1. ASSUME NEW m \in Notes, Holds(w, m)' PROVE Holds(w, m)
    <3>1. batch[w] # NoBatch
      BY <1>2 DEF SendsInv, SendsTypeOK, Holds
    <3> QED
      BY <1>3, <2>1, <3>1 DEF Holds, Rest
  <2> QED
    BY <1>3, <2>1 DEF Holds
<1>5. /\ repeats' \in [Notes -> Nat]
      /\ \A m \in Notes : sends[m] \in Nat /\ repeats[m] \in Nat /\ sends[m] <= repeats[m] + 1
      /\ \A m \in Notes : repeats'[m] = (IF m = n THEN repeats[n] + (IF rows[n].status = "sent" THEN 1 ELSE 0) ELSE repeats[m])
  BY <1>2 DEF SendsInv, SendsTypeOK, SendsAreMarked
<1>6. Table(rows') /\ \A m \in Notes : m # n => rows'[m] = rows[m]
  BY <1>1 DEF SendsInv, SendsTypeOK, Table
<1>7. \A m \in Notes : UnderWay(m) => UnderWay(m)'
  BY <1>2, <1>3 DEF UnderWay
<1>8. SendsTypeOK'
  <2>1. \A v \in Ticks, m \in Notes :
            step'[v] \in {<<"send", m>>, <<"commit", m>>, <<"record", m>>} => v # w
    BY <1>3 DEF Idle
  <2>2. \A v \in Ticks, m \in Notes :
            step'[v] \in {<<"send", m>>, <<"commit", m>>, <<"record", m>>} => Holds(v, m)'
    BY <1>3, <2>1 DEF SendsInv, SendsTypeOK, Holds
  <2>3. DOMAIN batch' = Ticks
    BY <1>2 DEF SendsInv, SendsTypeOK
  <2> QED
    BY <1>2, <1>5, <1>6, <2>2, <2>3 DEF SendsInv, SendsTypeOK
<1>9. ASSUME NEW m \in Notes, Extra(m)' PROVE m # n /\ Extra(m)
  <2>1. sends[m] > repeats'[m]
    BY <1>2, <1>9 DEF Extra
  <2>2. Extra(n) => rows[n].status = "sent"
    BY DEF SendsInv, SendsAreMarked
  <2>3. m # n
    BY <1>5, <2>1, <2>2 DEF Extra
  <2> QED
    BY <1>5, <2>1, <2>3 DEF Extra
<1>10. SendsAreMarked'
  <2>1. \A m \in Notes : sends'[m] <= repeats'[m] + 1
    BY <1>2, <1>5
  <2>2. \A m \in Notes : Extra(m)' => rows'[m].status = "sent"
    BY <1>6, <1>9 DEF SendsInv, SendsAreMarked
  <2>3. open' # "nobody" => \A m \in Notes : Extra(m)' => committed'[1][m].status = "sent" \/ UnderWay(m)'
    BY <1>2, <1>7, <1>9 DEF SendsInv, SendsAreMarked
  <2>4. \A v \in Ticks, m \in Notes : Holds(v, m)' /\ <<v, m>> \notin changed' /\ Extra(m)' => UnderWay(m)'
    BY <1>2, <1>4, <1>7, <1>9 DEF SendsInv, SendsAreMarked
  <2> QED
    BY <2>1, <2>2, <2>3, <2>4 DEF SendsAreMarked
<1> QED
  BY <1>8, <1>10

\* Where only the steps of ticks change, and none of them sends or commits.
LEMMA StepsKeep ==
  ASSUME SendsInv, UNCHANGED <<rows, batch, sends, repeats, changed>>,
         DOMAIN step' = DOMAIN step,
         \A w \in Ticks, n \in Notes : step[w] = <<"commit", n>> <=> step'[w] = <<"commit", n>>,
         \A w \in Ticks, n \in Notes :
             step'[w] \in {<<"send", n>>, <<"commit", n>>, <<"record", n>>} => Holds(w, n),
         \/ open' = open /\ committed' = committed
         \/ open' = "nobody"
         \/ committed'[1] = rows
  PROVE  SendsTypeOK' /\ SendsAreMarked'
<1>1. \A n \in Notes : UnderWay(n)' <=> UnderWay(n)
  BY DEF UnderWay
<1>2. \A n \in Notes : Extra(n)' <=> Extra(n)
  BY DEF Extra
<1>3. \A w \in Ticks, n \in Notes : Holds(w, n)' <=> Holds(w, n)
  BY DEF Holds
<1>4. SendsTypeOK'
  <2>1. Table(rows)' /\ (open' # "nobody" => Table(committed'[1]))
    BY DEF SendsInv, SendsTypeOK, Table
  <2> QED
    BY <1>3, <2>1 DEF SendsInv, SendsTypeOK
<1>5. SendsAreMarked'
  <2>1. open' # "nobody" => \A n \in Notes : Extra(n)' => committed'[1][n].status = "sent" \/ UnderWay(n)'
    BY <1>1, <1>2 DEF SendsInv, SendsAreMarked
  <2>2. \A w \in Ticks, n \in Notes : Holds(w, n)' /\ <<w, n>> \notin changed' /\ Extra(n)' => UnderWay(n)'
    BY <1>1, <1>2, <1>3 DEF SendsInv, SendsAreMarked
  <2> QED
    BY <1>2, <2>1, <2>2 DEF SendsInv, SendsAreMarked
<1> QED
  BY <1>4, <1>5

LEMMA EnqueueKeeps ==
  ASSUME SendsInv, NEW n \in Notes, EnqueueNotification(n) PROVE SendsTypeOK' /\ SendsAreMarked'
<1>1. PICK row2 : rows' = [rows EXCEPT ![n] = row2] /\ "status" \in DOMAIN row2
  <2>1. "status" \in DOMAIN Row("pending", 0)
    BY DEF Row
  <2> QED
    BY <2>1 DEF EnqueueNotification
<1>2. rows[n].status = "none" /\ UNCHANGED <<open, committed, batch, step, sends, repeats, changed>>
  BY DEF EnqueueNotification
<1>3. Table(rows') /\ \A m \in Notes : m # n => rows'[m] = rows[m]
  BY <1>1 DEF SendsInv, SendsTypeOK, Table
<1>4. ~Extra(n)
  BY <1>2 DEF SendsInv, SendsAreMarked
<1>5. SendsTypeOK'
  BY <1>2, <1>3 DEF SendsInv, SendsTypeOK, Holds
<1>6. SendsAreMarked'
  BY <1>2, <1>3, <1>4 DEF SendsInv, SendsAreMarked, Extra, UnderWay, Holds
<1> QED
  BY <1>5, <1>6

LEMMA SelectDueKeeps ==
  ASSUME SendsInv, NEW w \in Ticks, SelectDue(w) PROVE SendsTypeOK' /\ SendsAreMarked'
<1>1. PICK S \in SUBSET {n \in Notes : Due(n)} : batch' = [batch EXCEPT ![w] = [n \in S |-> rows[n].attempts]]
  BY DEF SelectDue
<1>2. /\ batch[w] = NoBatch /\ changed' = changed \ ({w} \X Notes)
      /\ UNCHANGED <<rows, open, committed, step, sends, repeats>>
  BY DEF SelectDue, tables
<1>3. /\ DOMAIN batch'[w] = S /\ DOMAIN batch' = Ticks
      /\ \A v \in Ticks : v # w => batch'[v] = batch[v]
  BY <1>1 DEF SendsInv, SendsTypeOK
<1>4. \A n \in Notes : n \in S => ~Extra(n)
  BY DEF Due, SendsInv, SendsAreMarked
<1>5. SendsTypeOK'
  <2>1. \A v \in Ticks, n \in Notes :
            step[v] \in {<<"send", n>>, <<"commit", n>>, <<"record", n>>} => Holds(v, n) /\ v # w
    BY <1>2 DEF SendsInv, SendsTypeOK, Holds
  <2>2. \A v \in Ticks, n \in Notes :
            step'[v] \in {<<"send", n>>, <<"commit", n>>, <<"record", n>>} => Holds(v, n)'
    BY <1>2, <1>3, <2>1 DEF Holds
  <2> QED
    BY <1>2, <1>3, <2>2 DEF SendsInv, SendsTypeOK
<1>6. ASSUME NEW v \in Ticks, NEW n \in Notes, Holds(v, n)', <<v, n>> \notin changed', Extra(n)'
      PROVE  UnderWay(n)'
  <2>1. Extra(n)
    BY <1>2, <1>6 DEF Extra
  <2>2. v # w
    BY <1>3, <1>4, <1>6, <2>1 DEF Holds
  <2>3. Holds(v, n) /\ <<v, n>> \notin changed
    BY <1>2, <1>3, <1>6, <2>2 DEF Holds
  <2>4. UnderWay(n)
    BY <2>1, <2>3 DEF SendsInv, SendsAreMarked
  <2> QED
    BY <1>2, <2>4 DEF UnderWay
<1>7. SendsAreMarked'
  BY <1>2, <1>6 DEF SendsInv, SendsAreMarked, Extra, UnderWay
<1> QED
  BY <1>5, <1>7

LEMMA BeginItemKeeps ==
  ASSUME SendsInv, NEW w \in Ticks, BeginItem(w) PROVE SendsTypeOK' /\ SendsAreMarked'
<1>1. batch[w] # NoBatch /\ step[w] = Idle /\ UNCHANGED <<rows, sends, repeats, changed>>
  BY DEF BeginItem, tables
<1>2. ASSUME batch' = [batch EXCEPT ![w] = NoBatch], UNCHANGED <<open, committed, step>>
      PROVE  SendsTypeOK' /\ SendsAreMarked'
  <2>1. DOMAIN batch' = Ticks /\ \A v \in Ticks : v # w => batch'[v] = batch[v]
    BY <1>2 DEF SendsInv, SendsTypeOK
  <2>2. \A v \in Ticks, n \in Notes : Holds(v, n)' => Holds(v, n)
    BY <1>1, <1>2, <2>1 DEF SendsInv, SendsTypeOK, Holds
  <2>3. \A n \in Notes : step[w] \notin {<<"send", n>>, <<"commit", n>>, <<"record", n>>}
    BY <1>1 DEF Idle
  <2>4. \A v \in Ticks, n \in Notes :
            step'[v] \in {<<"send", n>>, <<"commit", n>>, <<"record", n>>} => Holds(v, n)'
    BY <1>2, <2>1, <2>3 DEF SendsInv, SendsTypeOK, Holds
  <2>5. SendsTypeOK'
    BY <1>1, <1>2, <2>1, <2>4 DEF SendsInv, SendsTypeOK
  <2>6. SendsAreMarked'
    BY <1>1, <1>2, <2>2 DEF SendsInv, SendsAreMarked, Extra, UnderWay
  <2> QED
    BY <2>5, <2>6
<1>3. ASSUME BeginTx(w), NEW n \in DOMAIN batch[w], step' = [step EXCEPT ![w] = <<"send", n>>], batch' = batch
      PROVE  SendsTypeOK' /\ SendsAreMarked'
  <2>1. committed'[1] = rows
    BY <1>3 DEF BeginTx, tables
  <2>2. /\ step'[w] = <<"send", n>> /\ DOMAIN step' = DOMAIN step
        /\ \A v \in Ticks : v # w => step'[v] = step[v]
    BY <1>3 DEF SendsInv, NotesInv, NotesTypeOK
  <2>3. \A v \in Ticks, m \in Notes : step[v] = <<"commit", m>> <=> step'[v] = <<"commit", m>>
    BY <1>1, <2>2 DEF Idle
  <2>4. \A v \in Ticks, m \in Notes :
            step'[v] \in {<<"send", m>>, <<"commit", m>>, <<"record", m>>} => Holds(v, m)
    BY <1>1, <1>3, <2>2 DEF SendsInv, SendsTypeOK, Holds
  <2> QED
    BY <1>1, <1>3, <2>1, <2>2, <2>3, <2>4, StepsKeep
<1> QED
  BY <1>2, <1>3 DEF BeginItem

\* Administrators, who share the connection.
LEMMA AdminsKeep ==
  ASSUME SendsInv, NEW a \in Admins,
         \/ BeginProcess(a) \/ EndProcess(a)
         \/ \E action \in {"accepted", "rejected"} : WriteDecision(a, action)
  PROVE  SendsTypeOK' /\ SendsAreMarked'
<1>1. PICK s : step' = [step EXCEPT ![a] = s]
  BY DEF BeginProcess, EndProcess, WriteDecision
<1>2. DOMAIN step' = DOMAIN step /\ a \notin Ticks /\ \A w \in Ticks : step'[w] = step[w]
  BY <1>1, NotifyAssumption DEF SendsInv, NotesInv, NotesTypeOK
<1>3. UNCHANGED <<batch, sends, repeats, changed>>
  BY DEF BeginProcess, EndProcess, WriteDecision
<1>4. \A w \in Ticks, n \in Notes :
          step'[w] \in {<<"send", n>>, <<"commit", n>>, <<"record", n>>} => Holds(w, n)
  BY <1>2 DEF SendsInv, SendsTypeOK
<1>5. CASE rows' = rows /\ ((open' = open /\ committed' = committed) \/ open' = "nobody" \/ committed'[1] = rows)
  BY <1>2, <1>3, <1>4, <1>5, StepsKeep
<1>6. CASE BeginProcess(a)
  BY <1>5, <1>6 DEF BeginProcess, BeginTx, tables
<1>7. ASSUME NEW action \in {"accepted", "rejected"}, WriteDecision(a, action)
      PROVE  SendsTypeOK' /\ SendsAreMarked'
  BY <1>5, <1>7 DEF WriteDecision
<1>8. CASE EndProcess(a) /\ RollbackTx
  <2>1. open = a
    BY <1>8 DEF EndProcess, SendsInv, NotesInv, TransactionIsOwned
  <2>2. open # "nobody" /\ \A n \in Notes : ~UnderWay(n)
    BY <1>2, <2>1, NothingIsUnderWay, NotifyAssumption DEF SendsInv
  <2>3. rows' = committed[1] /\ open' = "nobody"
    BY <1>8 DEF RollbackTx
  <2>4. SendsTypeOK'
    BY <1>2, <1>3, <2>2, <2>3 DEF SendsInv, SendsTypeOK, Holds
  <2>5. SendsAreMarked'
    <3>1. \A n \in Notes : Extra(n)' => rows'[n].status = "sent"
      BY <1>3, <2>2, <2>3 DEF SendsInv, SendsAreMarked, Extra
    <3>2. \A w \in Ticks, n \in Notes : Holds(w, n)' /\ <<w, n>> \notin changed' => ~Extra(n)'
      BY <1>3, <2>2 DEF SendsInv, SendsAreMarked, Extra, Holds
    <3> QED
      BY <1>3, <2>3, <3>1, <3>2 DEF SendsInv, SendsAreMarked
  <2> QED
    BY <2>4, <2>5
<1>9. CASE EndProcess(a) /\ CommitTx /\ UNCHANGED tables
  BY <1>5, <1>9 DEF CommitTx, tables
<1> QED
  BY <1>6, <1>7, <1>8, <1>9 DEF EndProcess

LEMMA SendsStep == SendsInv /\ [NotifyNext]_noteVars => SendsInv'
<1> SUFFICES ASSUME SendsInv, [NotifyNext]_noteVars PROVE SendsTypeOK' /\ SendsAreMarked'
  BY NotesStep DEF SendsInv
<1>1. CASE NotifyNext
  BY <1>1, EnqueueKeeps, SelectDueKeeps, BeginItemKeeps, SendAndMarkKeeps, CommitItemKeeps,
     RollbackItemKeeps, RecordFailureKeeps, AdminsKeep DEF NotifyNext
<1>2. CASE UNCHANGED noteVars
  BY <1>2, StepsKeep DEF noteVars, SendsInv, SendsTypeOK
<1> QED
  BY <1>1, <1>2

\* For any notifications and overlapping ticks, whatever fails: a notification is
\* sent once more only for a transaction that was not committed, or for a row that
\* had changed since it was selected.
THEOREM NotesAreSentOnceUnlessRepeated == BackendSpec => []NotifiedAgainOnlyIfUncommitted
<1>1. BackendInit => SendsInv
  BY SendsStart DEF BackendInit
<1>2. SendsInv /\ [BackendNext]_backendVars => SendsInv'
  BY SendsStep DEF BackendNext, backendVars
<1>3. SendsInv => NotifiedAgainOnlyIfUncommitted
  <2>1. \A n \in Notes, s \in [Notes -> Nat] : s[n] + 1 = 1 + s[n]
    OBVIOUS
  <2> QED
    BY <2>1 DEF SendsInv, SendsTypeOK, SendsAreMarked, NotifiedAgainOnlyIfUncommitted
<1> QED
  BY <1>1, <1>2, <1>3, PTL DEF BackendSpec

-----------------------------------------------------------------------------
(* The runtime document.                                                   *)

Documents == SUBSET Updates
Places == {"idle", "locking", "reading", "selecting", "awaiting", "creating", "mutating", "writing",
           "done", "failed"}
Replies == [call : StoreCalls, stmt : {"select", "create", "write"}, doc : Documents \cup {Absent}]

DocumentTypeOK ==
    /\ {row, savedRow, cache} \subseteq Documents \cup {Absent}
    /\ line \in Seq(Updates) /\ place \in [StoreCalls -> Places]
    /\ work \in [StoreCalls -> Documents]
    /\ replies \in Seq(Replies) /\ acked \subseteq Updates
    /\ before \in [Readers -> Documents]

\* The mutex: whoever is past it is the first in line, whoever waits is in line.
Past == {"reading", "selecting", "awaiting", "creating", "mutating", "writing"}
FirstIsPast ==
    \A u \in Updates :
        /\ place[u] \in Past => line # <<>> /\ line[1] = u
        /\ place[u] = "locking" => \E i \in 1..Len(line) : line[i] = u

\* Each call awaits at most one reply; only an update writes what it changed,
\* and only a SELECT may find nothing.
RepliesAreAwaited ==
    \A i \in 1..Len(replies) :
        /\ place[replies[i].call] = "awaiting"
        /\ \A j \in 1..Len(replies) : replies[i].call = replies[j].call => i = j
        /\ replies[i].stmt = "write" => replies[i].call \in Updates
        /\ replies[i].stmt # "select" => replies[i].doc # Absent

\* The updates that the first i replies of rs acknowledge.
Acks(rs, i) == {u \in Updates : \E j \in 1..i : rs[j].stmt = "write" /\ rs[j].call = u}

Carries(doc, us) == us # {} => doc # Absent /\ us \subseteq doc

\* Nothing is forgotten: not by the row, not by a reply under way, not by the
\* cache, not by the object of an update that is about to write.
NothingForgotten ==
    /\ Carries(row, acked \cup Acks(replies, Len(replies)))
    /\ \A i \in 1..Len(replies) : Carries(replies[i].doc, acked \cup Acks(replies, i))
    /\ cache # Absent => acked \subseteq cache
    /\ \A u \in Updates : /\ place[u] \in {"mutating", "writing"} => acked \subseteq work[u]
                          /\ place[u] = "writing" => u \in work[u]
    /\ \A r \in Readers : place[r] = "done" => before[r] \subseteq work[r]

DocumentInv ==
    /\ DocumentTypeOK /\ FirstIsPast /\ RepliesAreAwaited
    /\ \A r \in Readers : before[r] \subseteq acked
    /\ ~wiped /\ ~undone => NothingForgotten

LEMMA DocumentStarts == StoreInit => DocumentInv
<1> SUFFICES ASSUME StoreInit PROVE DocumentInv
  OBVIOUS
<1>1. /\ row \in Documents \cup {Absent} /\ cache = Absent /\ savedRow = Absent /\ line = <<>> /\ replies = <<>> /\ acked = {}
      /\ place \in [StoreCalls -> {"idle"}] /\ work \in [StoreCalls -> {{}}]
      /\ before = [r \in Readers |-> {}]
  BY DEF StoreInit, Empty, Documents
<1>2. DocumentTypeOK
  BY <1>1 DEF DocumentTypeOK, Documents, Places
<1>3. acked \cup Acks(replies, Len(replies)) = {}
  BY <1>1 DEF Acks
<1>4. \A p \in StoreCalls : place[p] = "idle"
  BY <1>1
<1>5. Updates \subseteq StoreCalls /\ Readers \subseteq StoreCalls
  BY DEF StoreCalls
<1>6. NothingForgotten
  BY <1>1, <1>3, <1>4, <1>5 DEF NothingForgotten, Carries
<1>7. FirstIsPast /\ RepliesAreAwaited
  BY <1>1, <1>4, <1>5 DEF FirstIsPast, RepliesAreAwaited, Past
<1>8. \A r \in Readers : before[r] \subseteq acked
  BY <1>1
<1> QED
  BY <1>2, <1>6, <1>7, <1>8 DEF DocumentInv

\* A statement is executed: its reply is the last in line.
LEMMA ReplyJoins ==
  ASSUME NEW rs \in Seq(Replies), NEW e \in Replies
  PROVE  /\ Append(rs, e) \in Seq(Replies)
         /\ Len(rs) \in Nat /\ Len(Append(rs, e)) = Len(rs) + 1
         /\ \A i \in 1..Len(rs) : Append(rs, e)[i] = rs[i] /\ rs[i] \in Replies
         /\ Append(rs, e)[Len(rs) + 1] = e
         /\ \A i \in 1..Len(rs) + 1 : i \in 1..Len(rs) \/ i = Len(rs) + 1
         /\ \A i \in 1..Len(rs) : Acks(Append(rs, e), i) = Acks(rs, i)
         /\ Acks(Append(rs, e), Len(rs) + 1) =
               IF e.stmt = "write" THEN Acks(rs, Len(rs)) \cup (Updates \cap {e.call}) ELSE Acks(rs, Len(rs))
<1> DEFINE ns == Append(rs, e)
<1>1. /\ ns \in Seq(Replies) /\ Len(rs) \in Nat /\ Len(ns) = Len(rs) + 1
      /\ \A i \in 1..Len(rs) : ns[i] = rs[i]
      /\ ns[Len(rs) + 1] = e
  BY AppendProperties, LenProperties
<1>2. \A i \in 1..Len(rs) : rs[i] \in Replies
  BY ElementOfSeq
<1> HIDE DEF ns
<1>3. \A i \in 1..Len(rs) + 1 : i \in 1..Len(rs) \/ i = Len(rs) + 1
  BY <1>1
<1>4. ASSUME NEW i \in 1..Len(rs) PROVE Acks(ns, i) = Acks(rs, i)
  <2>1. \A j \in 1..i : ns[j] = rs[j]
    BY <1>1
  <2> QED
    BY <2>1 DEF Acks
<1>5. Acks(ns, Len(rs) + 1) =
         IF e.stmt = "write" THEN Acks(rs, Len(rs)) \cup (Updates \cap {e.call}) ELSE Acks(rs, Len(rs))
  <2>1. ASSUME NEW u
        PROVE  (\E j \in 1..(Len(rs) + 1) : ns[j].stmt = "write" /\ ns[j].call = u)
               <=> (\E j \in 1..Len(rs) : rs[j].stmt = "write" /\ rs[j].call = u)
                   \/ (e.stmt = "write" /\ e.call = u)
    <3>1. Len(rs) + 1 \in 1..(Len(rs) + 1) /\ \A j \in 1..Len(rs) : j \in 1..(Len(rs) + 1)
      BY <1>1
    <3> QED
      BY <1>1, <1>3, <3>1
  <2> QED
    BY <2>1 DEF Acks
<1> QED
  BY <1>1, <1>2, <1>3, <1>4, <1>5 DEF ns

\* The first reply comes: the others move up.
LEMMA ReplyLeaves ==
  ASSUME NEW rs \in Seq(Replies), rs # <<>>
  PROVE  /\ Tail(rs) \in Seq(Replies)
         /\ Len(rs) \in Nat \ {0} /\ Len(Tail(rs)) = Len(rs) - 1
         /\ 1 \in 1..Len(rs) /\ rs[1] \in Replies
         /\ \A i \in 1..Len(Tail(rs)) : Tail(rs)[i] = rs[i + 1] /\ i + 1 \in 1..Len(rs) /\ i + 1 # 1
         /\ \A i \in 0..Len(Tail(rs)) : Acks(rs, i + 1) = Acks(Tail(rs), i) \cup Acks(rs, 1)
         /\ Acks(rs, 1) = IF rs[1].stmt = "write" THEN Updates \cap {rs[1].call} ELSE {}
<1> DEFINE ns == Tail(rs)
<1>1. /\ ns \in Seq(Replies) /\ Len(rs) \in Nat \ {0} /\ Len(ns) = Len(rs) - 1
      /\ \A i \in 1..Len(ns) : ns[i] = rs[i + 1]
  BY HeadTailProperties, EmptySeq
<1>2. 1 \in 1..Len(rs) /\ rs[1] \in Replies
  BY <1>1, ElementOfSeq
<1> HIDE DEF ns
<1>3. \A i \in 1..Len(ns) : i + 1 \in 1..Len(rs) /\ i + 1 # 1
  BY <1>1
<1>4. ASSUME NEW i \in 0..Len(ns) PROVE Acks(rs, i + 1) = Acks(ns, i) \cup Acks(rs, 1)
  <2>1. ASSUME NEW j \in 1..(i + 1), j # 1 PROVE j - 1 \in 1..i /\ ns[j - 1] = rs[j]
    BY <1>1, <2>1
  <2>2. ASSUME NEW j \in 1..i PROVE j + 1 \in 1..(i + 1) /\ ns[j] = rs[j + 1]
    BY <1>1
  <2>3. 1 \in 1..(i + 1) /\ 1 \in 1..1 /\ \A j \in 1..1 : j = 1
    BY <1>1
  <2>4. ASSUME NEW u \in Acks(rs, i + 1), u \notin Acks(rs, 1) PROVE u \in Acks(ns, i)
    <3>1. PICK j \in 1..(i + 1) : rs[j].stmt = "write" /\ rs[j].call = u
      BY <2>4 DEF Acks
    <3>2. j # 1
      BY <2>3, <2>4, <3>1 DEF Acks
    <3> QED
      BY <2>1, <2>4, <3>1, <3>2 DEF Acks
  <2>5. ASSUME NEW u \in Acks(ns, i) PROVE u \in Acks(rs, i + 1)
    BY <2>2, <2>5 DEF Acks
  <2>6. Acks(rs, 1) \subseteq Acks(rs, i + 1)
    BY <2>3 DEF Acks
  <2> QED
    BY <2>4, <2>5, <2>6
<1>5. Acks(rs, 1) = IF rs[1].stmt = "write" THEN Updates \cap {rs[1].call} ELSE {}
  BY DEF Acks
<1> QED
  BY <1>1, <1>2, <1>3, <1>4, <1>5 DEF ns

\* A call moves on and nobody leaves the line.
LEMMA LineKept ==
  ASSUME DocumentTypeOK, FirstIsPast, NEW p \in StoreCalls, NEW q \in Places \ {"locking"},
         line' = line, place' = [place EXCEPT ![p] = q],
         p \in Updates /\ q \in Past => place[p] \in Past
  PROVE  FirstIsPast' /\ place' \in [StoreCalls -> Places]
<1>1. place' \in [StoreCalls -> Places]
  BY DEF DocumentTypeOK
<1>2. ASSUME NEW u \in Updates PROVE place'[u] = IF u = p THEN q ELSE place[u]
  BY DEF DocumentTypeOK, StoreCalls
<1> QED
  BY <1>1, <1>2 DEF FirstIsPast

\* finally { release() }: the first in line is over, those behind it move up.
LEMMA LineReleased ==
  ASSUME DocumentTypeOK, FirstIsPast, NEW p \in Updates, NEW q \in {"done", "failed"},
         place[p] \in Past, line' = Tail(line), place' = [place EXCEPT ![p] = q]
  PROVE  FirstIsPast' /\ place' \in [StoreCalls -> Places] /\ line' \in Seq(Updates)
<1>1. p \in StoreCalls /\ Updates \subseteq StoreCalls /\ q \in Places
  BY DEF StoreCalls, Places
<1>2. place' \in [StoreCalls -> Places]
  BY <1>1 DEF DocumentTypeOK
<1>3. \A u \in Updates : place'[u] = IF u = p THEN q ELSE place[u]
  BY <1>1 DEF DocumentTypeOK
<1>4. line \in Seq(Updates) /\ line # <<>> /\ line[1] = p
  BY DEF DocumentTypeOK, FirstIsPast
<1>5. /\ line' \in Seq(Updates) /\ Len(line) \in Nat \ {0} /\ Len(line') = Len(line) - 1
      /\ \A i \in 1..Len(line') : line'[i] = line[i + 1]
  BY <1>4, HeadTailProperties, EmptySeq
<1>6. \A u \in Updates : place'[u] \notin Past
  BY <1>3, <1>4 DEF FirstIsPast, Past
<1>7. ASSUME NEW u \in Updates, place'[u] = "locking" PROVE \E i \in 1..Len(line') : line'[i] = u
  <2>1. u # p /\ place[u] = "locking"
    BY <1>3, <1>7
  <2>2. PICK i \in 1..Len(line) : line[i] = u
    BY <2>1 DEF FirstIsPast
  <2>3. i - 1 \in 1..Len(line') /\ line'[i - 1] = line[i]
    BY <1>4, <1>5, <2>1, <2>2
  <2> QED
    BY <2>2, <2>3
<1> QED
  BY <1>2, <1>5, <1>6, <1>7 DEF FirstIsPast

\* While an update is past the mutex and awaits nothing, no write is under way.
LEMMA HolderWritesAlone ==
  ASSUME DocumentInv, NEW p \in Updates, place[p] \in Past, place[p] # "awaiting"
  PROVE  Acks(replies, Len(replies)) = {}
<1> SUFFICES ASSUME NEW u \in Updates, NEW j \in 1..Len(replies),
                    replies[j].stmt = "write", replies[j].call = u
             PROVE  FALSE
  BY DEF Acks
<1>1. place[u] = "awaiting"
  BY DEF DocumentInv, RepliesAreAwaited
<1>2. u = p
  BY <1>1 DEF DocumentInv, FirstIsPast, Past
<1> QED
  BY <1>1, <1>2

\* The callbacks that are due stay due when another call moves on.
LEMMA RepliesKept ==
  ASSUME DocumentTypeOK, RepliesAreAwaited, NEW p \in StoreCalls, NEW q,
         place[p] # "awaiting", place' = [place EXCEPT ![p] = q], replies' = replies
  PROVE  RepliesAreAwaited'
<1>1. ASSUME NEW i \in 1..Len(replies) PROVE place'[replies[i].call] = "awaiting"
  <2>1. replies[i] \in Replies
    BY ElementOfSeq DEF DocumentTypeOK
  <2>2. replies[i].call # p /\ replies[i].call \in StoreCalls
    BY <2>1 DEF RepliesAreAwaited, Replies
  <2> QED
    BY <2>2 DEF RepliesAreAwaited, DocumentTypeOK
<1> QED
  BY <1>1 DEF RepliesAreAwaited

\* A call moves on that neither gets nor writes a document.
LEMMA CallMoves ==
  ASSUME DocumentInv, NEW p \in StoreCalls, NEW q \in Places \ {"locking", "mutating", "writing", "done"},
         place[p] # "awaiting", place' = [place EXCEPT ![p] = q],
         \/ line' = line /\ (p \in Updates /\ q \in Past => place[p] \in Past)
         \/ p \in Updates /\ q = "failed" /\ place[p] \in Past /\ line' = Tail(line),
         UNCHANGED <<rowVars, cache, work, replies, acked, before>>
  PROVE  DocumentInv'
<1>1. FirstIsPast' /\ place' \in [StoreCalls -> Places] /\ line' \in Seq(Updates)
  <2>1. CASE line' = line /\ (p \in Updates /\ q \in Past => place[p] \in Past)
    BY <2>1, LineKept DEF DocumentInv, DocumentTypeOK
  <2>2. CASE p \in Updates /\ q = "failed" /\ place[p] \in Past /\ line' = Tail(line)
    BY <2>2, LineReleased DEF DocumentInv
  <2> QED
    BY <2>1, <2>2
<1>2. RepliesAreAwaited'
  BY RepliesKept DEF DocumentInv
<1>3. DocumentTypeOK'
  BY <1>1 DEF DocumentInv, DocumentTypeOK, rowVars, transactionVars
<1>4. ASSUME NEW c \in StoreCalls, place'[c] \in {"mutating", "writing", "done"} PROVE place'[c] = place[c]
  BY <1>4 DEF DocumentInv, DocumentTypeOK
<1>5. Updates \subseteq StoreCalls /\ Readers \subseteq StoreCalls
  BY DEF StoreCalls
<1>6. NothingForgotten => NothingForgotten'
  <2> SUFFICES ASSUME NothingForgotten PROVE NothingForgotten'
    OBVIOUS
  <2>1. row' = row /\ replies' = replies /\ acked' = acked /\ cache' = cache /\ work' = work /\ before' = before
    BY DEF rowVars
  <2>2. \A u \in Updates : /\ place'[u] \in {"mutating", "writing"} => acked' \subseteq work'[u]
                           /\ place'[u] = "writing" => u \in work'[u]
    BY <1>4, <1>5, <2>1 DEF NothingForgotten
  <2>3. \A r \in Readers : place'[r] = "done" => before'[r] \subseteq work'[r]
    BY <1>4, <1>5, <2>1 DEF NothingForgotten
  <2> QED
    BY <2>1, <2>2, <2>3 DEF NothingForgotten
<1> QED
  BY <1>1, <1>2, <1>3, <1>6 DEF DocumentInv, rowVars, transactionVars

\* A call gets a document with everything that is acknowledged.
LEMMA Obtains ==
  ASSUME DocumentTypeOK, FirstIsPast, NEW p \in StoreCalls, NEW doc \in Documents, NEW overlap,
         place[p] \in Past, line' = line, Obtain(p, doc, overlap)
  PROVE  /\ FirstIsPast' /\ place' \in [StoreCalls -> Places] /\ work' \in [StoreCalls -> Documents]
         /\ \A u \in Updates : /\ place'[u] = "writing" => place[u] = "writing" /\ work'[u] = work[u]
                               /\ place'[u] = "mutating" => work'[u] = doc \/ (place[u] = "mutating" /\ work'[u] = work[u])
         /\ \A r \in Readers : place'[r] = "done" => work'[r] = doc \/ (place[r] = "done" /\ work'[r] = work[r])
<1> DEFINE q == IF p \in Updates THEN "mutating" ELSE "done"
<1>1. q \in Places \ {"locking"} /\ place' = [place EXCEPT ![p] = q]
  BY DEF Obtain, Goes, Places
<1>2. work' = [work EXCEPT ![p] = doc]
  BY DEF Obtain
<1>3. FirstIsPast' /\ place' \in [StoreCalls -> Places]
  <2> HIDE DEF q
  <2> QED
    BY <1>1, LineKept
<1>4. \A c \in StoreCalls : place'[c] = (IF c = p THEN q ELSE place[c]) /\ work'[c] = (IF c = p THEN doc ELSE work[c])
  BY <1>1, <1>2 DEF DocumentTypeOK
<1>5. Updates \subseteq StoreCalls /\ Readers \subseteq StoreCalls /\ Readers \cap Updates = {}
  BY StoreAssumption DEF StoreCalls
<1>6. work' \in [StoreCalls -> Documents]
  BY <1>2 DEF DocumentTypeOK
<1> QED
  BY <1>3, <1>4, <1>5, <1>6

LEMMA AskKeeps == ASSUME DocumentInv, NEW u \in Updates, Ask(u) PROVE DocumentInv'
<1>1. /\ place[u] = "idle" /\ line' = Append(line, u) /\ place' = [place EXCEPT ![u] = "locking"]
      /\ UNCHANGED <<rowVars, cache, work, replies, acked, before>>
  BY DEF Ask, Goes
<1>2. u \in StoreCalls /\ Updates \subseteq StoreCalls /\ Readers \subseteq StoreCalls
  BY DEF StoreCalls
<1>3. /\ line \in Seq(Updates) /\ line' \in Seq(Updates) /\ Len(line') = Len(line) + 1 /\ Len(line) \in Nat
      /\ \A i \in 1..Len(line) : line'[i] = line[i]
      /\ line'[Len(line) + 1] = u
  BY <1>1, AppendProperties, LenProperties DEF DocumentInv, DocumentTypeOK
<1>4. \A c \in StoreCalls : place'[c] = IF c = u THEN "locking" ELSE place[c]
  BY <1>1 DEF DocumentInv, DocumentTypeOK
<1>5. FirstIsPast'
  <2>1. ASSUME NEW v \in Updates, place'[v] \in Past PROVE line' # <<>> /\ line'[1] = v
    <3>1. place[v] \in Past /\ line # <<>> /\ line[1] = v
      BY <1>2, <1>4, <2>1 DEF DocumentInv, FirstIsPast, Past
    <3>2. 1 \in 1..Len(line)
      BY <1>3, <3>1, EmptySeq
    <3> QED
      BY <1>3, <3>1, <3>2, EmptySeq
  <2>2. ASSUME NEW v \in Updates, place'[v] = "locking" PROVE \E i \in 1..Len(line') : line'[i] = v
    <3>1. CASE v = u
      BY <1>3, <3>1
    <3>2. CASE v # u
      <4>1. PICK i \in 1..Len(line) : line[i] = v
        BY <1>2, <1>4, <2>2, <3>2 DEF DocumentInv, FirstIsPast
      <4> QED
        BY <1>3, <4>1
    <3> QED
      BY <3>1, <3>2
  <2> QED
    BY <2>1, <2>2 DEF FirstIsPast
<1>6. RepliesAreAwaited'
  BY <1>1, <1>2, RepliesKept DEF DocumentInv
<1>7. DocumentTypeOK'
  <2>1. "locking" \in Places
    BY DEF Places
  <2>2. place' \in [StoreCalls -> Places]
    BY <1>1, <2>1 DEF DocumentInv, DocumentTypeOK
  <2> QED
    BY <1>1, <1>3, <2>2 DEF DocumentInv, DocumentTypeOK, rowVars, transactionVars
<1>8. NothingForgotten => NothingForgotten'
  <2> SUFFICES ASSUME NothingForgotten PROVE NothingForgotten'
    OBVIOUS
  <2>1. row' = row /\ replies' = replies /\ acked' = acked /\ cache' = cache /\ work' = work /\ before' = before
    BY <1>1 DEF rowVars
  <2>2. \A v \in Updates : /\ place'[v] \in {"mutating", "writing"} => acked' \subseteq work'[v]
                           /\ place'[v] = "writing" => v \in work'[v]
    BY <1>2, <1>4, <2>1 DEF NothingForgotten
  <2>3. \A r \in Readers : place'[r] = "done" => before'[r] \subseteq work'[r]
    BY <1>2, <1>4, <2>1 DEF NothingForgotten
  <2> QED
    BY <2>1, <2>2, <2>3 DEF NothingForgotten
<1> QED
  BY <1>1, <1>5, <1>6, <1>7, <1>8 DEF DocumentInv, rowVars, transactionVars

LEMMA GrantKeeps == ASSUME DocumentInv, NEW u \in Updates, Grant(u) PROVE DocumentInv'
<1>1. /\ place[u] = "locking" /\ Head(line) = u /\ place' = [place EXCEPT ![u] = "reading"]
      /\ UNCHANGED <<rowVars, cache, line, work, replies, acked, before>>
  BY DEF Grant, Goes
<1>2. u \in StoreCalls /\ Updates \subseteq StoreCalls /\ Readers \subseteq StoreCalls
  BY DEF StoreCalls
<1>3. \A c \in StoreCalls : place'[c] = IF c = u THEN "reading" ELSE place[c]
  BY <1>1 DEF DocumentInv, DocumentTypeOK
<1>4. line # <<>> /\ line[1] = u
  BY <1>1 DEF DocumentInv, DocumentTypeOK, FirstIsPast
<1>5. FirstIsPast'
  BY <1>1, <1>2, <1>3, <1>4 DEF DocumentInv, FirstIsPast, Past
<1>6. RepliesAreAwaited'
  BY <1>1, <1>2, RepliesKept DEF DocumentInv
<1>7. DocumentTypeOK'
  <2>1. "reading" \in Places
    BY DEF Places
  <2>2. place' \in [StoreCalls -> Places]
    BY <1>1, <2>1 DEF DocumentInv, DocumentTypeOK
  <2> QED
    BY <1>1, <2>2 DEF DocumentInv, DocumentTypeOK, rowVars, transactionVars
<1>8. NothingForgotten => NothingForgotten'
  <2> SUFFICES ASSUME NothingForgotten PROVE NothingForgotten'
    OBVIOUS
  <2>1. row' = row /\ replies' = replies /\ acked' = acked /\ cache' = cache /\ work' = work /\ before' = before
    BY <1>1 DEF rowVars
  <2>2. \A v \in Updates : /\ place'[v] \in {"mutating", "writing"} => acked' \subseteq work'[v]
                           /\ place'[v] = "writing" => v \in work'[v]
    BY <1>2, <1>3, <2>1 DEF NothingForgotten
  <2>3. \A r \in Readers : place'[r] = "done" => before'[r] \subseteq work'[r]
    BY <1>2, <1>3, <2>1 DEF NothingForgotten
  <2> QED
    BY <2>1, <2>2, <2>3 DEF NothingForgotten
<1> QED
  BY <1>1, <1>5, <1>6, <1>7, <1>8 DEF DocumentInv, rowVars, transactionVars

\* A statement is executed and its callback is due; the row and the reply carry
\* everything that is then acknowledged or about to be.
LEMMA Executes ==
  ASSUME DocumentInv, NEW p \in StoreCalls, NEW stmt \in {"select", "create", "write"},
         NEW doc \in Documents \cup {Absent},
         place[p] \in Past, place[p] # "awaiting",
         stmt = "write" => p \in Updates, stmt # "select" => doc # Absent,
         row' \in Documents \cup {Absent}, replies' = Append(replies, Reply(p, stmt, doc)),
         place' = [place EXCEPT ![p] = "awaiting"], UNCHANGED <<savedRow, cache, line, work, acked, before>>,
         wiped => wiped', undone' = undone,
         ~wiped' /\ ~undone /\ NothingForgotten =>
            LET all == acked \cup Acks(replies, Len(replies)) \cup (IF stmt = "write" THEN {p} ELSE {})
            IN  Carries(row', all) /\ Carries(doc, all)
  PROVE  DocumentInv'
<1> DEFINE e == Reply(p, stmt, doc)
<1>1. e \in Replies /\ e.call = p /\ e.stmt = stmt /\ e.doc = doc
  BY DEF Reply, Replies
<1>2. replies \in Seq(Replies) /\ replies' = Append(replies, e)
  BY DEF DocumentInv, DocumentTypeOK
<1> HIDE DEF e
<1>3. /\ replies' \in Seq(Replies)
      /\ Len(replies) \in Nat /\ Len(replies') = Len(replies) + 1
      /\ \A i \in 1..Len(replies) : replies'[i] = replies[i] /\ replies[i] \in Replies
      /\ replies'[Len(replies) + 1] = e
      /\ \A i \in 1..Len(replies') : i \in 1..Len(replies) \/ i = Len(replies) + 1
      /\ \A i \in 1..Len(replies) : Acks(replies', i) = Acks(replies, i)
      /\ Acks(replies', Len(replies) + 1) =
            IF stmt = "write" THEN Acks(replies, Len(replies)) \cup (Updates \cap {p})
            ELSE Acks(replies, Len(replies))
  <2> DEFINE ns == Append(replies, e)
  <2>1. /\ ns \in Seq(Replies)
        /\ Len(replies) \in Nat /\ Len(ns) = Len(replies) + 1
        /\ \A i \in 1..Len(replies) : ns[i] = replies[i] /\ replies[i] \in Replies
        /\ ns[Len(replies) + 1] = e
        /\ \A i \in 1..Len(replies) + 1 : i \in 1..Len(replies) \/ i = Len(replies) + 1
        /\ \A i \in 1..Len(replies) : Acks(ns, i) = Acks(replies, i)
        /\ Acks(ns, Len(replies) + 1) =
              IF e.stmt = "write" THEN Acks(replies, Len(replies)) \cup (Updates \cap {e.call})
              ELSE Acks(replies, Len(replies))
    BY <1>1, <1>2, ReplyJoins
  <2>2. replies' = ns
    BY <1>2
  <2> HIDE DEF ns
  <2> QED
    BY <1>1, <2>1, <2>2
<1>4. "awaiting" \in Places \ {"locking"}
  BY DEF Places
<1>5. FirstIsPast' /\ place' \in [StoreCalls -> Places]
  BY <1>4, LineKept DEF DocumentInv
<1>6. \A c \in StoreCalls : place'[c] = IF c = p THEN "awaiting" ELSE place[c]
  BY DEF DocumentInv, DocumentTypeOK
<1>7. \A i \in 1..Len(replies) : replies[i].call \in StoreCalls /\ replies[i].call # p
  BY <1>3 DEF DocumentInv, RepliesAreAwaited, Replies
<1>8. RepliesAreAwaited'
  <2> SUFFICES ASSUME NEW i \in 1..Len(replies')
               PROVE  /\ place'[replies'[i].call] = "awaiting"
                      /\ \A j \in 1..Len(replies') : replies'[i].call = replies'[j].call => i = j
                      /\ replies'[i].stmt = "write" => replies'[i].call \in Updates
                      /\ replies'[i].stmt # "select" => replies'[i].doc # Absent
    BY DEF RepliesAreAwaited
  <2>1. CASE i = Len(replies) + 1
    BY <1>1, <1>3, <1>6, <1>7, <2>1
  <2>2. CASE i \in 1..Len(replies)
    BY <1>1, <1>3, <1>6, <1>7, <2>2 DEF DocumentInv, RepliesAreAwaited
  <2> QED
    BY <1>3, <2>1, <2>2
<1>9. DocumentTypeOK'
  BY <1>3, <1>5 DEF DocumentInv, DocumentTypeOK
<1>10. ASSUME ~wiped', ~undone' PROVE NothingForgotten'
  <2>1. NothingForgotten
    BY <1>10 DEF DocumentInv
  <2>2. Acks(replies', Len(replies')) =
           Acks(replies, Len(replies)) \cup (IF stmt = "write" THEN {p} ELSE {})
    BY <1>3
  <2>3. Carries(row', acked' \cup Acks(replies', Len(replies'))) /\ Carries(doc, acked' \cup Acks(replies', Len(replies')))
    BY <1>10, <2>1, <2>2 DEF Carries
  <2>4. ASSUME NEW i \in 1..Len(replies') PROVE Carries(replies'[i].doc, acked' \cup Acks(replies', i))
    <3>1. CASE i = Len(replies) + 1
      BY <1>1, <1>3, <2>3, <3>1
    <3>2. CASE i \in 1..Len(replies)
      BY <1>3, <2>1, <3>2 DEF NothingForgotten
    <3> QED
      BY <1>3, <3>1, <3>2
  <2>5. Updates \subseteq StoreCalls /\ Readers \subseteq StoreCalls
    BY DEF StoreCalls
  <2>6. \A u \in Updates : /\ place'[u] \in {"mutating", "writing"} => acked' \subseteq work'[u]
                           /\ place'[u] = "writing" => u \in work'[u]
    BY <1>6, <2>1, <2>5 DEF NothingForgotten
  <2>7. \A r \in Readers : place'[r] = "done" => before'[r] \subseteq work'[r]
    BY <1>6, <2>1, <2>5 DEF NothingForgotten
  <2>8. cache' # Absent => acked' \subseteq cache'
    BY <2>1 DEF NothingForgotten
  <2> QED
    BY <2>3, <2>4, <2>6, <2>7, <2>8 DEF NothingForgotten
<1> QED
  BY <1>5, <1>8, <1>9, <1>10 DEF DocumentInv

LEMMA SelectRowKeeps == ASSUME DocumentInv, NEW p \in StoreCalls, SelectRow(p) PROVE DocumentInv'
<1>1. row' = row /\ wiped' = wiped /\ undone' = undone /\ savedRow' = savedRow
  BY DEF SelectRow, rowVars, transactionVars
<1>2. row \in Documents \cup {Absent}
  BY DEF DocumentInv, DocumentTypeOK
<1>3. place[p] \in Past /\ place[p] # "awaiting"
  BY DEF SelectRow, Past
<1>4. NothingForgotten => Carries(row, acked \cup Acks(replies, Len(replies)) \cup {})
  BY DEF NothingForgotten, Carries
<1> QED
  BY <1>1, <1>2, <1>3, <1>4, Executes DEF SelectRow, Goes

LEMMA InsertEmptyKeeps == ASSUME DocumentInv, NEW p \in StoreCalls, InsertEmpty(p) PROVE DocumentInv'
<1>1. row' = {} /\ wiped' = (wiped \/ row # Absent) /\ undone' = undone /\ savedRow' = savedRow
  BY DEF InsertEmpty, transactionVars, Empty
<1>2. {} \in Documents \cup {Absent} /\ {} # Absent
  BY StoreAssumption DEF Documents
<1>3. place[p] \in Past /\ place[p] # "awaiting"
  BY DEF InsertEmpty, Past
<1>4. ~wiped' /\ NothingForgotten => Carries({}, acked \cup Acks(replies, Len(replies)) \cup {})
  BY <1>1 DEF NothingForgotten, Carries
<1> QED
  BY <1>1, <1>2, <1>3, <1>4, Executes DEF InsertEmpty, Goes, Empty

LEMMA WriteRowKeeps == ASSUME DocumentInv, NEW u \in Updates, WriteRow(u) PROVE DocumentInv'
<1>1. row' = work[u] /\ wiped' = wiped /\ undone' = undone /\ savedRow' = savedRow
  BY DEF WriteRow, transactionVars
<1>2. u \in StoreCalls /\ work[u] \in Documents /\ work[u] # Absent
  BY StoreAssumption DEF StoreCalls, DocumentInv, DocumentTypeOK, Documents
<1>3. place[u] = "writing" /\ place[u] \in Past /\ place[u] # "awaiting"
  BY DEF WriteRow, Past
<1>4. Acks(replies, Len(replies)) = {}
  BY <1>3, HolderWritesAlone
<1>5. NothingForgotten => Carries(work[u], acked \cup Acks(replies, Len(replies)) \cup {u})
  BY <1>2, <1>3, <1>4 DEF NothingForgotten, Carries
<1>6. /\ replies' = Append(replies, Reply(u, "write", work[u])) /\ place' = [place EXCEPT ![u] = "awaiting"]
      /\ UNCHANGED <<cache, line, work, acked, before>>
  BY DEF WriteRow, Goes
<1>7. work[u] \in Documents \cup {Absent} /\ row' \in Documents \cup {Absent}
  BY <1>1, <1>2
<1> QED
  BY <1>1, <1>2, <1>3, <1>5, <1>6, <1>7, Executes

LEMMA StartReadKeeps == ASSUME DocumentInv, NEW r \in Readers, StartRead(r) PROVE DocumentInv'
<1>1. /\ place[r] = "idle" /\ place' = [place EXCEPT ![r] = "reading"]
      /\ before' = [before EXCEPT ![r] = acked]
      /\ UNCHANGED <<rowVars, cache, line, work, replies, acked>>
  BY DEF StartRead, Goes
<1>2. /\ r \in StoreCalls /\ Updates \subseteq StoreCalls /\ Readers \subseteq StoreCalls
      /\ r \notin Updates /\ "reading" \in Places \ {"locking"}
  BY StoreAssumption DEF StoreCalls, Places
<1>3. FirstIsPast' /\ place' \in [StoreCalls -> Places]
  BY <1>1, <1>2, LineKept DEF DocumentInv
<1>4. RepliesAreAwaited'
  BY <1>1, <1>2, RepliesKept DEF DocumentInv
<1>5. DocumentTypeOK'
  BY <1>1, <1>3 DEF DocumentInv, DocumentTypeOK, Documents, rowVars, transactionVars
<1>6. \A c \in StoreCalls : place'[c] = IF c = r THEN "reading" ELSE place[c]
  BY <1>1 DEF DocumentInv, DocumentTypeOK
<1>7. \A c \in Readers : before'[c] = IF c = r THEN acked ELSE before[c]
  BY <1>1 DEF DocumentInv, DocumentTypeOK
<1>8. NothingForgotten => NothingForgotten'
  <2> SUFFICES ASSUME NothingForgotten PROVE NothingForgotten'
    OBVIOUS
  <2>1. row' = row /\ replies' = replies /\ acked' = acked /\ cache' = cache /\ work' = work
    BY <1>1 DEF rowVars
  <2>2. \A v \in Updates : /\ place'[v] \in {"mutating", "writing"} => acked' \subseteq work'[v]
                           /\ place'[v] = "writing" => v \in work'[v]
    BY <1>2, <1>6, <2>1 DEF NothingForgotten
  <2>3. \A c \in Readers : place'[c] = "done" => before'[c] \subseteq work'[c]
    BY <1>2, <1>6, <1>7, <2>1 DEF NothingForgotten
  <2> QED
    BY <2>1, <2>2, <2>3 DEF NothingForgotten
<1> QED
  BY <1>1, <1>3, <1>4, <1>5, <1>7, <1>8 DEF DocumentInv, rowVars, transactionVars

LEMMA ReadCacheKeeps == ASSUME DocumentInv, NEW p \in StoreCalls, ReadCache(p) PROVE DocumentInv'
<1>1. /\ place[p] = "reading" /\ cache # Absent /\ Obtain(p, cache, "arrays")
      /\ UNCHANGED <<rowVars, cache, line, replies, acked, before>>
  BY DEF ReadCache
<1>2. cache \in Documents /\ place[p] \in Past /\ place[p] # "awaiting"
  BY <1>1 DEF DocumentInv, DocumentTypeOK, Past
<1>3. /\ FirstIsPast' /\ place' \in [StoreCalls -> Places] /\ work' \in [StoreCalls -> Documents]
      /\ \A u \in Updates :
            /\ place'[u] = "writing" => place[u] = "writing" /\ work'[u] = work[u]
            /\ place'[u] = "mutating" => work'[u] = cache \/ (place[u] = "mutating" /\ work'[u] = work[u])
      /\ \A r \in Readers : place'[r] = "done" => work'[r] = cache \/ (place[r] = "done" /\ work'[r] = work[r])
  BY <1>1, <1>2, Obtains DEF DocumentInv
<1>4. RepliesAreAwaited'
  BY <1>1, <1>2, RepliesKept DEF DocumentInv, Obtain, Goes
<1>5. DocumentTypeOK'
  BY <1>1, <1>3 DEF DocumentInv, DocumentTypeOK, rowVars, transactionVars
<1>6. NothingForgotten => NothingForgotten'
  <2> SUFFICES ASSUME NothingForgotten PROVE NothingForgotten'
    OBVIOUS
  <2>1. row' = row /\ replies' = replies /\ acked' = acked /\ cache' = cache /\ before' = before
    BY <1>1 DEF rowVars
  <2>2. acked \subseteq cache /\ \A r \in Readers : before[r] \subseteq cache
    BY <1>1 DEF NothingForgotten, DocumentInv
  <2>3. \A v \in Updates : /\ place'[v] \in {"mutating", "writing"} => acked' \subseteq work'[v]
                           /\ place'[v] = "writing" => v \in work'[v]
    BY <1>3, <2>1, <2>2 DEF NothingForgotten
  <2>4. \A r \in Readers : place'[r] = "done" => before'[r] \subseteq work'[r]
    BY <1>3, <2>1, <2>2 DEF NothingForgotten
  <2> QED
    BY <2>1, <2>3, <2>4 DEF NothingForgotten
<1> QED
  BY <1>1, <1>3, <1>4, <1>5, <1>6 DEF DocumentInv, rowVars, transactionVars

LEMMA MutateKeeps ==
  ASSUME DocumentInv, NEW u \in Updates, NEW throws \in BOOLEAN, Mutate(u, throws) PROVE DocumentInv'
<1> DEFINE q == IF throws THEN "failed" ELSE "writing"
<1>1. /\ place[u] = "mutating" /\ work' = [work EXCEPT ![u] = @ \cup {u}]
      /\ cache' \in {cache, cache \cup {u}} /\ (cache = Absent => cache' = cache)
      /\ place' = [place EXCEPT ![u] = q]
      /\ IF throws THEN line' = Tail(line) ELSE line' = line
      /\ UNCHANGED <<rowVars, replies, acked, before>>
  BY DEF Mutate, Goes, Release
<1>2. /\ u \in StoreCalls /\ Updates \subseteq StoreCalls /\ Readers \subseteq StoreCalls /\ u \notin Readers
      /\ q \in Places \ {"locking"} /\ place[u] \in Past /\ place[u] # "awaiting"
  BY <1>1, StoreAssumption DEF StoreCalls, Places, Past
<1>3. FirstIsPast' /\ place' \in [StoreCalls -> Places] /\ line' \in Seq(Updates)
  <2>1. CASE throws
    BY <1>1, <1>2, <2>1, LineReleased DEF DocumentInv
  <2>2. CASE ~throws
    BY <1>1, <1>2, <2>2, LineKept DEF DocumentInv, DocumentTypeOK
  <2> QED
    BY <2>1, <2>2
<1> HIDE DEF q
<1>4. RepliesAreAwaited'
  BY <1>1, <1>2, RepliesKept DEF DocumentInv
<1>5. \A c \in StoreCalls : place'[c] = (IF c = u THEN q ELSE place[c])
                            /\ work'[c] = (IF c = u THEN work[u] \cup {u} ELSE work[c])
  BY <1>1, <1>2 DEF DocumentInv, DocumentTypeOK
<1>6. DocumentTypeOK'
  <2>1. work' \in [StoreCalls -> Documents]
    BY <1>1, <1>2 DEF DocumentInv, DocumentTypeOK, Documents
  <2>2. cache' \in Documents \cup {Absent}
    BY <1>1 DEF DocumentInv, DocumentTypeOK, Documents
  <2> QED
    BY <1>1, <1>3, <2>1, <2>2 DEF DocumentInv, DocumentTypeOK, rowVars, transactionVars
<1>7. NothingForgotten => NothingForgotten'
  <2> SUFFICES ASSUME NothingForgotten PROVE NothingForgotten'
    OBVIOUS
  <2>1. row' = row /\ replies' = replies /\ acked' = acked /\ before' = before
    BY <1>1 DEF rowVars
  <2>2. cache' # Absent => acked' \subseteq cache'
    BY <1>1, <2>1 DEF NothingForgotten
  <2>3. \A v \in Updates : /\ place'[v] \in {"mutating", "writing"} => acked' \subseteq work'[v]
                           /\ place'[v] = "writing" => v \in work'[v]
    BY <1>1, <1>2, <1>5, <2>1 DEF NothingForgotten
  <2>4. \A r \in Readers : place'[r] = "done" => before'[r] \subseteq work'[r]
    BY <1>2, <1>5, <2>1 DEF NothingForgotten
  <2> QED
    BY <2>1, <2>2, <2>3, <2>4 DEF NothingForgotten
<1> QED
  BY <1>1, <1>3, <1>4, <1>6, <1>7 DEF DocumentInv, rowVars, transactionVars

\* The first callback runs: what it acknowledges is what the row and the replies
\* behind it carry already, and so does the document that it hands on.
LEMMA FirstReturns ==
  ASSUME DocumentInv, replies # <<>>, NEW q \in Places \ {"awaiting"},
         replies' = Tail(replies), place' = [place EXCEPT ![replies[1].call] = q],
         acked' = acked \cup Acks(replies, 1), row' = row
  PROVE  /\ replies' \in Seq(Replies) /\ RepliesAreAwaited'
         /\ replies[1] \in Replies /\ place[replies[1].call] = "awaiting"
         /\ replies[1].stmt = "write" => replies[1].call \in Updates
         /\ replies[1].stmt # "select" => replies[1].doc # Absent
         /\ Acks(replies, 1) = IF replies[1].stmt = "write" THEN {replies[1].call} ELSE {}
         /\ NothingForgotten => /\ Carries(row', acked' \cup Acks(replies', Len(replies')))
                                /\ \A i \in 1..Len(replies') : Carries(replies'[i].doc, acked' \cup Acks(replies', i))
                                /\ Carries(replies[1].doc, acked')
<1> DEFINE ns == Tail(replies)
<1>1. replies \in Seq(Replies)
  BY DEF DocumentInv, DocumentTypeOK
<1>2. /\ ns \in Seq(Replies)
      /\ Len(replies) \in Nat \ {0} /\ Len(ns) = Len(replies) - 1
      /\ 1 \in 1..Len(replies) /\ replies[1] \in Replies
      /\ \A i \in 1..Len(ns) : ns[i] = replies[i + 1] /\ i + 1 \in 1..Len(replies) /\ i + 1 # 1
      /\ \A i \in 0..Len(ns) : Acks(replies, i + 1) = Acks(ns, i) \cup Acks(replies, 1)
      /\ Acks(replies, 1) = IF replies[1].stmt = "write" THEN Updates \cap {replies[1].call} ELSE {}
  BY <1>1, ReplyLeaves
<1>3. replies' = ns
  OBVIOUS
<1> HIDE DEF ns
<1>4. /\ place[replies[1].call] = "awaiting"
      /\ replies[1].stmt = "write" => replies[1].call \in Updates
      /\ replies[1].stmt # "select" => replies[1].doc # Absent
  BY <1>2 DEF DocumentInv, RepliesAreAwaited
<1>5. RepliesAreAwaited'
  <2>1. ASSUME NEW i \in 1..Len(ns)
        PROVE  /\ place'[ns[i].call] = "awaiting"
               /\ \A j \in 1..Len(ns) : ns[i].call = ns[j].call => i = j
               /\ ns[i].stmt = "write" => ns[i].call \in Updates
               /\ ns[i].stmt # "select" => ns[i].doc # Absent
    <3>1. ns[i] = replies[i + 1] /\ i + 1 \in 1..Len(replies) /\ i + 1 # 1
      BY <1>2
    <3>2. replies[i + 1] \in Replies
      BY <1>1, <3>1, ElementOfSeq
    <3>3. replies[i + 1].call # replies[1].call /\ replies[i + 1].call \in StoreCalls
      BY <1>2, <3>1, <3>2 DEF DocumentInv, RepliesAreAwaited, Replies
    <3>4. place'[replies[i + 1].call] = "awaiting"
      BY <3>1, <3>3 DEF DocumentInv, RepliesAreAwaited, DocumentTypeOK
    <3>5. \A j \in 1..Len(ns) : ns[i].call = ns[j].call => i = j
      BY <1>2, <3>1 DEF DocumentInv, RepliesAreAwaited
    <3> QED
      BY <3>1, <3>4, <3>5 DEF DocumentInv, RepliesAreAwaited
  <2> QED
    BY <1>3, <2>1 DEF RepliesAreAwaited
<1>6. \A i \in 0..Len(ns) : acked' \cup Acks(ns, i) = acked \cup Acks(replies, i + 1)
  BY <1>2
<1>7. ASSUME NothingForgotten
      PROVE  /\ Carries(row, acked' \cup Acks(ns, Len(ns)))
             /\ \A i \in 1..Len(ns) : Carries(ns[i].doc, acked' \cup Acks(ns, i))
             /\ Carries(replies[1].doc, acked')
  <2>1. Len(ns) \in 0..Len(ns) /\ Len(ns) + 1 = Len(replies) /\ \A i \in 1..Len(ns) : i \in 0..Len(ns)
    BY <1>2
  <2>2. acked' \cup Acks(ns, Len(ns)) = acked \cup Acks(replies, Len(replies))
    BY <1>6, <2>1
  <2>3. Carries(row, acked' \cup Acks(ns, Len(ns)))
    BY <1>7, <2>2 DEF NothingForgotten
  <2>4. \A i \in 1..Len(ns) : Carries(ns[i].doc, acked' \cup Acks(ns, i))
    BY <1>2, <1>6, <1>7, <2>1 DEF NothingForgotten
  <2>5. Carries(replies[1].doc, acked')
    BY <1>2, <1>7 DEF NothingForgotten
  <2> QED
    BY <2>3, <2>4, <2>5
<1> QED
  BY <1>2, <1>3, <1>4, <1>5, <1>7

\* A SELECT that found no row.
LEMMA NothingFoundKeeps ==
  ASSUME DocumentInv, replies # <<>>, replies' = Tail(replies), replies[1].stmt = "select",
         Goes(replies[1].call, "creating"),
         UNCHANGED <<rowVars, cache, line, work, acked, before>>
  PROVE  DocumentInv'
<1> DEFINE p == replies[1].call
<1>1. "creating" \in Places \ {"awaiting", "locking"} /\ place' = [place EXCEPT ![p] = "creating"] /\ row' = row
  BY DEF Places, Goes, rowVars
<1>2. Acks(replies, 1) = {}
  BY DEF Acks
<1>3. /\ replies' \in Seq(Replies) /\ RepliesAreAwaited'
      /\ replies[1] \in Replies /\ place[p] = "awaiting"
      /\ NothingForgotten => /\ Carries(row', acked' \cup Acks(replies', Len(replies')))
                             /\ \A i \in 1..Len(replies') : Carries(replies'[i].doc, acked' \cup Acks(replies', i))
  BY <1>1, <1>2, FirstReturns
<1>4. p \in StoreCalls /\ place[p] \in Past
  BY <1>3 DEF Replies, Past
<1> HIDE DEF p
<1>5. FirstIsPast' /\ place' \in [StoreCalls -> Places]
  BY <1>1, <1>4, LineKept DEF DocumentInv
<1>6. DocumentTypeOK'
  BY <1>3, <1>5 DEF DocumentInv, DocumentTypeOK, rowVars, transactionVars
<1>7. \A c \in StoreCalls : place'[c] = IF c = p THEN "creating" ELSE place[c]
  BY <1>1 DEF DocumentInv, DocumentTypeOK
<1>8. Updates \subseteq StoreCalls /\ Readers \subseteq StoreCalls
  BY DEF StoreCalls
<1>9. NothingForgotten => NothingForgotten'
  <2> SUFFICES ASSUME NothingForgotten PROVE NothingForgotten'
    OBVIOUS
  <2>1. \A v \in Updates : /\ place'[v] \in {"mutating", "writing"} => acked' \subseteq work'[v]
                           /\ place'[v] = "writing" => v \in work'[v]
    BY <1>7, <1>8 DEF NothingForgotten
  <2>2. \A r \in Readers : place'[r] = "done" => before'[r] \subseteq work'[r]
    BY <1>7, <1>8 DEF NothingForgotten
  <2>3. cache' # Absent => acked' \subseteq cache'
    BY DEF NothingForgotten
  <2> QED
    BY <1>3, <2>1, <2>2, <2>3 DEF NothingForgotten
<1> QED
  BY <1>3, <1>5, <1>6, <1>9 DEF DocumentInv, rowVars, transactionVars

\* A SELECT that found the row, or the empty document that was written.
LEMMA DocumentReturnsKeeps ==
  ASSUME DocumentInv, replies # <<>>, replies' = Tail(replies), replies[1].stmt # "write",
         replies[1].doc # Absent, cache' = replies[1].doc,
         NEW overlap, Obtain(replies[1].call, replies[1].doc, overlap),
         UNCHANGED <<rowVars, line, acked, before>>
  PROVE  DocumentInv'
<1> DEFINE p == replies[1].call
           doc == replies[1].doc
           q == IF p \in Updates THEN "mutating" ELSE "done"
<1>1. q \in Places \ {"awaiting"} /\ place' = [place EXCEPT ![p] = q] /\ row' = row
  BY DEF Places, Obtain, Goes, rowVars
<1>2. Acks(replies, 1) = {}
  BY DEF Acks
<1> HIDE DEF q
<1>3. /\ replies' \in Seq(Replies) /\ RepliesAreAwaited'
      /\ replies[1] \in Replies /\ place[p] = "awaiting"
      /\ NothingForgotten => /\ Carries(row', acked' \cup Acks(replies', Len(replies')))
                             /\ \A i \in 1..Len(replies') : Carries(replies'[i].doc, acked' \cup Acks(replies', i))
                             /\ Carries(doc, acked')
  BY <1>1, <1>2, FirstReturns
<1>4. p \in StoreCalls /\ doc \in Documents /\ place[p] \in Past
  BY <1>3 DEF Replies, Past
<1>5. Obtain(p, doc, overlap) /\ cache' = doc
  OBVIOUS
<1> HIDE DEF p, doc
<1>6. /\ FirstIsPast' /\ place' \in [StoreCalls -> Places] /\ work' \in [StoreCalls -> Documents]
      /\ \A u \in Updates :
            /\ place'[u] = "writing" => place[u] = "writing" /\ work'[u] = work[u]
            /\ place'[u] = "mutating" => work'[u] = doc \/ (place[u] = "mutating" /\ work'[u] = work[u])
      /\ \A r \in Readers : place'[r] = "done" => work'[r] = doc \/ (place[r] = "done" /\ work'[r] = work[r])
  BY <1>4, <1>5, Obtains DEF DocumentInv
<1>7. DocumentTypeOK'
  BY <1>3, <1>4, <1>5, <1>6 DEF DocumentInv, DocumentTypeOK, rowVars, transactionVars
<1>8. NothingForgotten => NothingForgotten'
  <2> SUFFICES ASSUME NothingForgotten PROVE NothingForgotten'
    OBVIOUS
  <2>1. acked \subseteq doc /\ \A r \in Readers : before[r] \subseteq doc
    BY <1>3 DEF Carries, DocumentInv
  <2>2. \A v \in Updates : /\ place'[v] \in {"mutating", "writing"} => acked' \subseteq work'[v]
                           /\ place'[v] = "writing" => v \in work'[v]
    BY <1>6, <2>1 DEF NothingForgotten
  <2>3. \A r \in Readers : place'[r] = "done" => before'[r] \subseteq work'[r]
    BY <1>6, <2>1 DEF NothingForgotten
  <2> QED
    BY <1>3, <1>5, <2>1, <2>2, <2>3 DEF NothingForgotten
<1> QED
  BY <1>3, <1>6, <1>7, <1>8 DEF DocumentInv, rowVars, transactionVars

LEMMA WriteReturnsKeeps ==
  ASSUME DocumentInv, replies # <<>>, replies' = Tail(replies), replies[1].stmt = "write",
         WriteReturns(replies[1].call, replies[1].doc), UNCHANGED <<rowVars, before>>
  PROVE  DocumentInv'
<1> DEFINE u == replies[1].call
           doc == replies[1].doc
<1>1. "done" \in Places \ {"awaiting"} /\ row' = row
  BY DEF Places, rowVars
<1>2. /\ place' = [place EXCEPT ![u] = "done"] /\ cache' = doc /\ acked' = acked \cup {u}
      /\ line' = Tail(line) /\ work' = work
  BY DEF WriteReturns, Goes, Release
<1>3. Acks(replies, 1) = {u}
  <2>1. 1 \in 1..Len(replies)
    BY EmptySeq DEF DocumentInv, DocumentTypeOK
  <2>2. u \in Updates
    BY <2>1 DEF DocumentInv, RepliesAreAwaited
  <2> QED
    BY <2>2 DEF Acks
<1>4. /\ replies' \in Seq(Replies) /\ RepliesAreAwaited'
      /\ replies[1] \in Replies /\ place[u] = "awaiting" /\ u \in Updates /\ doc # Absent
      /\ NothingForgotten => /\ Carries(row', acked' \cup Acks(replies', Len(replies')))
                             /\ \A i \in 1..Len(replies') : Carries(replies'[i].doc, acked' \cup Acks(replies', i))
                             /\ Carries(doc, acked')
  BY <1>1, <1>2, <1>3, FirstReturns
<1>5. u \in StoreCalls /\ doc \in Documents /\ place[u] \in Past
  BY <1>4 DEF Replies, Past
<1> HIDE DEF u, doc
<1>6. FirstIsPast' /\ place' \in [StoreCalls -> Places] /\ line' \in Seq(Updates)
  BY <1>2, <1>4, <1>5, LineReleased DEF DocumentInv
<1>7. DocumentTypeOK'
  BY <1>2, <1>4, <1>5, <1>6 DEF DocumentInv, DocumentTypeOK, rowVars, transactionVars
<1>8. \A c \in StoreCalls : place'[c] = IF c = u THEN "done" ELSE place[c]
  BY <1>2 DEF DocumentInv, DocumentTypeOK
<1>9. /\ Updates \subseteq StoreCalls /\ Readers \subseteq StoreCalls /\ u \notin Readers
      /\ \A v \in Updates : place'[v] \notin {"mutating", "writing"}
  <2>1. Updates \subseteq StoreCalls /\ Readers \subseteq StoreCalls /\ u \notin Readers
    BY <1>4, StoreAssumption DEF StoreCalls
  <2>2. \A v \in Updates : v # u => place[v] \notin Past
    BY <1>4, <1>5 DEF DocumentInv, FirstIsPast
  <2> QED
    BY <1>8, <2>1, <2>2 DEF Past
<1>10. NothingForgotten => NothingForgotten'
  <2> SUFFICES ASSUME NothingForgotten PROVE NothingForgotten'
    OBVIOUS
  <2>1. cache' # Absent => acked' \subseteq cache'
    BY <1>2, <1>4 DEF Carries
  <2>2. \A r \in Readers : place'[r] = "done" => before'[r] \subseteq work'[r]
    BY <1>2, <1>8, <1>9 DEF NothingForgotten
  <2> QED
    BY <1>4, <1>9, <2>1, <2>2 DEF NothingForgotten
<1> QED
  BY <1>2, <1>4, <1>6, <1>7, <1>10 DEF DocumentInv, rowVars, transactionVars

LEMMA CallsBackKeeps == ASSUME DocumentInv, CallsBack PROVE DocumentInv'
<1> DEFINE p == replies[1].call
           doc == replies[1].doc
<1>1. /\ replies # <<>> /\ replies' = Tail(replies) /\ Head(replies) = replies[1]
      /\ UNCHANGED <<rowVars, before>>
  BY DEF CallsBack, DocumentInv, DocumentTypeOK
<1>2. CASE replies[1].stmt = "select" /\ SelectReturns(p, doc) /\ doc = Absent
  BY <1>1, <1>2, NothingFoundKeeps DEF SelectReturns
<1>3. CASE replies[1].stmt = "select" /\ SelectReturns(p, doc) /\ doc # Absent
  BY <1>1, <1>3, DocumentReturnsKeeps DEF SelectReturns
<1>4. CASE replies[1].stmt = "create" /\ CreateReturns(p, doc)
  <2>1. doc # Absent
    BY <1>1, <1>4, EmptySeq DEF DocumentInv, DocumentTypeOK, RepliesAreAwaited
  <2> QED
    BY <1>1, <1>4, <2>1, DocumentReturnsKeeps DEF CreateReturns
<1>5. CASE replies[1].stmt = "write" /\ WriteReturns(p, doc)
  BY <1>1, <1>5, WriteReturnsKeeps
<1> QED
  BY <1>1, <1>2, <1>3, <1>4, <1>5 DEF CallsBack

\* Neither the calls nor their replies move; the row stays, or undone is set.
LEMMA OthersKeep ==
  ASSUME DocumentInv, UNCHANGED <<line, place, work, replies, acked, before>>,
         cache' \in {cache, Absent}, {row', savedRow'} \subseteq {row, savedRow, Absent},
         wiped' = wiped, undone => undone', row' = row \/ undone'
  PROVE  DocumentInv'
<1>1. DocumentTypeOK'
  BY DEF DocumentInv, DocumentTypeOK
<1>2. ~undone' /\ NothingForgotten => NothingForgotten'
  BY DEF NothingForgotten
<1> QED
  BY <1>1, <1>2 DEF DocumentInv, FirstIsPast, RepliesAreAwaited

LEMMA StoreCrashKeeps == ASSUME DocumentInv, StoreCrash PROVE DocumentInv'
<1>1. /\ cache' = Absent /\ line' = <<>> /\ replies' = <<>> /\ UNCHANGED <<wiped, work, acked, before>>
      /\ place' = [p \in StoreCalls |-> IF place[p] = "idle" \/ place[p] \in Over THEN place[p] ELSE "failed"]
      /\ {row', savedRow'} \subseteq {row, savedRow, Absent}
      /\ (undone => undone') /\ (row' = row \/ undone')
  BY DEF StoreCrash, TakeBack
<1>2. \A c \in StoreCalls : place'[c] \in {"idle", "done", "failed"} /\ (place'[c] = "done" => place[c] = "done")
  BY <1>1 DEF Over
<1>3. /\ place' \in [StoreCalls -> Places] /\ Updates \subseteq StoreCalls /\ Readers \subseteq StoreCalls
  BY <1>1, <1>2 DEF Places, StoreCalls
<1>4. DocumentTypeOK'
  BY <1>1, <1>3 DEF DocumentInv, DocumentTypeOK
<1>5. FirstIsPast' /\ RepliesAreAwaited'
  BY <1>1, <1>2, <1>3 DEF FirstIsPast, RepliesAreAwaited, Past
<1>6. ASSUME ~undone', NothingForgotten PROVE NothingForgotten'
  <2>1. row' = row /\ Len(replies') = 0
    BY <1>1, <1>6
  <2>2. Acks(replies', Len(replies')) = {}
    BY <2>1 DEF Acks
  <2>3. Carries(row', acked' \cup Acks(replies', Len(replies')))
    BY <1>1, <1>6, <2>1, <2>2 DEF NothingForgotten, Carries
  <2>4. \A r \in Readers : place'[r] = "done" => before'[r] \subseteq work'[r]
    BY <1>1, <1>2, <1>3, <1>6 DEF NothingForgotten
  <2>5. \A u \in Updates : place'[u] \notin {"mutating", "writing"}
    BY <1>2, <1>3
  <2>6. cache' = Absent /\ \A i \in 1..Len(replies') : FALSE
    BY <1>1, <2>1
  <2> QED
    BY <2>3, <2>4, <2>5, <2>6 DEF NothingForgotten
<1> QED
  BY <1>1, <1>4, <1>5, <1>6 DEF DocumentInv

LEMMA WriteFailsKeeps == ASSUME DocumentInv, NEW p \in StoreCalls, WriteFails(p) PROVE DocumentInv'
<1>1. /\ place[p] \in {"creating", "writing"} /\ place' = [place EXCEPT ![p] = "failed"]
      /\ IF p \in Updates THEN line' = Tail(line) ELSE line' = line
      /\ UNCHANGED <<rowVars, cache, work, replies, acked, before>>
  BY DEF WriteFails, Goes, Release
<1>2. /\ "failed" \in Places \ {"locking", "mutating", "writing", "done"} /\ "failed" \notin Past
      /\ place[p] \in Past /\ place[p] # "awaiting"
  BY <1>1 DEF Places, Past
<1> QED
  BY <1>1, <1>2, CallMoves

LEMMA MissesKeep ==
  ASSUME DocumentInv, NEW p \in StoreCalls, MissCache(p) \/ SelectFails(p) PROVE DocumentInv'
<1>1. PICK q \in {"selecting", "creating"} :
          /\ place[p] \in {"reading", "selecting"} /\ place' = [place EXCEPT ![p] = q] /\ line' = line
          /\ UNCHANGED <<rowVars, cache, work, replies, acked, before>>
  BY DEF MissCache, SelectFails, Goes
<1>2. /\ q \in Places \ {"locking", "mutating", "writing", "done"}
      /\ place[p] \in Past /\ place[p] # "awaiting"
  BY <1>1 DEF Places, Past
<1> QED
  BY <1>1, <1>2, CallMoves

LEMMA DocumentStep == DocumentInv /\ [StoreNext]_storeVars => DocumentInv'
<1> SUFFICES ASSUME DocumentInv, [StoreNext]_storeVars PROVE DocumentInv'
  OBVIOUS
<1>1. ASSUME NEW u \in Updates, Ask(u) PROVE DocumentInv'
  BY <1>1, AskKeeps
<1>2. ASSUME NEW u \in Updates, UpdateStep(u) PROVE DocumentInv'
  BY <1>2, GrantKeeps, WriteRowKeeps, MutateKeeps DEF UpdateStep
<1>3. ASSUME NEW r \in Readers, StartRead(r) PROVE DocumentInv'
  BY <1>3, StartReadKeeps
<1>4. ASSUME NEW p \in StoreCalls, CallStep(p) PROVE DocumentInv'
  BY <1>4, ReadCacheKeeps, MissesKeep, SelectRowKeeps, InsertEmptyKeeps, WriteFailsKeeps DEF CallStep
<1>5. CASE CallsBack
  BY <1>5, CallsBackKeeps
<1>6. CASE CacheExpires
  BY <1>6, OthersKeep DEF CacheExpires, rowVars, transactionVars
<1>7. CASE BeginForeign \/ CommitForeign \/ RollbackForeign
  <2>1. UNCHANGED <<cache, line, place, work, replies, acked, before, wiped>>
    BY <1>7 DEF BeginForeign, CommitForeign, RollbackForeign
  <2>2. {row', savedRow'} \subseteq {row, savedRow, Absent}
    BY <1>7 DEF BeginForeign, CommitForeign, RollbackForeign, TakeBack
  <2>3. CASE BeginForeign \/ CommitForeign
    BY <2>1, <2>2, <2>3, OthersKeep DEF BeginForeign, CommitForeign
  <2>4. CASE RollbackForeign
    <3>1. (undone => undone') /\ (row' = row \/ undone')
      BY <2>4 DEF RollbackForeign, TakeBack
    <3> QED
      BY <2>1, <2>2, <3>1, OthersKeep
  <2> QED
    BY <1>7, <2>3, <2>4
<1>8. CASE StoreCrash
  BY <1>8, StoreCrashKeeps
<1>9. CASE UNCHANGED storeVars
  BY <1>9, OthersKeep DEF storeVars, rowVars, transactionVars
<1> QED
  BY <1>1, <1>2, <1>3, <1>4, <1>5, <1>6, <1>7, <1>8, <1>9 DEF StoreNext

LEMMA DocumentAlways == BackendSpec => []DocumentInv
<1>1. BackendInit => DocumentInv
  BY DocumentStarts DEF BackendInit
<1>2. DocumentInv /\ [BackendNext]_backendVars => DocumentInv'
  BY DocumentStep DEF BackendNext, backendVars
<1> QED
  BY <1>1, <1>2, PTL DEF BackendSpec

\* For any updates and reads, any number of failing statements, crashes and
\* transactions of others on the connection: what is acknowledged stays in the row,
\* unless an empty document was written over it or a transaction took it back.
THEOREM AcknowledgedAlwaysStays == BackendSpec => []UpdatesStayUnlessWiped
<1>1. DocumentInv => UpdatesStayUnlessWiped
  <2>1. NothingForgotten /\ acked # {} => row # Absent /\ acked \subseteq row
    BY DEF NothingForgotten, Carries
  <2> QED
    BY <2>1 DEF DocumentInv, UpdatesStayUnlessWiped
<1> QED
  BY <1>1, DocumentAlways, PTL

\* Likewise a read returns whatever was acknowledged before it started.
THEOREM ReadsAlwaysSeeAcknowledged == BackendSpec => []ReadsSeeAcknowledged
<1>1. DocumentInv => ReadsSeeAcknowledged
  BY DEF DocumentInv, NothingForgotten, ReadsSeeAcknowledged
<1> QED
  BY <1>1, DocumentAlways, PTL

-----------------------------------------------------------------------------
(* The plan to migrate a machine. *)

\* What is stored of a thing that is found.
Found == [source : STRING, name : STRING, trust : {"none"}, base : BOOLEAN, rule : Rules \cup {NoRule}]

\* The decisions say what was skipped last; the results of a verification are those of its
\* commands, each of which was run once, and nothing is skipped before the end.
ResultsAreReal ==
    /\ \A r \in verify.real :
           /\ r[1] \in DOMAIN verify.results
           /\ verify.results[r[1]] = IF r[2] \in {"failure", "late"} THEN "failed" ELSE "passed"
    /\ \A c \in DOMAIN verify.results :
           \/ \E r \in verify.real : r[1] = c
           \/ verify.stage = "done" /\ c[2] = "manual" /\ verify.results[c] = "skipped"
    /\ verify.todo \cap DOMAIN verify.results = {}

MigrationInv ==
    /\ snapshot \subseteq Found
    /\ verify = [stage |-> verify.stage, todo |-> verify.todo, results |-> verify.results,
                 real |-> verify.real]
    /\ everSkipped = {i \in DOMAIN decisions : decisions[i] = "skipped"}
    /\ ResultsAreReal

LEMMA StoredIsFound == \A x \in Installable : AsStored(x) \in Found
  BY InstallableAssumption DEF AsStored, Found

\* What the base system does not have is never ignored, and its class is another.
LEMMA OnlyBaseIsIgnored ==
    ASSUME NEW x \in Found
    PROVE  /\ LowValue(x) <=> ClassOf(x) = "do-not-migrate"
           /\ Band(x) = "ignore" => LowValue(x)
<1>1. LowValue(x) <=> ClassOf(x) = "do-not-migrate"
  BY DEF ClassOf
<1>2. Band(x) = "ignore" => ClassOf(x) = "do-not-migrate"
  BY DEF Band
<1> QED
  BY <1>1, <1>2

\* What no rule knows earns too little to be certain.
LEMMA UnknownIsNotCertain ==
    ASSUME NEW x \in Found, x.rule = NoRule
    PROVE  Band(x) # "high" /\ \A k \in ActionsOf(x) : DryStep(k) # "would-run"
<1>1. x.trust = "none"
  BY DEF Found
<1>2. SourcePoints(x) \in 0..22
  BY DEF SourcePoints
<1>3. Score(x) \in 0..32
  BY <1>1, <1>2 DEF Score
<1>4. Confidence(x) \in 0..32
  BY <1>3 DEF Confidence
<1>5. Band(x) # "high"
  BY <1>4 DEF Band
<1>6. ActionsOf(x) = {"review"}
  BY DEF ActionsOf
<1> QED
  BY <1>5, <1>6 DEF DryStep

LEMMA SomethingIsChecked ==
    ASSUME NEW x
    PROVE  ChecksOf(x) # {}
<1>1. CASE "validate" \in ActionsOf(x)
  BY <1>1 DEF ChecksOf
<1>2. CASE "validate" \notin ActionsOf(x)
  BY <1>2 DEF ChecksOf
<1> QED
  BY <1>1, <1>2

\* What no rule knows is reviewed, but for the packages of languages and services.
LEMMA UnknownIsReviewed ==
    ASSUME NEW x \in snapshot, x \in Found, x.rule = NoRule, ~LowValue(x),
           x.source \notin LanguageSources \cup ServiceSources
    PROVE  x \in ToReview
<1>1. ClassOf(x) \in {"manual-install", "unknown-review", "container-workload"}
  BY DEF ClassOf
<1>2. Band(x) # "ignore"
  BY OnlyBaseIsIgnored
<1> QED
  BY <1>1, <1>2 DEF ToReview

\* The play does what the dry run says, the other formats do nothing.
LEMMA ExportIsAnnounced ==
    ASSUME NEW f, NEW e \in ExportPage(f), e[3] # "nothing"
    PROVE  f = "ansible" /\ <<e[1], e[2], "would-run">> \in DryRunPage
<1>1. PICK x \in Planned : e \in {<<CandidateId(x), k, Exported(f, x, k)>> : k \in ActionsOf(x)}
  BY DEF ExportPage
<1>2. PICK k \in ActionsOf(x) : e = <<CandidateId(x), k, Exported(f, x, k)>>
  BY <1>1
<1>3. Exported(f, x, k) # "nothing"
  BY <1>2
<1>5. f = "ansible" /\ k \in {"installPackage", "validate", "restart"}
  BY <1>3 DEF Exported
<1>6. DryStep(k) = "would-run"
  BY <1>5 DEF DryStep
<1>4. <<CandidateId(x), k, DryStep(k)>> \in DryRunPage
  BY <1>2 DEF DryRunPage
<1> QED
  BY <1>2, <1>4, <1>5, <1>6

LEMMA MigrationStarts == MigrationInit => MigrationInv
  BY DEF MigrationInit, MigrationInv, ResultsAreReal, NoVerify

LEMMA ProbeKeeps ==
    ASSUME MigrationInv, NEW x \in Installable, ProbeAgain(x)
    PROVE  MigrationInv'
<1>1. snapshot' \subseteq snapshot \cup {AsStored(x)} /\ UNCHANGED <<decisions, verify, everSkipped>>
  BY DEF ProbeAgain
<1> QED
  BY <1>1, StoredIsFound DEF MigrationInv, ResultsAreReal

LEMMA DecideKeeps ==
    ASSUME MigrationInv, NEW i, NEW d, Decide(i, d)
    PROVE  MigrationInv'
<1>1. /\ decisions' = [j \in DOMAIN decisions \cup {i} |-> IF j = i THEN d ELSE decisions[j]]
      /\ everSkipped' = IF d = "skipped" THEN everSkipped \cup {i} ELSE everSkipped \ {i}
      /\ UNCHANGED <<snapshot, verify>>
  BY DEF Decide
<1>2. DOMAIN decisions' = DOMAIN decisions \cup {i} /\ decisions'[i] = d
      /\ \A j \in DOMAIN decisions : j # i => decisions'[j] = decisions[j]
  BY <1>1
<1>3. everSkipped' = {j \in DOMAIN decisions' : decisions'[j] = "skipped"}
  BY <1>1, <1>2 DEF MigrationInv
<1> QED
  BY <1>1, <1>3 DEF MigrationInv, ResultsAreReal

LEMMA BeginVerifyKeeps ==
    ASSUME MigrationInv, BeginVerify
    PROVE  MigrationInv'
<1>1. verify' = [NoVerify EXCEPT !.stage = "connecting", !.todo = PlannedChecks]
      /\ UNCHANGED <<snapshot, decisions, everSkipped>>
  BY DEF BeginVerify
<1>2. /\ verify'.real = {} /\ DOMAIN verify'.results = {}
      /\ verify' = [stage |-> verify'.stage, todo |-> verify'.todo, results |-> verify'.results,
                    real |-> verify'.real]
  BY <1>1 DEF NoVerify
<1> QED
  BY <1>1, <1>2 DEF MigrationInv, ResultsAreReal

LEMMA ReachKeeps ==
    ASSUME MigrationInv, NEW answered, ReachMachine(answered)
    PROVE  MigrationInv'
<1>1. /\ verify.stage = "connecting" /\ UNCHANGED <<snapshot, decisions, everSkipped>>
      /\ verify'.todo = verify.todo /\ verify'.results = verify.results /\ verify'.real = verify.real
      /\ verify' = [stage |-> verify'.stage, todo |-> verify'.todo, results |-> verify'.results,
                    real |-> verify'.real]
  BY DEF ReachMachine, MigrationInv
<1> QED
  BY <1>1 DEF MigrationInv, ResultsAreReal

LEMMA RunCheckKeeps ==
    ASSUME MigrationInv, NEW c, NEW end, RunCheck(c, end)
    PROVE  MigrationInv'
<1> DEFINE result == IF ExitCode(end) = 0 THEN "passed" ELSE "failed"
<1>1. /\ verify.stage = "running" /\ c \in verify.todo
      /\ UNCHANGED <<snapshot, decisions, everSkipped>>
      /\ verify'.todo = verify.todo \ {c}
      /\ verify'.results = [d \in DOMAIN verify.results \cup {c} |->
                               IF d = c THEN result ELSE verify.results[d]]
      /\ verify'.real = verify.real \cup {<<c, end>>}
      /\ verify' = [stage |-> verify'.stage, todo |-> verify'.todo, results |-> verify'.results,
                    real |-> verify'.real]
  BY DEF RunCheck
<1>2. result = IF end \in {"failure", "late"} THEN "failed" ELSE "passed"
  BY DEF ExitCode
<1> HIDE DEF result
<1>3. /\ DOMAIN verify'.results = DOMAIN verify.results \cup {c}
      /\ verify'.results[c] = result
      /\ \A d \in DOMAIN verify.results : d # c /\ verify'.results[d] = verify.results[d]
  BY <1>1 DEF MigrationInv, ResultsAreReal
<1>4. \A r \in verify'.real :
          /\ r[1] \in DOMAIN verify'.results
          /\ verify'.results[r[1]] = IF r[2] \in {"failure", "late"} THEN "failed" ELSE "passed"
  <2> SUFFICES ASSUME NEW r \in verify'.real
               PROVE  /\ r[1] \in DOMAIN verify'.results
                      /\ verify'.results[r[1]] = IF r[2] \in {"failure", "late"} THEN "failed" ELSE "passed"
    OBVIOUS
  <2>1. CASE r \in verify.real
    BY <1>3, <2>1 DEF MigrationInv, ResultsAreReal
  <2>2. CASE r = <<c, end>>
    BY <1>2, <1>3, <2>2
  <2> QED
    BY <1>1, <2>1, <2>2
<1>7. c = <<c, end>>[1] /\ <<c, end>> \in verify'.real
  BY <1>1
<1>5. \A d \in DOMAIN verify'.results :
          \/ \E r \in verify'.real : r[1] = d
          \/ verify'.stage = "done" /\ d[2] = "manual" /\ verify'.results[d] = "skipped"
  <2> SUFFICES ASSUME NEW d \in DOMAIN verify'.results PROVE \E r \in verify'.real : r[1] = d
    OBVIOUS
  <2>1. CASE d = c
    BY <1>7, <2>1
  <2>2. CASE d # c
    <3>1. d \in DOMAIN verify.results /\ verify.stage # "done"
      BY <1>1, <1>3, <2>2
    <3>2. PICK r \in verify.real : r[1] = d
      BY <3>1 DEF MigrationInv, ResultsAreReal
    <3> QED
      BY <1>1, <3>2
  <2> QED
    BY <2>1, <2>2
<1>6. verify'.todo \cap DOMAIN verify'.results = {}
  BY <1>1, <1>3 DEF MigrationInv, ResultsAreReal
<1> QED
  BY <1>1, <1>4, <1>5, <1>6 DEF MigrationInv, ResultsAreReal

LEMMA FinishVerifyKeeps ==
    ASSUME MigrationInv, FinishVerify
    PROVE  MigrationInv'
<1>1. /\ verify.stage = "running" /\ verify.todo = Manual(verify.todo)
      /\ UNCHANGED <<snapshot, decisions, everSkipped>>
      /\ verify'.stage = "done" /\ verify'.todo = {} /\ verify'.real = verify.real
      /\ verify'.results = [d \in DOMAIN verify.results \cup verify.todo |->
                               IF d \in verify.todo THEN "skipped" ELSE verify.results[d]]
      /\ verify' = [stage |-> verify'.stage, todo |-> verify'.todo, results |-> verify'.results,
                    real |-> verify'.real]
  BY DEF FinishVerify, MigrationInv
<1>2. /\ \A d \in verify.todo : d[2] = "manual" /\ verify'.results[d] = "skipped"
      /\ \A d \in DOMAIN verify.results : d \notin verify.todo /\ verify'.results[d] = verify.results[d]
      /\ DOMAIN verify'.results = DOMAIN verify.results \cup verify.todo
  BY <1>1 DEF MigrationInv, ResultsAreReal, Manual
<1>3. ResultsAreReal'
  BY <1>1, <1>2 DEF MigrationInv, ResultsAreReal
<1> QED
  BY <1>1, <1>3 DEF MigrationInv

LEMMA MigrationStep == MigrationInv /\ [MigrationNext]_migrationVars => MigrationInv'
<1> SUFFICES ASSUME MigrationInv, [MigrationNext]_migrationVars PROVE MigrationInv'
  OBVIOUS
<1>1. CASE UNCHANGED migrationVars
  BY <1>1 DEF migrationVars, MigrationInv, ResultsAreReal
<1> QED
  BY <1>1, ProbeKeeps, DecideKeeps, BeginVerifyKeeps, ReachKeeps, RunCheckKeeps, FinishVerifyKeeps
     DEF MigrationNext

LEMMA ResultsShow == MigrationInv => VerificationIsWhole
<1> SUFFICES ASSUME MigrationInv, verify.stage = "done"
             PROVE  /\ \A c \in DOMAIN verify.results :
                          c[2] = "manual" \/ \E r \in verify.real : r[1] = c
                    /\ VerifiedOk <=> \A r \in verify.real : r[2] \notin {"failure", "late"}
  BY DEF VerificationIsWhole
<1>1. \A c \in DOMAIN verify.results : c[2] = "manual" \/ \E r \in verify.real : r[1] = c
  BY DEF MigrationInv, ResultsAreReal
<1>2. ASSUME VerifiedOk, NEW r \in verify.real PROVE r[2] \notin {"failure", "late"}
  BY <1>2 DEF VerifiedOk, MigrationInv, ResultsAreReal
<1>3. ASSUME \A r \in verify.real : r[2] \notin {"failure", "late"}, NEW c \in DOMAIN verify.results
      PROVE  verify.results[c] # "failed"
  <2>1. CASE \E r \in verify.real : r[1] = c
    BY <1>3, <2>1 DEF MigrationInv, ResultsAreReal
  <2>2. CASE verify.results[c] = "skipped"
    BY <2>2
  <2> QED
    BY <2>1, <2>2 DEF MigrationInv, ResultsAreReal
<1> QED
  BY <1>1, <1>2, <1>3 DEF VerifiedOk

LEMMA PlanShows == MigrationInv => NothingIsPlannedSilently
<1> SUFFICES ASSUME MigrationInv PROVE NothingIsPlannedSilently
  OBVIOUS
<1>1. \A x \in snapshot : x \in Found
  BY DEF MigrationInv
<1>2. \A i : i \in everSkipped <=> Decision(i) = "skipped"
  BY DEF MigrationInv, Decision
<1>3. \A x \in snapshot : x \in Planned <=> ~(CandidateId(x) \in everSkipped \/ LowValue(x))
  BY <1>1, <1>2, OnlyBaseIsIgnored DEF Planned
<1>4. \A x \in Planned : x \in snapshot /\ x \in Found /\ ~LowValue(x)
  BY <1>1, <1>3 DEF Planned
<1>5. \A x \in Planned :
          /\ (\E k \in ActionsOf(x) : DryStep(k) = "would-run") \/ Band(x) = "high"
                 => x.rule # NoRule /\ ChecksOf(x) # {}
          /\ x.rule # NoRule \/ x.source \in LanguageSources \cup ServiceSources \/ x \in ToReview
  BY <1>4, UnknownIsNotCertain, SomethingIsChecked, UnknownIsReviewed
<1>6. \A f \in {"json", "markdown", "bash", "ansible"} : \A e \in ExportPage(f) :
          e[3] # "nothing" => f = "ansible" /\ <<e[1], e[2], "would-run">> \in DryRunPage
  BY ExportIsAnnounced
<1>7. ReadyToApply => \A x \in Planned : CandidateId(x) \in DOMAIN decisions
  BY DEF ReadyToApply, Blocked, Decision
<1> QED
  BY <1>3, <1>5, <1>6, <1>7, ResultsShow DEF NothingIsPlannedSilently

\* For any software, probes, decisions and verifications: only what was skipped and the base
\* system stays out of the plan, nothing runs without a rule or unannounced, and a verification
\* is good only if none of its commands failed or was given up.
THEOREM NothingIsEverPlannedSilently == BackendSpec => []NothingIsPlannedSilently
<1>1. BackendInit => MigrationInv
  BY MigrationStarts DEF BackendInit
<1>2. MigrationInv /\ [BackendNext]_backendVars => MigrationInv'
  BY MigrationStep DEF BackendNext, backendVars
<1> QED
  BY <1>1, <1>2, PlanShows, PTL DEF BackendSpec

-----------------------------------------------------------------------------
(* The catalog.                                                            *)

\* What is in a list of overrides: an id, an item that was added, the same item twice.
Overrides == [id : Ids, base : BOOLEAN, hidden : BOOLEAN]
Mentions(o, i) == \E k \in DOMAIN o : o[k].id = i
Adds(o, i) == \E k \in DOMAIN o : o[k].id = i /\ ~o[k].base
AddsTwice(o, i) == \E k, l \in DOMAIN o : k # l /\ o[k].id = i /\ ~o[k].base /\ o[l].id = i /\ ~o[l].base

\* What a request has still to do with the files.
Todos == {<<>>, <<"yaml">>, <<"form">>, <<"dropForm">>, <<"yaml", "form">>, <<"push", "yaml">>,
          <<"dropYaml">>, <<"dropYaml", "dropForm">>}
Unwritten(todo) == {todo[k] : k \in DOMAIN todo}
Will(do, i) == \E a \in Editing(i) : do \in Unwritten(edit[a].todo)

CatalogTypeOK ==
    /\ overrides \in Seq(Overrides)
    /\ edit \in [Editors -> [id : Ids \cup {NoItem}, todo : Todos]]
    /\ \A a \in Editors : edit[a].id = NoItem => edit[a].todo = <<>>

\* The only request about an id found it unused if it is to add it; what files it has still
\* to write are those that the list calls for.
ListFits(i) ==
    /\ \A a, b \in Editing(i) : a = b
    /\ i \in Others => ~AddsTwice(overrides, i) /\ (Will("push", i) => ~Adds(overrides, i))

FilesFit(i) ==
    /\ Will("push", i) => Will("yaml", i)
    /\ Will("yaml", i) => Mentions(overrides, i) \/ Will("push", i)
    /\ Will("dropYaml", i) /\ i \in Others => ~Adds(overrides, i)
    /\ ~Mentions(overrides, i) /\ ~Will("push", i) => i \notin yaml \/ Will("dropYaml", i)
    /\ i \in Others /\ Adds(overrides, i) => i \in yaml \/ Will("yaml", i)

CatalogInv ==
    /\ CatalogTypeOK
    /\ \A i \in Ids \ mixed : ListFits(i) /\ (i \notin halfDone => FilesFit(i))

LEMMA TodoGoesOn ==
    ASSUME NEW todo \in Todos, todo # <<>>
    PROVE  /\ Tail(todo) \in Todos /\ Unwritten(todo) = {Head(todo)} \cup Unwritten(Tail(todo))
           /\ "push" \notin Unwritten(Tail(todo)) /\ "dropYaml" \notin Unwritten(Tail(todo))
           /\ Head(todo) = "push" => Unwritten(todo) = {"push", "yaml"} /\ Unwritten(Tail(todo)) = {"yaml"}
           /\ Head(todo) # "push" => "yaml" \notin Unwritten(Tail(todo))
           /\ Head(todo) = "yaml" => "push" \notin Unwritten(todo) /\ "dropYaml" \notin Unwritten(todo)
           /\ Head(todo) = "dropYaml" => "push" \notin Unwritten(todo) /\ "yaml" \notin Unwritten(todo)
           /\ Head(todo) \in {"form", "dropForm"} => Tail(todo) = <<>>
<1>1. CASE todo \in {<<"yaml">>, <<"form">>, <<"dropForm">>, <<"dropYaml">>}
  <2> DEFINE do == todo[1]
  <2>1. todo = <<do>> /\ do \in {"yaml", "form", "dropForm", "dropYaml"}
    BY <1>1
  <2> HIDE DEF do
  <2>2. Tail(todo) = <<>> /\ Head(todo) = do
    BY <2>1
  <2>3. Unwritten(<<>>) = {} /\ Unwritten(todo) = {do}
    BY <2>1 DEF Unwritten
  <2> QED
    BY <2>1, <2>2, <2>3 DEF Todos
<1>2. CASE todo \in {<<"yaml", "form">>, <<"push", "yaml">>, <<"dropYaml", "dropForm">>}
  <2> DEFINE do == todo[1]
             then == todo[2]
  <2>1. todo = <<do, then>> /\ <<do, then>> \in {<<"yaml", "form">>, <<"push", "yaml">>, <<"dropYaml", "dropForm">>}
    BY <1>2
  <2>2. \/ do = "yaml" /\ then = "form"
        \/ do = "push" /\ then = "yaml"
        \/ do = "dropYaml" /\ then = "dropForm"
    BY <2>1
  <2> HIDE DEF do, then
  <2>3. Tail(todo) = <<then>> /\ Head(todo) = do
    BY <2>1
  <2>4. Unwritten(<<then>>) = {then} /\ Unwritten(todo) = {do, then}
    BY <2>1 DEF Unwritten
  <2>5. <<then>> \in Todos
    BY <2>2 DEF Todos
  <2> DEFINE first == Head(todo)
             last == Tail(todo)
  <2>9. /\ first = do /\ last \in Todos
        /\ Unwritten(last) = {then} /\ Unwritten(todo) = {do, then}
    BY <2>3, <2>4, <2>5
  <2> HIDE DEF first, last
  <2>10. /\ last \in Todos /\ Unwritten(todo) = {first} \cup Unwritten(last)
         /\ "push" \notin Unwritten(last) /\ "dropYaml" \notin Unwritten(last)
         /\ first = "push" => Unwritten(todo) = {"push", "yaml"} /\ Unwritten(last) = {"yaml"}
         /\ first # "push" => "yaml" \notin Unwritten(last)
         /\ first = "yaml" => "push" \notin Unwritten(todo) /\ "dropYaml" \notin Unwritten(todo)
         /\ first = "dropYaml" => "push" \notin Unwritten(todo) /\ "yaml" \notin Unwritten(todo)
         /\ first \notin {"form", "dropForm"}
    BY <2>2, <2>9
  <2> QED
    BY <2>10 DEF first, last
<1> QED
  BY <1>1, <1>2 DEF Todos

LEMMA NothingLeft == Unwritten(<<>>) = {}
  BY DEF Unwritten

LEMMA AppendOverride ==
    ASSUME NEW o \in Seq(Overrides), NEW e \in Overrides, NEW i
    PROVE  /\ Append(o, e) \in Seq(Overrides)
           /\ Mentions(Append(o, e), i) <=> Mentions(o, i) \/ e.id = i
           /\ Adds(Append(o, e), i) <=> Adds(o, i) \/ (e.id = i /\ ~e.base)
           /\ AddsTwice(Append(o, e), i) => AddsTwice(o, i) \/ (Adds(o, i) /\ e.id = i /\ ~e.base)
<1> DEFINE o2 == Append(o, e)
           L == Len(o)
<1>1. /\ o2 \in Seq(Overrides) /\ L \in Nat /\ DOMAIN o = 1..L /\ DOMAIN o2 = 1..(L + 1)
      /\ \A k \in 1..L : o2[k] = o[k]
      /\ o2[L + 1] = e
  OBVIOUS
<1>2. \A k \in 1..(L + 1) : k \in 1..L \/ k = L + 1
  BY <1>1
<1>3. \A k \in 1..L : k \in 1..(L + 1)
  BY <1>1
<1>4. L + 1 \in 1..(L + 1)
  BY <1>1
<1> HIDE DEF o2, L
<1>5. Mentions(o2, i) <=> Mentions(o, i) \/ e.id = i
  BY <1>1, <1>2, <1>3, <1>4 DEF Mentions
<1>6. Adds(o2, i) <=> Adds(o, i) \/ (e.id = i /\ ~e.base)
  BY <1>1, <1>2, <1>3, <1>4 DEF Adds
<1>7. AddsTwice(o2, i) => AddsTwice(o, i) \/ (Adds(o, i) /\ e.id = i /\ ~e.base)
  BY <1>1, <1>2, <1>3, <1>4 DEF Adds, AddsTwice
<1> QED
  BY <1>1, <1>5, <1>6, <1>7 DEF o2

LEMMA SameOverrides ==
    ASSUME NEW o, NEW o2, DOMAIN o2 = DOMAIN o,
           \A k \in DOMAIN o : o2[k].id = o[k].id /\ o2[k].base = o[k].base, NEW i
    PROVE  /\ Mentions(o2, i) <=> Mentions(o, i)
           /\ Adds(o2, i) <=> Adds(o, i)
           /\ AddsTwice(o2, i) <=> AddsTwice(o, i)
  BY DEF Mentions, Adds, AddsTwice

\* What a filter leaves: entries of the list at other positions than ks, each once.
LeftOf(o, ks, N, left) ==
    /\ left \in Seq(Overrides)
    /\ \A n \in DOMAIN left : \E k \in (1..N) \ ks : left[n] = o[k]
    /\ \A k \in (1..N) \ ks : \E n \in DOMAIN left : left[n] = o[k]
    /\ \A i : ~AddsTwice(o, i) => ~AddsTwice(left, i)

LEMMA WithoutLeaves ==
    ASSUME overrides \in Seq(Overrides), NEW ks
    PROVE  LeftOf(overrides, ks, Len(overrides), Without(ks))
<1> DEFINE N == Len(overrides)
           none == <<>>
           follow == [k \in 1..N |-> [x \in Seq(Overrides) |->
                         IF k \in ks THEN x ELSE Append(x, overrides[k])]]
           Filters(f) == f = [k \in 0..N |-> IF k = 0 THEN none
                                          ELSE IF k \in ks THEN f[k - 1]
                                          ELSE Append(f[k - 1], overrides[k])]
<1>1. N \in Nat /\ DOMAIN overrides = 1..N /\ \A k \in 1..N : overrides[k] \in Overrides
  OBVIOUS
<1>2. follow \in [1..N -> [Seq(Overrides) -> Seq(Overrides)]]
  BY <1>1
<1>3. \E f : Filters(f)
  <2> HIDE DEF follow, none
  <2> DEFINE X == Seq(Overrides)
  <2>0. N \in Nat /\ none \in X /\ follow \in RecursionSteps(N, X)
    BY <1>1, <1>2 DEF none, RecursionSteps
  <2> HIDE DEF N, X
  <2>1. PICK f : Recurs(f, N, X, none, follow)
    BY <2>0, Recursion
  <2> USE DEF N, X, Recurs
  <2>2. ASSUME NEW k \in 0..N, k # 0
        PROVE  f[k] = IF k \in ks THEN f[k - 1] ELSE Append(f[k - 1], overrides[k])
    <3>1. k \in 1..N /\ k - 1 \in 0..N
      BY <1>1, <2>2
    <3>2. f[k - 1] \in Seq(Overrides) /\ f[k] = follow[k][f[k - 1]]
      BY <2>1, <2>2, <3>1
    <3> QED
      BY <3>1, <3>2 DEF follow
  <2>3. f[0] = none
    BY <1>1, <2>1
  <2>4. f = [k \in 0..N |-> f[k]]
    BY <2>1
  <2> QED
    BY <2>2, <2>3, <2>4
<1>4. Without(ks) = (CHOOSE f : Filters(f))[N]
  BY DEF Without
<1> HIDE DEF none
<1>5. PICK f : Filters(f) /\ Without(ks) = f[N]
  BY <1>3, <1>4
<1>6. f[0] = none
  <2>1. 0 \in 0..N
    BY <1>1
  <2>2. \A k \in 0..N : k = 0 => f[k] = none
    BY <1>5
  <2> QED
    BY <2>1, <2>2
<1>7. \A k \in 0..(N - 1) :
          f[k + 1] = IF k + 1 \in ks THEN f[k] ELSE Append(f[k], overrides[k + 1])
  <2> TAKE k \in 0..(N - 1)
  <2>1. k + 1 \in 0..N /\ k + 1 # 0 /\ (k + 1) - 1 = k
    BY <1>1
  <2> QED
    BY <1>5, <2>1
<1> HIDE DEF Filters, follow
<1> DEFINE S == {k \in 0..N : LeftOf(overrides, ks, k, f[k])}
<1>8. 0 \in S
  <2>1. LeftOf(overrides, ks, 0, <<>>)
    BY DEF LeftOf, AddsTwice
  <2> QED
    BY <1>1, <1>6, <2>1 DEF none
<1>9. ASSUME NEW k \in 0..(N - 1), k \in S PROVE k + 1 \in S
  <2>1. /\ k + 1 \in 0..N /\ k + 1 \in 1..N
        /\ \A j \in 1..(k + 1) : j \in 1..k \/ j = k + 1
        /\ \A j \in 1..k : j \in 1..(k + 1) /\ j # k + 1 /\ j \in 1..N
    BY <1>1
  <2>2. LeftOf(overrides, ks, k, f[k])
    BY <1>9
  <2>3. CASE k + 1 \in ks
    <3>1. f[k + 1] = f[k] /\ (1..(k + 1)) \ ks = (1..k) \ ks
      BY <1>7, <2>1, <2>3
    <3> QED
      BY <2>1, <2>2, <3>1 DEF LeftOf
  <2>4. CASE k + 1 \notin ks
    <3> DEFINE e == overrides[k + 1]
               l == f[k]
               M == Len(l)
    <3>1. f[k + 1] = Append(l, e) /\ e \in Overrides /\ l \in Seq(Overrides)
      BY <1>1, <1>7, <2>1, <2>2, <2>4 DEF LeftOf
    <3>2. /\ DOMAIN l = 1..M /\ DOMAIN Append(l, e) = 1..(M + 1) /\ M \in Nat
          /\ \A n \in 1..M : Append(l, e)[n] = l[n]
          /\ Append(l, e)[M + 1] = e
      BY <3>1
    <3>3. /\ \A n \in 1..(M + 1) : n \in 1..M \/ n = M + 1
          /\ \A n \in 1..M : n \in 1..(M + 1)
          /\ M + 1 \in 1..(M + 1)
      BY <3>2
    <3> HIDE DEF e, l, M
    <3>4. \A n \in DOMAIN Append(l, e) : \E j \in (1..(k + 1)) \ ks : Append(l, e)[n] = overrides[j]
      BY <2>1, <2>2, <2>4, <3>2, <3>3 DEF LeftOf, e, l
    <3>5. \A j \in (1..(k + 1)) \ ks : \E n \in DOMAIN Append(l, e) : Append(l, e)[n] = overrides[j]
      BY <2>1, <2>2, <3>2, <3>3 DEF LeftOf, e, l
    <3>6. ASSUME NEW i, ~AddsTwice(overrides, i) PROVE ~AddsTwice(Append(l, e), i)
      <4>1. ~AddsTwice(l, i)
        BY <2>2, <3>6 DEF LeftOf, l
      <4>2. ~(Adds(l, i) /\ e.id = i /\ ~e.base)
        <5> SUFFICES ASSUME Adds(l, i), e.id = i, ~e.base PROVE FALSE
          OBVIOUS
        <5>1. PICK n \in DOMAIN l : l[n].id = i /\ ~l[n].base
          BY DEF Adds
        <5>2. PICK j \in (1..k) \ ks : l[n] = overrides[j]
          BY <2>2 DEF LeftOf, l
        <5>3. j # k + 1 /\ j \in DOMAIN overrides /\ k + 1 \in DOMAIN overrides
          BY <1>1, <2>1, <5>2
        <5> QED
          BY <3>6, <5>1, <5>2, <5>3 DEF AddsTwice, e
      <4> QED
        BY <3>1, <4>1, <4>2, AppendOverride
    <3>7. Append(l, e) \in Seq(Overrides)
      BY <3>1
    <3> QED
      BY <2>1, <3>1, <3>4, <3>5, <3>6, <3>7 DEF LeftOf
  <2> QED
    BY <2>3, <2>4
<1> HIDE DEF S
<1>10. 0..N \subseteq S
  BY <1>1, <1>8, <1>9, UpTo
<1>11. N \in S
  BY <1>1, <1>10
<1> QED
  BY <1>5, <1>11 DEF S

\* What filters leave of an id: nothing, or only what was added.
LEMMA WithoutHere ==
    ASSUME overrides \in Seq(Overrides), NEW i, NEW ks, ks \in {Overlays(i), Overlays(i) \cup Added(i)}
    PROVE  /\ Without(ks) \in Seq(Overrides)
           /\ \A j : j # i => /\ Mentions(Without(ks), j) <=> Mentions(overrides, j)
                              /\ Adds(Without(ks), j) <=> Adds(overrides, j)
           /\ \A j : AddsTwice(Without(ks), j) => AddsTwice(overrides, j)
           /\ ks = Overlays(i) => /\ Adds(Without(ks), i) <=> Adds(overrides, i)
                                  /\ Mentions(Without(ks), i) <=> Adds(overrides, i)
           /\ ks = Overlays(i) \cup Added(i) => ~Mentions(Without(ks), i) /\ ~Adds(Without(ks), i)
<1> DEFINE N == Len(overrides)
           left == Without(ks)
<1>1. DOMAIN overrides = 1..N /\ \A k \in 1..N : overrides[k] \in Overrides
  OBVIOUS
<1>2. LeftOf(overrides, ks, N, left)
  BY WithoutLeaves
<1>3. /\ left \in Seq(Overrides)
      /\ \A n \in DOMAIN left : \E k \in (1..N) \ ks : left[n] = overrides[k]
      /\ \A k \in (1..N) \ ks : \E n \in DOMAIN left : left[n] = overrides[k]
      /\ \A j : ~AddsTwice(overrides, j) => ~AddsTwice(left, j)
  BY <1>2 DEF LeftOf
<1> HIDE DEF left, N
<1>4. \A k \in 1..N : k \in ks <=> /\ overrides[k].id = i
                                   /\ overrides[k].base \/ ks = Overlays(i) \cup Added(i)
  <2>1. \A k \in 1..N : /\ k \in Overlays(i) <=> overrides[k].id = i /\ overrides[k].base
                        /\ k \in Added(i) <=> overrides[k].id = i /\ ~overrides[k].base
    BY <1>1 DEF Overlays, Added
  <2>2. CASE ks = Overlays(i)
    <3>1. ks = Overlays(i) \cup Added(i) => \A k \in 1..N : overrides[k].id = i => overrides[k].base
      BY <2>1, <2>2
    <3> QED
      BY <2>1, <2>2, <3>1
  <2>3. CASE ks = Overlays(i) \cup Added(i)
    BY <2>1, <2>3
  <2> QED
    BY <2>2, <2>3
<1>5. ASSUME NEW j, j # i
      PROVE  /\ Mentions(left, j) <=> Mentions(overrides, j)
             /\ Adds(left, j) <=> Adds(overrides, j)
  <2>1. \A k \in 1..N : overrides[k].id = j => k \in (1..N) \ ks
    BY <1>4, <1>5
  <2> QED
    BY <1>1, <1>3, <2>1 DEF Mentions, Adds
<1>6. ASSUME ks = Overlays(i)
      PROVE  /\ Adds(left, i) <=> Adds(overrides, i)
             /\ Mentions(left, i) <=> Adds(overrides, i)
  <2>1. \A k \in (1..N) \ ks : overrides[k].id = i => ~overrides[k].base
    BY <1>4
  <2>2. \A k \in 1..N : overrides[k].id = i /\ ~overrides[k].base => k \in (1..N) \ ks
    <3>1. \A k \in 1..N : k \in ks => overrides[k].base
      BY <1>1, <1>6 DEF Overlays
    <3> QED
      BY <3>1
  <2> QED
    BY <1>1, <1>3, <2>1, <2>2 DEF Mentions, Adds
<1>7. ASSUME ks = Overlays(i) \cup Added(i)
      PROVE  ~Mentions(left, i) /\ ~Adds(left, i)
  <2>1. \A k \in (1..N) \ ks : overrides[k].id # i
    BY <1>4, <1>7
  <2> QED
    BY <1>3, <2>1 DEF Mentions, Adds
<1> QED
  BY <1>3, <1>5, <1>6, <1>7 DEF left

\* Who edits another id has no part in what holds of this one.
LEMMA OtherIdRests ==
    ASSUME CatalogInv, NEW i \in Ids \ mixed', mixed \subseteq mixed', halfDone \subseteq halfDone',
           Editing(i)' = Editing(i), \A a \in Editing(i) : edit'[a].todo = edit[a].todo,
           Mentions(overrides', i) <=> Mentions(overrides, i),
           Adds(overrides', i) <=> Adds(overrides, i),
           AddsTwice(overrides', i) => AddsTwice(overrides, i),
           i \in yaml' <=> i \in yaml
    PROVE  ListFits(i)' /\ (i \notin halfDone' => FilesFit(i)')
<1>1. ListFits(i) /\ (i \notin halfDone => FilesFit(i))
  BY DEF CatalogInv
<1>2. \A do : Will(do, i)' <=> Will(do, i)
  BY DEF Will
<1>3. ListFits(i)'
  BY <1>1, <1>2 DEF ListFits
<1>4. ASSUME i \notin halfDone' PROVE FilesFit(i)'
  <2>1. FilesFit(i)
    BY <1>1, <1>4
  <2> QED
    BY <1>2, <2>1 DEF FilesFit
<1> QED
  BY <1>3, <1>4

\* A request begins: whoever finds nobody else at work on the id finds list and files in order.
LEMMA EditBegins ==
    ASSUME CatalogInv, NEW a \in Editors, NEW i \in Ids, NEW todo \in Todos, BeginEdit(a, i, todo)
    PROVE  /\ edit' \in [Editors -> [id : Ids \cup {NoItem}, todo : Todos]]
           /\ \A b \in Editors : edit'[b].id = NoItem => edit'[b].todo = <<>>
           /\ mixed \subseteq mixed' /\ halfDone' = halfDone /\ yaml' = yaml
           /\ \A j \in Ids : j # i => /\ Editing(j)' = Editing(j)
                                      /\ \A b \in Editing(j) : edit'[b].todo = edit[b].todo
           /\ i \notin mixed' => /\ i \notin mixed /\ Editing(i) = {} /\ Editing(i)' = {a}
                                 /\ \A do : ~Will(do, i)
                                 /\ \A do : Will(do, i)' <=> do \in Unwritten(todo)
                                 /\ i \in Others => ~AddsTwice(overrides, i)
                                 /\ i \notin halfDone =>
                                        /\ ~Mentions(overrides, i) => i \notin yaml
                                        /\ i \in Others /\ Adds(overrides, i) => i \in yaml
<1>1. /\ edit \in [Editors -> [id : Ids \cup {NoItem}, todo : Todos]]
      /\ \A b \in Editors : edit[b].id = NoItem => edit[b].todo = <<>>
  BY DEF CatalogInv, CatalogTypeOK
<1>2. /\ edit[a].id = NoItem /\ halfDone' = halfDone /\ yaml' = yaml
      /\ edit' = [edit EXCEPT ![a] = [id |-> i, todo |-> todo]]
      /\ mixed' = mixed \cup (IF Editing(i) # {} THEN {i} ELSE {})
  BY DEF BeginEdit
<1>3. i # NoItem /\ \A j \in Ids : j # NoItem
  BY CatalogAssumption
<1>4. /\ edit'[a] = [id |-> i, todo |-> todo]
      /\ \A b \in Editors : b # a => edit'[b] = edit[b]
  BY <1>1, <1>2
<1>5. edit' \in [Editors -> [id : Ids \cup {NoItem}, todo : Todos]]
  BY <1>1, <1>2
<1>6. \A b \in Editors : edit'[b].id = NoItem => edit'[b].todo = <<>>
  BY <1>1, <1>3, <1>4
<1>7. ASSUME NEW j \in Ids, j # i
      PROVE  /\ Editing(j)' = Editing(j)
             /\ \A b \in Editing(j) : edit'[b].todo = edit[b].todo
  BY <1>2, <1>3, <1>4, <1>7 DEF Editing
<1>8. ASSUME i \notin mixed'
      PROVE  /\ i \notin mixed /\ Editing(i) = {} /\ Editing(i)' = {a}
             /\ \A do : ~Will(do, i)
             /\ \A do : Will(do, i)' <=> do \in Unwritten(todo)
             /\ i \in Others => ~AddsTwice(overrides, i)
             /\ i \notin halfDone => /\ ~Mentions(overrides, i) => i \notin yaml
                                     /\ i \in Others /\ Adds(overrides, i) => i \in yaml
  <2>1. i \notin mixed /\ Editing(i) = {}
    BY <1>2, <1>8
  <2>2. Editing(i)' = {a}
    BY <1>4, <2>1 DEF Editing
  <2>3. \A do : ~Will(do, i)
    BY <2>1 DEF Will
  <2>4. \A do : Will(do, i)' <=> do \in Unwritten(todo)
    BY <1>4, <2>2 DEF Will
  <2>5. ListFits(i) /\ (i \notin halfDone => FilesFit(i))
    BY <2>1 DEF CatalogInv
  <2>6. i \in Others => ~AddsTwice(overrides, i)
    BY <2>5 DEF ListFits
  <2>7. i \notin halfDone => /\ ~Mentions(overrides, i) => i \notin yaml
                             /\ i \in Others /\ Adds(overrides, i) => i \in yaml
    BY <2>3, <2>5 DEF FilesFit
  <2> QED
    BY <2>1, <2>2, <2>3, <2>4, <2>6, <2>7
<1> QED
  BY <1>2, <1>5, <1>6, <1>7, <1>8

LEMMA CreateKeeps ==
    ASSUME CatalogInv, NEW a \in Editors, NEW i \in Ids, CreateItem(a, i)
    PROVE  CatalogInv'
<1> DEFINE todo == <<"push", "yaml">>
<1>1. BeginEdit(a, i, todo) /\ Times(i) = 0 /\ overrides' = overrides
  BY DEF CreateItem
<1>2. todo \in Todos /\ Unwritten(todo) = {"push", "yaml"}
  BY DEF Todos, Unwritten
<1> HIDE DEF todo
<1>3. /\ edit' \in [Editors -> [id : Ids \cup {NoItem}, todo : Todos]]
      /\ \A b \in Editors : edit'[b].id = NoItem => edit'[b].todo = <<>>
      /\ mixed \subseteq mixed' /\ halfDone' = halfDone /\ yaml' = yaml
      /\ \A j \in Ids : j # i => /\ Editing(j)' = Editing(j)
                                 /\ \A b \in Editing(j) : edit'[b].todo = edit[b].todo
      /\ i \notin mixed' => /\ i \notin mixed /\ Editing(i) = {} /\ Editing(i)' = {a}
                            /\ \A do : ~Will(do, i)
                            /\ \A do : Will(do, i)' <=> do \in Unwritten(todo)
                            /\ i \in Others => ~AddsTwice(overrides, i)
                            /\ i \notin halfDone =>
                                   /\ ~Mentions(overrides, i) => i \notin yaml
                                   /\ i \in Others /\ Adds(overrides, i) => i \in yaml
  BY <1>1, <1>2, EditBegins
<1>4. CatalogTypeOK'
  BY <1>1, <1>3 DEF CatalogInv, CatalogTypeOK
<1>5. ~Adds(overrides, i)
  <2>1. Added(i) = {}
    <3>1. overrides \in Seq(Overrides)
      BY DEF CatalogInv, CatalogTypeOK
    <3>2. IsFiniteSet(Added(i))
      <4>1. IsFiniteSet(1..Len(overrides)) /\ Added(i) \subseteq 1..Len(overrides)
        <5>1. 0 \in Int /\ Len(overrides) \in Int /\ DOMAIN overrides = 1..Len(overrides)
          BY <3>1
        <5> QED
          BY <5>1, FS_Interval DEF Added
      <4> QED
        BY <4>1, FS_Subset
    <3>3. Cardinality(Added(i)) \in Nat
      BY <3>2, FS_CardinalityType
    <3>4. Cardinality(Added(i)) = 0
      BY <1>1, <3>3 DEF Times
    <3> QED
      BY <3>2, <3>4, FS_EmptySet
  <2> QED
    BY <2>1 DEF Added, Adds
<1>6. ASSUME i \notin mixed' PROVE ListFits(i)' /\ (i \notin halfDone' => FilesFit(i)')
  <2>1. Will("push", i)' /\ Will("yaml", i)' /\ ~Will("dropYaml", i)'
    BY <1>2, <1>3, <1>6
  <2>2. ListFits(i)'
    BY <1>1, <1>3, <1>5, <1>6, <2>1 DEF ListFits
  <2>3. FilesFit(i)'
    BY <1>1, <1>5, <2>1 DEF FilesFit
  <2> QED
    BY <2>2, <2>3
<1>7. ASSUME NEW j \in Ids \ mixed', j # i
      PROVE  ListFits(j)' /\ (j \notin halfDone' => FilesFit(j)')
  BY <1>1, <1>3, <1>7, OtherIdRests
<1> QED
  BY <1>4, <1>6, <1>7 DEF CatalogInv

LEMMA PushKeeps ==
    ASSUME CatalogInv, NEW a \in Editors, PushItem(a)
    PROVE  CatalogInv'
<1> PICK i : i = edit[a].id
  OBVIOUS
<1> PICK todo : todo = edit[a].todo
  OBVIOUS
<1> DEFINE e == [id |-> i, base |-> FALSE, hidden |-> FALSE]
<1>1. /\ overrides \in Seq(Overrides)
      /\ edit \in [Editors -> [id : Ids \cup {NoItem}, todo : Todos]]
      /\ \A b \in Editors : edit[b].id = NoItem => edit[b].todo = <<>>
  BY DEF CatalogInv, CatalogTypeOK
<1>2. /\ todo # <<>> /\ Head(todo) = "push" /\ overrides' = Append(overrides, e)
      /\ edit' = [edit EXCEPT ![a].todo = Tail(todo)]
      /\ yaml' = yaml /\ mixed' = mixed /\ halfDone' = halfDone
  BY DEF PushItem
<1>3. i \in Ids /\ e \in Overrides /\ e.id = i /\ ~e.base
  BY <1>1, <1>2 DEF Overrides
<1>4. /\ todo \in Todos /\ Tail(todo) \in Todos
      /\ Unwritten(todo) = {"push", "yaml"} /\ Unwritten(Tail(todo)) = {"yaml"}
  BY <1>1, <1>2, TodoGoesOn
<1>5. /\ edit' \in [Editors -> [id : Ids \cup {NoItem}, todo : Todos]]
      /\ edit'[a].todo = Tail(todo) /\ edit'[a].id = i
      /\ \A b \in Editors : b # a => edit'[b] = edit[b]
  BY <1>1, <1>2, <1>4
<1> HIDE DEF e
<1>6. /\ overrides' \in Seq(Overrides)
      /\ \A j : /\ Mentions(overrides', j) <=> Mentions(overrides, j) \/ j = i
                /\ Adds(overrides', j) <=> Adds(overrides, j) \/ j = i
                /\ AddsTwice(overrides', j) => AddsTwice(overrides, j) \/ (Adds(overrides, j) /\ j = i)
  BY <1>1, <1>2, <1>3, AppendOverride
<1>7. \A j : Editing(j)' = Editing(j)
  BY <1>5 DEF Editing
<1>8. CatalogTypeOK'
  <2>1. \A b \in Editors : edit'[b].id = NoItem => edit'[b].todo = <<>>
    BY <1>1, <1>3, <1>5, CatalogAssumption
  <2> QED
    BY <1>5, <1>6, <2>1 DEF CatalogTypeOK
<1>9. a \in Editing(i)
  BY DEF Editing
<1>10. ASSUME i \notin mixed' PROVE ListFits(i)' /\ (i \notin halfDone' => FilesFit(i)')
  <2>1. ListFits(i) /\ (i \notin halfDone => FilesFit(i))
    BY <1>2, <1>3, <1>10 DEF CatalogInv
  <2>2. Editing(i) = {a}
    BY <1>9, <2>1 DEF ListFits
  <2>3. Will("push", i)
    BY <1>4, <1>9 DEF Will
  <2>4. \A do : Will(do, i)' <=> do = "yaml"
    BY <1>4, <1>5, <1>7, <2>2 DEF Will
  <2>5. ListFits(i)'
    <3>1. i \in Others => ~AddsTwice(overrides, i) /\ ~Adds(overrides, i)
      BY <2>1, <2>3 DEF ListFits
    <3>2. ~Will("push", i)'
      BY <2>4
    <3>3. \A b, c \in Editing(i)' : b = c
      BY <1>7, <2>2
    <3> QED
      BY <1>6, <3>1, <3>2, <3>3 DEF ListFits
  <2>6. FilesFit(i)'
    <3>1. Mentions(overrides', i) /\ Will("yaml", i)' /\ ~Will("push", i)' /\ ~Will("dropYaml", i)'
      BY <1>6, <2>4
    <3> QED
      BY <3>1 DEF FilesFit
  <2> QED
    BY <2>5, <2>6
<1>11. ASSUME NEW j \in Ids \ mixed', j # i
       PROVE  ListFits(j)' /\ (j \notin halfDone' => FilesFit(j)')
  <2>1. \A b \in Editing(j) : edit'[b].todo = edit[b].todo
    BY <1>5, <1>11 DEF Editing
  <2> QED
    BY <1>2, <1>6, <1>7, <1>11, <2>1, OtherIdRests
<1> QED
  BY <1>8, <1>10, <1>11 DEF CatalogInv

LEMMA WriteKeeps ==
    ASSUME CatalogInv, NEW a \in Editors, WriteFile(a)
    PROVE  CatalogInv'
<1> PICK i : i = edit[a].id
  OBVIOUS
<1> PICK todo : todo = edit[a].todo
  OBVIOUS
<1> DEFINE do == Head(todo)
<1>1. /\ overrides \in Seq(Overrides)
      /\ edit \in [Editors -> [id : Ids \cup {NoItem}, todo : Todos]]
      /\ \A b \in Editors : edit[b].id = NoItem => edit[b].todo = <<>>
  BY DEF CatalogInv, CatalogTypeOK
<1>2. /\ todo # <<>> /\ do # "push" /\ overrides' = overrides
      /\ edit' = [edit EXCEPT ![a].todo = Tail(todo)]
      /\ mixed' = mixed /\ halfDone' = halfDone
  BY DEF WriteFile
<1>3. /\ do = "yaml" => yaml' = yaml \cup {i}
      /\ do = "dropYaml" => yaml' = yaml \ {i}
      /\ do \notin {"yaml", "dropYaml"} => yaml' = yaml
  BY DEF WriteFile
<1>4. i \in Ids
  BY <1>1, <1>2
<1>5. /\ todo \in Todos /\ Tail(todo) \in Todos
      /\ Unwritten(todo) = {do} \cup Unwritten(Tail(todo))
      /\ "push" \notin Unwritten(todo)
      /\ "yaml" \notin Unwritten(Tail(todo)) /\ "dropYaml" \notin Unwritten(Tail(todo))
      /\ do = "yaml" => "dropYaml" \notin Unwritten(todo)
      /\ do = "dropYaml" => "yaml" \notin Unwritten(todo)
  BY <1>1, <1>2, TodoGoesOn
<1>6. /\ edit' \in [Editors -> [id : Ids \cup {NoItem}, todo : Todos]]
      /\ edit'[a].todo = Tail(todo) /\ edit'[a].id = i
      /\ \A b \in Editors : b # a => edit'[b] = edit[b]
  BY <1>1, <1>2, <1>5
<1> HIDE DEF do
<1>7. \A j : Editing(j)' = Editing(j)
  BY <1>6 DEF Editing
<1>8. CatalogTypeOK'
  <2>1. \A b \in Editors : edit'[b].id = NoItem => edit'[b].todo = <<>>
    BY <1>1, <1>4, <1>6, CatalogAssumption
  <2> QED
    BY <1>1, <1>2, <1>6, <2>1 DEF CatalogTypeOK
<1>9. a \in Editing(i)
  BY DEF Editing
<1>10. ASSUME i \notin mixed' PROVE ListFits(i)' /\ (i \notin halfDone' => FilesFit(i)')
  <2>1. ListFits(i) /\ (i \notin halfDone => FilesFit(i))
    BY <1>2, <1>4, <1>10 DEF CatalogInv
  <2>2. Editing(i) = {a}
    BY <1>9, <2>1 DEF ListFits
  <2>3. \A x : Will(x, i) <=> x \in Unwritten(todo)
    BY <2>2 DEF Will
  <2>4. \A x : Will(x, i)' <=> x \in Unwritten(Tail(todo))
    BY <1>6, <1>7, <2>2 DEF Will
  <2>5. ~Will("push", i) /\ ~Will("push", i)' /\ ~Will("yaml", i)' /\ ~Will("dropYaml", i)'
    BY <1>5, <2>3, <2>4
  <2>6. ListFits(i)'
    BY <1>2, <1>7, <2>1, <2>5 DEF ListFits
  <2>7. ASSUME i \notin halfDone PROVE FilesFit(i)'
    <3>1. FilesFit(i)
      BY <2>1, <2>7
    <3>2. CASE do = "yaml"
      <4>1. Will("yaml", i) /\ i \in yaml'
        BY <1>3, <1>5, <2>3, <3>2
      <4> QED
        BY <1>2, <2>5, <3>1, <4>1 DEF FilesFit
    <3>3. CASE do = "dropYaml"
      <4>1. Will("dropYaml", i) /\ ~Will("yaml", i) /\ i \notin yaml'
        BY <1>3, <1>5, <2>3, <3>3
      <4> QED
        BY <1>2, <2>5, <3>1, <4>1 DEF FilesFit
    <3>4. CASE do \notin {"yaml", "dropYaml"}
      <4>1. ~Will("dropYaml", i) /\ ~Will("yaml", i) /\ yaml' = yaml
        BY <1>3, <1>5, <2>3, <3>4
      <4> QED
        BY <1>2, <2>5, <3>1, <4>1 DEF FilesFit
    <3> QED
      BY <3>2, <3>3, <3>4
  <2> QED
    BY <1>2, <2>6, <2>7
<1>11. ASSUME NEW j \in Ids \ mixed', j # i
       PROVE  ListFits(j)' /\ (j \notin halfDone' => FilesFit(j)')
  <2>1. \A b \in Editing(j) : edit'[b].todo = edit[b].todo
    BY <1>6, <1>11 DEF Editing
  <2>2. j \in yaml' <=> j \in yaml
    BY <1>3, <1>11
  <2> QED
    BY <1>2, <1>7, <1>11, <2>1, <2>2, OtherIdRests
<1> QED
  BY <1>8, <1>10, <1>11 DEF CatalogInv

LEMMA OverridesAre ==
    ASSUME overrides \in Seq(Overrides)
    PROVE  \A k \in DOMAIN overrides : overrides[k] \in Overrides /\ overrides[k].base \in BOOLEAN
<1>1. \A k \in DOMAIN overrides : overrides[k] \in Overrides
  OBVIOUS
<1>2. \A o \in Overrides : o.base \in BOOLEAN
  BY DEF Overrides
<1> QED
  BY <1>1, <1>2

\* A request that leaves no two items of one id: files and list of the id fit once it has
\* written what it has to.
LEMMA EditKeeps ==
    ASSUME CatalogInv, NEW a \in Editors, NEW i \in Ids, NEW todo \in Todos, BeginEdit(a, i, todo),
           "push" \notin Unwritten(todo),
           overrides' \in Seq(Overrides),
           \A j : j # i => /\ Mentions(overrides', j) <=> Mentions(overrides, j)
                           /\ Adds(overrides', j) <=> Adds(overrides, j),
           \A j : AddsTwice(overrides', j) => AddsTwice(overrides, j),
           "yaml" \in Unwritten(todo) => Mentions(overrides', i),
           "dropYaml" \in Unwritten(todo) /\ i \in Others => ~Adds(overrides', i),
           ~Mentions(overrides', i) => ~Mentions(overrides, i) \/ "dropYaml" \in Unwritten(todo),
           Adds(overrides', i) => Adds(overrides, i)
    PROVE  CatalogInv'
<1>3. /\ edit' \in [Editors -> [id : Ids \cup {NoItem}, todo : Todos]]
      /\ \A b \in Editors : edit'[b].id = NoItem => edit'[b].todo = <<>>
      /\ mixed \subseteq mixed' /\ halfDone' = halfDone /\ yaml' = yaml
      /\ \A j \in Ids : j # i => /\ Editing(j)' = Editing(j)
                                 /\ \A b \in Editing(j) : edit'[b].todo = edit[b].todo
      /\ i \notin mixed' => /\ i \notin mixed /\ Editing(i) = {} /\ Editing(i)' = {a}
                            /\ \A do : ~Will(do, i)
                            /\ \A do : Will(do, i)' <=> do \in Unwritten(todo)
                            /\ i \in Others => ~AddsTwice(overrides, i)
                            /\ i \notin halfDone =>
                                   /\ ~Mentions(overrides, i) => i \notin yaml
                                   /\ i \in Others /\ Adds(overrides, i) => i \in yaml
  BY EditBegins
<1>4. CatalogTypeOK'
  BY <1>3 DEF CatalogTypeOK
<1>5. ASSUME i \notin mixed' PROVE ListFits(i)' /\ (i \notin halfDone' => FilesFit(i)')
  <2>1. ~Will("push", i)' /\ (Will("yaml", i)' <=> "yaml" \in Unwritten(todo))
        /\ (Will("dropYaml", i)' <=> "dropYaml" \in Unwritten(todo))
    BY <1>3, <1>5
  <2>2. ListFits(i)'
    BY <1>3, <1>5, <2>1 DEF ListFits
  <2>3. i \notin halfDone' => FilesFit(i)'
    BY <1>3, <1>5, <2>1 DEF FilesFit
  <2> QED
    BY <2>2, <2>3
<1>6. ASSUME NEW j \in Ids \ mixed', j # i
      PROVE  ListFits(j)' /\ (j \notin halfDone' => FilesFit(j)')
  BY <1>3, <1>6, OtherIdRests
<1> QED
  BY <1>4, <1>5, <1>6 DEF CatalogInv

LEMMA PatchKeeps ==
    ASSUME CatalogInv, NEW a \in Editors, NEW i \in Ids, NEW hide \in BOOLEAN,
           NEW todo \in {<<>>, <<"yaml">>, <<"form">>, <<"dropForm">>, <<"yaml", "form">>},
           PatchItem(a, i, hide, todo)
    PROVE  CatalogInv'
<1> DEFINE here == Overlays(i) \cup Added(i)
           first == CHOOSE k \in here : \A l \in here : k <= l
           e == [id |-> i, base |-> TRUE, hidden |-> hide]
<1>1. overrides \in Seq(Overrides)
  BY DEF CatalogInv, CatalogTypeOK
<1>2. /\ todo \in Todos /\ "push" \notin Unwritten(todo) /\ "dropYaml" \notin Unwritten(todo)
  BY DEF Todos, Unwritten
<1>3. /\ BeginEdit(a, i, todo) /\ (here # {} \/ i \in Shipped)
      /\ overrides' = IF here = {} THEN Append(overrides, e)
                      ELSE [overrides EXCEPT ![first].hidden = hide]
  BY DEF PatchItem
<1>4. here # {} <=> Mentions(overrides, i)
  <2>1. \A k \in DOMAIN overrides : overrides[k].base \in BOOLEAN
    BY <1>1, OverridesAre
  <2> QED
    BY <2>1 DEF Overlays, Added, Mentions
<1>5. here \subseteq DOMAIN overrides
  BY DEF Overlays, Added
<1> HIDE DEF first, here
<1>6. CASE here = {}
  <2>1. e \in Overrides /\ e.id = i /\ e.base
    BY DEF Overrides
  <2> HIDE DEF e
  <2>2. overrides' = Append(overrides, e)
    BY <1>3, <1>6
  <2>3. /\ overrides' \in Seq(Overrides)
        /\ \A j : /\ Mentions(overrides', j) <=> Mentions(overrides, j) \/ j = i
                  /\ Adds(overrides', j) <=> Adds(overrides, j)
                  /\ AddsTwice(overrides', j) => AddsTwice(overrides, j)
    BY <1>1, <2>1, <2>2, AppendOverride
  <2> QED
    BY <1>2, <1>3, <2>3, EditKeeps
<1>7. CASE here # {}
  <2>1. overrides' = [overrides EXCEPT ![first].hidden = hide]
    BY <1>3, <1>7
  <2>2. first \in DOMAIN overrides
    <3>1. here \in SUBSET Nat
      BY <1>1, <1>5
    <3>2. \E k \in here : \A l \in here : k <= l
      BY <1>7, <3>1, LeastNatural
    <3> QED
      BY <1>5, <3>2 DEF first
  <2>3. overrides' \in Seq(Overrides)
    <3> PICK o : o = overrides[first]
      OBVIOUS
    <3>0. o \in Overrides
      BY <1>1, <2>2, OverridesAre
    <3>1. [o EXCEPT !.hidden = hide] \in Overrides
      BY <3>0 DEF Overrides
    <3> DEFINE p == [o EXCEPT !.hidden = hide]
    <3>2. overrides' = [overrides EXCEPT ![first] = p]
      BY <2>1
    <3> HIDE DEF p
    <3> QED
      BY <1>1, <2>2, <3>1, <3>2 DEF p
  <2>4. /\ DOMAIN overrides' = DOMAIN overrides
        /\ \A k \in DOMAIN overrides : /\ overrides'[k].id = overrides[k].id
                                       /\ overrides'[k].base = overrides[k].base
    <3>1. DOMAIN overrides' = DOMAIN overrides
      BY <2>1
    <3>2. \A k \in DOMAIN overrides :
              overrides'[k] = overrides[k] \/ overrides'[k] = [overrides[k] EXCEPT !.hidden = hide]
      BY <2>1
    <3>3. \A k \in DOMAIN overrides : overrides[k] \in Overrides
      BY <1>1
    <3> QED
      BY <3>1, <3>2, <3>3 DEF Overrides
  <2>5. \A j : /\ Mentions(overrides', j) <=> Mentions(overrides, j)
               /\ Adds(overrides', j) <=> Adds(overrides, j)
               /\ AddsTwice(overrides', j) <=> AddsTwice(overrides, j)
    BY <2>4, SameOverrides
  <2>6. Mentions(overrides', i)
    BY <1>4, <1>7, <2>5
  <2> QED
    BY <1>2, <1>3, <2>2, <2>3, <2>5, <2>6, EditKeeps
<1> QED
  BY <1>6, <1>7

LEMMA DeleteKeeps ==
    ASSUME CatalogInv, NEW a \in Editors, NEW i \in Ids, DeleteItem(a, i)
    PROVE  CatalogInv'
<1> DEFINE over == Overlays(i)
           todo == IF i \in Others THEN <<"dropYaml">> ELSE <<>>
           e == [id |-> i, base |-> TRUE, hidden |-> TRUE]
<1>1. overrides \in Seq(Overrides)
  BY DEF CatalogInv, CatalogTypeOK
<1>2. /\ BeginEdit(a, i, todo)
      /\ overrides' = IF i \in Others THEN Without(Overlays(i) \cup Added(i))
                      ELSE IF over = {} THEN Append(overrides, e)
                      ELSE [k \in DOMAIN overrides |->
                               IF k \in over THEN [overrides[k] EXCEPT !.hidden = TRUE] ELSE overrides[k]]
  BY DEF DeleteItem
<1>3. /\ todo \in Todos /\ "push" \notin Unwritten(todo) /\ "yaml" \notin Unwritten(todo)
      /\ "dropYaml" \in Unwritten(todo) <=> i \in Others
  <2>1. CASE i \in Others
    BY <2>1 DEF Todos, Unwritten
  <2>2. CASE i \notin Others
    BY <2>2 DEF Todos, Unwritten
  <2> QED
    BY <2>1, <2>2
<1> HIDE DEF todo
<1>4. CASE i \in Others
  <2> DEFINE ks == Overlays(i) \cup Added(i)
             left == Without(ks)
  <2>0. overrides' = left
    BY <1>2, <1>4
  <2>1. /\ left \in Seq(Overrides)
        /\ \A j : j # i => /\ Mentions(left, j) <=> Mentions(overrides, j)
                           /\ Adds(left, j) <=> Adds(overrides, j)
        /\ \A j : AddsTwice(left, j) => AddsTwice(overrides, j)
        /\ ~Mentions(left, i) /\ ~Adds(left, i)
    BY <1>1, WithoutHere
  <2> HIDE DEF left
  <2> QED
    BY <1>2, <1>3, <1>4, <2>0, <2>1, EditKeeps
<1>5. CASE i \notin Others /\ over = {}
  <2>1. e \in Overrides /\ e.id = i /\ e.base
    BY DEF Overrides
  <2> HIDE DEF e
  <2>2. overrides' = Append(overrides, e)
    BY <1>2, <1>5
  <2>3. /\ overrides' \in Seq(Overrides)
        /\ \A j : /\ Mentions(overrides', j) <=> Mentions(overrides, j) \/ j = i
                  /\ Adds(overrides', j) <=> Adds(overrides, j)
                  /\ AddsTwice(overrides', j) => AddsTwice(overrides, j)
    BY <1>1, <2>1, <2>2, AppendOverride
  <2> QED
    BY <1>2, <1>3, <1>5, <2>3, EditKeeps
<1>6. CASE i \notin Others /\ over # {}
  <2> DEFINE new(k) == IF k \in over THEN [overrides[k] EXCEPT !.hidden = TRUE] ELSE overrides[k]
  <2>1. overrides' = [k \in DOMAIN overrides |-> new(k)]
    BY <1>2, <1>6
  <2>2. \A k \in DOMAIN overrides : overrides[k] \in Overrides
    BY <1>1
  <2>3. \A k \in DOMAIN overrides : /\ new(k) \in Overrides /\ new(k).id = overrides[k].id
                                    /\ new(k).base = overrides[k].base
    BY <2>2 DEF Overrides
  <2> HIDE DEF new
  <2>4. DOMAIN overrides' = DOMAIN overrides /\ \A k \in DOMAIN overrides : overrides'[k] = new(k)
    BY <2>1
  <2>5. \A j : /\ Mentions(overrides', j) <=> Mentions(overrides, j)
               /\ Adds(overrides', j) <=> Adds(overrides, j)
               /\ AddsTwice(overrides', j) <=> AddsTwice(overrides, j)
    BY <2>3, <2>4, SameOverrides
  <2>6. overrides' \in Seq(Overrides)
    <3>1. Len(overrides) \in Nat /\ DOMAIN overrides = 1..Len(overrides)
      BY <1>1
    <3> QED
      BY <2>1, <2>3, <3>1
  <2> QED
    BY <1>2, <1>3, <1>6, <2>5, <2>6, EditKeeps
<1> QED
  BY <1>4, <1>5, <1>6

LEMMA ResetKeeps ==
    ASSUME CatalogInv, NEW a \in Editors, NEW i \in Ids, ResetItem(a, i)
    PROVE  CatalogInv'
<1> DEFINE todo == <<"dropYaml", "dropForm">>
           left == Without(Overlays(i))
<1>1. overrides \in Seq(Overrides)
  BY DEF CatalogInv, CatalogTypeOK
<1>2. BeginEdit(a, i, todo) /\ i \in Shipped /\ overrides' = left
  BY DEF ResetItem
<1>3. /\ todo \in Todos /\ Unwritten(todo) = {"dropYaml", "dropForm"}
  BY DEF Todos, Unwritten
<1>4. i \notin Others
  BY <1>2, CatalogAssumption
<1>5. /\ left \in Seq(Overrides)
      /\ \A j : j # i => /\ Mentions(left, j) <=> Mentions(overrides, j)
                         /\ Adds(left, j) <=> Adds(overrides, j)
      /\ \A j : AddsTwice(left, j) => AddsTwice(overrides, j)
      /\ Adds(left, i) <=> Adds(overrides, i)
  BY <1>1, WithoutHere
<1> HIDE DEF todo, left
<1> QED
  BY <1>2, <1>3, <1>4, <1>5, EditKeeps

LEMMA AnswerKeeps ==
    ASSUME CatalogInv, NEW a \in Editors, Answer(a)
    PROVE  CatalogInv'
<1>1. /\ edit[a].id # NoItem /\ edit[a].todo = <<>>
      /\ edit' = [edit EXCEPT ![a] = NoEdit]
      /\ overrides' = overrides /\ yaml' = yaml /\ mixed' = mixed /\ halfDone' = halfDone
  BY DEF Answer
<1>2. /\ overrides \in Seq(Overrides)
      /\ edit \in [Editors -> [id : Ids \cup {NoItem}, todo : Todos]]
      /\ \A b \in Editors : edit[b].id = NoItem => edit[b].todo = <<>>
  BY DEF CatalogInv, CatalogTypeOK
<1>3. NoEdit \in [id : Ids \cup {NoItem}, todo : Todos] /\ NoEdit.id = NoItem /\ NoEdit.todo = <<>>
  BY DEF NoEdit, Todos
<1>4. /\ edit' \in [Editors -> [id : Ids \cup {NoItem}, todo : Todos]]
      /\ edit'[a] = NoEdit /\ \A b \in Editors : b # a => edit'[b] = edit[b]
  BY <1>1, <1>2, <1>3
<1>5. CatalogTypeOK'
  BY <1>1, <1>2, <1>3, <1>4 DEF CatalogTypeOK
<1>6. ASSUME NEW i \in Ids \ mixed' PROVE ListFits(i)' /\ (i \notin halfDone' => FilesFit(i)')
  <2>1. ListFits(i) /\ (i \notin halfDone => FilesFit(i))
    BY <1>1, <1>6 DEF CatalogInv
  <2>2. Editing(i)' = Editing(i) \ {a}
    BY <1>3, <1>4, CatalogAssumption DEF Editing
  <2>3. \A do : Will(do, i)' <=> Will(do, i)
    BY <1>1, <1>4, <2>2, NothingLeft DEF Will, Editing
  <2>4. ListFits(i)'
    BY <1>1, <2>1, <2>2, <2>3 DEF ListFits
  <2>5. i \notin halfDone' => FilesFit(i)'
    BY <1>1, <2>1, <2>3 DEF FilesFit
  <2> QED
    BY <2>4, <2>5
<1> QED
  BY <1>5, <1>6 DEF CatalogInv

LEMMA CatalogCrashKeeps ==
    ASSUME CatalogInv, CatalogCrash
    PROVE  CatalogInv'
<1>1. /\ edit' = [b \in Editors |-> NoEdit]
      /\ halfDone' = halfDone \cup {edit[a].id : a \in {b \in Editors : edit[b].todo # <<>>}}
      /\ overrides' = overrides /\ yaml' = yaml /\ mixed' = mixed
  BY DEF CatalogCrash
<1>2. /\ overrides \in Seq(Overrides)
      /\ edit \in [Editors -> [id : Ids \cup {NoItem}, todo : Todos]]
  BY DEF CatalogInv, CatalogTypeOK
<1>3. NoEdit \in [id : Ids \cup {NoItem}, todo : Todos] /\ NoEdit.id = NoItem /\ NoEdit.todo = <<>>
  BY DEF NoEdit, Todos
<1>4. CatalogTypeOK'
  BY <1>1, <1>2, <1>3 DEF CatalogTypeOK
<1>5. ASSUME NEW i \in Ids \ mixed' PROVE ListFits(i)' /\ (i \notin halfDone' => FilesFit(i)')
  <2>1. ListFits(i) /\ (i \notin halfDone => FilesFit(i))
    BY <1>1, <1>5 DEF CatalogInv
  <2>2. Editing(i)' = {}
    BY <1>1, <1>3, CatalogAssumption DEF Editing
  <2>3. \A do : ~Will(do, i)'
    BY <2>2 DEF Will
  <2>4. ListFits(i)'
    BY <1>1, <2>1, <2>2, <2>3 DEF ListFits
  <2>5. ASSUME i \notin halfDone' PROVE FilesFit(i)'
    <3>1. \A a \in Editing(i) : edit[a].todo = <<>>
      BY <1>1, <2>5 DEF Editing
    <3>2. \A do : ~Will(do, i)
      BY <3>1, NothingLeft DEF Will
    <3>3. FilesFit(i)
      BY <1>1, <2>1, <2>5
    <3> QED
      BY <1>1, <2>3, <3>2, <3>3 DEF FilesFit
  <2> QED
    BY <2>4, <2>5
<1> QED
  BY <1>4, <1>5 DEF CatalogInv

LEMMA CatalogRests ==
    ASSUME CatalogInv, UNCHANGED catalogVars
    PROVE  CatalogInv'
<1>1. /\ overrides' = overrides /\ edit' = edit /\ yaml' = yaml /\ mixed' = mixed
      /\ halfDone' = halfDone
  BY DEF catalogVars
<1>2. CatalogTypeOK'
  BY <1>1 DEF CatalogInv, CatalogTypeOK
<1>3. ASSUME NEW i \in Ids \ mixed' PROVE ListFits(i)' /\ (i \notin halfDone' => FilesFit(i)')
  <2>1. Editing(i)' = Editing(i) /\ \A a \in Editing(i) : edit'[a].todo = edit[a].todo
    BY <1>1 DEF Editing
  <2> QED
    BY <1>1, <2>1, OtherIdRests
<1> QED
  BY <1>2, <1>3 DEF CatalogInv

LEMMA CatalogStep ==
    ASSUME CatalogInv, CatalogNext \/ UNCHANGED catalogVars
    PROVE  CatalogInv'
<1>1. CASE CatalogCrash \/ UNCHANGED catalogVars
  BY <1>1, CatalogCrashKeeps, CatalogRests
<1>2. CASE \E a \in Editors : PushItem(a) \/ WriteFile(a) \/ Answer(a)
  BY <1>2, PushKeeps, WriteKeeps, AnswerKeeps
<1>3. CASE \E a \in Editors, i \in Ids : CreateItem(a, i) \/ DeleteItem(a, i) \/ ResetItem(a, i)
  BY <1>3, CreateKeeps, DeleteKeeps, ResetKeeps
<1>4. CASE \E a \in Editors, i \in Ids, hide \in BOOLEAN,
              todo \in {<<>>, <<"yaml">>, <<"form">>, <<"dropForm">>, <<"yaml", "form">>} :
                  PatchItem(a, i, hide, todo)
  BY <1>4, PatchKeeps
<1> QED
  BY <1>1, <1>2, <1>3, <1>4 DEF CatalogNext

LEMMA CatalogStarts == CatalogInit => CatalogInv
<1> SUFFICES ASSUME CatalogInit PROVE CatalogInv
  OBVIOUS
<1>1. /\ overrides = <<>> /\ edit = [a \in Editors |-> NoEdit] /\ yaml = {}
  BY DEF CatalogInit
<1>2. NoEdit \in [id : Ids \cup {NoItem}, todo : Todos] /\ NoEdit.id = NoItem /\ NoEdit.todo = <<>>
  BY DEF NoEdit, Todos
<1>3. CatalogTypeOK
  BY <1>1, <1>2 DEF CatalogTypeOK
<1>4. ASSUME NEW i \in Ids PROVE ListFits(i) /\ FilesFit(i)
  <2>1. Editing(i) = {}
    BY <1>1, <1>2, CatalogAssumption DEF Editing
  <2>2. \A do : ~Will(do, i)
    BY <2>1 DEF Will
  <2>3. ~Mentions(overrides, i) /\ ~Adds(overrides, i) /\ ~AddsTwice(overrides, i)
    BY <1>1 DEF Mentions, Adds, AddsTwice
  <2> QED
    BY <1>1, <2>1, <2>2, <2>3 DEF ListFits, FilesFit
<1> QED
  BY <1>3, <1>4 DEF CatalogInv

LEMMA CatalogShows == CatalogInv => CatalogIsWhole
<1> SUFFICES ASSUME CatalogInv PROVE CatalogIsWhole
  OBVIOUS
<1>1. overrides \in Seq(Overrides)
  BY DEF CatalogInv, CatalogTypeOK
<1>2. \A k \in DOMAIN overrides : overrides[k].base \in BOOLEAN
  BY <1>1, OverridesAre
<1>3. \A i : /\ Overlays(i) \cup Added(i) # {} <=> Mentions(overrides, i)
             /\ Added(i) # {} <=> Adds(overrides, i)
  BY <1>2 DEF Overlays, Added, Mentions, Adds
<1>4. ASSUME NEW i \in Others, i \notin mixed PROVE Times(i) \in {0, 1}
  <2>1. i \in Ids /\ i \notin Shipped
    BY CatalogAssumption DEF Ids
  <2>2. ~AddsTwice(overrides, i)
    BY <1>4, <2>1 DEF CatalogInv, ListFits
  <2>3. \A k, l \in Added(i) : k = l
    BY <2>2 DEF AddsTwice, Added
  <2>4. Cardinality(Added(i)) \in {0, 1}
    <3>1. CASE Added(i) = {}
      BY <3>1, FS_EmptySet
    <3>2. CASE Added(i) # {}
      <4>1. PICK k : Added(i) = {k}
        BY <2>3, <3>2
      <4>2. Cardinality({k}) = 1
        BY FS_Singleton
      <4> QED
        BY <4>1, <4>2
    <3> QED
      BY <3>1, <3>2
  <2>6. Times(i) = Cardinality(Added(i)) + 0
    BY <2>1 DEF Times
  <2> QED
    BY <2>4, <2>6
<1>5. ASSUME NEW i \in Others, Times(i) > 1 PROVE i \in mixed
  BY <1>4, <1>5
<1>6. ASSUME NEW i \in Ids, Settled(i)
      PROVE  /\ ~Mentions(overrides, i) => i \notin yaml
             /\ i \in Others /\ Adds(overrides, i) => i \in yaml
  <2>1. Editing(i) = {} /\ i \notin mixed /\ i \notin halfDone
    BY <1>6 DEF Settled
  <2>2. \A do : ~Will(do, i)
    BY <2>1 DEF Will
  <2>3. FilesFit(i)
    BY <2>1 DEF CatalogInv
  <2> QED
    BY <2>2, <2>3 DEF FilesFit
<1> QED
  BY <1>3, <1>5, <1>6 DEF CatalogIsWhole, IdsAreListedOnce, PlaybooksHaveTheirItem

\* For any items and any requests of administrators, however they overlap and wherever the
\* server dies: an id is listed once, and a playbook belongs to an item, unless two requests
\* about one id overlapped or one was left half done.
THEOREM CatalogIsAlwaysWhole == BackendSpec => []CatalogIsWhole
<1>1. BackendInit => CatalogInv
  BY CatalogStarts DEF BackendInit
<1>2. CatalogInv /\ [BackendNext]_backendVars => CatalogInv'
  BY CatalogStep DEF BackendNext, backendVars
<1> QED
  BY <1>1, <1>2, CatalogShows, PTL DEF BackendSpec
-----------------------------------------------------------------------------
(***************************************************************************)
(* The start of the server.                                                *)
(***************************************************************************)
Opening == {"schema", "note"}
TakingOver == {"mirror", "comments"}
StartStages == {"down", "failed", "schema", "note", "legacy", "mirror", "comments", "archive", "listening",
                "fresh", "promote", "identities", "heal", "up"}

\* What is in the file: with this shape a change of one field leaves the others.
IsFile(x) ==
    /\ x = [applied |-> x.applied, altered |-> x.altered, doc |-> x.doc, mirror |-> x.mirror,
            comments |-> x.comments, jsonFile |-> x.jsonFile]
    /\ x.altered \in BOOLEAN /\ x.doc \in UserDocuments \cup {NoDocument}
    /\ x.jsonFile \in {"none", "there", "archived"}

StartTypeOK ==
    /\ stage \in StartStages /\ version \in Nat \ {0} /\ build \in Builds
    /\ emptied \in BOOLEAN /\ unfinished \in BOOLEAN
    /\ IsFile(database) /\ (stage \in Opening \cup TakingOver => IsFile(working))

\* The transaction of the schema has each version so far in the form of the build, the one
\* whose statements are executed but not noted apart.
SchemaInv ==
    /\ database.altered <=> AlterVersion \in DOMAIN database.applied
    /\ stage \in Opening =>
           /\ \A v \in 1..version - 1 : v \in DOMAIN working.applied /\ working.applied[v] = build[v]
           /\ working.doc = database.doc /\ working.mirror = database.mirror
           /\ working.comments = database.comments /\ working.jsonFile = database.jsonFile
    /\ stage = "schema" => (working.altered <=> AlterVersion \in DOMAIN working.applied)
    /\ stage = "note" => /\ version \in DOMAIN build /\ version \notin DOMAIN working.applied
                         /\ working.altered <=> (version = AlterVersion \/ AlterVersion \in DOMAIN working.applied)
    /\ stage \notin Opening \cup {"down", "failed"} =>
           \A v \in DOMAIN build : v \in DOMAIN database.applied /\ database.applied[v] = build[v]

LegacyIds == {Legacy[i].id : i \in DOMAIN Legacy}
IdsOf(d) == {d.users[i].id : i \in DOMAIN d.users}

\* A document beside a JSON file is the one of that file.
LegacyInv ==
    /\ database.doc = NoDocument => database.mirror = {} /\ database.comments = {} /\ database.jsonFile # "archived"
    /\ database.jsonFile # "none" /\ database.doc # NoDocument =>
           /\ database.comments = LegacyComments /\ database.mirror = LegacyIds
           /\ ~emptied => LegacyIds \subseteq IdsOf(database.doc)
    /\ stage \in TakingOver => /\ database.doc = NoDocument /\ database.jsonFile = "there"
                               /\ working = [database EXCEPT !.doc = LegacyDocument, !.mirror = working.mirror]
    /\ stage = "comments" => working.mirror = LegacyIds
    /\ stage = "archive" => database.doc # NoDocument /\ database.jsonFile # "none"
    /\ Serving /\ database.jsonFile # "none" => database.doc # NoDocument

NamesDiffer(d) == \A i, j \in DOMAIN d.users :
    d.users[i].username = d.users[j].username => i = j \/ d.users[i].username = NoUsername
LocalsDiffer(d) == \A p, q \in DOMAIN d.identities :
    d.identities[p] = d.identities[q] /\ d.identities[p][2] = "local" => p = q
PeopleDiffer(d) == NamesDiffer(d) /\ LocalsDiffer(d)

FoolsPromoted(d) == \A i \in DOMAIN d.users :
    d.users[i].id \in LegacyIds /\ d.users[i].fool => d.users[i].admin
Migrant(d, i) == /\ d.users[i].username # NoUsername
                 /\ d.users[i].password => HasLocal(d, d.users[i].id)
AllSettled(d) == \A i \in DOMAIN d.users : d.users[i].id \in LegacyIds => Migrant(d, i)

PeopleInv ==
    /\ database.doc # NoDocument => /\ PeopleDiffer(database.doc)
                                    /\ database.doc.schema = 4 => AllSettled(database.doc)
    /\ stage \in {"promote", "identities"} => database.doc # NoDocument
    /\ stage = "identities" /\ ~unfinished => FoolsPromoted(database.doc)
    /\ stage \in {"heal", "up"} /\ ~unfinished =>
           database.doc # NoDocument /\ database.doc.schema = 4 /\ FoolsPromoted(database.doc)

StartInv == StartTypeOK /\ SchemaInv /\ LegacyInv /\ PeopleInv

LEMMA UniqueIsFree ==
    ASSUME NEW taken, IsFiniteSet(taken), NEW base
    PROVE  \E n \in Nat \ {0} : UniqueUsername(base, taken) = <<base, n>> /\ <<base, n>> \notin taken
<1> DEFINE C == Cardinality(taken)
           Free == {n \in 1..C + 1 : <<base, n>> \notin taken}
<1>1. C \in Nat
  BY FS_CardinalityType
<1> HIDE DEF C
<1>2. Free # {}
  <2> SUFFICES ASSUME \A n \in 1..C + 1 : <<base, n>> \in taken PROVE FALSE
    OBVIOUS
  <2> DEFINE f == [n \in 1..C + 1 |-> <<base, n>>]
  <2>1. IsFiniteSet(1..C + 1) /\ Cardinality(1..C + 1) = C + 1
    BY <1>1, FS_Interval
  <2>2. f \in [1..C + 1 -> taken]
    OBVIOUS
  <2>3. Cardinality(taken) < Cardinality(1..C + 1)
    BY <1>1, <2>1 DEF C
  <2> HIDE DEF f
  <2>4. PICK x, y \in 1..C + 1 : x # y /\ f[x] = f[y]
    BY <2>1, <2>2, <2>3, FS_PigeonHole
  <2> QED
    BY <2>4 DEF f
<1>6. Free \in SUBSET Nat
  BY <1>1
<1> HIDE DEF Free
<1>3. PICK n \in Free : \A m \in Free : n <= m
  BY <1>2, <1>6, LeastNatural
<1> USE DEF Free
<1>4. /\ n \in 1..C + 1 /\ <<base, n>> \notin taken
      /\ \A m \in 1..n - 1 : <<base, m>> \in taken
  BY <1>1, <1>3
<1>5. PICK k \in 1..C + 1 : /\ UniqueUsername(base, taken) = <<base, k>>
                            /\ <<base, k>> \notin taken
  BY <1>4 DEF UniqueUsername, C
<1> QED
  BY <1>1, <1>5

\* The shape of a document.
LEMMA DocumentIs ==
    ASSUME NEW d \in UserDocuments
    PROVE  /\ d.schema \in {3, 4} /\ d.users \in Seq(Members)
           /\ d.identities \in Seq(STRING \X {"local", "github"})
           /\ d = [schema |-> d.schema, users |-> d.users, identities |-> d.identities]
           /\ Len(d.users) \in Nat /\ DOMAIN d.users = 1..Len(d.users)
           /\ \A i \in DOMAIN d.users : d.users[i] \in Members
  BY DEF UserDocuments

LEMMA MemberIs ==
    ASSUME NEW u \in Members
    PROVE  u = [id |-> u.id, base |-> u.base, username |-> u.username, password |-> u.password,
                fool |-> u.fool, admin |-> u.admin]
  BY DEF Members

LEMMA TakenIs ==
    ASSUME NEW d \in UserDocuments
    PROVE  IsFiniteSet(Taken(d))
<1> DEFINE D == DOMAIN d.users
           T == {d.users[i].username : i \in D}
           f == [i \in D |-> d.users[i].username]
<1>1. IsFiniteSet(D)
  <2>1. D = 1..Len(d.users) /\ Len(d.users) \in Nat
    BY DocumentIs
  <2> QED
    BY <2>1, FS_Interval, 1 \in Int, Len(d.users) \in Int
<1>2. f \in Surjection(D, T)
  BY DEF Surjection
<1>3. IsFiniteSet(T)
  BY <1>1, <1>2, FS_Surjection DEF ExistsSurjection
<1>4. Taken(d) \in SUBSET T
  BY DEF Taken
<1> QED
  BY <1>3, <1>4, FS_Subset

\* Both documents have the same people, apart from their names.
SamePeople(d, e) ==
    /\ DOMAIN e.users = DOMAIN d.users
    /\ \A j \in DOMAIN d.users :
           /\ e.users[j].id = d.users[j].id /\ e.users[j].base = d.users[j].base
           /\ e.users[j].password = d.users[j].password
           /\ e.users[j].fool = d.users[j].fool /\ e.users[j].admin = d.users[j].admin
           /\ d.users[j].username # NoUsername => e.users[j].username # NoUsername
    /\ \A j : HasLocal(d, j) => HasLocal(e, j)

LEMMA NamedIs ==
    ASSUME NEW d \in UserDocuments, NEW i \in DOMAIN d.users, NEW name \in Usernames \cup {NoUsername}
    PROVE  LET e == Named(d, i, name)
           IN  /\ e \in UserDocuments /\ e.schema = d.schema /\ e.identities = d.identities
               /\ DOMAIN e.users = DOMAIN d.users /\ e.users[i].username = name
               /\ \A j \in DOMAIN d.users : j # i => e.users[j] = d.users[j]
               /\ \A j \in DOMAIN d.users :
                      /\ e.users[j].id = d.users[j].id /\ e.users[j].base = d.users[j].base
                      /\ e.users[j].password = d.users[j].password
                      /\ e.users[j].fool = d.users[j].fool /\ e.users[j].admin = d.users[j].admin
<1> DEFINE u == d.users[i]
           v == [u EXCEPT !.username = name]
           us == [d.users EXCEPT ![i] = v]
           e == [d EXCEPT !.users = us]
<1>1. Named(d, i, name) = e
  BY DEF Named
<1>2. u \in Members
  BY DocumentIs
<1>3. /\ v \in Members /\ v.username = name /\ v.id = u.id /\ v.base = u.base
      /\ v.password = u.password /\ v.fool = u.fool /\ v.admin = u.admin
  <2> HIDE DEF u
  <2> QED
    BY <1>2 DEF Members
<1> HIDE DEF v
<1>4. /\ us \in Seq(Members) /\ DOMAIN us = DOMAIN d.users /\ us[i] = v
      /\ \A j \in DOMAIN d.users : j # i => us[j] = d.users[j]
  BY <1>3, DocumentIs
<1> HIDE DEF us
<1>5. e \in UserDocuments /\ e.schema = d.schema /\ e.identities = d.identities /\ e.users = us
  BY <1>4, DocumentIs DEF UserDocuments
<1> HIDE DEF e
<1> QED
  BY <1>1, <1>3, <1>4, <1>5

LEMMA NamedKeeps ==
    ASSUME NEW d \in UserDocuments, PeopleDiffer(d), NEW i \in DOMAIN d.users, NEW name \in Usernames,
           \A j \in DOMAIN d.users : j # i => d.users[j].username # name
    PROVE  PeopleDiffer(Named(d, i, name)) /\ SamePeople(d, Named(d, i, name))
<1> DEFINE e == Named(d, i, name)
<1>1. name # NoUsername
  BY StartUpAssumption
<1>2. /\ e.identities = d.identities /\ DOMAIN e.users = DOMAIN d.users /\ e.users[i].username = name
      /\ \A j \in DOMAIN d.users : j # i => e.users[j] = d.users[j]
      /\ \A j \in DOMAIN d.users :
             /\ e.users[j].id = d.users[j].id /\ e.users[j].base = d.users[j].base
             /\ e.users[j].password = d.users[j].password
             /\ e.users[j].fool = d.users[j].fool /\ e.users[j].admin = d.users[j].admin
  BY NamedIs
<1> HIDE DEF e
<1>3. NamesDiffer(e)
  <2> SUFFICES ASSUME NEW j \in DOMAIN e.users, NEW k \in DOMAIN e.users,
                      e.users[j].username = e.users[k].username, j # k
               PROVE  e.users[j].username = NoUsername
    BY DEF NamesDiffer
  <2>1. CASE j # i /\ k # i
    BY <1>2, <2>1 DEF PeopleDiffer, NamesDiffer
  <2>2. CASE j = i \/ k = i
    BY <1>2, <2>2
  <2> QED
    BY <2>1, <2>2
<1>4. LocalsDiffer(e)
  BY <1>2 DEF PeopleDiffer, LocalsDiffer
<1>5. SamePeople(d, e)
  <2>1. \A j : HasLocal(d, j) => HasLocal(e, j)
    BY <1>2 DEF HasLocal
  <2>2. \A j \in DOMAIN d.users : d.users[j].username # NoUsername => e.users[j].username # NoUsername
    BY <1>1, <1>2
  <2> QED
    BY <1>2, <2>1, <2>2 DEF SamePeople
<1> QED
  BY <1>3, <1>4, <1>5 DEF PeopleDiffer, e

\* Another local identity, for who has none.
LEMMA LocalKeeps ==
    ASSUME NEW d \in UserDocuments, PeopleDiffer(d), NEW id \in STRING, ~HasLocal(d, id)
    PROVE  LET e == [d EXCEPT !.identities = Append(@, <<id, "local">>)]
           IN  /\ e \in UserDocuments /\ e.schema = d.schema /\ e.users = d.users /\ PeopleDiffer(e)
               /\ SamePeople(d, e) /\ HasLocal(e, id)
<1> DEFINE x == <<id, "local">>
           l == d.identities
           L == Append(l, x)
           N == Len(l)
           e == [d EXCEPT !.identities = Append(@, x)]
<1>1. l \in Seq(STRING \X {"local", "github"}) /\ x \in STRING \X {"local", "github"}
  BY DocumentIs
<1>2. /\ N \in Nat /\ DOMAIN l = 1..N /\ DOMAIN L = 1..N + 1 /\ L[N + 1] = x
      /\ \A p \in 1..N : L[p] = l[p]
      /\ L \in Seq(STRING \X {"local", "github"})
  BY <1>1
<1> HIDE DEF x
<1>3. e \in UserDocuments /\ e.schema = d.schema /\ e.users = d.users /\ e.identities = L
  BY <1>2, DocumentIs DEF UserDocuments
<1>4. \A p \in 1..N : l[p] # x
  BY <1>2 DEF HasLocal, x
<1>10. \A p \in 1..N + 1 : p \in 1..N \/ p = N + 1
  BY <1>2
<1>11. 1..N \subseteq 1..N + 1 /\ N + 1 \in 1..N + 1
  BY <1>2
<1> HIDE DEF e, L, N, l
<1>5. LocalsDiffer(e)
  <2> SUFFICES ASSUME NEW p \in DOMAIN L, NEW q \in DOMAIN L, L[p] = L[q], L[p][2] = "local"
               PROVE  p = q
    BY <1>3 DEF LocalsDiffer
  <2>1. (p \in 1..N \/ p = N + 1) /\ (q \in 1..N \/ q = N + 1)
    BY <1>2, <1>10
  <2>2. CASE p \in 1..N /\ q \in 1..N
    BY <1>2, <2>2 DEF PeopleDiffer, LocalsDiffer, l
  <2>3. CASE p = N + 1 \/ q = N + 1
    BY <1>2, <1>4, <2>1, <2>3
  <2> QED
    BY <2>1, <2>2, <2>3
<1>6. NamesDiffer(e)
  BY <1>3 DEF PeopleDiffer, NamesDiffer
<1>7. \A j : HasLocal(d, j) => HasLocal(e, j)
  <2> SUFFICES ASSUME NEW j, HasLocal(d, j) PROVE HasLocal(e, j)
    OBVIOUS
  <2>1. PICK p \in 1..N : l[p] = <<j, "local">>
    BY <1>2 DEF HasLocal, l
  <2>2. p \in DOMAIN L /\ L[p] = <<j, "local">>
    BY <1>2, <1>11, <2>1
  <2> QED
    BY <1>3, <2>2 DEF HasLocal
<1>8. HasLocal(e, id)
  BY <1>2, <1>3, <1>11 DEF HasLocal, x
<1>9. SamePeople(d, e)
  BY <1>3, <1>7 DEF SamePeople
<1> QED
  BY <1>3, <1>5, <1>6, <1>8, <1>9 DEF PeopleDiffer, e, x

LEMMA SameAgain ==
    ASSUME NEW d, NEW e, NEW f, SamePeople(d, e), SamePeople(e, f)
    PROVE  SamePeople(d, f)
  BY DEF SamePeople

\* One user is settled, the others are left.
LEMMA Backfills ==
    ASSUME NEW d \in UserDocuments, PeopleDiffer(d), NEW i \in DOMAIN d.users
    PROVE  LET e == Backfilled(d, i)
           IN  /\ e \in UserDocuments /\ e.schema = d.schema /\ PeopleDiffer(e)
               /\ SamePeople(d, e) /\ Migrant(e, i)
<1> DEFINE u == d.users[i]
           name == UniqueUsername(u.base, Taken(d))
           n == IF u.username # NoUsername THEN d ELSE Named(d, i, name)
<1>1. u \in Members /\ u.id \in STRING /\ u.base \in STRING /\ u.password \in BOOLEAN
  BY DocumentIs DEF Members
<1>2. /\ n \in UserDocuments /\ n.schema = d.schema /\ PeopleDiffer(n) /\ SamePeople(d, n)
      /\ n.users[i].username # NoUsername /\ n.identities = d.identities
  <2>1. CASE u.username # NoUsername
    BY <2>1 DEF SamePeople
  <2>2. CASE u.username = NoUsername
    <3>1. PICK k \in Nat \ {0} : name = <<u.base, k>> /\ name \notin Taken(d)
      BY TakenIs, UniqueIsFree
    <3>2. name \in Usernames /\ name # NoUsername
      BY <1>1, <3>1, StartUpAssumption DEF Usernames
    <3> HIDE DEF name, u
    <3>3. \A j \in DOMAIN d.users : j # i => d.users[j].username # name
      BY <3>1, <3>2 DEF Taken
    <3>4. PeopleDiffer(Named(d, i, name)) /\ SamePeople(d, Named(d, i, name))
      BY <3>2, <3>3, NamedKeeps
    <3>5. LET e == Named(d, i, name)
          IN  /\ e \in UserDocuments /\ e.schema = d.schema /\ e.identities = d.identities
              /\ e.users[i].username = name
      BY <3>2, NamedIs
    <3> QED
      BY <2>2, <3>2, <3>4, <3>5
  <2> QED
    BY <2>1, <2>2
<1>3. n.users[i].id = u.id /\ n.users[i].password = u.password /\ DOMAIN n.users = DOMAIN d.users
  BY <1>2 DEF SamePeople
<1>4. HasLocal(d, u.id) <=> HasLocal(n, u.id)
  BY <1>2 DEF HasLocal
<1>5. Backfilled(d, i) = IF u.password /\ ~HasLocal(d, u.id)
                         THEN [n EXCEPT !.identities = Append(@, <<u.id, "local">>)] ELSE n
  BY DEF Backfilled
<1> HIDE DEF n, u
<1>6. CASE u.password /\ ~HasLocal(d, u.id)
  <2> DEFINE e == [n EXCEPT !.identities = Append(@, <<u.id, "local">>)]
  <2>1. /\ e \in UserDocuments /\ e.schema = n.schema /\ e.users = n.users /\ PeopleDiffer(e)
        /\ SamePeople(n, e) /\ HasLocal(e, u.id)
    BY <1>1, <1>2, <1>4, <1>6, LocalKeeps
  <2>2. Backfilled(d, i) = e
    BY <1>5, <1>6
  <2> HIDE DEF e
  <2>3. SamePeople(d, e)
    BY <1>2, <2>1, SameAgain
  <2>4. Migrant(e, i)
    BY <1>2, <1>3, <2>1 DEF Migrant
  <2> QED
    BY <1>2, <2>1, <2>2, <2>3, <2>4
<1>7. CASE ~(u.password /\ ~HasLocal(d, u.id))
  <2>1. Migrant(n, i)
    BY <1>2, <1>3, <1>4, <1>7 DEF Migrant
  <2> QED
    BY <1>2, <1>5, <1>7, <2>1
<1> QED
  BY <1>6, <1>7

\* What an update of the document by the migration keeps.
Continues(d, e) ==
    /\ e \in UserDocuments /\ e.schema = d.schema /\ PeopleDiffer(e) /\ SamePeople(d, e)

LEMMA BackfillsAll ==
    ASSUME NEW d \in UserDocuments, PeopleDiffer(d), Outdated(d)
    PROVE  \E e : /\ Migrated0004(d) = [e EXCEPT !.schema = 4]
                  /\ Continues(d, e) /\ \A i \in DOMAIN d.users : Migrant(e, i)
<1> DEFINE N == Len(d.users)
           X == {e \in UserDocuments : Continues(d, e)}
           follow == [k \in 1..N |-> [x \in X |-> Backfilled(x, k)]]
           Fills(f) == f = [k \in 0..N |-> IF k = 0 THEN d ELSE Backfilled(f[k - 1], k)]
<1>1. N \in Nat /\ DOMAIN d.users = 1..N
  BY DocumentIs
<1>2. d \in X
  BY DEF SamePeople, Continues
<1>3. ASSUME NEW x \in X, NEW k \in 1..N PROVE Backfilled(x, k) \in X
  <2>1. x \in UserDocuments /\ x.schema = d.schema /\ PeopleDiffer(x) /\ SamePeople(d, x)
    BY DEF Continues
  <2>2. k \in DOMAIN x.users
    BY <1>1, <2>1 DEF SamePeople
  <2>3. LET e == Backfilled(x, k)
        IN  /\ e \in UserDocuments /\ e.schema = x.schema /\ PeopleDiffer(e) /\ SamePeople(x, e)
    BY <2>1, <2>2, Backfills
  <2>4. SamePeople(d, Backfilled(x, k))
    BY <2>1, <2>3, SameAgain
  <2> QED
    BY <2>1, <2>3, <2>4 DEF Continues
<1>4. follow \in [1..N -> [X -> X]]
  <2> HIDE DEF X
  <2> QED
    BY <1>3
<1>5. \E f : Fills(f)
  <2> HIDE DEF follow
  <2>0. N \in Nat /\ d \in X /\ follow \in RecursionSteps(N, X)
    BY <1>1, <1>2, <1>4 DEF RecursionSteps
  <2> HIDE DEF N, X
  <2>1. PICK f : Recurs(f, N, X, d, follow)
    BY <2>0, Recursion
  <2> USE DEF Recurs
  <2>2. ASSUME NEW k \in 0..N, k # 0
        PROVE  f[k] = Backfilled(f[k - 1], k)
    <3>1. k \in 1..N /\ k - 1 \in 0..N
      BY <2>0, <2>2
    <3>2. f[k - 1] \in X /\ f[k] = follow[k][f[k - 1]]
      BY <2>1, <2>2, <3>1
    <3> QED
      BY <3>1, <3>2 DEF follow
  <2>3. f[0] = d
    BY <2>0, <2>1
  <2>4. f = [k \in 0..N |-> f[k]]
    BY <2>1
  <2> QED
    BY <2>2, <2>3, <2>4
<1>6. Migrated0004(d) = [(CHOOSE f : Fills(f))[N] EXCEPT !.schema = 4]
  BY DEF Migrated0004
<1>7. PICK f : Fills(f) /\ Migrated0004(d) = [f[N] EXCEPT !.schema = 4]
  BY <1>5, <1>6
<1>8. f[0] = d
  <2>1. 0 \in 0..N
    BY <1>1
  <2>2. \A k \in 0..N : k = 0 => f[k] = d
    BY <1>7
  <2> QED
    BY <2>1, <2>2
<1>9. \A k \in 0..(N - 1) : f[k + 1] = Backfilled(f[k], k + 1)
  <2> TAKE k \in 0..(N - 1)
  <2>1. k + 1 \in 0..N /\ k + 1 # 0 /\ (k + 1) - 1 = k
    BY <1>1
  <2> QED
    BY <1>7, <2>1
<1> HIDE DEF Fills, follow, X
<1> DEFINE Done(k) == Continues(d, f[k]) /\ \A i \in 1..k : Migrant(f[k], i)
           S == {k \in 0..N : Done(k)}
<1>10. 0 \in S
  <2>1. Continues(d, d)
    BY <1>2 DEF X
  <2> QED
    BY <1>1, <1>8, <2>1
<1>11. ASSUME NEW k \in 0..(N - 1), k \in S PROVE k + 1 \in S
  <2> DEFINE x == f[k]
             e == Backfilled(x, k + 1)
  <2>1. /\ k + 1 \in 0..N /\ k + 1 \in 1..N
        /\ \A i \in 1..(k + 1) : i \in 1..N /\ (i \in 1..k \/ i = k + 1)
    BY <1>1
  <2>2. Continues(d, x) /\ \A i \in 1..k : Migrant(x, i)
    BY <1>11
  <2> HIDE DEF x
  <2>3. x \in UserDocuments /\ PeopleDiffer(x) /\ SamePeople(d, x) /\ x.schema = d.schema /\ DOMAIN x.users = 1..N
    BY <1>1, <2>2 DEF Continues, SamePeople
  <2>4. /\ e \in UserDocuments /\ e.schema = x.schema /\ PeopleDiffer(e)
        /\ SamePeople(x, e) /\ Migrant(e, k + 1)
    BY <2>1, <2>3, Backfills
  <2> HIDE DEF e
  <2>5. Continues(d, e)
    BY <2>3, <2>4, SameAgain DEF Continues
  <2>6. ASSUME NEW i \in 1..(k + 1) PROVE Migrant(e, i)
    <3>1. CASE i \in 1..k
      <4>1. i \in DOMAIN x.users /\ Migrant(x, i)
        BY <2>1, <2>2, <2>3, <3>1
      <4> QED
        BY <2>4, <4>1 DEF Migrant, SamePeople
    <3>2. CASE i = k + 1
      BY <2>4, <3>2
    <3> QED
      BY <2>1, <3>1, <3>2
  <2>7. f[k + 1] = e
    BY <1>9 DEF e, x
  <2> QED
    BY <2>1, <2>5, <2>6, <2>7
<1> HIDE DEF S
<1>12. 0..N \subseteq S
  BY <1>1, <1>10, <1>11, UpTo
<1>13. N \in S
  BY <1>1, <1>12
<1> QED
  BY <1>1, <1>7, <1>13 DEF S

\* The document after the migration: nobody is lost, and everyone of earlier releases is settled.
LEMMA Migrates0004 ==
    ASSUME NEW d \in UserDocuments, PeopleDiffer(d), d.schema = 4 => AllSettled(d)
    PROVE  LET e == Migrated0004(d)
           IN  /\ e \in UserDocuments /\ e.schema = 4 /\ PeopleDiffer(e) /\ SamePeople(d, e) /\ AllSettled(e)
<1>1. CASE Outdated(d)
  <2>1. PICK x : /\ Migrated0004(d) = [x EXCEPT !.schema = 4]
                 /\ Continues(d, x) /\ \A i \in DOMAIN d.users : Migrant(x, i)
    BY <1>1, BackfillsAll
  <2> DEFINE e == [x EXCEPT !.schema = 4]
  <2>2. x \in UserDocuments /\ PeopleDiffer(x) /\ SamePeople(d, x)
    BY <2>1 DEF Continues
  <2>3. e \in UserDocuments /\ e.schema = 4 /\ e.users = x.users /\ e.identities = x.identities
    BY <2>2, DocumentIs DEF UserDocuments
  <2> HIDE DEF e
  <2>4. \A j : HasLocal(e, j) <=> HasLocal(x, j)
    BY <2>3 DEF HasLocal
  <2>5. PeopleDiffer(e)
    BY <2>2, <2>3 DEF PeopleDiffer, NamesDiffer, LocalsDiffer
  <2>6. SamePeople(d, e)
    BY <2>2, <2>3, <2>4 DEF SamePeople
  <2>7. AllSettled(e)
    BY <2>1, <2>2, <2>3, <2>4 DEF AllSettled, Migrant, SamePeople
  <2> QED
    BY <2>1, <2>3, <2>5, <2>6, <2>7 DEF e
<1>2. CASE ~Outdated(d)
  <2>1. d.schema = 4
    BY <1>2, DocumentIs DEF Outdated
  <2> QED
    BY <1>2, <2>1 DEF Migrated0004, SamePeople
<1> QED
  BY <1>1, <1>2

SameBut(x, z, fields) ==
    /\ "applied" \in fields \/ z.applied = x.applied
    /\ "altered" \in fields \/ z.altered = x.altered
    /\ "doc" \in fields \/ z.doc = x.doc
    /\ "mirror" \in fields \/ z.mirror = x.mirror
    /\ "comments" \in fields \/ z.comments = x.comments
    /\ "jsonFile" \in fields \/ z.jsonFile = x.jsonFile

LEMMA FileChanges ==
    ASSUME NEW x, IsFile(x), NEW y
    PROVE  /\ LET z == [x EXCEPT !.applied = y]
              IN  IsFile(z) /\ z.applied = y /\ SameBut(x, z, {"applied"})
           /\ LET z == [x EXCEPT !.mirror = y]
              IN  IsFile(z) /\ z.mirror = y /\ SameBut(x, z, {"mirror"})
           /\ LET z == [x EXCEPT !.comments = y]
              IN  IsFile(z) /\ z.comments = y /\ SameBut(x, z, {"comments"})
           /\ y \in BOOLEAN => LET z == [x EXCEPT !.altered = y]
                               IN  IsFile(z) /\ z.altered = y /\ SameBut(x, z, {"altered"})
           /\ y \in UserDocuments \cup {NoDocument} =>
                  LET z == [x EXCEPT !.doc = y] IN IsFile(z) /\ z.doc = y /\ SameBut(x, z, {"doc"})
           /\ y \in {"none", "there", "archived"} =>
                  LET z == [x EXCEPT !.jsonFile = y] IN IsFile(z) /\ z.jsonFile = y /\ SameBut(x, z, {"jsonFile"})
<1>1. LET z == [x EXCEPT !.applied = y] IN IsFile(z) /\ z.applied = y /\ SameBut(x, z, {"applied"})
  BY DEF IsFile, SameBut
<1>2. LET z == [x EXCEPT !.mirror = y] IN IsFile(z) /\ z.mirror = y /\ SameBut(x, z, {"mirror"})
  BY DEF IsFile, SameBut
<1>3. LET z == [x EXCEPT !.comments = y] IN IsFile(z) /\ z.comments = y /\ SameBut(x, z, {"comments"})
  BY DEF IsFile, SameBut
<1>4. y \in BOOLEAN => LET z == [x EXCEPT !.altered = y]
                       IN  IsFile(z) /\ z.altered = y /\ SameBut(x, z, {"altered"})
  BY DEF IsFile, SameBut
<1>5. y \in UserDocuments \cup {NoDocument} =>
          LET z == [x EXCEPT !.doc = y] IN IsFile(z) /\ z.doc = y /\ SameBut(x, z, {"doc"})
  BY DEF IsFile, SameBut
<1>6. y \in {"none", "there", "archived"} =>
          LET z == [x EXCEPT !.jsonFile = y] IN IsFile(z) /\ z.jsonFile = y /\ SameBut(x, z, {"jsonFile"})
  BY DEF IsFile, SameBut
<1> QED
  BY <1>1, <1>2, <1>3, <1>4, <1>5, <1>6

LEMMA EmptyDocument ==
    /\ Fresh0 \in UserDocuments /\ Fresh0.schema = 3 /\ Fresh0.users = <<>> /\ Fresh0.identities = <<>>
    /\ PeopleDiffer(Fresh0) /\ AllSettled(Fresh0) /\ FoolsPromoted(Fresh0)
<1>1. Fresh0 \in UserDocuments
  BY DEF Fresh0, UserDocuments
<1>2. Fresh0.schema = 3 /\ Fresh0.users = <<>> /\ Fresh0.identities = <<>>
  BY DEF Fresh0
<1>3. DOMAIN Fresh0.users = {} /\ DOMAIN Fresh0.identities = {}
  BY <1>2
<1> QED
  BY <1>1, <1>2, <1>3 DEF PeopleDiffer, NamesDiffer, LocalsDiffer, AllSettled, FoolsPromoted

LEMMA MemberOf ==
    ASSUME NEW u \in People, NEW name \in Usernames \cup {NoUsername}
    PROVE  /\ Member(u, name) \in Members /\ Member(u, name).id = u.id
           /\ Member(u, name).username = name
  BY DEF Member, Members, People

LEMMA OldDocument ==
    /\ LegacyDocument \in UserDocuments /\ LegacyDocument.schema = 3 /\ PeopleDiffer(LegacyDocument)
    /\ IdsOf(LegacyDocument) = LegacyIds
<1> DEFINE us == [i \in DOMAIN Legacy |-> Member(Legacy[i], Legacy[i].username)]
           e == [Fresh0 EXCEPT !.users = us]
<1>1. \A i \in DOMAIN Legacy : Legacy[i] \in People /\ Legacy[i].username \in Usernames \cup {NoUsername}
  <2>1. Legacy \in Seq(People)
    BY StartUpAssumption
  <2>2. \A i \in DOMAIN Legacy : Legacy[i] \in People
    BY <2>1
  <2> QED
    BY <2>2 DEF People
<1>2. /\ DOMAIN us = DOMAIN Legacy
      /\ \A i \in DOMAIN Legacy : us[i] \in Members /\ us[i].id = Legacy[i].id
                                  /\ us[i].username = Legacy[i].username
  BY <1>1, MemberOf
<1>3. us \in Seq(Members)
  <2>1. DOMAIN Legacy = 1..Len(Legacy) /\ Len(Legacy) \in Nat
    BY StartUpAssumption
  <2> HIDE DEF us
  <2>2. us \in [1..Len(Legacy) -> Members]
    <3>1. us = [i \in DOMAIN Legacy |-> us[i]]
      BY DEF us
    <3> QED
      BY <1>2, <2>1, <3>1
  <2> QED
    BY <2>1, <2>2
<1> HIDE DEF us
<1>4. e \in UserDocuments /\ e.schema = 3 /\ e.users = us /\ e.identities = <<>>
  BY <1>3, EmptyDocument, DocumentIs DEF UserDocuments
<1>5. LegacyDocument = e
  BY DEF LegacyDocument, us
<1> HIDE DEF e
<1>6. DOMAIN e.identities = {}
  BY <1>4
<1>7. LocalsDiffer(e)
  BY <1>6 DEF LocalsDiffer
<1>8. NamesDiffer(e)
  BY <1>2, <1>4, StartUpAssumption DEF NamesDiffer
<1>9. IdsOf(e) = LegacyIds
  BY <1>2, <1>4 DEF IdsOf, LegacyIds
<1> QED
  BY <1>4, <1>5, <1>7, <1>8, <1>9 DEF PeopleDiffer

\* The document with one user more, whose name nobody has and whose identities are not local.
Joined(d, u, username, identities) ==
    [d EXCEPT !.users = Append(@, Member(u, username)), !.identities = @ \o identities]

LEMMA JoinedKeeps ==
    ASSUME NEW d \in UserDocuments, PeopleDiffer(d), NEW u \in Newcomers,
           NEW name \in Usernames \cup {NoUsername}, name = NoUsername \/ name \notin Taken(d),
           NEW more, more = <<>> \/ more = <<<<u.id, "github">>>>
    PROVE  LET e == Joined(d, u, name, more)
           IN  /\ e \in UserDocuments /\ e.schema = d.schema /\ PeopleDiffer(e)
               /\ IdsOf(d) \subseteq IdsOf(e)
               /\ AllSettled(d) => AllSettled(e)
               /\ FoolsPromoted(d) => FoolsPromoted(e)
<1> DEFINE m == Member(u, name)
           us == Append(d.users, m)
           N == Len(d.users)
           ids == d.identities \o more
           e == [d EXCEPT !.users = us, !.identities = ids]
<1>1. u \in People /\ u.id \in STRING /\ u.id \notin LegacyIds
  BY StartUpAssumption DEF People, LegacyIds
<1>2. m \in Members /\ m.id = u.id /\ m.username = name
  BY <1>1, MemberOf
<1> HIDE DEF m
<1>3. /\ us \in Seq(Members) /\ N \in Nat /\ DOMAIN d.users = 1..N /\ DOMAIN us = 1..N + 1
      /\ us[N + 1] = m /\ \A j \in 1..N : us[j] = d.users[j]
  BY <1>2, DocumentIs
<1> DEFINE I == STRING \X {"local", "github"}
           K == Len(d.identities)
<1>4. /\ ids \in Seq(I) /\ K \in Nat /\ DOMAIN d.identities = 1..K
      /\ \A p \in DOMAIN ids : (p \in 1..K /\ ids[p] = d.identities[p]) \/ (p \notin 1..K /\ ids[p][2] = "github")
      /\ \A p \in 1..K : p \in DOMAIN ids
  <2>1. d.identities \in Seq(I)
    BY DocumentIs
  <2> DEFINE l == d.identities
             x == <<u.id, "github">>
  <2>2. K \in Nat /\ DOMAIN l = 1..K
    BY <2>1
  <2>3. CASE more = <<>>
    <3>1. ids = l
      BY <2>1, <2>3
    <3> QED
      BY <2>1, <2>2, <3>1
  <2>4. CASE more = <<x>>
    <3>1. x \in I /\ x[2] = "github"
      BY <1>1
    <3> HIDE DEF x, I, l
    <3>2. l \o <<x>> \in Seq(I) /\ Len(l \o <<x>>) = K + 1
      BY <2>1, <3>1 DEF l
    <3>3. \A p \in 1..K + 1 : (l \o <<x>>)[p] = IF p \in 1..K THEN l[p] ELSE x
      BY <2>1, <2>2, <3>1 DEF l
    <3>4. DOMAIN (l \o <<x>>) = 1..K + 1
      BY <3>2, <2>2
    <3>5. \A p \in 1..K : p \in 1..K + 1
      BY <2>2
    <3>6. ids = l \o <<x>>
      BY <2>4 DEF l
    <3> QED
      BY <2>2, <3>1, <3>2, <3>3, <3>4, <3>5, <3>6 DEF l
  <2> QED
    BY <2>3, <2>4
<1> HIDE DEF us, ids
<1>5. e \in UserDocuments /\ e.schema = d.schema /\ e.users = us /\ e.identities = ids
  BY <1>3, <1>4, DocumentIs DEF UserDocuments
<1>6. Joined(d, u, name, more) = e
  BY DEF Joined, us, ids, m
<1> HIDE DEF e, N, K
<1>7. (\A j \in 1..N + 1 : j \in 1..N \/ j = N + 1) /\ N + 1 \in 1..N + 1 /\ N + 1 \notin 1..N
      /\ \A j \in 1..N : j \in 1..N + 1
  BY <1>3
<1>8. NamesDiffer(e)
  <2> SUFFICES ASSUME NEW j \in 1..N + 1, NEW k \in 1..N + 1, us[j].username = us[k].username, j # k,
                      us[j].username # NoUsername
               PROVE  FALSE
    BY <1>3, <1>5 DEF NamesDiffer
  <2>1. CASE j \in 1..N /\ k \in 1..N
    BY <1>3, <2>1 DEF PeopleDiffer, NamesDiffer
  <2>2. CASE j \notin 1..N
    <3>1. us[j].username = name /\ k \in 1..N /\ d.users[k].username = name
      BY <1>2, <1>3, <1>7, <2>2
    <3> QED
      BY <1>2, <1>3, <3>1 DEF Taken
  <2>3. CASE k \notin 1..N
    <3>1. us[k].username = name /\ j \in 1..N /\ d.users[j].username = name
      BY <1>2, <1>3, <1>7, <2>3
    <3> QED
      BY <1>2, <1>3, <3>1 DEF Taken
  <2> QED
    BY <2>1, <2>2, <2>3
<1>9. LocalsDiffer(e)
  BY <1>4, <1>5 DEF LocalsDiffer, PeopleDiffer
<1>10. \A i : HasLocal(d, i) => HasLocal(e, i)
  BY <1>4, <1>5 DEF HasLocal
<1>11. IdsOf(d) \subseteq IdsOf(e)
  BY <1>3, <1>5, <1>7 DEF IdsOf
<1>12. ASSUME AllSettled(d), NEW j \in 1..N + 1, us[j].id \in LegacyIds PROVE Migrant(e, j)
  <2>1. j \in 1..N /\ us[j] = d.users[j]
    BY <1>1, <1>2, <1>3, <1>7, <1>12
  <2>2. Migrant(d, j)
    BY <1>3, <1>12, <2>1 DEF AllSettled
  <2> QED
    BY <1>5, <1>10, <2>1, <2>2 DEF Migrant
<1>13. ASSUME FoolsPromoted(d), NEW j \in 1..N + 1, us[j].id \in LegacyIds, us[j].fool PROVE us[j].admin
  <2>1. j \in 1..N /\ us[j] = d.users[j]
    BY <1>1, <1>2, <1>3, <1>7, <1>13
  <2> QED
    BY <1>3, <1>13, <2>1 DEF FoolsPromoted
<1>14. /\ AllSettled(d) => AllSettled(e)
       /\ FoolsPromoted(d) => FoolsPromoted(e)
  BY <1>3, <1>5, <1>12, <1>13 DEF AllSettled, FoolsPromoted
<1> QED
  BY <1>5, <1>6, <1>8, <1>9, <1>11, <1>14 DEF PeopleDiffer

LEMMA PromotedKeeps ==
    ASSUME NEW d \in UserDocuments, PeopleDiffer(d)
    PROVE  LET e == Promoted(d)
           IN  /\ e \in UserDocuments /\ e.schema = d.schema /\ PeopleDiffer(e)
               /\ IdsOf(e) = IdsOf(d) /\ FoolsPromoted(e)
               /\ AllSettled(d) => AllSettled(e)
<1> DEFINE us == [i \in DOMAIN d.users |-> [d.users[i] EXCEPT !.admin = @ \/ d.users[i].fool]]
           e == [d EXCEPT !.users = us]
<1>1. ASSUME NEW i \in DOMAIN d.users
      PROVE  /\ us[i] \in Members /\ us[i].id = d.users[i].id /\ us[i].username = d.users[i].username
             /\ us[i].password = d.users[i].password /\ us[i].fool = d.users[i].fool
             /\ us[i].fool => us[i].admin
  <2>1. d.users[i] \in Members
    BY DocumentIs
  <2> DEFINE u == d.users[i]
             v == [u EXCEPT !.admin = @ \/ u.fool]
  <2>2. us[i] = v
    OBVIOUS
  <2> HIDE DEF u
  <2>4. (u.admin \/ u.fool) \in BOOLEAN
    OBVIOUS
  <2>5. v \in Members /\ v.id = u.id /\ v.username = u.username /\ v.password = u.password /\ v.fool = u.fool
    BY <2>1, <2>4 DEF Members, u
  <2>6. v.admin = (u.admin \/ u.fool)
    BY <2>1 DEF Members, u
  <2> HIDE DEF v, us
  <2> QED
    BY <2>2, <2>5, <2>6 DEF u
<1>2. DOMAIN us = DOMAIN d.users /\ us = [i \in DOMAIN d.users |-> us[i]]
  OBVIOUS
<1>3. us \in Seq(Members)
  <2>1. DOMAIN d.users = 1..Len(d.users) /\ Len(d.users) \in Nat
    BY DocumentIs
  <2> HIDE DEF us
  <2>2. us \in [1..Len(d.users) -> Members]
    BY <1>1, <1>2, <2>1
  <2> QED
    BY <2>1, <2>2
<1> HIDE DEF us
<1>4. e \in UserDocuments /\ e.schema = d.schema /\ e.users = us /\ e.identities = d.identities
  BY <1>3, DocumentIs DEF UserDocuments
<1>5. Promoted(d) = e
  BY DEF Promoted, us
<1> HIDE DEF e
<1>6. NamesDiffer(e) /\ LocalsDiffer(e)
  BY <1>1, <1>2, <1>4 DEF PeopleDiffer, NamesDiffer, LocalsDiffer
<1>7. IdsOf(e) = IdsOf(d)
  <2>1. DOMAIN e.users = DOMAIN d.users /\ \A i \in DOMAIN d.users : e.users[i].id = d.users[i].id
    BY <1>1, <1>2, <1>4
  <2>2. IdsOf(e) \subseteq IdsOf(d)
    BY <2>1 DEF IdsOf
  <2>3. IdsOf(d) \subseteq IdsOf(e)
    BY <2>1 DEF IdsOf
  <2> QED
    BY <2>2, <2>3
<1>8. FoolsPromoted(e)
  BY <1>1, <1>2, <1>4 DEF FoolsPromoted
<1>9. \A i : HasLocal(d, i) <=> HasLocal(e, i)
  BY <1>4 DEF HasLocal
<1>10. AllSettled(d) => AllSettled(e)
  BY <1>1, <1>2, <1>4, <1>9 DEF AllSettled, Migrant
<1> QED
  BY <1>4, <1>5, <1>6, <1>7, <1>8, <1>10 DEF PeopleDiffer

LEMMA ServerStarts == StartUpInit => StartInv
<1> SUFFICES ASSUME StartUpInit PROVE StartInv
  OBVIOUS
<1>1. PICK file \in {"none", "there"} :
          database = [applied |-> <<>>, altered |-> FALSE, doc |-> NoDocument,
                      mirror |-> {}, comments |-> {}, jsonFile |-> file]
  BY DEF StartUpInit
<1>2. IsFile(database) /\ DOMAIN database.applied = {} /\ ~database.altered /\ database.doc = NoDocument
      /\ database.mirror = {} /\ database.comments = {} /\ database.jsonFile \in {"none", "there"}
  BY <1>1 DEF IsFile
<1>3. build \in Builds
  <2> DEFINE T == {Len(b) : b \in Builds}
  <2>1. T \in SUBSET Nat /\ T # {}
    <3>1. \A b \in Builds : b \in Seq(STRING)
      BY StartUpAssumption
    <3>2. \A b \in Builds : Len(b) \in Nat
      BY <3>1
    <3> QED
      BY <3>2, StartUpAssumption
  <2> HIDE DEF T
  <2>2. PICK x \in T : \A y \in T : x <= y
    BY <2>1, LeastNatural
  <2>3. PICK b \in Builds : Len(b) = x
    BY DEF T
  <2>4. \A c \in Builds : Len(c) \in T
    BY DEF T
  <2>5. \A c \in Builds : Len(c) >= Len(b)
    BY <2>1, <2>2, <2>3, <2>4
  <2>6. build = CHOOSE i \in Builds : \A c \in Builds : Len(c) >= Len(i)
    BY DEF StartUpInit
  <2> QED
    BY <2>3, <2>5, <2>6
<1>4. stage = "down" /\ version = 1 /\ emptied = FALSE /\ unfinished = FALSE
  BY DEF StartUpInit
<1>5. StartTypeOK
  <2>1. version \in Nat \ {0}
    BY <1>4
  <2>2. emptied \in BOOLEAN /\ unfinished \in BOOLEAN
    BY <1>4, Zenon
  <2> QED
    BY <1>2, <1>3, <1>4, <2>1, <2>2 DEF StartTypeOK, StartStages, Opening, TakingOver
<1>6. SchemaInv /\ PeopleInv
  BY <1>2, <1>4 DEF SchemaInv, PeopleInv, Opening
<1>7. LegacyInv
  BY <1>2, <1>4 DEF LegacyInv, TakingOver, Serving
<1> QED
  BY <1>5, <1>6, <1>7 DEF StartInv

LEMMA OpenKeeps == ASSUME StartInv, OpenDatabase PROVE StartInv'
<1>1. /\ stage = "down" /\ stage' = "schema" /\ version' = 1 /\ working' = database /\ unfinished' = FALSE
      /\ database' = database /\ build' = build /\ emptied' = emptied
  BY DEF OpenDatabase
<1>2. StartTypeOK'
  <2>1. version' \in Nat \ {0}
    BY <1>1
  <2>2. unfinished' \in BOOLEAN
    BY <1>1, Zenon
  <2> QED
    BY <1>1, <2>1, <2>2 DEF StartInv, StartTypeOK, StartStages
<1>3. SchemaInv'
  BY <1>1 DEF StartInv, SchemaInv, Opening
<1>4. LegacyInv'
  BY <1>1 DEF StartInv, LegacyInv, TakingOver, Serving
<1>5. PeopleInv'
  BY <1>1 DEF StartInv, PeopleInv
<1> QED
  BY <1>2, <1>3, <1>4, <1>5 DEF StartInv

\* The process ends with what is committed.
LEMMA FailingKeeps ==
    ASSUME StartInv, stage' \in {"failed", "down"}, database' = database,
           build' \in Builds, emptied' = emptied, version' = version, unfinished' = unfinished
    PROVE  StartInv'
<1>1. StartTypeOK'
  BY DEF StartInv, StartTypeOK, StartStages, Opening, TakingOver
<1>2. SchemaInv'
  BY DEF StartInv, SchemaInv, Opening
<1>3. LegacyInv'
  BY DEF StartInv, LegacyInv, TakingOver, Serving
<1>4. PeopleInv'
  BY DEF StartInv, PeopleInv
<1> QED
  BY <1>1, <1>2, <1>3, <1>4 DEF StartInv

LEMMA AbortKeeps == ASSUME StartInv, Abort PROVE StartInv'
<1>1. build \in Builds
  BY DEF StartInv, StartTypeOK
<1> QED
  BY <1>1, FailingKeeps DEF Abort, To

LEMMA SchemaKeeps == ASSUME StartInv, SchemaStep PROVE StartInv'
<1> DEFINE next == Executed(version)
<1>1. stage = "schema" /\ version <= Len(build) /\ version \in Nat \ {0} /\ IsFile(working)
      /\ build \in Builds /\ IsFile(database)
  BY DEF SchemaStep, StartInv, StartTypeOK, Opening
<1>2. CASE Abort
  BY <1>2, AbortKeeps
<1>3. version \in DOMAIN build /\ DOMAIN build = 1..Len(build) /\ Len(build) \in Nat
  <2>1. build \in Seq(STRING)
    BY <1>1, StartUpAssumption
  <2> QED
    BY <1>1, <2>1
<1>4. /\ working.altered <=> AlterVersion \in DOMAIN working.applied
      /\ \A v \in 1..version - 1 : v \in DOMAIN working.applied /\ working.applied[v] = build[v]
  BY <1>1 DEF StartInv, SchemaInv, Opening
<1>5. CASE /\ ~Unmet(version) /\ version \in DOMAIN working.applied
           /\ To("schema", database, working) /\ version' = version + 1
  <2>1. /\ stage' = "schema" /\ working' = working /\ version' = version + 1
        /\ unfinished' = unfinished /\ database' = database /\ build' = build /\ emptied' = emptied
    BY <1>5 DEF To
  <2>2. working.applied[version] = build[version]
    BY <1>5 DEF Unmet
  <2>3. \A v \in 1..version' - 1 : v \in 1..version - 1 \/ v = version
    BY <1>1, <2>1
  <2>4. StartTypeOK'
    BY <1>1, <2>1 DEF StartInv, StartTypeOK, StartStages
  <2>5. SchemaInv'
    BY <1>1, <1>4, <1>5, <2>1, <2>2, <2>3 DEF StartInv, SchemaInv, Opening
  <2>6. LegacyInv'
    BY <1>1, <2>1 DEF StartInv, LegacyInv, TakingOver, Serving
  <2>7. PeopleInv'
    BY <1>1, <2>1 DEF StartInv, PeopleInv
  <2> QED
    BY <2>4, <2>5, <2>6, <2>7 DEF StartInv
<1>6. CASE /\ ~Unmet(version) /\ version \notin DOMAIN working.applied
           /\ To("note", Kept(next), next) /\ version' = version
  <2>1. /\ stage' = "note" /\ working' = next /\ version' = version
        /\ unfinished' = unfinished /\ database' = database /\ build' = build /\ emptied' = emptied
    BY <1>6 DEF To, Kept
  <2>2. version = AlterVersion => ~working.altered
    BY <1>6 DEF Unmet
  <2> DEFINE alter == working.altered \/ version = AlterVersion
  <2>3. IsFile(next) /\ next.altered = alter /\ SameBut(working, next, {"altered"})
    <3>1. alter \in BOOLEAN
      OBVIOUS
    <3> HIDE DEF alter
    <3>2. LET z == [working EXCEPT !.altered = alter]
          IN  IsFile(z) /\ z.altered = alter /\ SameBut(working, z, {"altered"})
      BY <1>1, <3>1, FileChanges
    <3>3. next = [working EXCEPT !.altered = alter]
      BY DEF Executed, alter
    <3> QED
      BY <3>2, <3>3
  <2>4. /\ next.applied = working.applied /\ next.doc = working.doc /\ next.mirror = working.mirror
        /\ next.comments = working.comments /\ next.jsonFile = working.jsonFile
    BY <2>3 DEF SameBut
  <2> HIDE DEF next
  <2>5. StartTypeOK'
    BY <1>1, <2>1, <2>3 DEF StartInv, StartTypeOK, StartStages
  <2>6. SchemaInv'
    <3>1. stage' \in Opening /\ stage' # "schema" /\ stage \in Opening
      BY <1>1, <2>1 DEF Opening
    <3>2. working'.altered <=> (version' = AlterVersion \/ AlterVersion \in DOMAIN working'.applied)
      BY <1>4, <2>1, <2>3, <2>4
    <3> QED
      BY <1>3, <1>4, <1>6, <2>1, <2>4, <3>1, <3>2 DEF StartInv, SchemaInv
  <2>7. LegacyInv'
    BY <1>1, <2>1 DEF StartInv, LegacyInv, TakingOver, Serving
  <2>8. PeopleInv'
    BY <1>1, <2>1 DEF StartInv, PeopleInv
  <2> QED
    BY <2>5, <2>6, <2>7, <2>8 DEF StartInv
<1> HIDE DEF next
<1>7. \/ Abort
      \/ /\ ~Unmet(version) /\ version \in DOMAIN working.applied
         /\ To("schema", database, working) /\ version' = version + 1
      \/ /\ ~Unmet(version) /\ version \notin DOMAIN working.applied
         /\ To("note", Kept(next), next) /\ version' = version
  BY DEF SchemaStep, next
<1> QED
  BY <1>2, <1>5, <1>6, <1>7

LEMMA NoteKeeps == ASSUME StartInv, NoteVersion PROVE StartInv'
<1>1. /\ stage = "note" /\ version \in Nat \ {0} /\ IsFile(working) /\ build \in Builds
      /\ version \in DOMAIN build /\ version \notin DOMAIN working.applied
      /\ working.altered <=> (version = AlterVersion \/ AlterVersion \in DOMAIN working.applied)
      /\ \A v \in 1..version - 1 : v \in DOMAIN working.applied /\ working.applied[v] = build[v]
  BY DEF NoteVersion, StartInv, StartTypeOK, SchemaInv, Opening
<1>2. CASE Abort
  BY <1>2, AbortKeeps
<1> DEFINE next == Noted(version)
           app == [w \in DOMAIN working.applied \cup {version} |->
                       IF w = version THEN build[version] ELSE working.applied[w]]
<1>3. CASE To("schema", Kept(next), next) /\ version' = version + 1
  <2>1. /\ stage' = "schema" /\ working' = next /\ version' = version + 1
        /\ unfinished' = unfinished /\ database' = database /\ build' = build /\ emptied' = emptied
    BY <1>3 DEF To, Kept
  <2>2. /\ DOMAIN app = DOMAIN working.applied \cup {version} /\ app[version] = build[version]
        /\ \A w \in DOMAIN working.applied : w # version => app[w] = working.applied[w]
    OBVIOUS
  <2> HIDE DEF app
  <2>3. IsFile(next) /\ next.applied = app /\ SameBut(working, next, {"applied"})
    <3>1. next = [working EXCEPT !.applied = app]
      BY DEF Noted, app
    <3>2. LET z == [working EXCEPT !.applied = app]
          IN  IsFile(z) /\ z.applied = app /\ SameBut(working, z, {"applied"})
      <4>1. IsFile(working)
        BY <1>1
      <4> QED
        BY <4>1 DEF IsFile, SameBut
    <3> HIDE DEF next
    <3> QED
      BY <3>1, <3>2
  <2>4. /\ next.altered = working.altered /\ next.doc = working.doc /\ next.mirror = working.mirror
        /\ next.comments = working.comments /\ next.jsonFile = working.jsonFile
    BY <2>3 DEF SameBut
  <2> HIDE DEF next
  <2>5. \A v \in 1..version' - 1 : v \in 1..version - 1 \/ v = version
    BY <1>1, <2>1
  <2>6. StartTypeOK'
    BY <1>1, <2>1, <2>3 DEF StartInv, StartTypeOK, StartStages
  <2>7. SchemaInv'
    <3>1. \A v \in 1..version' - 1 : v \in DOMAIN working'.applied /\ working'.applied[v] = build'[v]
      BY <1>1, <2>1, <2>2, <2>3, <2>5
    <3>2. working'.altered <=> AlterVersion \in DOMAIN working'.applied
      BY <1>1, <2>1, <2>2, <2>3, <2>4
    <3>3. stage' \in Opening /\ stage' # "note" /\ stage \in Opening
      BY <1>1, <2>1 DEF Opening
    <3> QED
      BY <2>1, <2>4, <3>1, <3>2, <3>3 DEF StartInv, SchemaInv
  <2>8. LegacyInv'
    BY <1>1, <2>1 DEF StartInv, LegacyInv, TakingOver, Serving
  <2>9. PeopleInv'
    BY <1>1, <2>1 DEF StartInv, PeopleInv
  <2> QED
    BY <2>6, <2>7, <2>8, <2>9 DEF StartInv
<1> HIDE DEF next
<1> QED
  BY <1>2, <1>3 DEF NoteVersion, next

LEMMA CommitKeeps == ASSUME StartInv, CommitSchema PROVE StartInv'
<1>1. /\ stage = "schema" /\ version > Len(build) /\ version \in Nat \ {0}
      /\ IsFile(working) /\ build \in Builds
      /\ working.altered <=> AlterVersion \in DOMAIN working.applied
      /\ \A v \in 1..version - 1 : v \in DOMAIN working.applied /\ working.applied[v] = build[v]
      /\ working.doc = database.doc /\ working.mirror = database.mirror
      /\ working.comments = database.comments /\ working.jsonFile = database.jsonFile
  BY DEF CommitSchema, StartInv, StartTypeOK, SchemaInv, Opening
<1>2. CASE Abort
  BY <1>2, AbortKeeps
<1>3. CASE To("legacy", working, NoDocument) /\ version' = version
  <2>1. /\ stage' = "legacy" /\ version' = version /\ database' = working
        /\ unfinished' = unfinished /\ build' = build /\ emptied' = emptied
    BY <1>3 DEF To
  <2>2. \A v \in DOMAIN build : v \in 1..version - 1
    <3>1. build \in Seq(STRING)
      BY <1>1, StartUpAssumption
    <3> QED
      BY <1>1, <3>1
  <2>3. StartTypeOK'
    BY <1>1, <2>1 DEF StartInv, StartTypeOK, StartStages, Opening, TakingOver
  <2>4. SchemaInv'
    BY <1>1, <2>1, <2>2 DEF StartInv, SchemaInv, Opening
  <2>5. LegacyInv'
    BY <1>1, <2>1 DEF StartInv, LegacyInv, TakingOver, Serving
  <2>6. PeopleInv'
    BY <1>1, <2>1 DEF StartInv, PeopleInv
  <2> QED
    BY <2>3, <2>4, <2>5, <2>6 DEF StartInv
<1> QED
  BY <1>2, <1>3 DEF CommitSchema

\* A step between two stages of a start whose schema is committed, which leaves the schema.
AfterSchema == StartStages \ (Opening \cup {"down"})
SchemaLeft ==
    /\ database'.applied = database.applied /\ database'.altered = database.altered
    /\ build' = build /\ version' = version
    /\ stage \notin Opening \cup {"down", "failed"} /\ stage' \in AfterSchema

LEMMA SchemaStays == ASSUME StartInv, SchemaLeft PROVE SchemaInv'
  BY DEF StartInv, SchemaInv, SchemaLeft, Opening, AfterSchema

LEMMA BeginLegacyKeeps == ASSUME StartInv, BeginLegacy PROVE StartInv'
<1>1. stage = "legacy" /\ version' = version /\ IsFile(database) /\ build \in Builds
      /\ version \in Nat \ {0} /\ emptied \in BOOLEAN /\ unfinished \in BOOLEAN
  BY DEF BeginLegacy, StartInv, StartTypeOK
<1>2. CASE Abort
  BY <1>2, AbortKeeps
<1> DEFINE next == InDocument(LegacyDocument)
<1>3. CASE database.jsonFile = "there" /\ database.doc = NoDocument /\ To("mirror", Kept(next), next)
  <2>1. /\ stage' = "mirror" /\ working' = next /\ database' = database
        /\ unfinished' = unfinished /\ build' = build /\ emptied' = emptied
    BY <1>3 DEF To, Kept
  <2>2. next = [database EXCEPT !.doc = LegacyDocument]
    BY DEF InDocument
  <2>3. IsFile(next) /\ next.doc = LegacyDocument /\ SameBut(database, next, {"doc"})
    <3>1. IsFile(database) /\ LegacyDocument \in UserDocuments \cup {NoDocument}
      BY <1>1, OldDocument
    <3> QED
      BY <2>2, <3>1 DEF IsFile, SameBut
  <2>4. StartTypeOK'
    <3> HIDE DEF next
    <3> QED
      BY <1>1, <2>1, <2>3 DEF StartTypeOK, StartStages
  <2>5. SchemaLeft
    BY <1>1, <2>1 DEF SchemaLeft, Opening, AfterSchema, StartStages
  <2>6. next = [database EXCEPT !.doc = LegacyDocument, !.mirror = next.mirror]
    <3>1. next = [database EXCEPT !.doc = LegacyDocument, !.mirror = database.mirror]
      BY <1>1, <2>2 DEF IsFile
    <3>2. next.mirror = database.mirror
      BY <2>3 DEF SameBut
    <3> QED
      BY <3>1, <3>2
  <2> HIDE DEF next
  <2>7. LegacyInv'
    <3>1. ~Serving' /\ stage' \in TakingOver /\ stage' # "comments" /\ stage' # "archive"
      BY <2>1 DEF Serving, TakingOver
    <3> QED
      BY <1>3, <2>1, <2>6, <3>1 DEF StartInv, LegacyInv
  <2>8. PeopleInv'
    BY <1>1, <2>1 DEF StartInv, PeopleInv
  <2> QED
    BY <2>4, <2>5, <2>7, <2>8, SchemaStays DEF StartInv
<1>4. CASE ~(database.jsonFile = "there" /\ database.doc = NoDocument) /\ To("listening", database, NoDocument)
  <2>1. /\ stage' = "listening" /\ database' = database
        /\ unfinished' = unfinished /\ build' = build /\ emptied' = emptied
    BY <1>4 DEF To
  <2>2. StartTypeOK'
    BY <1>1, <2>1 DEF StartTypeOK, StartStages, Opening, TakingOver
  <2>3. SchemaLeft
    BY <1>1, <2>1 DEF SchemaLeft, Opening, AfterSchema, StartStages
  <2>4. LegacyInv'
    <3>1. database.jsonFile # "none" => database.doc # NoDocument
      BY <1>1, <1>4 DEF StartInv, LegacyInv, IsFile
    <3> QED
      BY <1>1, <2>1, <3>1 DEF StartInv, LegacyInv, TakingOver
  <2>5. PeopleInv'
    BY <1>1, <2>1 DEF StartInv, PeopleInv
  <2> QED
    BY <2>2, <2>3, <2>4, <2>5, SchemaStays DEF StartInv
<1> HIDE DEF next
<1> QED
  BY <1>2, <1>3, <1>4 DEF BeginLegacy, LegacyFileThere, next

LEMMA ImportUsersKeeps == ASSUME StartInv, ImportUsers PROVE StartInv'
<1>1. stage = "mirror" /\ version' = version /\ IsFile(database) /\ IsFile(working) /\ build \in Builds
      /\ version \in Nat \ {0} /\ emptied \in BOOLEAN /\ unfinished \in BOOLEAN
  BY DEF ImportUsers, StartInv, StartTypeOK, TakingOver
<1>2. CASE Abort
  BY <1>2, AbortKeeps
<1> DEFINE next == [working EXCEPT !.mirror = LegacyIds]
<1>3. CASE To("comments", database, next)
  <2>1. /\ stage' = "comments" /\ working' = next /\ database' = database
        /\ unfinished' = unfinished /\ build' = build /\ emptied' = emptied
    BY <1>3 DEF To
  <2>2. IsFile(next) /\ next.mirror = LegacyIds
    BY <1>1 DEF IsFile
  <2>3. /\ database.doc = NoDocument /\ database.jsonFile = "there"
        /\ working = [database EXCEPT !.doc = LegacyDocument, !.mirror = working.mirror]
    BY <1>1 DEF StartInv, LegacyInv, TakingOver
  <2>4. next = [database EXCEPT !.doc = LegacyDocument, !.mirror = LegacyIds]
    BY <1>1, <2>3 DEF IsFile
  <2>5. StartTypeOK'
    <3> HIDE DEF next
    <3> QED
      BY <1>1, <2>1, <2>2 DEF StartTypeOK, StartStages
  <2>6. SchemaLeft
    BY <1>1, <2>1 DEF SchemaLeft, Opening, AfterSchema, StartStages
  <2> HIDE DEF next
  <2>7. LegacyInv'
    <3>1. ~Serving' /\ stage' = "comments"
      BY <2>1 DEF Serving
    <3> QED
      BY <2>1, <2>2, <2>3, <2>4, <3>1 DEF StartInv, LegacyInv
  <2>8. PeopleInv'
    BY <1>1, <2>1 DEF StartInv, PeopleInv
  <2> QED
    BY <2>5, <2>6, <2>7, <2>8, SchemaStays DEF StartInv
<1>4. Abort \/ To("comments", database, next)
  BY DEF ImportUsers, Kept, LegacyIds
<1> QED
  BY <1>2, <1>3, <1>4

LEMMA ImportCommentsKeeps == ASSUME StartInv, ImportComments PROVE StartInv'
<1>1. stage = "comments" /\ version' = version /\ IsFile(database) /\ IsFile(working) /\ build \in Builds
      /\ version \in Nat \ {0} /\ emptied \in BOOLEAN /\ unfinished \in BOOLEAN
  BY DEF ImportComments, StartInv, StartTypeOK, TakingOver
<1>2. CASE Abort
  BY <1>2, AbortKeeps
<1> DEFINE next == [working EXCEPT !.comments = LegacyComments]
<1>3. CASE To("archive", next, NoDocument)
  <2>1. /\ stage' = "archive" /\ database' = next
        /\ unfinished' = unfinished /\ build' = build /\ emptied' = emptied
    BY <1>3 DEF To
  <2>2. /\ database.doc = NoDocument /\ database.jsonFile = "there" /\ working.mirror = LegacyIds
        /\ working = [database EXCEPT !.doc = LegacyDocument, !.mirror = working.mirror]
    BY <1>1 DEF StartInv, LegacyInv, TakingOver
  <2>3. next = [database EXCEPT !.doc = LegacyDocument, !.mirror = LegacyIds, !.comments = LegacyComments]
    BY <1>1, <2>2 DEF IsFile
  <2>4. LegacyDocument \in UserDocuments
    BY OldDocument
  <2>5. /\ IsFile(next) /\ next.doc = LegacyDocument /\ next.mirror = LegacyIds
        /\ next.comments = LegacyComments /\ next.jsonFile = "there"
        /\ next.applied = database.applied /\ next.altered = database.altered
    <3> HIDE DEF next
    <3> QED
      BY <1>1, <2>2, <2>3, <2>4 DEF IsFile
  <2> HIDE DEF next
  <2>6. StartTypeOK'
    BY <1>1, <2>1, <2>5 DEF StartTypeOK, StartStages, Opening, TakingOver
  <2>7. SchemaLeft
    BY <1>1, <2>1, <2>5 DEF SchemaLeft, Opening, AfterSchema, StartStages
  <2>8. LegacyDocument # NoDocument /\ LegacyIds \subseteq IdsOf(LegacyDocument)
    BY OldDocument, StartUpAssumption
  <2>9. LegacyInv'
    <3>1. ~Serving' /\ stage' \notin TakingOver
      BY <2>1 DEF Serving, TakingOver
    <3>2. /\ database'.doc # NoDocument /\ database'.comments = LegacyComments /\ database'.mirror = LegacyIds
          /\ database'.jsonFile = "there" /\ LegacyIds \subseteq IdsOf(database'.doc)
      BY <2>1, <2>5, <2>8
    <3> QED
      BY <2>1, <3>1, <3>2 DEF LegacyInv, TakingOver
  <2>10. PeopleInv'
    <3>1. PeopleDiffer(LegacyDocument) /\ LegacyDocument.schema # 4
      BY OldDocument
    <3> QED
      BY <2>1, <2>5, <3>1 DEF PeopleInv
  <2> QED
    BY <2>6, <2>7, <2>9, <2>10, SchemaStays DEF StartInv
<1> HIDE DEF next
<1> QED
  BY <1>2, <1>3 DEF ImportComments, next

LEMMA ArchiveKeeps == ASSUME StartInv, ArchiveFile PROVE StartInv'
<1>1. stage = "archive" /\ version' = version /\ IsFile(database) /\ build \in Builds
      /\ version \in Nat \ {0} /\ emptied \in BOOLEAN /\ unfinished \in BOOLEAN
  BY DEF ArchiveFile, StartInv, StartTypeOK
<1>2. CASE To("failed", database, NoDocument)
  BY <1>1, <1>2, FailingKeeps DEF To
<1> DEFINE next == [database EXCEPT !.jsonFile = "archived"]
<1>3. CASE To("listening", next, NoDocument)
  <2>1. /\ stage' = "listening" /\ database' = next
        /\ unfinished' = unfinished /\ build' = build /\ emptied' = emptied
    BY <1>3 DEF To
  <2>2. IsFile(next) /\ next.jsonFile = "archived" /\ SameBut(database, next, {"jsonFile"})
    BY <1>1 DEF IsFile, SameBut
  <2>3. /\ next.applied = database.applied /\ next.altered = database.altered /\ next.doc = database.doc
        /\ next.mirror = database.mirror /\ next.comments = database.comments
    BY <2>2 DEF SameBut
  <2> HIDE DEF next
  <2>4. StartTypeOK'
    BY <1>1, <2>1, <2>2 DEF StartTypeOK, StartStages, Opening, TakingOver
  <2>5. SchemaLeft
    BY <1>1, <2>1, <2>3 DEF SchemaLeft, Opening, AfterSchema, StartStages
  <2>6. LegacyInv'
    BY <1>1, <2>1, <2>2, <2>3 DEF StartInv, LegacyInv, TakingOver
  <2>7. PeopleInv'
    BY <1>1, <2>1, <2>3 DEF StartInv, PeopleInv
  <2> QED
    BY <2>4, <2>5, <2>6, <2>7, SchemaStays DEF StartInv
<1> HIDE DEF next
<1> QED
  BY <1>2, <1>3 DEF ArchiveFile, next

ServingStages == {"listening", "fresh", "promote", "identities", "heal", "up"}

\* An update of the document while the server serves.
LEMMA UpdateKeeps ==
    ASSUME StartInv, Serving, stage' \in ServingStages, NEW e \in UserDocuments, database' = InDocument(e),
           PeopleDiffer(e), e.schema = 4 => AllSettled(e),
           database.jsonFile # "none" /\ ~emptied' => LegacyIds \subseteq IdsOf(e),
           emptied' \in BOOLEAN, unfinished' \in BOOLEAN, build' = build, version' = version,
           stage' = "identities" /\ ~unfinished' => FoolsPromoted(e),
           stage' \in {"heal", "up"} /\ ~unfinished' => e.schema = 4 /\ FoolsPromoted(e)
    PROVE  StartInv'
<1>1. stage \in ServingStages /\ IsFile(database) /\ build \in Builds /\ version \in Nat \ {0}
  BY DEF StartInv, StartTypeOK, Serving, ServingStages
<1>2. IsFile(InDocument(e)) /\ InDocument(e).doc = e /\ SameBut(database, InDocument(e), {"doc"})
  BY <1>1 DEF IsFile, SameBut, InDocument
<1>3. /\ IsFile(database') /\ database'.doc = e
      /\ database'.applied = database.applied /\ database'.altered = database.altered
      /\ database'.mirror = database.mirror /\ database'.comments = database.comments
      /\ database'.jsonFile = database.jsonFile
  BY <1>2 DEF SameBut
<1>4. e # NoDocument
  BY StartUpAssumption
<1>5. StartTypeOK'
  BY <1>1, <1>3 DEF StartTypeOK, StartStages, ServingStages, Opening, TakingOver
<1>6. SchemaLeft
  BY <1>1, <1>3 DEF SchemaLeft, Opening, AfterSchema, StartStages, ServingStages
<1>7. LegacyInv'
  <2>1. database.jsonFile # "none" => database.comments = LegacyComments /\ database.mirror = LegacyIds
    BY DEF StartInv, LegacyInv
  <2>2. stage' \notin TakingOver /\ stage' # "comments" /\ stage' # "archive"
    BY DEF ServingStages, TakingOver
  <2> QED
    BY <1>3, <1>4, <2>1, <2>2 DEF LegacyInv
<1>8. PeopleInv'
  BY <1>3, <1>4 DEF PeopleInv
<1> QED
  BY <1>5, <1>6, <1>7, <1>8, SchemaStays DEF StartInv

\* A step of the start that leaves the database.
LEMMA PassKeeps ==
    ASSUME StartInv, Serving, stage' \in ServingStages, database' = database, emptied' = emptied,
           unfinished' \in BOOLEAN, build' = build, version' = version,
           stage' \in {"promote", "identities"} => database.doc # NoDocument,
           stage' = "identities" /\ ~unfinished' => FoolsPromoted(database.doc),
           stage' \in {"heal", "up"} /\ ~unfinished' =>
               database.doc # NoDocument /\ database.doc.schema = 4 /\ FoolsPromoted(database.doc)
    PROVE  StartInv'
<1>1. stage \in ServingStages /\ IsFile(database) /\ build \in Builds /\ version \in Nat \ {0} /\ emptied \in BOOLEAN
  BY DEF StartInv, StartTypeOK, Serving, ServingStages
<1>2. StartTypeOK'
  BY <1>1 DEF StartTypeOK, StartStages, ServingStages, Opening, TakingOver
<1>3. SchemaLeft
  BY <1>1 DEF SchemaLeft, Opening, AfterSchema, StartStages, ServingStages
<1>4. LegacyInv'
  <2>1. stage' \notin TakingOver /\ stage' # "comments" /\ stage' # "archive"
    BY DEF ServingStages, TakingOver
  <2>2. database.jsonFile # "none" => database.doc # NoDocument
    BY DEF StartInv, LegacyInv
  <2> QED
    BY <2>1, <2>2 DEF StartInv, LegacyInv
<1>5. PeopleInv'
  BY DEF StartInv, PeopleInv
<1> QED
  BY <1>2, <1>3, <1>4, <1>5, SchemaStays DEF StartInv

\* A document that is there, while the server serves.
LEMMA DocumentThere ==
    ASSUME StartInv, database.doc # NoDocument
    PROVE  /\ database.doc \in UserDocuments /\ PeopleDiffer(database.doc)
           /\ database.doc.schema = 4 => AllSettled(database.doc)
           /\ database.jsonFile # "none" /\ ~emptied => LegacyIds \subseteq IdsOf(database.doc)
<1>1. IsFile(database)
  BY DEF StartInv, StartTypeOK
<1> QED
  BY <1>1 DEF StartInv, PeopleInv, LegacyInv, IsFile

LEMMA StartFlags == StartInv => emptied \in BOOLEAN /\ unfinished \in BOOLEAN
  BY DEF StartInv, StartTypeOK

LEMMA ReadDocumentKeeps == ASSUME StartInv, ReadDocument PROVE StartInv'
<1>1. /\ stage = "listening" /\ version' = version /\ database' = database /\ build' = build
      /\ emptied' = emptied /\ unfinished' = unfinished
      /\ stage' = "fresh" \/ (stage' = "promote" /\ database.doc # NoDocument)
  BY DEF ReadDocument, To
<1>2. Serving /\ stage' \in ServingStages /\ stage' \notin {"identities", "heal", "up"}
  BY <1>1 DEF Serving, ServingStages
<1>3. unfinished' \in BOOLEAN
  BY <1>1, StartFlags
<1> QED
  BY <1>1, <1>2, <1>3, PassKeeps

LEMMA WriteFreshKeeps == ASSUME StartInv, WriteFresh PROVE StartInv'
<1>1. /\ stage = "fresh" /\ stage' = "promote" /\ database' = InDocument(Fresh0)
      /\ emptied' = (emptied \/ database.doc # NoDocument)
      /\ version' = version /\ build' = build /\ unfinished' = unfinished
  BY DEF WriteFresh
<1>2. Serving /\ stage' \in ServingStages /\ stage' \notin {"identities", "heal", "up"}
  BY <1>1 DEF Serving, ServingStages
<1>3. emptied' \in BOOLEAN
  BY <1>1
<1>4. unfinished' \in BOOLEAN
  BY <1>1, StartFlags
<1>5. database.jsonFile # "none" => emptied'
  BY <1>1, <1>2 DEF StartInv, LegacyInv
<1> QED
  BY <1>1, <1>2, <1>3, <1>4, <1>5, EmptyDocument, UpdateKeeps

LEMMA WriteFreshFailsKeeps == ASSUME StartInv, WriteFreshFails PROVE StartInv'
<1>1. /\ stage = "fresh" /\ stage' = "heal" /\ unfinished' = TRUE
      /\ database' = database /\ version' = version /\ build' = build /\ emptied' = emptied
  BY DEF WriteFreshFails
<1>2. Serving /\ stage' \in ServingStages /\ stage' \notin {"promote", "identities"}
  BY <1>1 DEF Serving, ServingStages
<1>3. unfinished' \in BOOLEAN
  BY <1>1, Zenon
<1> QED
  BY <1>1, <1>2, <1>3, PassKeeps

LEMMA PromoteKeeps == ASSUME StartInv, PromoteFool PROVE StartInv'
<1> DEFINE d == database.doc
           e == Promoted(d)
<1>1. /\ stage = "promote" /\ stage' = "identities" /\ version' = version /\ build' = build /\ emptied' = emptied
      /\ \/ unfinished' = unfinished /\ database' = InDocument(e)
         \/ unfinished' = TRUE /\ database' = database
  BY DEF PromoteFool, Migrates, To
<1>2. Serving /\ stage' \in ServingStages /\ stage' \notin {"heal", "up"}
  BY <1>1 DEF Serving, ServingStages
<1>3. d # NoDocument
  BY <1>1 DEF StartInv, PeopleInv
<1>4. CASE unfinished' = unfinished /\ database' = InDocument(e)
  <2>1. emptied' \in BOOLEAN /\ unfinished' \in BOOLEAN
    BY <1>1, <1>4, StartFlags
  <2>2. /\ e \in UserDocuments /\ e.schema = d.schema /\ PeopleDiffer(e)
        /\ IdsOf(e) = IdsOf(d) /\ FoolsPromoted(e)
        /\ AllSettled(d) => AllSettled(e)
    BY <1>3, DocumentThere, PromotedKeeps
  <2>3. /\ d.schema = 4 => AllSettled(d)
        /\ database.jsonFile # "none" /\ ~emptied => LegacyIds \subseteq IdsOf(d)
    BY <1>3, DocumentThere
  <2> HIDE DEF e, d
  <2> QED
    BY <1>1, <1>2, <1>4, <2>1, <2>2, <2>3, UpdateKeeps
<1>5. CASE unfinished' = TRUE /\ database' = database
  <2>1. unfinished' \in BOOLEAN
    BY <1>5, Zenon
  <2> QED
    BY <1>1, <1>2, <1>3, <1>5, <2>1, PassKeeps
<1> QED
  BY <1>1, <1>4, <1>5

LEMMA IdentitiesKeep == ASSUME StartInv, Migration0004 PROVE StartInv'
<1> DEFINE d == database.doc
           e == Migrated0004(d)
<1>1. /\ stage = "identities" /\ stage' = "heal" /\ version' = version /\ build' = build /\ emptied' = emptied
      /\ \/ unfinished' = unfinished /\ database' = InDocument(e)
         \/ unfinished' = TRUE /\ database' = database
  BY DEF Migration0004, Migrates, To
<1>2. Serving /\ stage' \in ServingStages /\ stage' \notin {"promote", "identities"}
  BY <1>1 DEF Serving, ServingStages
<1>3. d # NoDocument /\ (~unfinished => FoolsPromoted(d))
  BY <1>1 DEF StartInv, PeopleInv
<1>4. CASE unfinished' = unfinished /\ database' = InDocument(e)
  <2>1. emptied' \in BOOLEAN /\ unfinished' \in BOOLEAN
    BY <1>1, <1>4, StartFlags
  <2>2. /\ d \in UserDocuments /\ PeopleDiffer(d) /\ (d.schema = 4 => AllSettled(d))
        /\ database.jsonFile # "none" /\ ~emptied => LegacyIds \subseteq IdsOf(d)
    BY <1>3, DocumentThere
  <2> HIDE DEF d
  <2>3. e \in UserDocuments /\ e.schema = 4 /\ PeopleDiffer(e) /\ SamePeople(d, e) /\ AllSettled(e)
    BY <2>2, Migrates0004
  <2> HIDE DEF e
  <2>4. IdsOf(d) \subseteq IdsOf(e)
    BY <2>3 DEF IdsOf, SamePeople
  <2>5. ~unfinished => FoolsPromoted(e)
    BY <1>3, <2>3 DEF FoolsPromoted, SamePeople
  <2>6. database.jsonFile # "none" /\ ~emptied' => LegacyIds \subseteq IdsOf(e)
    BY <1>1, <2>2, <2>4
  <2> QED
    BY <1>1, <1>2, <1>4, <2>1, <2>3, <2>5, <2>6, UpdateKeeps
<1>5. CASE unfinished' = TRUE /\ database' = database
  <2>1. unfinished' \in BOOLEAN
    BY <1>5, Zenon
  <2> QED
    BY <1>1, <1>2, <1>3, <1>5, <2>1, PassKeeps
<1> QED
  BY <1>1, <1>4, <1>5

LEMMA HealKeeps == ASSUME StartInv, HealAndGo PROVE StartInv'
<1>1. /\ stage = "heal" /\ stage' \in {"up", "failed"} /\ version' = version /\ build' = build
      /\ database' = database /\ emptied' = emptied /\ unfinished' = unfinished
  BY DEF HealAndGo, To
<1>2. build' \in Builds /\ unfinished' \in BOOLEAN
  BY <1>1 DEF StartInv, StartTypeOK
<1>3. CASE stage' = "failed"
  BY <1>1, <1>2, <1>3, FailingKeeps
<1>4. CASE stage' = "up"
  <2>1. Serving /\ stage' \in ServingStages /\ stage' \notin {"promote", "identities"}
    BY <1>1, <1>4 DEF Serving, ServingStages
  <2>2. ~unfinished => database.doc # NoDocument /\ database.doc.schema = 4 /\ FoolsPromoted(database.doc)
    BY <1>1 DEF StartInv, PeopleInv
  <2> QED
    BY <1>1, <1>2, <2>1, <2>2, PassKeeps
<1> QED
  BY <1>1, <1>3, <1>4

LEMMA JoinKeeps ==
    ASSUME StartInv, NEW u \in Newcomers, RegisterNewcomer(u) \/ OAuthNewcomer(u)
    PROVE  StartInv'
<1> DEFINE d == ReadOrFresh
<1>1. PICK name \in Usernames \cup {NoUsername}, more \in {<<>>, <<<<u.id, "github">>>>} :
          (name = NoUsername \/ name \notin Taken(d)) /\ Joins(u, name, more)
  <2>1. CASE RegisterNewcomer(u)
    BY <2>1 DEF RegisterNewcomer
  <2>2. CASE OAuthNewcomer(u)
    <3>1. d \in UserDocuments
      BY DocumentThere, EmptyDocument DEF ReadOrFresh
    <3> DEFINE name == UniqueUsername(u.base, Taken(d))
    <3>2. PICK k \in Nat \ {0} : name = <<u.base, k>> /\ name \notin Taken(d)
      BY <3>1, TakenIs, UniqueIsFree
    <3>3. u.base \in STRING
      BY StartUpAssumption DEF People
    <3>4. name \in Usernames
      BY <3>2, <3>3 DEF Usernames
    <3>5. Joins(u, name, <<<<u.id, "github">>>>)
      BY <2>2 DEF OAuthNewcomer
    <3> HIDE DEF name
    <3> QED
      BY <3>2, <3>4, <3>5
  <2> QED
    BY <2>1, <2>2
<1> DEFINE e == Joined(d, u, name, more)
<1>2. /\ Serving /\ database' = InDocument(e)
      /\ stage' = stage /\ version' = version /\ build' = build /\ emptied' = emptied /\ unfinished' = unfinished
  BY <1>1 DEF Joins, Joined
<1>3. stage' \in ServingStages /\ emptied' \in BOOLEAN /\ unfinished' \in BOOLEAN
  BY <1>2, StartFlags DEF Serving, ServingStages
<1>4. /\ d \in UserDocuments /\ PeopleDiffer(d)
      /\ d.schema = 4 => AllSettled(d)
      /\ database.jsonFile # "none" /\ ~emptied => LegacyIds \subseteq IdsOf(d)
  <2>1. CASE database.doc = NoDocument
    <3>1. database.jsonFile = "none" /\ d = Fresh0
      BY <1>2, <2>1 DEF StartInv, LegacyInv, ReadOrFresh
    <3> QED
      BY <3>1, EmptyDocument
  <2>2. CASE database.doc # NoDocument
    BY <2>2, DocumentThere DEF ReadOrFresh
  <2> QED
    BY <2>1, <2>2
<1>5. /\ stage = "identities" /\ ~unfinished => FoolsPromoted(d)
      /\ stage \in {"heal", "up"} /\ ~unfinished => d.schema = 4 /\ FoolsPromoted(d)
  BY DEF StartInv, PeopleInv, ReadOrFresh
<1> HIDE DEF d
<1>6. /\ e \in UserDocuments /\ e.schema = d.schema /\ PeopleDiffer(e) /\ IdsOf(d) \subseteq IdsOf(e)
      /\ AllSettled(d) => AllSettled(e)
      /\ FoolsPromoted(d) => FoolsPromoted(e)
  BY <1>1, <1>4, JoinedKeeps
<1> HIDE DEF e
<1>7. database.jsonFile # "none" /\ ~emptied' => LegacyIds \subseteq IdsOf(e)
  BY <1>2, <1>4, <1>6
<1> QED
  BY <1>2, <1>3, <1>4, <1>5, <1>6, <1>7, UpdateKeeps

LEMMA RenamingKeeps ==
    ASSUME StartInv, NEW i, NEW name \in Asked, ChangeUsername(i, name)
    PROVE  StartInv'
<1> DEFINE d == database.doc
           e == Named(d, i, name)
<1>1. /\ Serving /\ d # NoDocument /\ i \in DOMAIN d.users /\ database' = InDocument(e)
      /\ \A j \in DOMAIN d.users : j # i => d.users[j].username # name
      /\ stage' = stage /\ version' = version /\ build' = build /\ emptied' = emptied /\ unfinished' = unfinished
  BY DEF ChangeUsername
<1>2. stage' \in ServingStages /\ emptied' \in BOOLEAN /\ unfinished' \in BOOLEAN
  BY <1>1, StartFlags DEF Serving, ServingStages
<1>3. /\ d \in UserDocuments /\ PeopleDiffer(d) /\ (d.schema = 4 => AllSettled(d))
      /\ database.jsonFile # "none" /\ ~emptied => LegacyIds \subseteq IdsOf(d)
  BY <1>1, DocumentThere
<1>4. /\ stage = "identities" /\ ~unfinished => FoolsPromoted(d)
      /\ stage \in {"heal", "up"} /\ ~unfinished => d.schema = 4 /\ FoolsPromoted(d)
  BY DEF StartInv, PeopleInv
<1> HIDE DEF d
<1>5. name \in Usernames
  BY StartUpAssumption
<1>6. PeopleDiffer(e) /\ SamePeople(d, e)
  BY <1>1, <1>3, <1>5, NamedKeeps
<1>7. e \in UserDocuments /\ e.schema = d.schema
  BY <1>1, <1>3, <1>5, NamedIs
<1> HIDE DEF e
<1>8. IdsOf(d) \subseteq IdsOf(e)
  BY <1>6 DEF IdsOf, SamePeople
<1>9. FoolsPromoted(d) => FoolsPromoted(e)
  BY <1>6 DEF FoolsPromoted, SamePeople
<1>10. AllSettled(d) => AllSettled(e)
  BY <1>6 DEF AllSettled, Migrant, SamePeople
<1>11. database.jsonFile # "none" /\ ~emptied' => LegacyIds \subseteq IdsOf(e)
  BY <1>1, <1>3, <1>8
<1> QED
  BY <1>1, <1>2, <1>3, <1>4, <1>6, <1>7, <1>9, <1>10, <1>11, UpdateKeeps

LEMMA StoppedKeeps == ASSUME StartInv, Stops \/ \E b \in Builds : Deploy(b) PROVE StartInv'
<1>1. /\ stage' \in {"failed", "down"} /\ database' = database /\ emptied' = emptied
      /\ version' = version /\ unfinished' = unfinished
  BY DEF Stops, Deploy
<1>2. build' \in Builds
  BY DEF Stops, Deploy, StartInv, StartTypeOK
<1> QED
  BY <1>1, <1>2, FailingKeeps

LEMMA StartRests == ASSUME StartInv, UNCHANGED startVars PROVE StartInv'
  BY DEF startVars, StartInv, StartTypeOK, SchemaInv, LegacyInv, PeopleInv, Serving

LEMMA StartStep == StartInv /\ [StartUpNext]_startVars => StartInv'
<1> SUFFICES ASSUME StartInv, [StartUpNext]_startVars PROVE StartInv'
  OBVIOUS
<1>1. CASE OpenDatabase \/ SchemaStep \/ NoteVersion \/ CommitSchema
  BY <1>1, OpenKeeps, SchemaKeeps, NoteKeeps, CommitKeeps
<1>2. CASE BeginLegacy \/ ImportUsers \/ ImportComments \/ ArchiveFile
  BY <1>2, BeginLegacyKeeps, ImportUsersKeeps, ImportCommentsKeeps, ArchiveKeeps
<1>3. CASE ReadDocument \/ WriteFresh \/ WriteFreshFails \/ PromoteFool \/ Migration0004 \/ HealAndGo
  BY <1>3, ReadDocumentKeeps, WriteFreshKeeps, WriteFreshFailsKeeps, PromoteKeeps, IdentitiesKeep, HealKeeps
<1>4. CASE \E u \in Newcomers : RegisterNewcomer(u) \/ OAuthNewcomer(u)
  BY <1>4, JoinKeeps
<1>5. CASE \E i \in DOMAIN Legacy, name \in Asked : ChangeUsername(i, name)
  BY <1>5, RenamingKeeps
<1>6. CASE Stops \/ \E b \in Builds : Deploy(b)
  BY <1>6, StoppedKeeps
<1>7. CASE UNCHANGED startVars
  BY <1>7, StartRests
<1> QED
  BY <1>1, <1>2, <1>3, <1>4, <1>5, <1>6, <1>7 DEF StartUpNext

LEMMA StartShows == StartInv => NothingIsHalfMigrated
<1> SUFFICES ASSUME StartInv PROVE NothingIsHalfMigrated
  OBVIOUS
<1>1. SchemaIsWhole
  <2>1. Serving => stage \notin Opening \cup {"down", "failed"}
    BY DEF Serving, Opening
  <2> QED
    BY <2>1 DEF StartInv, SchemaInv, SchemaIsWhole
<1>2. LegacyIsWhole
  BY DEF StartInv, LegacyInv, LegacyIsWhole, LegacyIds, IdsOf
<1>3. ASSUME database.doc # NoDocument PROVE PeopleAreMigrated
  <2> DEFINE d == database.doc
             locals(id) == {p \in DOMAIN d.identities : d.identities[p] = <<id, "local">>}
  <2>1. PeopleDiffer(d)
    BY <1>3 DEF StartInv, PeopleInv
  <2>2. stage = "up" /\ ~unfinished => AllSettled(d) /\ FoolsPromoted(d)
    BY <1>3 DEF StartInv, PeopleInv
  <2> HIDE DEF d
  <2>3. \A i, j \in DOMAIN d.users : d.users[i].username = d.users[j].username
                                     => i = j \/ d.users[i].username = NoUsername
    BY <2>1 DEF PeopleDiffer, NamesDiffer
  <2>4. \A i \in DOMAIN d.users : \A p, q \in locals(d.users[i].id) : p = q
    BY <2>1 DEF PeopleDiffer, LocalsDiffer
  <2>5. ASSUME stage = "up", ~unfinished, NEW i \in DOMAIN d.users, NEW k \in DOMAIN Legacy,
               d.users[i].id = Legacy[k].id
        PROVE  /\ d.users[i].username # NoUsername
               /\ d.users[i].fool => d.users[i].admin
               /\ d.users[i].password => locals(d.users[i].id) # {}
    <3>1. d.users[i].id \in LegacyIds
      BY <2>5 DEF LegacyIds
    <3>2. Migrant(d, i) /\ (d.users[i].fool => d.users[i].admin)
      BY <2>2, <2>5, <3>1 DEF AllSettled, FoolsPromoted
    <3>3. HasLocal(d, d.users[i].id) => locals(d.users[i].id) # {}
      BY DEF HasLocal
    <3> QED
      BY <3>2, <3>3 DEF Migrant
  <2> QED
    BY <2>3, <2>4, <2>5 DEF PeopleAreMigrated, d
<1> QED
  BY <1>1, <1>2, <1>3 DEF NothingIsHalfMigrated, PeopleAreMigrated

\* The invariant NothingIsHalfMigrated holds in every behavior of the server, for every sequence
\* of builds and every JSON file: initializeDatabase, migrateLegacyJson and runMigrations leave
\* each release whole wherever a start fails or dies, whoever registers in between.
THEOREM NothingIsEverHalfMigrated == BackendSpec => []NothingIsHalfMigrated
<1>1. BackendInit => StartInv
  BY ServerStarts DEF BackendInit
<1>2. StartInv /\ [BackendNext]_backendVars => StartInv'
  <2> SUFFICES ASSUME StartInv, [BackendNext]_backendVars PROVE StartInv'
    OBVIOUS
  <2>1. [StartUpNext]_startVars
    BY DEF BackendNext, backendVars
  <2> QED
    BY <2>1, StartStep
<1> QED
  BY <1>1, <1>2, StartShows, PTL DEF BackendSpec

-----------------------------------------------------------------------------
(***************************************************************************)
(* What is kept of a machine and put on another one.  First the scanner:   *)
(* line by line it arrives at what the text should be.                     *)
(***************************************************************************)
Printed == STRING \cup {"masked", "maskedKey"}
Scans == [inKey : BOOLEAN, out : Seq(Printed)]
Scanned(s, l) == IF s.inKey THEN [inKey |-> l # "end", out |-> s.out]
                 ELSE [inKey |-> l = "begin", out |-> Append(s.out, Shown(l))]

\* The lines that are shown, and the place of each among them.
ShownUpTo(text, n) == {i \in 1..n : ~InKey(text, i)}
Place(text, i) == Cardinality(ShownUpTo(text, i))

\* The scan of the start0 n lines.
ScanAt(text, n, s) ==
    LET C == Cardinality(ShownUpTo(text, n))
    IN  /\ s \in Scans /\ (s.inKey <=> InKey(text, n + 1)) /\ Len(s.out) = C
        /\ \A i \in ShownUpTo(text, n) : Place(text, i) \in 1..C /\ s.out[Place(text, i)] = Shown(text[i])
        /\ \A m \in 1..C : \E i \in ShownUpTo(text, n) : Place(text, i) = m

LEMMA ShownGrows ==
    ASSUME NEW text \in Texts, NEW n \in Nat
    PROVE  /\ IsFiniteSet(ShownUpTo(text, n)) /\ Cardinality(ShownUpTo(text, n)) \in Nat
           /\ InKey(text, n + 1) => /\ ShownUpTo(text, n + 1) = ShownUpTo(text, n)
           /\ ~InKey(text, n + 1) => /\ ShownUpTo(text, n + 1) = ShownUpTo(text, n) \cup {n + 1}
                                     /\ Place(text, n + 1) = Cardinality(ShownUpTo(text, n)) + 1
<1> DEFINE S == ShownUpTo(text, n)
<1>1. IsFiniteSet(1..n)
  BY FS_Interval, 1 \in Int, n \in Int
<1>2. S \in SUBSET (1..n)
  BY DEF ShownUpTo
<1>3. IsFiniteSet(S) /\ Cardinality(S) \in Nat
  BY <1>1, <1>2, FS_Subset, FS_CardinalityType
<1>4. \A i \in 1..(n + 1) : i \in 1..n \/ i = n + 1
  OBVIOUS
<1>5. (\A i \in 1..n : i \in 1..(n + 1)) /\ n + 1 \in 1..(n + 1) /\ n + 1 \notin 1..n
  OBVIOUS
<1>6. ASSUME InKey(text, n + 1) PROVE ShownUpTo(text, n + 1) = S
  BY <1>4, <1>5, <1>6 DEF ShownUpTo
<1>7. ASSUME ~InKey(text, n + 1) PROVE ShownUpTo(text, n + 1) = S \cup {n + 1}
  BY <1>4, <1>5, <1>7 DEF ShownUpTo
<1>8. ASSUME ~InKey(text, n + 1) PROVE Place(text, n + 1) = Cardinality(S) + 1
  <2>1. n + 1 \notin S
    BY <1>2, <1>5
  <2> HIDE DEF S
  <2>2. Cardinality(S \cup {n + 1}) = Cardinality(S) + 1
    BY <1>3, <2>1, FS_AddElement
  <2> QED
    BY <1>7, <1>8, <2>2 DEF Place
<1> QED
  BY <1>3, <1>6, <1>7, <1>8

\* A line that is begun or ended decides on the next one.
LEMMA KeyGoesOn ==
    ASSUME NEW text \in Texts, NEW n \in Nat, n + 1 \in DOMAIN text
    PROVE  /\ InKey(text, n + 1) => (InKey(text, n + 2) <=> text[n + 1] # "end" \/ text[n + 1] = "begin")
           /\ ~InKey(text, n + 1) => (InKey(text, n + 2) <=> text[n + 1] = "begin")
<1> DEFINE l == text[n + 1]
<1>1. \A j \in 1..(n + 1) : j \in 1..n \/ j = n + 1
  OBVIOUS
<1>2. (\A j \in 1..n : j \in 1..(n + 1)) /\ n + 1 \in 1..(n + 1) /\ (n + 2) - 1 = n + 1 /\ (n + 1) - 1 = n
  OBVIOUS
<1>3. \A k : k \in ((n + 1) + 1)..(n + 1) => FALSE
  OBVIOUS
<1>4. l = "begin" => InKey(text, n + 2)
  BY <1>2, <1>3 DEF InKey
<1>5. ASSUME InKey(text, n + 1), l # "end" PROVE InKey(text, n + 2)
  <2>1. PICK j \in 1..n : text[j] = "begin" /\ \A k \in (j + 1)..n : text[k] # "end"
    BY <1>2, <1>5 DEF InKey
  <2>2. \A k \in (j + 1)..(n + 1) : k \in (j + 1)..n \/ k = n + 1
    OBVIOUS
  <2>3. \A k \in (j + 1)..(n + 1) : text[k] # "end"
    BY <1>5, <2>1, <2>2
  <2> QED
    BY <1>2, <2>1, <2>3 DEF InKey
<1>6. ASSUME InKey(text, n + 2), l # "begin" PROVE InKey(text, n + 1) /\ l # "end"
  <2>1. PICK j \in 1..(n + 1) : text[j] = "begin" /\ \A k \in (j + 1)..(n + 1) : text[k] # "end"
    BY <1>2, <1>6 DEF InKey
  <2>2. j \in 1..n
    BY <1>1, <1>6, <2>1
  <2>3. n + 1 \in (j + 1)..(n + 1) /\ \A k \in (j + 1)..n : k \in (j + 1)..(n + 1)
    BY <2>2
  <2> QED
    BY <1>2, <2>1, <2>2, <2>3 DEF InKey
<1> QED
  BY <1>4, <1>5, <1>6

LEMMA ShownIsPrinted == \A l \in STRING : Shown(l) \in Printed
  BY DEF Shown, MaskLine, Printed

LEMMA ScanGoesOn ==
    ASSUME NEW text \in Texts, NEW n \in Nat, n + 1 \in DOMAIN text, NEW s, ScanAt(text, n, s)
    PROVE  ScanAt(text, n + 1, Scanned(s, text[n + 1]))
<1> DEFINE l == text[n + 1]
           S == ShownUpTo(text, n)
           C == Cardinality(S)
           t == Scanned(s, l)
<1>1. /\ s \in Scans /\ s.inKey \in BOOLEAN /\ s.out \in Seq(Printed) /\ Len(s.out) = C
      /\ s.inKey <=> InKey(text, n + 1)
      /\ \A i \in S : Place(text, i) \in 1..C /\ s.out[Place(text, i)] = Shown(text[i])
      /\ \A m \in 1..C : \E i \in S : Place(text, i) = m
  BY DEF ScanAt, Scans
<1>2. IsFiniteSet(S) /\ C \in Nat
  BY ShownGrows
<1>3. l \in STRING /\ Shown(l) \in Printed
  <2>1. text \in Seq(STRING)
    BY DEF Texts
  <2>2. l \in STRING
    BY <2>1
  <2> QED
    BY <2>2, ShownIsPrinted
<1>4. /\ InKey(text, n + 1) => (InKey(text, n + 2) <=> l # "end" \/ l = "begin")
      /\ ~InKey(text, n + 1) => (InKey(text, n + 2) <=> l = "begin")
  BY KeyGoesOn
<1>5. (n + 1) + 1 = n + 2
  OBVIOUS
<1>6. CASE s.inKey
  <2>1. ShownUpTo(text, n + 1) = S
    BY <1>1, <1>6, ShownGrows
  <2>2. t = [inKey |-> l # "end", out |-> s.out]
    BY <1>6 DEF Scanned
  <2>3. t \in Scans /\ t.inKey = (l # "end") /\ t.out = s.out
    BY <1>1, <2>2 DEF Scans
  <2> HIDE DEF t, S, l
  <2>4. t.inKey <=> InKey(text, n + 2)
    BY <1>1, <1>4, <1>6, <2>3
  <2> QED
    BY <1>1, <1>5, <2>1, <2>3, <2>4 DEF ScanAt, t, l
<1>7. CASE ~s.inKey
  <2> DEFINE x == Shown(l)
             o == s.out
  <2>1. ShownUpTo(text, n + 1) = S \cup {n + 1} /\ Place(text, n + 1) = C + 1
    BY <1>1, <1>7, ShownGrows
  <2>2. t = [inKey |-> l = "begin", out |-> Append(o, x)]
    BY <1>7 DEF Scanned
  <2>3. t \in Scans /\ t.inKey = (l = "begin") /\ t.out = Append(o, x)
    BY <1>1, <1>3, <2>2 DEF Scans
  <2>4. n + 1 \notin S
    BY DEF ShownUpTo
  <2>5. Cardinality(ShownUpTo(text, n + 1)) = C + 1
    BY <2>1 DEF Place
  <2> HIDE DEF t, S, C, x
  <2>6. /\ Len(t.out) = C + 1 /\ t.out[C + 1] = x
        /\ \A m \in 1..C : t.out[m] = o[m]
    BY <1>1, <1>2, <1>3, <2>3 DEF x
  <2>7. (\A m \in 1..(C + 1) : m \in 1..C \/ m = C + 1) /\ (\A m \in 1..C : m \in 1..(C + 1)) /\ C + 1 \in 1..(C + 1)
    BY <1>2
  <2>8. ASSUME NEW i \in ShownUpTo(text, n + 1)
        PROVE  Place(text, i) \in 1..(C + 1) /\ t.out[Place(text, i)] = Shown(text[i])
    <3>1. CASE i \in S
      BY <1>1, <2>6, <2>7, <3>1
    <3>2. CASE i = n + 1
      BY <2>1, <2>6, <2>7, <3>2 DEF x
    <3> QED
      BY <2>1, <3>1, <3>2
  <2>9. \A m \in 1..(C + 1) : \E i \in ShownUpTo(text, n + 1) : Place(text, i) = m
    BY <1>1, <2>1, <2>7
  <2> HIDE DEF l
  <2>10. t.inKey <=> InKey(text, n + 2)
    BY <1>1, <1>4, <1>7, <2>3
  <2> QED
    BY <1>5, <2>3, <2>5, <2>6, <2>8, <2>9, <2>10 DEF ScanAt, t, l
<1> QED
  BY <1>1, <1>6, <1>7

\* scanAndRedact is what it should be, for every text.
LEMMA ScanIsMasked == \A text \in Texts : Scan(text) = Masked(text)
<1> TAKE text \in Texts
<1> DEFINE N == Len(text)
           none == <<>>
           start0 == [inKey |-> FALSE, out |-> none]
           follow == [k \in 1..N |-> [s \in Scans |-> Scanned(s, text[k])]]
           ScansText(f) == f = [n \in 0..N |-> IF n = 0 THEN start0
                            ELSE IF f[n - 1].inKey THEN [inKey |-> text[n] # "end", out |-> f[n - 1].out]
                                 ELSE [inKey |-> text[n] = "begin", out |-> Append(f[n - 1].out, Shown(text[n]))]]
<1>1. N \in Nat /\ DOMAIN text = 1..N /\ \A k \in 1..N : text[k] \in STRING
  BY DEF Texts
<1>2. start0 \in Scans
  BY DEF Scans
<1>3. ASSUME NEW s \in Scans, NEW k \in 1..N PROVE Scanned(s, text[k]) \in Scans
  <2>0. text[k] \in STRING
    BY <1>1
  <2>1. text[k] \in STRING /\ Shown(text[k]) \in Printed
    BY <2>0, ShownIsPrinted
  <2> QED
    BY <2>1 DEF Scanned, Scans
<1>4. follow \in [1..N -> [Scans -> Scans]]
  BY <1>3
<1> HIDE DEF none
<1>5. \E f : ScansText(f)
  <2> HIDE DEF follow, start0
  <2>0. N \in Nat /\ start0 \in Scans /\ follow \in RecursionSteps(N, Scans)
    BY <1>1, <1>2, <1>4 DEF RecursionSteps
  <2> HIDE DEF N
  <2>1. PICK f : Recurs(f, N, Scans, start0, follow)
    BY <2>0, Recursion
  <2> USE DEF Recurs
  <2>2. ASSUME NEW k \in 0..N, k # 0 PROVE f[k] = Scanned(f[k - 1], text[k])
    <3>1. k \in 1..N /\ k - 1 \in 0..N
      BY <2>0, <2>2
    <3>2. f[k - 1] \in Scans /\ f[k] = follow[k][f[k - 1]]
      BY <2>1, <2>2, <3>1
    <3> QED
      BY <3>1, <3>2 DEF follow
  <2>3. f[0] = start0
    BY <2>0, <2>1
  <2>4. f = [k \in 0..N |-> f[k]]
    BY <2>1
  <2>5. \A k \in 0..N : f[k] = IF k = 0 THEN start0
                            ELSE IF f[k - 1].inKey THEN [inKey |-> text[k] # "end", out |-> f[k - 1].out]
                                 ELSE [inKey |-> text[k] = "begin", out |-> Append(f[k - 1].out, Shown(text[k]))]
    BY <2>2, <2>3 DEF Scanned
  <2> QED
    BY <2>4, <2>5
<1>6. Scan(text) = (CHOOSE f : ScansText(f))[N].out
  BY DEF Scan, none
<1>7. PICK f : ScansText(f) /\ Scan(text) = f[N].out
  BY <1>5, <1>6
<1>8. f[0] = start0
  <2>1. 0 \in 0..N
    BY <1>1
  <2>2. \A k \in 0..N : k = 0 => f[k] = start0
    BY <1>7
  <2> QED
    BY <2>1, <2>2
<1>20. \A n \in 0..N : n # 0 =>
           f[n] = IF f[n - 1].inKey THEN [inKey |-> text[n] # "end", out |-> f[n - 1].out]
                  ELSE [inKey |-> text[n] = "begin", out |-> Append(f[n - 1].out, Shown(text[n]))]
  BY <1>7
<1>21. \A n \in 0..N : n # 0 => f[n] = Scanned(f[n - 1], text[n])
  BY <1>20 DEF Scanned
<1>9. \A k \in 0..(N - 1) : f[k + 1] = Scanned(f[k], text[k + 1])
  <2> TAKE k \in 0..(N - 1)
  <2>1. k + 1 \in 0..N /\ k + 1 # 0 /\ (k + 1) - 1 = k
    BY <1>1
  <2> HIDE DEF ScansText
  <2> QED
    BY <1>21, <2>1
<1> HIDE DEF ScansText, follow
<1> DEFINE S == {k \in 0..N : ScanAt(text, k, f[k])}
<1>10. 0 \in S
  <2>1. ShownUpTo(text, 0) = {} /\ Cardinality({}) = 0
    BY FS_EmptySet DEF ShownUpTo
  <2>2. ~InKey(text, 0 + 1)
    BY DEF InKey
  <2>3. start0.inKey = FALSE /\ Len(start0.out) = 0
    BY DEF none
  <2>4. ScanAt(text, 0, start0)
    <3> HIDE DEF start0
    <3>1. start0.inKey <=> InKey(text, 0 + 1)
      BY <2>2, <2>3
    <3>2. \A m : m \in 1..0 => FALSE
      OBVIOUS
    <3> QED
      BY <1>2, <2>1, <2>3, <3>1, <3>2 DEF ScanAt
  <2> QED
    BY <1>1, <1>8, <2>4
<1>11. ASSUME NEW k \in 0..(N - 1), k \in S PROVE k + 1 \in S
  <2>1. k \in Nat /\ k + 1 \in DOMAIN text /\ k + 1 \in 0..N
    BY <1>1
  <2>2. ScanAt(text, k, f[k])
    BY <1>11
  <2>3. ScanAt(text, k + 1, Scanned(f[k], text[k + 1]))
    BY <2>1, <2>2, ScanGoesOn
  <2> QED
    BY <1>9, <2>1, <2>3
<1> HIDE DEF S
<1>12. 0..N \subseteq S
  BY <1>1, <1>10, <1>11, UpTo
<1>13. ScanAt(text, N, f[N])
  <2>1. N \in S
    BY <1>1, <1>12
  <2> QED
    BY <2>1 DEF S
<1> DEFINE shown == {i \in 1..Len(text) : ~InKey(text, i)}
           C == Cardinality(shown)
           out == f[N].out
           nth(n) == CHOOSE i \in shown : Cardinality({j \in shown : j <= i}) = n
<1>14. shown = ShownUpTo(text, N)
  BY DEF ShownUpTo
<1>15. \A i \in shown : Place(text, i) = Cardinality({j \in shown : j <= i})
  <2> SUFFICES ASSUME NEW i \in shown PROVE ShownUpTo(text, i) = {j \in shown : j <= i}
    BY DEF Place
  <2>1. i \in 1..N
    OBVIOUS
  <2>2. \A j : j \in 1..i <=> j \in 1..N /\ j <= i
    BY <1>1, <2>1
  <2> QED
    BY <2>2 DEF ShownUpTo
<1>16. /\ out \in Seq(Printed) /\ Len(out) = C
       /\ \A i \in shown : Place(text, i) \in 1..C /\ out[Place(text, i)] = Shown(text[i])
       /\ \A m \in 1..C : \E i \in shown : Place(text, i) = m
  BY <1>13, <1>14 DEF ScanAt, Scans
<1> HIDE DEF shown
<1>17. ASSUME NEW n \in 1..C PROVE out[n] = Shown(text[nth(n)])
  <2>1. \E i \in shown : Cardinality({j \in shown : j <= i}) = n
    BY <1>15, <1>16
  <2>2. nth(n) \in shown /\ Cardinality({j \in shown : j <= nth(n)}) = n
    BY <2>1
  <2> HIDE DEF nth
  <2>3. Place(text, nth(n)) = n
    BY <1>15, <2>2
  <2> QED
    BY <1>16, <2>2, <2>3
<1>18. out = [n \in 1..C |-> Shown(text[nth(n)])]
  <2>1. DOMAIN out = 1..C /\ out = [n \in DOMAIN out |-> out[n]]
    BY <1>16
  <2> HIDE DEF out, nth, C
  <2> QED
    BY <1>17, <2>1
<1>19. Masked(text) = [n \in 1..C |-> Shown(text[nth(n)])]
  BY DEF Masked, shown
<1> QED
  BY <1>7, <1>18, <1>19

-----------------------------------------------------------------------------
(* The capture and the restore.                                            *)

LEMMA ChannelsAre ==
    /\ Len(Channels) \in Nat /\ Len(Channels) > 4 /\ DOMAIN Channels = 1..Len(Channels)
    /\ Channels[1] = "packages" /\ Channels[2] = "services" /\ Channels[3] = "lines" /\ Channels[4] = "npm"
    /\ \A i \in 5..Len(Channels) : Channels[i] \in Configs
    /\ \A f \in Configs : f \notin {"packages", "services", "lines", "npm"}
<1> DEFINE P == ConfigPaths
           M == Len(P)
<1>1. P \in Seq(STRING) /\ M \in Nat /\ DOMAIN P = 1..M
  BY CaptureAssumption
<1>2. \A i \in 1..M : P[i] \in Configs
  BY <1>1 DEF Configs, ToSet
<1>3. M > 0
  <2>1. PICK i \in 1..M : P[i] = Bashrc
    BY <1>1, CaptureAssumption DEF Configs, ToSet
  <2> QED
    BY <1>1, <2>1
<1> HIDE DEF P, M
<1>4. Channels = <<"packages", "services", "lines", "npm">> \o P
  BY DEF Channels, Lists, P
<1> DEFINE L == <<"packages", "services", "lines", "npm">>
           A == {"packages", "services", "lines", "npm"} \cup STRING
<1>5. L \in Seq(A) /\ Len(L) = 4 /\ P \in Seq(A)
  BY <1>1
<1>6. Len(L \o P) = 4 + M /\ DOMAIN (L \o P) = 1..(4 + M)
  BY <1>1, <1>5 DEF M
<1>7. \A i \in 1..(4 + M) : (L \o P)[i] = IF i <= 4 THEN L[i] ELSE P[i - 4]
  BY <1>1, <1>5 DEF M
<1>8. L[1] = "packages" /\ L[2] = "services" /\ L[3] = "lines" /\ L[4] = "npm"
  OBVIOUS
<1> HIDE DEF L
<1>9. \A i \in 5..(4 + M) : Channels[i] \in Configs
  <2> TAKE i \in 5..(4 + M)
  <2>1. i \in 1..(4 + M) /\ i - 4 \in 1..M /\ ~(i <= 4)
    BY <1>1
  <2> QED
    BY <1>2, <1>4, <1>7, <2>1 DEF L
<1>10. 1 \in 1..(4 + M) /\ 2 \in 1..(4 + M) /\ 3 \in 1..(4 + M) /\ 4 \in 1..(4 + M)
  BY <1>1
<1>11. \A f \in Configs : f \notin {"packages", "services", "lines", "npm"}
  <2>1. ToSet(Lists) = {"packages", "services", "lines", "npm"}
    <3>1. DOMAIN Lists = 1..4 /\ Lists[1] = "packages" /\ Lists[2] = "services" /\ Lists[3] = "lines" /\ Lists[4] = "npm"
      BY DEF Lists
    <3>2. \A i \in 1..4 : i = 1 \/ i = 2 \/ i = 3 \/ i = 4
      OBVIOUS
    <3>3. 1 \in 1..4 /\ 2 \in 1..4 /\ 3 \in 1..4 /\ 4 \in 1..4
      OBVIOUS
    <3>4. ToSet(Lists) = {Lists[i] : i \in 1..4}
      BY <3>1 DEF ToSet
    <3> QED
      BY <3>1, <3>2, <3>3, <3>4
  <2> QED
    BY <2>1, CaptureAssumption
<1> QED
  BY <1>1, <1>3, <1>4, <1>6, <1>7, <1>8, <1>9, <1>10, <1>11 DEF L

IsComputer(m) ==
    /\ m = [packages |-> m.packages, services |-> m.services, npm |-> m.npm, files |-> m.files]
    /\ m.files = [f \in Configs |-> m.files[f]]
IsKept(k) ==
    /\ k = [packages |-> k.packages, services |-> k.services, lines |-> k.lines, npm |-> k.npm, files |-> k.files]
    /\ k.files = [f \in Configs |-> k.files[f]]

CaptureTypeOK ==
    /\ source \in Sources /\ IsComputer(target) /\ IsKept(kept)
    /\ turn = [phase |-> turn.phase, at |-> turn.at]
    /\ turn.phase \in {"read", "restore", "done"} /\ turn.at \in 1..Len(Channels)

MaskedLines == [i \in DOMAIN ShellLines(source.files[Bashrc]) |-> MaskLine(ShellLines(source.files[Bashrc])[i])]
Partly(c) == IF c \in cut THEN {Fragment} ELSE {}

\* What is kept is the whole answer of a channel or nothing, unless it was cut unseen.
KeptIsSource ==
    /\ kept.packages \subseteq source.packages \cap Known
    /\ kept.services \subseteq source.services \cup Partly("services")
    /\ kept.npm \subseteq source.npm \cup Partly("npm")
    /\ "lines" \in cut \/ kept.lines = <<>> \/ kept.lines = MaskedLines
    /\ \A f \in Configs : \/ f \in cut \/ kept.files[f] = NoText
                          \/ source.files[f] # NoText /\ kept.files[f] = Masked(source.files[f])

TargetIsSource ==
    /\ \A f \in Configs : FileIsFaithful(f)
    /\ target.packages \subseteq Fresh.packages \cup (source.packages \cap Known) \cup everFound
    /\ target.services \subseteq Fresh.services \cup source.services \cup everFound \cup Partly("services")
    /\ target.npm \subseteq Fresh.npm \cup source.npm \cup Partly("npm")
    /\ turn.phase = "read" => target = Fresh
    /\ turn.phase = "restore" /\ turn.at <= 3 => target.files = Fresh.files

\* What is in a profile, or on its way into one, was in a probe.
ProfilesAreFound ==
    /\ probe \in Seq(everFound)
    /\ found # <<>> => found[2] \in Seq(everFound)
    /\ profiles \in Seq([kind : {"vm-snapshot", "combo"}, components : Seq(everFound)])

CaptureInv == CaptureTypeOK /\ KeptIsSource /\ TargetIsSource /\ ProfilesAreFound

LEMMA RemovingIs ==
    ASSUME NEW S, NEW s \in Seq(S), NEW i \in DOMAIN s
    PROVE  RemoveAt(s, i) \in Seq(S)
<1>1. Len(s) \in Nat /\ i \in 1..Len(s) /\ \A k \in 1..Len(s) : s[k] \in S
  OBVIOUS
<1>2. SubSeq(s, 1, i - 1) \in Seq(S)
  <2>1. 1 \in Int /\ i - 1 \in Int /\ \A k \in 1..i - 1 : s[k] \in S
    BY <1>1
  <2> QED
    BY <2>1, SubSeqProperties
<1>3. SubSeq(s, i + 1, Len(s)) \in Seq(S)
  <2>1. i + 1 \in Int /\ Len(s) \in Int /\ \A k \in i + 1..Len(s) : s[k] \in S
    BY <1>1
  <2> QED
    BY <2>1, SubSeqProperties
<1> QED
  BY <1>2, <1>3, ConcatProperties DEF RemoveAt

LEMMA CappedIs ==
    ASSUME NEW S, NEW s \in Seq(S)
    PROVE  Capped(s) \in Seq(S)
<1> DEFINE n == IF Len(s) < MaxComponents THEN Len(s) ELSE MaxComponents
<1>1. 1 \in Int /\ n \in Int /\ \A k \in 1..n : s[k] \in S
  BY CaptureAssumption
<1>2. SubSeq(s, 1, n) \in Seq(S)
  <2> HIDE DEF n
  <2> QED
    BY <1>1, SubSeqProperties
<1> QED
  BY <1>2 DEF Capped

ProfilesOf(S) == [kind : {"vm-snapshot", "combo"}, components : Seq(S)]

\* The steps that leave the capture, in which the target gets what is in a profile at most.
LEMMA OrdersKeep ==
    ASSUME CaptureInv, Order, everFound \subseteq everFound', ProfilesAreFound', IsComputer(target'),
           target'.files = target.files,
           target'.packages \subseteq target.packages \cup everFound,
           target'.services \subseteq target.services \cup everFound,
           target'.npm \subseteq target.npm
    PROVE  CaptureInv'
<1>1. /\ turn.phase = "done" /\ source' = source /\ kept' = kept /\ turn' = turn /\ cut' = cut
  BY DEF Order
<1>2. CaptureTypeOK'
  BY <1>1 DEF CaptureInv, CaptureTypeOK
<1>3. KeptIsSource'
  BY <1>1 DEF CaptureInv, KeptIsSource, Partly, MaskedLines
<1>4. \A f \in Configs : FileIsFaithful(f)'
  BY <1>1 DEF CaptureInv, TargetIsSource, FileIsFaithful
<1>5. TargetIsSource'
  BY <1>1, <1>4 DEF CaptureInv, TargetIsSource, Partly
<1> QED
  BY <1>2, <1>3, <1>5 DEF CaptureInv

LEMMA SameTarget ==
    ASSUME CaptureInv, Order, everFound \subseteq everFound', ProfilesAreFound', target' = target
    PROVE  CaptureInv'
<1>1. IsComputer(target)
  BY DEF CaptureInv, CaptureTypeOK
<1>2. /\ IsComputer(target') /\ target'.files = target.files /\ target'.packages = target.packages
      /\ target'.services = target.services /\ target'.npm = target.npm
  BY <1>1
<1> QED
  BY <1>2, OrdersKeep

LEMMA ReprobeKeeps == ASSUME CaptureInv, NEW s \in Softwares, Reprobe(s) PROVE CaptureInv'
<1>1. /\ Order /\ probe' = s /\ everFound' = everFound \cup ToSet(s) /\ target' = target
      /\ found' = found /\ profiles' = profiles
  BY DEF Reprobe
<1>2. probe' \in Seq(everFound')
  <2>1. s \in Seq(STRING)
    BY CaptureAssumption
  <2>2. \A i \in DOMAIN s : s[i] \in everFound'
    BY <1>1 DEF ToSet
  <2>3. s \in [1..Len(s) -> everFound'] /\ Len(s) \in Nat
    BY <2>1, <2>2
  <2> QED
    BY <1>1, <2>3
<1>3. Seq(everFound) \subseteq Seq(everFound')
  BY <1>1
<1>4. ProfilesAreFound'
  <2> DEFINE K == {"vm-snapshot", "combo"}
             A == [kind : K, components : Seq(everFound)]
             B == [kind : K, components : Seq(everFound')]
  <2>1. A \subseteq B
    BY <1>3
  <2>2. profiles \in Seq(A)
    BY DEF CaptureInv, ProfilesAreFound
  <2> HIDE DEF A, B
  <2>3. profiles \in Seq(B)
    BY <2>1, <2>2
  <2>4. found' # <<>> => found'[2] \in Seq(everFound')
    BY <1>1, <1>3 DEF CaptureInv, ProfilesAreFound
  <2> QED
    BY <1>1, <1>2, <2>3, <2>4 DEF ProfilesAreFound, B
<1>5. everFound \subseteq everFound'
  BY <1>1
<1> QED
  BY <1>1, <1>4, <1>5, SameTarget

LEMMA ReadProbeKeeps == ASSUME CaptureInv, NEW k, ReadProbe(k) PROVE CaptureInv'
<1>1. /\ Order /\ found' = <<k, probe>> /\ target' = target /\ probe' = probe
      /\ profiles' = profiles /\ everFound' = everFound
  BY DEF ReadProbe
<1>2. ProfilesAreFound'
  BY <1>1 DEF CaptureInv, ProfilesAreFound
<1> QED
  BY <1>1, <1>2, SameTarget

LEMMA StoreKeeps == ASSUME CaptureInv, StoreSnapshot \/ StoreCombo PROVE CaptureInv'
<1>1. PICK k \in {"vm-snapshot", "combo"}, c \in Seq(everFound) :
          profiles' = <<[kind |-> k, components |-> c]>> \o profiles
  <2>1. found # <<>> /\ found[1] \in {"vm-snapshot", "combo"}
    BY DEF StoreSnapshot, StoreCombo
  <2>2. found[2] \in Seq(everFound)
    BY <2>1 DEF CaptureInv, ProfilesAreFound
  <2>3. Capped(found[2]) \in Seq(everFound)
    BY <2>2, CappedIs
  <2> QED
    BY <2>1, <2>2, <2>3 DEF StoreSnapshot, StoreCombo
<1>2. Order /\ found' = <<>> /\ target' = target /\ probe' = probe /\ everFound' = everFound
  BY DEF StoreSnapshot, StoreCombo
<1>3. profiles' \in Seq(ProfilesOf(everFound))
  <2> DEFINE x == [kind |-> k, components |-> c]
  <2>1. x \in ProfilesOf(everFound)
    BY DEF ProfilesOf
  <2>2. profiles \in Seq(ProfilesOf(everFound))
    BY DEF CaptureInv, ProfilesAreFound, ProfilesOf
  <2> HIDE DEF x
  <2>3. <<x>> \in Seq(ProfilesOf(everFound))
    BY <2>1
  <2>4. <<x>> \o profiles \in Seq(ProfilesOf(everFound))
    BY <2>2, <2>3, ConcatProperties
  <2> QED
    BY <1>1, <2>4 DEF x
<1>4. ProfilesAreFound'
  BY <1>2, <1>3 DEF CaptureInv, ProfilesAreFound, ProfilesOf
<1> QED
  BY <1>2, <1>4, SameTarget

LEMMA ProfileEditKeeps == ASSUME CaptureInv, NEW i, EditComponents(i) \/ DeleteProfile(i) PROVE CaptureInv'
<1>1. /\ Order /\ i \in DOMAIN profiles /\ target' = target /\ probe' = probe
      /\ found' = found /\ everFound' = everFound
  BY DEF EditComponents, DeleteProfile
<1>2. profiles \in Seq(ProfilesOf(everFound))
  BY DEF CaptureInv, ProfilesAreFound, ProfilesOf
<1>3. profiles' \in Seq(ProfilesOf(everFound))
  <2>1. CASE DeleteProfile(i)
    BY <1>1, <1>2, <2>1, RemovingIs DEF DeleteProfile
  <2>2. CASE EditComponents(i)
    <3>0. profiles[i] \in ProfilesOf(everFound)
      BY <1>1, <1>2
    <3>1. PICK p \in ProfilesOf(everFound) : profiles[i] = p
      BY <3>0
    <3>2. PICK drop \in 0..Len(p.components) :
              profiles' = [profiles EXCEPT ![i].components =
                  Capped(IF drop = 0 THEN p.components ELSE RemoveAt(p.components, drop))]
      BY <2>2, <3>1 DEF EditComponents
    <3> DEFINE c == Capped(IF drop = 0 THEN p.components ELSE RemoveAt(p.components, drop))
               q == [p EXCEPT !.components = c]
    <3>3. p.components \in Seq(everFound)
      BY DEF ProfilesOf
    <3>4. c \in Seq(everFound)
      <4>1. drop # 0 => drop \in DOMAIN p.components
        BY <3>3
      <4>2. (IF drop = 0 THEN p.components ELSE RemoveAt(p.components, drop)) \in Seq(everFound)
        BY <3>3, <4>1, RemovingIs
      <4> QED
        BY <4>2, CappedIs
    <3> HIDE DEF c
    <3>5. q \in ProfilesOf(everFound)
      BY <3>4 DEF ProfilesOf
    <3>6. profiles' = [profiles EXCEPT ![i] = q]
      BY <3>1, <3>2 DEF c
    <3> HIDE DEF q
    <3> QED
      BY <1>1, <1>2, <3>5, <3>6
  <2> QED
    BY <1>1, <2>1, <2>2
<1>4. ProfilesAreFound'
  BY <1>1, <1>3 DEF CaptureInv, ProfilesAreFound, ProfilesOf
<1> QED
  BY <1>1, <1>4, SameTarget

LEMMA NamesAreFound ==
    ASSUME CaptureInv, NEW i \in DOMAIN profiles
    PROVE  Names(profiles[i]) \subseteq everFound
<1>1. profiles \in Seq(ProfilesOf(everFound))
  BY DEF CaptureInv, ProfilesAreFound, ProfilesOf
<1>2. profiles[i] \in ProfilesOf(everFound)
  BY <1>1
<1>3. profiles[i].components \in Seq(everFound)
  BY <1>2 DEF ProfilesOf
<1> QED
  BY <1>3 DEF Names, ToSet

LEMMA DeployKeeps ==
    ASSUME CaptureInv, NEW i, Execute(i) \/ \E s \in {"software", "services"} : DeployStage(i, s)
    PROVE  CaptureInv'
<1>1. /\ Order /\ i \in DOMAIN profiles /\ probe' = probe /\ found' = found /\ profiles' = profiles
      /\ everFound' = everFound
      /\ \/ target' = [target EXCEPT !.packages = @ \cup Names(profiles[i])]
         \/ target' = [target EXCEPT !.services = @ \cup (Names(profiles[i]) \cap ServiceLikely)]
  BY DEF Execute, DeployStage, Staged
<1>2. IsComputer(target) /\ Names(profiles[i]) \subseteq everFound
  BY <1>1, NamesAreFound DEF CaptureInv, CaptureTypeOK
<1> DEFINE new == Names(profiles[i])
<1> HIDE DEF new
<1>3. new \subseteq everFound
  BY <1>2 DEF new
<1>4. /\ IsComputer(target') /\ target'.files = target.files
      /\ target'.packages \subseteq target.packages \cup everFound
      /\ target'.services \subseteq target.services \cup everFound
      /\ target'.npm \subseteq target.npm
  <2>1. CASE target' = [target EXCEPT !.packages = @ \cup new]
    BY <1>2, <1>3, <2>1 DEF IsComputer
  <2>2. CASE target' = [target EXCEPT !.services = @ \cup (new \cap ServiceLikely)]
    BY <1>2, <1>3, <2>2 DEF IsComputer
  <2> QED
    BY <1>1, <2>1, <2>2 DEF new
<1>5. ProfilesAreFound'
  BY <1>1 DEF CaptureInv, ProfilesAreFound
<1> QED
  BY <1>1, <1>4, <1>5, OrdersKeep

LEMMA UninstallKeeps ==
    ASSUME CaptureInv, NEW from \in {"packages", "npm"}, NEW n, Uninstall(n, from)
    PROVE  CaptureInv'
<1>1. /\ Order /\ probe' = probe /\ found' = found /\ profiles' = profiles /\ everFound' = everFound
      /\ \/ target' = [target EXCEPT !.packages = @ \ {n}]
         \/ target' = [target EXCEPT !.npm = @ \ {n}]
  BY DEF Uninstall
<1>2. IsComputer(target)
  BY DEF CaptureInv, CaptureTypeOK
<1>3. /\ IsComputer(target') /\ target'.files = target.files
      /\ target'.packages \subseteq target.packages
      /\ target'.services \subseteq target.services
      /\ target'.npm \subseteq target.npm
  <2>1. CASE target' = [target EXCEPT !.packages = @ \ {n}]
    BY <1>2, <2>1 DEF IsComputer
  <2>2. CASE target' = [target EXCEPT !.npm = @ \ {n}]
    BY <1>2, <2>2 DEF IsComputer
  <2> QED
    BY <1>1, <2>1, <2>2
<1>4. ProfilesAreFound'
  BY <1>1 DEF CaptureInv, ProfilesAreFound
<1> QED
  BY <1>1, <1>3, <1>4, OrdersKeep

LEMMA CaptureStarts == CaptureInit => CaptureInv
<1> SUFFICES ASSUME CaptureInit PROVE CaptureInv
  OBVIOUS
<1>1. CaptureTypeOK
  <2>1. IsComputer(target)
    BY CaptureAssumption DEF CaptureInit, Computers, IsComputer
  <2>2. IsKept(kept)
    BY DEF CaptureInit, IsKept
  <2>3. 1 \in 1..Len(Channels)
    BY ChannelsAre
  <2> QED
    BY <2>1, <2>2, <2>3 DEF CaptureInit, CaptureTypeOK
<1>2. KeptIsSource
  <2> DEFINE none == <<>>
  <2> HIDE DEF none
  <2>1. kept = [packages |-> {}, services |-> {}, lines |-> none, npm |-> {}, files |-> [f \in Configs |-> NoText]]
    BY DEF CaptureInit, none
  <2>2. kept.packages = {} /\ kept.services = {} /\ kept.npm = {} /\ kept.lines = none
        /\ \A f \in Configs : kept.files[f] = NoText
    BY <2>1
  <2> QED
    BY <2>2 DEF KeptIsSource, none
<1>3. TargetIsSource
  BY DEF CaptureInit, TargetIsSource, FileIsFaithful
<1>4. ProfilesAreFound
  <2> DEFINE none == <<>>
  <2>1. none \in Seq(everFound) /\ none \in Seq(ProfilesOf(everFound))
    OBVIOUS
  <2>2. probe = none /\ found = none /\ profiles = none
    BY DEF CaptureInit
  <2> QED
    BY <2>1, <2>2 DEF ProfilesAreFound, ProfilesOf
<1> QED
  BY <1>1, <1>2, <1>3, <1>4 DEF CaptureInv

-----------------------------------------------------------------------------
LEMMA OnwardIs ==
    ASSUME CaptureTypeOK, Onward, turn.phase \in {"read", "restore"}
    PROVE  /\ turn' = [phase |-> turn'.phase, at |-> turn'.at]
           /\ turn'.phase \in {"read", "restore", "done"} /\ turn'.at \in 1..Len(Channels)
           /\ turn.phase = "read" /\ turn'.phase = "restore" => turn'.at = 1
           /\ turn.phase = "restore" => turn'.phase # "read"
           /\ turn.phase = "restore" /\ turn'.phase = "restore" => turn'.at = turn.at + 1
<1>1. /\ Len(Channels) \in Nat /\ Len(Channels) > 4 /\ turn.at \in 1..Len(Channels)
      /\ turn = [phase |-> turn.phase, at |-> turn.at]
  BY ChannelsAre DEF CaptureTypeOK
<1> DEFINE M == Len(Channels)
<1> HIDE DEF M
<1>2. CASE turn.at < M
  <2>1. turn' = [turn EXCEPT !.at = @ + 1]
    BY <1>2 DEF Onward, M
  <2>2. turn' = [phase |-> turn.phase, at |-> turn.at + 1]
    BY <1>1, <2>1
  <2>3. turn'.phase = turn.phase /\ turn'.at = turn.at + 1
    BY <2>2
  <2> QED
    BY <1>1, <1>2, <2>2, <2>3 DEF M
<1>3. CASE ~(turn.at < M)
  <2>1. turn' = [phase |-> IF turn.phase = "read" THEN "restore" ELSE "done", at |-> 1]
    BY <1>3 DEF Onward, M
  <2>2. turn'.phase = (IF turn.phase = "read" THEN "restore" ELSE "done") /\ turn'.at = 1
    BY <2>1
  <2>3. 1 \in 1..Len(Channels)
    BY <1>1
  <2> QED
    BY <1>1, <2>1, <2>2, <2>3
<1> QED
  BY <1>2, <1>3

\* Which channel is next.
LEMMA ChannelIs ==
    ASSUME CaptureTypeOK
    PROVE  \/ Channel = "packages" \/ Channel = "services"
           \/ Channel = "lines" /\ turn.at = 3
           \/ Channel = "npm"
           \/ Channel \in Configs /\ turn.at > 4
<1>1. turn.at \in 1..Len(Channels) /\ Len(Channels) \in Nat
  BY ChannelsAre DEF CaptureTypeOK
<1>2. turn.at = 1 \/ turn.at = 2 \/ turn.at = 3 \/ turn.at = 4 \/ turn.at \in 5..Len(Channels)
  BY <1>1
<1> QED
  BY <1>1, <1>2, ChannelsAre DEF Channel

\* A read is good if what it adds to what is kept is.
LEMMA ReadKeeps ==
    ASSUME CaptureInv, Reading, Onward, IsKept(kept'), KeptIsSource',
           source' = source, target' = target, UNCHANGED profileVars
    PROVE  CaptureInv'
<1>1. turn.phase = "read" /\ target = Fresh
  BY DEF Reading, CaptureInv, TargetIsSource
<1>2. CaptureTypeOK'
  BY <1>1, OnwardIs DEF CaptureInv, CaptureTypeOK
<1>3. turn'.phase = "restore" => turn'.at = 1
  BY <1>1, OnwardIs DEF CaptureInv
<1>4. target' = Fresh
  BY <1>1
<1>5. TargetIsSource'
  <2>1. \A f \in Configs : FileIsFaithful(f)'
    BY <1>4 DEF FileIsFaithful
  <2> QED
    BY <1>4, <2>1 DEF TargetIsSource
<1>6. ProfilesAreFound'
  BY DEF CaptureInv, ProfilesAreFound, profileVars
<1> QED
  BY <1>2, <1>5, <1>6 DEF CaptureInv

\* What is kept after a channel was read.
LEMMA KeptAfter ==
    ASSUME NEW c, NEW a, NEW code, IsKept(kept), kept' = Keep(c, a, code),
           c \in {"packages", "services", "lines", "npm"} \cup Configs
    PROVE  /\ IsKept(kept')
           /\ kept'.packages = IF c = "packages" THEN a \cap Known ELSE kept.packages
           /\ kept'.services = IF c = "services" THEN a ELSE kept.services
           /\ kept'.npm = IF c = "npm" THEN a ELSE kept.npm
           /\ kept'.lines = IF c = "lines" THEN [i \in DOMAIN a |-> MaskLine(a[i])] ELSE kept.lines
           /\ \A f \in Configs : kept'.files[f] = IF f = c /\ Stores(a, code) THEN Scan(a) ELSE kept.files[f]
<1>0. \A f \in Configs : f \notin {"packages", "services", "lines", "npm"}
  BY ChannelsAre
<1>1. CASE c = "packages"
  <2>1. kept' = [kept EXCEPT !.packages = a \cap Known]
    BY <1>1 DEF Keep
  <2> QED
    BY <1>0, <1>1, <2>1 DEF IsKept
<1>2. CASE c = "services"
  <2>1. kept' = [kept EXCEPT !.services = a]
    BY <1>2 DEF Keep
  <2> QED
    BY <1>0, <1>2, <2>1 DEF IsKept
<1>3. CASE c = "npm"
  <2>1. kept' = [kept EXCEPT !.npm = a]
    BY <1>3 DEF Keep
  <2> QED
    BY <1>0, <1>3, <2>1 DEF IsKept
<1>4. CASE c = "lines"
  <2> DEFINE ls == [i \in DOMAIN a |-> MaskLine(a[i])]
  <2>1. kept' = [kept EXCEPT !.lines = ls]
    BY <1>4 DEF Keep
  <2> HIDE DEF ls
  <2>2. /\ IsKept(kept') /\ kept'.packages = kept.packages /\ kept'.services = kept.services
        /\ kept'.npm = kept.npm /\ kept'.lines = ls /\ kept'.files = kept.files
    BY <2>1 DEF IsKept
  <2> QED
    BY <1>0, <1>4, <2>2 DEF ls
<1>5. CASE c \in Configs
  <2>1. kept' = IF Stores(a, code) THEN [kept EXCEPT !.files[c] = Scan(a)] ELSE kept
    BY <1>0, <1>5 DEF Keep
  <2>2. CASE ~Stores(a, code)
    BY <1>0, <1>5, <2>1, <2>2
  <2>3. CASE Stores(a, code)
    <3> DEFINE t == Scan(a)
               fs == [kept.files EXCEPT ![c] = t]
    <3>1. kept' = [kept EXCEPT !.files = fs]
      BY <2>1, <2>3
    <3> HIDE DEF t
    <3>2. fs = [f \in Configs |-> fs[f]] /\ \A f \in Configs : fs[f] = IF f = c THEN t ELSE kept.files[f]
      BY <1>5 DEF IsKept
    <3> HIDE DEF fs
    <3>3. /\ IsKept(kept') /\ kept'.packages = kept.packages /\ kept'.services = kept.services
          /\ kept'.npm = kept.npm /\ kept'.lines = kept.lines /\ kept'.files = fs
      BY <3>1, <3>2 DEF IsKept
    <3> QED
      BY <1>0, <1>5, <2>3, <3>2, <3>3 DEF t
  <2> QED
    BY <2>2, <2>3
<1> QED
  BY <1>1, <1>2, <1>3, <1>4, <1>5

LEMMA SourceIs == ASSUME CaptureTypeOK PROVE \A f \in Configs : source.files[f] \in Texts \cup {NoText}
<1>1. source \in Computers
  BY CaptureAssumption DEF CaptureTypeOK
<1>2. source.files \in [Configs -> Texts \cup {NoText}]
  BY <1>1 DEF Computers
<1> QED
  BY <1>2

LEMMA ReadChannelKeeps == ASSUME CaptureInv, ReadChannel PROVE CaptureInv'
<1> DEFINE c == Channel
           a == Whole(c, source)
           code == IF c \in Configs /\ source.files[c] = NoText THEN 1 ELSE 0
<1>1. /\ Reading /\ kept' = Keep(c, a, code) /\ Onward /\ source' = source /\ target' = target
      /\ cut' = cut /\ UNCHANGED profileVars
  BY DEF ReadChannel
<1>2. c \in {"packages", "services", "lines", "npm"} \cup Configs
  BY ChannelIs DEF CaptureInv
<1>3. /\ c = "packages" => a = source.packages
      /\ c = "services" => a = source.services
      /\ c = "npm" => a = source.npm
      /\ c = "lines" => a = ShellLines(source.files[Bashrc])
      /\ c \in Configs /\ code = 0 => a = source.files[c] /\ a \in Texts /\ a # NoText
  <2>1. c \in Configs => c \notin {"packages", "services", "lines", "npm"}
    BY ChannelsAre
  <2>2. c \in Configs => source.files[c] \in Texts \cup {NoText}
    BY SourceIs DEF CaptureInv
  <2>3. code = 0 /\ c \in Configs => source.files[c] # NoText
    OBVIOUS
  <2>4. c \in Configs => a = IF source.files[c] = NoText THEN <<>> ELSE source.files[c]
    BY <2>1 DEF Whole
  <2>5. c = "packages" => a = source.packages
    BY DEF Whole
  <2>6. c = "services" => a = source.services
    BY DEF Whole
  <2>7. c = "npm" => a = source.npm
    BY DEF Whole
  <2>8. c = "lines" => a = ShellLines(source.files[Bashrc])
    BY DEF Whole
  <2> HIDE DEF c, a, code
  <2> QED
    BY <2>2, <2>3, <2>4, <2>5, <2>6, <2>7, <2>8
<1>4. IsKept(kept) /\ KeptIsSource
  BY DEF CaptureInv, CaptureTypeOK
<1> HIDE DEF c, a, code
<1>5. /\ IsKept(kept')
      /\ kept'.packages = IF c = "packages" THEN a \cap Known ELSE kept.packages
      /\ kept'.services = IF c = "services" THEN a ELSE kept.services
      /\ kept'.npm = IF c = "npm" THEN a ELSE kept.npm
      /\ kept'.lines = IF c = "lines" THEN [i \in DOMAIN a |-> MaskLine(a[i])] ELSE kept.lines
      /\ \A f \in Configs : kept'.files[f] = IF f = c /\ Stores(a, code) THEN Scan(a) ELSE kept.files[f]
  BY <1>1, <1>2, <1>4, KeptAfter
<1>6. KeptIsSource'
  <2>1. kept'.packages \subseteq source.packages \cap Known
    BY <1>3, <1>4, <1>5 DEF KeptIsSource
  <2>2. kept'.services \subseteq source.services \cup Partly("services")
    BY <1>3, <1>4, <1>5 DEF KeptIsSource
  <2>3. kept'.npm \subseteq source.npm \cup Partly("npm")
    BY <1>3, <1>4, <1>5 DEF KeptIsSource
  <2>4. "lines" \in cut \/ kept'.lines = <<>> \/ kept'.lines = MaskedLines
    <3>1. CASE c = "lines"
      BY <1>3, <1>5, <3>1 DEF MaskedLines
    <3>2. CASE c # "lines"
      BY <1>4, <1>5, <3>2 DEF KeptIsSource
    <3> QED
      BY <3>1, <3>2
  <2>5. ASSUME NEW f \in Configs
        PROVE  \/ f \in cut \/ kept'.files[f] = NoText
               \/ source.files[f] # NoText /\ kept'.files[f] = Masked(source.files[f])
    <3>1. CASE f = c /\ Stores(a, code)
      BY <1>3, <1>5, <3>1, ScanIsMasked DEF Stores
    <3>2. CASE ~(f = c /\ Stores(a, code))
      BY <1>4, <1>5, <3>2 DEF KeptIsSource
    <3> QED
      BY <3>1, <3>2
  <2> QED
    BY <1>1, <2>1, <2>2, <2>3, <2>4, <2>5 DEF KeptIsSource, Partly, MaskedLines
<1> QED
  BY <1>1, <1>5, <1>6, ReadKeeps

\* An answer that is cut is seen, and not kept, or its channel is among those of the exception.
LEMMA ReadCutKeeps == ASSUME CaptureInv, ReadCut PROVE CaptureInv'
<1> DEFINE c == Channel
<1>1. PICK code \in {0, 0 - 1} : \E a \in Parts(c, source) :
          /\ kept' = Keep(c, a, code)
          /\ cut' = IF c \in Configs /\ code # 0 THEN cut ELSE cut \cup {c}
  BY DEF ReadCut
<1>2. PICK a \in Parts(c, source) :
          /\ kept' = Keep(c, a, code)
          /\ cut' = IF c \in Configs /\ code # 0 THEN cut ELSE cut \cup {c}
  BY <1>1
<1>3. /\ Reading /\ Onward /\ source' = source /\ target' = target /\ UNCHANGED profileVars
  BY DEF ReadCut
<1>4. c \in {"packages", "services", "lines", "npm"} \cup Configs
  BY ChannelIs DEF CaptureInv
<1>5. /\ c = "packages" => a \subseteq source.packages
      /\ c = "services" => a \subseteq source.services \cup {Fragment}
      /\ c = "npm" => a \subseteq source.npm \cup {Fragment}
  <2>1. c = "packages" => Parts(c, source) = SUBSET source.packages
    BY DEF Parts
  <2>2. c = "services" => Parts(c, source) = {s \cup h : s \in SUBSET source.services, h \in {{}, {Fragment}}}
    BY DEF Parts
  <2>3. c = "npm" => Parts(c, source) = {s \cup h : s \in SUBSET source.npm, h \in {{}, {Fragment}}}
    BY DEF Parts
  <2> HIDE DEF c
  <2>4. c = "services" => a \subseteq source.services \cup {Fragment}
    BY <2>2
  <2>5. c = "npm" => a \subseteq source.npm \cup {Fragment}
    BY <2>3
  <2> QED
    BY <2>1, <2>4, <2>5
<1>6. IsKept(kept) /\ KeptIsSource
  BY DEF CaptureInv, CaptureTypeOK
<1>7. \A f \in Configs : f \notin {"packages", "services", "lines", "npm"}
  BY ChannelsAre
<1> HIDE DEF c
<1>8. /\ IsKept(kept')
      /\ kept'.packages = IF c = "packages" THEN a \cap Known ELSE kept.packages
      /\ kept'.services = IF c = "services" THEN a ELSE kept.services
      /\ kept'.npm = IF c = "npm" THEN a ELSE kept.npm
      /\ kept'.lines = IF c = "lines" THEN [i \in DOMAIN a |-> MaskLine(a[i])] ELSE kept.lines
      /\ \A f \in Configs : kept'.files[f] = IF f = c /\ Stores(a, code) THEN Scan(a) ELSE kept.files[f]
  BY <1>2, <1>4, <1>6, KeptAfter
<1>9. cut \subseteq cut' /\ (c \notin Configs => c \in cut')
  BY <1>2
<1>10. KeptIsSource'
  <2>1. kept'.packages \subseteq source.packages \cap Known
    BY <1>5, <1>6, <1>8 DEF KeptIsSource
  <2>2. kept'.services \subseteq source.services \cup Partly("services")'
    <3>1. CASE c = "services"
      BY <1>5, <1>7, <1>8, <1>9, <3>1 DEF Partly
    <3>2. CASE c # "services"
      BY <1>6, <1>8, <1>9, <3>2 DEF KeptIsSource, Partly
    <3> QED
      BY <3>1, <3>2
  <2>3. kept'.npm \subseteq source.npm \cup Partly("npm")'
    <3>1. CASE c = "npm"
      BY <1>5, <1>7, <1>8, <1>9, <3>1 DEF Partly
    <3>2. CASE c # "npm"
      BY <1>6, <1>8, <1>9, <3>2 DEF KeptIsSource, Partly
    <3> QED
      BY <3>1, <3>2
  <2>4. "lines" \in cut' \/ kept'.lines = <<>> \/ kept'.lines = MaskedLines
    <3>1. CASE c = "lines"
      BY <1>7, <1>9, <3>1
    <3>2. CASE c # "lines"
      BY <1>6, <1>8, <1>9, <3>2 DEF KeptIsSource
    <3> QED
      BY <3>1, <3>2
  <2>5. ASSUME NEW f \in Configs
        PROVE  \/ f \in cut' \/ kept'.files[f] = NoText
               \/ source.files[f] # NoText /\ kept'.files[f] = Masked(source.files[f])
    <3>1. CASE f = c /\ Stores(a, code)
      BY <1>2, <3>1 DEF Stores
    <3>2. CASE ~(f = c /\ Stores(a, code))
      BY <1>6, <1>8, <1>9, <3>2 DEF KeptIsSource
    <3> QED
      BY <3>1, <3>2
  <2> QED
    BY <1>3, <2>1, <2>2, <2>3, <2>4, <2>5 DEF KeptIsSource, MaskedLines
<1> QED
  BY <1>3, <1>8, <1>10, ReadKeeps

LEMMA ReadThrowsKeeps == ASSUME CaptureInv, ReadThrows PROVE CaptureInv'
<1>1. /\ Reading /\ Onward /\ source' = source /\ target' = target /\ kept' = kept /\ cut' = cut
      /\ UNCHANGED profileVars
  BY DEF ReadThrows
<1>2. KeptIsSource' /\ IsKept(kept')
  BY <1>1 DEF CaptureInv, CaptureTypeOK, KeptIsSource, Partly, MaskedLines
<1> QED
  BY <1>1, <1>2, ReadKeeps

-----------------------------------------------------------------------------
\* What a task of the restore does to the target.
LEMMA RestoredAre ==
    ASSUME CaptureInv, turn.phase = "restore"
    PROVE  /\ IsComputer(Restored(Channel))
           /\ \/ /\ Channel \in {"packages", "services", "npm"} /\ Restored(Channel).files = target.files
              \/ Channel = "lines" /\ turn.at = 3 /\ kept.lines = <<>> /\ Restored(Channel).files = target.files
              \/ /\ Channel = "lines" /\ turn.at = 3 /\ kept.lines # <<>> /\ target.files = Fresh.files
                 /\ \A f \in Configs : Restored(Channel).files[f] =
                        IF f = Bashrc THEN WithLines(Fresh.files[Bashrc], kept.lines) ELSE target.files[f]
              \/ /\ Channel \in Configs /\ turn.at > 4
                 /\ \A f \in Configs : Restored(Channel).files[f] =
                        IF f = Channel /\ kept.files[f] # NoText THEN kept.files[f] ELSE target.files[f]
           /\ Restored(Channel).packages \subseteq target.packages \cup kept.packages
           /\ Restored(Channel).services \subseteq target.services \cup kept.services
           /\ Restored(Channel).npm \subseteq target.npm \cup kept.npm
<1> DEFINE c == Channel
           r == Restored(c)
<1>1. /\ c = "packages" \/ c = "services" \/ (c = "lines" /\ turn.at = 3) \/ c = "npm" \/ (c \in Configs /\ turn.at > 4)
      /\ IsComputer(target)
  BY ChannelIs DEF CaptureInv, CaptureTypeOK
<1>2. \A f \in Configs : f \notin {"packages", "services", "lines", "npm"}
  BY ChannelsAre
<1>3. turn.at <= 3 => target.files = Fresh.files
  BY DEF CaptureInv, TargetIsSource
<1> SUFFICES /\ IsComputer(r)
             /\ \/ c \in {"packages", "services", "npm"} /\ r.files = target.files
                \/ c = "lines" /\ turn.at = 3 /\ kept.lines = <<>> /\ r.files = target.files
                \/ /\ c = "lines" /\ turn.at = 3 /\ kept.lines # <<>> /\ target.files = Fresh.files
                   /\ \A f \in Configs : r.files[f] =
                        IF f = Bashrc THEN WithLines(Fresh.files[Bashrc], kept.lines) ELSE target.files[f]
                \/ /\ c \in Configs /\ turn.at > 4
                   /\ \A f \in Configs : r.files[f] =
                        IF f = c /\ kept.files[f] # NoText THEN kept.files[f] ELSE target.files[f]
             /\ r.packages \subseteq target.packages \cup kept.packages
             /\ r.services \subseteq target.services \cup kept.services
             /\ r.npm \subseteq target.npm \cup kept.npm
  OBVIOUS
<1> HIDE DEF c
<1>4. CASE c = "packages"
  <2>1. r = [target EXCEPT !.packages = @ \cup kept.packages]
    BY <1>4 DEF Restored
  <2> HIDE DEF r
  <2> QED
    BY <1>1, <1>4, <2>1 DEF IsComputer
<1>5. CASE c = "services"
  <2>1. r = [target EXCEPT !.services = @ \cup kept.services]
    BY <1>5 DEF Restored
  <2> HIDE DEF r
  <2> QED
    BY <1>1, <1>5, <2>1 DEF IsComputer
<1>6. CASE c = "npm"
  <2>1. r = [target EXCEPT !.npm = @ \cup kept.npm]
    BY <1>6 DEF Restored
  <2> HIDE DEF r
  <2> QED
    BY <1>1, <1>6, <2>1 DEF IsComputer
<1>7. CASE c = "lines" /\ turn.at = 3
  <2>1. r = IF kept.lines = <<>> THEN target
            ELSE [target EXCEPT !.files[Bashrc] = WithLines(target.files[Bashrc], kept.lines)]
    BY <1>7 DEF Restored
  <2>2. target.files = Fresh.files
    BY <1>3, <1>7
  <2> DEFINE w == WithLines(Fresh.files[Bashrc], kept.lines)
             fs == [target.files EXCEPT ![Bashrc] = w]
  <2>3. r = IF kept.lines = <<>> THEN target ELSE [target EXCEPT !.files = fs]
    BY <2>1, <2>2
  <2> HIDE DEF r, w
  <2>4. fs = [f \in Configs |-> fs[f]] /\ \A f \in Configs : fs[f] = IF f = Bashrc THEN w ELSE target.files[f]
    BY <1>1, CaptureAssumption DEF IsComputer
  <2> HIDE DEF fs
  <2>5. CASE kept.lines = <<>>
    BY <1>1, <1>7, <2>3, <2>5
  <2>6. CASE kept.lines # <<>>
    <3>1. r = [target EXCEPT !.files = fs]
      BY <2>3, <2>6
    <3>2. IsComputer(r) /\ r.files = fs /\ r.packages = target.packages /\ r.services = target.services /\ r.npm = target.npm
      BY <1>1, <2>4, <3>1 DEF IsComputer
    <3> QED
      BY <1>7, <2>2, <2>4, <2>6, <3>2 DEF w
  <2> QED
    BY <2>5, <2>6
<1>8. CASE c \in Configs /\ turn.at > 4
  <2>1. r = IF kept.files[c] = NoText THEN target ELSE [target EXCEPT !.files[c] = kept.files[c]]
    BY <1>2, <1>8 DEF Restored
  <2> DEFINE w == kept.files[c]
             fs == [target.files EXCEPT ![c] = w]
  <2>2. r = IF w = NoText THEN target ELSE [target EXCEPT !.files = fs]
    BY <2>1
  <2> HIDE DEF r, w
  <2>3. fs = [f \in Configs |-> fs[f]] /\ \A f \in Configs : fs[f] = IF f = c THEN w ELSE target.files[f]
    BY <1>1, <1>8 DEF IsComputer
  <2> HIDE DEF fs
  <2>4. CASE w = NoText
    BY <1>1, <1>8, <2>2, <2>4 DEF w
  <2>5. CASE w # NoText
    <3>1. r = [target EXCEPT !.files = fs]
      BY <2>2, <2>5
    <3>2. IsComputer(r) /\ r.files = fs /\ r.packages = target.packages /\ r.services = target.services /\ r.npm = target.npm
      BY <1>1, <2>3, <3>1 DEF IsComputer
    <3> QED
      BY <1>8, <2>3, <2>5, <3>2 DEF w
  <2> QED
    BY <2>4, <2>5
<1> HIDE DEF r
<1> QED
  BY <1>1, <1>4, <1>5, <1>6, <1>7, <1>8

LEMMA RestoreTaskKeeps == ASSUME CaptureInv, RestoreTask PROVE CaptureInv'
<1>1. /\ turn.phase = "restore" /\ target' = Restored(Channel) /\ Onward
      /\ source' = source /\ kept' = kept /\ cut' = cut /\ UNCHANGED profileVars
  BY DEF RestoreTask
<1>2. /\ turn' = [phase |-> turn'.phase, at |-> turn'.at]
      /\ turn'.phase \in {"read", "restore", "done"} /\ turn'.at \in 1..Len(Channels)
      /\ turn'.phase # "read" /\ (turn'.phase = "restore" => turn'.at = turn.at + 1)
  BY <1>1, OnwardIs DEF CaptureInv
<1>3. CaptureTypeOK'
  <2>1. IsComputer(target')
    BY <1>1, RestoredAre
  <2> QED
    BY <1>1, <1>2, <2>1 DEF CaptureInv, CaptureTypeOK
<1>4. KeptIsSource'
  BY <1>1 DEF CaptureInv, KeptIsSource, Partly, MaskedLines
<1>5. ProfilesAreFound'
  BY <1>1 DEF CaptureInv, ProfilesAreFound, profileVars
<1> DEFINE c == Channel
<1>6. /\ \/ c \in {"packages", "services", "npm"} /\ target'.files = target.files
         \/ c = "lines" /\ turn.at = 3 /\ kept.lines = <<>> /\ target'.files = target.files
         \/ /\ c = "lines" /\ turn.at = 3 /\ kept.lines # <<>> /\ target.files = Fresh.files
            /\ \A f \in Configs : target'.files[f] =
                   IF f = Bashrc THEN WithLines(Fresh.files[Bashrc], kept.lines) ELSE target.files[f]
         \/ /\ c \in Configs /\ turn.at > 4
            /\ \A f \in Configs : target'.files[f] =
                   IF f = c /\ kept.files[f] # NoText THEN kept.files[f] ELSE target.files[f]
      /\ target'.packages \subseteq target.packages \cup kept.packages
      /\ target'.services \subseteq target.services \cup kept.services
      /\ target'.npm \subseteq target.npm \cup kept.npm
  BY <1>1, RestoredAre
<1>7. ASSUME NEW f \in Configs PROVE FileIsFaithful(f)'
  <2>1. FileIsFaithful(f)
    BY DEF CaptureInv, TargetIsSource
  <2>2. CASE target'.files[f] = target.files[f]
    BY <1>1, <2>1, <2>2 DEF FileIsFaithful
  <2>3. CASE target'.files[f] = kept.files[f] /\ kept.files[f] # NoText
    <3>1. f \in cut \/ (source.files[f] # NoText /\ kept.files[f] = Masked(source.files[f]))
      BY <2>3 DEF CaptureInv, KeptIsSource
    <3> QED
      BY <1>1, <2>3, <3>1 DEF FileIsFaithful
  <2>4. CASE /\ kept.lines # <<>> /\ f = Bashrc
             /\ target'.files[f] = WithLines(Fresh.files[Bashrc], kept.lines)
    <3>1. "lines" \in cut \/ kept.lines = MaskedLines
      BY <2>4 DEF CaptureInv, KeptIsSource
    <3>2. "lines" \in cut \/ /\ target'.files[f] = WithLines(Fresh.files[f], MaskedLines)
      BY <2>4, <3>1
    <3> QED
      BY <1>1, <2>4, <3>2 DEF FileIsFaithful, MaskedLines
  <2> QED
    BY <1>6, <2>2, <2>3, <2>4
<1>8. turn'.phase = "restore" /\ turn'.at <= 3 => target'.files = Fresh.files
  <2> SUFFICES ASSUME turn'.phase = "restore", turn'.at <= 3 PROVE target'.files = Fresh.files
    OBVIOUS
  <2>1. turn.at \in 1..Len(Channels) /\ Len(Channels) \in Nat
    BY ChannelsAre DEF CaptureInv, CaptureTypeOK
  <2>2. turn.at < 3
    BY <1>2, <2>1
  <2>3. target.files = Fresh.files
    BY <1>1, <2>2, <2>1 DEF CaptureInv, TargetIsSource
  <2>4. target'.files = target.files
    BY <1>6, <2>1, <2>2
  <2> QED
    BY <2>3, <2>4
<1>9. TargetIsSource'
  <2>1. /\ kept.packages \subseteq source.packages \cap Known
        /\ kept.services \subseteq source.services \cup Partly("services")
        /\ kept.npm \subseteq source.npm \cup Partly("npm")
    BY DEF CaptureInv, KeptIsSource
  <2>2. /\ target.packages \subseteq Fresh.packages \cup (source.packages \cap Known) \cup everFound
        /\ target.services \subseteq Fresh.services \cup source.services \cup everFound \cup Partly("services")
        /\ target.npm \subseteq Fresh.npm \cup source.npm \cup Partly("npm")
    BY DEF CaptureInv, TargetIsSource
  <2>3. everFound' = everFound /\ Partly("services")' = Partly("services") /\ Partly("npm")' = Partly("npm")
    BY <1>1 DEF profileVars, Partly
  <2>4. target'.packages \subseteq Fresh.packages \cup (source.packages \cap Known) \cup everFound
    BY <1>6, <2>1, <2>2
  <2>5. target'.services \subseteq Fresh.services \cup source.services \cup everFound \cup Partly("services")
    BY <1>6, <2>1, <2>2
  <2>6. target'.npm \subseteq Fresh.npm \cup source.npm \cup Partly("npm")
    BY <1>6, <2>1, <2>2
  <2> QED
    BY <1>1, <1>2, <1>7, <1>8, <2>3, <2>4, <2>5, <2>6 DEF TargetIsSource
<1> QED
  BY <1>3, <1>4, <1>5, <1>9 DEF CaptureInv

LEMMA RestoreStopsKeeps == ASSUME CaptureInv, RestoreStops PROVE CaptureInv'
<1>1. /\ turn' = [phase |-> "done", at |-> 1] /\ turn.phase = "restore"
      /\ source' = source /\ target' = target /\ kept' = kept /\ cut' = cut /\ UNCHANGED profileVars
  BY DEF RestoreStops
<1>2. CaptureTypeOK'
  <2>1. 1 \in 1..Len(Channels)
    BY ChannelsAre
  <2> QED
    BY <1>1, <2>1 DEF CaptureInv, CaptureTypeOK
<1>3. KeptIsSource'
  BY <1>1 DEF CaptureInv, KeptIsSource, Partly, MaskedLines
<1>4. TargetIsSource'
  <2>1. \A f \in Configs : FileIsFaithful(f)'
    BY <1>1 DEF CaptureInv, TargetIsSource, FileIsFaithful
  <2>2. everFound' = everFound /\ Partly("services")' = Partly("services") /\ Partly("npm")' = Partly("npm")
    BY <1>1 DEF profileVars, Partly
  <2> QED
    BY <1>1, <2>1, <2>2 DEF CaptureInv, TargetIsSource
<1>5. ProfilesAreFound'
  BY <1>1 DEF CaptureInv, ProfilesAreFound, profileVars
<1> QED
  BY <1>2, <1>3, <1>4, <1>5 DEF CaptureInv

LEMMA CaptureStep == CaptureInv /\ CaptureNext => CaptureInv'
<1> SUFFICES ASSUME CaptureInv, CaptureNext PROVE CaptureInv'
  OBVIOUS
<1>1. CASE ReadChannel
  BY <1>1, ReadChannelKeeps
<1>2. CASE ReadCut
  BY <1>2, ReadCutKeeps
<1>3. CASE ReadThrows
  BY <1>3, ReadThrowsKeeps
<1>4. CASE RestoreTask
  BY <1>4, RestoreTaskKeeps
<1>5. CASE RestoreStops
  BY <1>5, RestoreStopsKeeps
<1>6. CASE \E s \in Softwares : Reprobe(s)
  BY <1>6, ReprobeKeeps
<1>7. CASE \E k \in {"vm-snapshot", "combo"} : ReadProbe(k)
  BY <1>7, ReadProbeKeeps
<1>8. CASE StoreSnapshot \/ StoreCombo
  BY <1>8, StoreKeeps
<1>9. CASE \E i \in 1..MaxOrders : EditComponents(i) \/ DeleteProfile(i)
  BY <1>9, ProfileEditKeeps
<1>10. CASE \E i \in 1..MaxOrders : Execute(i) \/ \E s \in {"software", "services"} : DeployStage(i, s)
  BY <1>10, DeployKeeps
<1>11. CASE \E from \in {"packages", "npm"} : \E n \in target[from] : Uninstall(n, from)
  BY <1>11, UninstallKeeps
<1> QED
  BY <1>1, <1>2, <1>3, <1>4, <1>5, <1>6, <1>7, <1>8, <1>9, <1>10, <1>11 DEF CaptureNext

LEMMA CaptureRests == CaptureInv /\ UNCHANGED captureVars => CaptureInv'
<1> SUFFICES ASSUME CaptureInv, UNCHANGED captureVars PROVE CaptureInv'
  OBVIOUS
<1>1. /\ source' = source /\ target' = target /\ kept' = kept /\ turn' = turn /\ probe' = probe
      /\ found' = found /\ profiles' = profiles /\ cut' = cut /\ everFound' = everFound
  BY DEF captureVars
<1>2. \A f \in Configs : FileIsFaithful(f)'
  BY <1>1 DEF CaptureInv, TargetIsSource, FileIsFaithful
<1>3. CaptureTypeOK' /\ KeptIsSource'
  BY <1>1 DEF CaptureInv, CaptureTypeOK, KeptIsSource, MaskedLines, Partly
<1>4. TargetIsSource' /\ ProfilesAreFound'
  BY <1>1, <1>2 DEF CaptureInv, TargetIsSource, ProfilesAreFound, Partly
<1> QED
  BY <1>3, <1>4 DEF CaptureInv

LEMMA CaptureShows == CaptureInv => RestoredIsWhatWasThere
  BY DEF CaptureInv, TargetIsSource, RestoredIsWhatWasThere, Partly

\* The invariant RestoredIsWhatWasThere holds in every behavior of the server, for every machine,
\* every list of files and every text in them: what captureEnvironment keeps, scanAndRedact masks
\* and a profile or a restore puts on another machine was on a machine before.
THEOREM RestoredWasAlwaysThere == BackendSpec => []RestoredIsWhatWasThere
<1>1. BackendInit => CaptureInv
  BY CaptureStarts DEF BackendInit
<1>2. CaptureInv /\ [BackendNext]_backendVars => CaptureInv'
  <2> SUFFICES ASSUME CaptureInv, [BackendNext]_backendVars PROVE CaptureInv'
    OBVIOUS
  <2>1. [CaptureNext]_captureVars
    BY DEF BackendNext, backendVars
  <2> QED
    BY <2>1, CaptureStep, CaptureRests
<1> QED
  BY <1>1, <1>2, CaptureShows, PTL DEF BackendSpec

-----------------------------------------------------------------------------
(* The runs of playbooks: Playbook_proofs, in the composition.             *)

LEMMA PlaybookMoves == ASSUME [BackendNext]_backendVars PROVE [PlaybookNext]_playbookVars
BY DEF BackendNext, backendVars

\* In every behavior of the server, whatever the playbooks, the machine and what goes wrong: the
\* machine stays a machine of its kind, a run has one status for each task it is past, commands
\* are only pending while a task acts and only on what the task is about, and two runs, or a
\* run and a command that timed out, are at work together only when "together" says so.
\* (runPlaybook, the modules of REGISTRY, Ssh2Executor)
THEOREM PlaybookTypeCorrect == BackendSpec => []PlaybookTypeOK
<1>1. BackendInit => PlaybookTypeOK
  BY TypeStarts DEF BackendInit
<1>2. PlaybookTypeOK /\ [BackendNext]_backendVars => PlaybookTypeOK'
  BY PlaybookMoves, TypeSteps
<1> QED
  BY <1>1, <1>2, PTL DEF BackendSpec

\* The invariant WhatWasThereStays holds in every behavior of the server: the backup of a file
\* that only modules with a backup rewrite is the one that was there, or the file as it was, and
\* the lines of others stay in a file that the modules for lines and blocks change.
\* (copy.ts, lineinfile.ts, systemd_unit.ts, cron.ts, env_path.ts)
THEOREM WhatWasThereAlwaysStays == BackendSpec => []WhatWasThereStays
<1> DEFINE Inv == PlaybookTypeOK /\ OriginalInv /\ LinesInv
<1>1. BackendInit => Inv
  BY TypeStarts, OriginalStarts, LinesStart DEF BackendInit
<1>2. Inv /\ [BackendNext]_backendVars => Inv'
  BY PlaybookMoves, TypeSteps, OriginalSteps, LinesStep
<1>3. Inv => WhatWasThereStays
  BY OriginalFollows, LinesFollow DEF WhatWasThereStays
<1> QED
  BY <1>1, <1>2, <1>3, PTL DEF BackendSpec

\* The invariant AnnouncedBeforehand holds in every behavior of the server: a file that changes
\* is in the preview's list, a play whose risk is called low takes nothing from the machine, a
\* dry run leaves the machine alone, and what a real run changes first, its dry run reported.
\* (collectFileTargets, analyzeTask, runPlaybook with dryRun)
THEOREM AnnouncedAlwaysBeforehand == BackendSpec => []AnnouncedBeforehand
<1> DEFINE Inv == PlaybookTypeOK /\ DryInv /\ RiskInv /\ ReportedInv /\ ForetoldInv
<1>1. BackendInit => Inv
  BY TypeStarts, DryStarts, RiskStarts, ForetoldStarts DEF BackendInit
<1>2. Inv /\ [BackendNext]_backendVars => Inv'
  BY PlaybookMoves, TypeSteps, DryHolds, RiskStep, ReportedStep, ForetoldStep
<1>3. Inv => AnnouncedBeforehand
  BY AnnouncementFollows
<1> QED
  BY <1>1, <1>2, <1>3, PTL DEF BackendSpec

\* The invariant OkMeansInPlace holds in every behavior of the server: what a task of a run that
\* ended well asked for is so on the machine, whatever of its commands failed and were seen to.
\* (runPlaybook, package.ts, service.ts, the modules that write files, user.ts, ufw.ts)
THEOREM OkAlwaysMeansInPlace == BackendSpec => []OkMeansInPlace
<1> DEFINE Inv == PlaybookTypeOK /\ ReposInv /\ InPlaceInv
<1>1. BackendInit => Inv
  BY TypeStarts, ReposStart, InPlaceStart DEF BackendInit
<1>2. Inv /\ [BackendNext]_backendVars => Inv'
  BY PlaybookMoves, TypeSteps, ReposStep, InPlaceStep
<1>3. Inv => OkMeansInPlace
  BY InPlaceFollows
<1> QED
  BY <1>1, <1>2, <1>3, PTL DEF BackendSpec

\* The invariant SecondRunIsQuiet holds in every behavior of the server: the same playbook, run
\* again after it went well, finds nothing to change and ends well.
\* (runPlaybook, evalWhen, the modules of REGISTRY)
THEOREM SecondRunIsAlwaysQuiet == BackendSpec => []SecondRunIsQuiet
<1> DEFINE Inv == PlaybookTypeOK /\ ReposInv /\ CleanInv /\ SkippedInv /\ InPlaceInv /\ QuietInv
<1>1. BackendInit => Inv
  BY TypeStarts, ReposStart, CleanStart, SkippedStart, InPlaceStart, QuietStart DEF BackendInit
<1>2. Inv /\ [BackendNext]_backendVars => Inv'
  BY PlaybookMoves, TypeSteps, ReposStep, CleanStep, SkippedStep, InPlaceStep, QuietStep
<1>3. Inv => SecondRunIsQuiet
  BY QuietFollows
<1> QED
  BY <1>1, <1>2, <1>3, PTL DEF BackendSpec
=============================================================================
