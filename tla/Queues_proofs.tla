----------------------------- MODULE Queues_proofs -----------------------------
(***************************************************************************)
(* Proofs about the queue of e-mails and the store of comments, for any    *)
(* sets of mails, requests and workers and any limits.                     *)
(*                                                                         *)
(* How often a mail was sent follows from where it stands (SendsFit), once *)
(* it is known that the drain loop holds one mail at a time (OneByOne).    *)
(* The limit holds for a recipient who was not excused because at most one *)
(* mail is on its way to him, and while one is there is still room for it  *)
(* (RoomForWhatComes).                                                     *)
(*                                                                         *)
(* A transaction that is open belongs to a call that is still going to end *)
(* it (OwnerInv).  As long as no call has ended that of another, each of   *)
(* them stands alone, so that what a COMMIT makes durable is what one      *)
(* operation wrote from its first statement to its last                    *)
(* (TransactionsStandAlone).                                               *)
(***************************************************************************)
EXTENDS EmailQueue, CommentStore, TLAPS, FiniteSetTheorems

-----------------------------------------------------------------------------
(* The queue of e-mails.                                                   *)

EmailSafety == EmailInit /\ [][EmailNext]_emailVars

MailStates == {"new", "asked", "queued", "current", "settled", "refused", "lost"}
LogEntries == [to : Recipients, ok : BOOLEAN]

EmailTypeOK ==
    /\ mail \in [Mails -> MailStates]
    /\ queue \in Seq(Mails)
    /\ drain \in {"off", "woken", "on"}
    /\ attempts \in 0..MaxMailAttempts
    /\ logging \in {"no", "sent", "failed"}
    /\ hour \in Seq(LogEntries)
    /\ up \in BOOLEAN
    /\ logFailures \in 0..MaxLogFailures
    /\ sent \in [Mails -> Nat] /\ unlogged \in [Mails -> Nat]
    /\ excused \subseteq Recipients

\* The waiting mails wait once, one mail is delivered at a time, and only a
\* mail that is being delivered is written to the log.
OneByOne ==
    /\ \A i, j \in 1..Len(queue) : queue[i] = queue[j] => i = j
    /\ \A i \in 1..Len(queue) : mail[queue[i]] = "queued"
    /\ \A m, n \in Current : m = n
    /\ logging # "no" => Current # {}

SendsFit ==
    \A m \in Mails :
        /\ sent[m] <= unlogged[m] + 1
        /\ mail[m] \notin {"current", "settled", "lost"} => sent[m] <= unlogged[m]
        /\ mail[m] = "current" /\ logging # "sent" => sent[m] <= unlogged[m]

RoomForWhatComes ==
    \A t \in Recipients \ excused :
        /\ Delivered(t, DOMAIN hour) <= Limit
        /\ OnTheWay(t) # {} => Delivered(t, DOMAIN hour) < Limit
        /\ \A m, n \in OnTheWay(t) : m = n

EmailInv == EmailTypeOK /\ OneByOne /\ SendsFit /\ RoomForWhatComes

-----------------------------------------------------------------------------
\* What is counted: the successful entries for t in a log h.
Deliveries(t, h) == {i \in DOMAIN h : h[i].to = t /\ h[i].ok}

LEMMA DeliveriesAreFinite ==
    ASSUME NEW t, NEW h \in Seq(LogEntries)
    PROVE  /\ IsFiniteSet(Deliveries(t, h))
           /\ Cardinality(Deliveries(t, h)) \in Nat
<1>1. DOMAIN h = 1..Len(h) /\ Len(h) \in Nat
  OBVIOUS
<1>2. IsFiniteSet(1..Len(h))
  BY <1>1, FS_Interval
<1>3. IsFiniteSet(Deliveries(t, h))
  BY <1>1, <1>2, FS_Subset DEF Deliveries
<1> QED BY <1>3, FS_CardinalityType

\* An entry that is appended counts if it is for t and a success.
LEMMA AppendDelivers ==
    ASSUME NEW t, NEW h \in Seq(LogEntries), NEW e \in LogEntries
    PROVE  Cardinality(Deliveries(t, Append(h, e))) =
               Cardinality(Deliveries(t, h)) + IF e.to = t /\ e.ok THEN 1 ELSE 0
<1> DEFINE n == Len(h) + 1
           g == Append(h, e)
<1>1. /\ DOMAIN g = 1..n /\ g[n] = e /\ n \notin 1..Len(h)
      /\ DOMAIN h = 1..Len(h) /\ \A i \in 1..Len(h) : g[i] = h[i]
      /\ 1..n = 1..Len(h) \cup {n}
  OBVIOUS
<1>2. CASE e.to = t /\ e.ok
  <2>1. Deliveries(t, g) = Deliveries(t, h) \cup {n} /\ n \notin Deliveries(t, h)
    <3> HIDE DEF g, n
    <3> QED BY <1>1, <1>2 DEF Deliveries
  <2>2. /\ IsFiniteSet(Deliveries(t, h))
        /\ Cardinality(Deliveries(t, h)) \in Nat
    BY DeliveriesAreFinite
  <2> HIDE DEF n
  <2>3. Cardinality(Deliveries(t, g)) = Cardinality(Deliveries(t, h)) + 1
    BY <2>1, <2>2, FS_AddElement
  <2> QED BY <2>3, <1>2
<1>3. CASE ~(e.to = t /\ e.ok)
  <2>1. Deliveries(t, g) = Deliveries(t, h)
    <3> HIDE DEF g, n
    <3> QED BY <1>1, <1>3 DEF Deliveries
  <2>2. Cardinality(Deliveries(t, h)) \in Nat
    BY DeliveriesAreFinite
  <2> QED BY <2>1, <2>2, <1>3
<1> QED BY <1>2, <1>3

\* A log without its oldest entry does not count more.
LEMMA TailDelivers ==
    ASSUME NEW t, NEW h \in Seq(LogEntries), h # <<>>
    PROVE  Cardinality(Deliveries(t, Tail(h))) <= Cardinality(Deliveries(t, h))
<1> DEFINE f == [i \in Deliveries(t, Tail(h)) |-> i + 1]
<1>1. /\ Tail(h) \in Seq(LogEntries)
      /\ DOMAIN h = 1..Len(h) /\ DOMAIN Tail(h) = 1..(Len(h) - 1)
      /\ \A i \in 1..(Len(h) - 1) : Tail(h)[i] = h[i + 1]
  OBVIOUS
<1>2. \A i \in Deliveries(t, Tail(h)) : i \in Nat /\ i + 1 \in Deliveries(t, h)
  BY <1>1 DEF Deliveries
<1>3. f \in Injection(Deliveries(t, Tail(h)), Deliveries(t, h))
  BY <1>2 DEF Injection, IsInjective
<1> QED BY <1>3, DeliveriesAreFinite, FS_Injection

LEMMA DeliveredIs == \A t : Delivered(t, DOMAIN hour) = Cardinality(Deliveries(t, hour))
BY DEF Delivered, Deliveries

\* What writing the log does to the count of each recipient.
LEMMA LoggedCounts ==
    ASSUME hour \in Seq(LogEntries), NEW u \in Recipients, NEW ok \in BOOLEAN, Logged(u, ok), NEW t
    PROVE  /\ hour' \in Seq(LogEntries)
           /\ Delivered(t, DOMAIN hour) \in Nat
           /\ Delivered(t, DOMAIN hour)' =
                  Delivered(t, DOMAIN hour) + IF u = t /\ ok THEN 1 ELSE 0
<1> DEFINE e == [to |-> u, ok |-> ok]
<1>1. e \in LogEntries /\ e.to = u /\ e.ok = ok
  BY DEF LogEntries
<1>2. hour' = Append(hour, e)
  BY DEF Logged
<1> HIDE DEF e
<1>3. hour' \in Seq(LogEntries)
  BY <1>1, <1>2
<1>4. Delivered(t, DOMAIN hour)' = Cardinality(Deliveries(t, hour'))
  BY DEF Delivered, Deliveries
<1>5. Delivered(t, DOMAIN hour) = Cardinality(Deliveries(t, hour))
  BY DEF Delivered, Deliveries
<1>6. Cardinality(Deliveries(t, hour')) =
          Cardinality(Deliveries(t, hour)) + IF e.to = t /\ e.ok THEN 1 ELSE 0
  BY <1>1, <1>2, AppendDelivers
<1>7. Cardinality(Deliveries(t, hour)) \in Nat
  BY DeliveriesAreFinite
<1> QED BY <1>1, <1>3, <1>4, <1>5, <1>6, <1>7

LEMMA DeliveredIsNat == hour \in Seq(LogEntries) => \A t : Delivered(t, DOMAIN hour) \in Nat
BY DeliveriesAreFinite DEF Delivered, Deliveries

-----------------------------------------------------------------------------
LEMMA InitEmailInv == EmailInit => EmailInv
<1> SUFFICES ASSUME EmailInit PROVE EmailInv
  OBVIOUS
<1> USE EmailAssumption DEF EmailInit
<1>1. EmailTypeOK
  BY DEF EmailTypeOK, MailStates
<1>2. OneByOne
  BY DEF OneByOne, Current
<1>3. SendsFit
  BY DEF SendsFit
<1>4. \A t : Delivered(t, DOMAIN hour) = 0
  <2>1. \A t : {i \in DOMAIN hour : hour[i].to = t /\ hour[i].ok} = {}
    OBVIOUS
  <2> QED BY <2>1, FS_EmptySet DEF Delivered
<1>5. RoomForWhatComes
  BY <1>4 DEF RoomForWhatComes, OnTheWay
<1> QED BY <1>1, <1>2, <1>3, <1>5 DEF EmailInv

\* A mail that is on its way, or that just left, is the only one to t.
LEMMA AskKeepsInv ==
    ASSUME EmailInv, NEW m \in Mails, AskForMail(m)
    PROVE  EmailInv'
<1> USE EmailAssumption
<1> DEFINE t == To[m]
<1>0. EmailTypeOK /\ OneByOne /\ SendsFit /\ RoomForWhatComes
  BY DEF EmailInv
<1>t. t \in Recipients
  BY DEF Recipients
<1>u. UNCHANGED <<queue, drain, attempts, logging, up, logFailures, sent, unlogged>> /\ mail[m] = "new"
  BY DEF AskForMail
<1>1. CASE RateAllows(m)
  <2>1. /\ mail' = [mail EXCEPT ![m] = "asked"] /\ hour' = hour
        /\ excused' = excused \cup (IF OnTheWay(t) # {} \/ Len(hour) > MaxLog THEN {t} ELSE {})
    BY <1>1 DEF AskForMail
  <2>2. EmailTypeOK'
    BY <1>0, <1>t, <1>u, <2>1 DEF EmailTypeOK, MailStates
  <2>3. OneByOne'
    <3>1. \A i \in 1..Len(queue) : queue[i] # m /\ queue[i] \in Mails
      BY <1>0, <1>u DEF OneByOne, EmailTypeOK
    <3>2. \A i \in 1..Len(queue') : mail'[queue'[i]] = "queued"
      BY <1>0, <1>u, <2>1, <3>1 DEF OneByOne, EmailTypeOK
    <3>3. Current' = Current
      BY <1>0, <1>u, <2>1 DEF Current, EmailTypeOK
    <3> QED BY <1>0, <1>u, <3>2, <3>3 DEF OneByOne
  <2>4. SendsFit'
    BY <1>0, <1>u, <2>1 DEF SendsFit, EmailTypeOK, MailStates
  <2>5. ASSUME NEW s \in Recipients \ excused'
        PROVE  /\ Delivered(s, DOMAIN hour)' <= Limit
               /\ OnTheWay(s)' # {} => Delivered(s, DOMAIN hour)' < Limit
               /\ \A k, n \in OnTheWay(s)' : k = n
    <3>1. s \in Recipients \ excused /\ Delivered(s, DOMAIN hour)' = Delivered(s, DOMAIN hour)
      BY <2>1 DEF Delivered
    <3>2. CASE s # t
      <4>1. OnTheWay(s)' = OnTheWay(s)
        BY <2>1, <3>2, <1>0 DEF OnTheWay, EmailTypeOK, MailStates
      <4> QED BY <3>1, <4>1, <1>0 DEF RoomForWhatComes
    <3>3. CASE s = t
      <4>1. OnTheWay(t) = {} /\ ~(Len(hour) > MaxLog)
        BY <2>1, <3>3
      <4>2. Kept = DOMAIN hour
        <5>1. Len(hour) \in Nat /\ MaxLog \in Nat /\ DOMAIN hour = 1..Len(hour)
          BY <1>0 DEF EmailTypeOK, EmailAssumption
        <5> QED BY <4>1, <5>1 DEF Kept
      <4>3. Delivered(t, DOMAIN hour) < Limit
        BY <1>1, <4>2 DEF RateAllows
      <4>4. OnTheWay(t)' \subseteq {m}
        BY <4>1, <2>1, <1>0 DEF OnTheWay, EmailTypeOK, MailStates
      <4>5. Delivered(t, DOMAIN hour) \in Nat /\ Limit \in Nat
        BY <1>0, DeliveredIsNat DEF EmailTypeOK, EmailAssumption
      <4> QED BY <3>1, <3>3, <4>3, <4>4, <4>5
    <3> QED BY <3>2, <3>3
  <2> QED BY <2>2, <2>3, <2>4, <2>5 DEF EmailInv, RoomForWhatComes
<1>2. CASE ~RateAllows(m)
  <2>1. mail' = [mail EXCEPT ![m] = "refused"] /\ Logged(t, FALSE) /\ excused' = excused
    BY <1>2 DEF AskForMail
  <2>0. hour \in Seq(LogEntries)
    BY <1>0 DEF EmailTypeOK
  <2>h. /\ hour' \in Seq(LogEntries)
        /\ \A s : Delivered(s, DOMAIN hour)' = Delivered(s, DOMAIN hour)
    <3> HIDE DEF t
    <3>1. ASSUME NEW s
          PROVE  /\ hour' \in Seq(LogEntries)
                 /\ Delivered(s, DOMAIN hour) \in Nat
                 /\ Delivered(s, DOMAIN hour)' =
                       Delivered(s, DOMAIN hour) + IF t = s /\ FALSE THEN 1 ELSE 0
      <4>1. FALSE \in BOOLEAN
        OBVIOUS
      <4> QED BY <2>0, <2>1, <1>t, <4>1, LoggedCounts
    <3> QED BY <3>1
  <2>2. EmailTypeOK'
    BY <1>0, <1>u, <2>1, <2>h DEF EmailTypeOK, MailStates
  <2>3. OneByOne'
    <3>1. \A i \in 1..Len(queue) : queue[i] # m /\ queue[i] \in Mails
      BY <1>0, <1>u DEF OneByOne, EmailTypeOK
    <3>2. \A i \in 1..Len(queue') : mail'[queue'[i]] = "queued"
      BY <1>0, <1>u, <2>1, <3>1 DEF OneByOne, EmailTypeOK
    <3>3. Current' = Current
      BY <1>0, <1>u, <2>1 DEF Current, EmailTypeOK
    <3> QED BY <1>0, <1>u, <3>2, <3>3 DEF OneByOne
  <2>4. SendsFit'
    BY <1>0, <1>u, <2>1 DEF SendsFit, EmailTypeOK, MailStates
  <2>5. \A s : OnTheWay(s)' = OnTheWay(s)
    BY <1>0, <1>u, <2>1 DEF OnTheWay, EmailTypeOK, MailStates
  <2>6. RoomForWhatComes'
    BY <1>0, <2>1, <2>h, <2>5 DEF RoomForWhatComes, Recipients
  <2> QED BY <2>2, <2>3, <2>4, <2>6 DEF EmailInv
<1> QED BY <1>1, <1>2

\* While no mail comes or goes for anybody and nothing is logged.
LEMMA SameRoom ==
    ASSUME RoomForWhatComes, hour' = hour, excused' = excused,
           \A s : OnTheWay(s)' = OnTheWay(s)
    PROVE  RoomForWhatComes'
<1>1. \A s : Delivered(s, DOMAIN hour)' = Delivered(s, DOMAIN hour)
  BY DEF Delivered
<1> QED BY <1>1 DEF RoomForWhatComes, Recipients

LEMMA QueueKeepsInv ==
    ASSUME EmailInv, NEW m \in Mails, QueueMail(m)
    PROVE  EmailInv'
<1>0. EmailTypeOK /\ OneByOne /\ SendsFit /\ RoomForWhatComes
  BY DEF EmailInv
<1>1. /\ mail[m] = "asked" /\ mail' = [mail EXCEPT ![m] = "queued"]
      /\ queue' = Append(queue, m)
      /\ drain' \in {"off", "woken", "on"}
      /\ UNCHANGED <<attempts, logging, hour, up, logFailures, sent, unlogged, excused>>
  BY <1>0 DEF QueueMail, EmailTypeOK
<1>2. EmailTypeOK'
  BY <1>0, <1>1 DEF EmailTypeOK, MailStates
<1>3. OneByOne'
  <2>1. /\ Len(queue') = Len(queue) + 1 /\ queue'[Len(queue) + 1] = m
        /\ Len(queue) \in Nat
        /\ \A i \in 1..Len(queue) : queue'[i] = queue[i] /\ queue[i] # m /\ queue[i] \in Mails
    BY <1>0, <1>1 DEF EmailTypeOK, OneByOne
  <2>2. \A i, j \in 1..Len(queue') : queue'[i] = queue'[j] => i = j
    BY <1>0, <2>1 DEF OneByOne
  <2>3. ASSUME NEW i \in 1..Len(queue') PROVE mail'[queue'[i]] = "queued"
    <3>1. mail'[m] = "queued" /\ \A n \in Mails : n # m => mail'[n] = mail[n]
      BY <1>0, <1>1 DEF EmailTypeOK
    <3>2. CASE i = Len(queue) + 1
      BY <2>1, <3>1, <3>2
    <3>3. CASE i \in 1..Len(queue)
      BY <1>0, <2>1, <3>1, <3>3 DEF OneByOne
    <3> QED BY <2>1, <3>2, <3>3
  <2>4. Current' = Current
    BY <1>0, <1>1 DEF Current, EmailTypeOK, MailStates
  <2> QED BY <1>0, <1>1, <2>2, <2>3, <2>4 DEF OneByOne
<1>4. SendsFit'
  BY <1>0, <1>1 DEF SendsFit, EmailTypeOK, MailStates
<1>5. \A s : OnTheWay(s)' = OnTheWay(s)
  BY <1>0, <1>1 DEF OnTheWay, EmailTypeOK, MailStates
<1> QED BY <1>0, <1>1, <1>2, <1>3, <1>4, <1>5, SameRoom DEF EmailInv

LEMMA DrainKeepsInv ==
    ASSUME EmailInv, DrainStep
    PROVE  EmailInv'
<1> USE EmailAssumption
<1>0. EmailTypeOK /\ OneByOne /\ SendsFit /\ RoomForWhatComes
  BY DEF EmailInv
<1>1. /\ Current = {} /\ attempts' = 0
      /\ UNCHANGED <<logging, hour, up, logFailures, sent, unlogged, excused>>
      /\ logging = "no"
  BY <1>0 DEF DrainStep, OneByOne
<1>2. CASE queue = <<>>
  <2>1. drain' = "off" /\ UNCHANGED <<mail, queue>>
    BY <1>2 DEF DrainStep
  <2>2. EmailTypeOK'
    BY <1>0, <1>1, <2>1 DEF EmailTypeOK, EmailAssumption
  <2>3. OneByOne' /\ SendsFit'
    BY <1>0, <1>1, <2>1 DEF OneByOne, Current, SendsFit
  <2>4. \A s : OnTheWay(s)' = OnTheWay(s)
    BY <2>1 DEF OnTheWay
  <2> QED BY <1>0, <1>1, <2>2, <2>3, <2>4, SameRoom DEF EmailInv
<1>3. CASE queue # <<>>
  <2> DEFINE m == queue[1]
  <2>1. /\ drain' = "on" /\ mail' = [mail EXCEPT ![m] = "current"] /\ queue' = Tail(queue)
        /\ m \in Mails /\ mail[m] = "queued"
        /\ Tail(queue) \in Seq(Mails) /\ Len(Tail(queue)) = Len(queue) - 1 /\ Len(queue) \in Nat
        /\ \A i \in 1..(Len(queue) - 1) : Tail(queue)[i] = queue[i + 1]
    BY <1>0, <1>3 DEF DrainStep, EmailTypeOK, OneByOne
  <2>p. 1 \in 1..Len(queue) /\ \A i \in 1..(Len(queue) - 1) : i + 1 \in 1..Len(queue)
    <3> DEFINE L == Len(queue)
    <3>1. L \in Nat /\ L # 0
      BY <1>0, <1>3 DEF EmailTypeOK
    <3> HIDE DEF L
    <3>2. 1 \in 1..L /\ \A i \in 1..(L - 1) : i + 1 \in 1..L
      BY <3>1
    <3> QED
      BY <3>2 DEF L
  <2>d. \A i \in 1..(Len(queue) - 1) : queue[i + 1] # m
    BY <1>0, <2>p DEF OneByOne
  <2> HIDE DEF m
  <2>2. EmailTypeOK'
    BY <1>0, <1>1, <2>1 DEF EmailTypeOK, MailStates, EmailAssumption
  <2>3. OneByOne'
    <3>1. \A i, j \in 1..Len(queue') : queue'[i] = queue'[j] => i = j
      BY <1>0, <2>1, <2>p DEF OneByOne
    <3>2. \A i \in 1..Len(queue') : mail'[queue'[i]] = "queued"
      <4> TAKE i \in 1..Len(queue')
      <4>1. i \in 1..(Len(queue) - 1) /\ queue'[i] = queue[i + 1]
        BY <2>1
      <4>2. mail[queue[i + 1]] = "queued" /\ queue[i + 1] # m /\ queue[i + 1] \in Mails
        <5>1. i + 1 \in 1..Len(queue)
          BY <4>1, <2>p
        <5>2. queue[i + 1] \in Mails
          <6>1. queue \in Seq(Mails)
            BY <1>0 DEF EmailTypeOK
          <6> QED BY ONLY <5>1, <6>1
        <5> QED BY <4>1, <5>1, <5>2, <1>0, <2>d DEF OneByOne
      <4> QED BY <4>1, <4>2, <2>1, <1>0 DEF EmailTypeOK
    <3>3. Current' \subseteq {m}
      BY <1>0, <1>1, <2>1 DEF Current, EmailTypeOK
    <3> QED BY <1>1, <3>1, <3>2, <3>3 DEF OneByOne
  <2>4. SendsFit'
    BY <1>0, <1>1, <2>1 DEF SendsFit, EmailTypeOK, MailStates
  <2>5. \A s : OnTheWay(s)' = OnTheWay(s)
    BY <1>0, <1>1, <2>1 DEF OnTheWay, EmailTypeOK, MailStates
  <2> QED BY <1>0, <1>1, <2>2, <2>3, <2>4, <2>5, SameRoom DEF EmailInv
<1> QED BY <1>2, <1>3

LEMMA AttemptKeepsInv ==
    ASSUME EmailInv, NEW m \in Mails, NEW works \in BOOLEAN, Attempt(m, works)
    PROVE  EmailInv'
<1> USE EmailAssumption
<1>0. EmailTypeOK /\ OneByOne /\ SendsFit /\ RoomForWhatComes
  BY DEF EmailInv
<1>1. /\ mail[m] = "current" /\ m \in Current /\ logging = "no" /\ attempts < MaxMailAttempts
      /\ attempts' = attempts + 1
      /\ sent' = [sent EXCEPT ![m] = @ + IF works THEN 1 ELSE 0]
      /\ logging' \in {"no", "sent", "failed"} /\ (works => logging' = "sent")
      /\ UNCHANGED <<mail, queue, drain, hour, up, logFailures, unlogged, excused>>
  BY DEF Attempt, Current
<1>2. EmailTypeOK'
  BY <1>0, <1>1 DEF EmailTypeOK, EmailAssumption
<1>3. OneByOne'
  BY <1>0, <1>1 DEF OneByOne, Current
<1>4. SendsFit'
  <2>1. ASSUME NEW n \in Mails
        PROVE  /\ sent'[n] <= unlogged'[n] + 1
               /\ mail'[n] \notin {"current", "settled", "lost"} => sent'[n] <= unlogged'[n]
               /\ mail'[n] = "current" /\ logging' # "sent" => sent'[n] <= unlogged'[n]
    <3>1. CASE n = m
      BY <1>0, <1>1, <3>1 DEF SendsFit, EmailTypeOK
    <3>2. CASE n # m
      <4>1. sent'[n] = sent[n] /\ mail'[n] # "current"
        BY <1>0, <1>1, <3>2 DEF OneByOne, Current, EmailTypeOK
      <4> QED BY <1>0, <1>1, <4>1 DEF SendsFit
    <3> QED BY <3>1, <3>2
  <2> QED BY <2>1 DEF SendsFit
<1>5. \A s : OnTheWay(s)' = OnTheWay(s)
  BY <1>1 DEF OnTheWay
<1> QED BY <1>0, <1>1, <1>2, <1>3, <1>4, <1>5, SameRoom DEF EmailInv

LEMMA WriteKeepsInv ==
    ASSUME EmailInv, NEW m \in Mails, WriteLog(m)
    PROVE  EmailInv'
<1> USE EmailAssumption
<1> DEFINE t == To[m]
           ok == logging = "sent"
<1>0. EmailTypeOK /\ OneByOne /\ SendsFit /\ RoomForWhatComes
  BY DEF EmailInv
<1>1. /\ mail[m] = "current" /\ m \in Current /\ t \in Recipients /\ ok \in BOOLEAN
      /\ Logged(t, ok) /\ mail' = [mail EXCEPT ![m] = "settled"] /\ logging' = "no"
      /\ UNCHANGED <<queue, drain, attempts, up, logFailures, sent, unlogged, excused>>
  BY DEF WriteLog, Current, Recipients
<1>2. hour \in Seq(LogEntries) /\ Limit \in Nat
  BY <1>0 DEF EmailTypeOK, EmailAssumption
<1> HIDE DEF ok
<1>h. /\ hour' \in Seq(LogEntries)
      /\ \A s : /\ Delivered(s, DOMAIN hour) \in Nat
                /\ Delivered(s, DOMAIN hour)' =
                      Delivered(s, DOMAIN hour) + IF t = s /\ ok THEN 1 ELSE 0
  BY <1>1, <1>2, LoggedCounts
<1>3. EmailTypeOK'
  BY <1>0, <1>1, <1>h DEF EmailTypeOK, MailStates
<1>4. OneByOne'
  <2>1. \A i \in 1..Len(queue) : queue[i] # m /\ queue[i] \in Mails
    BY <1>0, <1>1 DEF OneByOne, EmailTypeOK
  <2>2. \A i \in 1..Len(queue') : mail'[queue'[i]] = "queued"
    BY <1>0, <1>1, <2>1 DEF OneByOne, EmailTypeOK
  <2>3. Current' \subseteq Current
    BY <1>0, <1>1 DEF Current, EmailTypeOK
  <2> QED BY <1>0, <1>1, <2>2, <2>3 DEF OneByOne
<1>5. SendsFit'
  BY <1>0, <1>1 DEF SendsFit, OneByOne, Current, EmailTypeOK
<1>6. ASSUME NEW s \in Recipients \ excused
      PROVE  /\ Delivered(s, DOMAIN hour)' <= Limit
             /\ OnTheWay(s)' # {} => Delivered(s, DOMAIN hour)' < Limit
             /\ \A k, n \in OnTheWay(s)' : k = n
  <2>1. CASE s # t
    <3>1. OnTheWay(s)' = OnTheWay(s)
      BY <1>0, <1>1, <2>1 DEF OnTheWay, EmailTypeOK
    <3>2. Delivered(s, DOMAIN hour)' = Delivered(s, DOMAIN hour)
      BY <1>h, <2>1
    <3> QED BY <1>0, <3>1, <3>2 DEF RoomForWhatComes
  <2>2. CASE s = t
    <3>1. m \in OnTheWay(s) /\ OnTheWay(s)' = OnTheWay(s) \ {m}
      BY <1>0, <1>1, <2>2 DEF OnTheWay, EmailTypeOK
    <3>2. OnTheWay(s)' = {} /\ Delivered(s, DOMAIN hour) < Limit
      BY <1>0, <3>1 DEF RoomForWhatComes
    <3> QED BY <1>2, <1>h, <3>2
  <2> QED BY <2>1, <2>2
<1>7. RoomForWhatComes'
  <2>1. Recipients' = Recipients /\ excused' = excused
    BY <1>1 DEF Recipients
  <2> QED BY <1>6, <2>1 DEF RoomForWhatComes
<1> QED BY <1>3, <1>4, <1>5, <1>7 DEF EmailInv

LEMMA LogFailsKeepsInv ==
    ASSUME EmailInv, NEW m \in Mails, LogWriteFails(m)
    PROVE  EmailInv'
<1> USE EmailAssumption
<1>0. EmailTypeOK /\ OneByOne /\ SendsFit /\ RoomForWhatComes
  BY DEF EmailInv
<1>1. /\ mail[m] = "current" /\ m \in Current /\ logFailures < MaxLogFailures
      /\ logFailures' = logFailures + 1
      /\ logging' \in {"no", "failed"}
      /\ unlogged' = [unlogged EXCEPT ![m] = @ + 1]
      /\ UNCHANGED <<mail, queue, drain, attempts, hour, up, sent, excused>>
  BY DEF LogWriteFails, Current
<1>2. EmailTypeOK'
  BY <1>0, <1>1 DEF EmailTypeOK, EmailAssumption
<1>3. OneByOne'
  BY <1>0, <1>1 DEF OneByOne, Current
<1>4. SendsFit'
  <2>1. ASSUME NEW n \in Mails
        PROVE  /\ sent'[n] <= unlogged'[n] + 1
               /\ mail'[n] \notin {"current", "settled", "lost"} => sent'[n] <= unlogged'[n]
               /\ mail'[n] = "current" /\ logging' # "sent" => sent'[n] <= unlogged'[n]
    <3>1. CASE n = m
      BY <1>0, <1>1, <3>1 DEF SendsFit, EmailTypeOK
    <3>2. CASE n # m
      <4>1. unlogged'[n] = unlogged[n] /\ mail'[n] # "current"
        BY <1>0, <1>1, <3>2 DEF OneByOne, Current, EmailTypeOK
      <4> QED BY <1>0, <1>1, <4>1 DEF SendsFit
    <3> QED BY <3>1, <3>2
  <2> QED BY <2>1 DEF SendsFit
<1>5. \A s : OnTheWay(s)' = OnTheWay(s)
  BY <1>1 DEF OnTheWay
<1> QED BY <1>0, <1>1, <1>2, <1>3, <1>4, <1>5, SameRoom DEF EmailInv

LEMMA ProcessEndKeepsInv ==
    ASSUME EmailInv, ProcessEnds
    PROVE  EmailInv'
<1> USE EmailAssumption
<1>0. EmailTypeOK /\ OneByOne /\ SendsFit /\ RoomForWhatComes
  BY DEF EmailInv
<1>1. /\ up' = FALSE /\ queue' = <<>> /\ drain' = "off" /\ logging' = "no" /\ attempts' = 0
      /\ mail' = [m \in Mails |-> IF mail[m] \in {"asked", "queued", "current"} THEN "lost" ELSE mail[m]]
      /\ UNCHANGED <<hour, logFailures, sent, unlogged, excused>>
  BY DEF ProcessEnds
<1>2. EmailTypeOK'
  <2>1. mail' \in [Mails -> MailStates]
    BY <1>0, <1>1 DEF EmailTypeOK, MailStates
  <2>2. 0 \in 0..MaxMailAttempts
    BY DEF EmailAssumption
  <2>3. /\ queue' \in Seq(Mails) /\ drain' \in {"off", "woken", "on"}
        /\ logging' \in {"no", "sent", "failed"} /\ up' \in BOOLEAN
    <3>1. <<>> \in Seq(Mails)
      OBVIOUS
    <3>2. queue' \in Seq(Mails)
      BY <3>1, <1>1, Zenon
    <3> QED BY <1>1, <3>2, Zenon
  <2>4. /\ hour' \in Seq(LogEntries) /\ logFailures' \in 0..MaxLogFailures
        /\ sent' \in [Mails -> Nat] /\ unlogged' \in [Mails -> Nat] /\ excused' \subseteq Recipients
    BY <1>0, <1>1 DEF EmailTypeOK
  <2>5. LogEntries' = LogEntries /\ Recipients' = Recipients /\ MailStates' = MailStates
    BY DEF LogEntries, Recipients, MailStates
  <2>6. attempts' \in 0..MaxMailAttempts
    BY <1>1, <2>2
  <2> QED BY <2>1, <2>3, <2>4, <2>5, <2>6 DEF EmailTypeOK
<1>3. OneByOne'
  BY <1>0, <1>1 DEF OneByOne, Current
<1>4. SendsFit'
  BY <1>0, <1>1 DEF SendsFit
<1>5. \A s : OnTheWay(s)' = {}
  BY <1>1 DEF OnTheWay
<1>6. RoomForWhatComes'
  <2>1. \A s : Delivered(s, DOMAIN hour)' = Delivered(s, DOMAIN hour)
    BY <1>1 DEF Delivered
  <2> QED BY <1>0, <1>1, <1>5, <2>1 DEF RoomForWhatComes, Recipients
<1> QED BY <1>2, <1>3, <1>4, <1>6 DEF EmailInv

LEMMA EntryAgesKeepsInv ==
    ASSUME EmailInv, EntryAges
    PROVE  EmailInv'
<1> USE EmailAssumption
<1>0. EmailTypeOK /\ OneByOne /\ SendsFit /\ RoomForWhatComes
  BY DEF EmailInv
<1>1. /\ hour # <<>> /\ hour' = Tail(hour)
      /\ UNCHANGED <<mail, queue, drain, attempts, logging, up, logFailures, sent, unlogged, excused>>
  BY DEF EntryAges
<1>2. hour \in Seq(LogEntries) /\ hour' \in Seq(LogEntries)
  BY <1>0, <1>1 DEF EmailTypeOK
<1>3. EmailTypeOK' /\ OneByOne' /\ SendsFit'
  BY <1>0, <1>1, <1>2 DEF EmailTypeOK, OneByOne, SendsFit, Current
<1>4. ASSUME NEW s
      PROVE  /\ Delivered(s, DOMAIN hour)' <= Delivered(s, DOMAIN hour)
             /\ Delivered(s, DOMAIN hour)' \in Nat /\ Delivered(s, DOMAIN hour) \in Nat
             /\ OnTheWay(s)' = OnTheWay(s)
  <2>1. Delivered(s, DOMAIN hour)' = Cardinality(Deliveries(s, hour'))
    BY DEF Delivered, Deliveries
  <2>2. Delivered(s, DOMAIN hour) = Cardinality(Deliveries(s, hour))
    BY DEF Delivered, Deliveries
  <2>3. Cardinality(Deliveries(s, hour')) <= Cardinality(Deliveries(s, hour))
    BY <1>1, <1>2, TailDelivers
  <2>4. Cardinality(Deliveries(s, hour')) \in Nat /\ Cardinality(Deliveries(s, hour)) \in Nat
    BY <1>2, DeliveriesAreFinite
  <2>5. OnTheWay(s)' = OnTheWay(s)
    BY <1>1 DEF OnTheWay
  <2> QED BY <2>1, <2>2, <2>3, <2>4, <2>5
<1>5. RoomForWhatComes'
  <2>1. Limit \in Nat /\ Recipients' = Recipients /\ excused' = excused
    BY <1>1 DEF EmailAssumption, Recipients
  <2> QED BY <1>0, <1>4, <2>1 DEF RoomForWhatComes
<1> QED BY <1>3, <1>5 DEF EmailInv

-----------------------------------------------------------------------------
LEMMA EmailStepKeepsInv == EmailInv /\ [EmailNext]_emailVars => EmailInv'
<1> SUFFICES ASSUME EmailInv, [EmailNext]_emailVars PROVE EmailInv'
  OBVIOUS
<1>1. ASSUME NEW m \in Mails, AskForMail(m) PROVE EmailInv'
  BY <1>1, AskKeepsInv
<1>2. ASSUME NEW m \in Mails, QueueMail(m) PROVE EmailInv'
  BY <1>2, QueueKeepsInv
<1>3. ASSUME NEW m \in Mails, WriteLog(m) PROVE EmailInv'
  BY <1>3, WriteKeepsInv
<1>4. ASSUME NEW m \in Mails, LogWriteFails(m) PROVE EmailInv'
  BY <1>4, LogFailsKeepsInv
<1>5. ASSUME NEW m \in Mails, NEW works \in BOOLEAN, Attempt(m, works) PROVE EmailInv'
  BY <1>5, AttemptKeepsInv
<1>6. ASSUME DrainStep PROVE EmailInv'
  BY <1>6, DrainKeepsInv
<1>7. ASSUME ProcessEnds PROVE EmailInv'
  BY <1>7, ProcessEndKeepsInv
<1>8. ASSUME EntryAges PROVE EmailInv'
  BY <1>8, EntryAgesKeepsInv
<1>9. ASSUME UNCHANGED emailVars PROVE EmailInv'
  <2>1. \A s : /\ OnTheWay(s)' = OnTheWay(s)
               /\ Delivered(s, DOMAIN hour)' = Delivered(s, DOMAIN hour)
    BY <1>9 DEF emailVars, OnTheWay, Delivered
  <2>2. Recipients' = Recipients /\ Current' = Current
    BY <1>9 DEF emailVars, Recipients, Current
  <2>3. RoomForWhatComes'
    BY <1>9, <2>1, <2>2 DEF emailVars, EmailInv, RoomForWhatComes
  <2>4. EmailTypeOK' /\ OneByOne' /\ SendsFit'
    BY <1>9, <2>2 DEF emailVars, EmailInv, EmailTypeOK, OneByOne, SendsFit, LogEntries
  <2> QED BY <2>3, <2>4 DEF EmailInv
<1> QED BY <1>1, <1>2, <1>3, <1>4, <1>5, <1>6, <1>7, <1>8, <1>9 DEF EmailNext

LEMMA EmailInvariance == EmailSafety => []EmailInv
<1> QED BY InitEmailInv, EmailStepKeepsInv, PTL DEF EmailSafety

\* A mail reaches its recipient a second time only for a log write that failed
\* after the first time, however the drain loop, crashes and failures interleave
\* (deliverItem, email/queue.ts:180-225).
THEOREM EmailSentAgainOnlyIfUnlogged == EmailSafety => []SentAgainOnlyIfUnlogged
<1>1. EmailInv => SentAgainOnlyIfUnlogged
  <2> SUFFICES ASSUME EmailInv, NEW m \in Mails
               PROVE  sent[m] <= unlogged[m] + IF mail[m] \in {"current", "settled", "lost"} THEN 1 ELSE 0
    BY DEF SentAgainOnlyIfUnlogged
  <2>1. sent[m] \in Nat /\ unlogged[m] \in Nat
    BY DEF EmailInv, EmailTypeOK
  <2> QED BY <2>1 DEF EmailInv, SendsFit
<1> QED BY <1>1, EmailInvariance, PTL

\* No more mails than the limit of the hour reach a recipient of whom no mail
\* was accepted while another was on its way, or after the log had dropped
\* entries (evaluateRateLimit, email/queue.ts:94-118).
THEOREM EmailLimitHolds == EmailSafety => []LimitHolds
<1>1. EmailInv => LimitHolds
  <2> SUFFICES ASSUME EmailInv, NEW t \in Recipients, t \notin excused
               PROVE  ~(Delivered(t, DOMAIN hour) > Limit)
    BY DEF LimitHolds
  <2>1. Delivered(t, DOMAIN hour) \in Nat /\ Limit \in Nat
    BY EmailAssumption, DeliveredIsNat DEF EmailInv, EmailTypeOK, EmailAssumption
  <2> QED BY <2>1 DEF EmailInv, RoomForWhatComes
<1> QED BY <1>1, EmailInvariance, PTL

-----------------------------------------------------------------------------
(* The store of comments.                                                  *)

Places == {"idle", "beginning", "committing", "counting", "rollingBack", "noting",
           "done", "failed"} \cup InTransaction

OwnerInv ==
    /\ pc \in [Calls -> Places]
    /\ owner \in Calls \cup {Nobody}
    /\ TransactionHasOwner

\* The process starts without a transaction.
LEMMA OwnerInvInit == Init => OwnerInv
  BY CommentAssumption DEF Init, OwnerInv, TransactionHasOwner, Places

\* A call that moves on to another place keeps the invariant if it does not own the
\* transaction or if the place is one from which it will end it.
LEMMA OwnerInvGo ==
  ASSUME NEW k \in Calls, NEW place \in Places, OwnerInv,
         Go(k, place), owner' \in {owner, k, Nobody},
         owner' = k => place \in InTransaction \cup {"committing", "rollingBack"}
  PROVE  OwnerInv'
<1>1. pc' \in [Calls -> Places]
  BY DEF OwnerInv, Go
<1>2. owner' \in Calls \cup {Nobody}
  BY DEF OwnerInv
<1>3. ASSUME owner' # Nobody
      PROVE  pc'[owner'] \in InTransaction \cup {"committing", "rollingBack"}
  <2>1. CASE owner' = k
    BY <2>1, <1>1 DEF OwnerInv, Go
  <2>2. CASE owner' # k
    <3>1. owner' = owner
      BY <1>3, <2>2
    <3>2. pc'[owner] = pc[owner]
      BY <1>3, <2>2, <3>1 DEF OwnerInv, Go
    <3> QED
      BY <1>3, <3>1, <3>2 DEF OwnerInv, TransactionHasOwner
  <2> QED
    BY <2>1, <2>2
<1> QED
  BY <1>1, <1>2, <1>3 DEF OwnerInv, TransactionHasOwner

\* The same for a call that gives up, if it does not own the transaction any more.
LEMMA OwnerInvGiveUp ==
  ASSUME NEW k \in Calls, OwnerInv, GiveUp(k), owner' \in {owner, Nobody}, owner' # k
  PROVE  OwnerInv'
<1> DEFINE place == IF k \in Workers THEN "idle" ELSE "failed"
<1>1. Go(k, place) /\ place \in Places
  BY DEF GiveUp, Places
<1>2. owner' = k => place \in InTransaction \cup {"committing", "rollingBack"}
  OBVIOUS
<1> QED
  BY ONLY <1>1, <1>2, OwnerInv, owner' \in {owner, Nobody}, k \in Calls, OwnerInvGo

\* And for one that goes on after its COMMIT.
LEMMA OwnerInvAfterCommit ==
  ASSUME NEW k \in Calls, OwnerInv, AfterCommit(k), owner' \in {owner, Nobody}, owner' # k
  PROVE  OwnerInv'
<1> DEFINE place == IF k \in Requests THEN IF k.kind = "like" THEN "counting" ELSE "done"
                    ELSE IF list[k] = {} THEN "idle" ELSE "beginning"
<1>1. Go(k, place) /\ place \in Places
  BY DEF AfterCommit, Places
<1>2. owner' = k => place \in InTransaction \cup {"committing", "rollingBack"}
  OBVIOUS
<1> QED
  BY ONLY <1>1, <1>2, OwnerInv, owner' \in {owner, Nobody}, k \in Calls, OwnerInvGo

\* A call that waits, or has ended its transaction, owns none.
LEMMA NotTheOwner ==
  ASSUME NEW k \in Calls, OwnerInv,
         pc[k] \in {"idle", "beginning", "counting", "noting", "done", "failed"}
  PROVE  owner # k
  BY CommentAssumption DEF OwnerInv, TransactionHasOwner, InTransaction, Calls

\* Every statement of a transaction leads to the next one, to COMMIT or to ROLLBACK.
LEMMA StatementPlaces ==
  ASSUME NEW k \in Calls, Statement(k)
  PROVE  /\ UNCHANGED owner
         /\ \E place \in InTransaction \cup {"committing", "rollingBack"} : Go(k, place)
<1>1. UNCHANGED owner
  BY DEF Statement
<1>2. Go(k, "second") \/ Go(k, "committing") \/ Go(k, "rollingBack") \/ Go(k, "keeping")
        \/ Go(k, "deleting")
  BY DEF Statement, InsertComment, InsertTask, ToggleLike, InsertReport, Escalate,
         SettleReport, DeleteComment, KeepComment, IndexComment, MarkSynced
<1> QED
  BY <1>1, <1>2 DEF InTransaction

\* Every step keeps the invariant.
LEMMA OwnerInvNext == OwnerInv /\ [Next]_vars => OwnerInv'
<1> SUFFICES ASSUME OwnerInv, [Next]_vars
             PROVE  OwnerInv'
  OBVIOUS
<1>1. ASSUME NEW r \in Requests, LookFor(r)
      PROVE  OwnerInv'
  <2>1. r \in Calls /\ owner # r
    BY <1>1, NotTheOwner DEF LookFor, Calls
  <2>2. owner' = owner
    BY <1>1 DEF LookFor
  <2>3. \E place \in {"beginning", "failed"} : Go(r, place)
    BY <1>1 DEF LookFor
  <2> QED
    BY <2>1, <2>2, <2>3, OwnerInvGo DEF Places
<1>2. ASSUME NEW r \in Requests, CountLikes(r)
      PROVE  OwnerInv'
  <2>1. r \in Calls /\ owner # r
    BY <1>2, NotTheOwner DEF CountLikes, Calls
  <2>2. owner' = owner /\ Go(r, "done")
    BY <1>2 DEF CountLikes
  <2> QED
    BY <2>1, <2>2, OwnerInvGo DEF Places
<1>3. ASSUME NEW w \in Workers, ReadTasks(w)
      PROVE  OwnerInv'
  <2>1. w \in Calls /\ owner # w
    BY <1>3, NotTheOwner DEF ReadTasks, Calls
  <2>2. owner' = owner /\ Go(w, "beginning")
    BY <1>3 DEF ReadTasks
  <2> QED
    BY <2>1, <2>2, OwnerInvGo DEF Places
<1>4. ASSUME NEW w \in Workers, NoteFailure(w)
      PROVE  OwnerInv'
  <2>1. w \in Calls /\ owner # w
    BY <1>4, NotTheOwner DEF NoteFailure, Calls
  <2>2. owner' = owner /\ AfterCommit(w)
    BY <1>4 DEF NoteFailure
  <2> QED
    BY <2>1, <2>2, OwnerInvAfterCommit
<1>5. ASSUME NEW w \in Workers, NoteFails(w)
      PROVE  OwnerInv'
  <2>1. w \in Calls /\ owner # w
    BY <1>5, NotTheOwner DEF NoteFails, Calls
  <2>2. owner' = owner /\ GiveUp(w)
    BY <1>5 DEF NoteFails
  <2> QED
    BY <2>1, <2>2, OwnerInvGiveUp
<1>6. ASSUME NEW k \in Calls, Begin(k)
      PROVE  OwnerInv'
  <2>1. owner' = k /\ Go(k, "first")
    BY <1>6 DEF Begin
  <2> QED
    BY <2>1, OwnerInvGo DEF Places, InTransaction
<1>7. ASSUME NEW k \in Calls, BeginRefused(k)
      PROVE  OwnerInv'
  <2>1. owner # k
    BY <1>7, NotTheOwner DEF BeginRefused, Ready
  <2>2. owner' = owner /\ GiveUp(k)
    BY <1>7 DEF BeginRefused
  <2> QED
    BY <2>1, <2>2, OwnerInvGiveUp
<1>8. ASSUME NEW k \in Calls, Statement(k)
      PROVE  OwnerInv'
  <2>1. PICK place \in InTransaction \cup {"committing", "rollingBack"} : Go(k, place)
    BY <1>8, StatementPlaces
  <2>2. owner' = owner
    BY <1>8, StatementPlaces
  <2> QED
    BY <2>1, <2>2, OwnerInvGo DEF Places
<1>9. ASSUME NEW k \in Calls, Commit(k)
      PROVE  OwnerInv'
  <2>1. CASE owner = Nobody
    <3>1. owner' = owner /\ Go(k, "rollingBack")
      BY <1>9, <2>1 DEF Commit
    <3> QED
      BY <3>1, OwnerInvGo DEF Places
  <2>2. CASE owner # Nobody
    <3>1. owner' = Nobody /\ AfterCommit(k)
      BY <1>9, <2>2 DEF Commit, CloseTransaction
    <3>2. owner' # k
      BY <3>1, CommentAssumption
    <3> QED
      BY <3>1, <3>2, OwnerInvAfterCommit
  <2> QED
    BY <2>1, <2>2
<1>10. ASSUME NEW k \in Calls, StatementFails(k)
       PROVE  OwnerInv'
  <2>1. owner' = owner /\ Go(k, "rollingBack")
    BY <1>10 DEF StatementFails
  <2> QED
    BY <2>1, OwnerInvGo DEF Places
<1>11. ASSUME NEW k \in Calls, Rollback(k)
       PROVE  OwnerInv'
  <2>1. CASE owner = Nobody
    <3>1. owner' = Nobody /\ GiveUp(k)
      BY <1>11, <2>1 DEF Rollback
    <3>2. owner' # k
      BY <3>1, CommentAssumption
    <3> QED
      BY <3>1, <3>2, OwnerInvGiveUp
  <2>2. CASE owner # Nobody /\ k \in Workers
    <3>1. owner' = Nobody /\ Go(k, "noting")
      BY <1>11, <2>2 DEF Rollback, CloseTransaction
    <3>2. owner' # k
      BY <3>1, CommentAssumption
    <3> QED
      BY <3>1, <3>2, OwnerInvGo DEF Places
  <2>3. CASE owner # Nobody /\ k \notin Workers
    <3>1. owner' = Nobody /\ GiveUp(k)
      BY <1>11, <2>3 DEF Rollback, CloseTransaction
    <3>2. owner' # k
      BY <3>1, CommentAssumption
    <3> QED
      BY <3>1, <3>2, OwnerInvGiveUp
  <2> QED
    BY <2>1, <2>2, <2>3
<1>12. CASE Crash
  <2>1. owner' = Nobody
    BY <1>12 DEF Crash
  <2>2. pc' \in [Calls -> Places]
    BY <1>12 DEF Crash, Places
  <2> QED
    BY <2>1, <2>2 DEF OwnerInv, TransactionHasOwner
<1>13. CASE UNCHANGED vars
  BY <1>13 DEF vars, OwnerInv, TransactionHasOwner
<1> QED
  BY <1>1, <1>2, <1>3, <1>4, <1>5, <1>6, <1>7, <1>8, <1>9, <1>10, <1>11, <1>12, <1>13
  DEF Next, Step

\* TransactionHasOwner, for any number of requests, workers, failures and crashes: no
\* path through the operations of runtime-store.ts leaves a transaction open.
THEOREM CommentTransactionHasOwner == Safety => []TransactionHasOwner
<1>1. OwnerInv => TransactionHasOwner
  BY DEF OwnerInv
<1> QED
  BY <1>1, OwnerInvInit, OwnerInvNext, PTL DEF Safety

-----------------------------------------------------------------------------
(* What is committed is whole.                                             *)

\* The tables as far as what is committed must be whole.
TablesOK(t) ==
    /\ t = [comment |-> t.comment, likes |-> t.likes, reports |-> t.reports,
            index |-> t.index, tasks |-> t.tasks]
    /\ t.comment \in [Comments -> {"absent", "public", "hidden", "deleted"}]
    /\ t.reports \in [Users \X Comments -> {"none", "pending", "kept", "deleted"}]
    /\ t.tasks = [m \in TaskMakers |-> t.tasks[m]]

\* Nobody has seen a comment that is still to be added, so nobody reports it.
Fresh(c) ==
    \E r \in Requests : r.kind = "add" /\ r.comment = c /\ pc[r] \in {"idle", "beginning", "first"}

FreshIsUnknown ==
    \A c \in Comments : Fresh(c) =>
        /\ db.comment[c] = "absent" /\ saved.comment[c] = "absent"
        /\ \A u \in Users : db.reports[<<u, c>>] = "none" /\ saved.reports[<<u, c>>] = "none"
        /\ \A q \in Requests : q.kind = "report" /\ q.comment = c =>
               pc[q] \notin InTransaction \cup {"beginning"}

\* What the tables t lack is what a call is just about to write.
WholeButFor(t, adding, deleting) ==
    /\ \A m \in TaskMakers : m.kind = "add" /\ t.comment[m.comment] # "absent" =>
           t.tasks[m].status # "none" \/ m \in adding
    /\ \A u \in Users, c \in Comments :
           t.reports[<<u, c>>] = "deleted" /\ t.comment[c] # "absent" =>
               t.comment[c] = "deleted" \/ <<u, c>> \in deleting

Adding == {m \in Requests : pc[m] = "second"}
Deleting == {<<r.user, r.comment>> : r \in {q \in Requests : pc[q] = "deleting"}}

\* Who is in the middle of a transaction has it open, what is committed is whole, and
\* so is what will be committed when its statements are through.
TransactionsStandAlone ==
    /\ \A k \in Calls : pc[k] \in InTransaction \cup {"committing"} => owner = k
    /\ owner = Nobody => db = saved
    /\ WholeButFor(saved, {}, {})
    /\ owner # Nobody /\ pc[owner] # "rollingBack" => WholeButFor(db, Adding, Deleting)

WholeInv ==
    /\ OwnerInv
    /\ TablesOK(db) /\ TablesOK(saved)
    /\ FreshIsUnknown
    /\ ~torn => TransactionsStandAlone

LEMMA WholeStarts == Init => WholeInv
<1> SUFFICES ASSUME Init PROVE WholeInv
  OBVIOUS
<1>1. OwnerInv
  BY OwnerInvInit
<1>2. /\ db = [comment |-> [c \in Comments |-> "absent"], likes |-> {},
               reports |-> [p \in Users \X Comments |-> "none"], index |-> {},
               tasks |-> [m \in TaskMakers |-> NoTask]]
      /\ saved = db /\ owner = Nobody
      /\ \A k \in Calls : pc[k] = "idle"
  BY DEF Init
<1>3. TablesOK(db) /\ TablesOK(saved)
  BY <1>2 DEF TablesOK
<1>4. \A m \in TaskMakers : m.comment \in Comments
  BY DEF TaskMakers, Comments
<1>5. TransactionsStandAlone
  BY <1>2, <1>4 DEF TransactionsStandAlone, WholeButFor, InTransaction
<1>6. FreshIsUnknown
  BY <1>2 DEF FreshIsUnknown, InTransaction, Calls
<1> QED BY <1>1, <1>3, <1>5, <1>6 DEF WholeInv

\* What a step does to calls that are at their beginning: no comment becomes fresh
\* again, and a report that begins has looked for its comment.
LEMMA FreshKept ==
    ASSUME OwnerInv, FreshIsUnknown, NEW k \in Calls, NEW place \in Places, Go(k, place),
           \* the tables are those of before, or what k wrote
           \A c \in Comments : Fresh(c)' =>
               /\ db'.comment[c] \in {db.comment[c], saved.comment[c]}
               /\ saved'.comment[c] \in {db.comment[c], saved.comment[c]}
               /\ \A u \in Users :
                     /\ db'.reports[<<u, c>>] \in {db.reports[<<u, c>>], saved.reports[<<u, c>>]}
                     /\ saved'.reports[<<u, c>>] \in {db.reports[<<u, c>>], saved.reports[<<u, c>>]},
           place \in {"idle", "beginning", "first"} =>
               k \in Workers \/ pc[k] \in {"idle", "beginning", "first"},
           k \in Requests /\ k.kind = "report" /\ place \in InTransaction \cup {"beginning"} =>
               Listed(k) \/ pc[k] \in InTransaction \cup {"beginning"}
    PROVE  FreshIsUnknown'
<1>1. pc' = [pc EXCEPT ![k] = place] /\ pc \in [Calls -> Places]
  BY DEF Go, OwnerInv
<1>2. ASSUME NEW c \in Comments, Fresh(c)' PROVE Fresh(c)
  <2>1. PICK r \in Requests : r.kind = "add" /\ r.comment = c /\ pc'[r] \in {"idle", "beginning", "first"}
    BY <1>2 DEF Fresh
  <2>2. r \in Calls /\ r \notin Workers
    BY CommentAssumption DEF Calls
  <2>3. pc[r] \in {"idle", "beginning", "first"}
    BY <1>1, <2>1, <2>2
  <2> QED BY <2>1, <2>3 DEF Fresh
<1>3. ASSUME NEW c \in Comments, Fresh(c)', NEW q \in Requests, q.kind = "report", q.comment = c
      PROVE  pc'[q] \notin InTransaction \cup {"beginning"}
  <2>1. Fresh(c)
    BY <1>2, <1>3
  <2>2. q \in Calls /\ pc[q] \notin InTransaction \cup {"beginning"} /\ db.comment[c] = "absent"
    BY <1>3, <2>1 DEF FreshIsUnknown, Calls
  <2>3. ~Listed(q)
    BY <1>3, <2>2 DEF Listed
  <2> QED BY <1>1, <1>3, <2>2, <2>3
<1>4. ASSUME NEW c \in Comments, Fresh(c)'
      PROVE  /\ db'.comment[c] = "absent" /\ saved'.comment[c] = "absent"
             /\ \A u \in Users : db'.reports[<<u, c>>] = "none" /\ saved'.reports[<<u, c>>] = "none"
  <2>1. /\ db.comment[c] = "absent" /\ saved.comment[c] = "absent"
        /\ \A u \in Users : db.reports[<<u, c>>] = "none" /\ saved.reports[<<u, c>>] = "none"
    BY <1>2, <1>4 DEF FreshIsUnknown
  <2> QED BY <1>4, <2>1
<1> QED BY <1>3, <1>4 DEF FreshIsUnknown

\* A step that writes nothing.
LEMMA NothingWritten ==
    ASSUME WholeInv, OwnerInv', NEW k \in Calls, NEW place \in Places, Go(k, place),
           UNCHANGED <<db, saved, torn>>,
           owner' \in {owner, k},
           owner' # owner => owner = Nobody,
           place \in InTransaction \cup {"committing"} => owner' = k /\ place = "first",
           owner = k => place = "rollingBack",
           place \in {"idle", "beginning", "first"} =>
               k \in Workers \/ pc[k] \in {"idle", "beginning", "first"},
           k \in Requests /\ k.kind = "report" /\ place \in InTransaction \cup {"beginning"} =>
               Listed(k) \/ pc[k] \in InTransaction \cup {"beginning"}
    PROVE  WholeInv'
<1>0. OwnerInv /\ FreshIsUnknown /\ TablesOK(db) /\ TablesOK(saved)
  BY DEF WholeInv
<1>1. TablesOK(db)' /\ TablesOK(saved)'
  BY <1>0 DEF TablesOK
<1>2. FreshIsUnknown'
  BY <1>0, FreshKept
<1>3. ASSUME ~torn' PROVE TransactionsStandAlone'
  <2>0. TransactionsStandAlone /\ pc' = [pc EXCEPT ![k] = place] /\ pc \in [Calls -> Places]
    BY <1>0, <1>3 DEF WholeInv, Go, OwnerInv
  <2>1. ASSUME NEW j \in Calls, pc'[j] \in InTransaction \cup {"committing"}
        PROVE  owner' = j
    <3>1. CASE j = k
      BY <2>0, <2>1, <3>1
    <3>2. CASE j # k
      <4>1. owner = j
        BY <2>0, <2>1, <3>2 DEF TransactionsStandAlone
      <4>2. owner # Nobody
        BY <4>1, CommentAssumption
      <4> QED BY <4>1, <4>2
    <3> QED BY <3>1, <3>2
  <2>2. owner' = Nobody => db' = saved'
    <3>1. owner' = Nobody => owner = Nobody
      BY CommentAssumption
    <3> QED BY <2>0, <3>1 DEF TransactionsStandAlone
  <2>3. WholeButFor(saved', {}, {})
    BY <2>0 DEF TransactionsStandAlone
  <2>4. ASSUME owner' # Nobody, pc'[owner'] # "rollingBack"
        PROVE  WholeButFor(db', Adding', Deleting')
    <3>1. CASE owner = Nobody
      <4>1. WholeButFor(db', {}, {})
        BY <2>0, <3>1 DEF TransactionsStandAlone
      <4> QED BY <4>1 DEF WholeButFor
    <3>2. CASE owner # Nobody
      <4>1. owner' = owner /\ owner # k /\ owner \in Calls
        BY <1>0, <2>0, <2>4, <3>2 DEF OwnerInv
      <4>2. WholeButFor(db, Adding, Deleting)
        BY <2>0, <2>4, <3>2, <4>1 DEF TransactionsStandAlone
      <4>3. pc[k] \notin InTransaction
        BY <2>0, <4>1 DEF TransactionsStandAlone
      <4>4. \A r \in Requests : pc[r] \in {"second", "deleting"} => pc'[r] = pc[r]
        BY <2>0, <4>3 DEF InTransaction, Calls
      <4>5. Adding \subseteq Adding' /\ Deleting \subseteq Deleting'
        BY <4>4 DEF Adding, Deleting
      <4> QED BY <4>2, <4>5 DEF WholeButFor
    <3> QED BY <3>1, <3>2
  <2> QED BY <2>1, <2>2, <2>3, <2>4 DEF TransactionsStandAlone
<1> QED BY <1>1, <1>2, <1>3 DEF WholeInv

LEMMA FreshBefore ==
    ASSUME OwnerInv, NEW k \in Calls, NEW place, Go(k, place),
           place \notin {"idle", "beginning", "first"},
           NEW c, Fresh(c)'
    PROVE  Fresh(c)
<1>1. PICK r \in Requests : r.kind = "add" /\ r.comment = c /\ pc'[r] \in {"idle", "beginning", "first"}
  BY DEF Fresh
<1>2. r \in Calls /\ pc' = [pc EXCEPT ![k] = place] /\ pc \in [Calls -> Places]
  BY DEF Calls, Go, OwnerInv
<1>3. pc[r] \in {"idle", "beginning", "first"}
  BY <1>1, <1>2
<1> QED BY <1>1, <1>3 DEF Fresh

\* A statement between BEGIN and COMMIT.
LEMMA StatementWritten ==
    ASSUME WholeInv, OwnerInv', NEW k \in Calls,
           NEW place \in {"second", "keeping", "deleting", "committing"}, Go(k, place),
           pc[k] \in InTransaction,
           NEW new, TablesOK(new), Write(new), UNCHANGED <<owner, torn>>,
           \A c \in Comments : Fresh(c)' =>
               /\ new.comment[c] = db.comment[c]
               /\ \A u \in Users : new.reports[<<u, c>>] = db.reports[<<u, c>>],
           WholeButFor(db, Adding, Deleting) => WholeButFor(new, Adding', Deleting')
    PROVE  WholeInv'
<1>0. OwnerInv /\ FreshIsUnknown /\ TablesOK(db) /\ TablesOK(saved) /\ place \in Places
  BY DEF WholeInv, Places, InTransaction
<1>1. db' = new /\ saved' \in {new, saved}
  BY DEF Write
<1>2. TablesOK(db') /\ TablesOK(saved')
  BY <1>0, <1>1
<1>3. FreshIsUnknown'
  <2>1. \A c \in Comments : Fresh(c)' =>
            /\ db'.comment[c] \in {db.comment[c], saved.comment[c]}
            /\ saved'.comment[c] \in {db.comment[c], saved.comment[c]}
            /\ \A u \in Users :
                  /\ db'.reports[<<u, c>>] \in {db.reports[<<u, c>>], saved.reports[<<u, c>>]}
                  /\ saved'.reports[<<u, c>>] \in {db.reports[<<u, c>>], saved.reports[<<u, c>>]}
    BY <1>1
  <2> QED BY <1>0, <2>1, FreshKept
<1>4. ASSUME ~torn' PROVE TransactionsStandAlone'
  <2>0. TransactionsStandAlone /\ pc' = [pc EXCEPT ![k] = place] /\ pc \in [Calls -> Places]
    BY <1>0, <1>4 DEF WholeInv, Go, OwnerInv
  <2>1. owner = k /\ k # Nobody /\ owner' = k /\ pc[k] # "rollingBack"
    BY <2>0, CommentAssumption DEF TransactionsStandAlone, InTransaction
  <2>2. \A j \in Calls : pc'[j] \in InTransaction \cup {"committing"} => owner' = j
    BY <2>0, <2>1 DEF TransactionsStandAlone
  <2>3. saved' = saved /\ WholeButFor(saved', {}, {})
    BY <2>0, <2>1 DEF TransactionsStandAlone, Write
  <2>4. WholeButFor(db', Adding', Deleting')
    BY <1>1, <2>0, <2>1 DEF TransactionsStandAlone
  <2> QED BY <2>1, <2>2, <2>3, <2>4 DEF TransactionsStandAlone
<1> QED BY <1>2, <1>3, <1>4 DEF WholeInv, TablesOK

LEMMA InsertCommentKeeps ==
    ASSUME WholeInv, OwnerInv', NEW r \in Requests, InsertComment(r), UNCHANGED <<owner, torn>>
    PROVE  WholeInv'
<1> DEFINE new == [db EXCEPT !.comment[r.comment] = "public"]
<1>0. OwnerInv /\ FreshIsUnknown /\ TablesOK(db)
  BY DEF WholeInv
<1>1. /\ r.kind = "add" /\ pc[r] = "first" /\ Write(new) /\ Go(r, "second")
      /\ r \in Calls /\ r.comment \in Comments
  BY DEF InsertComment, Calls, Comments
<1>2. /\ new.comment = [db.comment EXCEPT ![r.comment] = "public"]
      /\ new.reports = db.reports /\ new.tasks = db.tasks /\ TablesOK(new)
  <2> DEFINE comment == [db.comment EXCEPT ![r.comment] = "public"]
  <2>1. db = [comment |-> db.comment, likes |-> db.likes, reports |-> db.reports,
              index |-> db.index, tasks |-> db.tasks]
    BY <1>0 DEF TablesOK
  <2>2. comment \in [Comments -> {"absent", "public", "hidden", "deleted"}]
    BY <1>0 DEF TablesOK
  <2> HIDE DEF comment
  <2>3. new = [comment |-> comment, likes |-> db.likes, reports |-> db.reports,
               index |-> db.index, tasks |-> db.tasks]
    BY <2>1 DEF comment
  <2>4. new.comment = comment /\ new.reports = db.reports /\ new.tasks = db.tasks
    BY <2>3
  <2>5. TablesOK(new)
    BY <1>0, <2>2, <2>3 DEF TablesOK
  <2> QED BY <2>4, <2>5 DEF comment
<1> HIDE DEF new
<1>3. Fresh(r.comment)
  BY <1>1 DEF Fresh
<1>4. \A u \in Users : db.reports[<<u, r.comment>>] = "none"
  BY <1>0, <1>1, <1>3 DEF FreshIsUnknown
<1>5. pc' = [pc EXCEPT ![r] = "second"] /\ pc \in [Calls -> Places] /\ Requests \subseteq Calls
  BY <1>0, <1>1 DEF Go, OwnerInv, Calls
<1>6. \A c \in Comments : Fresh(c)' =>
          /\ new.comment[c] = db.comment[c]
          /\ \A u \in Users : new.reports[<<u, c>>] = db.reports[<<u, c>>]
  <2> TAKE c \in Comments
  <2> HAVE Fresh(c)'
  <2>1. c # r.comment
    <3>1. PICK q \in Requests : q.kind = "add" /\ q.comment = c /\ pc'[q] \in {"idle", "beginning", "first"}
      BY DEF Fresh
    <3>2. q # r
      BY <1>5, <3>1
    <3> QED BY <1>1, <3>1, <3>2, CommentAssumption
  <2> QED BY <1>0, <1>2, <2>1 DEF TablesOK
<1>7. ASSUME WholeButFor(db, Adding, Deleting)
      PROVE  WholeButFor(new, Adding', Deleting')
  <2>1. r \in Adding' /\ Adding \subseteq Adding' /\ Deleting \subseteq Deleting'
    BY <1>1, <1>5 DEF Adding, Deleting
  <2>2. ASSUME NEW m \in TaskMakers, m.kind = "add", new.comment[m.comment] # "absent"
        PROVE  new.tasks[m].status # "none" \/ m \in Adding'
    <3>1. CASE m.comment = r.comment
      BY <1>1, <2>1, <2>2, <3>1, CommentAssumption DEF TaskMakers
    <3>2. CASE m.comment # r.comment
      <4>1. m.comment \in Comments
        BY DEF TaskMakers, Comments
      <4>2. new.comment[m.comment] = db.comment[m.comment]
        BY <1>0, <1>2, <3>2, <4>1 DEF TablesOK
      <4> QED BY <1>2, <1>7, <2>1, <2>2, <4>2 DEF WholeButFor
    <3> QED BY <3>1, <3>2
  <2>3. ASSUME NEW u \in Users, NEW c \in Comments,
               new.reports[<<u, c>>] = "deleted", new.comment[c] # "absent"
        PROVE  new.comment[c] = "deleted" \/ <<u, c>> \in Deleting'
    <3>1. c # r.comment
      BY <1>2, <1>4, <2>3
    <3>2. new.comment[c] = db.comment[c]
      BY <1>0, <1>2, <3>1 DEF TablesOK
    <3> QED BY <1>2, <1>7, <2>1, <2>3, <3>2 DEF WholeButFor
  <2> QED BY <2>2, <2>3 DEF WholeButFor
<1> QED BY <1>1, <1>2, <1>6, <1>7, StatementWritten DEF InTransaction

LEMMA InsertTaskKeeps ==
    ASSUME WholeInv, OwnerInv', NEW r \in Requests, InsertTask(r), UNCHANGED <<owner, torn>>
    PROVE  WholeInv'
<1> DEFINE task == [status |-> "pending", attempts |-> 0]
           new == [db EXCEPT !.tasks[r] = task]
<1>0. OwnerInv /\ FreshIsUnknown /\ TablesOK(db)
  BY DEF WholeInv
<1>1. /\ r.kind = "add" /\ pc[r] = "second" /\ Write(new) /\ Go(r, "committing")
      /\ r \in Calls /\ r \in TaskMakers
  BY DEF InsertTask, Calls, TaskMakers
<1>t. task.status = "pending"
  OBVIOUS
<1> HIDE DEF task
<1>2. /\ new.tasks = [db.tasks EXCEPT ![r] = task]
      /\ new.reports = db.reports /\ new.comment = db.comment /\ TablesOK(new)
  BY <1>0 DEF TablesOK
<1> HIDE DEF new
<1>3. \A m \in TaskMakers : m # r => new.tasks[m] = db.tasks[m]
  BY <1>0, <1>2 DEF TablesOK
<1>4. new.tasks[r] = task
  BY <1>0, <1>1, <1>2 DEF TablesOK
<1>5. pc' = [pc EXCEPT ![r] = "committing"] /\ pc \in [Calls -> Places] /\ Requests \subseteq Calls
  BY <1>0, <1>1 DEF Go, OwnerInv, Calls
<1>6. Adding \ {r} \subseteq Adding' /\ Deleting \subseteq Deleting'
  BY <1>1, <1>5 DEF Adding, Deleting
<1>7. WholeButFor(db, Adding, Deleting) => WholeButFor(new, Adding', Deleting')
  BY <1>2, <1>3, <1>4, <1>6, <1>t DEF WholeButFor
<1> QED BY <1>1, <1>2, <1>7, StatementWritten DEF InTransaction

\* Statements that touch neither comments nor reports nor lose a task.
LEMMA HarmlessWrite ==
    ASSUME WholeInv, OwnerInv', NEW k \in Calls,
           NEW place \in {"second", "committing"}, Go(k, place),
           pc[k] \in {"first", "second"}, pc[k] = "second" => k \in Workers,
           NEW new, TablesOK(new), Write(new), UNCHANGED <<owner, torn>>,
           new.comment = db.comment, new.reports = db.reports,
           \A m \in TaskMakers : db.tasks[m].status # "none" => new.tasks[m].status # "none"
    PROVE  WholeInv'
<1>1. pc' = [pc EXCEPT ![k] = place] /\ pc \in [Calls -> Places] /\ Requests \subseteq Calls
  BY DEF Go, WholeInv, OwnerInv, Calls
<1>2. Adding \subseteq Adding' /\ Deleting \subseteq Deleting'
  BY <1>1, CommentAssumption DEF Adding, Deleting
<1>3. WholeButFor(db, Adding, Deleting) => WholeButFor(new, Adding', Deleting')
  BY <1>2 DEF WholeButFor
<1> QED BY <1>3, StatementWritten DEF InTransaction

LEMMA ToggleLikeKeeps ==
    ASSUME WholeInv, OwnerInv', NEW r \in Requests, ToggleLike(r), UNCHANGED <<owner, torn>>
    PROVE  WholeInv'
<1> DEFINE like == <<r.user, r.comment>>
           likes == IF like \in db.likes THEN db.likes \ {like} ELSE db.likes \cup {like}
           new == [db EXCEPT !.likes = likes]
<1>0. TablesOK(db)
  BY DEF WholeInv
<1>1. pc[r] = "first" /\ Write(new) /\ Go(r, "committing") /\ r \in Calls
  BY DEF ToggleLike, Calls
<1> HIDE DEF likes
<1>2. /\ new.tasks = db.tasks
      /\ new.reports = db.reports /\ new.comment = db.comment /\ TablesOK(new)
  BY <1>0 DEF TablesOK
<1> HIDE DEF new
<1> QED BY <1>1, <1>2, HarmlessWrite

LEMMA IndexKeeps ==
    ASSUME WholeInv, OwnerInv', NEW w \in Calls, IndexComment(w), UNCHANGED <<owner, torn>>
    PROVE  WholeInv'
<1> DEFINE c == item[w].task.comment
           index == IF db.comment[c] = "public" THEN db.index \cup {c} ELSE db.index \ {c}
           new == [db EXCEPT !.index = index]
<1>0. TablesOK(db)
  BY DEF WholeInv
<1>1. pc[w] = "first" /\ Write(new) /\ Go(w, "second")
  BY DEF IndexComment
<1> HIDE DEF index
<1>2. /\ new.tasks = db.tasks
      /\ new.reports = db.reports /\ new.comment = db.comment /\ TablesOK(new)
  BY <1>0 DEF TablesOK
<1> HIDE DEF new
<1> QED BY <1>1, <1>2, HarmlessWrite

\* The tables after SetTask: a task that is there stays.
LEMMA TaskIsSet ==
    ASSUME TablesOK(db), NEW m, NEW to, to # "none", NEW tries, SetTask(m, to, tries)
    PROVE  \E new : /\ Write(new) /\ TablesOK(new)
                    /\ new.reports = db.reports /\ new.comment = db.comment
                    /\ \A n \in TaskMakers : db.tasks[n].status # "none" =>
                                                new.tasks[n].status # "none"
<1> DEFINE task == IF db.tasks[m].status = "none" THEN db.tasks[m]
                   ELSE [status |-> to, attempts |-> tries]
           new == [db EXCEPT !.tasks[m] = task]
<1>1. Write(new)
  BY DEF SetTask
<1>2. db.tasks[m].status # "none" => task.status # "none"
  OBVIOUS
<1> HIDE DEF task
<1>3. /\ new.tasks = [db.tasks EXCEPT ![m] = task]
      /\ new.reports = db.reports /\ new.comment = db.comment /\ TablesOK(new)
  <2> DEFINE tasks == [db.tasks EXCEPT ![m] = task]
  <2>1. db = [comment |-> db.comment, likes |-> db.likes, reports |-> db.reports,
              index |-> db.index, tasks |-> db.tasks]
    BY DEF TablesOK
  <2>2. tasks = [n \in TaskMakers |-> tasks[n]]
    BY DEF TablesOK
  <2> HIDE DEF tasks
  <2>3. new = [comment |-> db.comment, likes |-> db.likes, reports |-> db.reports,
               index |-> db.index, tasks |-> tasks]
    BY <2>1 DEF tasks
  <2>4. new.tasks = tasks /\ new.reports = db.reports /\ new.comment = db.comment
    BY <2>3
  <2>5. TablesOK(new)
    BY <2>2, <2>3 DEF TablesOK
  <2> QED BY <2>4, <2>5 DEF tasks
<1> HIDE DEF new
<1>4. \A n \in TaskMakers : db.tasks[n].status # "none" => new.tasks[n].status # "none"
  BY <1>2, <1>3 DEF TablesOK
<1> QED BY <1>1, <1>3, <1>4

LEMMA MarkSyncedKeeps ==
    ASSUME WholeInv, OwnerInv', NEW w \in Calls, MarkSynced(w), UNCHANGED <<owner, torn>>
    PROVE  WholeInv'
<1>0. TablesOK(db)
  BY DEF WholeInv
<1>1. /\ w \in Workers /\ pc[w] = "second" /\ Go(w, "committing")
      /\ SetTask(item[w].task, "synced", db.tasks[item[w].task].attempts)
  BY DEF MarkSynced
<1>2. PICK new : /\ Write(new) /\ TablesOK(new)
                 /\ new.reports = db.reports /\ new.comment = db.comment
                 /\ \A n \in TaskMakers : db.tasks[n].status # "none" => new.tasks[n].status # "none"
  BY <1>0, <1>1, TaskIsSet
<1> QED BY <1>1, <1>2, HarmlessWrite

LEMMA InsertReportKeeps ==
    ASSUME WholeInv, OwnerInv', NEW r \in Requests, InsertReport(r), UNCHANGED <<owner, torn>>
    PROVE  WholeInv'
<1> DEFINE key == <<r.user, r.comment>>
           value == IF db.reports[key] = "none" THEN "pending" ELSE db.reports[key]
           reports == [db.reports EXCEPT ![key] = value]
           new == [db EXCEPT !.reports[key] = value]
<1>0. OwnerInv /\ FreshIsUnknown /\ TablesOK(db)
  BY DEF WholeInv
<1>1. /\ r.kind = "report" /\ pc[r] = "first" /\ Write(new) /\ Go(r, "second")
      /\ r \in Calls /\ r.comment \in Comments /\ r.user \in Users
  BY DEF InsertReport, Calls, Comments, Users
<1>2. value \in {"pending", db.reports[key]}
  OBVIOUS
<1>3. reports \in [Users \X Comments -> {"none", "pending", "kept", "deleted"}]
      /\ \A u \in Users, c \in Comments : /\ reports[<<u, c>>] = "deleted" =>
                                                db.reports[<<u, c>>] = "deleted"
                                          /\ c # r.comment => reports[<<u, c>>] = db.reports[<<u, c>>]
  <2> HIDE DEF value
  <2>1. db.reports \in [Users \X Comments -> {"none", "pending", "kept", "deleted"}]
    BY <1>0 DEF TablesOK
  <2>2. key \in Users \X Comments
    BY <1>1
  <2>3. reports[key] = value /\ \A p \in Users \X Comments : p # key => reports[p] = db.reports[p]
    BY <2>1, <2>2
  <2>4. reports \in [Users \X Comments -> {"none", "pending", "kept", "deleted"}]
    BY <2>1, <2>2, <1>2
  <2> HIDE DEF reports
  <2>5. ASSUME NEW u \in Users, NEW c \in Comments
        PROVE  /\ reports[<<u, c>>] = "deleted" => db.reports[<<u, c>>] = "deleted"
               /\ c # r.comment => reports[<<u, c>>] = db.reports[<<u, c>>]
    <3>1. CASE <<u, c>> = key
      BY <1>2, <2>3, <3>1
    <3>2. CASE <<u, c>> # key
      BY <2>3, <3>2
    <3> QED BY <3>1, <3>2
  <2> QED BY <2>4, <2>5
<1>4. /\ new.reports = reports /\ new.comment = db.comment /\ new.tasks = db.tasks
      /\ TablesOK(new)
  <2> HIDE DEF value
  <2>1. db = [comment |-> db.comment, likes |-> db.likes, reports |-> db.reports,
              index |-> db.index, tasks |-> db.tasks]
    BY <1>0 DEF TablesOK
  <2>2. new = [comment |-> db.comment, likes |-> db.likes, reports |-> reports,
               index |-> db.index, tasks |-> db.tasks]
    BY <2>1
  <2> HIDE DEF new, reports
  <2> QED BY <1>0, <1>3, <2>2 DEF TablesOK
<1> HIDE DEF value, reports, new
<1>5. pc' = [pc EXCEPT ![r] = "second"] /\ pc \in [Calls -> Places] /\ Requests \subseteq Calls
  BY <1>0, <1>1 DEF Go, OwnerInv, Calls
<1>6. \A c \in Comments : Fresh(c)' =>
          /\ new.comment[c] = db.comment[c]
          /\ \A u \in Users : new.reports[<<u, c>>] = db.reports[<<u, c>>]
  <2> TAKE c \in Comments
  <2> HAVE Fresh(c)'
  <2>1. Fresh(c)
    BY <1>0, <1>1, FreshBefore
  <2>2. c # r.comment
    BY <1>0, <1>1, <2>1 DEF FreshIsUnknown, InTransaction
  <2> QED BY <1>3, <1>4, <2>2
<1>7. Adding \subseteq Adding' /\ Deleting \subseteq Deleting'
  BY <1>1, <1>5 DEF Adding, Deleting
<1>8. WholeButFor(db, Adding, Deleting) => WholeButFor(new, Adding', Deleting')
  BY <1>3, <1>4, <1>7 DEF WholeButFor
<1> QED BY <1>1, <1>4, <1>6, <1>8, StatementWritten DEF InTransaction

\* The tables with another table of comments, deleted ones being as deleted as before.
LEMMA OtherComments ==
    ASSUME TablesOK(db), NEW new, NEW comment, NEW index, NEW tasks,
           comment \in [Comments -> {"absent", "public", "hidden", "deleted"}],
           tasks = [m \in TaskMakers |-> tasks[m]],
           new = [db EXCEPT !.comment = comment, !.index = index, !.tasks = tasks]
    PROVE  /\ TablesOK(new)
           /\ new.comment = comment /\ new.tasks = tasks /\ new.reports = db.reports
<1>1. db = [comment |-> db.comment, likes |-> db.likes, reports |-> db.reports,
            index |-> db.index, tasks |-> db.tasks]
  BY DEF TablesOK
<1>2. new = [comment |-> comment, likes |-> db.likes, reports |-> db.reports,
             index |-> index, tasks |-> tasks]
  BY <1>1
<1> QED BY <1>2 DEF TablesOK

\* Escalate, DeleteComment and KeepComment: no comment comes or goes.
LEMMA CommentWritten ==
    ASSUME WholeInv, OwnerInv', NEW r \in Requests, Go(r, "committing"),
           pc[r] \in {"second", "keeping", "deleting"}, pc[r] = "second" => r.kind # "add",
           UNCHANGED <<owner, torn>>,
           NEW new, TablesOK(new), Write(new), new.reports = db.reports,
           \A m \in TaskMakers : db.tasks[m].status # "none" => new.tasks[m].status # "none",
           \A c \in Comments : new.comment[c] # db.comment[c] =>
               /\ c = r.comment
               /\ db.comment[c] # "absent" /\ new.comment[c] # "absent"
               /\ db.comment[c] = "deleted" => new.comment[c] = "deleted",
           pc[r] = "deleting" => new.comment[r.comment] \in {"absent", "deleted"}
    PROVE  WholeInv'
<1>0. OwnerInv /\ FreshIsUnknown /\ TablesOK(db)
  BY DEF WholeInv
<1>1. r \in Calls /\ r.comment \in Comments
  BY DEF Calls, Comments
<1>2. \A c \in Comments : Fresh(c)' => new.comment[c] = db.comment[c]
  <2> TAKE c \in Comments
  <2> HAVE Fresh(c)'
  <2>1. Fresh(c)
    BY <1>0, <1>1, FreshBefore
  <2> QED BY <1>0, <2>1 DEF FreshIsUnknown
<1>3. pc' = [pc EXCEPT ![r] = "committing"] /\ pc \in [Calls -> Places] /\ Requests \subseteq Calls
  BY <1>0 DEF Go, OwnerInv, Calls
<1>4. \A m \in Adding : m.kind = "add" => m \in Adding'
  BY <1>3 DEF Adding
<1>5. ASSUME NEW u \in Users, NEW c \in Comments, <<u, c>> \in Deleting
      PROVE  <<u, c>> \in Deleting' \/ new.comment[c] \in {"absent", "deleted"}
  <2>1. PICK q \in Requests : pc[q] = "deleting" /\ u = q.user /\ c = q.comment
    BY <1>5 DEF Deleting
  <2>2. CASE q = r
    BY <2>1, <2>2
  <2>3. CASE q # r
    <3>1. pc'[q] = "deleting"
      BY <1>3, <2>1, <2>3
    <3> QED BY <2>1, <3>1 DEF Deleting
  <2> QED BY <2>2, <2>3
<1>6. ASSUME WholeButFor(db, Adding, Deleting)
      PROVE  WholeButFor(new, Adding', Deleting')
  <2>1. ASSUME NEW m \in TaskMakers, m.kind = "add", new.comment[m.comment] # "absent"
        PROVE  new.tasks[m].status # "none" \/ m \in Adding'
    <3>1. m.comment \in Comments
      BY DEF TaskMakers, Comments
    <3>2. db.comment[m.comment] # "absent"
      BY <2>1, <3>1
    <3> QED BY <1>4, <1>6, <2>1, <3>2 DEF WholeButFor
  <2>2. ASSUME NEW u \in Users, NEW c \in Comments,
               new.reports[<<u, c>>] = "deleted", new.comment[c] # "absent"
        PROVE  new.comment[c] = "deleted" \/ <<u, c>> \in Deleting'
    <3>1. db.comment[c] # "absent"
      BY <2>2
    <3>2. db.comment[c] = "deleted" \/ <<u, c>> \in Deleting
      BY <1>6, <2>2, <3>1 DEF WholeButFor
    <3> QED BY <1>5, <2>2, <3>2
  <2> QED BY <2>1, <2>2 DEF WholeButFor
<1> QED BY <1>1, <1>2, <1>6, StatementWritten DEF InTransaction

LEMMA EscalateKeeps ==
    ASSUME WholeInv, OwnerInv', NEW r \in Requests, Escalate(r), UNCHANGED <<owner, torn>>
    PROVE  WholeInv'
<1> DEFINE c == r.comment
           many == Cardinality({u \in Users : db.reports[<<u, c>>] = "pending"}) > EscalateAbove
           value == IF db.comment[c] = "public" /\ many THEN "hidden" ELSE db.comment[c]
           comment == [db.comment EXCEPT ![c] = value]
           new == [db EXCEPT !.comment = comment, !.index = db.index, !.tasks = db.tasks]
<1>0. TablesOK(db)
  BY DEF WholeInv
<1>1. /\ r.kind = "report" /\ pc[r] = "second" /\ Go(r, "committing") /\ c \in Comments
      /\ Write([db EXCEPT !.comment[c] = value])
  BY DEF Escalate, Comments
<1>2. [db EXCEPT !.comment[c] = value] = new
  <2> HIDE DEF value
  <2> QED BY <1>0 DEF TablesOK
<1>3. /\ db.comment \in [Comments -> {"absent", "public", "hidden", "deleted"}]
      /\ db.tasks = [m \in TaskMakers |-> db.tasks[m]]
  BY <1>0 DEF TablesOK
<1>4. value # db.comment[c] => db.comment[c] = "public" /\ value = "hidden"
  OBVIOUS
<1>5. /\ comment \in [Comments -> {"absent", "public", "hidden", "deleted"}]
      /\ \A d \in Comments : comment[d] # db.comment[d] =>
             d = c /\ db.comment[d] = "public" /\ comment[d] = "hidden"
  <2> HIDE DEF value
  <2> QED BY <1>1, <1>3, <1>4
<1> HIDE DEF value, comment
<1>6. /\ TablesOK(new)
      /\ new.comment = comment /\ new.tasks = db.tasks /\ new.reports = db.reports
  BY <1>0, <1>3, <1>5, OtherComments
<1> HIDE DEF new
<1>7. Write(new)
  BY <1>1, <1>2
<1> QED BY <1>1, <1>5, <1>6, <1>7, CommentWritten

LEMMA DeleteCommentKeeps ==
    ASSUME WholeInv, OwnerInv', NEW r \in Requests, DeleteComment(r), UNCHANGED <<owner, torn>>
    PROVE  WholeInv'
<1> DEFINE c == r.comment
           value == IF db.comment[c] = "absent" THEN db.comment[c] ELSE "deleted"
           comment == [db.comment EXCEPT ![c] = value]
           index == db.index \ {c}
           new == [db EXCEPT !.comment = comment, !.index = index, !.tasks = db.tasks]
<1>0. TablesOK(db)
  BY DEF WholeInv
<1>1. /\ pc[r] = "deleting" /\ Go(r, "committing") /\ c \in Comments
      /\ Write([db EXCEPT !.comment[c] = value, !.index = index])
  BY DEF DeleteComment, Comments
<1>2. [db EXCEPT !.comment[c] = value, !.index = index] = new
  <2> HIDE DEF value, index
  <2> QED BY <1>0 DEF TablesOK
<1>3. /\ db.comment \in [Comments -> {"absent", "public", "hidden", "deleted"}]
      /\ db.tasks = [m \in TaskMakers |-> db.tasks[m]]
  BY <1>0 DEF TablesOK
<1>4. /\ value \in {"absent", "deleted"}
      /\ value # db.comment[c] => db.comment[c] # "absent" /\ value = "deleted"
  OBVIOUS
<1>5. /\ comment \in [Comments -> {"absent", "public", "hidden", "deleted"}]
      /\ comment[c] \in {"absent", "deleted"}
      /\ \A d \in Comments : comment[d] # db.comment[d] =>
             d = c /\ db.comment[d] # "absent" /\ comment[d] = "deleted"
  <2> HIDE DEF value
  <2> QED BY <1>1, <1>3, <1>4
<1> HIDE DEF value, comment, index
<1>6. /\ TablesOK(new)
      /\ new.comment = comment /\ new.tasks = db.tasks /\ new.reports = db.reports
  BY <1>0, <1>3, <1>5, OtherComments
<1> HIDE DEF new
<1>7. Write(new)
  BY <1>1, <1>2
<1> QED BY <1>1, <1>5, <1>6, <1>7, CommentWritten

LEMMA KeepCommentKeeps ==
    ASSUME WholeInv, OwnerInv', NEW r \in Requests, KeepComment(r), UNCHANGED <<owner, torn>>
    PROVE  WholeInv'
<1> DEFINE c == r.comment
           value == IF db.comment[c] = "hidden" THEN "public" ELSE db.comment[c]
           task == [status |-> "pending", attempts |-> 0]
           comment == [db.comment EXCEPT ![c] = value]
           tasks == [db.tasks EXCEPT ![r] = task]
           new == [db EXCEPT !.comment = comment, !.index = db.index, !.tasks = tasks]
<1>0. TablesOK(db)
  BY DEF WholeInv
<1>1. /\ pc[r] = "keeping" /\ Go(r, "committing") /\ c \in Comments
      /\ Write([db EXCEPT !.comment[c] = value, !.tasks[r] = task])
  BY DEF KeepComment, Comments
<1>t. task.status = "pending"
  OBVIOUS
<1>2. [db EXCEPT !.comment[c] = value, !.tasks[r] = task] = new
  <2> HIDE DEF value, task
  <2> QED BY <1>0 DEF TablesOK
<1>3. /\ db.comment \in [Comments -> {"absent", "public", "hidden", "deleted"}]
      /\ db.tasks = [m \in TaskMakers |-> db.tasks[m]]
  BY <1>0 DEF TablesOK
<1>4. value # db.comment[c] => db.comment[c] = "hidden" /\ value = "public"
  OBVIOUS
<1>5. /\ comment \in [Comments -> {"absent", "public", "hidden", "deleted"}]
      /\ \A d \in Comments : comment[d] # db.comment[d] =>
             d = c /\ db.comment[d] = "hidden" /\ comment[d] = "public"
  <2> HIDE DEF value
  <2> QED BY <1>1, <1>3, <1>4
<1> HIDE DEF value, comment, task
<1>6. /\ tasks = [m \in TaskMakers |-> tasks[m]]
      /\ \A m \in TaskMakers : db.tasks[m].status # "none" => tasks[m].status # "none"
  BY <1>3, <1>t
<1> HIDE DEF tasks
<1>7. /\ TablesOK(new)
      /\ new.comment = comment /\ new.tasks = tasks /\ new.reports = db.reports
  BY <1>0, <1>5, <1>6, OtherComments
<1> HIDE DEF new
<1>8. Write(new)
  BY <1>1, <1>2
<1> QED BY <1>1, <1>5, <1>6, <1>7, <1>8, CommentWritten

LEMMA SettleReportKeeps ==
    ASSUME WholeInv, OwnerInv', NEW r \in Requests, SettleReport(r), UNCHANGED <<owner, torn>>
    PROVE  WholeInv'
<1> DEFINE key == <<r.user, r.comment>>
<1>0. OwnerInv /\ FreshIsUnknown /\ TablesOK(db)
  BY DEF WholeInv
<1>1. /\ r.kind = "resolve" /\ pc[r] = "first"
      /\ r \in Calls /\ r.comment \in Comments /\ r.user \in Users
  BY DEF SettleReport, Calls, Comments, Users
<1>2. CASE db.reports[key] = "none"
  <2>1. Go(r, "rollingBack") /\ UNCHANGED <<db, saved>>
    BY <1>2 DEF SettleReport
  <2> QED BY <1>1, <2>1, NothingWritten DEF Places, InTransaction
<1>3. CASE db.reports[key] # "none"
  <2>1. PICK resolved \in {"kept", "deleted"} :
           /\ Write([db EXCEPT !.reports[key] = resolved])
           /\ Go(r, IF resolved = "kept" THEN "keeping" ELSE "deleting")
    BY <1>3 DEF SettleReport
  <2> DEFINE new == [db EXCEPT !.reports[key] = resolved]
             reports == [db.reports EXCEPT ![key] = resolved]
             place == IF resolved = "kept" THEN "keeping" ELSE "deleting"
  <2>2. reports \in [Users \X Comments -> {"none", "pending", "kept", "deleted"}]
        /\ reports[key] = resolved
        /\ \A p \in Users \X Comments : p # key => reports[p] = db.reports[p]
    BY <1>0, <1>1 DEF TablesOK
  <2>3. /\ new.reports = reports /\ new.comment = db.comment /\ new.tasks = db.tasks
        /\ TablesOK(new)
    <3>1. db = [comment |-> db.comment, likes |-> db.likes, reports |-> db.reports,
                index |-> db.index, tasks |-> db.tasks]
      BY <1>0 DEF TablesOK
    <3>2. new = [comment |-> db.comment, likes |-> db.likes, reports |-> reports,
                 index |-> db.index, tasks |-> db.tasks]
      BY <3>1
    <3> HIDE DEF new, reports
    <3> QED BY <1>0, <2>2, <3>2 DEF TablesOK
  <2>4. Write(new) /\ Go(r, place)
    BY <2>1
  <2>5. place \in {"keeping", "deleting"} /\ (resolved = "deleted" => place = "deleting")
    BY <2>1
  <2> HIDE DEF new, reports, place
  <2>6. pc' = [pc EXCEPT ![r] = place] /\ pc \in [Calls -> Places] /\ Requests \subseteq Calls
    BY <1>0, <2>4 DEF Go, OwnerInv, Calls
  <2>7. \A c \in Comments : Fresh(c)' =>
            /\ new.comment[c] = db.comment[c]
            /\ \A u \in Users : new.reports[<<u, c>>] = db.reports[<<u, c>>]
    <3> TAKE c \in Comments
    <3> HAVE Fresh(c)'
    <3>1. Fresh(c)
      BY <1>0, <1>1, <2>4, <2>5, FreshBefore
    <3>2. c # r.comment
      BY <1>0, <1>1, <1>3, <3>1 DEF FreshIsUnknown
    <3>3. \A u \in Users : <<u, c>> \in Users \X Comments /\ <<u, c>> # key
      BY <3>2
    <3> QED BY <2>2, <2>3, <3>3
  <2>8. Adding \subseteq Adding' /\ Deleting \subseteq Deleting'
    BY <1>1, <2>6 DEF Adding, Deleting
  <2>9. resolved = "deleted" => key \in Deleting'
    BY <1>1, <2>5, <2>6 DEF Deleting
  <2>10. \A u \in Users, c \in Comments : new.reports[<<u, c>>] = "deleted" =>
             db.reports[<<u, c>>] = "deleted" \/ <<u, c>> \in Deleting'
    <3> TAKE u \in Users, c \in Comments
    <3>1. <<u, c>> \in Users \X Comments
      OBVIOUS
    <3> QED BY <2>2, <2>3, <2>9, <3>1
  <2>11. WholeButFor(db, Adding, Deleting) => WholeButFor(new, Adding', Deleting')
    BY <2>3, <2>8, <2>10 DEF WholeButFor
  <2> QED BY <1>1, <2>3, <2>4, <2>5, <2>7, <2>11, StatementWritten DEF InTransaction
<1> QED BY <1>2, <1>3

LEMMA StatementKeeps ==
    ASSUME WholeInv, OwnerInv', NEW k \in Calls, Statement(k)
    PROVE  WholeInv'
<1>1. UNCHANGED <<owner, torn>>
  BY DEF Statement
<1> QED
  BY <1>1, InsertCommentKeeps, InsertTaskKeeps, ToggleLikeKeeps, InsertReportKeeps, EscalateKeeps,
     SettleReportKeeps, DeleteCommentKeeps, KeepCommentKeeps, IndexKeeps, MarkSyncedKeeps
     DEF Statement

\* A call ends the transaction that is open, with the tables that are then committed.
LEMMA TransactionEnds ==
    ASSUME WholeInv, OwnerInv', NEW k \in Calls, NEW place \in Places, Go(k, place),
           pc[k] \in {"committing", "rollingBack"}, owner # Nobody, CloseTransaction(k),
           NEW tables \in {db, saved}, db' = tables, saved' = tables,
           pc[k] = "rollingBack" => tables = saved,
           place \notin InTransaction \cup {"committing"},
           place \in {"idle", "beginning"} => k \in Workers
    PROVE  WholeInv'
<1>0. OwnerInv /\ FreshIsUnknown /\ TablesOK(db) /\ TablesOK(saved)
  BY DEF WholeInv
<1>1. TablesOK(db') /\ TablesOK(saved')
  BY <1>0
<1>2. FreshIsUnknown'
  <2>1. \A c \in Comments : Fresh(c)' =>
            /\ db'.comment[c] \in {db.comment[c], saved.comment[c]}
            /\ saved'.comment[c] \in {db.comment[c], saved.comment[c]}
            /\ \A u \in Users :
                  /\ db'.reports[<<u, c>>] \in {db.reports[<<u, c>>], saved.reports[<<u, c>>]}
                  /\ saved'.reports[<<u, c>>] \in {db.reports[<<u, c>>], saved.reports[<<u, c>>]}
    OBVIOUS
  <2>2. place # "first"
    BY DEF InTransaction
  <2>3. k \in Requests => place # "beginning"
    BY CommentAssumption
  <2> QED BY <1>0, <2>1, <2>2, <2>3, FreshKept
<1>3. ASSUME ~torn' PROVE TransactionsStandAlone'
  <2>0. /\ TransactionsStandAlone /\ owner = k /\ owner' = Nobody
        /\ pc' = [pc EXCEPT ![k] = place] /\ pc \in [Calls -> Places]
    BY <1>0, <1>3 DEF WholeInv, Go, OwnerInv, CloseTransaction
  <2>1. \A j \in Calls : pc'[j] \notin InTransaction \cup {"committing"}
    BY <2>0 DEF TransactionsStandAlone
  <2>2. WholeButFor(tables, {}, {})
    <3>1. CASE tables = saved
      BY <2>0, <3>1 DEF TransactionsStandAlone
    <3>2. CASE tables = db /\ pc[k] = "committing"
      <4>1. WholeButFor(db, Adding, Deleting)
        BY <2>0, <3>2 DEF TransactionsStandAlone
      <4>2. \A j \in Calls : pc[j] \notin InTransaction
        BY <2>0, <3>2 DEF TransactionsStandAlone, InTransaction
      <4>3. Adding = {} /\ Deleting = {}
        BY <4>2 DEF Adding, Deleting, InTransaction, Calls
      <4> QED BY <3>2, <4>1, <4>3
    <3> QED BY <3>1, <3>2
  <2> QED BY <2>0, <2>1, <2>2 DEF TransactionsStandAlone
<1> QED BY <1>1, <1>2, <1>3 DEF WholeInv, TablesOK

LEMMA CommitKeeps ==
    ASSUME WholeInv, OwnerInv', NEW k \in Calls, Commit(k)
    PROVE  WholeInv'
<1>1. pc[k] = "committing" /\ db' = db
  BY DEF Commit
<1>2. CASE owner = Nobody
  <2>1. /\ Go(k, "rollingBack") /\ UNCHANGED <<db, saved, owner, torn>>
        /\ owner # k
    BY <1>2, CommentAssumption DEF Commit
  <2> QED BY <2>1, NothingWritten DEF Places, InTransaction
<1>3. CASE owner # Nobody
  <2> DEFINE place == IF k \in Requests THEN IF k.kind = "like" THEN "counting" ELSE "done"
                      ELSE IF list[k] = {} THEN "idle" ELSE "beginning"
  <2>1. saved' = db /\ CloseTransaction(k) /\ Go(k, place)
    BY <1>3 DEF Commit, AfterCommit
  <2>2. /\ place \in {"counting", "done", "idle", "beginning"}
        /\ place \in {"idle", "beginning"} => k \in Workers
    BY DEF Calls
  <2> HIDE DEF place
  <2>3. place \in Places /\ place \notin InTransaction \cup {"committing"}
    BY <2>2 DEF Places, InTransaction
  <2> QED BY <1>1, <1>3, <2>1, <2>2, <2>3, TransactionEnds
<1> QED BY <1>2, <1>3

LEMMA RollbackKeeps ==
    ASSUME WholeInv, OwnerInv', NEW k \in Calls, Rollback(k)
    PROVE  WholeInv'
<1>1. pc[k] = "rollingBack" /\ saved' = saved
  BY DEF Rollback
<1> DEFINE last == IF k \in Workers THEN "idle" ELSE "failed"
<1>2. CASE owner = Nobody
  <2>1. /\ Go(k, last) /\ UNCHANGED <<db, saved, owner, torn>>
        /\ owner # k
    BY <1>2, CommentAssumption DEF Rollback, GiveUp
  <2>2. /\ last \in Places /\ last \notin InTransaction \cup {"committing", "beginning", "first"}
        /\ last = "idle" => k \in Workers
    BY DEF Places, InTransaction
  <2> HIDE DEF last
  <2> QED BY <2>1, <2>2, NothingWritten
<1>3. CASE owner # Nobody
  <2>1. db' = saved /\ CloseTransaction(k)
    BY <1>3 DEF Rollback
  <2>2. \E place \in {"noting", "idle", "failed"} : Go(k, place) /\ (place = "idle" => k \in Workers)
    BY <1>3 DEF Rollback, GiveUp
  <2>3. {"noting", "idle", "failed"} \subseteq Places
        /\ {"noting", "idle", "failed"} \cap (InTransaction \cup {"committing"}) = {}
    BY DEF Places, InTransaction
  <2> QED BY <1>1, <1>3, <2>1, <2>2, <2>3, TransactionEnds
<1> QED BY <1>2, <1>3

\* The worker notes a failure inside of whatever transaction is open.
LEMMA NoteFailureKeeps ==
    ASSUME WholeInv, OwnerInv', NEW w \in Workers, NoteFailure(w)
    PROVE  WholeInv'
<1> DEFINE place == IF list[w] = {} THEN "idle" ELSE "beginning"
<1>0. /\ OwnerInv /\ FreshIsUnknown /\ TablesOK(db) /\ TablesOK(saved)
      /\ w \in Calls /\ w \notin Requests
  BY CommentAssumption DEF WholeInv, Calls
<1>1. pc[w] = "noting" /\ UNCHANGED <<owner, torn>> /\ Go(w, place)
  BY <1>0 DEF NoteFailure, AfterCommit
<1>2. place \in {"idle", "beginning"} /\ place \in Places
  BY DEF Places
<1> HIDE DEF place
<1>3. PICK new : /\ Write(new) /\ TablesOK(new)
                 /\ new.reports = db.reports /\ new.comment = db.comment
                 /\ \A n \in TaskMakers : db.tasks[n].status # "none" => new.tasks[n].status # "none"
  <2>1. PICK to \in {"dead_letter", "retry"}, tries \in {item[w].attempts + 1} :
            SetTask(item[w].task, to, tries)
    BY DEF NoteFailure
  <2> QED BY <1>0, <2>1, TaskIsSet
<1>4. db' = new /\ saved' = IF owner = Nobody THEN new ELSE saved
  BY <1>3 DEF Write
<1>5. TablesOK(db') /\ TablesOK(saved')
  BY <1>0, <1>3, <1>4
<1>6. FreshIsUnknown'
  <2>1. \A c \in Comments : Fresh(c)' =>
            /\ db'.comment[c] \in {db.comment[c], saved.comment[c]}
            /\ saved'.comment[c] \in {db.comment[c], saved.comment[c]}
            /\ \A u \in Users :
                  /\ db'.reports[<<u, c>>] \in {db.reports[<<u, c>>], saved.reports[<<u, c>>]}
                  /\ saved'.reports[<<u, c>>] \in {db.reports[<<u, c>>], saved.reports[<<u, c>>]}
    BY <1>3, <1>4
  <2> QED BY <1>0, <1>1, <1>2, <2>1, FreshKept
<1>7. \A a, d : WholeButFor(db, a, d) => WholeButFor(new, a, d)
  BY <1>3 DEF WholeButFor
<1>8. ASSUME ~torn' PROVE TransactionsStandAlone'
  <2>0. /\ TransactionsStandAlone /\ pc' = [pc EXCEPT ![w] = place] /\ pc \in [Calls -> Places]
    BY <1>0, <1>1, <1>8 DEF WholeInv, Go, OwnerInv
  <2>1. owner # w
    BY <1>0, <1>1, NotTheOwner
  <2>2. \A j \in Calls : pc'[j] \in InTransaction \cup {"committing"} => owner' = j
    BY <1>1, <1>2, <2>0 DEF TransactionsStandAlone, InTransaction
  <2>3. owner' = Nobody => db' = saved'
    BY <1>1, <1>4
  <2>4. WholeButFor(saved', {}, {})
    <3>1. CASE owner = Nobody
      <4>1. WholeButFor(db, {}, {})
        BY <2>0, <3>1 DEF TransactionsStandAlone
      <4> QED BY <1>4, <1>7, <3>1, <4>1
    <3>2. CASE owner # Nobody
      BY <1>4, <2>0, <3>2 DEF TransactionsStandAlone
    <3> QED BY <3>1, <3>2
  <2>5. Adding' = Adding /\ Deleting' = Deleting
    <3>1. \A q \in Requests : q \in Calls /\ q # w /\ pc'[q] = pc[q]
      BY <1>0, <2>0 DEF Calls
    <3> QED BY <3>1 DEF Adding, Deleting
  <2>6. owner' # Nobody /\ pc'[owner'] # "rollingBack" => WholeButFor(db', Adding', Deleting')
    <3> HAVE owner' # Nobody /\ pc'[owner'] # "rollingBack"
    <3>1. owner # Nobody /\ pc[owner] # "rollingBack"
      BY <1>0, <1>1, <2>0, <2>1 DEF OwnerInv
    <3>2. WholeButFor(db, Adding, Deleting)
      BY <2>0, <3>1 DEF TransactionsStandAlone
    <3> QED BY <1>4, <1>7, <2>5, <3>2
  <2> QED BY <2>2, <2>3, <2>4, <2>6 DEF TransactionsStandAlone
<1> QED BY <1>1, <1>5, <1>6, <1>8 DEF WholeInv, TablesOK

LEMMA CommentCrashKeeps == ASSUME WholeInv, OwnerInv', Crash PROVE WholeInv'
<1>0. OwnerInv /\ FreshIsUnknown /\ TablesOK(db) /\ TablesOK(saved)
  BY DEF WholeInv
<1>1. db' = saved /\ saved' = saved /\ owner' = Nobody /\ torn' = torn
  BY DEF Crash
<1>2. /\ \A k \in Calls : pc'[k] \in {"idle", "done", "failed"}
      /\ \A r \in Requests : pc'[r] \in {"idle", "beginning", "first"} => pc[r] = "idle"
  <2>1. pc' = [k \in Calls |-> IF k \in Workers THEN "idle"
                               ELSE IF pc[k] \in {"idle", "done"} THEN pc[k] ELSE "failed"]
    BY DEF Crash
  <2>2. \A r \in Requests : r \in Calls /\ r \notin Workers
    BY CommentAssumption DEF Calls
  <2> QED BY <2>1, <2>2
<1>3. TablesOK(db') /\ TablesOK(saved')
  BY <1>0, <1>1
<1>4. FreshIsUnknown'
  <2>1. \A c : Fresh(c)' => Fresh(c)
    BY <1>2 DEF Fresh
  <2>2. \A q \in Requests : pc'[q] \notin InTransaction \cup {"beginning"}
    BY <1>2 DEF Calls, InTransaction
  <2> QED BY <1>0, <1>1, <2>1, <2>2 DEF FreshIsUnknown
<1>5. ASSUME ~torn' PROVE TransactionsStandAlone'
  <2>1. TransactionsStandAlone
    BY <1>1, <1>5 DEF WholeInv
  <2> QED BY <1>1, <1>2, <2>1 DEF TransactionsStandAlone, InTransaction
<1> QED BY <1>1, <1>3, <1>4, <1>5 DEF WholeInv, TablesOK

LEMMA WholeStep == WholeInv /\ [Next]_vars => WholeInv'
<1> SUFFICES ASSUME WholeInv, [Next]_vars PROVE WholeInv'
  OBVIOUS
<1>0. OwnerInv /\ OwnerInv'
  BY OwnerInvNext DEF WholeInv
<1> USE <1>0
<1>c. Requests \subseteq Calls /\ Workers \subseteq Calls /\ Requests \cap Workers = {}
  BY CommentAssumption DEF Calls
<1>p. \A k \in Calls : pc[k] \in {"idle", "beginning", "counting", "noting", "done", "failed"} => owner # k
  BY NotTheOwner
<1>i. /\ {"beginning", "failed", "done", "idle"} \subseteq Places /\ "first" \in Places
      /\ "rollingBack" \in Places
      /\ {"beginning", "failed", "done", "idle", "rollingBack"} \cap (InTransaction \cup {"committing"}) = {}
  BY DEF Places, InTransaction
<1>1. ASSUME NEW r \in Requests, LookFor(r) PROVE WholeInv'
  <2>1. /\ pc[r] = "idle" /\ UNCHANGED <<db, saved, owner, torn>> /\ r \in Calls /\ owner # r
        /\ \E place \in {"beginning", "failed"} :
              Go(r, place) /\ (place = "beginning" => Listed(r))
    BY <1>1, <1>c, <1>p DEF LookFor
  <2>2. PICK place \in {"beginning", "failed"} : Go(r, place) /\ (place = "beginning" => Listed(r))
    BY <2>1
  <2> QED BY <1>i, <2>1, <2>2, NothingWritten
<1>2. ASSUME NEW r \in Requests, CountLikes(r) PROVE WholeInv'
  <2>1. Go(r, "done") /\ UNCHANGED <<db, saved, owner, torn>> /\ r \in Calls /\ owner # r
    BY <1>2, <1>c, <1>p DEF CountLikes
  <2> QED BY <1>i, <2>1, NothingWritten
<1>3. ASSUME NEW w \in Workers, ReadTasks(w) PROVE WholeInv'
  <2>1. Go(w, "beginning") /\ UNCHANGED <<db, saved, owner, torn>> /\ w \in Calls /\ owner # w
    BY <1>3, <1>c, <1>p DEF ReadTasks
  <2> QED BY <1>i, <1>c, <2>1, NothingWritten
<1>4. ASSUME NEW w \in Workers, NoteFailure(w) PROVE WholeInv'
  BY <1>4, NoteFailureKeeps
<1>5. ASSUME NEW w \in Workers, NoteFails(w) PROVE WholeInv'
  <2>1. Go(w, "idle") /\ UNCHANGED <<db, saved, owner, torn>> /\ w \in Calls /\ owner # w
    BY <1>5, <1>c, <1>p DEF NoteFails, GiveUp
  <2> QED BY <1>i, <1>c, <2>1, NothingWritten
<1>6. ASSUME NEW k \in Calls, Begin(k) PROVE WholeInv'
  <2>1. /\ Go(k, "first") /\ owner = Nobody /\ owner' = k /\ UNCHANGED <<db, saved, torn>>
        /\ pc[k] = "beginning" \/ (k \in TaskMakers /\ pc[k] = "idle")
    BY <1>6 DEF Begin, Ready
  <2>2. k # Nobody
    BY CommentAssumption
  <2>3. k \in Requests /\ k.kind = "report" => pc[k] = "beginning"
    BY <2>1 DEF TaskMakers
  <2> QED BY <1>i, <2>1, <2>2, <2>3, NothingWritten
<1>7. ASSUME NEW k \in Calls, BeginRefused(k) PROVE WholeInv'
  <2>1. /\ UNCHANGED <<db, saved, owner, torn>> /\ owner # k
        /\ Go(k, IF k \in Workers THEN "idle" ELSE "failed")
    BY <1>7, <1>p DEF BeginRefused, Ready, GiveUp
  <2>2. PICK place \in {"idle", "failed"} : Go(k, place) /\ (place = "idle" => k \in Workers)
    BY <2>1
  <2> QED BY <1>i, <2>1, <2>2, NothingWritten
<1>8. ASSUME NEW k \in Calls, Statement(k) PROVE WholeInv'
  BY <1>8, StatementKeeps
<1>9. ASSUME NEW k \in Calls, Commit(k) PROVE WholeInv'
  BY <1>9, CommitKeeps
<1>10. ASSUME NEW k \in Calls, StatementFails(k) PROVE WholeInv'
  <2>1. Go(k, "rollingBack") /\ UNCHANGED <<db, saved, owner, torn>>
    BY <1>10 DEF StatementFails
  <2> QED BY <1>i, <2>1, NothingWritten
<1>11. ASSUME NEW k \in Calls, Rollback(k) PROVE WholeInv'
  BY <1>11, RollbackKeeps
<1>12. CASE Crash
  BY <1>12, CommentCrashKeeps
<1>13. CASE UNCHANGED vars
  BY <1>13 DEF vars, WholeInv, TablesOK, FreshIsUnknown, Fresh, TransactionsStandAlone,
               WholeButFor, Adding, Deleting
<1> QED
  BY <1>1, <1>2, <1>3, <1>4, <1>5, <1>6, <1>7, <1>8, <1>9, <1>10, <1>11, <1>12, <1>13
  DEF Next, Step

\* runtime-store.ts, for any number of requests, workers, failures and crashes: what is
\* committed is all of an operation or nothing, as long as no call ends the transaction
\* of another on the connection that they share.
THEOREM CommentsAlwaysCommittedWhole == Safety => []CommittedWhole
<1>1. WholeInv => CommittedWhole
  BY DEF WholeInv, TransactionsStandAlone, WholeButFor, CommittedWhole
<1> QED BY <1>1, WholeStarts, WholeStep, PTL DEF Safety
=============================================================================
