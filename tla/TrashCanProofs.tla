--------------------------- MODULE TrashCanProofs ---------------------------
(***************************************************************************)
(* Proofs about TrashCan for every number of visits and of changes of the  *)
(* fill level.  The queue may hold reports of other tasks between those of *)
(* the can: where only the can sends, TypeOK says that there are none.     *)
(***************************************************************************)
EXTENDS TrashCan, TLAPS, FiniteSetTheorems, SequenceTheorems

----------------------------------------------------------------------------
(* The reports of one key on a queue shared with others.                   *)

Keys == {"Person_times", "full", "dumped"}
QueueOK == queued \in Seq(Keys \X Nat)

Adds(key, value) == queued' = Append(queued, <<key, value>>)

LEMMA SentFinite ==
  ASSUME QueueOK, NEW key
  PROVE  /\ Len(queued) \in Nat
         /\ Sent(key) \subseteq 1..Len(queued)
         /\ IsFiniteSet(Sent(key)) /\ Cardinality(Sent(key)) \in Nat
         /\ \A i \in Sent(key) : queued[i][2] \in Nat
<1>1. Len(queued) \in Nat /\ \A i \in 1..Len(queued) : queued[i] \in Keys \X Nat
  BY ElementOfSeq, LenProperties DEF QueueOK
<1>2. IsFiniteSet(1..Len(queued)) /\ Sent(key) \in SUBSET (1..Len(queued))
  BY <1>1, FS_Interval DEF Sent
<1>3. IsFiniteSet(Sent(key))
  BY <1>2, FS_Subset
<1> QED BY <1>1, <1>2, <1>3, FS_CardinalityType DEF Sent

LEMMA SentAdds ==
  ASSUME QueueOK, NEW k \in Keys, NEW v \in Nat, Adds(k, v), NEW key
  PROVE  /\ QueueOK'
         /\ Len(queued') = Len(queued) + 1
         /\ queued'[Len(queued) + 1] = <<k, v>>
         /\ \A i \in 1..Len(queued) : queued'[i] = queued[i]
         /\ Sent(key)' = IF key = k THEN Sent(key) \cup {Len(queued) + 1} ELSE Sent(key)
         /\ key = k => Cardinality(Sent(key)') = Cardinality(Sent(key)) + 1
<1>1. /\ Len(queued) \in Nat /\ queued' \in Seq(Keys \X Nat)
      /\ Len(queued') = Len(queued) + 1
      /\ queued'[Len(queued) + 1] = <<k, v>>
      /\ \A i \in 1..Len(queued) : queued'[i] = queued[i]
  <2> DEFINE r == <<k, v>>
  <2>1. r \in Keys \X Nat /\ queued \in Seq(Keys \X Nat) /\ queued' = Append(queued, r)
    BY DEF QueueOK, Adds
  <2> HIDE DEF r
  <2>2. /\ queued' \in Seq(Keys \X Nat) /\ Len(queued') = Len(queued) + 1
        /\ queued'[Len(queued) + 1] = r
        /\ \A i \in 1..Len(queued) : queued'[i] = queued[i]
    BY <2>1, AppendProperties
  <2>3. Len(queued) \in Nat
    BY <2>1, LenProperties
  <2> QED BY <2>2, <2>3 DEF r
<1>2. \A i : i \in 1..Len(queued') <=> i \in 1..Len(queued) \/ i = Len(queued) + 1
  BY <1>1
<1>3. Sent(key)' = IF key = k THEN Sent(key) \cup {Len(queued) + 1} ELSE Sent(key)
  <2>1. queued'[Len(queued) + 1][1] = k
    BY <1>1
  <2>2. Sent(key)' = {i \in 1..Len(queued') : queued'[i][1] = key}
    BY DEF Sent
  <2>3. \A i \in 1..Len(queued) : queued'[i][1] = queued[i][1]
    BY <1>1
  <2> QED BY <1>2, <2>1, <2>2, <2>3 DEF Sent
<1>4. Len(queued) + 1 \notin Sent(key)
  BY <1>1 DEF Sent
<1>5. key = k => Cardinality(Sent(key)') = Cardinality(Sent(key)) + 1
  BY <1>3, <1>4, SentFinite, FS_AddElement
<1> QED BY <1>1, <1>3, <1>5 DEF QueueOK

----------------------------------------------------------------------------
(* The can's own state.  A visitor who was counted stands before an open   *)
(* lid until the sensor has lost him once.                                 *)

CanOK ==
  /\ can \in CanPoints /\ lid \in BOOLEAN /\ lamp \in BOOLEAN
  /\ g_num \in 0..MaxVisits /\ full_flag \in {0, 1}
  /\ person \in BOOLEAN /\ night \in BOOLEAN /\ full \in BOOLEAN
  /\ wifi_status \in Statuses /\ missed \in BOOLEAN

Visits ==
  /\ person => g_num < MaxVisits \/ (lid /\ can # "close")
  /\ can = "night" => lid \/ g_num < MaxVisits
  /\ can = "open" => g_num < MaxVisits /\ ~lid
  /\ can = "count" => lid /\ g_num > 0
  /\ can = "reportFull" => full_flag = 0
  /\ can = "reportEmpty" => full_flag = 0

\* The lamp burns only over an open lid or one that is about to open.
Lamp == lamp => lid \/ can = "open"

Opened == IF can = "count" THEN g_num - 1 ELSE g_num

Counted ==
  /\ \A i, j \in Counts : i < j => queued[i][2] < queued[j][2]
  /\ \A i \in Counts : queued[i][2] \in 1..Opened
  /\ ~missed => Cardinality(Counts) = Opened

LevelsTold ==
  ~missed =>
    /\ \A i \in FullReports : queued[i][2] = Cardinality(FullReports \cap 1..i) % 2
    /\ Cardinality(FullReports) % 2 = IF can = "reportEmpty" THEN 1 ELSE full_flag

CanShape == CanOK /\ Visits /\ Lamp /\ QueueOK
CanInv == CanShape /\ Counted /\ LevelsTold

\* What a step of the can does to the queue.
LEMMA ReportStep ==
  ASSUME NEW key, NEW value, Report(key, value)
  PROVE  \/ Adds(key, value) /\ missed' = missed
         \/ queued' = queued /\ missed' = TRUE
BY DEF Report, Adds

LEMMA SentKept ==
  ASSUME QueueOK, NEW key,
         queued' = queued \/ \E k \in Keys, v \in Nat : k # key /\ Adds(k, v)
  PROVE  /\ Sent(key)' = Sent(key)
         /\ \A i \in Sent(key) : queued'[i] = queued[i]
<1>1. CASE queued' = queued
  BY <1>1 DEF Sent
<1>2. ASSUME NEW k \in Keys, NEW v \in Nat, k # key, Adds(k, v)
      PROVE  Sent(key)' = Sent(key) /\ \A i \in Sent(key) : queued'[i] = queued[i]
  BY <1>2, SentAdds, SentFinite
<1> QED BY <1>1, <1>2

LEMMA CanShapeStep ==
  ASSUME CanShape, VisitsAssumption, CanTask \/ Surroundings
  PROVE  CanShape'
<1> USE DEF CanShape, CanOK, Visits, Lamp, VisitsAssumption
<1>1. CASE IsSomeoneThere \/ IsNightTime
  BY <1>1 DEF IsSomeoneThere, IsNightTime, Silent, Sensors, CanPoints, QueueOK
<1>2. CASE TrashCanOpen
  BY <1>2 DEF TrashCanOpen, Silent, Sensors, CanPoints, QueueOK
<1>3. CASE IsNobodyThere
  BY <1>3 DEF IsNobodyThere, Silent, Sensors, CanPoints, QueueOK
<1>7. CASE TrashCanClose
  BY <1>7 DEF TrashCanClose, Silent, Sensors, CanPoints, QueueOK
<1>4. CASE IsTrashCanFull
  BY <1>4 DEF IsTrashCanFull, Silent, Sensors, CanPoints, QueueOK
<1>8. CASE IsTrashCanEmpty
  BY <1>8 DEF IsTrashCanEmpty, Silent, Sensors, CanPoints, QueueOK
<1>9. CASE SleepCan
  BY <1>9 DEF SleepCan, Silent, Sensors, CanPoints, QueueOK
<1>5. CASE PersonMoves
  BY <1>5 DEF PersonMoves, Silent, QueueOK
<1>10. CASE NightFalls
  BY <1>10 DEF NightFalls, Silent, QueueOK
<1>11. CASE LevelChanges
  <2>1. UNCHANGED <<can, lid, lamp, g_num, full_flag, person, night, queued, missed, wifi_status>>
    BY <1>11 DEF LevelChanges, Silent
  <2>2. full' \in BOOLEAN
    BY <1>11 DEF LevelChanges
  <2> QED BY <2>1, <2>2 DEF QueueOK
<1>6. CASE PublishPersonTime \/ ReportFull \/ ReportEmpty
  <2>1. /\ missed' \in BOOLEAN
        /\ queued' = queued \/ \E k \in Keys, v \in Nat : Adds(k, v)
    <3>1. "Person_times" \in Keys /\ "full" \in Keys /\ g_num \in Nat
      BY DEF Keys
    <3> QED BY <1>6, <3>1, ReportStep DEF PublishPersonTime, ReportFull, ReportEmpty
  <2>2. QueueOK'
    BY <2>1, SentAdds DEF QueueOK
  <2> QED BY <1>6, <2>1, <2>2 DEF PublishPersonTime, ReportFull, ReportEmpty, Sensors, CanPoints
<1> QED BY <1>1, <1>2, <1>3, <1>4, <1>5, <1>6, <1>7, <1>8, <1>9, <1>10, <1>11
    DEF CanTask, Surroundings

LEMMA CountedKept ==
  ASSUME QueueOK, Counted, Opened' = Opened, missed' \/ ~missed,
         Counts' = Counts, \A i \in Counts : queued'[i] = queued[i]
  PROVE  Counted'
BY DEF Counted

LEMMA CountedStep ==
  ASSUME CanShape, Counted, CanTask \/ Surroundings
  PROVE  Counted'
<1> USE DEF CanShape, CanOK
<1>1. CASE PublishPersonTime
  <2>1. Opened = g_num - 1 /\ Opened' = g_num /\ g_num \in Nat
    BY <1>1 DEF PublishPersonTime, Opened
  <2>2. CASE Adds("Person_times", g_num) /\ missed' = missed
    <3>1. /\ Counts' = Counts \cup {Len(queued) + 1}
          /\ Cardinality(Counts') = Cardinality(Counts) + 1
          /\ queued'[Len(queued) + 1] = <<"Person_times", g_num>>
          /\ \A i \in 1..Len(queued) : queued'[i] = queued[i]
      BY <2>1, <2>2, SentAdds DEF Counts, Keys
    <3>2. /\ Len(queued) \in Nat /\ Counts \subseteq 1..Len(queued)
          /\ Cardinality(Counts) \in Nat
          /\ \A i \in Counts : queued[i][2] \in Nat
      BY SentFinite DEF Counts
    <3>3. queued'[Len(queued) + 1][2] = g_num /\ \A i \in Counts : queued'[i][2] = queued[i][2]
      BY <3>1, <3>2
    <3>4. \A i \in Counts : queued[i][2] \in 1..(g_num - 1)
      BY <2>1 DEF Counted
    <3>5. 1 \in 1..g_num
      BY <1>1, <2>1 DEF Visits, PublishPersonTime
    <3>6. \A i \in Counts' : queued'[i][2] \in 1..Opened'
      BY <2>1, <3>1, <3>3, <3>4, <3>5
    <3>7. \A i, j \in Counts' : i < j => queued'[i][2] < queued'[j][2]
      BY <2>1, <3>1, <3>2, <3>3, <3>4 DEF Counted
    <3>8. ~missed' => Cardinality(Counts') = Opened'
      BY <2>1, <2>2, <3>1, <3>2 DEF Counted
    <3> QED BY <3>6, <3>7, <3>8 DEF Counted
  <2>3. CASE queued' = queued /\ missed' = TRUE
    <3>1. Counts' = Counts
      BY <2>3 DEF Counts, Sent
    <3> QED BY <2>1, <2>3, <3>1 DEF Counted
  <2> QED BY <1>1, <2>2, <2>3, ReportStep DEF PublishPersonTime
<1>2. CASE ~PublishPersonTime
  <2>1. Opened' = Opened
    BY <1>2 DEF Opened, CanTask, IsSomeoneThere, IsNightTime, TrashCanOpen, IsNobodyThere,
      TrashCanClose, IsTrashCanFull, ReportFull, IsTrashCanEmpty, ReportEmpty, SleepCan,
      Surroundings, PersonMoves, NightFalls, LevelChanges
  <2>2. /\ queued' = queued \/ \E v \in Nat : Adds("full", v)
        /\ missed' \/ ~missed
    BY <1>2, ReportStep DEF CanTask, IsSomeoneThere, IsNightTime, TrashCanOpen, IsNobodyThere,
      TrashCanClose, IsTrashCanFull, ReportFull, IsTrashCanEmpty, ReportEmpty, SleepCan,
      Surroundings, PersonMoves, NightFalls, LevelChanges, Silent
  <2>3. Counts' = Counts /\ \A i \in Counts : queued'[i] = queued[i]
    BY <2>2, SentKept DEF Counts, Keys
  <2> QED BY <2>1, <2>2, <2>3, CountedKept
<1> QED BY <1>1, <1>2

LEMMA ParityNext ==
  ASSUME NEW n \in Nat
  PROVE  n % 2 \in {0, 1} /\ (n + 1) % 2 = 1 - (n % 2)
OBVIOUS

LEMMA LevelsKept ==
  ASSUME LevelsTold, missed' \/ ~missed,
         FullReports' = FullReports, \A i \in FullReports : queued'[i] = queued[i],
         (can' = "reportEmpty") = (can = "reportEmpty"),
         can = "reportEmpty" \/ full_flag' = full_flag
  PROVE  LevelsTold'
BY DEF LevelsTold

\* A report of the fill level that alternates with those before it.
LEMMA LevelsAlternate ==
  ASSUME QueueOK, LevelsTold, NEW v \in {0, 1}, Adds("full", v), missed' = missed,
         ~missed => v = 1 - (Cardinality(FullReports) % 2),
         can' # "reportEmpty", full_flag' = v
  PROVE  LevelsTold'
<1> SUFFICES ASSUME ~missed'
             PROVE  /\ \A i \in FullReports' :
                         queued'[i][2] = Cardinality(FullReports' \cap 1..i) % 2
                    /\ Cardinality(FullReports') % 2 = full_flag'
  BY DEF LevelsTold
<1> DEFINE n == Len(queued)
<1>1. /\ FullReports' = FullReports \cup {n + 1}
      /\ Cardinality(FullReports') = Cardinality(FullReports) + 1
      /\ queued'[n + 1] = <<"full", v>>
      /\ \A i \in 1..n : queued'[i] = queued[i]
  BY SentAdds DEF FullReports, Keys
<1>2. n \in Nat /\ FullReports \subseteq 1..n /\ Cardinality(FullReports) \in Nat
  BY SentFinite DEF FullReports
<1>3. Cardinality(FullReports') % 2 = v
  BY <1>1, <1>2, ParityNext
<1>4. ASSUME NEW i \in FullReports
      PROVE  queued'[i][2] = Cardinality(FullReports' \cap 1..i) % 2
  <2>1. FullReports' \cap 1..i = FullReports \cap 1..i
    BY <1>1, <1>2, <1>4
  <2> QED BY <1>1, <1>2, <1>4, <2>1 DEF LevelsTold
<1>5. queued'[n + 1][2] = Cardinality(FullReports' \cap 1..(n + 1)) % 2
  <2>1. FullReports' \subseteq 1..(n + 1)
    <3>1. 1..n \subseteq 1..(n + 1) /\ n + 1 \in 1..(n + 1)
      BY <1>2
    <3>2. FullReports' = FullReports \cup {n + 1} /\ FullReports \subseteq 1..n
      BY <1>1, <1>2
    <3> QED BY <3>1, <3>2, Zenon
  <2>2. FullReports' \cap 1..(n + 1) = FullReports'
    BY <2>1, Zenon
  <2>3. queued'[n + 1][2] = v
    BY <1>1
  <2> QED BY <1>3, <2>2, <2>3
<1> QED BY <1>1, <1>3, <1>4, <1>5

LEMMA LevelsStep ==
  ASSUME CanShape, LevelsTold, CanTask \/ Surroundings
  PROVE  LevelsTold'
<1> USE DEF CanShape, CanOK
<1>1. CASE ReportFull \/ ReportEmpty
  <2>1. PICK v \in {0, 1} :
          /\ Report("full", v)
          /\ full_flag' = v /\ can' = "sleep"
          /\ ~missed => v = 1 - (Cardinality(FullReports) % 2)
    BY <1>1 DEF ReportFull, ReportEmpty, Visits, LevelsTold
  <2>2. CASE Adds("full", v) /\ missed' = missed
    BY <2>1, <2>2, LevelsAlternate
  <2>3. CASE missed' = TRUE
    BY <2>3 DEF LevelsTold
  <2> QED BY <2>1, <2>2, <2>3, ReportStep
<1>2. CASE IsTrashCanEmpty
  <2>1. FullReports' = FullReports /\ queued' = queued /\ missed' = missed
    BY <1>2 DEF IsTrashCanEmpty, Silent, FullReports, Sent
  <2> QED BY <1>2, <2>1 DEF IsTrashCanEmpty, LevelsTold
<1>3. CASE ~(ReportFull \/ ReportEmpty \/ IsTrashCanEmpty)
  <2>1. /\ (can' = "reportEmpty") = (can = "reportEmpty")
        /\ full_flag' = full_flag
    BY <1>3 DEF CanTask, IsSomeoneThere, IsNightTime, TrashCanOpen, PublishPersonTime,
      IsNobodyThere, TrashCanClose, IsTrashCanFull, SleepCan,
      Surroundings, PersonMoves, NightFalls, LevelChanges
  <2>2. /\ queued' = queued \/ Adds("Person_times", g_num)
        /\ missed' \/ ~missed
    BY <1>3, ReportStep DEF CanTask, IsSomeoneThere, IsNightTime, TrashCanOpen,
      PublishPersonTime, IsNobodyThere, TrashCanClose, IsTrashCanFull, SleepCan,
      Surroundings, PersonMoves, NightFalls, LevelChanges, Silent
  <2>4. g_num \in Nat
    OBVIOUS
  <2>3. FullReports' = FullReports /\ \A i \in FullReports : queued'[i] = queued[i]
    BY <2>2, <2>4, SentKept DEF FullReports, Keys
  <2> QED BY <2>1, <2>2, <2>3, LevelsKept
<1> QED BY <1>1, <1>2, <1>3

\* What the can does to what it shares.
LEMMA CanShares ==
  ASSUME CanShape, CanTask \/ Surroundings
  PROVE  /\ queued' = queued \/ \E k \in {"Person_times", "full"}, v \in Nat : Adds(k, v)
         /\ missed' \in BOOLEAN /\ (missed' \/ ~missed)
         /\ wifi_status' = wifi_status
<1> USE DEF CanShape, CanOK
<1>1. CASE PublishPersonTime \/ ReportFull \/ ReportEmpty
  <2>1. g_num \in Nat
    OBVIOUS
  <2>2. queued' = queued \/ \E k \in {"Person_times", "full"}, v \in Nat : Adds(k, v)
    BY <1>1, <2>1, ReportStep DEF PublishPersonTime, ReportFull, ReportEmpty
  <2> QED BY <1>1, <2>2, ReportStep DEF PublishPersonTime, ReportFull, ReportEmpty
<1>2. CASE ~(PublishPersonTime \/ ReportFull \/ ReportEmpty)
  BY <1>2 DEF CanTask, IsSomeoneThere, IsNightTime, TrashCanOpen, IsNobodyThere,
    TrashCanClose, IsTrashCanFull, IsTrashCanEmpty, SleepCan, Surroundings, PersonMoves,
    NightFalls, LevelChanges, Silent
<1> QED BY <1>1, <1>2

\* Another task puts its report between those of the can.
LEMMA ForeignStep ==
  ASSUME CanInv, UNCHANGED canVars, wifi_status' \in Statuses,
         missed' \in BOOLEAN, missed' \/ ~missed,
         queued' = queued \/ \E v \in Nat : Adds("dumped", v)
  PROVE  CanInv'
<1> USE DEF CanInv
<1>1. "dumped" \in Keys /\ "dumped" # "full" /\ "dumped" # "Person_times"
  BY DEF Keys
<1>2. QueueOK'
  BY <1>1, SentAdds DEF CanShape, QueueOK
<1>3. CanShape'
  BY <1>2 DEF CanShape, CanOK, Visits, Lamp, canVars
<1>4. Counted'
  <2>1. Counts' = Counts /\ \A i \in Counts : queued'[i] = queued[i]
    BY <1>1, SentKept DEF CanShape, Counts
  <2>2. Opened' = Opened
    BY DEF Opened, canVars
  <2> QED BY <2>1, <2>2, CountedKept DEF CanShape
<1>5. LevelsTold'
  <2>1. FullReports' = FullReports /\ \A i \in FullReports : queued'[i] = queued[i]
    BY <1>1, SentKept DEF CanShape, FullReports
  <2> QED BY <2>1, LevelsKept DEF canVars
<1> QED BY <1>3, <1>4, <1>5

LEMMA CanInvInit ==
  ASSUME VisitsAssumption, Init
  PROVE  CanInv
<1>1. queued = <<>> /\ queued \in Seq(Keys \X Nat)
  BY DEF Init
<1>2. Counts = {} /\ FullReports = {}
  BY <1>1 DEF Counts, FullReports, Sent
<1>3. CanShape
  <2>3. g_num \in 0..MaxVisits /\ full_flag \in {0, 1}
    BY DEF Init, VisitsAssumption
  <2>1. CanOK
    BY <2>3 DEF Init, CanOK, CanPoints, Statuses
  <2>2. Visits /\ Lamp
    BY DEF Init, Visits, Lamp, VisitsAssumption
  <2> QED BY <1>1, <2>1, <2>2 DEF CanShape, QueueOK
<1>4. Opened = 0 /\ full_flag = 0 /\ can # "reportEmpty"
  BY DEF Init, Opened
<1>5. Cardinality({}) = 0
  BY FS_EmptySet
<1>6. Counted
  BY <1>2, <1>4, <1>5 DEF Counted
<1>7. LevelsTold
  BY <1>2, <1>4, <1>5 DEF LevelsTold
<1> QED BY <1>3, <1>6, <1>7 DEF CanInv

LEMMA CanInvStep ==
  ASSUME CanInv, VisitsAssumption, CanTask \/ Surroundings
  PROVE  CanInv'
BY CanShapeStep, CountedStep, LevelsStep DEF CanInv

LEMMA CanInvNext ==
  ASSUME CanInv, VisitsAssumption, [Next]_trashVars
  PROVE  CanInv'
<1>1. CASE StatusChanges \/ UNCHANGED trashVars
  <2>1. /\ UNCHANGED canVars /\ queued' = queued /\ missed' = missed
        /\ wifi_status' \in Statuses
    BY <1>1 DEF StatusChanges, trashVars, Statuses, CanInv, CanShape, CanOK
  <2> QED BY <2>1, ForeignStep DEF CanInv, CanShape, CanOK
<1> QED BY <1>1, CanInvStep DEF Next

\* What the invariant says of the cloud's picture.
LEMMA CanInvImplies ==
  ASSUME CanInv
  PROVE  LampNeedsOpenLid /\ CountsFollowOpenings /\ CloudKnowsLevel
<1>1. LampNeedsOpenLid
  BY DEF CanInv, CanShape, Lamp, LampNeedsOpenLid
<1>2. CountsFollowOpenings
  <2>1. Opened \in Int /\ Opened <= g_num /\ g_num \in Nat /\ (can # "count" => Opened = g_num)
    BY DEF CanInv, CanShape, CanOK, Opened
  <2>2. \A i \in Counts : queued[i][2] \in 1..g_num
    BY <2>1 DEF CanInv, Counted
  <2> QED BY <2>1, <2>2 DEF CanInv, Counted, CountsFollowOpenings
<1>3. CloudKnowsLevel
  BY DEF CanInv, LevelsTold, CloudKnowsLevel
<1> QED BY <1>1, <1>2, <1>3

\* Alone, the can has the queue to itself.
LEMMA OwnQueue ==
  ASSUME TypeOK, [Next]_trashVars
  PROVE  (queued \in Seq({"Person_times", "full"} \X Nat))'
<1> DEFINE R == {"Person_times", "full"} \X Nat
<1>1. queued \in Seq(R) /\ g_num \in Nat
  BY DEF TypeOK
<1>2. queued' = queued \/ \E r \in R : queued' = Append(queued, r)
  <2>1. CASE PublishPersonTime \/ ReportFull \/ ReportEmpty
    BY <1>1, <2>1 DEF PublishPersonTime, ReportFull, ReportEmpty, Report
  <2>2. CASE ~(PublishPersonTime \/ ReportFull \/ ReportEmpty)
    BY <2>2 DEF Next, CanTask, IsSomeoneThere, IsNightTime, TrashCanOpen, IsNobodyThere,
      TrashCanClose, IsTrashCanFull, IsTrashCanEmpty, SleepCan, Surroundings, PersonMoves,
      NightFalls, LevelChanges, StatusChanges, Silent, trashVars
  <2> QED BY <2>1, <2>2
<1> HIDE DEF R
<1>3. queued' \in Seq(R)
  BY <1>1, <1>2, AppendProperties
<1> QED BY <1>3 DEF R

LEMMA CanTyped ==
  ASSUME CanInv, queued \in Seq({"Person_times", "full"} \X Nat)
  PROVE  TypeOK
BY DEF CanInv, CanShape, CanOK, TypeOK

\* The types; in particular a visit is counted once, however many passes it
\* lasts.
THEOREM TypeCorrect == Spec => []TypeOK
<1> DEFINE CanQueue == queued \in Seq({"Person_times", "full"} \X Nat)
<1>1. Init => CanInv /\ CanQueue
  <2>1. Init => queued = <<>>
    BY DEF Init
  <2>2. <<>> \in Seq({"Person_times", "full"} \X Nat)
    OBVIOUS
  <2> QED BY <2>1, <2>2, CanInvInit, VisitsAssumption
<1>2. CanInv /\ CanQueue /\ [Next]_trashVars => (CanInv /\ CanQueue)'
  BY CanInvNext, CanTyped, OwnQueue, VisitsAssumption
<1>3. CanInv /\ CanQueue => TypeOK
  BY CanTyped
<1> QED BY <1>1, <1>2, <1>3, PTL DEF Spec

\* The lamp never burns over a lid that stays closed, although the person
\* sensor is read twice in a pass (app_demo_smart_trash_can.c 154, 167).
THEOREM LampsNeedOpenLids == Spec => []LampNeedsOpenLid
BY CanInvInit, CanInvNext, CanInvImplies, VisitsAssumption, PTL DEF Spec

\* The counts the cloud receives increase and are those of the openings.
THEOREM CountsFollow == Spec => []CountsFollowOpenings
BY CanInvInit, CanInvNext, CanInvImplies, VisitsAssumption, PTL DEF Spec

\* Without a missed report the cloud knows the fill level the task knows.
THEOREM LevelsKnown == Spec => []CloudKnowsLevel
BY CanInvInit, CanInvNext, CanInvImplies, VisitsAssumption, PTL DEF Spec
=============================================================================
