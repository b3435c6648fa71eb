---------------------------- MODULE Audit_proofs -----------------------------
(***************************************************************************)
(* Proofs about the audit log, for any number of connections, appends and  *)
(* deaths.  The invariant says what the holder of the advisory lock knows: *)
(* between its reading and its commit nobody else moves the tail, so what  *)
(* it has read is still the tail, and the number it has drawn is above     *)
(* every committed one.                                                    *)
(***************************************************************************)
EXTENDS AuditReceipts, FiniteSetTheorems, TLAPS

\* t is what the next row has to link to.
IsTail(t) ==
    \/ rows = {} /\ t = Genesis
    \/ \E q \in rows : IsLast(q, rows) /\ t = q.hash

\* n may be appended to the committed rows.
Fits(n) == /\ IsTail(n.prev)
           /\ n.hash = Hash(n.prev, n.record)
           /\ \A q \in rows : q.seq < n.seq

Holding == {"read", "insert", "commit"}

HolderIsAlone == \A w \in Writers : pc[w] \in Holding => lock = w
OnlyInFlight == \A w \in Writers : pc[w] # "commit" => staged[w] = {}
TailIsFresh == \A w \in Writers : pc[w] = "insert" => IsTail(tail[w])
StagedFits ==
    \A w \in Writers : pc[w] = "commit" =>
        \E n : /\ staged[w] = {n} /\ Fits(n) /\ n.seq < nextSeq
               /\ n.hash = Hash(tail[w], record[w])
SeqIsAhead == \A r \in rows : r.seq < nextSeq
HasTail == rows = {} \/ \E q \in rows : IsLast(q, rows)
Returnable ==
    \A w \in Writers : pc[w] = "return" =>
        \E r \in rows : r.hash = Hash(tail[w], record[w])
Called == \A w \in Writers : pc[w] # "idle" => record[w] \in Records

Inv ==
    /\ LogTypeOK /\ HolderIsAlone /\ OnlyInFlight /\ TailIsFresh /\ StagedFits
    /\ SeqIsAhead /\ HasTail /\ Returnable /\ Called
    /\ ChainVerifies /\ ReturnedHashStands

\* verify_chain() accepts a table that it accepts and a row that fits it.
LEMMA AppendedVerifies ==
    ASSUME NEW n, Fits(n), ChainVerifies, n.seq \in Nat,
           \A r \in rows : r.seq \in Nat
    PROVE  Verifies(rows \cup {n})
<1> DEFINE R == rows \cup {n}
<1>1. ASSUME NEW r \in rows PROVE Links(r, R)
  <2>1. Before(r, R) = Before(r, rows)
    BY <1>1 DEF Before, Fits
  <2>2. Links(r, rows)
    BY <1>1 DEF ChainVerifies, Verifies
  <2> QED
    BY <2>1, <2>2 DEF Links
<1>2. Links(n, R)
  <2>1. Before(n, R) = rows
    BY DEF Before, Fits
  <2> QED
    BY <2>1 DEF Links, Fits, IsTail
<1> QED
  BY <1>1, <1>2 DEF Verifies

LEMMA InitInv == LogInit => Inv
<1> SUFFICES ASSUME LogInit PROVE Inv
  OBVIOUS
<1>1. LogTypeOK
  BY AuditAssumption DEF LogInit, LogTypeOK, Statement
<1>2. /\ HolderIsAlone /\ OnlyInFlight /\ TailIsFresh /\ StagedFits
      /\ SeqIsAhead /\ HasTail /\ Returnable /\ Called
      /\ ChainVerifies /\ ReturnedHashStands
  BY DEF LogInit, HolderIsAlone, OnlyInFlight, TailIsFresh, StagedFits,
       SeqIsAhead, HasTail, Returnable, Called, ChainVerifies, ReturnedHashStands,
         Holding, Verifies
<1> QED
  BY <1>1, <1>2 DEF Inv

\* Every statement but the commit leaves the committed rows alone; what is left
\* to show of it is about the writer it belongs to.
LEMMA CallInv ==
    ASSUME Inv, NEW w \in Writers, NEW rec \in Records, Call(w, rec)
    PROVE  Inv'
BY AuditAssumption
   DEF Inv, Call, Goto, LogTypeOK, HolderIsAlone, OnlyInFlight, TailIsFresh, StagedFits,
       SeqIsAhead, HasTail, Returnable, Called, ChainVerifies, ReturnedHashStands,
       Statement, Holding, Verifies, IsTail, Fits, Links, IsLast, Before

LEMMA LockInv ==
    ASSUME Inv, NEW w \in Writers, Lock(w)
    PROVE  Inv'
BY AuditAssumption
   DEF Inv, Lock, Goto, LogTypeOK, HolderIsAlone, OnlyInFlight, TailIsFresh, StagedFits,
       SeqIsAhead, HasTail, Returnable, Called, ChainVerifies, ReturnedHashStands,
       Statement, Holding, Verifies, IsTail, Fits, Links, IsLast, Before

LEMMA ReturnInv ==
    ASSUME Inv, NEW w \in Writers, Return(w)
    PROVE  Inv'
BY AuditAssumption
   DEF Inv, Return, Goto, LogTypeOK, HolderIsAlone, OnlyInFlight, TailIsFresh, StagedFits,
       SeqIsAhead, HasTail, Returnable, Called, ChainVerifies, ReturnedHashStands,
       Statement, Holding, Verifies, IsTail, Fits, Links, IsLast, Before

LEMMA DieInv ==
    ASSUME Inv, NEW w \in Writers, Die(w)
    PROVE  Inv'
BY AuditAssumption
   DEF Inv, Die, Goto, LogTypeOK, HolderIsAlone, OnlyInFlight, TailIsFresh, StagedFits,
       SeqIsAhead, HasTail, Returnable, Called, ChainVerifies, ReturnedHashStands,
       Statement, Holding, Verifies, IsTail, Fits, Links, IsLast, Before

LEMMA ReadTailInv ==
    ASSUME Inv, NEW w \in Writers, ReadTail(w)
    PROVE  Inv'
<1>1. IsTail(TailHash)
  BY DEF Inv, HasTail, TailHash, IsTail
<1>3. /\ pc'[w] = "insert" /\ tail'[w] = TailHash
      /\ \A v \in Writers \ {w} : pc'[v] = pc[v] /\ tail'[v] = tail[v]
  BY DEF Inv, LogTypeOK, ReadTail, Goto
<1>4. \A v \in Writers \ {w} : pc[v] \notin Holding
  BY DEF Inv, LogTypeOK, HolderIsAlone, Holding, ReadTail
<1>5. LogTypeOK'
  BY DEF Inv, LogTypeOK, ReadTail, Goto, Statement
<1>6. TailIsFresh'
  BY <1>1, <1>3, <1>4 DEF TailIsFresh, ReadTail, IsTail, Holding
<1>7. HolderIsAlone' /\ OnlyInFlight' /\ StagedFits' /\ Returnable' /\ Called'
  BY <1>3, <1>4 DEF Inv, ReadTail, HolderIsAlone, OnlyInFlight, StagedFits, Returnable,
     Called, Fits, IsTail, Holding
<1>8. SeqIsAhead' /\ HasTail' /\ ChainVerifies' /\ ReturnedHashStands'
  BY DEF Inv, ReadTail, SeqIsAhead, HasTail, ChainVerifies, ReturnedHashStands
<1> QED
  BY <1>5, <1>6, <1>7, <1>8 DEF Inv

LEMMA InsertInv ==
    ASSUME Inv, NEW w \in Writers, Insert(w)
    PROVE  Inv'
<1>1. Row(w).seq = nextSeq /\ Row(w).record = record[w] /\ Row(w).prev = tail[w]
      /\ Row(w).hash = Hash(tail[w], record[w])
  BY DEF Row
<1>2. Fits(Row(w))
  BY <1>1 DEF Inv, Fits, TailIsFresh, SeqIsAhead, Insert
<1>3. staged'[w] = {Row(w)} /\ \A v \in Writers \ {w} : staged'[v] = staged[v]
  BY DEF Inv, LogTypeOK, Insert
<1>4. \A v \in Writers \ {w} : pc[v] \notin Holding /\ pc'[v] = pc[v]
  BY DEF Inv, LogTypeOK, HolderIsAlone, Holding, Insert, Goto
<1>5. pc'[w] = "commit"
  BY DEF Inv, LogTypeOK, Insert, Goto
<1>6. Row(w).record \in Records /\ Row(w).seq \in Nat
  BY <1>1 DEF Inv, LogTypeOK, Called, Insert
<1>7. LogTypeOK'
  BY <1>3, <1>6 DEF Inv, LogTypeOK, Insert, Goto, Statement
<1>8. StagedFits'
  <2>1. PICK n : n = Row(w)
    OBVIOUS
  <2>2. Fits(n)'
    BY <1>2, <2>1 DEF Insert, Fits, IsTail
  <2>3. staged'[w] = {n} /\ n.seq < nextSeq' /\ n.hash = Hash(tail'[w], record'[w])
    BY <1>1, <1>3, <2>1 DEF Inv, LogTypeOK, Insert
  <2>4. \A v \in Writers \ {w} : pc'[v] # "commit"
    BY <1>4 DEF Holding
  <2> QED
    BY <2>2, <2>3, <2>4 DEF StagedFits
<1>9. /\ HolderIsAlone' /\ OnlyInFlight' /\ TailIsFresh' /\ Returnable' /\ Called'
  BY <1>3, <1>4, <1>5 DEF Inv, Insert, HolderIsAlone, OnlyInFlight, TailIsFresh, Returnable,
     Called, Holding
<1>10. SeqIsAhead' /\ HasTail' /\ ChainVerifies' /\ ReturnedHashStands'
  BY DEF Inv, LogTypeOK, Insert, SeqIsAhead, HasTail, ChainVerifies, ReturnedHashStands
<1> QED
  BY <1>7, <1>8, <1>9, <1>10 DEF Inv

\* The commit: the row still fits, so the chain, the order and the tail stand.
LEMMA CommitInv ==
    ASSUME Inv, NEW w \in Writers, Commit(w)
    PROVE  /\ Inv'
           /\ rows \subseteq rows'
           /\ \A r \in rows' \ rows, q \in rows : q.seq < r.seq
<1>1. PICK n : /\ staged[w] = {n} /\ Fits(n) /\ n.seq < nextSeq
               /\ n.hash = Hash(tail[w], record[w])
  BY DEF Inv, StagedFits, Commit
<1>2. rows' = rows \cup {n}
  BY <1>1 DEF Commit
<1>3. n.seq \in Nat /\ n.record \in Records
  BY <1>1 DEF Inv, LogTypeOK
<1>4. \A r \in rows : r.seq \in Nat
  BY DEF Inv, LogTypeOK
<1>5. ChainVerifies'
  BY <1>1, <1>2, <1>3, <1>4, AppendedVerifies DEF Inv, ChainVerifies, Verifies, Links, IsLast, Before
<1>6. /\ pc'[w] = "return" /\ staged'[w] = {}
      /\ \A v \in Writers \ {w} : pc'[v] = pc[v] /\ staged'[v] = staged[v]
  BY DEF Inv, LogTypeOK, Commit, Goto
<1>7. \A v \in Writers \ {w} : pc[v] \notin Holding
  BY DEF Inv, LogTypeOK, HolderIsAlone, Holding, Commit
<1>8. LogTypeOK'
  <2>1. \A r \in rows' : r.seq \in Nat /\ r.record \in Records
    BY <1>2, <1>3 DEF Inv, LogTypeOK
  <2>2. \A v \in Writers : \A r \in staged'[v] : r.seq \in Nat /\ r.record \in Records
    BY <1>6 DEF Inv, LogTypeOK
  <2> QED
    BY <2>1, <2>2 DEF Inv, LogTypeOK, Commit, Goto, Statement
<1>9. HasTail'
  <2>1. \A p \in rows' : p.seq <= n.seq
    BY <1>1, <1>2, <1>3, <1>4 DEF Fits
  <2> QED
    BY <1>2, <2>1 DEF HasTail, IsLast
<1>10. SeqIsAhead'
  BY <1>1, <1>2 DEF Inv, SeqIsAhead, Commit
<1>11. Returnable' /\ ReturnedHashStands'
  BY <1>1, <1>2, <1>6 DEF Inv, Returnable, ReturnedHashStands, Commit
<1>12. HolderIsAlone' /\ OnlyInFlight' /\ TailIsFresh' /\ StagedFits' /\ Called'
  BY <1>6, <1>7 DEF Inv, HolderIsAlone, OnlyInFlight, TailIsFresh, StagedFits, Called, Commit,
     Holding
<1>13. rows \subseteq rows' /\ \A r \in rows' \ rows, q \in rows : q.seq < r.seq
  BY <1>1, <1>2 DEF Fits
<1> QED
  BY <1>5, <1>8, <1>9, <1>10, <1>11, <1>12, <1>13 DEF Inv

LEMMA StutterInv == Inv /\ UNCHANGED logVars => Inv'
BY DEF Inv, logVars, LogTypeOK, HolderIsAlone, OnlyInFlight, TailIsFresh, StagedFits,
       SeqIsAhead, HasTail, Returnable, Called, ChainVerifies, ReturnedHashStands,
       Statement, Holding, Verifies, IsTail, Fits, Links, IsLast, Before

LEMMA NextInv == Inv /\ [LogNext]_logVars => Inv'
<1> SUFFICES ASSUME Inv, [LogNext]_logVars PROVE Inv'
  OBVIOUS
<1>1. ASSUME NEW w \in Writers, NEW rec \in Records, Call(w, rec) PROVE Inv'
  BY <1>1, CallInv
<1>2. ASSUME NEW w \in Writers, Lock(w) PROVE Inv'
  BY <1>2, LockInv
<1>3. ASSUME NEW w \in Writers, ReadTail(w) PROVE Inv'
  BY <1>3, ReadTailInv
<1>4. ASSUME NEW w \in Writers, Insert(w) PROVE Inv'
  BY <1>4, InsertInv
<1>5. ASSUME NEW w \in Writers, Commit(w) PROVE Inv'
  BY <1>5, CommitInv
<1>6. ASSUME NEW w \in Writers, Return(w) PROVE Inv'
  BY <1>6, ReturnInv
<1>7. ASSUME NEW w \in Writers, Die(w) PROVE Inv'
  BY <1>7, DieInv
<1>8. CASE UNCHANGED logVars
  BY <1>8, StutterInv
<1> QED
  BY <1>1, <1>2, <1>3, <1>4, <1>5, <1>6, <1>7, <1>8 DEF LogNext, Step

LEMMA Invariance == LogSpec => []Inv
<1> QED
  BY InitInv, NextInv, PTL DEF LogSpec

\* Type correctness of the log.
THEOREM LogTypeCorrect == LogSpec => []LogTypeOK
<1>1. Inv => LogTypeOK
  BY DEF Inv
<1> QED
  BY <1>1, Invariance, PTL

\* For any number of connections that append and die at any statement,
\* verify_chain() answers True.
THEOREM ChainAlwaysVerifies == LogSpec => []ChainVerifies
<1>1. Inv => ChainVerifies
  BY DEF Inv
<1> QED
  BY <1>1, Invariance, PTL

\* A returned hash is the hash of a committed row.
THEOREM ReturnedHashesStand == LogSpec => []ReturnedHashStands
<1>1. Inv => ReturnedHashStands
  BY DEF Inv
<1> QED
  BY <1>1, Invariance, PTL

\* The table only grows, and only at its end.
THEOREM LogGrowsAtItsEnd == LogSpec => GrowsAtItsEnd
<1> DEFINE Growing == /\ rows \subseteq rows'
                      /\ \A r \in rows' \ rows, q \in rows : q.seq < r.seq
<1>1. Inv /\ [LogNext]_logVars => [Growing]_rows
  <2> SUFFICES ASSUME Inv, [LogNext]_logVars, rows' # rows PROVE Growing
    OBVIOUS
  <2>1. PICK w \in Writers : Commit(w)
    BY DEF LogNext, Step, logVars, Call, Lock, ReadTail, Insert, Return, Die
  <2> QED
    BY <2>1, CommitInv
<1> QED
  BY <1>1, Invariance, PTL DEF LogSpec, GrowsAtItsEnd
------------------------------------------------------------------------------
(* The consumer and the gateway use the log as module AuditLog says: every  *)
(* step of the composed system is a step of the log or leaves it alone, so  *)
(* what is proved of the log holds of it here.                              *)


\* The topic holds decision ids, or messages without one; positions in it are
\* numbers.
TopicOK ==
    topic \in Seq(Ids \cup {NoId}) /\ offset \in Nat /\ position \in Nat

LEMMA TopicStays == TopicOK /\ [Next]_vars => TopicOK'
<1> SUFFICES ASSUME TopicOK, [Next]_vars PROVE TopicOK'
  OBVIOUS
<1>1. CASE \E id \in Ids \cup {NoId} : Publish(id)
  BY <1>1 DEF Publish, TopicOK, sessionVars
<1>2. CASE Open \/ Poll \/ AutoCommit
  BY <1>2 DEF TopicOK, Open, Poll, AutoCommit, sessionVars
<1>3. CASE Receipted \/ Finish \/ Fail \/ Crash
  BY <1>3 DEF TopicOK, Receipted, Finish, Fail, Crash, Close
<1>4. CASE \E w \in Writers : Statements(w) \/ Dies(w)
  BY <1>4 DEF TopicOK, Statements, Dies, Beside, sessionVars
<1>5. CASE \E w \in Writers \ {Me}, rec \in Records \ Ids : Gateway(w, rec)
  BY <1>5 DEF TopicOK, Gateway, Beside, sessionVars
<1>6. CASE UNCHANGED vars
  BY <1>6 DEF TopicOK, vars, sessionVars
<1> QED
  BY <1>1, <1>2, <1>3, <1>4, <1>5, <1>6 DEF Next

LEMMA TopicInvariant == Spec => []TopicOK
<1>1. Init => TopicOK
  BY DEF Init, TopicOK
<1> QED
  BY <1>1, TopicStays, PTL DEF Spec

\* Every action of the composed system is an action of the log, or leaves the
\* log's variables as they are.
LEMMA StepsOfTheLog == TopicOK /\ [Next]_vars => [LogNext]_logVars
<1> SUFFICES ASSUME TopicOK, Next, logVars' # logVars PROVE LogNext
  BY DEF vars
<1>1. CASE Poll
  <2>1. position + 1 \in 1..Len(topic) /\ Call(Me, topic[position + 1])
        /\ topic[position + 1] # NoId
    BY <1>1 DEF Poll, TopicOK
  <2>2. topic[position + 1] \in Records
    BY <2>1, ReceiptsAssumption DEF TopicOK
  <2> QED
    BY <2>1, <2>2, ReceiptsAssumption DEF LogNext
<1>2. CASE Crash
  BY <1>2, ReceiptsAssumption DEF Crash, LogNext
<1>3. CASE \E w \in Writers : Statements(w) \/ Dies(w)
  BY <1>3 DEF Statements, Dies, LogNext
<1>4. CASE \E w \in Writers \ {Me}, rec \in Records \ Ids : Gateway(w, rec)
  BY <1>4 DEF Gateway, LogNext
<1>5. CASE \E id \in Ids \cup {NoId} : Publish(id)
  BY <1>5 DEF Publish
<1>6. CASE Open \/ AutoCommit \/ Receipted \/ Finish \/ Fail
  BY <1>6 DEF Open, AutoCommit, Receipted, Finish, Fail
<1> QED
  BY <1>1, <1>2, <1>3, <1>4, <1>5, <1>6 DEF Next

\* The consumer and the gateway together implement the log's specification.
THEOREM ReceiptsImplementLog == Spec => LogSpec
<1>1. Init => LogInit
  BY DEF Init
<1> QED
  BY <1>1, StepsOfTheLog, TopicInvariant, PTL DEF Spec, LogSpec

\* Receipts are appended beside the gateway's records and verify_chain() still
\* answers True, whatever is redelivered and whoever dies.
THEOREM ReceiptsKeepTheChain == Spec => []ChainVerifies
BY ReceiptsImplementLog, ChainAlwaysVerifies, PTL
------------------------------------------------------------------------------
(* Receipts are lost and repeated only as often as something failed.        *)

\* How far the group has come, and what it is about to receipt.
Reached == IF session = "closed" THEN offset ELSE position
InFlight == IF session = "appending" THEN {position} ELSE {}
Unwritten(s) == s \in {"lock", "read", "insert", "commit"}
Pending(id) == IF Unwritten(pc[Me]) /\ record[Me] = id THEN 1 ELSE 0

\* The consumer's connection appends for its session only, a receipt is written
\* for every id seen before, and nobody else writes receipts.
Positions ==
    /\ session \in {"closed", "polling", "appending"}
    /\ offset <= Len(topic) /\ position <= Len(topic)
    /\ session # "closed" => offset <= position
    /\ failures \in Nat /\ rewinds \in Nat
    /\ pc[Me] # "idle" => session = "appending"
    /\ session = "appending" =>
          /\ position \in 1..Len(topic)
          /\ record[Me] = topic[position] /\ record[Me] \in Ids /\ record[Me] \in seen
Receipting ==
    /\ session = "appending" /\ (answer[Me] # NoHash \/ pc[Me] = "return")
          => Receipts(record[Me]) # {}
    /\ session # "closed" =>
          \A id \in seen : Receipts(id) # {} \/ (session = "appending" /\ id = record[Me])
Alone ==
    /\ \A w \in Writers : \A n \in staged[w] : n.record = record[w]
    /\ \A w \in Writers \ {Me} : pc[w] # "idle" => record[w] \notin Ids
    /\ IsFiniteSet(rows)

\* Messages the group is past that have no receipt.
Missed == {i \in 1..Reached \ InFlight : topic[i] # NoId /\ Receipts(topic[i]) = {}}
LossInv == Cardinality(Missed) <= failures

\* The messages of an id among the first n.
Upto(t, n, id) == {i \in 1..n : t[i] = id}
RepeatsAtMost(id) ==
    LET n == Cardinality(Receipts(id)) + Pending(id)
    IN  /\ n <= Cardinality(Upto(topic, Reached, id)) + rewinds
        /\ n <= Cardinality(Upto(topic, offset, id)) + rewinds
                  + IF session # "closed" /\ id \in seen THEN 1 ELSE 0
RepeatInv == \A id \in Ids : RepeatsAtMost(id)

ConsumerInv == TopicOK /\ Inv /\ Positions /\ Receipting /\ Alone

LEMMA UptoCounts ==
  ASSUME NEW t, NEW n \in Nat, NEW id
  PROVE  /\ IsFiniteSet(Upto(t, n, id)) /\ Cardinality(Upto(t, n, id)) \in Nat
         /\ Cardinality(Upto(t, n + 1, id))
                = Cardinality(Upto(t, n, id)) + IF t[n + 1] = id THEN 1 ELSE 0
         /\ \A m \in 0..n : Cardinality(Upto(t, m, id)) <= Cardinality(Upto(t, n, id))
<1>1. \A m \in Nat : IsFiniteSet(1..m)
  BY FS_Interval
<1>2. \A m \in Nat : IsFiniteSet(Upto(t, m, id)) /\ Cardinality(Upto(t, m, id)) \in Nat
  BY <1>1, FS_Subset, FS_CardinalityType DEF Upto
<1>3. ASSUME t[n + 1] = id
      PROVE  Cardinality(Upto(t, n + 1, id)) = Cardinality(Upto(t, n, id)) + 1
  <2>1. Upto(t, n + 1, id) = Upto(t, n, id) \cup {n + 1} /\ n + 1 \notin Upto(t, n, id)
    BY <1>3 DEF Upto
  <2> QED
    BY <1>2, <1>3, <2>1, FS_AddElement
<1>4. ASSUME t[n + 1] # id
      PROVE  Cardinality(Upto(t, n + 1, id)) = Cardinality(Upto(t, n, id))
  <2>1. Upto(t, n + 1, id) = Upto(t, n, id)
    BY <1>4 DEF Upto
  <2> QED
    BY <1>2, <1>4, <2>1
<1>5. ASSUME NEW m \in 0..n PROVE Cardinality(Upto(t, m, id)) <= Cardinality(Upto(t, n, id))
  <2>1. Upto(t, m, id) \subseteq Upto(t, n, id)
    BY DEF Upto
  <2> QED
    BY <1>2, <2>1, FS_Subset
<1> QED
  BY <1>2, <1>3, <1>4, <1>5

LEMMA InitConsumer == Init => ConsumerInv /\ LossInv /\ RepeatInv
<1> SUFFICES ASSUME Init PROVE ConsumerInv /\ LossInv /\ RepeatInv
  OBVIOUS
<1>1. TopicOK /\ Inv /\ topic = <<>> /\ Len(topic) = 0
  BY InitInv DEF Init, TopicOK
<1>2. Positions /\ Receipting /\ Alone
  BY <1>1, ReceiptsAssumption, FS_EmptySet DEF Init, LogInit, Positions, Receipting, Alone
<1>3. LossInv
  <2>1. Missed = {}
    BY DEF Init, Missed, Reached
  <2> QED
    BY <2>1, FS_EmptySet DEF LossInv, Init
<1>4. RepeatInv
  <2>1. \A id : Receipts(id) = {} /\ Upto(topic, 0, id) = {} /\ Pending(id) = 0
    BY ReceiptsAssumption DEF Init, LogInit, Receipts, Upto, Pending, Unwritten
  <2>2. Reached = 0 /\ offset = 0 /\ rewinds = 0 /\ session = "closed"
    BY DEF Init, Reached
  <2>3. Cardinality({}) = 0
    BY FS_EmptySet
  <2>4. \A id : RepeatsAtMost(id)
    <3> TAKE id
    <3>1. Receipts(id) = {} /\ Upto(topic, 0, id) = {} /\ Pending(id) = 0
      BY <2>1
    <3> QED
      BY <2>2, <2>3, <3>1 DEF RepeatsAtMost
  <2> QED
    BY <2>4 DEF RepeatInv
<1> QED
  BY <1>1, <1>2, <1>3, <1>4 DEF ConsumerInv

\* A message with an id of the topic is one of the ids.
LEMMA NextMessage ==
  ASSUME ConsumerInv, Poll
  PROVE  /\ position + 1 \in 1..Len(topic) /\ position \in Nat
         /\ topic[position + 1] \in Ids \cup {NoId}
         /\ session = "polling" /\ pc[Me] = "idle"
BY DEF ConsumerInv, TopicOK, Positions, Poll

\* Rows stay, and only the consumer's commit adds a receipt.
LEMMA ReceiptsStay ==
  ASSUME ConsumerInv, [Next]_vars
  PROVE  \A id : Receipts(id) \subseteq Receipts(id)'
<1>1. [LogNext]_logVars
  BY StepsOfTheLog DEF ConsumerInv
<1>2. rows \subseteq rows'
  BY <1>1 DEF LogNext, logVars, Call, Step, Lock, ReadTail, Insert, Commit, Return, Die
<1> QED
  BY <1>2 DEF Receipts

LEMMA NextPositions == ConsumerInv /\ [Next]_vars => Positions'
<1> SUFFICES ASSUME ConsumerInv, [Next]_vars PROVE Positions'
  OBVIOUS
<1> USE DEF ConsumerInv, Positions
<1>t. /\ DOMAIN pc = Writers /\ DOMAIN record = Writers /\ Me \in Writers
      /\ topic \in Seq(Ids \cup {NoId}) /\ Len(topic) \in Nat /\ offset \in Nat /\ position \in Nat
  BY ReceiptsAssumption DEF Inv, LogTypeOK, TopicOK
<1>1. CASE \E id \in Ids \cup {NoId} : Publish(id)
  <2>1. PICK id \in Ids \cup {NoId} : Publish(id)
    BY <1>1
  <2>2. /\ Len(topic') = Len(topic) + 1
        /\ \A i \in 1..Len(topic) : topic'[i] = topic[i]
    BY <1>t, <2>1 DEF Publish
  <2> QED
    BY <1>t, <2>1, <2>2 DEF Publish, sessionVars, historyVars, logVars
<1>2. CASE Open
  BY <1>2, <1>t DEF Open, logVars
<1>3. CASE Poll
  <2>1. CASE UNCHANGED <<logVars, seen, session>>
    BY <1>3, <1>t, <2>1, NextMessage DEF Poll, logVars, historyVars
  <2>2. CASE /\ topic[position + 1] # NoId
             /\ seen' = seen \cup {topic[position + 1]} /\ session' = "appending"
             /\ Call(Me, topic[position + 1])
    BY <1>3, <1>t, <2>2, NextMessage DEF Poll, Call, historyVars
  <2> QED
    BY <1>3, <2>1, <2>2 DEF Poll
<1>4. CASE AutoCommit
  BY <1>4, <1>t DEF AutoCommit, logVars, sessionVars, historyVars
<1>5. CASE Receipted
  BY <1>5, <1>t DEF Receipted, logVars, historyVars
<1>6. CASE Finish \/ Fail
  BY <1>6, <1>t DEF Finish, Fail, Close, logVars
<1>7. CASE Crash
  BY <1>7, <1>t DEF Crash, Die, Goto, logVars
<1>8. ASSUME NEW w \in Writers, Statements(w) \/ Dies(w) PROVE Positions'
  BY <1>8, <1>t DEF Statements, Dies, Beside, sessionVars, historyVars, Step, Lock, ReadTail,
     Insert, Commit, Return, Die, Goto
<1>9. ASSUME NEW w \in Writers \ {Me}, NEW rec \in Records \ Ids, Gateway(w, rec)
      PROVE  Positions'
  BY <1>9, <1>t DEF Gateway, Beside, sessionVars, historyVars, Call, Goto
<1>10. CASE UNCHANGED vars
  BY <1>10 DEF vars, logVars, sessionVars, historyVars
<1> QED
  BY <1>1, <1>2, <1>3, <1>4, <1>5, <1>6, <1>7, <1>8, <1>9, <1>10 DEF Next

LEMMA NextAlone == ConsumerInv /\ [Next]_vars => Alone'
<1> SUFFICES ASSUME ConsumerInv, [Next]_vars PROVE Alone'
  OBVIOUS
<1>t. /\ DOMAIN pc = Writers /\ DOMAIN record = Writers /\ DOMAIN staged = Writers
      /\ Me \in Writers /\ Alone
      /\ \A w \in Writers : pc[w] # "commit" => staged[w] = {}
  BY ReceiptsAssumption DEF ConsumerInv, Inv, LogTypeOK, OnlyInFlight
<1>1. CASE UNCHANGED logVars
  BY <1>1, <1>t DEF logVars, Alone
<1>2. ASSUME NEW w \in Writers, NEW rec, Call(w, rec), w # Me => rec \notin Ids PROVE Alone'
  BY <1>2, <1>t DEF Call, Goto, Alone
<1>3. ASSUME NEW w \in Writers, Lock(w) \/ ReadTail(w) \/ Return(w) \/ Die(w) PROVE Alone'
  BY <1>3, <1>t DEF Lock, ReadTail, Return, Die, Goto, Alone
<1>4. ASSUME NEW w \in Writers, Insert(w) PROVE Alone'
  BY <1>4, <1>t DEF Insert, Row, Goto, Alone
<1>5. ASSUME NEW w \in Writers, Commit(w) PROVE Alone'
  <2>1. PICK n : staged[w] = {n}
    BY <1>5 DEF Commit, ConsumerInv, Inv, StagedFits
  <2>2. IsFiniteSet(rows')
    BY <1>5, <1>t, <2>1, FS_AddElement DEF Commit, Alone
  <2> QED
    BY <1>5, <1>t, <2>2 DEF Commit, Goto, Alone
<1>6. CASE Poll
  BY <1>1, <1>2, <1>6, <1>t DEF Poll
<1>7. CASE Crash
  BY <1>1, <1>3, <1>7, <1>t DEF Crash
<1>8. CASE Open \/ AutoCommit \/ Receipted \/ Finish \/ Fail \/ (\E id \in Ids \cup {NoId} : Publish(id))
  BY <1>1, <1>8 DEF Open, AutoCommit, Receipted, Finish, Fail, Publish
<1>9. CASE \E w \in Writers : Statements(w) \/ Dies(w)
  BY <1>3, <1>4, <1>5, <1>9 DEF Statements, Dies, Step
<1>10. CASE \E w \in Writers \ {Me}, rec \in Records \ Ids : Gateway(w, rec)
  BY <1>2, <1>10 DEF Gateway
<1> QED
  BY <1>1, <1>6, <1>7, <1>8, <1>9, <1>10 DEF Next, vars

\* The commit of the consumer's connection is what writes a receipt.
LEMMA CommitReceipts ==
  ASSUME ConsumerInv, NEW w \in Writers, Commit(w)
  PROVE  \E n : /\ n \notin rows /\ n.record = record[w] /\ rows' = rows \cup {n}
               /\ \A id \in Ids :
                     Receipts(id)' = IF w = Me /\ record[Me] = id
                                     THEN Receipts(id) \cup {n} ELSE Receipts(id)
<1>1. PICK n : staged[w] = {n} /\ Fits(n)
  BY DEF Commit, ConsumerInv, Inv, StagedFits
<1>2. n.record = record[w] /\ rows' = rows \cup {n}
  BY <1>1 DEF Commit, ConsumerInv, Alone
<1>3. n \notin rows
  <2>1. n.seq \in Nat
    BY <1>1 DEF ConsumerInv, Inv, LogTypeOK
  <2> QED
    BY <1>1, <2>1 DEF Fits
<1>4. w # Me => record[w] \notin Ids
  BY DEF Commit, ConsumerInv, Alone
<1>5. \A id \in Ids : Receipts(id)' = IF w = Me /\ record[Me] = id
                                     THEN Receipts(id) \cup {n} ELSE Receipts(id)
  <2> TAKE id \in Ids
  <2>1. Receipts(id)' = {r \in rows \cup {n} : r.record = id}
    BY <1>2 DEF Receipts
  <2>2. CASE w = Me /\ record[Me] = id
    BY <1>2, <2>1, <2>2 DEF Receipts
  <2>3. CASE ~ (w = Me /\ record[Me] = id)
    <3>1. n.record # id
      BY <1>2, <1>4, <2>3
    <3> QED
      BY <2>1, <2>3, <3>1 DEF Receipts
  <2> QED
    BY <2>2, <2>3
<1> QED
  BY <1>2, <1>3, <1>5

LEMMA NextReceipting == ConsumerInv /\ [Next]_vars => Receipting'
<1> SUFFICES ASSUME ConsumerInv, [Next]_vars PROVE Receipting'
  OBVIOUS
<1>t. /\ DOMAIN pc = Writers /\ DOMAIN record = Writers /\ DOMAIN answer = Writers
      /\ Me \in Writers /\ Receipting /\ Positions
  BY ReceiptsAssumption DEF ConsumerInv, Inv, LogTypeOK
<1>s. \A id : Receipts(id) # {} => Receipts(id)' # {}
  BY ReceiptsStay
<1> USE DEF Receipting, Positions
<1>1. CASE UNCHANGED <<logVars, session, seen>>
  BY <1>1, <1>s, <1>t DEF logVars
<1>2. CASE Open
  BY <1>2, <1>s, <1>t DEF Open, logVars
<1>3. CASE Poll
  <2>1. CASE UNCHANGED <<logVars, seen, session>>
    BY <1>1, <2>1
  <2>2. CASE /\ seen' = seen \cup {topic[position + 1]} /\ session' = "appending"
             /\ Call(Me, topic[position + 1])
    <3>1. session = "polling"
      BY <1>3 DEF Poll
    <3>2. record'[Me] = topic[position + 1] /\ answer'[Me] = NoHash /\ pc'[Me] = "lock"
      BY <2>2, <1>t DEF Call, Goto
    <3> QED
      BY <2>2, <3>1, <3>2, <1>s, <1>t
  <2> QED
    BY <1>3, <2>1, <2>2 DEF Poll
<1>4. CASE Receipted
  BY <1>4, <1>s, <1>t DEF Receipted, logVars
<1>5. CASE Finish \/ Fail \/ Crash
  BY <1>5, <1>s, <1>t DEF Finish, Fail, Crash, Close
<1>6. ASSUME NEW w \in Writers, UNCHANGED <<session, seen>>,
             Lock(w) \/ ReadTail(w) \/ Insert(w) \/ Die(w)
      PROVE  Receipting'
  BY <1>6, <1>s, <1>t DEF Lock, ReadTail, Insert, Die, Goto
<1>7. ASSUME NEW w \in Writers, UNCHANGED <<session, seen>>, Return(w)
      PROVE  Receipting'
  BY <1>7, <1>s, <1>t DEF Return, Goto
<1>8. ASSUME NEW w \in Writers, UNCHANGED <<session, seen>>, Commit(w)
      PROVE  Receipting'
  <2>1. record' = record /\ answer' = answer /\ (w # Me => pc'[Me] = pc[Me])
    BY <1>8, <1>t DEF Commit, Goto
  <2>2. w = Me => session = "appending" /\ record[Me] \in Ids
    BY <1>8, <1>t DEF Commit
  <2>3. w = Me => Receipts(record[Me])' # {}
    BY <1>8, <2>1, <2>2, CommitReceipts
  <2> QED
    BY <1>8, <1>s, <1>t, <2>1, <2>3
<1>9. ASSUME NEW w \in Writers \ {Me}, NEW rec, UNCHANGED <<session, seen>>, Call(w, rec)
      PROVE  Receipting'
  BY <1>9, <1>s, <1>t DEF Call, Goto
<1>10. CASE AutoCommit \/ (\E id \in Ids \cup {NoId} : Publish(id)) \/ UNCHANGED vars
  BY <1>1, <1>10 DEF AutoCommit, Publish, sessionVars, vars
<1>11. CASE \E w \in Writers : Statements(w) \/ Dies(w)
  BY <1>6, <1>7, <1>8, <1>11 DEF Statements, Dies, Step, Beside, sessionVars
<1>12. CASE \E w \in Writers \ {Me}, rec \in Records \ Ids : Gateway(w, rec)
  BY <1>9, <1>12 DEF Gateway, Beside, sessionVars
<1> QED
  BY <1>2, <1>3, <1>4, <1>5, <1>10, <1>11, <1>12 DEF Next

LEMMA NextConsumer == ConsumerInv /\ [Next]_vars => ConsumerInv'
<1>1. TopicOK /\ [Next]_vars => TopicOK'
  BY TopicStays
<1> QED
  BY <1>1, NextInv, StepsOfTheLog, NextPositions, NextReceipting, NextAlone DEF ConsumerInv

LEMMA MissedIsFinite ==
  ConsumerInv => IsFiniteSet(Missed) /\ Cardinality(Missed) \in Nat
<1> SUFFICES ASSUME ConsumerInv PROVE IsFiniteSet(Missed) /\ Cardinality(Missed) \in Nat
  OBVIOUS
<1>1. Reached \in Nat
  BY DEF ConsumerInv, TopicOK, Reached
<1>2. IsFiniteSet(1..Reached)
  BY <1>1, FS_Interval
<1> QED
  BY <1>2, FS_Subset, FS_CardinalityType DEF Missed

\* A step that fails nothing misses nothing more, and one that fails misses at
\* most the message in hand.
LEMMA NextMissed ==
  ASSUME ConsumerInv, [Next]_vars
  PROVE  \/ failures' = failures /\ Missed' \subseteq Missed
         \/ failures' = failures + 1 /\ Missed' \subseteq Missed \cup {position}
<1> DEFINE Same == failures' = failures /\ Missed' \subseteq Missed
           After(id) == {r \in rows' : r.record = id}
<1>t. /\ topic \in Seq(Ids \cup {NoId}) /\ Len(topic) \in Nat /\ offset \in Nat /\ position \in Nat
      /\ Receipting /\ Positions
  BY DEF ConsumerInv, TopicOK
<1>s. \A id : After(id) = {} => Receipts(id) = {}
  BY ReceiptsStay DEF Receipts
<1>m. Missed' = {i \in 1..Reached' \ InFlight' : topic'[i] # NoId /\ After(topic'[i]) = {}}
  BY DEF Missed, Receipts
<1> HIDE DEF After
<1> USE DEF Receipting, Positions
<1>1. ASSUME topic' = topic, UNCHANGED <<session, position, offset, failures>> PROVE Same
  BY <1>1, <1>s, <1>m DEF Missed, Reached, InFlight
<1>2. CASE \E id \in Ids \cup {NoId} : Publish(id)
  <2>1. PICK id \in Ids \cup {NoId} : Publish(id)
    BY <1>2
  <2>2. \A i \in 1..Len(topic) : topic'[i] = topic[i]
    BY <1>t, <2>1 DEF Publish
  <2>3. UNCHANGED <<session, position, offset, failures>>
    BY <2>1 DEF Publish, sessionVars, historyVars
  <2>4. Reached' = Reached /\ InFlight' = InFlight /\ 1..Reached \subseteq 1..Len(topic)
    BY <1>t, <2>3 DEF Reached, InFlight
  <2> QED
    BY <1>s, <1>m, <2>2, <2>3, <2>4 DEF Missed
<1>3. CASE Open \/ AutoCommit
  BY <1>3, <1>s, <1>m, <1>t DEF Open, AutoCommit, sessionVars, historyVars, Missed, Reached, InFlight
<1>4. CASE Poll
  <2> DEFINE id == topic[position + 1]
  <2>1. /\ session = "polling" /\ position' = position + 1
        /\ UNCHANGED <<topic, failures>>
    BY <1>4 DEF Poll, historyVars
  <2>2. Reached = position /\ Reached' = position + 1 /\ InFlight = {}
    BY <2>1, <1>4 DEF Poll, Reached, InFlight
  <2>m. Missed' \subseteq Missed \cup {position + 1}
    <3>1. \A i \in 1..Reached' : i = position + 1 \/ i \in 1..Reached
      BY <1>t, <2>2
    <3> QED
      BY <1>s, <1>m, <2>1, <2>2, <3>1 DEF Missed
  <2>3. CASE (id = NoId \/ id \in seen) /\ UNCHANGED <<logVars, seen, session>>
    <3>1. id = NoId \/ Receipts(id) # {}
      BY <1>t, <2>1, <2>3
    <3>2. \A i \in Missed' : i # position + 1
      BY <1>s, <1>m, <2>1, <3>1
    <3> QED
      BY <2>1, <2>m, <3>2
  <2>4. CASE session' = "appending"
    <3>1. InFlight' = {position + 1}
      BY <2>1, <2>4 DEF InFlight
    <3>2. \A i \in Missed' : i # position + 1
      BY <1>m, <3>1
    <3> QED
      BY <2>1, <2>m, <3>2
  <2> QED
    BY <1>4, <2>3, <2>4 DEF Poll
<1>5. CASE Receipted
  <2>1. /\ session = "appending" /\ session' = "polling" /\ UNCHANGED <<topic, position, failures>>
        /\ Receipts(topic[position]) # {}
    BY <1>5, <1>t DEF Receipted, historyVars
  <2> QED
    BY <1>s, <1>m, <1>t, <2>1 DEF Missed, Reached, InFlight
<1>6. CASE Finish
  <2>1. /\ session = "polling" /\ session' = "closed" /\ UNCHANGED <<topic, position, failures>>
        /\ offset' \in {offset, position}
    BY <1>6 DEF Finish, Close
  <2>2. 1..Reached' \subseteq 1..Reached /\ InFlight = {}
    BY <1>t, <2>1 DEF Reached, InFlight
  <2> QED
    BY <1>s, <1>m, <2>1, <2>2 DEF Missed
<1>7. ASSUME Close \/ (session' = "closed" /\ offset' = offset), session = "appending",
             UNCHANGED <<topic, position>>
      PROVE  Missed' \subseteq Missed \cup {position}
  <2>1. Reached' \in {offset, position} /\ Reached = position /\ InFlight = {position}
    BY <1>7 DEF Close, Reached, InFlight
  <2>2. 1..Reached' \subseteq 1..Reached
    BY <1>t, <1>7, <2>1
  <2> QED
    BY <1>s, <1>m, <1>7, <2>1, <2>2 DEF Missed
<1>8. CASE Fail
  BY <1>7, <1>8 DEF Fail
<1>9. CASE Crash
  <2>1. session' = "closed" /\ offset' = offset /\ UNCHANGED <<topic, position>>
    BY <1>9 DEF Crash
  <2>2. CASE session = "appending"
    BY <1>7, <1>9, <2>1, <2>2 DEF Crash
  <2>3. CASE session = "polling"
    <3>1. 1..Reached' \subseteq 1..Reached /\ InFlight = {}
      BY <1>t, <2>1, <2>3 DEF Reached, InFlight
    <3>2. failures' = failures
      BY <1>9, <2>3 DEF Crash
    <3> QED
      BY <1>s, <1>m, <2>1, <3>1, <3>2 DEF Missed
  <2> QED
    BY <1>9, <2>2, <2>3 DEF Crash
<1>10. CASE UNCHANGED vars \/ \E w \in Writers : Statements(w) \/ Dies(w)
  BY <1>1, <1>10 DEF Statements, Dies, Beside, sessionVars, historyVars, vars
<1>11. CASE \E w \in Writers \ {Me}, rec \in Records \ Ids : Gateway(w, rec)
  BY <1>1, <1>11 DEF Gateway, Beside, sessionVars, historyVars
<1> QED
  BY <1>2, <1>3, <1>4, <1>5, <1>6, <1>8, <1>9, <1>10, <1>11 DEF Next

LEMMA NextLoss == ConsumerInv /\ LossInv /\ [Next]_vars => LossInv'
<1> SUFFICES ASSUME ConsumerInv, LossInv, [Next]_vars PROVE LossInv'
  OBVIOUS
<1>1. IsFiniteSet(Missed) /\ Cardinality(Missed) \in Nat /\ failures \in Nat
  BY MissedIsFinite DEF ConsumerInv, Positions
<1>2. CASE failures' = failures /\ Missed' \subseteq Missed
  <2>1. Cardinality(Missed') <= Cardinality(Missed) /\ Cardinality(Missed') \in Nat
    BY <1>1, <1>2, FS_Subset, FS_CardinalityType
  <2> QED
    BY <1>1, <1>2, <2>1 DEF LossInv
<1>3. CASE failures' = failures + 1 /\ Missed' \subseteq Missed \cup {position}
  <2>1. /\ IsFiniteSet(Missed \cup {position})
        /\ Cardinality(Missed \cup {position}) \in {Cardinality(Missed), Cardinality(Missed) + 1}
    BY <1>1, FS_AddElement
  <2>2. /\ Cardinality(Missed') <= Cardinality(Missed \cup {position})
        /\ Cardinality(Missed') \in Nat
    BY <1>3, <2>1, FS_Subset, FS_CardinalityType
  <2> QED
    BY <1>1, <1>3, <2>1, <2>2 DEF LossInv
<1> QED
  BY <1>2, <1>3, NextMissed

\* The receipts of an id, written or about to be, do not become more unless its
\* message is taken.
Writing(id) == Cardinality(Receipts(id)) + Pending(id)

LEMMA WritingIsNat ==
  ASSUME ConsumerInv, NEW id
  PROVE  /\ IsFiniteSet(Receipts(id)) /\ Cardinality(Receipts(id)) \in Nat
         /\ Pending(id) \in {0, 1} /\ Writing(id) \in Nat
<1>1. IsFiniteSet(Receipts(id))
  BY FS_Subset DEF ConsumerInv, Alone, Receipts
<1> QED
  BY <1>1, FS_CardinalityType DEF Pending, Writing

LEMMA LogWriting ==
  ASSUME ConsumerInv, NEW id \in Ids,
         \/ UNCHANGED logVars
         \/ \E w \in Writers : Step(w) \/ Die(w)
         \/ \E w \in Writers \ {Me}, rec \in Records \ Ids : Call(w, rec)
  PROVE  Writing(id)' <= Writing(id) /\ Writing(id)' \in Nat
<1>t. /\ DOMAIN pc = Writers /\ DOMAIN record = Writers /\ Me \in Writers
      /\ Pending(id) \in {0, 1} /\ Writing(id) \in Nat
      /\ IsFiniteSet(Receipts(id)) /\ Cardinality(Receipts(id)) \in Nat
  BY WritingIsNat, ReceiptsAssumption DEF ConsumerInv, Inv, LogTypeOK
<1>1. ASSUME rows' = rows, Pending(id)' <= Pending(id), Pending(id)' \in {0, 1}
      PROVE  Writing(id)' <= Writing(id) /\ Writing(id)' \in Nat
  <2>1. Receipts(id)' = Receipts(id)
    BY <1>1 DEF Receipts
  <2> QED
    BY <1>1, <1>t, <2>1 DEF Writing
<1>2. CASE UNCHANGED logVars
  BY <1>1, <1>2, <1>t DEF logVars, Pending
<1>3. ASSUME NEW w \in Writers, Lock(w) \/ ReadTail(w) \/ Insert(w) \/ Return(w) \/ Die(w)
      PROVE  Writing(id)' <= Writing(id) /\ Writing(id)' \in Nat
  <2>1. rows' = rows /\ record' = record
    BY <1>3 DEF Lock, ReadTail, Insert, Return, Die
  <2>2. Unwritten(pc'[Me]) => Unwritten(pc[Me])
    BY <1>3, <1>t DEF Lock, ReadTail, Insert, Return, Die, Goto, Unwritten
  <2> QED
    BY <1>1, <1>t, <2>1, <2>2 DEF Pending
<1>4. ASSUME NEW w \in Writers \ {Me}, NEW rec, Call(w, rec)
      PROVE  Writing(id)' <= Writing(id) /\ Writing(id)' \in Nat
  <2>1. rows' = rows /\ record'[Me] = record[Me] /\ pc'[Me] = pc[Me]
    BY <1>4, <1>t DEF Call, Goto
  <2> QED
    BY <1>1, <1>t, <2>1 DEF Pending
<1>5. ASSUME NEW w \in Writers, Commit(w)
      PROVE  Writing(id)' <= Writing(id) /\ Writing(id)' \in Nat
  <2>1. PICK n : /\ n \notin rows /\ rows' = rows \cup {n}
                 /\ Receipts(id)' = IF w = Me /\ record[Me] = id
                                    THEN Receipts(id) \cup {n} ELSE Receipts(id)
    BY <1>5, CommitReceipts
  <2>2. record' = record /\ pc[w] = "commit" /\ pc' = [pc EXCEPT ![w] = "return"]
    BY <1>5 DEF Commit, Goto
  <2>3. CASE w = Me /\ record[Me] = id
    <3>1. n \notin Receipts(id)
      BY <2>1 DEF Receipts
    <3>2. Cardinality(Receipts(id)') = Cardinality(Receipts(id)) + 1
      BY <1>t, <2>1, <2>3, <3>1, FS_AddElement
    <3>3. Pending(id) = 1 /\ Pending(id)' = 0
      BY <1>t, <2>2, <2>3 DEF Pending, Unwritten
    <3> QED
      BY <1>t, <3>2, <3>3 DEF Writing
  <2>4. CASE ~ (w = Me /\ record[Me] = id)
    <3>1. Pending(id)' = Pending(id)
      BY <1>t, <2>2, <2>4 DEF Pending, Unwritten
    <3> QED
      BY <1>t, <2>1, <2>4, <3>1 DEF Writing
  <2> QED
    BY <2>3, <2>4
<1> QED
  BY <1>2, <1>3, <1>4, <1>5 DEF Step

LEMMA NextRepeats == ConsumerInv /\ RepeatInv /\ [Next]_vars => RepeatInv'
<1> SUFFICES ASSUME ConsumerInv, RepeatInv, [Next]_vars, NEW id \in Ids
             PROVE  RepeatsAtMost(id)'
  BY DEF RepeatInv
<1> DEFINE C(t, n) == Cardinality(Upto(t, n, id))
<1>t. /\ topic \in Seq(Ids \cup {NoId}) /\ Len(topic) \in Nat /\ offset \in Nat /\ position \in Nat
      /\ Reached \in Nat /\ Positions /\ Writing(id) \in Nat /\ rewinds \in Nat
      /\ (session # "closed" => Reached = position) /\ (session = "closed" => Reached = offset)
  BY WritingIsNat DEF ConsumerInv, TopicOK, Reached, Positions
<1>c. /\ \A t, n : n \in Nat => C(t, n) \in Nat
      /\ C(topic, position + 1) = C(topic, position)
                                    + IF topic[position + 1] = id THEN 1 ELSE 0
  <2>1. \A t, n : n \in Nat => C(t, n) \in Nat
    BY UptoCounts
  <2>2. position \in Nat
    BY <1>t
  <2>3. C(topic, position + 1) = C(topic, position)
                                    + IF topic[position + 1] = id THEN 1 ELSE 0
    BY <2>2, UptoCounts
  <2> QED
    BY <2>1, <2>3
<1>i. /\ Writing(id) <= C(topic, Reached) + rewinds
      /\ Writing(id) <= C(topic, offset) + rewinds
                          + IF session # "closed" /\ id \in seen THEN 1 ELSE 0
  BY DEF RepeatInv, RepeatsAtMost, Writing
<1>j. SUFFICES /\ Writing(id)' <= C(topic', Reached') + rewinds'
               /\ Writing(id)' <= C(topic', offset') + rewinds'
                          + IF session' # "closed" /\ id \in seen' THEN 1 ELSE 0
  BY DEF RepeatsAtMost, Writing
<1> HIDE DEF C
<1> DEFINE Goal == /\ Writing(id)' <= C(topic', Reached') + rewinds'
                   /\ Writing(id)' <= C(topic', offset') + rewinds'
                          + IF session' # "closed" /\ id \in seen' THEN 1 ELSE 0
<1>w. UNCHANGED logVars => Writing(id)' <= Writing(id) /\ Writing(id)' \in Nat
  BY LogWriting
<1>1. ASSUME Writing(id)' <= Writing(id), Writing(id)' \in Nat, topic' = topic,
             UNCHANGED <<sessionVars, offset, rewinds>>
      PROVE  Goal
  <2>1. Reached' = Reached
    BY <1>1 DEF sessionVars, Reached
  <2> QED
    BY <1>1, <1>c, <1>i, <1>t, <2>1 DEF sessionVars
<1>2. CASE \E m \in Ids \cup {NoId} : Publish(m)
  <2>1. PICK m \in Ids \cup {NoId} : Publish(m)
    BY <1>2
  <2>2. \A i \in 1..Len(topic) : topic'[i] = topic[i]
    BY <1>t, <2>1 DEF Publish
  <2>3. UNCHANGED <<session, position, offset, rewinds, seen, logVars>>
    BY <2>1 DEF Publish, sessionVars, historyVars
  <2>4. Reached' = Reached /\ Reached <= Len(topic) /\ offset <= Len(topic)
    BY <1>t, <2>3 DEF Reached, Positions
  <2>5. \A n \in Nat : n <= Len(topic) => C(topic', n) = C(topic, n)
    <3> SUFFICES ASSUME NEW n \in Nat, n <= Len(topic) PROVE C(topic', n) = C(topic, n)
      OBVIOUS
    <3>1. \A i \in 1..n : topic'[i] = topic[i]
      BY <1>t, <2>2
    <3>2. Upto(topic', n, id) = Upto(topic, n, id)
      BY <3>1 DEF Upto
    <3> QED
      BY <3>2 DEF C
  <2> QED
    BY <1>c, <1>i, <1>t, <1>w, <2>3, <2>4, <2>5, SMTT(20)
<1>3. CASE Open
  <2>1. /\ session = "closed" /\ session' = "polling" /\ position' = offset /\ seen' = {}
        /\ UNCHANGED <<logVars, topic, offset, rewinds>>
    BY <1>3 DEF Open
  <2>2. Reached' = offset
    BY <2>1 DEF Reached
  <2> QED
    BY <1>c, <1>i, <1>t, <1>w, <2>1, <2>2
<1>4. CASE Poll
  <2>1. /\ session = "polling" /\ pc[Me] = "idle" /\ position' = position + 1
        /\ UNCHANGED <<topic, offset, rewinds>>
    BY <1>4, NextMessage DEF Poll, historyVars
  <2>2. session' # "closed" /\ Reached' = position + 1 /\ Reached = position
    BY <1>4, <2>1 DEF Poll, Reached
  <2>3. CASE UNCHANGED <<logVars, seen, session>>
    BY <1>c, <1>i, <1>t, <1>w, <2>1, <2>2, <2>3, SMTT(20)
  <2>4. CASE /\ topic[position + 1] \notin seen
             /\ seen' = seen \cup {topic[position + 1]} /\ Call(Me, topic[position + 1])
    <3>1. rows' = rows /\ record'[Me] = topic[position + 1] /\ pc'[Me] = "lock"
      BY <2>4, ReceiptsAssumption DEF Call, Goto, ConsumerInv, Inv, LogTypeOK
    <3>2. Receipts(id)' = Receipts(id) /\ Pending(id) = 0
      BY <2>1, <3>1 DEF Receipts, Pending, Unwritten
    <3>3. Pending(id)' = IF topic[position + 1] = id THEN 1 ELSE 0
      BY <3>1 DEF Pending, Unwritten
    <3>4. Writing(id)' = Writing(id) + IF topic[position + 1] = id THEN 1 ELSE 0
      BY <3>2, <3>3, WritingIsNat DEF Writing
    <3>5. /\ topic' = topic /\ offset' = offset /\ rewinds' = rewinds
          /\ Reached' = position + 1 /\ session # "closed" /\ session' # "closed"
      BY <2>1, <2>2
    <3>6. {C(topic, position), C(topic, position + 1), C(topic, offset), Writing(id), rewinds}
             \subseteq Nat
      BY <1>c, <1>t
    <3>7. Writing(id) <= C(topic, position) + rewinds
      BY <1>i, <2>2
    <3>8. CASE topic[position + 1] = id
      <4>1. id \notin seen /\ id \in seen'
        BY <2>4, <3>8
      <4>2. /\ Writing(id)' = Writing(id) + 1
            /\ C(topic, position + 1) = C(topic, position) + 1
        BY <1>c, <3>4, <3>8
      <4>3. Writing(id) <= C(topic, offset) + rewinds
        BY <1>i, <3>6, <4>1
      <4> QED
        BY <3>5, <3>6, <3>7, <4>1, <4>2, <4>3
    <3>9. CASE topic[position + 1] # id
      <4>1. id \in seen' <=> id \in seen
        BY <2>4, <3>9
      <4>2. Writing(id)' = Writing(id) /\ C(topic, position + 1) = C(topic, position)
        BY <1>c, <3>4, <3>6, <3>9
      <4> QED
        BY <1>i, <3>5, <3>6, <3>7, <4>1, <4>2
    <3> QED
      BY <3>8, <3>9
  <2> QED
    BY <1>4, <2>3, <2>4 DEF Poll
<1>5. CASE AutoCommit
  <2>1. /\ session # "closed" /\ offset' = position
        /\ UNCHANGED <<logVars, topic, rewinds, session, position, seen>>
    BY <1>5 DEF AutoCommit, sessionVars, historyVars
  <2>2. Reached' = position
    BY <2>1 DEF Reached
  <2> QED
    BY <1>c, <1>i, <1>t, <1>w, <2>1, <2>2
<1>6. CASE Receipted
  <2>1. /\ session = "appending" /\ session' = "polling"
        /\ UNCHANGED <<logVars, topic, offset, position, seen, rewinds>>
    BY <1>6 DEF Receipted, historyVars
  <2>2. Reached' = position
    BY <2>1 DEF Reached
  <2> QED
    BY <1>c, <1>i, <1>t, <1>w, <2>1, <2>2
<1>7. ASSUME Finish \/ Fail \/ Crash PROVE Goal
  <2>1. /\ session # "closed" /\ session' = "closed" /\ topic' = topic
        /\ \/ offset' = position /\ rewinds' = rewinds
           \/ offset' = offset /\ rewinds' = rewinds + 1
    BY <1>7 DEF Finish, Fail, Crash, Close
  <2>2. Writing(id)' <= Writing(id) /\ Writing(id)' \in Nat
    BY <1>7, LogWriting, ReceiptsAssumption DEF Finish, Fail, Crash
  <2>3. Reached' = offset'
    BY <2>1 DEF Reached
  <2> QED
    BY <1>c, <1>i, <1>t, <2>1, <2>2, <2>3, SMTT(20)
<1>8. CASE UNCHANGED vars
  BY <1>1, <1>8, <1>w DEF vars, historyVars
<1>9. CASE \E w \in Writers : Statements(w) \/ Dies(w)
  BY <1>1, <1>9, LogWriting DEF Statements, Dies, Beside, historyVars
<1>10. CASE \E w \in Writers \ {Me}, rec \in Records \ Ids : Gateway(w, rec)
  BY <1>1, <1>10, LogWriting DEF Gateway, Beside, historyVars
<1> QED
  BY <1>2, <1>3, <1>4, <1>5, <1>6, <1>7, <1>8, <1>9, <1>10 DEF Next

\* For any topic, any number of sessions and any interleaving with the other
\* writers of the log, the receipts that are missing are at most as many as the
\* appends that failed, and the extra ones as the sessions that ended without
\* committing (consume_agent_decisions() and bus.consume()).
THEOREM LossesNeedFailures == Spec => []ReceiptsPerFailure
<1>1. ConsumerInv /\ LossInv /\ RepeatInv => ReceiptsPerFailure
  <2> SUFFICES ASSUME ConsumerInv, LossInv, RepeatInv PROVE ReceiptsPerFailure
    OBVIOUS
  <2>t. /\ Len(topic) \in Nat /\ offset \in Nat /\ position \in Nat /\ Reached \in 0..Len(topic)
        /\ offset <= Reached /\ rewinds \in Nat /\ failures \in Nat
        /\ DOMAIN topic = 1..Len(topic)
    BY DEF ConsumerInv, TopicOK, Reached, Positions
  <2>1. LossBounded
    <3> DEFINE lost == {i \in 1..offset \ InFlight : topic[i] # NoId /\ Receipts(topic[i]) = {}}
    <3>1. lost \subseteq Missed
      BY <2>t DEF Missed
    <3>2. Cardinality(lost) <= Cardinality(Missed) /\ Cardinality(lost) \in Nat
      BY <3>1, MissedIsFinite, FS_Subset, FS_CardinalityType
    <3>3. Cardinality(lost) <= failures
      BY <2>t, <3>2, MissedIsFinite DEF LossInv
    <3> QED
      BY <3>3 DEF LossBounded, InFlight
  <2>2. DuplicatesBounded
    <3> SUFFICES ASSUME NEW id \in Ids
                 PROVE  Cardinality(Receipts(id)) <= Cardinality(Messages(id)) + rewinds
      BY DEF DuplicatesBounded
    <3>1. Messages(id) = Upto(topic, Len(topic), id)
      BY <2>t DEF Messages, Upto
    <3>2. /\ Cardinality(Upto(topic, Reached, id)) <= Cardinality(Messages(id))
          /\ Cardinality(Upto(topic, Reached, id)) \in Nat /\ Cardinality(Messages(id)) \in Nat
      BY <2>t, <3>1, UptoCounts
    <3>3. Cardinality(Receipts(id)) + Pending(id)
             <= Cardinality(Upto(topic, Reached, id)) + rewinds
      BY DEF RepeatInv, RepeatsAtMost
    <3> QED
      BY <2>t, <3>2, <3>3, WritingIsNat
  <2> QED
    BY <2>1, <2>2 DEF ReceiptsPerFailure
<1> QED
  BY <1>1, InitConsumer, NextConsumer, NextLoss, NextRepeats, PTL DEF Spec
==============================================================================
