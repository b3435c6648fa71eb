---------------------------- MODULE AuditReceipts ----------------------------
(***************************************************************************)
(* The audit service's consumer (src/ab_audit/consumer.py in the loop of   *)
(* app.py, over bus.consume()): one consumer group reads the decision      *)
(* topic and appends a receipt of every decision to the log of AuditLog,   *)
(* to which the gateway appends at the same time.                          *)
(*                                                                         *)
(* The Kafka client stores the offset of a message when poll() returns it, *)
(* commits what it has stored in the background (enable.auto.commit) and   *)
(* once more in close().                                                   *)
(***************************************************************************)
EXTENDS AuditLog, Sequences

CONSTANTS
    Me,             \* the consumer's connection, one of Writers
    Ids,            \* the decision ids, which receipts record
    NoId,           \* the id of a message that has none
    Batch,          \* max_messages
    MaxMessages,    \* bound: length of the topic
    MaxSessions     \* bound: how many times the loop calls the consumer

ASSUME ReceiptsAssumption ==
    /\ Me \in Writers /\ Ids \subseteq Records /\ NoId \notin Ids
    /\ {Batch, MaxMessages, MaxSessions} \subseteq Nat

VARIABLES
    topic,          \* the decision ids of the messages of the topic
    offset,         \* committed offset of the group: messages not to be read again
    session,        \* what the consumer is doing
    position,       \* messages polled so far, whose offsets are stored
    seen,           \* decision ids seen in this session
    taken,          \* messages taken in this session
    sessions,       \* history: sessions begun
    failures,       \* history: receipts whose append did not return a hash
    rewinds         \* history: sessions that ended without committing
sessionVars == <<session, position, seen, taken>>
historyVars == <<sessions, failures, rewinds>>
vars == <<logVars, topic, offset, sessionVars, historyVars>>
------------------------------------------------------------------------------
Init ==
    /\ LogInit
    /\ topic = <<>>
    /\ offset = 0
    /\ session = "closed" /\ position = 0 /\ seen = {} /\ taken = 0
    /\ sessions = 0 /\ failures = 0 /\ rewinds = 0

Publish(id) ==
    /\ Len(topic) < MaxMessages
    /\ topic' = Append(topic, id)
    /\ UNCHANGED <<logVars, offset, sessionVars, historyVars>>

\* A new consumer of the group starts at the committed offset.
Open ==
    /\ session = "closed"
    /\ sessions < MaxSessions
    /\ session' = "polling" /\ position' = offset /\ seen' = {} /\ taken' = 0
    /\ sessions' = sessions + 1
    /\ UNCHANGED <<logVars, topic, offset, failures, rewinds>>

\* Mutant: the message that fills the batch is taken and not handled.
Poll_DropsLast ==
    /\ session = "polling"
    /\ taken < Batch
    /\ position < Len(topic)
    /\ position' = position + 1
    /\ taken' = taken + 1
    /\ LET id == topic[position + 1] IN
       IF id = NoId \/ id \in seen \/ taken + 1 = Batch
       THEN UNCHANGED <<logVars, seen, session>>
       ELSE seen' = seen \cup {id} /\ session' = "appending" /\ Call(Me, id)
    /\ UNCHANGED <<topic, offset, historyVars>>

\* poll() returns a message, which is skipped or receipted.
Poll ==
    /\ session = "polling"
    /\ taken < Batch
    /\ position < Len(topic)
    /\ position' = position + 1
    /\ taken' = taken + 1
    /\ LET id == topic[position + 1] IN
       IF id = NoId \/ id \in seen
       THEN UNCHANGED <<logVars, seen, session>>
       ELSE seen' = seen \cup {id} /\ session' = "appending" /\ Call(Me, id)
    /\ UNCHANGED <<topic, offset, historyVars>>

\* Background commit of the stored offset.
AutoCommit ==
    /\ session # "closed"
    /\ offset' = position
    /\ UNCHANGED <<logVars, topic, sessionVars, historyVars>>

Receipted ==
    /\ session = "appending"
    /\ pc[Me] = "idle" /\ answer[Me] # NoHash
    /\ session' = "polling"
    /\ UNCHANGED <<logVars, topic, offset, position, seen, taken, historyVars>>

\* close() commits the stored offset, unless the broker is out of reach.
Close ==
    /\ session' = "closed"
    /\ \/ offset' = position /\ UNCHANGED rewinds
       \/ rewinds' = rewinds + 1 /\ UNCHANGED offset

\* poll() returns nothing in time, or the batch is full.
Finish ==
    /\ session = "polling"
    /\ Close
    /\ UNCHANGED <<logVars, topic, position, seen, taken, sessions, failures>>

\* append() has raised: the consumer is closed on the way out all the same.
Fail ==
    /\ session = "appending"
    /\ pc[Me] = "idle" /\ answer[Me] = NoHash
    /\ failures' = failures + 1
    /\ Close
    /\ UNCHANGED <<logVars, topic, position, seen, taken, sessions>>

\* The audit service dies: nothing is closed, an append in flight is lost.
Crash ==
    /\ session # "closed"
    /\ session' = "closed"
    /\ rewinds' = rewinds + 1
    /\ \/ /\ session = "appending" /\ failures' = failures + 1
          /\ IF pc[Me] = "idle" THEN UNCHANGED logVars ELSE Die(Me)
       \/ session = "polling" /\ UNCHANGED <<logVars, failures>>
    /\ UNCHANGED <<topic, offset, position, seen, taken, sessions>>

Beside == <<topic, offset, sessionVars, historyVars>>
Statements(w) == Step(w) /\ UNCHANGED Beside
Dies(w) == Die(w) /\ UNCHANGED Beside
Gateway(w, rec) == Call(w, rec) /\ UNCHANGED Beside

Next ==
    \/ \E id \in Ids \cup {NoId} : Publish(id)
    \/ Open \/ Poll \/ AutoCommit \/ Receipted \/ Finish \/ Fail \/ Crash
    \/ \E w \in Writers : Statements(w) \/ Dies(w)
    \/ \E w \in Writers \ {Me}, rec \in Records \ Ids : Gateway(w, rec)

Spec == Init /\ [][Next]_vars

\* A connection that is not lost executes its statements, and PostgreSQL
\* grants the lock in the order in which it was asked for.
FairSpec == Spec /\ \A w \in Writers : WF_vars(Statements(w))
------------------------------------------------------------------------------
TypeOK ==
    /\ LogTypeOK
    /\ topic \in Seq(Ids \cup {NoId})
    /\ offset \in 0..Len(topic) /\ position \in 0..Len(topic)
    /\ session \in {"closed", "polling", "appending"}
    /\ seen \subseteq Ids
    /\ taken \in 0..Batch
    /\ sessions \in 0..MaxSessions
    /\ failures \in 0..sessions /\ rewinds \in 0..sessions

Receipts(id) == {r \in rows : r.record = id}
Messages(id) == {i \in DOMAIN topic : topic[i] = id}

\* "Records an event.received audit entry per consumed decision", as far as it
\* goes: offsets are committed for messages whose receipt is not yet in the
\* log, but each append that fails and each crash loses one receipt at most,
\* and without one none is lost.
LossBounded ==
    LET inFlight == IF session = "appending" THEN {position} ELSE {}
        lost == {i \in 1..offset \ inFlight : topic[i] # NoId /\ Receipts(topic[i]) = {}}
    IN Cardinality(lost) <= failures

\* A decision is receipted again only for a message of its own, or once for
\* each session that ended without committing how far it had come.
DuplicatesBounded ==
    \A id \in Ids : Cardinality(Receipts(id)) <= Cardinality(Messages(id)) + rewinds

\* Receipts are lost and repeated only as often as something failed
\* (consume_agent_decisions() and bus.consume()).
ReceiptsPerFailure == LossBounded /\ DuplicatesBounded

\* An append whose connection lives is answered: the lock is never left behind.
EveryAppendReturns == \A w \in Writers : pc[w] = "lock" ~> pc[w] = "idle"
==============================================================================
