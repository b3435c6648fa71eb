------------------------------ MODULE Warehouse ------------------------------
(***************************************************************************)
(* The data service (ab_data): decisions are consumed from the bus, landed *)
(* as bronze parts, and rebuilt into silver and gold tables; readers ask   *)
(* for metrics, freshness and readiness at any time (app.py, ingest.py,    *)
(* pipeline.py, freshness.py, quality.py, metrics.py, dbt_project).        *)
(*                                                                         *)
(* The loop opens a Kafka client per round.  The client commits the        *)
(* offsets of what it handed out when it likes and when it is closed,      *)
(* which is before anything is landed.                                     *)
(*                                                                         *)
(* An event is named by its offset, which stands for its event_id; a       *)
(* decision by the offset of the message that announced it first.          *)
(***************************************************************************)
EXTENDS Integers, Sequences, FiniteSetsExt

CONSTANTS
    Kinds,           \* of messages: "decision", "other" or "invalid"
    BatchSize,       \* messages a round takes at most
    Sla,             \* DEFAULT_SLA_SECONDS, in ticks
    MaxMessages, MaxFailures, MaxTicks

ASSUME WarehouseAssumption == BatchSize \in Nat /\ Sla \in Nat

VARIABLES
    topic,           \* the messages, by offset: [kind, decision]
    committed,       \* offset committed for the group
    round,           \* what the loop does next
    start, position, \* offsets the open client began at and is at
    batch,           \* offsets of the decisions taken in this round
    bronze,          \* parts in the order they landed: [events, at]
    silver,          \* rows [event, at]; empty until the first build
    byAgent, byDay,  \* sums of decision_count in the two gold tables
    covered,         \* history: parts that silver was built from
    failures,        \* history: rounds that failed or died
    now
warehouseVars == <<topic, committed, round, start, position, batch, bronze, silver,
                   byAgent, byDay, covered, failures, now>>

SetOf(seq) == {seq[k] : k \in DOMAIN seq}
UpTo(k) == SubSeq(bronze, 1, k)
Max0(S) == Max(S \cup {0})

WarehouseInit ==
    /\ topic = <<>> /\ committed = 0
    /\ round = "open" /\ start = 0 /\ position = 0 /\ batch = {}
    /\ bronze = <<>> /\ silver = {} /\ byAgent = 0 /\ byDay = 0
    /\ covered = 0 /\ failures = 0 /\ now = 0

----------------------------------------------------------------------------
(* The bus.                                                                *)

\* A write_decision that is sent again stores nothing and announces the same
\* decision under a fresh event_id.
Announced == {topic[k].decision : k \in {j \in DOMAIN topic : topic[j].kind = "decision"}}
Produce ==
    /\ Len(topic) < MaxMessages
    /\ \E kind \in Kinds, d \in {Len(topic) + 1} \cup Announced :
          /\ kind = "decision" \/ d = Len(topic) + 1
          /\ topic' = Append(topic, [kind |-> kind, decision |-> d])
    /\ UNCHANGED <<committed, round, start, position, batch, bronze, silver,
                   byAgent, byDay, covered, failures, now>>

Open ==
    /\ round = "open"
    /\ round' = "poll" /\ start' = committed /\ position' = committed
    /\ UNCHANGED <<topic, committed, batch, bronze, silver, byAgent, byDay, covered, failures, now>>

\* consume() counts every message it yields, decision or not.
MayPoll == round = "poll" /\ position < Len(topic) /\ position - start < BatchSize
Shut == start' = 0 /\ position' = 0

Poll ==
    /\ MayPoll
    /\ topic[position + 1].kind # "invalid"
    /\ position' = position + 1
    /\ batch' = batch \cup (IF topic[position + 1].kind = "decision" THEN {position + 1} ELSE {})
    /\ UNCHANGED <<topic, committed, round, start, bronze, silver, byAgent, byDay, covered, failures, now>>

\* enable.auto.commit: what was handed out counts as done.
AutoCommit ==
    /\ round = "poll" /\ committed # position
    /\ committed' = position
    /\ UNCHANGED <<topic, round, start, position, batch, bronze, silver,
                   byAgent, byDay, covered, failures, now>>

\* model_validate() raises: the round is over, and what it took is dropped.
PollInvalid ==
    /\ MayPoll /\ topic[position + 1].kind = "invalid"
    /\ failures < MaxFailures /\ failures' = failures + 1
    /\ Shut /\ committed' \in {committed, position + 1}
    /\ round' = "open" /\ batch' = {}
    /\ UNCHANGED <<topic, bronze, silver, byAgent, byDay, covered, now>>

\* Leaving the loop over the messages closes the client; nobody notices if its
\* commit does not get through.
Close ==
    /\ round = "poll"
    /\ \/ committed' = position /\ UNCHANGED failures
       \/ failures < MaxFailures /\ failures' = failures + 1 /\ UNCHANGED committed
    /\ round' = IF batch = {} THEN "open" ELSE "land"
    /\ Shut
    /\ UNCHANGED <<topic, batch, bronze, silver, byAgent, byDay, covered, now>>

----------------------------------------------------------------------------
(* Landing and building.                                                   *)

\* Mutant: a part holds the newest decision of its batch only.
Land_Newest ==
    /\ round = "land"
    /\ bronze' = Append(bronze, [events |-> {Max(batch)}, at |-> now])
    /\ round' = "silver" /\ batch' = {}
    /\ UNCHANGED <<topic, committed, start, position, silver, byAgent, byDay, covered, failures, now>>

\* write_bronze()
Land ==
    /\ round = "land"
    /\ bronze' = Append(bronze, [events |-> batch, at |-> now])
    /\ round' = "silver" /\ batch' = {}
    /\ UNCHANGED <<topic, committed, start, position, silver, byAgent, byDay, covered, failures, now>>

\* Mutant: a redelivered event is a row of its own.
SilverOf_Twice(parts) ==
    UNION {{[event |-> e, at |-> parts[k].at] : e \in parts[k].events} : k \in DOMAIN parts}
\* silver_decisions.sql: one row per event, the latest ingestion.
SilverOf(parts) ==
    LET landed(e) == {k \in DOMAIN parts : e \in parts[k].events}
    IN  {[event |-> e, at |-> parts[Max(landed(e))].at] :
            e \in UNION {parts[k].events : k \in DOMAIN parts}}

\* dbt build: silver first, then the gold tables in either order.
BuildSilver ==
    /\ round = "silver"
    /\ silver' = SilverOf(bronze) /\ covered' = Len(bronze)
    /\ round' = "gold"
    /\ UNCHANGED <<topic, committed, start, position, batch, bronze, byAgent, byDay, failures, now>>

BuildGold ==
    /\ round = "gold"
    /\ \/ byAgent # Cardinality(silver) /\ byAgent' = Cardinality(silver) /\ UNCHANGED byDay
       \/ byDay # Cardinality(silver) /\ byDay' = Cardinality(silver) /\ UNCHANGED byAgent
    /\ UNCHANGED <<topic, committed, round, start, position, batch, bronze, silver, covered, failures, now>>

Built ==
    /\ round = "gold" /\ byAgent = Cardinality(silver) /\ byDay = Cardinality(silver)
    /\ round' = "open"
    /\ UNCHANGED <<topic, committed, start, position, batch, bronze, silver, byAgent, byDay,
                   covered, failures, now>>

\* A statement raises, or the process dies, at any point: what is written
\* stays, the rest of the round is skipped and not made up for.
Fail ==
    /\ round # "open" /\ failures < MaxFailures
    /\ failures' = failures + 1 /\ round' = "open" /\ batch' = {}
    /\ committed' \in IF round = "poll" THEN {committed, position} ELSE {committed}
    /\ Shut
    /\ UNCHANGED <<topic, bronze, silver, byAgent, byDay, covered, now>>

Tick ==
    /\ now < MaxTicks /\ now' = now + 1
    /\ UNCHANGED <<topic, committed, round, start, position, batch, bronze, silver,
                   byAgent, byDay, covered, failures>>

WarehouseNext ==
    \/ Produce \/ Open \/ Poll \/ AutoCommit \/ PollInvalid \/ Close \/ Land
    \/ BuildSilver \/ BuildGold \/ Built \/ Fail \/ Tick

WarehouseSpec == WarehouseInit /\ [][WarehouseNext]_warehouseVars

----------------------------------------------------------------------------
(* Reading, under the lock that a build holds.                             *)

Readable == round \notin {"silver", "gold"}

\* Mutant: freshness is read from what has landed.
LatestIngested_Bronze == Max0({bronze[k].at : k \in DOMAIN bronze})
\* read_freshness()
LatestIngested == Max0({r.at : r \in silver})
\* readiness()
Ready == silver # {} /\ now - LatestIngested <= Sla

\* run_checks() of quality.py
Reconciles == byAgent = Cardinality(silver) /\ byDay = Cardinality(silver)

----------------------------------------------------------------------------
(* Properties.                                                             *)

\* The total counts announcements, and nothing else: it has one row of every
\* event that has landed in the parts silver was built from, whatever was
\* delivered again or built again (silver_decisions.sql), so it exceeds the
\* number of decisions by exactly the rows whose decision was announced once
\* more after them.  While no build fails, whoever reads the metrics finds the
\* gold tables adding up to that total, whenever the read comes (_lock in
\* app.py, quality.py).
Counted == {r.event : r \in silver}
CountedDecisions == {topic[e].decision : e \in Counted}
AnnouncedAgain == {e \in Counted : \E f \in Counted :
                      f > e /\ topic[f].decision = topic[e].decision}
CountedPerAnnouncement ==
    /\ Counted = UNION {p.events : p \in SetOf(UpTo(covered))}
    /\ \A e \in Counted : topic[e].kind = "decision"
    /\ Cardinality(silver) = Cardinality(CountedDecisions) + Cardinality(AnnouncedAgain)
    /\ Readable /\ failures = 0 => Reconciles

\* A decision whose offset is committed is in bronze, or in the hands of the
\* running round, or was dropped by a round that failed: each failure costs
\* at most the one batch it had taken (consume_to_bronze(), bus.consume()).
LossPerFailure ==
    LET landed == UNION {p.events : p \in SetOf(bronze)}
    IN  Cardinality({k \in 1..committed : topic[k].kind = "decision"} \ (landed \cup batch))
            <= BatchSize * failures

\* When /ready says yes, every decision that has landed and is missing from
\* the metrics landed within the freshness SLA, although a failed build is not
\* repeated before the next decision arrives (app.py, freshness.py).
ReadyMissesOnlyRecent ==
    Readable /\ Ready =>
        \A k \in (covered + 1)..Len(bronze) : now - bronze[k].at <= Sla
------------------------------------------------------------------------------
\* What the documents claim and the code does not do (see README.md).

\* metrics.py: decisions_recorded_total is the "Total material decisions
\* recorded by agents", as many as there are decisions.
TotalCountsDecisions == Cardinality(silver) = Cardinality(CountedDecisions)
==============================================================================
