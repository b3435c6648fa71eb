----------------------------- MODULE Experiments -----------------------------
(***************************************************************************)
(* The growth loop: model output is gated into experiments, created        *)
(* through the gateway, measured, run to a decision, concluded, and folded *)
(* by the portfolio into capital recommendations.                          *)
(*                                                                         *)
(* The gate stands in ideation and in the workspace's cards only: what an  *)
(* operator types in the form, or an agent sends to the gateway, becomes   *)
(* an experiment with no verdict at all.                                   *)
(*                                                                         *)
(* Writing a row and publishing its event are two steps of every caller    *)
(* (persist_and_emit()): a process may die between them, the producer may  *)
(* lose the event, and the consumer may be sent an outcome again.          *)
(***************************************************************************)
EXTENDS GrowthRules

CONSTANTS
    NoIdea,            \* what stands for no idea, and for no record
    Businesses,
    Operable,          \* businesses that are active with no kill switch
    Cash,              \* Cash[b]: the balance can_spend() reads
    Capital,           \* Capital[b]: what the portfolio counts as deployed
    Blueprint,         \* Blueprint[b]: experiment_budget_minor
    Generated,         \* what the three generators may return
    Raws,              \* what a synthesizer or a single model may return
    IdeaCount,         \* ideas asked for
    Forms,             \* what may be typed or sent: [business, budget]
    Batches,           \* measurements that may come in: [control, variant]
    MaxSeen,           \* bound on the impressions of an arm
    MaxRows,           \* bound on the experiments
    Sessions,          \* operators who have ideas proposed
    Runners,           \* processes that run experiments
    MaxRewinds,        \* bound on the consumer's rewinds
    Budgets            \* portfolio budgets to try allocate() with

VARIABLES
    rows,        \* table experiments
    arms,        \* arms[e]: the live measurements of experiment e
    topic,       \* the ExperimentConcluded events on the bus
    session,     \* session[s] = [step, queue]: the proposals still to send
    runner,      \* runner[r] = [step, experiment, record, action]
    lost,        \* outcomes whose event never reached the bus
    reader,      \* [at, high, rewinds] of the portfolio's consumer
    read,        \* the outcomes it was given, in order
    repeats      \* those of them it was given again
vars == <<rows, arms, topic, session, runner, lost, reader, read, repeats>>
running == <<topic, runner, lost>>
allocating == <<reader, read, repeats>>

ToStep(s, step) == session' = [session EXCEPT ![s].step = step]
Resume(s, queue) ==
    session' = [session EXCEPT ![s] =
        [step |-> IF queue = <<>> THEN "idle" ELSE "create", queue |-> queue]]

----------------------------------------------------------------------------
(* From model output to experiments.                                       *)

\* propose(): several models or one answer.
Answers ==
    {Ideas(generated, raw, IdeaCount) : generated \in Generated, raw \in Raws}
      \cup {IdeasOfOne(raw, IdeaCount) : raw \in Raws}

\* Money is counted in whole units, and an idea that validates names a
\* business and a budget.
ASSUME ExperimentsAssumption ==
    /\ IdeaCount \in Nat /\ IsFiniteSet(Runners)
    /\ Cash \in [Businesses -> Int] /\ Blueprint \in [Businesses -> Int]
    /\ Capital \in [Businesses -> Int] /\ Budgets \subseteq Int
    /\ \A ideas \in Answers : \A i \in Range(ideas) :
          i.business \in Businesses /\ i.budget \in Int
    /\ Forms \subseteq [business : Businesses, budget : Int]
    /\ Batches \subseteq [control : [seen : Int, won : Int, spent : Int],
                          variant : [seen : Int, won : Int, spent : Int]]

\* What create_experiment() is sent carries no verdict; the idea it was made
\* of is kept beside it as a history.
Proposal(idea) == [business |-> idea.business, budget |-> idea.budget, idea |-> idea]
Typed(form) == [business |-> form.business, budget |-> form.budget, idea |-> NoIdea]

\* ideate(): the gate keeps what may proceed, and all of it is proposed.
Ideate(s) ==
    /\ session[s].step = "idle" /\ Len(rows) < MaxRows
    /\ \E ideas \in Answers :
          LET kept == Proceed(ideas) IN Resume(s, [k \in DOMAIN kept |-> Proposal(kept[k])])
    /\ UNCHANGED <<rows, arms, running, allocating>>

\* An operator proposes one card of the workspace, as often as there is time.
Click(s) ==
    /\ session[s].step = "idle" /\ Len(rows) < MaxRows
    /\ \E ideas \in Answers : \E idea \in Offered(ideas) : Resume(s, <<Proposal(idea)>>)
    /\ UNCHANGED <<rows, arms, running, allocating>>

\* An operator fills in the form, or an agent calls the tool: nothing gates it.
Fill(s) ==
    /\ session[s].step = "idle" /\ Len(rows) < MaxRows
    /\ \E form \in Forms : Resume(s, <<Typed(form)>>)
    /\ UNCHANGED <<rows, arms, running, allocating>>

\* create_experiment(): the budget is checked against cash, none is moved;
\* a denied proposal is skipped.
Check(s) ==
    LET proposal == Head(session[s].queue) IN
    /\ session[s].step = "create"
    /\ IF proposal.business \in Operable /\ proposal.budget <= Cash[proposal.business]
       THEN ToStep(s, "insert")
       ELSE Resume(s, Tail(session[s].queue))
    /\ UNCHANGED <<rows, arms, running, allocating>>

Fresh == [seen |-> 0, won |-> 0, spent |-> 0]

\* The id is new on every call, so the insert always takes.
Insert(s) ==
    LET proposal == Head(session[s].queue) IN
    /\ session[s].step = "insert" /\ Len(rows) < MaxRows
    /\ rows' = Append(rows, [business |-> proposal.business, budget |-> proposal.budget,
                             idea |-> proposal.idea,
                             status |-> "proposed", decision |-> "none"])
    /\ arms' = Append(arms, [control |-> Fresh, variant |-> Fresh])
    /\ ToStep(s, "answer")
    /\ UNCHANGED <<running, allocating>>

\* ExperimentCreated, which nobody reads, goes out; the port returns the
\* gateway's answer and the next proposal follows.
Answer(s) ==
    /\ session[s].step = "answer"
    /\ Resume(s, Tail(session[s].queue))
    /\ UNCHANGED <<rows, arms, running, allocating>>

\* The call times out or the gateway dies: the exception ends the loop, and
\* the operator may start over.
Break(s) ==
    /\ session[s].step # "idle"
    /\ Resume(s, <<>>)
    /\ UNCHANGED <<rows, arms, running, allocating>>

----------------------------------------------------------------------------
(* Running an experiment.                                                  *)

AddArm(arm, more) == [k \in DOMAIN arm |-> arm[k] + more[k]]

\* Advertising and the page's funnel move the counters on.
Measure(e) ==
    /\ rows[e].status # "concluded"
    /\ \E m \in Batches :
          /\ arms[e].control.seen + m.control.seen <= MaxSeen
          /\ arms' = [arms EXCEPT ![e] = [control |-> AddArm(@.control, m.control),
                                          variant |-> AddArm(@.variant, m.variant)]]
    /\ UNCHANGED <<rows, session, running, allocating>>

NoRecord == [business |-> NoIdea, budget |-> 0]
Resting == [step |-> "idle", experiment |-> 0, record |-> NoRecord, action |-> "none"]

\* get() or list_open(): the record the decision will be based on.
Fetch(r, e) ==
    /\ runner[r].step = "idle"
    /\ rows[e].status # "concluded"
    /\ runner' = [runner EXCEPT ![r] =
          [step |-> "run", experiment |-> e, action |-> "none",
           record |-> [business |-> rows[e].business, budget |-> rows[e].budget]]]
    /\ UNCHANGED <<rows, arms, session, topic, lost, allocating>>

\* run(): a decision to continue leaves the experiment for a later run.
Run(r) ==
    LET e == runner[r].experiment
        record == runner[r].record
        action == Decide(arms[e].control, arms[e].variant,
                         EffectiveBudget(Blueprint[record.business], record.budget))
    IN
    /\ runner[r].step = "run"
    /\ runner' = [runner EXCEPT ![r] =
          IF action = "continue" THEN Resting
          ELSE [@ EXCEPT !.step = "conclude", !.action = action]]
    /\ UNCHANGED <<rows, arms, session, topic, lost, allocating>>

\* Mutant: the update is not guarded by the status.
Concludable_Always(e) == TRUE
Concludable(e) == rows[e].status # "concluded"

\* The UPDATE and its commit: nothing changed, nothing to publish.
Conclude(r) ==
    LET e == runner[r].experiment IN
    /\ runner[r].step = "conclude"
    /\ IF Concludable(e)
       THEN /\ rows' = [rows EXCEPT ![e].status = "concluded",
                                    ![e].decision = runner[r].action]
            /\ runner' = [runner EXCEPT ![r].step = "publish"]
       ELSE /\ runner' = [runner EXCEPT ![r] = Resting]
            /\ UNCHANGED rows
    /\ UNCHANGED <<arms, session, topic, lost, allocating>>

Outcome(r) ==
    [experiment |-> runner[r].experiment, business |-> runner[r].record.business,
     action |-> runner[r].action]

Publish(r) ==
    /\ runner[r].step = "publish"
    /\ topic' = Append(topic, Outcome(r))
    /\ runner' = [runner EXCEPT ![r] = Resting]
    /\ UNCHANGED <<rows, arms, session, lost, allocating>>

\* The producer drops the event, or the process dies before publishing.
Lose(r) ==
    /\ runner[r].step = "publish"
    /\ lost' = lost \cup {Outcome(r)}
    /\ runner' = [runner EXCEPT ![r] = Resting]
    /\ UNCHANGED <<rows, arms, session, topic, allocating>>

Die(r) ==
    /\ runner[r].step \in {"run", "conclude"}
    /\ runner' = [runner EXCEPT ![r] = Resting]
    /\ UNCHANGED <<rows, arms, session, topic, lost, allocating>>

----------------------------------------------------------------------------
(* The portfolio reads the outcomes.                                       *)

Consume ==
    /\ reader.at < Len(topic)
    /\ reader' = [reader EXCEPT !.at = @ + 1, !.high = IF @ > reader.at THEN @ ELSE @ + 1]
    /\ read' = Append(read, topic[reader.at + 1])
    /\ repeats' = IF reader.at < reader.high THEN Append(repeats, topic[reader.at + 1])
                  ELSE repeats
    /\ UNCHANGED <<rows, arms, session, running>>

\* Offsets are committed behind the reader: it may resume further back.
Rewind ==
    /\ reader.rewinds < MaxRewinds
    /\ \E at \in 0..(reader.at - 1) :
          reader' = [reader EXCEPT !.at = at, !.rewinds = @ + 1]
    /\ UNCHANGED <<rows, arms, session, running, read, repeats>>

----------------------------------------------------------------------------
Init ==
    /\ rows = <<>> /\ arms = <<>> /\ topic = <<>> /\ read = <<>> /\ repeats = <<>>
    /\ lost = {}
    /\ session = [s \in Sessions |-> [step |-> "idle", queue |-> <<>>]]
    /\ runner = [r \in Runners |-> Resting]
    /\ reader = [at |-> 0, high |-> 0, rewinds |-> 0]

Next ==
    \/ \E s \in Sessions :
          \/ Ideate(s) \/ Click(s) \/ Fill(s)
          \/ Check(s) \/ Insert(s) \/ Answer(s) \/ Break(s)
    \/ \E e \in DOMAIN rows : Measure(e)
    \/ \E r \in Runners :
          \/ \E e \in DOMAIN rows : Fetch(r, e)
          \/ Run(r) \/ Conclude(r) \/ Publish(r) \/ Lose(r) \/ Die(r)
    \/ Consume \/ Rewind

Spec == Init /\ [][Next]_vars

----------------------------------------------------------------------------
(* Properties.                                                             *)

\* An experiment that ideation puts forward, in the loop or by a click on a
\* card, is of an idea that cites its sources and clears every bar, however
\* the answers were garbled, pooled and cut, and its budget is the one judged:
\* ideation_gate() over propose() (ideate.py, multiagent.py, viewmodels.py).
\* What is typed or sent by hand is exempt: create_experiment() asks for no
\* verdict.
IdeationProposesGatedIdeas ==
    \A e \in {e \in DOMAIN rows : rows[e].idea # NoIdea} :
        LET idea == rows[e].idea IN
        /\ idea.sources # {}
        /\ Overall(idea.scores) >= 35
        /\ idea.scores.novelty >= 3 /\ idea.scores.grounding >= 3
        /\ rows[e].business = idea.business /\ rows[e].budget = idea.budget

\* An experiment is concluded for good, and told at most once, as the table
\* has it: two runners may decide it differently, from different
\* measurements, and conclude() lets the first one win.
ToldOnceAsDecided ==
    /\ \A i \in DOMAIN topic :
          /\ rows[topic[i].experiment].decision = topic[i].action
          /\ \A j \in DOMAIN topic :
                topic[j].experiment = topic[i].experiment => i = j
    /\ \A o \in lost : \A i \in DOMAIN topic : topic[i].experiment # o.experiment

\* The two projections of the outcomes, KPIs from the table and performance
\* from the bus, differ by the events not published, lost, not yet read and
\* read again, and by nothing else (kpis.py, rollup.py).
ProjectionsAgree ==
    \A b \in Businesses :
        LET kpi == Kpi(rows, b)
            unread == SubSeq(topic, reader.high + 1, Len(topic))
            untold(actions) ==
                Cardinality({o \in lost : o.business = b /\ o.action \in actions})
                  + Cardinality({r \in Runners : /\ runner[r].step = "publish"
                                                 /\ runner[r].record.business = b
                                                 /\ runner[r].action \in actions})
            told(a) == Tally(read, b, a) + Tally(unread, b, a) - Tally(repeats, b, a)
        IN  /\ kpi.scaled = told("scale") + untold({"scale"})
            /\ kpi.concluded = told("scale") + told("pivot") + told("kill")
                                 + untold(Conclusive)

\* Whatever the outcomes read, the budget and the loss-makers: new capital
\* fits what the budget leaves once the sunsets are reclaimed, no loss-maker
\* gets any, and none goes to a business while a better one that earns is
\* held: allocate() on rollup() (portfolio core.py, rollup.py).
CapitalFollowsEvidence ==
    \A budget \in Budgets, losers \in SUBSET Businesses :
        LET perfs == Rollup(read, Capital)
            advice == Allocate(perfs, budget, losers)
            I(action) == {i \in DOMAIN perfs : advice[i].action = action}
            deployed == CapitalOf(perfs, DOMAIN perfs)
            delta(A) == FoldFunctionOnSet(+, 0, [i \in DOMAIN perfs |-> advice[i].delta], A)
        IN  /\ I("invest_more") # {} =>
                  deployed + delta(DOMAIN perfs) <= budget
            /\ \A i \in I("invest_more") :
                  /\ perfs[i].business \notin losers
                  /\ \A j \in I("hold") :
                        Score(perfs[j]) > Score(perfs[i]) => perfs[j].business \in losers

\* A run that lets an experiment go on found money left, in the experiment's
\* own cap and in the blueprint's: run() (runner.py) sees a record read
\* before and measurements that moved since.
SpentOutIsDecided ==
    [][\A r \in Runners :
          LET e == runner[r].experiment
              spent == arms[e].control.spent + arms[e].variant.spent
          IN  Run(r) /\ runner'[r].step = "idle" =>
                 spent < rows[e].budget /\ spent < Blueprint[rows[e].business]]_vars
==============================================================================
