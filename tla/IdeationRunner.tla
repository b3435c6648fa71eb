---------------------------- MODULE IdeationRunner ----------------------------
(***************************************************************************)
(* The console's in-process ideation runner                                *)
(* (src/ab_growth/ideation_runner.py) with the multi-agent model it drives *)
(* (multiagent.py), wired as the live console wires it: an event sink, a   *)
(* kill-switch check and a timeout for the whole run.                      *)
(*                                                                         *)
(* Each run is a task of the event loop, suspended only where it awaits an *)
(* executor, and a pipeline in a worker thread, which goes on when its     *)
(* task has given up on it.  What a thread tells the loop is run there in  *)
(* the order in which it was told (call_soon_threadsafe()), and nothing    *)
(* else of that run looks at it before: here it happens when it is told.   *)
(***************************************************************************)
EXTENDS Naturals, Sequences, FiniteSets

CONSTANTS
    Businesses,
    Starts,         \* bound: how many runs are ever started
    MaxRuns,        \* size at which the registry evicts
    Threads,        \* size of the loop's default executor
    Generators,     \* how many generator agents a pipeline runs
    Streams,        \* requests for a run's progress stream
    NoRun, Ended, NoBusiness

ASSUME BoundsAssumption ==
    /\ {Starts, MaxRuns, Threads, Generators} \subseteq Nat
    /\ NoRun \notin 1..Starts /\ Ended \notin 1..Starts

VARIABLES
    seq,            \* self._seq: how many runs were started
    registry,       \* the keys of self._runs, in the order of their numbers
    active,         \* self._active
    business,       \* state.business_id of each run
    status,         \* state.status
    result,         \* state.result: none, partial or full
    partial,        \* state.partial_candidates is not empty
    task,           \* where the coroutine _run is suspended
    worker,         \* what the pipeline does next
    told,           \* how many generators have finished
    frames,         \* every frame ever put on the run's queue
    drained,        \* runs whose end-of-stream frame has been consumed
    reading,        \* the run a stream reads from, or Ended
    halted,         \* the global kill switch is on
    bornHalted,     \* history: runs started after the kill switch
    lateCalls       \* history: model calls a run began after the kill switch
runVars == <<seq, registry, active, business>>
stateVars == <<status, result, partial>>
threadVars == <<worker, told>>
streamVars == <<frames, drained, reading>>
haltVars == <<halted, bornHalted, lateCalls>>
vars == <<runVars, stateVars, task, threadVars, streamVars, haltVars>>
------------------------------------------------------------------------------
Run == 1..Starts
Working == {"generators", "pool", "critic check", "critic", "synthesis check",
            "synthesis", "synthesised"}
Terminal == {"complete", "failed"}

Put(r, frame) == frames' = [frames EXCEPT ![r] = Append(@, frame)]
Goto(r, s) == task' = [task EXCEPT ![r] = s]
Does(r, s) == worker' = [worker EXCEPT ![r] = s]

\* The pipelines and the event sink share the loop's default executor.
ThreadIsFree == Cardinality({r \in Run : worker[r] \in Working}) < Threads

Init ==
    /\ seq = 0
    /\ registry = {}
    /\ active = [b \in Businesses |-> NoRun]
    /\ business = [r \in Run |-> NoBusiness]
    /\ status = [r \in Run |-> "unborn"]
    /\ result = [r \in Run |-> "none"]
    /\ partial = [r \in Run |-> FALSE]
    /\ task = [r \in Run |-> "none"]
    /\ worker = [r \in Run |-> "none"]
    /\ told = [r \in Run |-> 0]
    /\ frames = [r \in Run |-> <<>>]
    /\ drained = {}
    /\ reading = [c \in Streams |-> NoRun]
    /\ halted = FALSE
    /\ bornHalted = {}
    /\ lateCalls = [r \in Run |-> 0]

\* Mutant: a run counts as in flight once it has its pipeline.
HasRunInFlight_Pipeline(b) == active[b] # NoRun /\ task[active[b]] = "pipeline"

\* A business whose active run is still running gets that run again.
HasRunInFlight(b) == active[b] # NoRun /\ status[active[b]] = "running"

\* _evict_oldest(): the oldest runs that are not their business's active one,
\* as many as are over the maximum.
Evicted(all, act, biz) ==
    LET idle == {q \in all : act[biz[q]] # q} IN
    {q \in idle : Cardinality({p \in idle : p <= q}) + MaxRuns <= Cardinality(all)}

Start(b) ==
    LET r == seq + 1  all == registry \cup {r} IN
    /\ seq < Starts
    /\ ~ HasRunInFlight(b)
    /\ seq' = r
    /\ business' = [business EXCEPT ![r] = b]
    /\ active' = [active EXCEPT ![b] = r]
    /\ registry' = all \ Evicted(all, active', business')
    /\ status' = [status EXCEPT ![r] = "running"]
    /\ bornHalted' = IF halted THEN bornHalted \cup {r} ELSE bornHalted
    /\ Goto(r, "created")
    /\ UNCHANGED <<result, partial, threadVars, streamVars, halted, lateCalls>>

Begin(r) ==
    /\ task[r] = "created"
    /\ Goto(r, "announcing")
    /\ Put(r, "started")
    /\ UNCHANGED <<runVars, stateVars, threadVars, drained, reading, haltVars>>

\* _fail() up to its publication.
Fail(r, kept) ==
    /\ status' = [status EXCEPT ![r] = "failed"]
    /\ result' = [result EXCEPT ![r] = IF kept THEN "partial" ELSE @]
    /\ Put(r, "failed")
    /\ Goto(r, "closing")

\* The finally block of _run.
LeaveActive(r) ==
    active' = [active EXCEPT ![business[r]] = IF @ = r THEN NoRun ELSE @]

Finally(r) ==
    /\ LeaveActive(r)
    /\ Put(r, "end")
    /\ Goto(r, "done")

\* The sink has returned from IdeationRunStarted, whatever became of it; then
\* the kill switch is read before anything is spent.  A check that raises
\* leaves through the finally block.
Precheck(r) ==
    /\ task[r] = "announcing"
    /\ ThreadIsFree
    /\ \/ /\ halted
          /\ Fail(r, FALSE)
          /\ UNCHANGED <<active, worker>>
       \/ /\ Finally(r)
          /\ UNCHANGED <<status, result, worker>>
       \/ /\ ~ halted
          /\ Goto(r, "pipeline")
          /\ Does(r, "queued")
          /\ UNCHANGED <<active, status, result, frames>>
    /\ UNCHANGED <<seq, registry, business, partial, told, drained, reading, haltVars>>

\* Mutant: only a pipeline that has no thread yet can time out.
Timeout_IfNotStarted(r) ==
    /\ task[r] = "pipeline"
    /\ worker[r] = "queued"
    /\ Fail(r, partial[r])
    /\ Does(r, "over")
    /\ UNCHANGED <<runVars, partial, told, drained, reading, haltVars>>

\* wait_for() gives up: a pipeline that has no thread yet is cancelled, one
\* that runs is not.
Timeout(r) ==
    /\ task[r] = "pipeline"
    /\ Fail(r, partial[r])
    /\ worker' = [worker EXCEPT ![r] = IF @ = "queued" THEN "over" ELSE @]
    /\ UNCHANGED <<runVars, partial, told, drained, reading, haltVars>>

\* The sink has returned from the terminal event; then the finally block.
Close(r) ==
    /\ task[r] = "closing"
    /\ ThreadIsFree
    /\ Finally(r)
    /\ UNCHANGED <<seq, registry, business, stateVars, threadVars, drained, reading,
                   haltVars>>
------------------------------------------------------------------------------
\* The pipeline, in its thread.  A call counts against the kill switch when it
\* begins; the generators run side by side and count as one.
Call(r) == lateCalls' = [lateCalls EXCEPT ![r] = IF halted THEN @ + 1 ELSE @]

\* Mutant: what a pipeline returns is taken though its run has timed out.
Awaited_Anyway(r) == task[r] # "done"

Awaited(r) == task[r] = "pipeline"

\* What _run_pipeline does with what the pipeline returned or raised.
Returns(r) ==
    /\ Does(r, "over")
    /\ \/ /\ Awaited(r)
          /\ status' = [status EXCEPT ![r] = "complete"]
          /\ result' = [result EXCEPT ![r] = "full"]
          /\ Put(r, "complete")
          /\ Goto(r, "closing")
       \/ ~ Awaited(r) /\ UNCHANGED <<status, result, frames, task>>
Raises(r, kept) ==
    /\ Does(r, "over")
    /\ \/ Awaited(r) /\ Fail(r, kept)
       \/ ~ Awaited(r) /\ UNCHANGED <<status, result, frames, task>>
Continues(r, next) ==
    Does(r, next) /\ UNCHANGED <<status, result, frames, task>>
Progresses(r, next) ==
    Does(r, next) /\ Put(r, "progressed") /\ UNCHANGED <<status, result, task>>

\* Grounding may raise before the first call.
StartPipeline(r) ==
    /\ worker[r] = "queued"
    /\ ThreadIsFree
    /\ \/ Continues(r, "generators") /\ Call(r)
       \/ Raises(r, FALSE) /\ UNCHANGED lateCalls
    /\ UNCHANGED <<runVars, partial, told, drained, reading, halted, bornHalted>>

\* A generator that fails abstains; it never raises.
FinishGenerator(r) ==
    /\ worker[r] = "generators"
    /\ told' = [told EXCEPT ![r] = @ + 1]
    /\ Progresses(r, IF told[r] + 1 < Generators THEN "generators" ELSE "pool")
    /\ UNCHANGED <<runVars, partial, drained, reading, haltVars>>

\* Without a candidate there is nothing to criticise and no further call.
GatherPool(r) ==
    /\ worker[r] = "pool"
    /\ \/ Continues(r, "critic check") /\ partial' = [partial EXCEPT ![r] = TRUE]
       \/ Returns(r) /\ UNCHANGED partial
    /\ UNCHANGED <<runVars, told, drained, reading, haltVars>>

\* Mutant: the kill switch is not read before the synthesis.
CheckAbort_CriticOnly(r, check, call) ==
    /\ worker[r] = check
    /\ \/ halted /\ check = "critic check" /\ Raises(r, partial[r])
       \/ ~ (halted /\ check = "critic check") /\ Continues(r, call)
    /\ UNCHANGED <<runVars, partial, told, drained, reading, haltVars>>

\* _check_abort(), which may also raise by itself.
CheckAbort(r, check, call) ==
    /\ worker[r] = check
    /\ \/ halted /\ Raises(r, partial[r])
       \/ ~ halted /\ Continues(r, call)
       \/ Raises(r, FALSE)
    /\ UNCHANGED <<runVars, partial, told, drained, reading, haltVars>>

Criticise(r) ==
    /\ worker[r] = "critic"
    /\ Call(r)
    /\ Progresses(r, "synthesis check") \/ Raises(r, FALSE)
    /\ UNCHANGED <<runVars, partial, told, drained, reading, halted, bornHalted>>

\* The call of the synthesizer, then its progress and the end.
Synthesise(r) ==
    /\ worker[r] = "synthesis"
    /\ Call(r)
    /\ Progresses(r, "synthesised") \/ Raises(r, FALSE)
    /\ UNCHANGED <<runVars, partial, told, drained, reading, halted, bornHalted>>

FinishPipeline(r) ==
    /\ worker[r] = "synthesised"
    /\ Returns(r)
    /\ UNCHANGED <<runVars, partial, told, drained, reading, haltVars>>
------------------------------------------------------------------------------
\* stream(): an unknown run ends at once, which changes nothing.
Watch(c) ==
    /\ reading[c] = NoRun
    /\ \E r \in registry : reading' = [reading EXCEPT ![c] = r]
    /\ UNCHANGED <<runVars, stateVars, task, threadVars, frames, drained, haltVars>>

\* The frames before the end only pass through; the end goes to one stream.
ReadEnd(c) ==
    /\ \E r \in Run \ drained :
          /\ reading[c] = r
          /\ \E i \in DOMAIN frames[r] : frames[r][i] = "end"
          /\ drained' = drained \cup {r}
    /\ reading' = [reading EXCEPT ![c] = Ended]
    /\ UNCHANGED <<runVars, stateVars, task, threadVars, frames, haltVars>>

\* The global kill switch is never lifted (module KillSwitch).
Kill ==
    /\ ~ halted
    /\ halted' = TRUE
    /\ UNCHANGED <<runVars, stateVars, task, threadVars, streamVars, bornHalted,
                   lateCalls>>

Loop(r) == Begin(r) \/ Precheck(r) \/ Timeout(r) \/ Close(r)
Pipeline(r) ==
    \/ StartPipeline(r) \/ FinishGenerator(r) \/ GatherPool(r)
    \/ CheckAbort(r, "critic check", "critic") \/ Criticise(r)
    \/ CheckAbort(r, "synthesis check", "synthesis") \/ Synthesise(r)
    \/ FinishPipeline(r)

Next ==
    \/ \E b \in Businesses : Start(b)
    \/ \E r \in Run : Loop(r) \/ Pipeline(r)
    \/ \E c \in Streams : Watch(c) \/ ReadEnd(c)
    \/ Kill

Spec == Init /\ [][Next]_vars

\* The event loop goes on; a model call may never return.
FairSpec ==
    /\ Spec
    /\ \A r \in Run :
          WF_vars(Begin(r)) /\ WF_vars(Precheck(r)) /\ WF_vars(Timeout(r)) /\ WF_vars(Close(r))
    /\ \A c \in Streams : WF_vars(ReadEnd(c))
------------------------------------------------------------------------------
Tasks == {"none", "created", "announcing", "pipeline", "closing", "done"}
Frame == {"started", "progressed", "end"} \cup Terminal

TypeOK ==
    /\ seq \in 0..Starts
    /\ registry \subseteq 1..seq
    /\ active \in [Businesses -> 1..seq \cup {NoRun}]
    /\ business \in [Run -> Businesses \cup {NoBusiness}]
    /\ status \in [Run -> {"unborn", "running"} \cup Terminal]
    /\ result \in [Run -> {"none", "partial", "full"}]
    /\ partial \in [Run -> BOOLEAN]
    /\ task \in [Run -> Tasks]
    /\ worker \in [Run -> Working \cup {"none", "queued", "over"}]
    /\ told \in [Run -> Nat]
    /\ frames \in [Run -> Seq(Frame)]
    /\ drained \subseteq Run
    /\ reading \in [Streams -> Run \cup {NoRun, Ended}]
    /\ halted \in BOOLEAN
    /\ bornHalted \subseteq Run
    /\ lateCalls \in [Run -> Nat]

\* "One active run per business": two runs of a business are never both
\* running, although a run that has ended gives up the business's place only
\* after its last publication, when the place may be another run's; and what
\* start() and _run look up is there, whatever the full registry has evicted.
Unfinished(r) == status[r] = "running" /\ task[r] # "done"
OneRunPerBusiness ==
    /\ \A r, q \in Run :
          Unfinished(r) /\ Unfinished(q) /\ business[r] = business[q] => r = q
    /\ \A b \in Businesses : active[b] # NoRun => active[b] \in registry
    /\ \A r \in Run : task[r] = "created" => r \in registry

\* A run has one outcome: status and terminal frame (which the terminal event
\* repeats) agree and never change sides, a full result belongs to a complete
\* run, "complete" is followed by nothing but the end of the stream, and a run
\* that ends without an outcome (its kill-switch check raised) never reached
\* its pipeline.  However it ended, the end of its stream is in the queue, once,
\* unless its only stream has taken it.
Has(r, f) == \E i \in DOMAIN frames[r] : frames[r][i] = f
OneOutcome ==
    \A r \in Run :
        /\ \A f \in Terminal : Has(r, f) <=> status[r] = f
        /\ \A i, j \in DOMAIN frames[r] :
              /\ frames[r][i] = "complete" /\ j > i => frames[r][j] = "end"
              /\ frames[r][i] = frames[r][j] /\ frames[r][i] # "progressed" => i = j
        /\ result[r] = "full" <=> status[r] = "complete"
        /\ task[r] = "done" /\ status[r] = "running" => worker[r] = "none"
        /\ task[r] = "done" => Has(r, "end")

\* "A run never spends when the business is halted" and a kill switch that
\* trips in mid-run aborts before the next model call but the one about to be
\* made: a run started after the kill switch makes no call at all.
HaltBoundsSpending ==
    \A r \in Run : lateCalls[r] <= IF r \in bornHalted THEN 0 ELSE 1

\* "... and never hangs (a whole-run timeout bounds it)": every run comes to
\* its end even if no model call ever returns, unless calls that do not
\* return hold every thread of the executor, which publishes the events too.
EveryRunEnds ==
    []<>ThreadIsFree => \A r \in Run : task[r] = "created" ~> task[r] = "done"
------------------------------------------------------------------------------
\* What the documents claim and the code does not do (see README.md).

\* ideation_runner.py: "The stream always terminates."; app.py: "Unknown or
\* finished runs yield an empty stream that terminates cleanly."
EveryStreamEnds ==
    \A c \in Streams : reading[c] \in Run ~> reading[c] = Ended
==============================================================================
