------------------------ MODULE IdeationRunner_proofs ------------------------
(***************************************************************************)
(* Proofs about the ideation runner, for any number of businesses, runs,   *)
(* threads and streams.  Everything a run does concerns that run, except   *)
(* for its place as its business's active one: so the invariant has a part *)
(* about each run by itself and one about the registry.                    *)
(***************************************************************************)
EXTENDS IdeationRunner, TLAPS

\* What the coroutine's position says about status and worker.
Phases(r) ==
    /\ task[r] = "none" <=> r > seq
    /\ task[r] = "none" <=> status[r] = "unborn"
    /\ task[r] \in {"created", "announcing", "pipeline"} => status[r] = "running"
    /\ task[r] = "closing" => status[r] \in Terminal
    /\ task[r] \in {"none", "created", "announcing"} => worker[r] = "none"
    /\ task[r] = "pipeline" => worker[r] \notin {"none", "over"}
    /\ task[r] = "done" /\ status[r] = "running" => worker[r] = "none"
    /\ status[r] = "complete" => worker[r] = "over"
    /\ result[r] = "full" <=> status[r] = "complete"

\* Which frames are in the queue, and in what order.
FramesTellPhase(r) ==
    /\ Has(r, "started") => task[r] \notin {"none", "created"}
    /\ \A f \in Terminal : Has(r, f) <=> status[r] = f
    /\ Has(r, "end") <=> task[r] = "done"
    /\ \A i, j \in DOMAIN frames[r] :
          /\ frames[r][i] = "complete" /\ j > i => frames[r][j] = "end"
          /\ frames[r][i] = frames[r][j] /\ frames[r][i] # "progressed" => i = j

\* A pipeline that has begun a call after the kill switch is past it, or at a
\* place from which it cannot reach another one.
CallsAreLate(r) ==
    /\ lateCalls[r] # 0 =>
          /\ halted /\ lateCalls[r] = 1
          /\ worker[r] \notin {"none", "queued", "critic", "synthesis"}
    /\ r \in bornHalted => halted /\ worker[r] = "none"

\* A running run holds its business's place, whoever holds a place is a run of
\* that business and still known.
PlacesAreHeld ==
    /\ \A r \in Run : Unfinished(r) => active[business[r]] = r
    /\ \A r \in Run : task[r] # "none" => business[r] \in Businesses
    /\ \A b \in Businesses : active[b] # NoRun =>
          business[active[b]] = b /\ active[b] \in registry

ByItself(r) == Phases(r) /\ FramesTellPhase(r) /\ CallsAreLate(r)

IInv == TypeOK /\ PlacesAreHeld /\ \A r \in Run : ByItself(r)

------------------------------------------------------------------------------
LEMMA Initially == Init => IInv
<1> SUFFICES ASSUME Init PROVE IInv
  OBVIOUS
<1>1. TypeOK
  <2>1. seq = 0 /\ seq \in 0..Starts
    BY BoundsAssumption DEF Init
  <2>2. frames \in [Run -> Seq(Frame)]
    BY DEF Init
  <2> QED
    BY <2>1, <2>2 DEF Init, TypeOK, Working, Terminal, Tasks
<1>2. PlacesAreHeld
  BY DEF Init, PlacesAreHeld, Unfinished
<1>3. \A r \in Run : ByItself(r)
  BY BoundsAssumption
     DEF Init, ByItself, Phases, FramesTellPhase, CallsAreLate, Has, Terminal, Run
<1> QED
  BY <1>1, <1>2, <1>3 DEF IInv

\* What putting a frame on a run's queue does to the queue.
LEMMA Puts ==
  ASSUME NEW r \in Run, NEW f \in Frame, frames \in [Run -> Seq(Frame)], Put(r, f)
  PROVE  /\ frames' \in [Run -> Seq(Frame)]
         /\ \A q \in Run \ {r} : frames'[q] = frames[q]
         /\ \A g : Has(r, g)' <=> Has(r, g) \/ g = f
         /\ \E n \in Nat :
               /\ DOMAIN frames[r] = 1..n /\ DOMAIN frames'[r] = 1..(n + 1)
               /\ frames'[r][n + 1] = f
               /\ \A i \in 1..n : frames'[r][i] = frames[r][i]
<1>1. frames[r] \in Seq(Frame) /\ frames'[r] = Append(frames[r], f)
  BY DEF Put
<1>2. frames' \in [Run -> Seq(Frame)] /\ \A q \in Run \ {r} : frames'[q] = frames[q]
  BY <1>1 DEF Put
<1> DEFINE n == Len(frames[r])
<1>3. /\ n \in Nat /\ DOMAIN frames[r] = 1..n /\ DOMAIN frames'[r] = 1..(n + 1)
      /\ frames'[r][n + 1] = f
      /\ \A i \in 1..n : frames'[r][i] = frames[r][i]
  BY <1>1
<1> HIDE DEF n
<1>4. \A g : Has(r, g)' <=> Has(r, g) \/ g = f
  BY <1>3 DEF Has
<1> QED
  BY <1>2, <1>3, <1>4

\* A run whose own state stays as it is keeps its part of the invariant.
LEMMA LeftAlone ==
  ASSUME NEW r \in Run, ByItself(r), halted' = halted, bornHalted' = bornHalted,
         task'[r] = task[r], status'[r] = status[r], result'[r] = result[r],
         worker'[r] = worker[r], frames'[r] = frames[r], lateCalls'[r] = lateCalls[r],
         r > seq' <=> r > seq
  PROVE  ByItself(r)'
<1>1. Phases(r)'
  BY DEF ByItself, Phases
<1>2. FramesTellPhase(r)'
  BY DEF ByItself, FramesTellPhase, Has
<1>3. CallsAreLate(r)'
  BY DEF ByItself, CallsAreLate
<1> QED
  BY <1>1, <1>2, <1>3 DEF ByItself

\* A new frame keeps the order of frames: a terminal frame or the end comes
\* once, and only the end comes after a full result.
LEMMA OrderIsKept ==
  ASSUME NEW r \in Run, NEW f \in Frame, TypeOK, FramesTellPhase(r), Put(r, f),
         f # "progressed" => ~ Has(r, f),
         f # "end" => status[r] # "complete"
  PROVE  \A i, j \in DOMAIN frames'[r] :
            /\ frames'[r][i] = "complete" /\ j > i => frames'[r][j] = "end"
            /\ frames'[r][i] = frames'[r][j] /\ frames'[r][i] # "progressed" => i = j
<1>1. PICK n \in Nat :
         /\ DOMAIN frames[r] = 1..n /\ DOMAIN frames'[r] = 1..(n + 1)
         /\ frames'[r][n + 1] = f
         /\ \A i \in 1..n : frames'[r][i] = frames[r][i]
  BY Puts DEF TypeOK
<1>2. ASSUME f # "end" PROVE \A i \in 1..n : frames[r][i] # "complete"
  <2>1. Has(r, "complete") <=> status[r] = "complete"
    BY DEF FramesTellPhase, Terminal
  <2> QED
    BY <1>1, <1>2, <2>1 DEF Has
<1>3. ASSUME f # "progressed" PROVE \A i \in 1..n : frames[r][i] # f
  BY <1>1, <1>3 DEF Has
<1>4. \A i, j \in 1..n :
         /\ frames[r][i] = "complete" /\ j > i => frames[r][j] = "end"
         /\ frames[r][i] = frames[r][j] /\ frames[r][i] # "progressed" => i = j
  BY <1>1 DEF FramesTellPhase
<1> QED
  BY <1>1, <1>2, <1>3, <1>4

\* What a failure leaves of a run that was waited for: one outcome, published.
LEMMA Fails ==
  ASSUME IInv, NEW r \in Run, NEW kept \in BOOLEAN,
         task[r] \in {"announcing", "pipeline"}, Fail(r, kept), seq' = seq
  PROVE  Phases(r)' /\ FramesTellPhase(r)'
<1>1. /\ status'[r] = "failed" /\ task'[r] = "closing"
      /\ result'[r] # "full" /\ status[r] = "running"
  BY DEF IInv, TypeOK, ByItself, Phases, Fail, Goto
<1>2. Phases(r)'
  BY <1>1 DEF IInv, ByItself, Phases, Terminal
<1>3. /\ ~ Has(r, "failed") /\ ~ Has(r, "complete") /\ ~ Has(r, "end")
      /\ FramesTellPhase(r)
  BY <1>1 DEF IInv, ByItself, FramesTellPhase, Terminal
<1>4. \A g : Has(r, g)' <=> Has(r, g) \/ g = "failed"
  BY Puts DEF IInv, TypeOK, Frame, Terminal, Fail
<1>5. \A f \in Terminal : Has(r, f)' <=> status'[r] = f
  BY <1>1, <1>3, <1>4 DEF Terminal
<1>6. \A i, j \in DOMAIN frames'[r] :
         /\ frames'[r][i] = "complete" /\ j > i => frames'[r][j] = "end"
         /\ frames'[r][i] = frames'[r][j] /\ frames'[r][i] # "progressed" => i = j
  BY <1>1, <1>3, OrderIsKept DEF IInv, Fail, Frame, Terminal
<1> QED
  BY <1>1, <1>2, <1>3, <1>4, <1>5, <1>6 DEF FramesTellPhase

\* What a result leaves of a run that was waited for.
LEMMA Completes ==
  ASSUME IInv, NEW r \in Run, worker[r] \notin {"none", "over"}, Returns(r), seq' = seq
  PROVE  Phases(r)' /\ FramesTellPhase(r)'
<1>1. worker'[r] = "over"
  BY DEF IInv, TypeOK, Returns, Does
<1>2. CASE Awaited(r)
  <2>1. /\ status'[r] = "complete" /\ task'[r] = "closing" /\ result'[r] = "full"
        /\ status[r] = "running" /\ Put(r, "complete")
    BY <1>2 DEF IInv, TypeOK, ByItself, Phases, Awaited, Returns, Goto
  <2>2. Phases(r)'
    BY <1>1, <1>2, <2>1 DEF IInv, ByItself, Phases, Terminal, Awaited
  <2>3. /\ ~ Has(r, "failed") /\ ~ Has(r, "complete") /\ ~ Has(r, "end")
        /\ FramesTellPhase(r)
    BY <1>2, <2>1 DEF IInv, ByItself, FramesTellPhase, Terminal, Awaited
  <2>4. \A g : Has(r, g)' <=> Has(r, g) \/ g = "complete"
    BY <2>1, Puts DEF IInv, TypeOK, Frame, Terminal
  <2>5. \A f \in Terminal : Has(r, f)' <=> status'[r] = f
    BY <2>1, <2>3, <2>4 DEF Terminal
  <2>6. \A i, j \in DOMAIN frames'[r] :
           /\ frames'[r][i] = "complete" /\ j > i => frames'[r][j] = "end"
           /\ frames'[r][i] = frames'[r][j] /\ frames'[r][i] # "progressed" => i = j
    BY <2>1, <2>3, OrderIsKept DEF IInv, Frame, Terminal
  <2> QED
    BY <2>1, <2>2, <2>3, <2>4, <2>5, <2>6 DEF FramesTellPhase
<1>3. CASE ~ Awaited(r)
  <2>1. UNCHANGED <<status, result, frames, task>>
    BY <1>3 DEF Returns
  <2>2. Phases(r)'
    BY <1>1, <1>3, <2>1 DEF IInv, ByItself, Phases, Awaited
  <2>3. FramesTellPhase(r)'
    BY <2>1 DEF IInv, ByItself, FramesTellPhase, Has
  <2> QED
    BY <2>2, <2>3
<1> QED
  BY <1>2, <1>3

\* A failure inside the pipeline: taken if waited for, else of no consequence.
LEMMA PipelineRaises ==
  ASSUME IInv, NEW r \in Run, worker[r] \notin {"none", "over"},
         NEW kept \in BOOLEAN, Raises(r, kept), seq' = seq
  PROVE  Phases(r)' /\ FramesTellPhase(r)'
<1>1. CASE Awaited(r)
  BY <1>1, Fails DEF Raises, Awaited
<1>2. CASE ~ Awaited(r)
  <2>1. UNCHANGED <<status, result, frames, task>> /\ worker'[r] = "over"
    BY <1>2 DEF Raises, IInv, TypeOK, Does
  <2>2. Phases(r)'
    BY <1>2, <2>1 DEF IInv, ByItself, Phases, Awaited
  <2>3. FramesTellPhase(r)'
    BY <2>1 DEF IInv, ByItself, FramesTellPhase, Has
  <2> QED
    BY <2>2, <2>3
<1> QED
  BY <1>1, <1>2

\* A pipeline that goes on, with or without a word about its progress.
LEMMA PipelineGoesOn ==
  ASSUME IInv, NEW r \in Run, worker[r] \notin {"none", "over"}, NEW next \in Working,
         Continues(r, next) \/ Progresses(r, next), seq' = seq
  PROVE  Phases(r)' /\ FramesTellPhase(r)'
<1>1. worker'[r] = next /\ UNCHANGED <<status, result, task>> /\ status[r] # "complete"
  BY DEF IInv, TypeOK, ByItself, Phases, Continues, Progresses, Does
<1>2. Phases(r)'
  BY <1>1 DEF IInv, ByItself, Phases, Working
<1>3. CASE Continues(r, next)
  <2>1. frames' = frames /\ FramesTellPhase(r)
    BY <1>3 DEF Continues, IInv, ByItself
  <2> QED
    BY <1>1, <1>2, <2>1 DEF FramesTellPhase, Has
<1>4. CASE Progresses(r, next)
  <2>1. FramesTellPhase(r) /\ TypeOK /\ Put(r, "progressed")
    BY <1>4 DEF Progresses, IInv, ByItself
  <2>2. \A g : Has(r, g)' <=> Has(r, g) \/ g = "progressed"
    BY <2>1, Puts DEF TypeOK, Frame
  <2>3. \A i, j \in DOMAIN frames'[r] :
           /\ frames'[r][i] = "complete" /\ j > i => frames'[r][j] = "end"
           /\ frames'[r][i] = frames'[r][j] /\ frames'[r][i] # "progressed" => i = j
    BY <1>1, <2>1, OrderIsKept DEF Frame
  <2>4. \A f \in Terminal : Has(r, f)' <=> Has(r, f)
    BY <2>2 DEF Terminal
  <2>5. /\ Has(r, "started")' <=> Has(r, "started")
        /\ Has(r, "end")' <=> Has(r, "end")
    BY <2>2
  <2>6. FramesTellPhase(r)'
    BY <1>1, <2>1, <2>3, <2>4, <2>5 DEF FramesTellPhase
  <2> QED
    BY <1>2, <2>6
<1> QED
  BY <1>2, <1>3, <1>4

------------------------------------------------------------------------------
\* Nobody's place changes while nobody starts, revives or leaves.
LEMMA PlacesStay ==
  ASSUME PlacesAreHeld, UNCHANGED runVars,
         \A q \in Run : /\ Unfinished(q)' => Unfinished(q)
                        /\ task'[q] # "none" => task[q] # "none"
  PROVE  PlacesAreHeld'
BY DEF PlacesAreHeld, runVars

\* A run that leaves gives up its own place at most.
LEMMA PlaceGivenUp ==
  ASSUME IInv, NEW r \in Run, task[r] # "none", LeaveActive(r), Goto(r, "done"),
         UNCHANGED <<seq, registry, business, status>>
  PROVE  PlacesAreHeld' /\ active' \in [Businesses -> 1..seq \cup {NoRun}]
<1>1. business[r] \in Businesses /\ active \in [Businesses -> 1..seq \cup {NoRun}]
  BY DEF IInv, PlacesAreHeld, TypeOK
<1>2. \A b \in Businesses :
         active'[b] = IF b = business[r] /\ active[b] = r THEN NoRun ELSE active[b]
  BY <1>1 DEF LeaveActive
<1>3. active' \in [Businesses -> 1..seq \cup {NoRun}]
  BY <1>1 DEF LeaveActive
<1>4. task' = [task EXCEPT ![r] = "done"] /\ task \in [Run -> Tasks]
  BY DEF Goto, IInv, TypeOK
<1>5. \A q \in Run : Unfinished(q)' => Unfinished(q) /\ q # r
  BY <1>4 DEF Unfinished
<1>6. \A q \in Run : task'[q] # "none" => task[q] # "none"
  BY <1>4
<1>7. \A q \in Run : Unfinished(q) => task[q] # "none"
  BY DEF IInv, ByItself, Phases, Unfinished
<1> QED
  BY <1>1, <1>2, <1>3, <1>5, <1>6, <1>7 DEF IInv, PlacesAreHeld

\* A step of one run leaves the other runs alone.
LEMMA OthersAreLeftAlone ==
  ASSUME IInv, NEW r \in Run, UNCHANGED <<seq, halted, bornHalted>>,
         \A q \in Run \ {r} :
            /\ task'[q] = task[q] /\ status'[q] = status[q] /\ result'[q] = result[q]
            /\ worker'[q] = worker[q] /\ frames'[q] = frames[q]
            /\ lateCalls'[q] = lateCalls[q]
  PROVE  \A q \in Run \ {r} : ByItself(q)'
<1> TAKE q \in Run \ {r}
<1> QED
  BY LeftAlone DEF IInv

\* A step of the pipeline keeps the invariant, provided that its call, if it
\* makes one, keeps the account of late calls.
LEMMA PipelineSteps ==
  ASSUME IInv, NEW r \in Run, worker[r] \notin {"none", "over"},
         \/ Returns(r)
         \/ \E kept \in BOOLEAN : Raises(r, kept)
         \/ \E next \in Working : Continues(r, next) \/ Progresses(r, next),
         UNCHANGED <<runVars, drained, reading, halted, bornHalted>>,
         partial' \in [Run -> BOOLEAN], told' \in [Run -> Nat],
         lateCalls' = lateCalls \/ Call(r), CallsAreLate(r)'
  PROVE  IInv'
<1>1. /\ task' = task \/ Goto(r, "closing")
      /\ status' = status \/ \E f \in Terminal : status' = [status EXCEPT ![r] = f]
      /\ result' = result \/ \E x \in {"none", "partial", "full"} : result' = [result EXCEPT ![r] = x]
      /\ frames' = frames \/ \E f \in Frame : Put(r, f)
      /\ \E w \in Working \cup {"over"} : Does(r, w)
  BY DEF Returns, Raises, Fail, Continues, Progresses, Frame, Terminal, IInv, TypeOK
<1>2. lateCalls' \in [Run -> Nat] /\ \A q \in Run \ {r} : lateCalls'[q] = lateCalls[q]
  <2>1. lateCalls \in [Run -> Nat]
    BY DEF IInv, TypeOK
  <2>2. CASE Call(r)
    <3>1. lateCalls' = [lateCalls EXCEPT ![r] = IF halted THEN lateCalls[r] + 1
                                                ELSE lateCalls[r]]
      BY <2>2 DEF Call
    <3> QED
      BY <2>1, <3>1
  <2> QED
    BY <2>1, <2>2
<1>3. frames' \in [Run -> Seq(Frame)] /\ \A q \in Run \ {r} : frames'[q] = frames[q]
  BY <1>1, Puts DEF IInv, TypeOK
<1>4. /\ task' \in [Run -> Tasks] /\ \A q \in Run \ {r} : task'[q] = task[q]
      /\ task'[r] # "none" => task[r] # "none"
  BY <1>1 DEF IInv, TypeOK, Goto, Tasks, ByItself, Phases
<1>5. /\ status' \in [Run -> {"unborn", "running"} \cup Terminal]
      /\ \A q \in Run \ {r} : status'[q] = status[q]
  <2>1. status \in [Run -> {"unborn", "running"} \cup Terminal]
    BY DEF IInv, TypeOK
  <2> QED
    BY <1>1, <2>1
<1>6. /\ result' \in [Run -> {"none", "partial", "full"}]
      /\ \A q \in Run \ {r} : result'[q] = result[q]
  <2>1. result \in [Run -> {"none", "partial", "full"}]
    BY DEF IInv, TypeOK
  <2> QED
    BY <1>1, <2>1
<1>7. /\ worker' \in [Run -> Working \cup {"none", "queued", "over"}]
      /\ \A q \in Run \ {r} : worker'[q] = worker[q]
  BY <1>1 DEF IInv, TypeOK, Does
<1>8. TypeOK'
  BY <1>2, <1>3, <1>4, <1>5, <1>6, <1>7 DEF IInv, TypeOK, runVars
<1>9. \A q \in Run \ {r} : ByItself(q)'
  BY <1>2, <1>3, <1>4, <1>5, <1>6, <1>7, OthersAreLeftAlone DEF runVars
<1>10. Phases(r)' /\ FramesTellPhase(r)'
  BY Completes, PipelineRaises, PipelineGoesOn DEF runVars
<1>11. ByItself(r)'
  BY <1>10 DEF ByItself
<1>12. PlacesAreHeld'
  <2>1. \A q \in Run : task'[q] # "none" => task[q] # "none"
    BY <1>4
  <2>2. Unfinished(r)' => Unfinished(r)
    <3>1. task'[r] # "done" => task[r] # "done"
      BY DEF IInv, TypeOK, Returns, Raises, Fail, Continues, Progresses, Goto, Awaited
    <3>2. status'[r] = "running" => status[r] = "running"
      BY <1>1 DEF IInv, TypeOK, Terminal
    <3> QED
      BY <3>1, <3>2 DEF Unfinished
  <2>3. \A q \in Run : Unfinished(q)' => Unfinished(q)
    BY <1>4, <1>5, <2>2 DEF Unfinished
  <2> QED
    BY <2>1, <2>3, PlacesStay DEF IInv
<1> QED
  BY <1>8, <1>9, <1>11, <1>12 DEF IInv

------------------------------------------------------------------------------
\* The first call counts, if the kill switch is on.
LEMMA Counts ==
  ASSUME NEW r \in Run, lateCalls \in [Run -> Nat], lateCalls[r] = 0,
         Call(r) \/ lateCalls' = lateCalls
  PROVE  lateCalls'[r] \in {0, 1} /\ (lateCalls'[r] # 0 => halted)
<1>1. CASE Call(r)
  <2>1. lateCalls'[r] = IF halted THEN lateCalls[r] + 1 ELSE lateCalls[r]
    BY <1>1 DEF Call
  <2> QED
    BY <2>1
<1> QED
  BY <1>1

\* The pipeline's thread.
LEMMA PipelineKeeps ==
  ASSUME IInv, NEW r \in Run, Pipeline(r)
  PROVE  IInv'
<1> USE DEF Working
<1>1. /\ CallsAreLate(r) /\ lateCalls \in [Run -> Nat] /\ worker \in [Run -> Working \cup {"none", "queued", "over"}]
      /\ partial \in [Run -> BOOLEAN] /\ told \in [Run -> Nat]
  BY DEF IInv, TypeOK, ByItself
<1>2. CASE StartPipeline(r)
  <2>1. lateCalls[r] = 0 /\ (r \in bornHalted => worker[r] = "none")
    BY <1>1, <1>2 DEF StartPipeline, CallsAreLate
  <2>2. /\ UNCHANGED <<halted, bornHalted>> /\ worker[r] # "none"
        /\ worker'[r] \in {"generators", "synthesis check", "synthesised", "over"}
    BY <1>1, <1>2 DEF StartPipeline, Continues, Raises, Does
  <2>3. lateCalls'[r] \in {0, 1} /\ (lateCalls'[r] # 0 => halted)
    BY <1>1, <1>2, <2>1, Counts DEF StartPipeline
  <2>4. CallsAreLate(r)'
    BY <2>1, <2>2, <2>3 DEF CallsAreLate
  <2> QED
    BY <1>1, <1>2, <2>4, PipelineSteps DEF StartPipeline
<1>3. CASE FinishGenerator(r)
  <2>1. CallsAreLate(r)'
    BY <1>1, <1>3 DEF FinishGenerator, CallsAreLate, Progresses, Does, haltVars
  <2>2. told' \in [Run -> Nat]
    <3>1. told' = [told EXCEPT ![r] = told[r] + 1] /\ told[r] + 1 \in Nat
      <4>1. told[r] \in Nat
        BY <1>1
      <4> QED
        BY <1>3, <4>1 DEF FinishGenerator
    <3> QED
      BY <1>1, <3>1
  <2> QED
    BY <1>1, <1>3, <2>1, <2>2, PipelineSteps DEF FinishGenerator, haltVars
<1>4. CASE GatherPool(r)
  <2>1. CallsAreLate(r)'
    BY <1>1, <1>4 DEF GatherPool, CallsAreLate, Continues, Returns, Does, haltVars
  <2>2. partial' \in [Run -> BOOLEAN]
    BY <1>1, <1>4 DEF GatherPool
  <2> QED
    BY <1>1, <1>4, <2>1, <2>2, PipelineSteps DEF GatherPool, haltVars
<1>5. ASSUME NEW check \in {"critic check", "synthesis check"}, NEW call \in {"critic", "synthesis"},
             CheckAbort(r, check, call)
      PROVE  IInv'
  <2>1. CallsAreLate(r)'
    BY <1>1, <1>5 DEF CheckAbort, CallsAreLate, Continues, Raises, Does, haltVars
  <2> QED
    BY <1>1, <1>5, <2>1, PipelineSteps DEF CheckAbort, haltVars
<1>6. CASE Criticise(r)
  <2>1. lateCalls[r] = 0 /\ (r \in bornHalted => worker[r] = "none")
    BY <1>1, <1>6 DEF Criticise, CallsAreLate
  <2>2. /\ UNCHANGED <<halted, bornHalted>> /\ worker[r] # "none"
        /\ worker'[r] \in {"generators", "synthesis check", "synthesised", "over"}
    BY <1>1, <1>6 DEF Criticise, Progresses, Raises, Does
  <2>3. lateCalls'[r] \in {0, 1} /\ (lateCalls'[r] # 0 => halted)
    BY <1>1, <1>6, <2>1, Counts DEF Criticise
  <2>4. CallsAreLate(r)'
    BY <2>1, <2>2, <2>3 DEF CallsAreLate
  <2> QED
    BY <1>1, <1>6, <2>4, PipelineSteps DEF Criticise
<1>7. CASE Synthesise(r)
  <2>1. lateCalls[r] = 0 /\ (r \in bornHalted => worker[r] = "none")
    BY <1>1, <1>7 DEF Synthesise, CallsAreLate
  <2>2. /\ UNCHANGED <<halted, bornHalted>> /\ worker[r] # "none"
        /\ worker'[r] \in {"generators", "synthesis check", "synthesised", "over"}
    BY <1>1, <1>7 DEF Synthesise, Progresses, Raises, Does
  <2>3. lateCalls'[r] \in {0, 1} /\ (lateCalls'[r] # 0 => halted)
    BY <1>1, <1>7, <2>1, Counts DEF Synthesise
  <2>4. CallsAreLate(r)'
    BY <2>1, <2>2, <2>3 DEF CallsAreLate
  <2> QED
    BY <1>1, <1>7, <2>4, PipelineSteps DEF Synthesise
<1>8. CASE FinishPipeline(r)
  <2>1. CallsAreLate(r)'
    BY <1>1, <1>8 DEF FinishPipeline, CallsAreLate, Returns, Does, haltVars
  <2> QED
    BY <1>1, <1>8, <2>1, PipelineSteps DEF FinishPipeline, haltVars
<1> QED
  BY <1>2, <1>3, <1>4, <1>5, <1>6, <1>7, <1>8 DEF Pipeline

\* The finally block: the run leaves its place and its stream ends.
LEMMA Finishes ==
  ASSUME IInv, NEW r \in Run, task[r] \in {"announcing", "closing"}, Finally(r),
         UNCHANGED <<seq, registry, business, stateVars, threadVars, drained, reading,
                     haltVars>>
  PROVE  IInv'
<1> USE DEF stateVars, threadVars, haltVars
<1>1. PlacesAreHeld' /\ active' \in [Businesses -> 1..seq \cup {NoRun}]
  BY PlaceGivenUp DEF Finally
<1>2. /\ frames' \in [Run -> Seq(Frame)] /\ \A q \in Run \ {r} : frames'[q] = frames[q]
      /\ \A g : Has(r, g)' <=> Has(r, g) \/ g = "end"
  BY Puts DEF Finally, Frame, IInv, TypeOK
<1>3. /\ task' \in [Run -> Tasks] /\ \A q \in Run \ {r} : task'[q] = task[q]
      /\ task'[r] = "done"
  BY DEF Finally, Goto, IInv, TypeOK, Tasks
<1>4. TypeOK'
  BY <1>1, <1>2, <1>3 DEF IInv, TypeOK
<1>5. \A q \in Run \ {r} : ByItself(q)'
  BY <1>2, <1>3, OthersAreLeftAlone
<1>6. ByItself(r)'
  <2>1. Phases(r) /\ FramesTellPhase(r) /\ CallsAreLate(r)
    BY DEF IInv, ByItself
  <2>2. Phases(r)' /\ CallsAreLate(r)'
    BY <1>3, <2>1 DEF Phases, CallsAreLate, Terminal
  <2>3. ~ Has(r, "end")
    BY <2>1 DEF FramesTellPhase
  <2>4. \A i, j \in DOMAIN frames'[r] :
           /\ frames'[r][i] = "complete" /\ j > i => frames'[r][j] = "end"
           /\ frames'[r][i] = frames'[r][j] /\ frames'[r][i] # "progressed" => i = j
    BY <2>1, <2>3, OrderIsKept DEF Finally, Frame, IInv
  <2>5. \A f \in Terminal : Has(r, f)' <=> Has(r, f)
    BY <1>2 DEF Terminal
  <2>6. FramesTellPhase(r)'
    BY <1>2, <1>3, <2>1, <2>4, <2>5 DEF FramesTellPhase
  <2> QED
    BY <2>2, <2>6 DEF ByItself
<1> QED
  BY <1>1, <1>4, <1>5, <1>6 DEF IInv

\* A run that fails while it is waited for, whatever its thread does next.
LEMMA FailsWaiting ==
  ASSUME IInv, NEW r \in Run, NEW kept \in BOOLEAN,
         task[r] \in {"announcing", "pipeline"}, Fail(r, kept),
         worker' = [worker EXCEPT ![r] = IF @ = "queued" THEN "over" ELSE @],
         UNCHANGED <<runVars, partial, told, drained, reading, haltVars>>
  PROVE  IInv'
<1> USE DEF haltVars, runVars
<1>1. /\ frames' \in [Run -> Seq(Frame)] /\ \A q \in Run \ {r} : frames'[q] = frames[q]
  BY Puts DEF Fail, Frame, Terminal, IInv, TypeOK
<1>2. /\ task' \in [Run -> Tasks] /\ \A q \in Run \ {r} : task'[q] = task[q]
      /\ task'[r] = "closing"
  BY DEF Fail, Goto, IInv, TypeOK, Tasks
<1>3. /\ status' \in [Run -> {"unborn", "running"} \cup Terminal]
      /\ \A q \in Run \ {r} : status'[q] = status[q]
      /\ status'[r] = "failed"
  BY DEF Fail, IInv, TypeOK, Terminal
<1>4. /\ result' \in [Run -> {"none", "partial", "full"}]
      /\ \A q \in Run \ {r} : result'[q] = result[q]
  BY DEF Fail, IInv, TypeOK
<1>5. /\ worker' \in [Run -> Working \cup {"none", "queued", "over"}]
      /\ \A q \in Run \ {r} : worker'[q] = worker[q]
      /\ worker'[r] = IF worker[r] = "queued" THEN "over" ELSE worker[r]
  BY DEF IInv, TypeOK
<1>6. TypeOK'
  BY <1>1, <1>2, <1>3, <1>4, <1>5 DEF IInv, TypeOK
<1>7. \A q \in Run \ {r} : ByItself(q)'
  BY <1>1, <1>2, <1>3, <1>4, <1>5, OthersAreLeftAlone
<1>8. ByItself(r)'
  <2>1. CallsAreLate(r)'
    BY <1>5 DEF IInv, ByItself, CallsAreLate
  <2> QED
    BY <2>1, Fails DEF ByItself
<1>9. PlacesAreHeld'
  BY <1>2, <1>3, PlacesStay DEF IInv, Unfinished
<1> QED
  BY <1>6, <1>7, <1>8, <1>9 DEF IInv

\* The run's coroutine.
LEMMA LoopKeeps ==
  ASSUME IInv, NEW r \in Run, Loop(r)
  PROVE  IInv'
<1>1. CASE Begin(r)
  <2> USE <1>1 DEF Begin, runVars, stateVars, threadVars, haltVars
  <2>1. /\ frames' \in [Run -> Seq(Frame)] /\ \A q \in Run \ {r} : frames'[q] = frames[q]
        /\ \A g : Has(r, g)' <=> Has(r, g) \/ g = "started"
    BY Puts DEF Frame, IInv, TypeOK
  <2>2. /\ task' \in [Run -> Tasks] /\ \A q \in Run \ {r} : task'[q] = task[q]
        /\ task'[r] = "announcing"
    BY DEF Goto, IInv, TypeOK, Tasks
  <2>3. TypeOK'
    BY <2>1, <2>2 DEF IInv, TypeOK
  <2>4. \A q \in Run \ {r} : ByItself(q)'
    BY <2>1, <2>2, OthersAreLeftAlone
  <2>5. Phases(r) /\ FramesTellPhase(r) /\ CallsAreLate(r) /\ status[r] = "running"
    BY DEF IInv, ByItself, Phases
  <2>6. Phases(r)' /\ CallsAreLate(r)'
    BY <2>2, <2>5 DEF Phases, CallsAreLate
  <2>7. FramesTellPhase(r)'
    <3>1. ~ Has(r, "started")
      BY <2>5 DEF FramesTellPhase
    <3>2. \A i, j \in DOMAIN frames'[r] :
             /\ frames'[r][i] = "complete" /\ j > i => frames'[r][j] = "end"
             /\ frames'[r][i] = frames'[r][j] /\ frames'[r][i] # "progressed" => i = j
      BY <2>5, <3>1, OrderIsKept DEF Frame, IInv
    <3>3. \A f \in Terminal \cup {"end"} : Has(r, f)' <=> Has(r, f)
      BY <2>1 DEF Terminal
    <3> QED
      BY <2>2, <2>5, <3>2, <3>3 DEF FramesTellPhase
  <2>8. PlacesAreHeld'
    BY <2>2, PlacesStay DEF IInv, Unfinished
  <2> QED
    BY <2>3, <2>4, <2>6, <2>7, <2>8 DEF IInv, ByItself
<1>2. CASE Precheck(r)
  <2>1. task[r] = "announcing" /\ worker[r] = "none"
    BY <1>2 DEF Precheck, IInv, ByItself, Phases
  <2>2. CASE halted /\ Fail(r, FALSE) /\ UNCHANGED <<active, worker>>
    <3>1. worker' = [worker EXCEPT ![r] = IF @ = "queued" THEN "over" ELSE @]
      BY <2>1, <2>2 DEF IInv, TypeOK
    <3> QED
      BY <1>2, <2>1, <2>2, <3>1, FailsWaiting DEF Precheck, runVars
  <2>3. CASE Finally(r) /\ UNCHANGED <<status, result, worker>>
    BY <1>2, <2>1, <2>3, Finishes DEF Precheck, stateVars, threadVars
  <2>4. CASE /\ ~ halted /\ Goto(r, "pipeline") /\ Does(r, "queued")
             /\ UNCHANGED <<active, status, result, frames>>
    <3> USE <1>2, <2>4 DEF Precheck, haltVars
    <3>1. /\ task' \in [Run -> Tasks] /\ \A q \in Run \ {r} : task'[q] = task[q]
          /\ task'[r] = "pipeline"
      BY DEF Goto, IInv, TypeOK, Tasks
    <3>2. /\ worker' \in [Run -> Working \cup {"none", "queued", "over"}]
          /\ \A q \in Run \ {r} : worker'[q] = worker[q]
          /\ worker'[r] = "queued"
      BY DEF Does, IInv, TypeOK
    <3>3. TypeOK'
      BY <3>1, <3>2 DEF IInv, TypeOK
    <3>4. \A q \in Run \ {r} : ByItself(q)'
      BY <3>1, <3>2, OthersAreLeftAlone
    <3>5. Phases(r) /\ FramesTellPhase(r) /\ CallsAreLate(r) /\ status[r] = "running"
      BY <2>1 DEF IInv, ByItself, Phases
    <3>6. Phases(r)' /\ CallsAreLate(r)'
      BY <2>1, <3>1, <3>2, <3>5 DEF Phases, CallsAreLate, Terminal
    <3>7. FramesTellPhase(r)'
      BY <2>1, <3>1, <3>5 DEF FramesTellPhase, Has
    <3>8. PlacesAreHeld'
      BY <2>1, <3>1, PlacesStay DEF IInv, Unfinished, runVars
    <3> QED
      BY <3>3, <3>4, <3>6, <3>7, <3>8 DEF IInv, ByItself
  <2> QED
    BY <1>2, <2>2, <2>3, <2>4 DEF Precheck
<1>3. CASE Timeout(r)
  <2>1. partial[r] \in BOOLEAN
    BY DEF IInv, TypeOK
  <2> QED
    BY <1>3, <2>1, FailsWaiting DEF Timeout
<1>4. CASE Close(r)
  BY <1>4, Finishes DEF Close
<1> QED
  BY <1>1, <1>2, <1>3, <1>4 DEF Loop

\* start(): the new run takes its business's place, which nobody running
\* holds, and eviction spares whoever holds a place.
LEMMA StartKeeps ==
  ASSUME IInv, NEW b \in Businesses, Start(b)
  PROVE  IInv'
<1>0. PICK r : r = seq + 1
  OBVIOUS
<1>1. /\ seq \in Nat /\ Starts \in Nat /\ r \in Run /\ r > seq /\ NoRun \notin Run
      /\ seq' = r /\ r \in Nat /\ 1..seq \subseteq Run /\ r \notin 1..seq
  BY <1>0, BoundsAssumption DEF Start, IInv, TypeOK, Run
<1>2. task[r] = "none" /\ status[r] = "unborn" /\ worker[r] = "none" /\ result[r] # "full"
  BY <1>1 DEF IInv, ByItself, Phases
<1>3. ByItself(r)
  BY <1>1 DEF IInv
<1>4. /\ business' \in [Run -> Businesses \cup {NoBusiness}] /\ business'[r] = b
      /\ \A q \in Run \ {r} : business'[q] = business[q]
  BY <1>0, <1>1 DEF Start, IInv, TypeOK
<1>5. /\ active' \in [Businesses -> 1..r \cup {NoRun}] /\ active'[b] = r
      /\ \A c \in Businesses \ {b} : active'[c] = active[c]
  <2>1. active \in [Businesses -> 1..r \cup {NoRun}] /\ active' = [active EXCEPT ![b] = r]
    BY <1>0, <1>1 DEF Start, IInv, TypeOK
  <2> QED
    BY <1>1, <2>1
<1>6. /\ status' \in [Run -> {"unborn", "running"} \cup Terminal] /\ status'[r] = "running"
      /\ \A q \in Run \ {r} : status'[q] = status[q]
  BY <1>0, <1>1 DEF Start, IInv, TypeOK
<1>7. /\ task' \in [Run -> Tasks] /\ task'[r] = "created"
      /\ \A q \in Run \ {r} : task'[q] = task[q]
  BY <1>0, <1>1 DEF Start, IInv, TypeOK, Goto, Tasks
<1>8. /\ registry' \subseteq registry \cup {r}
      /\ \A q \in registry \cup {r} : active'[business'[q]] = q => q \in registry'
  BY <1>0 DEF Start, Evicted
<1>9. /\ \A q \in Run \ {r} : q \in bornHalted' <=> q \in bornHalted
      /\ r \in bornHalted' => r \in bornHalted \/ halted
      /\ bornHalted' \subseteq Run
  BY <1>0, <1>1 DEF Start, IInv, TypeOK
<1>10. UNCHANGED <<result, partial, worker, told, frames, drained, reading, halted, lateCalls>>
  BY DEF Start, threadVars, streamVars
<1>11. TypeOK'
  <2>1. registry' \subseteq 1..r
    BY <1>0, <1>1, <1>8 DEF IInv, TypeOK
  <2>2. r \in 0..Starts
    BY <1>1 DEF Run
  <2> QED
    BY <1>1, <1>4, <1>5, <1>6, <1>7, <1>9, <1>10, <2>1, <2>2 DEF IInv, TypeOK
<1>12. ByItself(r)'
  <2>1. Phases(r)'
    BY <1>1, <1>2, <1>6, <1>7, <1>10 DEF Phases, Terminal
  <2>2. FramesTellPhase(r)'
    BY <1>2, <1>3, <1>6, <1>7, <1>10 DEF ByItself, FramesTellPhase, Has, Terminal
  <2>3. CallsAreLate(r)'
    BY <1>2, <1>3, <1>9, <1>10 DEF ByItself, CallsAreLate
  <2> QED
    BY <2>1, <2>2, <2>3 DEF ByItself
<1>13. ASSUME NEW q \in Run \ {r} PROVE ByItself(q)'
  <2>1. ByItself(q) /\ (q > seq' <=> q > seq)
    BY <1>0, <1>1 DEF IInv, Run
  <2>2. Phases(q)'
    BY <1>6, <1>7, <1>10, <2>1 DEF ByItself, Phases
  <2>3. FramesTellPhase(q)'
    BY <1>6, <1>7, <1>10, <2>1 DEF ByItself, FramesTellPhase, Has
  <2>4. CallsAreLate(q)'
    BY <1>9, <1>10, <2>1 DEF ByItself, CallsAreLate
  <2> QED
    BY <2>2, <2>3, <2>4 DEF ByItself
<1>14. PlacesAreHeld'
  <2>1. ASSUME NEW q \in Run \ {r}, Unfinished(q) PROVE business[q] # b
    <3>1. active[business[q]] = q
      BY <2>1 DEF IInv, PlacesAreHeld
    <3>2. status[q] = "running" /\ q # NoRun
      BY <1>1, <2>1 DEF Unfinished
    <3> QED
      BY <3>1, <3>2 DEF Start, HasRunInFlight
  <2>2. \A q \in Run : task'[q] # "none" => business'[q] \in Businesses
    BY <1>4, <1>7 DEF IInv, PlacesAreHeld
  <2>3. \A q \in Run : Unfinished(q)' => active'[business'[q]] = q
    <3> SUFFICES ASSUME NEW q \in Run \ {r}, Unfinished(q)' PROVE active'[business'[q]] = q
      BY <1>4, <1>5
    <3>1. Unfinished(q)
      BY <1>6, <1>7 DEF Unfinished
    <3>2. active[business[q]] = q /\ task[q] # "none"
      BY <3>1 DEF IInv, PlacesAreHeld, Unfinished, ByItself, Phases
    <3>3. business[q] \in Businesses \ {b}
      BY <2>1, <3>1, <3>2 DEF IInv, PlacesAreHeld
    <3> QED
      BY <1>4, <1>5, <3>2, <3>3
  <2>4. ASSUME NEW c \in Businesses, active'[c] # NoRun
        PROVE  business'[active'[c]] = c /\ active'[c] \in registry'
    <3>1. CASE c = b
      BY <1>4, <1>5, <1>8, <3>1
    <3>2. CASE c # b
      <4>1. active'[c] = active[c] /\ business[active[c]] = c /\ active[c] \in registry
        BY <1>5, <2>4, <3>2 DEF IInv, PlacesAreHeld
      <4>2. active[c] \in Run \ {r}
        BY <1>1, <4>1 DEF IInv, TypeOK
      <4> QED
        BY <1>4, <1>8, <4>1, <4>2
    <3> QED
      BY <3>1, <3>2
  <2> QED
    BY <2>2, <2>3, <2>4 DEF PlacesAreHeld
<1> QED
  BY <1>11, <1>12, <1>13, <1>14 DEF IInv

------------------------------------------------------------------------------
\* A step that no run takes part in, the kill switch apart.
LEMMA OutsideKeeps ==
  ASSUME IInv, UNCHANGED <<runVars, stateVars, task, threadVars, frames, bornHalted, lateCalls>>,
         halted' \in BOOLEAN, halted => halted',
         drained' \subseteq Run, reading' \in [Streams -> Run \cup {NoRun, Ended}]
  PROVE  IInv'
<1> USE DEF runVars, stateVars, threadVars
<1>1. TypeOK'
  BY DEF IInv, TypeOK
<1>2. PlacesAreHeld'
  BY PlacesStay DEF IInv, Unfinished
<1>3. ASSUME NEW r \in Run PROVE ByItself(r)'
  <2>1. ByItself(r)
    BY DEF IInv
  <2>2. Phases(r)' /\ FramesTellPhase(r)'
    BY <2>1 DEF ByItself, Phases, FramesTellPhase, Has
  <2>3. CallsAreLate(r)'
    BY <2>1 DEF ByItself, CallsAreLate
  <2> QED
    BY <2>2, <2>3 DEF ByItself
<1> QED
  BY <1>1, <1>2, <1>3 DEF IInv

LEMMA Inductive == IInv /\ [Next]_vars => IInv'
<1> SUFFICES ASSUME IInv, [Next]_vars PROVE IInv'
  OBVIOUS
<1> USE DEF runVars, stateVars, threadVars, streamVars, haltVars
<1>1. halted \in BOOLEAN /\ drained \subseteq Run /\ reading \in [Streams -> Run \cup {NoRun, Ended}]
      /\ registry \subseteq Run
  BY BoundsAssumption DEF IInv, TypeOK, Run
<1>2. ASSUME NEW b \in Businesses, Start(b) PROVE IInv'
  BY <1>2, StartKeeps
<1>3. ASSUME NEW r \in Run, Loop(r) \/ Pipeline(r) PROVE IInv'
  BY <1>3, LoopKeeps, PipelineKeeps
<1>4. ASSUME NEW c \in Streams, Watch(c) PROVE IInv'
  BY <1>1, <1>4, OutsideKeeps DEF Watch
<1>5. ASSUME NEW c \in Streams, ReadEnd(c) PROVE IInv'
  BY <1>1, <1>5, OutsideKeeps DEF ReadEnd
<1>6. CASE Kill
  BY <1>1, <1>6, OutsideKeeps DEF Kill
<1>7. CASE UNCHANGED vars
  BY <1>1, <1>7, OutsideKeeps DEF vars
<1> QED
  BY <1>2, <1>3, <1>4, <1>5, <1>6, <1>7 DEF Next

LEMMA Invariance == Spec => []IInv
BY Initially, Inductive, PTL DEF Spec

(* The runner's state always has its type. *)
THEOREM RunnerTypeOK == Spec => []TypeOK
<1>1. IInv => TypeOK
  BY DEF IInv
<1> QED
  BY <1>1, Invariance, PTL

\* However many runs are started and whatever their threads do, a business has
\* one running run at most, and eviction never takes away what start() or a run
\* still looks up (ideation_runner.py: start(), _evict_oldest(), _run()).
THEOREM AtMostOneRun == Spec => []OneRunPerBusiness
<1>1. IInv => OneRunPerBusiness
  <2> SUFFICES ASSUME IInv PROVE OneRunPerBusiness
    OBVIOUS
  <2>1. \A r, q \in Run :
           Unfinished(r) /\ Unfinished(q) /\ business[r] = business[q] => r = q
    BY DEF IInv, PlacesAreHeld
  <2>2. \A b \in Businesses : active[b] # NoRun => active[b] \in registry
    BY DEF IInv, PlacesAreHeld
  <2>3. ASSUME NEW r \in Run, task[r] = "created" PROVE r \in registry
    <3>1. Unfinished(r) /\ task[r] # "none" /\ NoRun \notin Run
      BY <2>3, BoundsAssumption DEF IInv, ByItself, Phases, Unfinished, Run
    <3> QED
      BY <2>2, <3>1 DEF IInv, PlacesAreHeld
  <2> QED
    BY <2>1, <2>2, <2>3 DEF OneRunPerBusiness
<1> QED
  BY <1>1, Invariance, PTL

\* A late result of a run that has timed out changes nothing: status, result
\* and the terminal frame are decided once, and together (_run_pipeline(),
\* _fail(), the finally block of _run()).
THEOREM OutcomeIsDecidedOnce == Spec => []OneOutcome
<1>1. IInv => OneOutcome
  BY DEF IInv, ByItself, Phases, FramesTellPhase, OneOutcome
<1> QED
  BY <1>1, Invariance, PTL

\* Once the kill switch is on, a run begins one more model call at most, and a
\* run started since begins none (_check_abort(), the check in _run()).
THEOREM SpendingStops == Spec => []HaltBoundsSpending
<1>1. IInv => HaltBoundsSpending
  <2> SUFFICES ASSUME IInv, NEW r \in Run
               PROVE  lateCalls[r] <= IF r \in bornHalted THEN 0 ELSE 1
    BY DEF HaltBoundsSpending
  <2>1. CallsAreLate(r) /\ lateCalls[r] \in Nat
    BY DEF IInv, ByItself, TypeOK
  <2> QED
    BY <2>1 DEF CallsAreLate
<1> QED
  BY <1>1, Invariance, PTL
==============================================================================
