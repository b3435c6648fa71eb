---------------------------- MODULE Growth_proofs ----------------------------
(***************************************************************************)
(* What is proved of the growth modules: social content, then the loop     *)
(* from model output to concluded experiments.                             *)
(***************************************************************************)
EXTENDS Experiments, Content, Sums, FiniteSetTheorems, SequenceTheorems,
        WellFoundedInduction, TLAPS

----------------------------------------------------------------------------
(* Social content.  A post may go out unattended when the posts counted    *)
(* are as many as a person reviews, and somebody has the authority; the    *)
(* count only rises while the pipeline waits.                              *)

Unattended(m, level, count) ==
    /\ m # "always"
    /\ m = "human_approval_first_n" => count >= ReviewFirstN
    /\ \E a \in Chain : Charters[a].level >= level

Job(x) ==
    x \in [step : {x.step}, pillar : {x.pillar}, draft : {x.draft}, level : {x.level},
           human : {x.human}, approved : {x.approved}]
JobOK(m, x, count) ==
    /\ Job(x)
    /\ x.human \in BOOLEAN /\ x.approved \in BOOLEAN
    /\ x.step = "publish" /\ ~ x.human => Unattended(m, x.level, count)
Posted(posts, n) == n \in Nat /\ \E S : posts \in [1..n -> S]

ReviewInv ==
    /\ DOMAIN pipe = Pipelines
    /\ Posted(published, Len(published))
    /\ pipe \in [Pipelines -> {pipe[p] : p \in Pipelines}]
    /\ \A p \in Pipelines : JobOK(mode, pipe[p], Len(published))
    /\ FirstPostsReviewed

LEMMA ReviewInitially == ContentInit => ReviewInv
<1> SUFFICES ASSUME ContentInit PROVE ReviewInv
  OBVIOUS
<1>1. Len(published) = 0 /\ published \in [1..0 -> {}] /\ DOMAIN published = {}
  BY DEF ContentInit
<1>2. \A p \in Pipelines : JobOK(mode, pipe[p], Len(published))
  BY DEF ContentInit, JobOK, Job, NoWork
<1> QED
  BY <1>1, <1>2 DEF ContentInit, ReviewInv, Posted, FirstPostsReviewed

LEMMA SeqIsFunction ==
  ASSUME NEW S, NEW s \in Seq(S)
  PROVE  s \in [1..Len(s) -> S] /\ Len(s) \in Nat
OBVIOUS

\* A post more on the list.
OneMore(longer, posts, post) ==
    /\ Len(posts) \in Nat /\ Len(longer) = Len(posts) + 1
    /\ DOMAIN posts = 1..Len(posts) /\ DOMAIN longer = 1..(Len(posts) + 1)
    /\ Posted(longer, Len(longer))
    /\ \A i \in 1..Len(posts) : longer[i] = posts[i]
    /\ longer[Len(posts) + 1] = post
LEMMA Another ==
  ASSUME NEW posts, NEW post, Posted(posts, Len(posts)),
         NEW longer, longer = Append(posts, post)
  PROVE  OneMore(longer, posts, post)
<1>1. PICK S : posts \in [1..Len(posts) -> S]
  BY DEF Posted
<1> DEFINE T == S \cup {post}
<1>2. posts \in Seq(T) /\ post \in T
  BY <1>1 DEF Posted
<1> HIDE DEF T
<1>3. longer \in Seq(T) /\ Len(longer) = Len(posts) + 1
  BY <1>2
<1>4. longer \in [1..Len(longer) -> T] /\ Len(longer) \in Nat
  BY <1>3, SeqIsFunction
<1>5. (\A i \in 1..Len(posts) : longer[i] = posts[i]) /\ longer[Len(posts) + 1] = post
  BY <1>2
<1> QED
  BY <1>1, <1>3, <1>4, <1>5 DEF Posted, OneMore

LEMMA ReviewPreserved == ReviewInv /\ [ContentNext]_contentVars => ReviewInv'
<1> SUFFICES ASSUME ReviewInv, [ContentNext]_contentVars PROVE ReviewInv'
  OBVIOUS
<1> USE ContentAssumption DEF ReviewInv
<1>1. ASSUME UNCHANGED <<mode, pipe, published>> PROVE ReviewInv'
  BY <1>1 DEF FirstPostsReviewed
<1>2. ASSUME NEW p \in Pipelines, NEW x, JobOK(mode, x, Len(published)),
             pipe' = [pipe EXCEPT ![p] = x], UNCHANGED <<mode, published>>
      PROVE  ReviewInv'
  <2>1. DOMAIN pipe' = Pipelines /\ pipe' \in [Pipelines -> {pipe'[q] : q \in Pipelines}]
    BY <1>2
  <2>2. \A q \in Pipelines : JobOK(mode, pipe'[q], Len(published))
    BY <1>2
  <2> QED
    BY <1>2, <2>1, <2>2 DEF FirstPostsReviewed
<1>3. ASSUME NEW p \in Pipelines, Write(p) PROVE ReviewInv'
  <2>1. PICK k \in DOMAIN Plan, d \in Drafts :
          pipe' = [pipe EXCEPT ![p] =
             [@ EXCEPT !.step = "authorize", !.pillar = Plan[k].pillar, !.draft = d]]
    BY <1>3 DEF Write
  <2> DEFINE x == [pipe[p] EXCEPT !.step = "authorize", !.pillar = Plan[k].pillar, !.draft = d]
  <2>2. JobOK(mode, pipe[p], Len(published)) /\ Job(pipe[p])
    BY DEF JobOK
  <2>0. x = [pipe[p] EXCEPT !.step = "authorize", !.pillar = Plan[k].pillar, !.draft = d]
    OBVIOUS
  <2>3. JobOK(mode, x, Len(published))
    <3> HIDE DEF x
    <3>1. /\ Job(x) /\ x.step = "authorize"
          /\ x.human = pipe[p].human /\ x.approved = pipe[p].approved
      <4>1. x \in [step : {"authorize"}, pillar : {Plan[k].pillar}, draft : {d},
                   level : {pipe[p].level}, human : {pipe[p].human},
                   approved : {pipe[p].approved}]
        BY <2>0, <2>2 DEF Job
      <4> QED
        BY <4>1 DEF Job
    <3> QED
      BY <2>2, <3>1 DEF JobOK
  <2>4. pipe' = [pipe EXCEPT ![p] = x]
    BY <2>1
  <2> QED
    BY <1>2, <1>3, <2>3, <2>4 DEF Write
<1>4. ASSUME NEW p \in Pipelines, Authorize(p) PROVE ReviewInv'
  <2>1. PICK level \in Levels :
          pipe' = [pipe EXCEPT ![p] =
             [@ EXCEPT !.step = "publish", !.level = level,
                       !.human = ReviewRequired(Len(published)) \/ EscalatesToHuman(level)]]
    BY <1>4 DEF Authorize
  <2> DEFINE human == ReviewRequired(Len(published)) \/ EscalatesToHuman(level)
             x == [pipe[p] EXCEPT !.step = "publish", !.level = level, !.human = human]
  <2>2. JobOK(mode, pipe[p], Len(published)) /\ Job(pipe[p])
    BY DEF JobOK
  <2>3. ASSUME ~ human PROVE Unattended(mode, level, Len(published))
    <3>1. \E a \in Chain : ~ Charters[a].level < level
      BY <2>3 DEF EscalatesToHuman
    <3>2. \E a \in Chain : Charters[a].level >= level
      BY <3>1 DEF Chain
    <3>3. mode # "always"
      BY <2>3 DEF ReviewRequired
    <3>4. mode = "human_approval_first_n" => Len(published) >= ReviewFirstN
      BY <2>3 DEF ReviewRequired, Posted
    <3> QED
      BY <3>2, <3>3, <3>4 DEF Unattended
  <2>4. human \in BOOLEAN
    BY DEF ReviewRequired, EscalatesToHuman
  <2> HIDE DEF human
  <2>5. JobOK(mode, x, Len(published))
    <3>0. x = [pipe[p] EXCEPT !.step = "publish", !.level = level, !.human = human]
      OBVIOUS
    <3> HIDE DEF x
    <3>1. Job(x) /\ x.level = level /\ x.human = human /\ x.approved = pipe[p].approved
      <4>1. x \in [step : {"publish"}, pillar : {pipe[p].pillar}, draft : {pipe[p].draft},
                   level : {level}, human : {human}, approved : {pipe[p].approved}]
        BY <2>2, <3>0 DEF Job
      <4> QED
        BY <4>1 DEF Job
    <3> QED
      BY <2>2, <2>3, <2>4, <3>1 DEF JobOK
  <2>6. pipe' = [pipe EXCEPT ![p] = x]
    BY <2>1 DEF human
  <2> QED
    BY <1>2, <1>4, <2>5, <2>6 DEF Authorize
<1>5. ASSUME NEW p \in Pipelines, Approve(p) PROVE ReviewInv'
  <2> DEFINE x == [pipe[p] EXCEPT !.approved = TRUE]
  <2>1. JobOK(mode, pipe[p], Len(published)) /\ Job(pipe[p])
    BY DEF JobOK
  <2>2. JobOK(mode, x, Len(published))
    <3>0. x = [pipe[p] EXCEPT !.approved = TRUE]
      OBVIOUS
    <3> HIDE DEF x
    <3>1. /\ Job(x) /\ x.step = pipe[p].step /\ x.level = pipe[p].level
          /\ x.human = pipe[p].human /\ x.approved = TRUE
      <4>1. x \in [step : {pipe[p].step}, pillar : {pipe[p].pillar},
                   draft : {pipe[p].draft}, level : {pipe[p].level},
                   human : {pipe[p].human}, approved : {TRUE}]
        BY <2>1, <3>0 DEF Job
      <4> QED
        BY <4>1 DEF Job
    <3> QED
      BY <2>1, <3>1 DEF JobOK
  <2>3. pipe' = [pipe EXCEPT ![p] = x]
    BY <1>5 DEF Approve
  <2> QED
    BY <1>2, <1>5, <2>2, <2>3 DEF Approve
<1>6. ASSUME NEW p \in Pipelines, GovernedPublish(p) PROVE ReviewInv'
  <2> DEFINE post == [pillar |-> pipe[p].pillar, level |-> pipe[p].level,
                      approved |-> pipe[p].approved]
             out == (pipe[p].human => pipe[p].approved) /\ Passes(pipe[p].draft)
  <2>1. pipe' = [pipe EXCEPT ![p] = NoWork] /\ mode' = mode /\ pipe[p].step = "publish"
    BY <1>6 DEF GovernedPublish, Release
  <2>2. \A m, n : JobOK(m, NoWork, n)
    BY DEF JobOK, Job, NoWork
  <2>3. CASE ~ out
    <3>1. published' = published
      BY <1>6, <2>3 DEF GovernedPublish
    <3> QED
      BY <1>2, <2>1, <2>2, <3>1
  <2>4. CASE out
    <3> DEFINE n == Len(published)
    <3>1. published' = Append(published, post) /\ Posted(published, Len(published))
      BY <1>6, <2>4 DEF GovernedPublish
    <3> HIDE DEF post
    <3>2. /\ Len(published') = n + 1 /\ Posted(published', Len(published'))
          /\ DOMAIN published = 1..n /\ DOMAIN published' = 1..(n + 1) /\ n \in Nat
          /\ \A i \in 1..n : published'[i] = published[i]
          /\ published'[n + 1] = post
      <4>1. OneMore(published', published, post)
        BY <3>1, Another
      <4> QED
        BY <4>1 DEF OneMore
    <3> HIDE DEF n
    <3>3. \A q \in Pipelines : JobOK(mode, pipe'[q], n + 1)
      <4> SUFFICES ASSUME NEW q \in Pipelines PROVE JobOK(mode, pipe'[q], n + 1)
        OBVIOUS
      <4>1. CASE q = p
        BY <2>1, <2>2, <4>1
      <4>2. CASE q # p
        <5>1. pipe'[q] = pipe[q] /\ JobOK(mode, pipe[q], n)
          BY <2>1, <4>2 DEF n
        <5>2. ASSUME NEW level, Unattended(mode, level, n) PROVE Unattended(mode, level, n + 1)
          BY <3>2, <5>2 DEF Unattended
        <5> QED
          BY <5>1, <5>2 DEF JobOK
      <4> QED
        BY <4>1, <4>2
    <3>4. post.approved \/ Unattended(mode, post.level, n)
      BY <2>1, <2>4 DEF post, JobOK, n
    <3>5. FirstPostsReviewed'
      <4> SUFFICES ASSUME NEW i \in 1..(n + 1)
                   PROVE  \/ published'[i].approved
                          \/ /\ mode # "always"
                             /\ mode = "human_approval_first_n" => i > ReviewFirstN
                             /\ \E a \in Chain : Charters[a].level >= published'[i].level
        BY <2>1, <3>2 DEF FirstPostsReviewed
      <4>1. CASE i = n + 1
        BY <3>2, <3>4, <4>1 DEF Unattended
      <4>2. CASE i # n + 1
        <5>1. i \in 1..n /\ published'[i] = published[i]
          BY <3>2, <4>2
        <5> QED
          BY <3>2, <5>1 DEF FirstPostsReviewed
      <4> QED
        BY <4>1, <4>2
    <3>6. DOMAIN pipe' = Pipelines /\ pipe' \in [Pipelines -> {pipe'[q] : q \in Pipelines}]
      BY <2>1
    <3> QED
      BY <2>1, <3>2, <3>3, <3>5, <3>6
  <2> QED
    BY <2>3, <2>4
<1> QED
  BY <1>1, <1>3, <1>4, <1>5, <1>6 DEF ContentNext, contentVars, Collect, Optimize

\* The first posts of a brand were approved by a person, and every other by
\* somebody with the authority, whatever the number of pipelines, posts and
\* agents, and though the reporting chain may be a cycle: authorize_publish()
\* counts the posts once, and governed_publish() relies on it (governance.py).
THEOREM EveryPostWasAuthorized == ContentSpec => []FirstPostsReviewed
<1>1. ReviewInv => FirstPostsReviewed
  BY DEF ReviewInv
<1> QED
  BY <1>1, ReviewInitially, ReviewPreserved, PTL DEF ContentSpec

\* Weights stay positive.
WeightsInv ==
    /\ weights \in [1..Len(StartWeights) -> Nat \ {0}]
    /\ unit \in Nat \ {0}

LEMMA ReweightedGrows ==
  ASSUME NEW w \in Nat \ {0}, NEW action
  PROVE  /\ Reweighted(w, action) \in Nat \ {0}
         /\ Reweighted(w, action) > 2 * w => action = "scale"
<1>1. CASE action = "scale"
  BY <1>1 DEF Reweighted
<1>2. CASE action = "kill"
  BY <1>2 DEF Reweighted
<1>3. CASE action # "scale" /\ action # "kill"
  BY <1>3 DEF Reweighted
<1> QED
  BY <1>1, <1>2, <1>3

LEMMA ScaleBeats == ASSUME NEW c, NEW v, NEW b, Decide(c, v, b) = "scale" PROVE Beats(v, c)
BY Zenon DEF Decide

LEMMA WeightsInitially == ContentInit => WeightsInv
BY ContentAssumption DEF ContentInit, WeightsInv

LEMMA WeightsPreserved == WeightsInv /\ [ContentNext]_contentVars => WeightsInv'
<1> SUFFICES ASSUME WeightsInv, [ContentNext]_contentVars PROVE WeightsInv'
  OBVIOUS
<1>1. CASE weights' = weights /\ unit' = unit
  BY <1>1 DEF WeightsInv
<1>2. ASSUME NEW i \in DOMAIN weights, NEW j \in DOMAIN weights, Optimize(i, j)
      PROVE  WeightsInv'
  <2> DEFINE action(k) == IF k = j THEN Decide(ArmOf(i), ArmOf(j), ExperimentBudget)
                          ELSE "continue"
  <2>1. /\ weights' = [k \in DOMAIN weights |-> Reweighted(weights[k], action(k))]
        /\ unit' = 2 * unit
    BY <1>2 DEF Optimize
  <2> HIDE DEF action
  <2>2. \A k \in DOMAIN weights : Reweighted(weights[k], action(k)) \in Nat \ {0}
    BY ReweightedGrows DEF WeightsInv
  <2> QED
    BY <2>1, <2>2 DEF WeightsInv
<1> QED
  BY <1>1, <1>2
     DEF ContentNext, contentVars, Write, Authorize, Approve, GovernedPublish, Collect

LEMMA TwiceAsMuch ==
  ASSUME NEW v \in Nat, NEW w \in Nat, NEW u \in Nat \ {0}, v * u > w * (2 * u)
  PROVE  v > 2 * w
OBVIOUS

\* A pillar gains weight only by winning: run_optimization() (optimize.py)
\* reweights on what decide() (experiment.py) makes of the pooled posts.
THEOREM OnlyWinnersGain == ContentSpec => WinnersGain
<1> DEFINE Gain ==
       \A i \in DOMAIN weights :
          weights'[i] * unit > weights[i] * unit' =>
             \E j \in DOMAIN weights \ {i} :
                ArmOf(i).won * ArmOf(j).seen > ArmOf(j).won * ArmOf(i).seen
<1>1. ASSUME WeightsInv, [ContentNext]_contentVars PROVE [Gain]_contentVars
  <2>1. CASE weights' = weights /\ unit' = unit
    BY <1>1, <2>1 DEF WeightsInv
  <2>2. ASSUME NEW i \in DOMAIN weights, NEW j \in DOMAIN weights, i # j, Optimize(i, j)
        PROVE  Gain
    <3> SUFFICES ASSUME NEW k \in DOMAIN weights, weights'[k] * unit > weights[k] * unit'
                 PROVE  \E h \in DOMAIN weights \ {k} :
                           ArmOf(k).won * ArmOf(h).seen > ArmOf(h).won * ArmOf(k).seen
      OBVIOUS
    <3> DEFINE decided == Decide(ArmOf(i), ArmOf(j), ExperimentBudget)
               action == IF k = j THEN decided ELSE "continue"
    <3>1. weights'[k] = Reweighted(weights[k], action) /\ unit' = 2 * unit
      BY <2>2 DEF Optimize
    <3>2. decided = "scale" => Beats(ArmOf(j), ArmOf(i))
      BY ScaleBeats
    <3>3. action = "scale" => decided = "scale" /\ k = j
      OBVIOUS
    <3> HIDE DEF decided, action
    <3>4. /\ weights'[k] \in Nat /\ weights[k] \in Nat /\ unit \in Nat \ {0}
          /\ weights'[k] > 2 * weights[k] => action = "scale"
      BY <1>1, <3>1, ReweightedGrows DEF WeightsInv
    <3>5. weights'[k] > 2 * weights[k]
      BY <3>1, <3>4, TwiceAsMuch
    <3> QED
      BY <2>2, <3>2, <3>3, <3>4, <3>5 DEF Beats, Exceeds
  <2> QED
    BY <1>1, <2>1, <2>2
       DEF ContentNext, contentVars, Write, Authorize, Approve, GovernedPublish, Collect
<1> QED
  BY <1>1, WeightsInitially, WeightsPreserved, PTL DEF ContentSpec, WinnersGain
----------------------------------------------------------------------------
(* Induction, as the least counterexample.                                 *)

\* A bounded set of natural numbers has a least one: the intervals up to its
\* members are sets of which one is the smallest.
LEMMA Least ==
  ASSUME NEW N \in Nat, NEW B \in SUBSET (0..N), B # {}
  PROVE  \E n \in B : \A m \in B : n <= m
<1> DEFINE F == {1..n : n \in B}
<1>1. F \subseteq FiniteSubsetsOf(1..N) /\ F # {}
  <2>1. IsFiniteSet(1..N)
    BY FS_Interval
  <2>2. \A n \in B : 1..n \in SUBSET (1..N)
    <3> SUFFICES ASSUME NEW n \in B, NEW k \in 1..n PROVE k \in 1..N
      OBVIOUS
    <3>1. n \in 0..N
      OBVIOUS
    <3> QED
      BY <3>1
  <2>3. F \subseteq SUBSET (1..N) /\ F # {}
    BY <2>2
  <2> HIDE DEF F
  <2> QED
    BY <2>1, <2>3, FS_FiniteSubsetsOfFinite
<1>2. PICK s \in F : \A t \in F : <<t, s>> \notin StrictSubsetOrdering(1..N)
  <2> HIDE DEF F
  <2> QED
    BY <1>1, WFMin, FS_StrictSubsetOrderingWellFounded
<1>3. PICK n \in B : s = 1..n
  BY <1>2
<1>4. ASSUME NEW m \in B, m < n PROVE FALSE
  <2>1. m \in Nat /\ n \in Nat
    OBVIOUS
  <2>2. 1..m \subseteq 1..n
    BY <1>4, <2>1
  <2>3. n \in 1..n /\ n \notin 1..m
    BY <1>4, <2>1
  <2>4. 1..m \in F /\ 1..m \in SUBSET (1..N) /\ 1..n \in SUBSET (1..N)
    OBVIOUS
  <2> HIDE DEF F
  <2> QED
    BY <1>2, <1>3, <2>2, <2>3, <2>4 DEF StrictSubsetOrdering
<1> QED
  BY <1>4

----------------------------------------------------------------------------
(* Ranks.  When each element of a finite set has those ahead of it in a    *)
(* total order, their numbers are 0, 1, 2 and so on.                       *)

Order(S, ahead) ==
    /\ ahead \in [S -> SUBSET S]
    /\ \A i \in S : i \notin ahead[i]
    /\ \A i \in S : \A j \in ahead[i] : ahead[j] \subseteq ahead[i]
    /\ \A i, j \in S : i # j => i \in ahead[j] \/ j \in ahead[i]
Ranks(S, ahead) == [i \in S |-> Cardinality(ahead[i])]

LEMMA AheadIsFewer ==
  ASSUME NEW S, IsFiniteSet(S), NEW ahead, Order(S, ahead), NEW i \in S, NEW j \in ahead[i]
  PROVE  /\ j \in S /\ Cardinality(ahead[i]) \in Nat /\ Cardinality(ahead[j]) \in Nat
         /\ Cardinality(ahead[j]) < Cardinality(ahead[i])
<1>1. j \in S /\ ahead[j] \in SUBSET ahead[i] /\ j \notin ahead[j] /\ ahead[i] \in SUBSET S
  BY DEF Order
<1>2. IsFiniteSet(ahead[i])
  BY <1>1, FS_Subset
<1>3. IsFiniteSet(ahead[j]) /\ Cardinality(ahead[j]) <= Cardinality(ahead[i])
  BY <1>1, <1>2, FS_Subset
<1>4. Cardinality(ahead[i]) # Cardinality(ahead[j])
  BY <1>1, <1>2, FS_Subset
<1> QED
  BY <1>1, <1>2, <1>3, <1>4, FS_CardinalityType

LEMMA RanksAre ==
  ASSUME NEW S, IsFiniteSet(S), NEW ahead, Order(S, ahead)
  PROVE  Ranks(S, ahead) \in Bijection(S, 0..(Cardinality(S) - 1))
<1> DEFINE rank == Ranks(S, ahead)
           T == 0..(Cardinality(S) - 1)
<1>1. Cardinality(S) \in Nat
  BY FS_CardinalityType
<1>2. IsFiniteSet(T) /\ Cardinality(T) = Cardinality(S)
  <2>1. 0 \in Int /\ Cardinality(S) - 1 \in Int
    BY <1>1
  <2> QED
    BY <1>1, <2>1, FS_Interval
<1>3. ASSUME NEW i \in S PROVE rank[i] \in T
  <2>1. ahead[i] \in SUBSET S /\ i \notin ahead[i]
    BY DEF Order
  <2>2. IsFiniteSet(ahead[i]) /\ Cardinality(ahead[i]) <= Cardinality(S)
    BY <2>1, FS_Subset
  <2>3. Cardinality(ahead[i]) # Cardinality(S)
    BY <2>1, FS_Subset
  <2>4. Cardinality(ahead[i]) \in Nat /\ rank[i] = Cardinality(ahead[i])
    BY <2>2, FS_CardinalityType DEF Ranks
  <2> QED
    BY <1>1, <2>2, <2>3, <2>4
<1>4. ASSUME NEW i \in S, NEW j \in S, rank[i] = rank[j] PROVE i = j
  <2>1. Cardinality(ahead[i]) = Cardinality(ahead[j])
    BY <1>4 DEF Ranks
  <2>2. CASE j \in ahead[i]
    BY <2>1, <2>2, AheadIsFewer
  <2>3. CASE i \in ahead[j]
    BY <2>1, <2>3, AheadIsFewer
  <2> QED
    BY <2>2, <2>3 DEF Order
<1>5. rank \in Injection(S, T)
  <2>1. rank \in [S -> T]
    BY <1>3 DEF Ranks
  <2> HIDE DEF rank, T
  <2> QED
    BY <1>4, <2>1 DEF Injection, IsInjective
<1> HIDE DEF rank, T
<1>6. rank \in Surjection(S, T)
  BY <1>2, <1>5, FS_Injection
<1> QED
  BY <1>5, <1>6 DEF Bijection, rank, T

\* As many elements as one likes are ahead of the others.
LEMMA FirstFew ==
  ASSUME NEW S, IsFiniteSet(S), NEW ahead, Order(S, ahead),
         NEW n \in Nat, n <= Cardinality(S)
  PROVE  Cardinality({i \in S : Cardinality(ahead[i]) < n}) = n
<1> DEFINE F == {i \in S : Cardinality(ahead[i]) < n}
           rank == Ranks(S, ahead)
           few == [i \in F |-> rank[i]]
           N == 0..(n - 1)
<1>0. Cardinality(S) \in Nat
  BY FS_CardinalityType
<1>1. /\ rank \in [S -> 0..(Cardinality(S) - 1)]
      /\ \A i, j \in S : rank[i] = rank[j] => i = j
      /\ \A k \in 0..(Cardinality(S) - 1) : \E i \in S : rank[i] = k
  BY RanksAre DEF Bijection, Injection, IsInjective, Surjection
<1>2. \A i \in S : rank[i] = Cardinality(ahead[i])
  BY DEF Ranks
<1> HIDE DEF rank
<1>3. few \in Injection(F, N)
  <2>1. \A i \in F : i \in S /\ rank[i] \in N
    BY <1>0, <1>1, <1>2
  <2> QED
    BY <1>1, <2>1 DEF Injection, IsInjective
<1>4. few \in Surjection(F, N)
  <2>1. ASSUME NEW k \in N PROVE \E i \in F : few[i] = k
    <3>1. k \in 0..(Cardinality(S) - 1) /\ k < n
      BY <1>0
    <3>2. PICK i \in S : rank[i] = k
      BY <1>1, <3>1
    <3>3. i \in F
      BY <1>2, <3>1, <3>2
    <3> QED
      BY <3>2, <3>3
  <2> HIDE DEF F, N
  <2> QED
    BY <1>3, <2>1 DEF Injection, Surjection
<1>5. IsFiniteSet(N) /\ Cardinality(N) = n
  <2>1. 0 \in Int /\ n - 1 \in Int
    OBVIOUS
  <2> QED
    BY <2>1, FS_Interval
<1> HIDE DEF F, N, few
<1>6. Cardinality(F) = Cardinality(N)
  BY <1>3, <1>4, <1>5, FS_Injection
<1> QED
  BY <1>5, <1>6 DEF F
----------------------------------------------------------------------------
(* The plan.  What rounding down cuts off the shares adds up to fewer      *)
(* posts than there are pillars that lose something, and they go to the    *)
(* first of these.                                                         *)

LEMMA Divided ==
  ASSUME NEW a \in Int, NEW w \in Int, w > 0, a >= 0
  PROVE  /\ a \div w \in Nat /\ a % w \in Nat /\ a % w < w
         /\ a = w * (a \div w) + (a % w)
<1>1. a = w * (a \div w) + (a % w)
  OBVIOUS
<1>2. a \div w \in Int /\ a % w \in Int
  OBVIOUS
<1>3. a \div w >= 0 /\ 0 <= a % w /\ a % w < w
  OBVIOUS
<1> QED
  BY <1>1, <1>2, <1>3

LEMMA FewerThan ==
  ASSUME NEW w \in Int, w > 0, NEW n \in Nat, NEW s \in Int,
         0 <= w * s, w * s <= (w - 1) * n
  PROVE  s \in Nat /\ s <= n
<1>1. ASSUME s < 0 PROVE FALSE
  BY <1>1
<1>2. ASSUME s > n PROVE FALSE
  <2>1. w * s >= w * (n + 1)
    BY <1>2
  <2>2. w * (n + 1) = w * n + w /\ (w - 1) * n = w * n - n
    OBVIOUS
  <2>3. w * n \in Int
    OBVIOUS
  <2> QED
    BY <2>1, <2>2, <2>3
<1> QED
  BY <1>1, <1>2

\* The pillars that lose a part of a post to rounding.
Cut == {i \in DOMAIN weights : Remainder(i) > 0}
Wholes == [i \in DOMAIN weights |-> Whole(i)]
Remainders == [i \in DOMAIN weights |-> Remainder(i)]

LEMMA WeightsAre ==
  ASSUME WeightsInv, weights # <<>>
  PROVE  /\ IsFiniteSet(DOMAIN weights) /\ \A i \in DOMAIN weights : weights[i] \in Nat \ {0}
         /\ SumOfWeights = Total(weights, DOMAIN weights)
         /\ SumOfWeights \in Int /\ SumOfWeights > 0
<1> DEFINE D == DOMAIN weights
<1>1. D = 1..Len(StartWeights) /\ Len(StartWeights) \in Nat
  BY ContentAssumption DEF WeightsInv
<1>2. IsFiniteSet(D)
  BY <1>1, FS_Interval
<1>3. \A i \in D : weights[i] \in Nat \ {0}
  BY DEF WeightsInv
<1>4. SumOfWeights = Total(weights, D)
  BY <1>2, FoldIsTotal DEF SumOfWeights, SumOf, FoldFunction
<1>5. D # {}
  <2>1. SUFFICES ASSUME D = {} PROVE FALSE
    OBVIOUS
  <2>2. Len(StartWeights) = 0
    BY <1>1, <2>1
  <2>3. weights = [i \in 1..0 |-> 0]
    BY <2>1 DEF WeightsInv
  <2> QED
    BY <2>3
<1>6. PICK i \in D : TRUE
  BY <1>5
<1>7. Total(weights, {i}) = weights[i] /\ Total(weights, {i}) <= Total(weights, D)
  <2>1. Total(weights, {i}) = weights[i]
    BY <1>3, TotalOne
  <2> HIDE DEF D
  <2>2. {i} \subseteq D /\ (\A x \in D : weights[x] \in Nat) /\ \A x \in {i} : weights[x] = weights[x]
    BY <1>3
  <2> QED
    BY <1>2, <2>1, <2>2, TotalGrows
<1>8. Total(weights, D) \in Int
  BY <1>2, <1>3, TotalIsInt
<1> QED
  BY <1>2, <1>3, <1>4, <1>7, <1>8

\* The parts that were cut off come to the posts left to spread.
LEMMA SpareIsFew ==
  ASSUME WeightsInv, weights # <<>>
  PROVE  /\ \A i \in DOMAIN weights :
               /\ Whole(i) \in Nat /\ Remainder(i) \in Nat /\ Remainder(i) < SumOfWeights
               /\ weights[i] * PlanCount = SumOfWeights * Whole(i) + Remainder(i)
         /\ Spare \in Nat /\ Spare <= Cardinality(Cut)
         /\ Spare = PlanCount - Total(Wholes, DOMAIN weights)
<1> DEFINE D == DOMAIN weights
           W == SumOfWeights
           C == PlanCount
           parts == [i \in D |-> weights[i] * C]
           bigs == [i \in D |-> W * Whole(i)]
<1>1. /\ IsFiniteSet(D) /\ W = Total(weights, D) /\ W \in Int /\ W > 0 /\ C \in Nat
      /\ \A i \in D : weights[i] \in Nat \ {0}
  BY WeightsAre, ContentAssumption
<1>2. ASSUME NEW i \in D
      PROVE  /\ Whole(i) \in Nat /\ Remainder(i) \in Nat /\ Remainder(i) < W
             /\ weights[i] * C = W * Whole(i) + Remainder(i)
  <2> DEFINE a == weights[i] * C
  <2>1. a \in Int /\ a >= 0
    BY <1>1
  <2>2. Whole(i) = a \div W /\ Remainder(i) = a % W
    BY DEF Whole, Remainder
  <2> HIDE DEF W, C, a
  <2>3. /\ a \div W \in Nat /\ a % W \in Nat /\ a % W < W
        /\ a = W * (a \div W) + (a % W)
    BY <1>1, <2>1, Divided
  <2>4. /\ Whole(i) \in Nat /\ Remainder(i) \in Nat /\ Remainder(i) < W
        /\ a = W * Whole(i) + Remainder(i)
    BY <2>2, <2>3
  <2> QED
    BY <2>4 DEF a
<1>3. Spare = C - Total(Wholes, D)
  BY <1>1, FoldIsTotal DEF Spare, FoldFunction, Wholes
<1> HIDE DEF W, C, D
<1>4. /\ Total(Wholes, D) \in Int /\ Total(Remainders, D) \in Int
      /\ Total(Remainders, D) >= 0
  <2>1. \A i \in D : Wholes[i] \in Int /\ Remainders[i] \in Nat
    BY <1>2 DEF Wholes, Remainders, D
  <2>2. Total(Remainders, D) \in Nat
    BY <1>1, <2>1, TotalIsNat
  <2> QED
    BY <1>1, <2>1, <2>2, TotalIsInt
<1>5. C * W = W * Total(Wholes, D) + Total(Remainders, D)
  <2>1. \A i \in D : weights[i] \in Int /\ parts[i] = C * weights[i]
    BY <1>1
  <2>2. Total(parts, D) = C * W
    <3> HIDE DEF parts
    <3> QED
      BY <1>1, <2>1, TotalTimes
  <2>3. \A i \in D : Wholes[i] \in Int /\ bigs[i] = W * Wholes[i]
    BY <1>2 DEF Wholes, D
  <2>4. Total(bigs, D) = W * Total(Wholes, D)
    <3> HIDE DEF bigs
    <3> QED
      BY <1>1, <2>3, TotalTimes
  <2>5. \A i \in D : bigs[i] \in Int /\ Remainders[i] \in Int /\ parts[i] = bigs[i] + Remainders[i]
    <3> SUFFICES ASSUME NEW i \in D
                 PROVE  bigs[i] \in Int /\ Remainders[i] \in Int /\ parts[i] = bigs[i] + Remainders[i]
      OBVIOUS
    <3>1. bigs[i] = W * Whole(i) /\ Remainders[i] = Remainder(i) /\ parts[i] = weights[i] * C
      BY DEF Remainders, D
    <3>2. W * Whole(i) \in Int
      BY <1>1, <1>2
    <3> QED
      BY <1>2, <3>1, <3>2
  <2>6. Total(parts, D) = Total(bigs, D) + Total(Remainders, D)
    <3> HIDE DEF parts, bigs
    <3> QED
      BY <1>1, <2>5, TotalPlus
  <2> QED
    BY <2>2, <2>4, <2>6
<1>6. W * Spare = Total(Remainders, D)
  <2> DEFINE t == Total(Wholes, D)
             r == Total(Remainders, D)
  <2>1. t \in Int /\ r \in Int /\ C \in Int /\ W \in Int /\ C * W = W * t + r /\ Spare = C - t
    BY <1>1, <1>3, <1>4, <1>5
  <2> HIDE DEF t, r
  <2>2. W * (C - t) = C * W - W * t /\ W * t \in Int
    BY <2>1
  <2>3. W * (C - t) = r
    BY <2>1, <2>2
  <2> QED
    BY <2>1, <2>3 DEF r
<1>7. /\ IsFiniteSet(Cut) /\ Cardinality(Cut) \in Nat
      /\ Total(Remainders, D) <= (W - 1) * Cardinality(Cut)
  <2>1. IsFiniteSet(Cut) /\ Cut \subseteq D
    BY <1>1, FS_Subset DEF Cut, D
  <2>2. \A i \in D : /\ Remainders[i] \in Int
                     /\ Remainders[i] = (IF i \in Cut THEN Remainders[i] ELSE 0)
    BY <1>2 DEF Cut, D, Remainders
  <2>3. Total(Remainders, Cut) = Total(Remainders, D)
    BY <1>1, <2>1, <2>2, TotalFilter
  <2>4. \A i \in Cut : Remainders[i] \in Int /\ Remainders[i] <= W - 1
    BY <1>1, <1>2, <2>1 DEF Remainders, D
  <2>5. W - 1 \in Int
    BY <1>1
  <2>6. Total(Remainders, Cut) <= (W - 1) * Cardinality(Cut)
    BY <2>1, <2>4, <2>5, TotalAtMost
  <2> QED
    BY <2>1, <2>3, <2>6, FS_CardinalityType
<1>8. Spare \in Int
  BY <1>1, <1>3, <1>4
<1>9. Spare \in Nat /\ Spare <= Cardinality(Cut)
  BY <1>1, <1>4, <1>6, <1>7, <1>8, FewerThan
<1> QED
  BY <1>2, <1>3, <1>9 DEF D, W, C
Aheads == [i \in DOMAIN weights |-> Ahead(i)]
Shares == [i \in DOMAIN weights |-> Share(i)]
Extra == {i \in DOMAIN weights : Cardinality(Ahead(i)) < Spare}

LEMMA AheadIsAnOrder ==
  ASSUME WeightsInv, weights # <<>>
  PROVE  Order(DOMAIN weights, Aheads)
<1> DEFINE D == DOMAIN weights
<1>1. \A i \in D : i \in Int /\ Remainder(i) \in Int
  BY SpareIsFew DEF WeightsInv
<1>2. \A i, j \in D : j \in Aheads[i] <=>
        Remainder(j) > Remainder(i) \/ (Remainder(j) = Remainder(i) /\ j < i)
  BY DEF Aheads, Ahead
<1>3. Aheads \in [D -> SUBSET D]
  BY DEF Aheads, Ahead
<1>4. \A i \in D : i \notin Aheads[i]
  BY <1>1, <1>2
<1>5. \A i, j \in D : i # j => i \in Aheads[j] \/ j \in Aheads[i]
  BY <1>1, <1>2
<1>6. ASSUME NEW i \in D, NEW j \in Aheads[i], NEW k \in Aheads[j] PROVE k \in Aheads[i]
  <2>1. j \in D /\ k \in D
    BY <1>3
  <2>2. Remainder(j) > Remainder(i) \/ (Remainder(j) = Remainder(i) /\ j < i)
    BY <1>2, <2>1
  <2>3. Remainder(k) > Remainder(j) \/ (Remainder(k) = Remainder(j) /\ k < j)
    BY <1>2, <2>1
  <2>4. Remainder(k) > Remainder(i) \/ (Remainder(k) = Remainder(i) /\ k < i)
    BY <1>1, <2>1, <2>2, <2>3
  <2> QED
    BY <1>2, <2>1, <2>4
<1> HIDE DEF D
<1>7. \A i \in D : \A j \in Aheads[i] : Aheads[j] \subseteq Aheads[i]
  BY <1>6
<1> QED
  BY <1>3, <1>4, <1>5, <1>7 DEF Order, D

\* Every post of the plan has a pillar.
LEMMA SharesAddUp ==
  ASSUME WeightsInv, weights # <<>>
  PROVE  /\ Shares \in [DOMAIN weights -> Nat]
         /\ Total(Shares, DOMAIN weights) = PlanCount
<1> DEFINE D == DOMAIN weights
           one == [i \in D |-> 1]
           extra == [i \in D |-> IF i \in Extra THEN 1 ELSE 0]
<1>1. /\ IsFiniteSet(D) /\ PlanCount \in Nat
      /\ \A i \in D : Whole(i) \in Nat
      /\ Spare \in Nat /\ Spare <= Cardinality(Cut)
      /\ Spare = PlanCount - Total(Wholes, D)
  BY WeightsAre, SpareIsFew, ContentAssumption
<1>2. Spare <= Cardinality(D)
  <2>1. Cut \in SUBSET D
    BY DEF Cut
  <2>2. Cardinality(Cut) <= Cardinality(D) /\ IsFiniteSet(Cut)
    BY <1>1, <2>1, FS_Subset
  <2>3. Cardinality(Cut) \in Nat /\ Cardinality(D) \in Nat
    BY <1>1, <2>2, FS_CardinalityType
  <2> QED
    BY <1>1, <2>2, <2>3
<1>3. Cardinality(Extra) = Spare
  <2>1. Cardinality({i \in D : Cardinality(Aheads[i]) < Spare}) = Spare
    BY <1>1, <1>2, AheadIsAnOrder, FirstFew
  <2>2. Extra = {i \in D : Cardinality(Aheads[i]) < Spare}
    BY DEF Extra, Aheads
  <2> QED
    BY <2>1, <2>2
<1>4. Total(extra, D) = Spare
  <2>1. Extra \subseteq D
    BY DEF Extra
  <2>2. IsFiniteSet(Extra)
    BY <1>1, <2>1, FS_Subset
  <2>3. \A i \in D : extra[i] \in Int /\ extra[i] = (IF i \in Extra THEN one[i] ELSE 0)
    OBVIOUS
  <2>4. \A i \in Extra : one[i] = 1
    BY <2>1
  <2> HIDE DEF one, extra, D
  <2>5. Total(one, Extra) = Total(extra, D)
    BY <1>1, <2>1, <2>3, TotalFilter
  <2>6. Total(one, Extra) = Cardinality(Extra)
    BY <2>2, <2>4, TotalOfOnes
  <2> QED
    BY <1>3, <2>5, <2>6
<1>5. ASSUME NEW i \in D
      PROVE  /\ Wholes[i] \in Int /\ extra[i] \in Int /\ Shares[i] \in Nat
             /\ Shares[i] = Wholes[i] + extra[i]
  <2>1. Wholes[i] = Whole(i) /\ Shares[i] = Share(i) /\ (i \in Extra <=> Cardinality(Ahead(i)) < Spare)
    BY DEF Wholes, Shares, Extra
  <2> QED
    BY <1>1, <2>1 DEF Share
<1>6. Total(Shares, D) = Total(Wholes, D) + Total(extra, D)
  <2> HIDE DEF extra, D
  <2> QED
    BY <1>1, <1>5, TotalPlus
<1>7. Total(Wholes, D) \in Int
  BY <1>1, <1>5, TotalIsInt
<1>8. Shares \in [D -> Nat]
  BY <1>5 DEF Shares
<1> QED
  BY <1>1, <1>4, <1>6, <1>7, <1>8

\* A pillar that loses nothing to rounding gets nothing on top.
LEMMA SharesAreFair ==
  ASSUME WeightsInv, NEW i \in DOMAIN weights
  PROVE  /\ Share(i) \in Nat
         /\ (Share(i) - 1) * SumOfWeights < weights[i] * PlanCount
         /\ weights[i] * PlanCount < (Share(i) + 1) * SumOfWeights
<1> DEFINE W == SumOfWeights
           a == weights[i] * PlanCount
           q == Whole(i)
           r == Remainder(i)
<1>0. weights # <<>>
  OBVIOUS
<1>1. /\ W \in Int /\ W > 0 /\ q \in Nat /\ r \in Nat /\ r < W /\ a = W * q + r
      /\ Spare \in Nat /\ Spare <= Cardinality(Cut) /\ IsFiniteSet(DOMAIN weights)
  BY <1>0, WeightsAre, SpareIsFew
<1>2. ASSUME r = 0 PROVE ~ Cardinality(Ahead(i)) < Spare
  <2>1. \A j \in DOMAIN weights : Remainder(j) \in Nat
    BY <1>0, SpareIsFew
  <2>2. Cut \in SUBSET Ahead(i) /\ Ahead(i) \in SUBSET DOMAIN weights
    BY <1>2, <2>1 DEF Cut, Ahead
  <2>3. IsFiniteSet(Ahead(i))
    BY <1>1, <2>2, FS_Subset
  <2>4. Cardinality(Cut) <= Cardinality(Ahead(i)) /\ IsFiniteSet(Cut)
    BY <2>2, <2>3, FS_Subset
  <2>5. Cardinality(Cut) \in Nat /\ Cardinality(Ahead(i)) \in Nat
    BY <2>3, <2>4, FS_CardinalityType
  <2> QED
    BY <1>1, <2>4, <2>5
<1>3. (Share(i) = q + 1 /\ r > 0) \/ Share(i) = q
  BY <1>1, <1>2 DEF Share
<1> HIDE DEF W, a, q, r
<1>4. W * q \in Int /\ (q + 1) * W = W * q + W /\ q * W = W * q /\ (q - 1) * W = W * q - W
      /\ (q + 2) * W = W * q + W + W
  BY <1>1
<1>5. CASE Share(i) = q + 1 /\ r > 0
  <2>1. Share(i) - 1 = q /\ Share(i) + 1 = q + 2 /\ Share(i) \in Nat
    BY <1>1, <1>5
  <2>2. q * W < a /\ a < (q + 2) * W
    BY <1>1, <1>4, <1>5
  <2> QED
    BY <2>1, <2>2 DEF W, a
<1>6. CASE Share(i) = q
  <2>1. (q - 1) * W < a /\ a < (q + 1) * W
    BY <1>1, <1>4
  <2> QED
    BY <1>1, <1>6, <2>1 DEF W, a
<1> QED
  BY <1>3, <1>5, <1>6
----------------------------------------------------------------------------
(* FlattenSeq() of the community modules, of so many posts for each pillar *)
(* in turn.                                                                *)

Posts(share, N) == [i \in 1..N |-> [k \in 1..share[i] |-> i]]
Flat(g, seqs, n) ==
    g = [i \in 1..n |-> IF i = 1 THEN seqs[i] ELSE g[i - 1] \o seqs[i]]
UpTo(share, n) == Total(share, 1..n)

LEMMA FlatExists ==
  ASSUME NEW N \in Nat, NEW seqs
  PROVE  \E g : Flat(g, seqs, N)
<1> DEFINE B == {n \in 0..N : ~ \E g : Flat(g, seqs, n)}
<1>1. SUFFICES ASSUME B # {} PROVE FALSE
  BY <1>1
<1>2. PICK n \in B : \A m \in B : n <= m
  <2>1. B \in SUBSET (0..N)
    OBVIOUS
  <2> HIDE DEF B
  <2> QED
    BY <1>1, <2>1, Least
<1>3. n \in 0..N
  OBVIOUS
<1>4. n # 0
  <2>1. Flat([i \in 1..0 |-> 0], seqs, 0)
    BY DEF Flat
  <2> QED
    BY <1>2, <2>1
<1>5. PICK g : Flat(g, seqs, n - 1)
  <2>1. n - 1 \in 0..N /\ n - 1 \notin B
    BY <1>2, <1>3, <1>4
  <2> QED
    BY <2>1
<1> DEFINE h == [i \in 1..n |-> IF i < n THEN g[i]
                               ELSE IF i = 1 THEN seqs[i] ELSE g[i - 1] \o seqs[i]]
<1>6. Flat(h, seqs, n)
  <2> SUFFICES ASSUME NEW i \in 1..n
               PROVE  h[i] = IF i = 1 THEN seqs[i] ELSE h[i - 1] \o seqs[i]
    BY DEF Flat
  <2>1. CASE i < n
    <3>1. i \in 1..(n - 1) /\ (i # 1 => i - 1 \in 1..n /\ i - 1 < n)
      BY <1>3, <2>1
    <3>2. g[i] = IF i = 1 THEN seqs[i] ELSE g[i - 1] \o seqs[i]
      BY <1>5, <3>1 DEF Flat
    <3> QED
      BY <2>1, <3>1, <3>2
  <2>2. CASE i = n
    <3>1. i # 1 => i - 1 \in 1..n /\ i - 1 < n
      BY <1>3, <2>2
    <3>2. i # 1 => h[i - 1] = g[i - 1]
      BY <3>1
    <3> QED
      BY <1>3, <2>2, <3>2
  <2> QED
    BY <1>3, <2>1, <2>2
<1> HIDE DEF h
<1> QED
  BY <1>2, <1>6

LEMMA UpToNext ==
  ASSUME NEW N \in Nat, NEW share \in [1..N -> Nat], NEW n \in 1..N
  PROVE  /\ UpTo(share, n - 1) \in Nat /\ UpTo(share, n) \in Nat
         /\ UpTo(share, n) = UpTo(share, n - 1) + share[n]
<1>1. n \in Int /\ n - 1 \in Int /\ 1 \in Int
  OBVIOUS
<1>2. IsFiniteSet(1..n) /\ IsFiniteSet(1..(n - 1))
  BY <1>1, FS_Interval
<1>3. 1..n = (1..(n - 1)) \cup {n} /\ n \notin 1..(n - 1)
  OBVIOUS
<1>4. \A i \in 1..n : share[i] \in Nat
  OBVIOUS
<1>5. UpTo(share, n - 1) \in Nat /\ UpTo(share, n) \in Nat
  BY <1>2, <1>3, <1>4, TotalIsNat DEF UpTo
<1>6. \A i \in (1..(n - 1)) \cup {n} : share[i] \in Int
  BY <1>3, <1>4
<1>7. Total(share, (1..(n - 1)) \cup {n}) = Total(share, 1..(n - 1)) + share[n]
  BY <1>2, <1>3, <1>6, TotalAdd
<1> QED
  BY <1>3, <1>5, <1>7 DEF UpTo

\* The posts of the first n pillars, each pillar's in one block.
Blocks(s, share, n) ==
    /\ s \in Seq(Nat) /\ Len(s) = UpTo(share, n)
    /\ \A k \in 1..Len(s) : s[k] \in 1..n
    /\ \A i \in 1..n : /\ UpTo(share, i) <= UpTo(share, n)
                       /\ \A k \in 1..Len(s) :
                             s[k] = i <=> UpTo(share, i - 1) < k /\ k <= UpTo(share, i)

LEMMA JoinedAt ==
  ASSUME NEW s \in Seq(Nat), NEW r \in Seq(Nat)
  PROVE  \A i \in 1..(Len(s) + Len(r)) :
            (s \o r)[i] = IF i <= Len(s) THEN s[i] ELSE r[i - Len(s)]
BY ConcatProperties

LEMMA OneBlockMore ==
  ASSUME NEW N \in Nat, NEW share \in [1..N -> Nat], NEW n \in 1..N, n # 1,
         NEW s, Blocks(s, share, n - 1), NEW r, r = [k \in 1..share[n] |-> n]
  PROVE  Blocks(s \o r, share, n)
<1> DEFINE a == UpTo(share, n - 1)
           b == UpTo(share, n)
           t == s \o r
<1>1. a \in Nat /\ b \in Nat /\ b = a + share[n] /\ share[n] \in Nat /\ n \in Nat
  <2>1. a \in Nat /\ b \in Nat /\ b = a + share[n]
    BY UpToNext
  <2>2. share[n] \in Nat /\ n \in Nat
    OBVIOUS
  <2> QED
    BY <2>1, <2>2
<1>2. s \in Seq(Nat) /\ Len(s) = a
  BY DEF Blocks
<1>3. r \in Seq(Nat) /\ Len(r) = share[n] /\ \A k \in 1..share[n] : r[k] = n
  BY <1>1
<1> HIDE DEF a, b
<1>4. t \in Seq(Nat) /\ Len(t) = b
  BY <1>1, <1>2, <1>3
<1>5. ASSUME NEW k \in 1..b PROVE t[k] = IF k <= a THEN s[k] ELSE r[k - a]
  <2>1. k \in 1..(Len(s) + Len(r))
    BY <1>1, <1>2, <1>3
  <2>2. \A i \in 1..(Len(s) + Len(r)) :
           t[i] = IF i <= Len(s) THEN s[i] ELSE r[i - Len(s)]
    BY <1>2, <1>3, JoinedAt
  <2> QED
    BY <1>2, <2>1, <2>2
<1>6. \A k \in 1..b : k \in Nat /\ (k <= a => k \in 1..a) /\ (k > a => k - a \in 1..share[n])
  BY <1>1
<1> HIDE DEF t
<1>7. ASSUME NEW k \in 1..b
      PROVE  (k <= a => t[k] = s[k] /\ s[k] \in 1..(n - 1)) /\ (k > a => t[k] = n)
  <2>1. CASE k <= a
    <3>1. k \in 1..Len(s) /\ k \in Nat
      BY <1>2, <1>6, <2>1
    <3>2. s[k] \in 1..(n - 1)
      BY <3>1 DEF Blocks
    <3> QED
      BY <1>1, <1>5, <2>1, <3>1, <3>2
  <2>2. CASE k > a
    <3>1. k - a \in 1..share[n] /\ k \in Nat
      BY <1>6, <2>2
    <3>2. ~ k <= a
      BY <1>1, <2>2, <3>1
    <3> QED
      BY <1>3, <1>5, <2>2, <3>1, <3>2
  <2> QED
    BY <1>1, <1>6, <2>1, <2>2
<1>8. ASSUME NEW k \in 1..b PROVE t[k] \in 1..n
  <2>1. (k <= a => t[k] \in 1..(n - 1)) /\ (k > a => t[k] = n) /\ k \in Nat
    BY <1>6, <1>7
  <2>2. n \in 1..n /\ \A x \in 1..(n - 1) : x \in 1..n
    OBVIOUS
  <2> QED
    BY <1>1, <2>1, <2>2
<1>9. ASSUME NEW i \in 1..n
      PROVE  /\ UpTo(share, i) <= b
             /\ \A k \in 1..b : t[k] = i <=> UpTo(share, i - 1) < k /\ k <= UpTo(share, i)
  <2>1. CASE i = n
    <3>1. UpTo(share, i) = b /\ UpTo(share, i - 1) = a
      BY <2>1 DEF a, b
    <3>2. \A k \in 1..b : (t[k] = n <=> a < k) /\ k <= b
      BY <1>1, <1>6, <1>7
    <3> QED
      BY <1>1, <2>1, <3>1, <3>2
  <2>2. CASE i # n
    <3>1. i \in 1..(n - 1) /\ i \in 1..N
      BY <1>1, <2>2
    <3>2. /\ UpTo(share, i) <= a
          /\ \A k \in 1..a : s[k] = i <=> UpTo(share, i - 1) < k /\ k <= UpTo(share, i)
      BY <1>2, <3>1 DEF Blocks, a
    <3>3. UpTo(share, i) \in Nat
      BY <3>1, UpToNext
    <3>4. ASSUME NEW k \in 1..b
          PROVE  t[k] = i <=> UpTo(share, i - 1) < k /\ k <= UpTo(share, i)
      <4>1. CASE k <= a
        BY <1>6, <1>7, <3>2, <4>1
      <4>2. CASE k > a
        <5>1. t[k] = n /\ k \in Nat
          BY <1>6, <1>7, <4>2
        <5>2. ~ k <= UpTo(share, i)
          BY <1>1, <3>2, <3>3, <4>2, <5>1
        <5> QED
          BY <2>2, <5>1, <5>2
      <4> QED
        BY <1>1, <1>6, <4>1, <4>2
    <3> QED
      BY <1>1, <3>2, <3>3, <3>4
  <2> QED
    BY <2>1, <2>2
<1> QED
  BY <1>4, <1>8, <1>9 DEF Blocks, b, t

LEMMA FlatIsBlocks ==
  ASSUME NEW N \in Nat, NEW share \in [1..N -> Nat],
         NEW g, Flat(g, Posts(share, N), N), NEW m \in 1..N
  PROVE  Blocks(g[m], share, m)
<1> DEFINE B == {n \in 0..N : n # 0 /\ ~ Blocks(g[n], share, n)}
<1>1. SUFFICES ASSUME B # {} PROVE FALSE
  BY <1>1
<1>2. PICK n \in B : \A k \in B : n <= k
  <2>1. B \in SUBSET (0..N)
    OBVIOUS
  <2> HIDE DEF B
  <2> QED
    BY <1>1, <2>1, Least
<1>3. n \in 1..N /\ ~ Blocks(g[n], share, n)
  BY <1>2
<1> DEFINE r == [k \in 1..share[n] |-> n]
<1>4. g[n] = IF n = 1 THEN r ELSE g[n - 1] \o r
  BY <1>3 DEF Flat, Posts
<1> HIDE DEF r
<1>5. CASE n = 1
  <2>1. UpTo(share, 0) = 0
    <3>1. 1..0 = {}
      OBVIOUS
    <3> QED
      BY <3>1, TotalEmpty DEF UpTo
  <2>2. UpTo(share, 1) = share[1] /\ share[1] \in Nat
    <3>1. UpTo(share, n) = UpTo(share, n - 1) + share[n]
      BY <1>3, UpToNext
    <3>2. share[1] \in Nat /\ n - 1 = 0
      BY <1>3, <1>5
    <3> QED
      BY <1>5, <2>1, <3>1, <3>2
  <2>3. g[n] \in Seq(Nat) /\ Len(g[n]) = share[1] /\ \A k \in 1..share[1] : g[n][k] = 1
    BY <1>4, <1>5, <2>2 DEF r
  <2>4. \A i \in 1..1 : i = 1 /\ i - 1 = 0
    OBVIOUS
  <2>5. Blocks(g[n], share, 1)
    BY <2>1, <2>2, <2>3, <2>4 DEF Blocks
  <2> QED
    BY <1>3, <1>5, <2>5
<1>6. CASE n # 1
  <2>1. n - 1 \in 0..N /\ n - 1 # 0 /\ n - 1 \notin B
    BY <1>2, <1>3, <1>6
  <2>2. Blocks(g[n - 1], share, n - 1)
    BY <2>1
  <2>3. Blocks(g[n - 1] \o r, share, n)
    BY <1>3, <1>6, <2>2, OneBlockMore DEF r
  <2> QED
    BY <1>3, <1>4, <1>6, <2>3
<1> QED
  BY <1>5, <1>6

LEMMA FlattenIsBlocks ==
  ASSUME NEW N \in Nat, N # 0, NEW share \in [1..N -> Nat]
  PROVE  Blocks(FlattenSeq(Posts(share, N)), share, N)
<1> DEFINE seqs == Posts(share, N)
           g == CHOOSE f : Flat(f, seqs, N)
<1>1. Len(seqs) = N
  <2>1. seqs \in [1..N -> {seqs[i] : i \in 1..N}]
    BY DEF Posts
  <2> HIDE DEF seqs
  <2> QED
    BY <2>1
<1> HIDE DEF seqs
<1>2. FlattenSeq(seqs) = g[N]
  BY <1>1 DEF FlattenSeq, Flat
<1>3. Flat(g, seqs, N)
  BY FlatExists
<1> HIDE DEF g
<1>4. N \in 1..N
  OBVIOUS
<1>5. Blocks(g[N], share, N)
  BY <1>3, <1>4, FlatIsBlocks DEF seqs
<1> QED
  BY <1>2, <1>5 DEF seqs

LEMMA PlanIsOfShares ==
  ASSUME WeightsInv, weights # <<>>
  PROVE  /\ Len(Plan) = PlanCount
         /\ \A i \in DOMAIN weights :
               Cardinality({k \in DOMAIN Plan : Plan[k].pillar = i}) = Share(i)
<1> DEFINE N == Len(StartWeights)
           s == FlattenSeq(Posts(Shares, N))
<1>1. DOMAIN weights = 1..N /\ N \in Nat
  BY ContentAssumption DEF WeightsInv
<1>2. Shares \in [1..N -> Nat] /\ UpTo(Shares, N) = PlanCount
  BY <1>1, SharesAddUp DEF UpTo
<1>3. N # 0
  <2> SUFFICES ASSUME N = 0 PROVE FALSE
    OBVIOUS
  <2>1. weights = [i \in 1..0 |-> 0]
    BY DEF WeightsInv
  <2> QED
    BY <2>1
<1>4. Blocks(s, Shares, N)
  BY <1>1, <1>2, <1>3, FlattenIsBlocks
<1>5. Posts(Shares, N) = [i \in DOMAIN weights |-> [k \in 1..Share(i) |-> i]]
  BY <1>1 DEF Posts, Shares
<1> DEFINE at(k) == Platforms[((k - 1) % Len(Platforms)) + 1]
<1>6. Plan = [k \in DOMAIN s |-> [pillar |-> s[k], platform |-> at(k)]]
  BY <1>5 DEF Plan
<1> HIDE DEF s, N, at
<1>7. DOMAIN s = 1..PlanCount /\ Len(s) = PlanCount /\ PlanCount \in Nat
  BY <1>2, <1>4, ContentAssumption DEF Blocks
<1>8. Len(Plan) = PlanCount
  <2>1. Plan \in [1..PlanCount -> {Plan[k] : k \in 1..PlanCount}]
    BY <1>6, <1>7
  <2> QED
    BY <1>7, <2>1
<1>9. ASSUME NEW i \in DOMAIN weights
      PROVE  Cardinality({k \in DOMAIN Plan : Plan[k].pillar = i}) = Share(i)
  <2> DEFINE a == UpTo(Shares, i - 1)
             b == UpTo(Shares, i)
             block == {k \in DOMAIN Plan : Plan[k].pillar = i}
  <2>1. a \in Nat /\ b \in Nat /\ b = a + Shares[i]
    BY <1>1, <1>2, UpToNext
  <2>2. Shares[i] = Share(i) /\ Shares[i] \in Nat
    BY <1>1, <1>2 DEF Shares
  <2>3. b <= PlanCount /\ \A k \in 1..PlanCount : s[k] = i <=> a < k /\ k <= b
    BY <1>1, <1>2, <1>4, <1>7 DEF Blocks
  <2>4. block = {k \in 1..PlanCount : s[k] = i}
    BY <1>6, <1>7
  <2> HIDE DEF a, b, block
  <2>5. block = (a + 1)..b
    BY <1>7, <2>1, <2>3, <2>4
  <2>6. a + 1 \in Int /\ b \in Int
    BY <2>1
  <2>7. Cardinality(block) = IF a + 1 > b THEN 0 ELSE b - (a + 1) + 1
    BY <2>5, <2>6, FS_Interval
  <2>8. Cardinality(block) = Share(i)
    BY <2>1, <2>2, <2>7
  <2> QED
    BY <2>8 DEF block
<1> QED
  BY <1>8, <1>9

\* Largest remainders: whatever the optimizer has made of the weights, a plan
\* has as many posts as were asked for, and each pillar the part of them it
\* weighs, rounded up or down: _allocate() and plan() (core.py).
THEOREM PlansAreProportional == ContentSpec => []PlanIsProportional
<1>1. ASSUME WeightsInv PROVE PlanIsProportional
  <2>1. weights # <<>> => Len(Plan) = PlanCount
    BY <1>1, PlanIsOfShares
  <2>2. ASSUME NEW i \in DOMAIN weights
        PROVE  LET posts == Cardinality({k \in DOMAIN Plan : Plan[k].pillar = i})
               IN  /\ (posts - 1) * SumOfWeights < weights[i] * PlanCount
                   /\ weights[i] * PlanCount < (posts + 1) * SumOfWeights
    <3>1. weights # <<>>
      BY <2>2
    <3>2. Cardinality({k \in DOMAIN Plan : Plan[k].pillar = i}) = Share(i)
      BY <1>1, <3>1, PlanIsOfShares
    <3> QED
      BY <1>1, <3>2, SharesAreFair
  <2> QED
    BY <2>1, <2>2 DEF PlanIsProportional
<1> QED
  BY <1>1, WeightsInitially, WeightsPreserved, PTL DEF ContentSpec
----------------------------------------------------------------------------
(* What the gate keeps.  FoldLeft() of the community modules recurses over *)
(* the subsets of the positions, taking the last position first.           *)

LEMMA MaxIsIn ==
  ASSUME NEW N \in Nat, NEW s \in SUBSET (1..N), s # {}
  PROVE  Max(s) \in s /\ \A y \in s : y <= Max(s)
<1> DEFINE B == {n \in 0..N : s \subseteq 1..n}
<1>1. PICK n \in B : \A m \in B : n <= m
  <2>1. B \in SUBSET (0..N) /\ N \in B
    OBVIOUS
  <2> HIDE DEF B
  <2> QED
    BY <2>1, Least
<1>2. n \in s
  <2> SUFFICES ASSUME n \notin s PROVE FALSE
    OBVIOUS
  <2>1. \A y \in s : y \in 1..(n - 1)
    OBVIOUS
  <2>2. n # 0
    <3>1. PICK y \in s : y \in 1..(n - 1)
      BY <2>1
    <3>2. n \in Int /\ y \in Int /\ 1 <= y /\ y <= n - 1
      BY <3>1
    <3> QED
      BY <3>2
  <2>3. n \in 0..N /\ n - 1 \in 0..N
    BY <2>2
  <2>4. s \subseteq 1..(n - 1)
    BY <2>1
  <2>5. n - 1 \in B
    BY <2>3, <2>4
  <2> QED
    BY <1>1, <2>3, <2>5
<1>3. \A y \in s : n >= y
  OBVIOUS
<1>4. \E x \in s : \A y \in s : x >= y
  BY <1>2, <1>3
<1>5. Max(s) \in s /\ \A y \in s : Max(s) >= y
  BY <1>4 DEF Max
<1> QED
  BY <1>5

\* g folds f over the positions of every subset of S, the last one first.
Folding(g, S, base, f) ==
    g = [s \in SUBSET S |-> IF s = {} THEN base ELSE f[<<g[s \ {Max(s)}], Max(s)>>]]

LEMMA FoldExists ==
  ASSUME NEW N \in Nat, NEW S \in SUBSET (1..N), NEW A, NEW base \in A,
         NEW f, \A acc \in A, k \in S : f[<<acc, k>>] \in A
  PROVE  \E g : Folding(g, S, base, f) /\ \A s \in SUBSET S : g[s] \in A
<1> DEFINE part(n) == S \cap 1..n
           good(n) == \E g : /\ Folding(g, part(n), base, f)
                             /\ \A s \in SUBSET part(n) : g[s] \in A
           B == {n \in 0..N : ~ good(n)}
<1>1. SUFFICES ASSUME B # {} PROVE FALSE
  <2>1. N \in 0..N /\ N \notin B
    <3>1. N \in 0..N
      OBVIOUS
    <3> HIDE DEF B
    <3> QED
      BY <1>1, <3>1
  <2>2. good(N)
    <3> HIDE DEF good
    <3> QED
      BY <2>1
  <2>3. part(N) = S
    OBVIOUS
  <2> QED
    BY <2>2, <2>3
<1>2. PICK n \in B : \A m \in B : n <= m
  <2>1. B \in SUBSET (0..N)
    OBVIOUS
  <2> HIDE DEF B
  <2> QED
    BY <1>1, <2>1, Least
<1>3. n \in 0..N /\ ~ good(n)
  BY <1>2
<1>4. n # 0
  <2>1. part(0) = {}
    OBVIOUS
  <2> DEFINE g == [s \in SUBSET {} |-> base]
  <2>2. Folding(g, {}, base, f) /\ \A s \in SUBSET {} : g[s] \in A
    BY DEF Folding
  <2> HIDE DEF g
  <2>3. good(0)
    BY <2>1, <2>2
  <2> QED
    BY <1>3, <2>3
<1> DEFINE P == part(n - 1)
           Q == part(n)
<1>5. PICK g : Folding(g, P, base, f) /\ \A s \in SUBSET P : g[s] \in A
  <2>1. n - 1 \in 0..N /\ ~ n <= n - 1
    <3> HIDE DEF good
    <3> QED
      BY <1>3, <1>4
  <2>2. n - 1 \notin B
    <3> HIDE DEF B
    <3> QED
      BY <1>2, <2>1
  <2>3. good(n - 1)
    <3> HIDE DEF good
    <3> QED
      BY <2>1, <2>2
  <2> QED
    BY <2>3
<1> DEFINE h == [s \in SUBSET Q |-> IF n \in s THEN f[<<g[s \ {n}], n>>] ELSE g[s]]
<1>6. ASSUME NEW s \in SUBSET Q
      PROVE  /\ h[s] = IF s = {} THEN base ELSE f[<<h[s \ {Max(s)}], Max(s)>>]
             /\ h[s] \in A
  <2>1. s \in SUBSET (1..N) /\ s \in SUBSET S /\ \A k \in s : k \in 1..n
    OBVIOUS
  <2>2. CASE n \in s
    <3>1. Max(s) = n
      <4>1. Max(s) \in s /\ n <= Max(s)
        BY <2>1, <2>2, MaxIsIn
      <4>2. Max(s) \in 1..n
        BY <2>1, <4>1
      <4> QED
        BY <1>3, <4>1, <4>2
    <3>2. s \ {n} \in SUBSET Q /\ n \notin s \ {n} /\ s \ {n} \in SUBSET P
      BY <1>3, <2>1
    <3>3. h[s] = f[<<g[s \ {n}], n>>] /\ h[s \ {n}] = g[s \ {n}]
      BY <2>2, <3>2
    <3>4. g[s \ {n}] \in A /\ n \in S
      BY <1>5, <2>1, <2>2, <3>2
    <3> HIDE DEF h
    <3> QED
      BY <2>2, <3>1, <3>3, <3>4
  <2>3. CASE n \notin s
    <3>1. s \in SUBSET P
      BY <1>3, <2>1, <2>3
    <3>2. s # {} => Max(s) \in s
      BY <2>1, MaxIsIn
    <3>3. h[s] = g[s] /\ (s # {} => h[s \ {Max(s)}] = g[s \ {Max(s)}])
      BY <2>3
    <3>4. g[s] = IF s = {} THEN base ELSE f[<<g[s \ {Max(s)}], Max(s)>>]
      BY <1>5, <3>1 DEF Folding
    <3> HIDE DEF h, P, Q
    <3> QED
      BY <1>5, <3>1, <3>3, <3>4
  <2> QED
    BY <2>2, <2>3
<1>7. h = [s \in SUBSET Q |-> h[s]]
  OBVIOUS
<1> HIDE DEF h, Q
<1>8. Folding(h, Q, base, f) /\ \A s \in SUBSET Q : h[s] \in A
  BY <1>6, <1>7 DEF Folding
<1> QED
  BY <1>3, <1>8 DEF Q

\* Two functions that fold the same way agree.
LEMMA FoldsAgree ==
  ASSUME NEW N \in Nat, NEW S \in SUBSET (1..N), NEW g, NEW h, g[{}] = h[{}],
         \A s \in SUBSET S :
            s # {} /\ g[s \ {Max(s)}] = h[s \ {Max(s)}] => g[s] = h[s]
  PROVE  g[S] = h[S]
<1> DEFINE part(n) == S \cap 1..n
           bad(n) == \E s \in SUBSET part(n) : g[s] # h[s]
           B == {n \in 0..N : bad(n)}
<1>1. SUFFICES ASSUME B # {} PROVE FALSE
  <2>1. ~ bad(N)
    BY <1>1
  <2>2. part(N) = S
    OBVIOUS
  <2> QED
    BY <2>1, <2>2
<1>2. PICK n \in B : \A m \in B : n <= m
  <2>1. B \in SUBSET (0..N)
    OBVIOUS
  <2> HIDE DEF B
  <2> QED
    BY <1>1, <2>1, Least
<1>3. n \in 0..N /\ bad(n)
  BY <1>2
<1>4. PICK s \in SUBSET part(n) : g[s] # h[s]
  BY <1>3
<1>5. s # {} /\ s \in SUBSET S /\ s \in SUBSET (1..N) /\ \A k \in s : k \in 1..n
  BY <1>4
<1> DEFINE m == Max(s)
<1>6. m \in s /\ \A y \in s : y <= m
  BY <1>5, MaxIsIn
<1>7. s \ {m} \in SUBSET part(n - 1) /\ n - 1 \in 0..N
  <2>1. m \in 1..n
    BY <1>5, <1>6
  <2>2. ASSUME NEW y \in s \ {m} PROVE y \in 1..(n - 1)
    <3>1. y \in 1..n /\ y <= m /\ y # m
      BY <1>5, <1>6
    <3> HIDE DEF m
    <3> QED
      BY <1>3, <2>1, <3>1
  <2>3. n - 1 \in 0..N
    BY <1>3, <2>1
  <2> QED
    BY <1>5, <2>2, <2>3
<1>8. ~ bad(n - 1)
  <2>1. n - 1 \notin B
    <3> HIDE DEF B
    <3> QED
      BY <1>2, <1>3, <1>7
  <2> QED
    BY <1>7, <2>1
<1>9. g[s \ {m}] = h[s \ {m}]
  BY <1>7, <1>8
<1> QED
  BY <1>4, <1>5, <1>9

\* Among the first k positions, the k-th is the last.
LEMMA LastOfFirst ==
  ASSUME NEW n \in Nat, NEW k \in 1..n
  PROVE  /\ 1..k \in SUBSET (1..n) /\ 1..k # {} /\ Max(1..k) = k
         /\ (1..k) \ {k} = 1..(k - 1)
<1>1. k \in Nat /\ 1 <= k /\ k <= n
  OBVIOUS
<1>2. k \in 1..k /\ \A m \in 1..k : m \in 1..n
  BY <1>1
<1>3. Max(1..k) \in 1..k /\ k <= Max(1..k)
  BY <1>1, <1>2, MaxIsIn
<1>4. Max(1..k) = k
  BY <1>1, <1>3
<1>5. (1..k) \ {k} = 1..(k - 1)
  BY <1>1
<1> QED
  BY <1>2, <1>4, <1>5

\* The gate keeps nothing but what may proceed.
Kept(ideas, kept, k) ==
    IF Verdict(ideas[k]) = "proceed" THEN Append(kept, ideas[k]) ELSE kept
LEMMA ProceedKeeps ==
  ASSUME NEW N \in Nat, NEW ideas, DOMAIN ideas \subseteq 1..N,
         NEW A, \A k \in DOMAIN ideas : Verdict(ideas[k]) = "proceed" => ideas[k] \in A
  PROVE  Proceed(ideas) \in Seq(A)
<1> DEFINE S == DOMAIN ideas
           keeps(g) == g = [s \in SUBSET S |-> IF s = {} THEN <<>>
                                              ELSE Kept(ideas, g[s \ {Max(s)}], Max(s))]
           f == [x \in Seq(A) \X S |-> Kept(ideas, x[1], x[2])]
<1>1. Proceed(ideas) = (CHOOSE g : keeps(g))[S]
  BY DEF Proceed, FoldLeft, MapThenFoldSet, Kept
<1>2. S \in SUBSET (1..N) /\ <<>> \in Seq(A)
  OBVIOUS
<1>3. \A acc \in Seq(A), k \in S : f[<<acc, k>>] = Kept(ideas, acc, k) /\ f[<<acc, k>>] \in Seq(A)
  BY DEF Kept
<1> HIDE DEF f, S
<1>4. PICK g : Folding(g, S, <<>>, f) /\ \A s \in SUBSET S : g[s] \in Seq(A)
  BY <1>2, <1>3, FoldExists
<1>5. keeps(g)
  <2> SUFFICES ASSUME NEW s \in SUBSET S
               PROVE  g[s] = IF s = {} THEN <<>> ELSE Kept(ideas, g[s \ {Max(s)}], Max(s))
    BY <1>4 DEF Folding
  <2>1. s # {} => Max(s) \in S /\ s \ {Max(s)} \in SUBSET S
    BY <1>2, MaxIsIn
  <2> QED
    BY <1>3, <1>4, <2>1 DEF Folding
<1> DEFINE h == CHOOSE k : keeps(k)
<1>6. keeps(h)
  BY <1>5
<1>7. g[S] = h[S]
  <2>1. g[{}] = h[{}]
    BY <1>5, <1>6
  <2>2. \A s \in SUBSET S : s # {} /\ g[s \ {Max(s)}] = h[s \ {Max(s)}] => g[s] = h[s]
    BY <1>5, <1>6
  <2> HIDE DEF h
  <2> QED
    BY <1>2, <2>1, <2>2, FoldsAgree
<1> QED
  BY <1>1, <1>4, <1>7
----------------------------------------------------------------------------
(* Experiments.  A concluded experiment has one outcome, as the table has  *)
(* it, and the outcome is in one place: on the bus, lost, or with the      *)
(* runner that is about to publish it.                                     *)

\* The ideas that pass the gate.
Clear == {i \in UNION {Range(ideas) : ideas \in Answers} : Verdict(i) = "proceed"}

\* What may be sent to create_experiment(), and what is known of it: by
\* hand, anything; by ideation, what the gate let pass.
Sent == {Proposal(i) : i \in Clear} \cup {Typed(form) : form \in Forms}
Traced(p) == p.idea # NoIdea => p.business = p.idea.business /\ p.budget = p.idea.budget

Arms == [seen : Int, won : Int, spent : Int]
Row == [business : Businesses, budget : Int, idea : Clear \cup {NoIdea},
        status : {"proposed", "concluded"}, decision : Conclusive \cup {"none"}]
Told == [experiment : Nat, business : Businesses, action : Conclusive]

TableOK ==
    /\ rows \in Seq(Row) /\ arms \in Seq([control : Arms, variant : Arms])
    /\ Len(arms) = Len(rows)
    /\ \A e \in DOMAIN rows :
          /\ Traced(rows[e])
          /\ rows[e].status = "concluded" => rows[e].decision \in Conclusive

SessionsOK ==
    /\ session \in [Sessions -> [step : {"idle", "create", "insert", "answer"},
                                 queue : Seq(Sent)]]
    /\ \A s \in Sessions : session[s].step # "idle" => session[s].queue # <<>>

\* What a runner knows of its experiment is still so.
Work == [step : {"idle", "run", "conclude", "publish"},
         experiment : Nat, action : Conclusive \cup {"none"},
         record : [business : Businesses \cup {NoIdea}, budget : Int]]
WorkOK(table, w) ==
    /\ w.step # "idle" =>
          /\ w.experiment \in DOMAIN table
          /\ w.record.business = table[w.experiment].business
          /\ w.record.budget = table[w.experiment].budget
    /\ w.step \in {"conclude", "publish"} => w.action \in Conclusive
RunnersOK ==
    /\ runner \in [Runners -> Work]
    /\ \A r \in Runners : WorkOK(rows, runner[r])

\* o is the outcome of its experiment in a table.
Recorded(table, o) ==
    /\ o \in Told /\ o.experiment \in DOMAIN table
    /\ table[o.experiment].status = "concluded"
    /\ o.business = table[o.experiment].business
    /\ o.action = table[o.experiment].decision
Publishing == {r \in Runners : runner[r].step = "publish"}

\* Each outcome is recorded, and no two places have one of one experiment.
OutcomesOK ==
    /\ topic \in Seq(Told)
    /\ \A i \in DOMAIN topic : Recorded(rows, topic[i])
    /\ \A o \in lost : Recorded(rows, o)
    /\ \A r \in Publishing : Recorded(rows, Outcome(r))
    /\ \A i, j \in DOMAIN topic : topic[i].experiment = topic[j].experiment => i = j
    /\ \A i \in DOMAIN topic, o \in lost : topic[i].experiment # o.experiment
    /\ \A i \in DOMAIN topic, r \in Publishing : topic[i].experiment # runner[r].experiment
    /\ \A o \in lost, r \in Publishing : o.experiment # runner[r].experiment
    /\ \A q, r \in Publishing : runner[q].experiment = runner[r].experiment => q = r

\* Every concluded experiment has its outcome somewhere.
NoneForgotten ==
    \A e \in DOMAIN rows : rows[e].status = "concluded" =>
        \/ \E i \in DOMAIN topic : topic[i].experiment = e
        \/ \E o \in lost : o.experiment = e
        \/ \E r \in Publishing : runner[r].experiment = e

\* How many of the first n outcomes are a business's and of some actions.
Seen(outcomes, b, actions, n) ==
    Cardinality({k \in 1..n : outcomes[k].business = b /\ outcomes[k].action \in actions})
ReaderOK ==
    /\ reader \in [at : Nat, high : Nat, rewinds : Int]
    /\ reader.at <= reader.high /\ reader.high <= Len(topic)
    /\ read \in Seq(Told) /\ repeats \in Seq(Told)
    /\ \A b \in Businesses, actions \in SUBSET Conclusive :
          Seen(read, b, actions, Len(read))
            = Seen(repeats, b, actions, Len(repeats)) + Seen(topic, b, actions, reader.high)

ExperimentsInv ==
    /\ TableOK /\ SessionsOK /\ RunnersOK
    /\ OutcomesOK /\ NoneForgotten /\ IsFiniteSet(lost) /\ ReaderOK

LEMMA ClearIdeas ==
  ASSUME NEW i \in Clear
  PROVE  /\ i.business \in Businesses /\ i.budget \in Int
         /\ i.sources # {} /\ Overall(i.scores) >= 35
         /\ i.scores.novelty >= 3 /\ i.scores.grounding >= 3
<1>1. i.business \in Businesses /\ i.budget \in Int
  BY ExperimentsAssumption DEF Clear
<1>2. Verdict(i) = "proceed"
  BY DEF Clear
<1>3. Strong(i) /\ i.sources # {}
  <2>1. ASSUME NEW p \in BOOLEAN, VerdictOf(p, i) = "proceed" PROVE p
    BY <2>1, Zenon DEF VerdictOf
  <2>2. (Strong(i) /\ i.sources # {}) \in BOOLEAN
    OBVIOUS
  <2> QED
    BY <1>2, <2>1, <2>2 DEF Verdict
<1> QED
  BY <1>1, <1>3 DEF Strong

LEMMA SentProposals ==
  ASSUME NEW p \in Sent
  PROVE  /\ p.business \in Businesses /\ p.budget \in Int
         /\ p.idea \in Clear \cup {NoIdea} /\ Traced(p)
<1>1. CASE p \in {Proposal(i) : i \in Clear}
  <2>1. PICK i \in Clear : p = Proposal(i)
    BY <1>1
  <2> QED
    BY <2>1, ClearIdeas DEF Proposal, Traced
<1>2. CASE p \in {Typed(form) : form \in Forms}
  <2>1. PICK form \in Forms : p = Typed(form)
    BY <1>2
  <2>2. form \in [business : Businesses, budget : Int]
    BY ExperimentsAssumption
  <2> QED
    BY <2>1, <2>2 DEF Typed, Traced
<1> QED
  BY <1>1, <1>2 DEF Sent

LEMMA AnswersAreShort ==
  ASSUME NEW ideas \in Answers
  PROVE  DOMAIN ideas \subseteq 1..IdeaCount
<1>1. \A s : DOMAIN Take(s, IdeaCount) \subseteq 1..IdeaCount
  BY DEF Take
<1>2. ASSUME NEW generated, NEW raw
      PROVE  DOMAIN Ideas(generated, raw, IdeaCount) \subseteq 1..IdeaCount
  <2> DEFINE pool == FlattenSeq([g \in DOMAIN generated |-> Parse(generated[g])])
             final == Take(Parse(raw), IdeaCount)
  <2>1. Ideas(generated, raw, IdeaCount)
          = IF pool # <<>> /\ final # <<>> THEN final ELSE Take(Dedup(pool), IdeaCount)
    BY DEF Ideas
  <2> HIDE DEF pool
  <2>2. DOMAIN final \subseteq 1..IdeaCount /\ DOMAIN Take(Dedup(pool), IdeaCount) \subseteq 1..IdeaCount
    BY <1>1
  <2> HIDE DEF final
  <2> QED
    BY <2>1, <2>2
<1>3. ASSUME NEW raw PROVE DOMAIN IdeasOfOne(raw, IdeaCount) \subseteq 1..IdeaCount
  <2>1. CASE Junk \in Range(raw)
    BY <2>1 DEF IdeasOfOne
  <2>2. CASE Junk \notin Range(raw)
    BY <1>1, <2>2 DEF IdeasOfOne
  <2> QED
    BY <2>1, <2>2
<1> QED
  BY <1>2, <1>3 DEF Answers

LEMMA AnswersAreGated ==
  ASSUME NEW ideas \in Answers
  PROVE  /\ [k \in DOMAIN Proceed(ideas) |-> Proposal(Proceed(ideas)[k])] \in Seq(Sent)
         /\ \A idea \in Offered(ideas) : Proposal(idea) \in Sent
<1>1. \A k \in DOMAIN ideas : Verdict(ideas[k]) = "proceed" => ideas[k] \in Clear
  BY DEF Clear, Range
<1>2. Proceed(ideas) \in Seq(Clear)
  BY <1>1, AnswersAreShort, ProceedKeeps, ExperimentsAssumption
<1>3. Offered(ideas) \subseteq Clear
  BY <1>1 DEF Offered, Range
<1>4. \A i \in Clear : Proposal(i) \in Sent
  BY DEF Sent
<1> DEFINE kept == Proceed(ideas)
<1>5. [k \in DOMAIN kept |-> Proposal(kept[k])] \in Seq(Sent)
  <2> HIDE DEF kept
  <2>1. kept \in Seq(Clear)
    BY <1>2 DEF kept
  <2>2. Len(kept) \in Nat /\ DOMAIN kept = 1..Len(kept) /\ \A k \in DOMAIN kept : kept[k] \in Clear
    BY <2>1
  <2> QED
    BY <1>4, <2>2
<1> QED
  BY <1>3, <1>4, <1>5

LEMMA ExperimentsInitially == Init => ExperimentsInv
<1> SUFFICES ASSUME Init PROVE ExperimentsInv
  OBVIOUS
<1> USE DEF Init
<1>1. TableOK
  BY DEF TableOK
<1>2. SessionsOK
  BY DEF SessionsOK
<1>3. RunnersOK
  BY DEF RunnersOK, Work, WorkOK, Resting, NoRecord
<1>4. Publishing = {}
  BY DEF Publishing, Resting
<1>5. OutcomesOK /\ NoneForgotten /\ IsFiniteSet(lost)
  BY <1>4, FS_EmptySet DEF OutcomesOK, NoneForgotten
<1>6. ReaderOK
  <2>1. \A s, b, actions : Seen(s, b, actions, 0) = 0
    <3> SUFFICES ASSUME NEW s, NEW b, NEW actions PROVE Seen(s, b, actions, 0) = 0
      OBVIOUS
    <3>1. {k \in 1..0 : s[k].business = b /\ s[k].action \in actions} = {}
      OBVIOUS
    <3> QED
      BY <3>1, FS_EmptySet DEF Seen
  <2> QED
    BY <2>1 DEF ReaderOK
<1> QED
  BY <1>1, <1>2, <1>3, <1>5, <1>6 DEF ExperimentsInv

\* Counting one outcome more, and counting the same ones.
SeenOneMore(s, b, actions, n) ==
    /\ Seen(s, b, actions, n) \in Nat
    /\ Seen(s, b, actions, n + 1)
         = Seen(s, b, actions, n)
             + (IF s[n + 1].business = b /\ s[n + 1].action \in actions THEN 1 ELSE 0)
LEMMA SeenNext ==
  ASSUME NEW s, NEW b, NEW actions, NEW n \in Nat
  PROVE  SeenOneMore(s, b, actions, n)
<1> DEFINE match(k) == s[k].business = b /\ s[k].action \in actions
           M(m) == {k \in 1..m : match(k)}
<1>1. IsFiniteSet(M(n))
  <2>1. IsFiniteSet(1..n)
    BY FS_Interval
  <2> QED
    BY <2>1, FS_Subset
<1>2. M(n + 1) = IF match(n + 1) THEN M(n) \cup {n + 1} ELSE M(n)
  <2> HIDE DEF match
  <2>1. 1..(n + 1) = (1..n) \cup {n + 1}
    OBVIOUS
  <2> QED
    BY <2>1
<1>3. n + 1 \notin M(n)
  OBVIOUS
<1> HIDE DEF match
<1>4. Cardinality(M(n)) \in Nat
  BY <1>1, FS_CardinalityType
<1>5. Cardinality(M(n + 1)) = Cardinality(M(n)) + (IF match(n + 1) THEN 1 ELSE 0)
  <2>1. Cardinality(M(n) \cup {n + 1}) = Cardinality(M(n)) + 1
    <3> HIDE DEF M
    <3> QED
      BY <1>1, <1>3, FS_AddElement
  <2> HIDE DEF M
  <2>2. CASE match(n + 1)
    BY <1>2, <2>1, <2>2
  <2>3. CASE ~ match(n + 1)
    BY <1>2, <1>4, <2>3
  <2> QED
    BY <2>2, <2>3
<1> QED
  BY <1>4, <1>5 DEF Seen, SeenOneMore, match

LEMMA SeenSame ==
  ASSUME NEW s, NEW t, NEW b, NEW actions, NEW n, \A k \in 1..n : s[k] = t[k]
  PROVE  Seen(s, b, actions, n) = Seen(t, b, actions, n)
<1>1. {k \in 1..n : s[k].business = b /\ s[k].action \in actions}
        = {k \in 1..n : t[k].business = b /\ t[k].action \in actions}
  OBVIOUS
<1> QED
  BY <1>1 DEF Seen

\* Each part of the invariant reads some of the variables only.
LEMMA PartsStay ==
  ASSUME ExperimentsInv
  PROVE  /\ UNCHANGED <<rows, arms>> => TableOK'
         /\ UNCHANGED session => SessionsOK'
         /\ UNCHANGED <<rows, runner>> => RunnersOK'
         /\ UNCHANGED <<rows, topic, lost, runner>> =>
               OutcomesOK' /\ NoneForgotten' /\ IsFiniteSet(lost')
         /\ UNCHANGED <<topic, reader, read, repeats>> => ReaderOK'
<1> USE DEF ExperimentsInv
<1>1. UNCHANGED <<rows, arms>> => TableOK'
  BY DEF TableOK
<1>2. UNCHANGED session => SessionsOK'
  BY DEF SessionsOK
<1>3. UNCHANGED <<rows, runner>> => RunnersOK'
  BY DEF RunnersOK
<1>4. ASSUME UNCHANGED <<rows, topic, lost, runner>>
      PROVE  OutcomesOK' /\ NoneForgotten' /\ IsFiniteSet(lost')
  BY <1>4 DEF OutcomesOK, NoneForgotten, Publishing, Outcome
<1>5. UNCHANGED <<topic, reader, read, repeats>> => ReaderOK'
  BY DEF ReaderOK
<1> QED
  BY <1>1, <1>2, <1>3, <1>4, <1>5

LEMMA ResumeKeeps ==
  ASSUME SessionsOK, NEW s \in Sessions, NEW queue \in Seq(Sent), Resume(s, queue)
  PROVE  SessionsOK'
<1> DEFINE x == [step |-> IF queue = <<>> THEN "idle" ELSE "create", queue |-> queue]
<1>1. session' = [session EXCEPT ![s] = x]
  BY DEF Resume
<1>2. /\ x \in [step : {"idle", "create", "insert", "answer"}, queue : Seq(Sent)]
      /\ x.step # "insert" /\ (x.step # "idle" => x.queue # <<>>)
  OBVIOUS
<1> HIDE DEF x
<1> QED
  BY <1>1, <1>2 DEF SessionsOK

LEMMA StepKeeps ==
  ASSUME SessionsOK, NEW s \in Sessions, session[s].step # "idle",
         NEW step \in {"insert", "answer"}, ToStep(s, step)
  PROVE  SessionsOK'
<1> DEFINE x == [session[s] EXCEPT !.step = step]
<1>1. session' = [session EXCEPT ![s] = x]
  BY DEF ToStep
<1>2. /\ x \in [step : {"idle", "create", "insert", "answer"}, queue : Seq(Sent)]
      /\ x.step = step /\ x.queue = session[s].queue
  BY DEF SessionsOK
<1> HIDE DEF x
<1> QED
  BY <1>1, <1>2 DEF SessionsOK

LEMMA SessionsKeep ==
  ASSUME ExperimentsInv, NEW s \in Sessions,
         \/ Ideate(s) \/ Click(s) \/ Fill(s)
         \/ Check(s) \/ Insert(s) \/ Answer(s) \/ Break(s)
  PROVE  ExperimentsInv'
<1> USE DEF ExperimentsInv, running, allocating
<1>1. ASSUME SessionsOK', UNCHANGED <<rows, arms, running, allocating>> PROVE ExperimentsInv'
  BY <1>1, PartsStay
<1>2. CASE Ideate(s)
  <2>1. PICK ideas \in Answers :
           Resume(s, [k \in DOMAIN Proceed(ideas) |-> Proposal(Proceed(ideas)[k])])
    BY <1>2 DEF Ideate
  <2>2. SessionsOK'
    BY <2>1, AnswersAreGated, ResumeKeeps
  <2> QED
    BY <1>1, <1>2, <2>2 DEF Ideate
<1>3. CASE Click(s)
  <2>0. PICK ideas \in Answers : \E idea \in Offered(ideas) : Resume(s, <<Proposal(idea)>>)
    BY <1>3 DEF Click
  <2>1. PICK idea \in Offered(ideas) : Resume(s, <<Proposal(idea)>>)
    BY <2>0
  <2>2. <<Proposal(idea)>> \in Seq(Sent)
    <3>1. Proposal(idea) \in Sent
      BY AnswersAreGated
    <3> HIDE DEF Sent
    <3> QED
      BY <3>1
  <2>3. SessionsOK'
    BY <2>1, <2>2, ResumeKeeps
  <2> QED
    BY <1>1, <1>3, <2>3 DEF Click
<1>10. CASE Fill(s)
  <2>1. PICK form \in Forms : Resume(s, <<Typed(form)>>)
    BY <1>10 DEF Fill
  <2>2. <<Typed(form)>> \in Seq(Sent)
    BY DEF Sent
  <2>3. SessionsOK'
    BY <2>1, <2>2, ResumeKeeps
  <2> QED
    BY <1>1, <1>10, <2>3 DEF Fill
<1>4. session[s].queue \in Seq(Sent)
  BY DEF SessionsOK
<1>5. session[s].step # "idle" =>
         Tail(session[s].queue) \in Seq(Sent) /\ Head(session[s].queue) \in Sent
  BY <1>4 DEF SessionsOK
<1>6. CASE Check(s)
  <2> DEFINE proposal == Head(session[s].queue)
             allowed == proposal.business \in Operable /\ proposal.budget <= Cash[proposal.business]
  <2>1. session[s].step = "create"
    BY <1>6 DEF Check
  <2>2. CASE allowed
    <3>1. ToStep(s, "insert")
      BY <1>6, <2>2 DEF Check
    <3>2. SessionsOK'
      BY <2>1, <3>1, StepKeeps
    <3> QED
      BY <1>1, <1>6, <3>2 DEF Check
  <2>3. CASE ~ allowed
    <3>1. Resume(s, Tail(session[s].queue))
      BY <1>6, <2>3 DEF Check
    <3>2. SessionsOK'
      BY <1>5, <2>1, <3>1, ResumeKeeps
    <3> QED
      BY <1>1, <1>6, <3>2 DEF Check
  <2> QED
    BY <2>2, <2>3
<1>7. CASE Answer(s)
  <2>1. SessionsOK'
    BY <1>5, <1>7, ResumeKeeps DEF Answer
  <2> QED
    BY <1>1, <1>7, <2>1 DEF Answer
<1>8. CASE Break(s)
  <2>1. Resume(s, <<>>) /\ <<>> \in Seq(Sent)
    BY <1>8 DEF Break
  <2>2. SessionsOK'
    BY <2>1, ResumeKeeps
  <2> QED
    BY <1>1, <1>8, <2>2 DEF Break
<1>9. CASE Insert(s)
  <2> DEFINE proposal == Head(session[s].queue)
             row == [business |-> proposal.business, budget |-> proposal.budget,
                     idea |-> proposal.idea, status |-> "proposed", decision |-> "none"]
             arm == [control |-> Fresh, variant |-> Fresh]
             n == Len(rows)
  <2>1. /\ session[s].step = "insert" /\ rows' = Append(rows, row)
        /\ arms' = Append(arms, arm) /\ ToStep(s, "answer")
        /\ UNCHANGED <<running, allocating>>
    BY <1>9 DEF Insert
  <2>2. SessionsOK'
    BY <2>1, StepKeeps
  <2>3. proposal \in Sent
    BY <1>5, <2>1
  <2>4. row \in Row /\ Traced(row) /\ row.status = "proposed"
    BY <2>3, SentProposals DEF Row, Traced
  <2>5. arm \in [control : Arms, variant : Arms]
    BY DEF Fresh, Arms
  <2> HIDE DEF row, arm
  <2>6. rows \in Seq(Row) /\ arms \in Seq([control : Arms, variant : Arms]) /\ Len(arms) = n
    BY DEF TableOK
  <2>7. /\ rows' \in Seq(Row) /\ Len(rows') = n + 1 /\ n \in Nat
        /\ DOMAIN rows = 1..n /\ DOMAIN rows' = 1..(n + 1)
        /\ \A e \in 1..n : rows'[e] = rows[e]
        /\ rows'[n + 1] = row
    BY <2>1, <2>4, <2>6
  <2>8. /\ arms' \in Seq([control : Arms, variant : Arms]) /\ Len(arms') = n + 1
    BY <2>1, <2>5, <2>6
  <2> HIDE DEF n
  <2>9. \A e \in 1..(n + 1) : e \in 1..n \/ rows'[e] = row
    BY <2>7
  <2>10. TableOK'
    BY <2>4, <2>7, <2>8, <2>9 DEF TableOK
  <2>11. RunnersOK'
    <3>1. runner' = runner
      BY <2>1
    <3>2. \A k \in DOMAIN rows : k \in DOMAIN rows' /\ rows'[k] = rows[k]
      BY <2>7
    <3>3. \A w : WorkOK(rows, w) => WorkOK(rows', w)
      BY <3>2 DEF WorkOK
    <3> QED
      BY <3>1, <3>3 DEF RunnersOK
  <2>12. \A o : Recorded(rows, o) => Recorded(rows', o)
    BY <2>7 DEF Recorded
  <2>13. OutcomesOK' /\ IsFiniteSet(lost')
    BY <2>1, <2>12 DEF OutcomesOK, Publishing, Outcome
  <2>14. NoneForgotten'
    BY <2>1, <2>4, <2>7, <2>9 DEF NoneForgotten, Publishing
  <2>15. ReaderOK'
    BY <2>1, PartsStay
  <2> QED
    BY <2>2, <2>10, <2>11, <2>13, <2>14, <2>15
<1> QED
  BY <1>2, <1>3, <1>6, <1>7, <1>8, <1>9, <1>10

LEMMA MeasureKeeps ==
  ASSUME ExperimentsInv, NEW e \in DOMAIN rows, Measure(e)
  PROVE  ExperimentsInv'
<1> USE DEF ExperimentsInv
<1>1. PICK m \in Batches :
         arms' = [arms EXCEPT ![e] = [control |-> AddArm(@.control, m.control),
                                      variant |-> AddArm(@.variant, m.variant)]]
  BY DEF Measure
<1>2. UNCHANGED <<rows, session, topic, runner, lost, reader, read, repeats>>
  BY DEF Measure, running, allocating
<1>3. rows \in Seq(Row) /\ arms \in Seq([control : Arms, variant : Arms]) /\ Len(arms) = Len(rows)
  BY DEF TableOK
<1>4. e \in DOMAIN arms /\ arms[e] \in [control : Arms, variant : Arms]
  <2>1. DOMAIN rows = 1..Len(rows) /\ DOMAIN arms = 1..Len(arms)
    BY <1>3
  <2>2. e \in DOMAIN arms /\ e \in 1..Len(arms)
    BY <1>3, <2>1
  <2> QED
    BY <1>3, <2>2, ElementOfSeq
<1>5. \A a \in Arms, b \in Arms : AddArm(a, b) \in Arms
  BY DEF AddArm, Arms
<1> DEFINE x == [control |-> AddArm(arms[e].control, m.control),
                 variant |-> AddArm(arms[e].variant, m.variant)]
<1>6. x \in [control : Arms, variant : Arms]
  <2>1. m.control \in Arms /\ m.variant \in Arms
    BY ExperimentsAssumption DEF Arms
  <2> QED
    BY <1>4, <1>5, <2>1
<1>7. arms' = [arms EXCEPT ![e] = x]
  BY <1>1
<1> HIDE DEF x
<1>8. arms' \in Seq([control : Arms, variant : Arms]) /\ Len(arms') = Len(arms)
  BY <1>3, <1>4, <1>6, <1>7
<1>9. TableOK'
  BY <1>2, <1>8 DEF TableOK
<1> QED
  BY <1>2, <1>9, PartsStay

\* A runner that neither had an outcome to publish nor gets one.
LEMMA WorkKeeps ==
  ASSUME ExperimentsInv, NEW r \in Runners, NEW w \in Work, WorkOK(rows, w),
         runner[r].step # "publish", w.step # "publish",
         runner' = [runner EXCEPT ![r] = w],
         UNCHANGED <<rows, arms, session, topic, lost, allocating>>
  PROVE  ExperimentsInv'
<1> USE DEF ExperimentsInv, allocating
<1>1. RunnersOK'
  BY DEF RunnersOK
<1>2. Publishing' = Publishing /\ \A q \in Publishing : runner'[q] = runner[q]
  BY DEF Publishing, RunnersOK
<1>3. \A q \in Publishing : Outcome(q)' = Outcome(q)
  BY <1>2 DEF Outcome
<1>4. OutcomesOK'
  BY <1>2, <1>3 DEF OutcomesOK
<1>5. NoneForgotten'
  BY <1>2 DEF NoneForgotten
<1> QED
  BY <1>1, <1>4, <1>5, PartsStay

LEMMA RestingIsWork ==
  Resting \in Work /\ Resting.step = "idle" /\ \A table : WorkOK(table, Resting)
BY DEF Resting, NoRecord, Work, WorkOK

\* What a decision may be, and when a run continues: then money was left.
LEMMA DecisionIs ==
  ASSUME NEW c \in Arms, NEW v \in Arms, NEW budget \in Int
  PROVE  /\ Decide(c, v, budget) \in Conclusive \cup {"continue"}
         /\ Decide(c, v, budget) = "continue" => c.spent + v.spent < budget
<1> DEFINE d == Decide(c, v, budget)
<1> SUFFICES /\ d \in Conclusive \cup {"continue"}
             /\ d = "continue" => c.spent + v.spent < budget
  OBVIOUS
<1>1. CASE CacBreached(v)
  BY <1>1 DEF Decide, Conclusive
<1>2. CASE ~ CacBreached(v) /\ Significant(c, v)
  <2>1. d = IF ~ Beats(v, c) THEN "kill" ELSE IF HasRate(v, MinRate) THEN "scale" ELSE "pivot"
    BY <1>2 DEF Decide
  <2> HIDE DEF d
  <2> QED
    BY <2>1 DEF Conclusive
<1>3. CASE ~ CacBreached(v) /\ ~ Significant(c, v)
  <2>1. d = IF c.spent + v.spent >= budget THEN "kill" ELSE "continue"
    BY <1>3 DEF Decide
  <2>2. c.spent \in Int /\ v.spent \in Int
    BY DEF Arms
  <2> HIDE DEF d
  <2>3. CASE c.spent + v.spent >= budget
    BY <2>1, <2>3 DEF Conclusive
  <2>4. CASE ~ (c.spent + v.spent >= budget)
    BY <2>1, <2>2, <2>4
  <2> QED
    BY <2>3, <2>4
<1> QED
  BY <1>1, <1>2, <1>3

\* What a run finds: the table's record, and what has been measured by now.
LEMMA RunFinds ==
  ASSUME ExperimentsInv, NEW r \in Runners, Run(r)
  PROVE  LET e == runner[r].experiment
             record == runner[r].record
         IN  /\ e \in DOMAIN rows /\ arms[e].control \in Arms /\ arms[e].variant \in Arms
             /\ record.business = rows[e].business /\ record.budget = rows[e].budget
             /\ rows[e].budget \in Int /\ Blueprint[rows[e].business] \in Int
             /\ EffectiveBudget(Blueprint[record.business], record.budget) \in Int
<1> DEFINE e == runner[r].experiment
           record == runner[r].record
<1>1. /\ e \in DOMAIN rows
      /\ record.business = rows[e].business /\ record.budget = rows[e].budget
  BY DEF ExperimentsInv, RunnersOK, WorkOK, Run
<1>2. rows \in Seq(Row) /\ arms \in Seq([control : Arms, variant : Arms]) /\ Len(arms) = Len(rows)
  BY DEF ExperimentsInv, TableOK
<1>3. e \in 1..Len(rows) /\ e \in 1..Len(arms)
  BY <1>1, <1>2
<1>4. arms[e] \in [control : Arms, variant : Arms] /\ rows[e] \in Row
  BY <1>2, <1>3, ElementOfSeq
<1>5. rows[e].budget \in Int /\ rows[e].business \in Businesses
  BY <1>4 DEF Row
<1>6. Blueprint[rows[e].business] \in Int
  BY <1>5, ExperimentsAssumption
<1> QED
  BY <1>1, <1>4, <1>5, <1>6 DEF EffectiveBudget

LEMMA QuietRunnersKeep ==
  ASSUME ExperimentsInv, NEW r \in Runners,
         \/ \E e \in DOMAIN rows : Fetch(r, e)
         \/ Run(r) \/ Die(r) \/ (Conclude(r) /\ ~ Concludable(runner[r].experiment))
  PROVE  ExperimentsInv'
<1>1. ASSUME NEW e \in DOMAIN rows, Fetch(r, e) PROVE ExperimentsInv'
  <2> DEFINE w == [step |-> "run", experiment |-> e, action |-> "none",
                   record |-> [business |-> rows[e].business, budget |-> rows[e].budget]]
  <2>1. rows[e] \in Row /\ e \in Nat
    BY DEF ExperimentsInv, TableOK
  <2>2. w \in Work /\ w.step # "publish"
    BY <2>1 DEF Work, Row
  <2>3. WorkOK(rows, w)
    BY DEF WorkOK
  <2>4. runner' = [runner EXCEPT ![r] = w]
    BY <1>1 DEF Fetch
  <2> HIDE DEF w
  <2> QED
    BY <1>1, <2>2, <2>3, <2>4, WorkKeeps DEF Fetch
<1>2. CASE Run(r)
  <2> DEFINE e == runner[r].experiment
             record == runner[r].record
             action == Decide(arms[e].control, arms[e].variant,
                              EffectiveBudget(Blueprint[record.business], record.budget))
             w == [runner[r] EXCEPT !.step = "conclude", !.action = action]
  <2>1. action \in Conclusive \cup {"continue"}
    BY <1>2, RunFinds, DecisionIs
  <2>2. /\ runner[r].step = "run"
        /\ runner' = [runner EXCEPT ![r] = IF action = "continue" THEN Resting ELSE w]
        /\ UNCHANGED <<rows, arms, session, topic, lost, allocating>>
    BY <1>2 DEF Run
  <2> HIDE DEF action
  <2>3. CASE action = "continue"
    BY <2>2, <2>3, RestingIsWork, WorkKeeps
  <2>4. CASE action # "continue"
    <3>1. w \in Work /\ w.step = "conclude" /\ w.action = action
          /\ w.experiment = e /\ w.record = record
      BY <2>1, <2>4 DEF ExperimentsInv, RunnersOK, Work
    <3>2. WorkOK(rows, runner[r])
      BY DEF ExperimentsInv, RunnersOK
    <3>3. runner' = [runner EXCEPT ![r] = w]
      BY <2>2, <2>4
    <3> HIDE DEF w
    <3>4. WorkOK(rows, w)
      BY <2>1, <2>2, <2>4, <3>1, <3>2 DEF WorkOK
    <3> QED
      BY <2>2, <3>1, <3>3, <3>4, WorkKeeps
  <2> QED
    BY <2>3, <2>4
<1>3. CASE Die(r)
  BY <1>3, RestingIsWork, WorkKeeps DEF Die
<1>4. CASE Conclude(r) /\ ~ Concludable(runner[r].experiment)
  BY <1>4, RestingIsWork, WorkKeeps DEF Conclude
<1> QED
  BY <1>1, <1>2, <1>3, <1>4

\* The first to conclude writes the row, and has the only outcome of it.
LEMMA ConcludeKeeps ==
  ASSUME ExperimentsInv, NEW r \in Runners, Conclude(r), Concludable(runner[r].experiment)
  PROVE  ExperimentsInv'
<1> USE DEF ExperimentsInv, allocating
<1> DEFINE e == runner[r].experiment
           action == runner[r].action
           w == [runner[r] EXCEPT !.step = "publish"]
<1>1. /\ runner[r].step = "conclude" /\ rows[e].status # "concluded"
      /\ rows' = [rows EXCEPT ![e].status = "concluded", ![e].decision = action]
      /\ runner' = [runner EXCEPT ![r] = w]
      /\ UNCHANGED <<arms, session, topic, lost, reader, read, repeats>>
  BY DEF Conclude, Concludable
<1>2. /\ runner[r] \in Work /\ WorkOK(rows, runner[r]) /\ runner \in [Runners -> Work]
      /\ e \in DOMAIN rows /\ action \in Conclusive
  BY <1>1 DEF RunnersOK, WorkOK
<1>3. /\ w \in Work /\ w.step = "publish" /\ w.action = action
      /\ w.experiment = e /\ w.record = runner[r].record
  BY <1>2 DEF Work
<1>4. rows \in Seq(Row) /\ rows[e] \in Row
  BY <1>2 DEF TableOK
<1> DEFINE row == [rows[e] EXCEPT !.status = "concluded", !.decision = action]
<1>5. /\ row \in Row /\ row.status = "concluded" /\ row.decision = action
      /\ row.business = rows[e].business /\ row.budget = rows[e].budget
      /\ Traced(rows[e]) => Traced(row)
  BY <1>2, <1>4 DEF Row, Traced
<1>6. rows' = [rows EXCEPT ![e] = row]
  BY <1>1
<1> HIDE DEF row, w
<1>7. /\ rows' \in Seq(Row) /\ Len(rows') = Len(rows) /\ DOMAIN rows' = DOMAIN rows
      /\ rows'[e] = row /\ \A k \in DOMAIN rows : k # e => rows'[k] = rows[k]
  BY <1>2, <1>4, <1>5, <1>6
<1>8. TableOK'
  BY <1>1, <1>2, <1>5, <1>7 DEF TableOK
<1>9. \A v : WorkOK(rows, v) => WorkOK(rows', v)
  BY <1>5, <1>7 DEF WorkOK
<1>10. WorkOK(rows', w)
  <2>1. /\ runner[r].record.business = rows[e].business
        /\ runner[r].record.budget = rows[e].budget
    BY <1>1, <1>2 DEF WorkOK
  <2> QED
    BY <1>2, <1>3, <1>5, <1>7, <2>1 DEF WorkOK
<1>11. RunnersOK'
  BY <1>1, <1>2, <1>3, <1>9, <1>10 DEF RunnersOK
<1>12. Publishing' = Publishing \cup {r} /\ r \notin Publishing
  BY <1>1, <1>2, <1>3 DEF Publishing
<1>13. runner'[r] = w /\ \A q \in Publishing : runner'[q] = runner[q]
  BY <1>1, <1>2, <1>12 DEF Publishing
<1>14. \A o : Recorded(rows, o) => o.experiment # e /\ Recorded(rows', o)
  BY <1>1, <1>7 DEF Recorded
<1>15. Recorded(rows', Outcome(r)')
  <2>1. Outcome(r)' = [experiment |-> e, business |-> rows[e].business, action |-> action]
    BY <1>2, <1>3, <1>13, <1>1 DEF Outcome, WorkOK
  <2>2. e \in Nat /\ rows[e].business \in Businesses
    BY <1>2, <1>4 DEF Row
  <2>3. Outcome(r)' \in Told
    BY <1>2, <2>1, <2>2 DEF Told
  <2> QED
    BY <1>2, <1>5, <1>7, <2>1, <2>3 DEF Recorded
<1>16. \A q \in Publishing : Outcome(q)' = Outcome(q) /\ Outcome(q).experiment = runner[q].experiment
  BY <1>13 DEF Outcome
<1>17. \A q \in Publishing : runner[q].experiment # e
  BY <1>14, <1>16 DEF OutcomesOK
<1>18. OutcomesOK'
  <2>1. /\ topic' \in Seq(Told) /\ topic' = topic /\ lost' = lost
        /\ \A i \in DOMAIN topic : Recorded(rows', topic[i]) /\ topic[i].experiment # e
        /\ \A o \in lost : Recorded(rows', o) /\ o.experiment # e
    BY <1>1, <1>14 DEF OutcomesOK
  <2>2. \A q \in Publishing' : Recorded(rows', Outcome(q)')
    BY <1>12, <1>14, <1>15, <1>16 DEF OutcomesOK
  <2>3. \A q \in Publishing' : runner'[q].experiment = IF q = r THEN e ELSE runner[q].experiment
    BY <1>3, <1>12, <1>13
  <2>4. \A q \in Publishing' : q = r \/ q \in Publishing
    BY <1>12
  <2>5. /\ \A i, j \in DOMAIN topic : topic[i].experiment = topic[j].experiment => i = j
        /\ \A i \in DOMAIN topic, o \in lost : topic[i].experiment # o.experiment
        /\ \A i \in DOMAIN topic, q \in Publishing' : topic[i].experiment # runner'[q].experiment
        /\ \A o \in lost, q \in Publishing' : o.experiment # runner'[q].experiment
    BY <2>1, <2>3, <2>4 DEF OutcomesOK
  <2>6. \A p, q \in Publishing' : runner'[p].experiment = runner'[q].experiment => p = q
    BY <1>12, <1>17, <2>3, <2>4 DEF OutcomesOK
  <2> QED
    BY <2>1, <2>2, <2>5, <2>6 DEF OutcomesOK
<1>19. NoneForgotten'
  <2> SUFFICES ASSUME NEW k \in DOMAIN rows, rows'[k].status = "concluded"
               PROVE  \/ \E i \in DOMAIN topic : topic[i].experiment = k
                      \/ \E o \in lost : o.experiment = k
                      \/ \E q \in Publishing' : runner'[q].experiment = k
    BY <1>1, <1>7 DEF NoneForgotten
  <2>1. CASE k = e
    BY <1>3, <1>12, <1>13, <2>1
  <2>2. CASE k # e
    <3>1. rows[k].status = "concluded"
      BY <1>7, <2>2
    <3> QED
      BY <1>12, <1>13, <3>1 DEF NoneForgotten
  <2> QED
    BY <2>1, <2>2
<1> QED
  BY <1>1, <1>8, <1>11, <1>18, <1>19, PartsStay

\* The outcome moves from the runner to the bus, or to what is lost.
LEMMA Gone ==
  ASSUME ExperimentsInv, NEW r \in Publishing, runner' = [runner EXCEPT ![r] = Resting]
  PROVE  /\ Publishing' = Publishing \ {r}
         /\ \A q \in Publishing \ {r} :
               runner'[q] = runner[q] /\ Outcome(q)' = Outcome(q)
         /\ Recorded(rows, Outcome(r)) /\ Outcome(r) \in Told
         /\ Outcome(r).experiment = runner[r].experiment
         /\ UNCHANGED rows => RunnersOK'
<1>1. r \in Runners /\ runner \in [Runners -> Work]
  BY DEF ExperimentsInv, RunnersOK, Publishing
<1>2. Publishing' = Publishing \ {r} /\ \A q \in Publishing \ {r} : runner'[q] = runner[q]
  BY <1>1, RestingIsWork DEF Publishing
<1>3. Recorded(rows, Outcome(r)) /\ Outcome(r) \in Told
  BY DEF ExperimentsInv, OutcomesOK, Recorded
<1>4. UNCHANGED rows => RunnersOK'
  BY <1>1, RestingIsWork DEF ExperimentsInv, RunnersOK
<1> QED
  BY <1>2, <1>3, <1>4 DEF Outcome

LEMMA PublishKeeps ==
  ASSUME ExperimentsInv, NEW r \in Runners, Publish(r)
  PROVE  ExperimentsInv'
<1> USE DEF ExperimentsInv, allocating
<1>1. /\ r \in Publishing /\ topic' = Append(topic, Outcome(r))
      /\ runner' = [runner EXCEPT ![r] = Resting]
      /\ UNCHANGED <<rows, arms, session, lost, reader, read, repeats>>
  BY DEF Publish, Publishing
<1> DEFINE o == Outcome(r)
           n == Len(topic)
<1>2. /\ Publishing' = Publishing \ {r}
      /\ \A q \in Publishing \ {r} : runner'[q] = runner[q] /\ Outcome(q)' = Outcome(q)
      /\ Recorded(rows, o) /\ o \in Told /\ o.experiment = runner[r].experiment /\ RunnersOK'
  BY <1>1, Gone
<1> HIDE DEF o
<1>3. topic' = Append(topic, o) /\ topic \in Seq(Told)
  BY <1>1 DEF o, OutcomesOK
<1>4. /\ topic' \in Seq(Told) /\ n \in Nat /\ Len(topic') = n + 1
      /\ DOMAIN topic = 1..n /\ DOMAIN topic' = 1..(n + 1)
      /\ topic'[n + 1] = o /\ \A i \in 1..n : topic'[i] = topic[i]
  BY <1>2, <1>3
<1> HIDE DEF n
<1>5. \A i \in DOMAIN topic' :
         \/ i \in DOMAIN topic /\ topic'[i] = topic[i]
         \/ i = n + 1 /\ topic'[i] = o
  <2> SUFFICES ASSUME NEW i \in DOMAIN topic'
               PROVE  \/ i \in DOMAIN topic /\ topic'[i] = topic[i]
                      \/ i = n + 1 /\ topic'[i] = o
    OBVIOUS
  <2>1. i \in 1..n \/ i = n + 1
    BY <1>4
  <2>2. CASE i \in 1..n
    BY <1>4, <2>2
  <2>3. CASE i = n + 1
    BY <1>4, <2>3
  <2> QED
    BY <2>1, <2>2, <2>3
<1>6. \A i \in DOMAIN topic : i \in DOMAIN topic' /\ i # n + 1
  BY <1>4
<1>7. /\ \A i \in DOMAIN topic : topic[i].experiment # o.experiment
      /\ \A l \in lost : l.experiment # o.experiment
      /\ \A q \in Publishing' : runner[q].experiment # o.experiment
  BY <1>1, <1>2 DEF OutcomesOK
<1>8. OutcomesOK'
  <2>1. \A i \in DOMAIN topic' : Recorded(rows, topic'[i])
    BY <1>2, <1>5 DEF OutcomesOK
  <2>2. \A q \in Publishing' : Recorded(rows, Outcome(q)')
    BY <1>2 DEF OutcomesOK
  <2>3. \A i, j \in DOMAIN topic' : topic'[i].experiment = topic'[j].experiment => i = j
    BY <1>5, <1>7 DEF OutcomesOK
  <2>4. \A i \in DOMAIN topic', l \in lost : topic'[i].experiment # l.experiment
    BY <1>5, <1>7 DEF OutcomesOK
  <2>5. \A i \in DOMAIN topic', q \in Publishing' : topic'[i].experiment # runner'[q].experiment
    BY <1>2, <1>5, <1>7 DEF OutcomesOK
  <2>6. /\ \A l \in lost, q \in Publishing' : l.experiment # runner'[q].experiment
        /\ \A p, q \in Publishing' : runner'[p].experiment = runner'[q].experiment => p = q
    BY <1>2 DEF OutcomesOK
  <2>7. rows' = rows /\ lost' = lost /\ \A l \in lost : Recorded(rows, l)
    BY <1>1 DEF OutcomesOK
  <2> QED
    BY <1>4, <2>1, <2>2, <2>3, <2>4, <2>5, <2>6, <2>7 DEF OutcomesOK
<1>9. NoneForgotten'
  <2> SUFFICES ASSUME NEW k \in DOMAIN rows, rows[k].status = "concluded"
               PROVE  \/ \E i \in DOMAIN topic' : topic'[i].experiment = k
                      \/ \E l \in lost : l.experiment = k
                      \/ \E q \in Publishing' : runner'[q].experiment = k
    BY <1>1 DEF NoneForgotten
  <2>1. \/ \E i \in DOMAIN topic : topic[i].experiment = k
        \/ \E l \in lost : l.experiment = k
        \/ \E q \in Publishing : runner[q].experiment = k
    BY DEF NoneForgotten
  <2>2. n + 1 \in DOMAIN topic' /\ topic'[n + 1].experiment = runner[r].experiment
    BY <1>2, <1>4
  <2> QED
    BY <1>2, <1>4, <1>6, <2>1, <2>2
<1>10. ReaderOK'
  <2>1. reader.high \in Nat /\ reader.high <= n
    BY DEF ReaderOK, n
  <2>2. \A k \in 1..reader.high : topic'[k] = topic[k]
    BY <1>4, <2>1
  <2>3. \A b, actions : Seen(topic', b, actions, reader.high) = Seen(topic, b, actions, reader.high)
    BY <2>2, SeenSame
  <2>4. reader.high <= Len(topic')
    BY <1>4, <2>1
  <2> QED
    BY <1>1, <2>3, <2>4 DEF ReaderOK
<1> QED
  BY <1>1, <1>2, <1>8, <1>9, <1>10, PartsStay

LEMMA LoseKeeps ==
  ASSUME ExperimentsInv, NEW r \in Runners, Lose(r)
  PROVE  ExperimentsInv'
<1> USE DEF ExperimentsInv, allocating
<1>1. /\ r \in Publishing /\ lost' = lost \cup {Outcome(r)}
      /\ runner' = [runner EXCEPT ![r] = Resting]
      /\ UNCHANGED <<rows, arms, session, topic, reader, read, repeats>>
  BY DEF Lose, Publishing
<1> DEFINE o == Outcome(r)
<1>2. /\ Publishing' = Publishing \ {r}
      /\ \A q \in Publishing \ {r} : runner'[q] = runner[q] /\ Outcome(q)' = Outcome(q)
      /\ Recorded(rows, o) /\ o.experiment = runner[r].experiment /\ RunnersOK'
  BY <1>1, Gone
<1>3. lost' = lost \cup {o}
  BY <1>1
<1> HIDE DEF o
<1>4. IsFiniteSet(lost')
  BY <1>3, FS_AddElement
<1>5. /\ \A i \in DOMAIN topic : topic[i].experiment # o.experiment
      /\ \A q \in Publishing' : runner[q].experiment # o.experiment
  BY <1>1, <1>2 DEF OutcomesOK
<1>6. OutcomesOK'
  <2>1. \A l \in lost' : Recorded(rows, l)
    BY <1>2, <1>3 DEF OutcomesOK
  <2>2. \A q \in Publishing' : Recorded(rows, Outcome(q)')
    BY <1>2 DEF OutcomesOK
  <2>3. \A i \in DOMAIN topic, l \in lost' : topic[i].experiment # l.experiment
    BY <1>3, <1>5 DEF OutcomesOK
  <2>4. /\ \A i \in DOMAIN topic, q \in Publishing' : topic[i].experiment # runner'[q].experiment
        /\ \A l \in lost', q \in Publishing' : l.experiment # runner'[q].experiment
        /\ \A p, q \in Publishing' : runner'[p].experiment = runner'[q].experiment => p = q
    BY <1>2, <1>3, <1>5 DEF OutcomesOK
  <2>5. /\ rows' = rows /\ topic' = topic /\ topic \in Seq(Told)
        /\ \A i \in DOMAIN topic : Recorded(rows, topic[i])
        /\ \A i, j \in DOMAIN topic : topic[i].experiment = topic[j].experiment => i = j
    BY <1>1 DEF OutcomesOK
  <2> QED
    BY <2>1, <2>2, <2>3, <2>4, <2>5 DEF OutcomesOK
<1>7. NoneForgotten'
  <2> SUFFICES ASSUME NEW k \in DOMAIN rows, rows[k].status = "concluded"
               PROVE  \/ \E i \in DOMAIN topic : topic[i].experiment = k
                      \/ \E l \in lost' : l.experiment = k
                      \/ \E q \in Publishing' : runner'[q].experiment = k
    BY <1>1 DEF NoneForgotten
  <2>1. \/ \E i \in DOMAIN topic : topic[i].experiment = k
        \/ \E l \in lost : l.experiment = k
        \/ \E q \in Publishing : runner[q].experiment = k
    BY DEF NoneForgotten
  <2> QED
    BY <1>2, <1>3, <2>1
<1> QED
  BY <1>1, <1>2, <1>4, <1>6, <1>7, PartsStay

\* The reader takes the next outcome, for the first time or again.
LEMMA ConsumeKeeps == ASSUME ExperimentsInv, Consume PROVE ExperimentsInv'
<1> USE DEF ExperimentsInv, running
<1> DEFINE at == reader.at
           high == reader.high
           o == topic[at + 1]
<1>1. /\ reader \in [at : Nat, high : Nat, rewinds : Int] /\ topic \in Seq(Told)
      /\ at \in Nat /\ high \in Nat /\ at <= high /\ high <= Len(topic) /\ at < Len(topic)
  BY DEF ReaderOK, OutcomesOK, Consume
<1>2. /\ UNCHANGED <<rows, arms, session, topic, runner, lost>>
      /\ reader' = [reader EXCEPT !.at = at + 1, !.high = IF high > at THEN high ELSE high + 1]
      /\ read' = Append(read, o)
      /\ repeats' = IF at < high THEN Append(repeats, o) ELSE repeats
  BY DEF Consume
<1>3. o \in Told
  <2>1. at + 1 \in 1..Len(topic)
    BY <1>1
  <2> QED
    BY <1>1, <2>1, ElementOfSeq
<1> DEFINE next == IF high > at THEN high ELSE high + 1
<1>4. /\ reader' \in [at : Nat, high : Nat, rewinds : Int]
      /\ reader'.at = at + 1 /\ reader'.high = next
      /\ at + 1 <= next /\ next <= Len(topic)
  <2> DEFINE more == at + 1
  <2>1. reader' = [reader EXCEPT !.at = more, !.high = next]
    BY <1>2
  <2>2. more \in Nat /\ next \in Nat
    BY <1>1
  <2>3. more <= next /\ next <= Len(topic)
    BY <1>1
  <2> HIDE DEF more, next
  <2>4. /\ reader' \in [at : Nat, high : Nat, rewinds : Int]
        /\ reader'.at = more /\ reader'.high = next
    BY <1>1, <2>1, <2>2
  <2> QED
    BY <2>3, <2>4 DEF more
<1>5. read \in Seq(Told) /\ repeats \in Seq(Told)
  BY DEF ReaderOK
<1> HIDE DEF o
<1>6. /\ read' \in Seq(Told) /\ Len(read') = Len(read) + 1 /\ Len(read) \in Nat
      /\ read'[Len(read) + 1] = o /\ \A k \in 1..Len(read) : read'[k] = read[k]
  BY <1>2, <1>3, <1>5
<1>7. ASSUME NEW b \in Businesses, NEW actions \in SUBSET Conclusive
      PROVE  Seen(read', b, actions, Len(read'))
               = Seen(repeats', b, actions, Len(repeats')) + Seen(topic, b, actions, next)
  <2> DEFINE one == IF o.business = b /\ o.action \in actions THEN 1 ELSE 0
  <2>1. /\ Seen(read', b, actions, Len(read')) = Seen(read, b, actions, Len(read)) + one
        /\ Seen(read, b, actions, Len(read)) \in Nat
    <3> DEFINE n == Len(read)
    <3>1. Seen(read', b, actions, n) = Seen(read, b, actions, n)
      BY <1>6, SeenSame
    <3>2. /\ Seen(read, b, actions, n) \in Nat
          /\ Seen(read', b, actions, n + 1) = Seen(read', b, actions, n)
                + (IF read'[n + 1].business = b /\ read'[n + 1].action \in actions THEN 1 ELSE 0)
      <4>1. n \in Nat
        BY <1>6
      <4> HIDE DEF n
      <4>2. SeenOneMore(read, b, actions, n) /\ SeenOneMore(read', b, actions, n)
        BY <4>1, SeenNext
      <4> QED
        BY <4>2 DEF SeenOneMore
    <3> QED
      BY <1>6, <3>1, <3>2
  <2>2. Seen(read, b, actions, Len(read))
          = Seen(repeats, b, actions, Len(repeats)) + Seen(topic, b, actions, high)
    BY DEF ReaderOK
  <2>3. one \in Nat
    OBVIOUS
  <2>4. Len(repeats) \in Nat /\ Seen(repeats, b, actions, Len(repeats)) \in Nat
        /\ Seen(topic, b, actions, high) \in Nat
    <3>1. Len(repeats) \in Nat /\ high \in Nat
      BY <1>1, <1>5
    <3> HIDE DEF high
    <3>2. /\ SeenOneMore(repeats, b, actions, Len(repeats))
          /\ SeenOneMore(topic, b, actions, high)
      BY <3>1, SeenNext
    <3> QED
      BY <3>1, <3>2 DEF SeenOneMore
  <2>5. CASE at < high
    <3>1. /\ Len(repeats') = Len(repeats) + 1 /\ repeats'[Len(repeats) + 1] = o
          /\ \A k \in 1..Len(repeats) : repeats'[k] = repeats[k]
      BY <1>2, <1>3, <1>5, <2>5
    <3>2. Seen(repeats', b, actions, Len(repeats'))
            = Seen(repeats, b, actions, Len(repeats)) + one
      <4> DEFINE n == Len(repeats)
      <4>1. Seen(repeats', b, actions, n) = Seen(repeats, b, actions, n)
        BY <3>1, SeenSame
      <4>2. Seen(repeats', b, actions, n + 1) = Seen(repeats', b, actions, n)
              + (IF repeats'[n + 1].business = b /\ repeats'[n + 1].action \in actions
                 THEN 1 ELSE 0)
        <5>1. n \in Nat
          BY <2>4
        <5> HIDE DEF n
        <5>2. SeenOneMore(repeats', b, actions, n)
          BY <5>1, SeenNext
        <5> QED
          BY <5>2 DEF SeenOneMore
      <4> QED
        BY <3>1, <4>1, <4>2
    <3>3. next = high
      BY <1>1, <2>5
    <3> HIDE DEF one, next, high
    <3> QED
      BY <2>1, <2>2, <2>3, <2>4, <3>2, <3>3
  <2>6. CASE ~ (at < high)
    <3>1. repeats' = repeats /\ at = high /\ next = high + 1
      BY <1>1, <1>2, <2>6
    <3>2. topic[high + 1] = o
      BY <3>1 DEF o
    <3>3. Seen(topic, b, actions, high + 1) = Seen(topic, b, actions, high) + one
      <4>1. Seen(topic, b, actions, high + 1) = Seen(topic, b, actions, high)
              + (IF topic[high + 1].business = b /\ topic[high + 1].action \in actions
                 THEN 1 ELSE 0)
        <5> HIDE DEF high
        <5>1. SeenOneMore(topic, b, actions, high)
          BY <1>1, SeenNext
        <5> QED
          BY <5>1 DEF SeenOneMore
      <4> QED
        BY <3>2, <4>1
    <3> HIDE DEF one, next, high
    <3> QED
      BY <2>1, <2>2, <2>3, <2>4, <3>1, <3>3
  <2> QED
    BY <2>5, <2>6
<1>8. repeats' \in Seq(Told)
  BY <1>2, <1>3, <1>5
<1>9. ReaderOK'
  BY <1>2, <1>4, <1>6, <1>7, <1>8 DEF ReaderOK
<1> QED
  BY <1>2, <1>9, PartsStay

LEMMA RewindKeeps == ASSUME ExperimentsInv, Rewind PROVE ExperimentsInv'
<1> USE DEF ExperimentsInv, running
<1>1. PICK at \in 0..(reader.at - 1) :
         reader' = [reader EXCEPT !.at = at, !.rewinds = @ + 1]
  BY DEF Rewind
<1>2. /\ UNCHANGED <<rows, arms, session, topic, runner, lost, read, repeats>>
  BY DEF Rewind
<1>3. /\ reader' \in [at : Nat, high : Nat, rewinds : Int]
      /\ reader'.at <= reader'.high /\ reader'.high = reader.high
  <2>1. reader \in [at : Nat, high : Nat, rewinds : Int] /\ reader.at <= reader.high
    BY DEF ReaderOK
  <2>2. at \in Nat /\ at <= reader.high /\ reader.rewinds + 1 \in Int
    BY <2>1
  <2> DEFINE rewinds == reader.rewinds + 1
  <2>3. reader' = [reader EXCEPT !.at = at, !.rewinds = rewinds]
    BY <1>1
  <2> HIDE DEF rewinds
  <2>4. rewinds \in Int
    BY <2>2 DEF rewinds
  <2>5. /\ reader' \in [at : Nat, high : Nat, rewinds : Int]
        /\ reader'.at = at /\ reader'.high = reader.high
    BY <2>1, <2>2, <2>3, <2>4
  <2> QED
    BY <2>2, <2>5
<1>4. ReaderOK'
  BY <1>2, <1>3 DEF ReaderOK
<1> QED
  BY <1>2, <1>4, PartsStay

LEMMA ExperimentsPreserved == ExperimentsInv /\ [Next]_vars => ExperimentsInv'
<1>1. ASSUME ExperimentsInv, UNCHANGED vars PROVE ExperimentsInv'
  BY <1>1, PartsStay DEF vars, ExperimentsInv
<1>2. ASSUME NEW r \in Runners, Conclude(r), ExperimentsInv PROVE ExperimentsInv'
  BY <1>2, ConcludeKeeps, QuietRunnersKeep
<1> QED
  BY <1>1, <1>2, SessionsKeep, MeasureKeeps, QuietRunnersKeep, PublishKeeps, LoseKeeps,
     ConsumeKeeps, RewindKeeps DEF Next

LEMMA ExperimentsHold == Spec => []ExperimentsInv
BY ExperimentsInitially, ExperimentsPreserved, PTL DEF Spec

\* Whatever the models answer, however many sessions propose and however often
\* one starts over, what ideation turns into an experiment is an idea that
\* cites a source and clears every bar, at the budget it was judged with:
\* ideation_gate() (ideate.py) is applied to whatever propose() returns, by the
\* loop and by the cards of the workspace.  It says nothing of an experiment
\* that is typed or sent by hand.
THEOREM IdeationIsGated == Spec => []IdeationProposesGatedIdeas
<1>1. ExperimentsInv => IdeationProposesGatedIdeas
  <2> SUFFICES ASSUME ExperimentsInv, NEW e \in DOMAIN rows, rows[e].idea # NoIdea
               PROVE  LET idea == rows[e].idea IN
                      /\ idea.sources # {}
                      /\ Overall(idea.scores) >= 35
                      /\ idea.scores.novelty >= 3 /\ idea.scores.grounding >= 3
                      /\ rows[e].business = idea.business /\ rows[e].budget = idea.budget
    BY DEF IdeationProposesGatedIdeas
  <2>1. rows[e] \in Row /\ Traced(rows[e])
    BY DEF ExperimentsInv, TableOK
  <2>2. rows[e].idea \in Clear
    BY <2>1 DEF Row
  <2> QED
    BY <2>1, <2>2, ClearIdeas DEF Traced
<1> QED
  BY <1>1, ExperimentsHold, PTL

\* A concluded experiment is told once at most and as the table has it, for
\* any number of runners that decide it from different measurements: the
\* guarded UPDATE of conclude() lets one of them win (store.py).
THEOREM OutcomesAreToldOnce == Spec => []ToldOnceAsDecided
<1>1. ExperimentsInv => ToldOnceAsDecided
  BY DEF ExperimentsInv, OutcomesOK, Recorded, ToldOnceAsDecided
<1> QED
  BY <1>1, ExperimentsHold, PTL

\* A run that lets an experiment go on found money left in both budgets,
\* though it read the record before and the measurements have moved on since:
\* run() (runner.py) takes the smaller budget, and decide() compares with it.
THEOREM NoRunOverspends == Spec => SpentOutIsDecided
<1> DEFINE Left == \A r \in Runners :
          LET e == runner[r].experiment
              spent == arms[e].control.spent + arms[e].variant.spent
          IN  Run(r) /\ runner'[r].step = "idle" =>
                 spent < rows[e].budget /\ spent < Blueprint[rows[e].business]
<1>1. ASSUME ExperimentsInv PROVE [Left]_vars
  <2> SUFFICES ASSUME NEW r \in Runners, Run(r), runner'[r].step = "idle"
               PROVE  LET e == runner[r].experiment
                          spent == arms[e].control.spent + arms[e].variant.spent
                      IN  spent < rows[e].budget /\ spent < Blueprint[rows[e].business]
    OBVIOUS
  <2> DEFINE e == runner[r].experiment
             record == runner[r].record
             c == arms[e].control
             v == arms[e].variant
             budget == EffectiveBudget(Blueprint[record.business], record.budget)
             action == Decide(c, v, budget)
  <2>1. /\ c \in Arms /\ v \in Arms /\ budget \in Int
        /\ record.business = rows[e].business /\ record.budget = rows[e].budget
        /\ rows[e].budget \in Int /\ Blueprint[rows[e].business] \in Int
    BY <1>1, RunFinds
  <2>2. runner \in [Runners -> Work]
    BY <1>1 DEF ExperimentsInv, RunnersOK
  <2>3. runner' = [runner EXCEPT ![r] = IF action = "continue" THEN Resting
                                       ELSE [@ EXCEPT !.step = "conclude", !.action = action]]
    BY DEF Run
  <2>4. action = "continue"
    <3> SUFFICES ASSUME action # "continue" PROVE FALSE
      OBVIOUS
    <3> HIDE DEF action
    <3>1. runner'[r] = [runner[r] EXCEPT !.step = "conclude", !.action = action]
      BY <2>2, <2>3
    <3>2. runner'[r].step = "conclude"
      BY <2>2, <3>1 DEF Work
    <3> QED
      BY <3>2
  <2>5. c.spent + v.spent < budget /\ c.spent \in Int /\ v.spent \in Int
    BY <2>1, <2>4, DecisionIs DEF Arms
  <2>6. budget <= rows[e].budget /\ budget <= Blueprint[rows[e].business]
    BY <2>1 DEF EffectiveBudget
  <2> HIDE DEF budget
  <2> QED
    BY <2>1, <2>5, <2>6
<1> QED
  BY <1>1, ExperimentsHold, PTL DEF SpentOutIsDecided

----------------------------------------------------------------------------
(* The two projections.  The experiments of a business with a decision are *)
(* as many as the outcomes on the bus, lost, and about to be published.    *)

Decided(b, actions) ==
    {e \in DOMAIN rows : /\ rows[e].business = b /\ rows[e].status = "concluded"
                         /\ rows[e].decision \in actions}
Lost(b, actions) == {o \in lost : o.business = b /\ o.action \in actions}
Held(b, actions) ==
    {r \in Runners : /\ runner[r].step = "publish" /\ runner[r].record.business = b
                     /\ runner[r].action \in actions}

LEMMA KpiCounts ==
  ASSUME ExperimentsInv, NEW b \in Businesses
  PROVE  /\ Kpi(rows, b).scaled = Cardinality(Decided(b, {"scale"}))
         /\ Kpi(rows, b).concluded = Cardinality(Decided(b, Conclusive))
<1>1. Kpi(rows, b).scaled
        = Cardinality({e \in DOMAIN rows : rows[e].business = b
                         /\ (rows[e].status = "concluded" /\ rows[e].decision = "scale")})
  BY ZenonT(30) DEF Kpi
<1>2. Kpi(rows, b).concluded
        = Cardinality({e \in DOMAIN rows : rows[e].business = b /\ rows[e].status = "concluded"})
  BY DEF Kpi
<1>3. {e \in DOMAIN rows : rows[e].business = b
           /\ (rows[e].status = "concluded" /\ rows[e].decision = "scale")}
        = Decided(b, {"scale"})
  BY DEF Decided
<1>4. {e \in DOMAIN rows : rows[e].business = b /\ rows[e].status = "concluded"}
        = Decided(b, Conclusive)
  BY DEF Decided, ExperimentsInv, TableOK
<1> QED
  BY <1>1, <1>2, <1>3, <1>4

\* An injective image is as large as its domain.
LEMMA ImageSize ==
  ASSUME NEW S, IsFiniteSet(S), NEW f, DOMAIN f = S, f = [x \in S |-> f[x]],
         \A x, y \in S : f[x] = f[y] => x = y
  PROVE  /\ IsFiniteSet({f[x] : x \in S})
         /\ Cardinality({f[x] : x \in S}) = Cardinality(S)
<1> DEFINE T == {f[x] : x \in S}
<1>1. f \in Bijection(S, T)
  BY DEF Bijection, Injection, Surjection, IsInjective
<1> HIDE DEF T
<1>2. ExistsBijection(S, T)
  BY <1>1 DEF ExistsBijection
<1>3. IsFiniteSet(T) /\ Cardinality(T) = Cardinality(S)
  BY <1>2, FS_Bijection
<1> QED
  BY <1>3 DEF T

LEMMA ThreeParts ==
  ASSUME NEW R, NEW S, NEW T, IsFiniteSet(R), IsFiniteSet(S), IsFiniteSet(T),
         R \cap S = {}, R \cap T = {}, S \cap T = {}
  PROVE  Cardinality(R \cup S \cup T) = Cardinality(R) + Cardinality(S) + Cardinality(T)
<1>1. /\ Cardinality(R) \in Nat /\ Cardinality(S) \in Nat /\ Cardinality(T) \in Nat
      /\ Cardinality({}) = 0
  BY FS_CardinalityType, FS_EmptySet
<1>2. IsFiniteSet(R \cup S) /\ Cardinality(R \cup S) = Cardinality(R) + Cardinality(S)
  <2>1. /\ IsFiniteSet(R \cup S)
        /\ Cardinality(R \cup S) = Cardinality(R) + Cardinality(S) - Cardinality(R \cap S)
    BY FS_Union
  <2>2. Cardinality(R \cap S) = 0
    BY <1>1
  <2> QED
    BY <1>1, <2>1, <2>2
<1>3. (R \cup S) \cap T = {}
  OBVIOUS
<1>4. Cardinality((R \cup S) \cup T)
        = Cardinality(R \cup S) + Cardinality(T) - Cardinality((R \cup S) \cap T)
  BY <1>2, FS_Union
<1>5. Cardinality((R \cup S) \cap T) = 0
  BY <1>1, <1>3
<1> QED
  BY <1>1, <1>2, <1>4, <1>5

LEMMA DecidedAreTold ==
  ASSUME ExperimentsInv, NEW b \in Businesses, NEW actions \in SUBSET Conclusive
  PROVE  /\ Cardinality(Decided(b, actions))
              = Seen(topic, b, actions, Len(topic))
                  + Cardinality(Lost(b, actions)) + Cardinality(Held(b, actions))
         /\ Cardinality(Lost(b, actions)) \in Nat /\ Cardinality(Held(b, actions)) \in Nat
<1> DEFINE n == Len(topic)
           I == {k \in 1..n : topic[k].business = b /\ topic[k].action \in actions}
           L == Lost(b, actions)
           H == Held(b, actions)
           f == [k \in I |-> topic[k].experiment]
           g == [o \in L |-> o.experiment]
           h == [r \in H |-> runner[r].experiment]
           A == {f[k] : k \in I}
           B == {g[o] : o \in L}
           C == {h[r] : r \in H}
<1>1. n \in Nat /\ DOMAIN topic = 1..n /\ IsFiniteSet(lost) /\ IsFiniteSet(Runners)
  BY ExperimentsAssumption DEF ExperimentsInv, OutcomesOK
<1>2. IsFiniteSet(I) /\ IsFiniteSet(L) /\ IsFiniteSet(H)
  <2>1. IsFiniteSet(1..n)
    BY <1>1, FS_Interval
  <2>2. I \in SUBSET (1..n) /\ L \in SUBSET lost /\ H \in SUBSET Runners
    BY DEF Lost, Held
  <2> QED
    BY <1>1, <2>1, <2>2, FS_Subset
\* What the parts are made of.
<1>3. /\ \A k \in I : Recorded(rows, topic[k]) /\ topic[k].business = b /\ topic[k].action \in actions
      /\ \A o \in L : o \in lost /\ Recorded(rows, o) /\ o.business = b /\ o.action \in actions
      /\ \A r \in H : /\ r \in Publishing /\ Recorded(rows, Outcome(r))
                      /\ Outcome(r).experiment = runner[r].experiment
                      /\ Outcome(r).business = b /\ Outcome(r).action \in actions
  BY <1>1 DEF ExperimentsInv, OutcomesOK, Lost, Held, Publishing, Outcome
<1>4. \A k, m \in I : f[k] = f[m] => k = m
  BY <1>1 DEF ExperimentsInv, OutcomesOK
<1>5. \A o, l \in L : g[o] = g[l] => o = l
  <2> SUFFICES ASSUME NEW o \in L, NEW l \in L, o.experiment = l.experiment PROVE o = l
    OBVIOUS
  <2>1. o \in Told /\ l \in Told /\ o.business = l.business /\ o.action = l.action
    BY <1>3 DEF Recorded
  <2> QED
    BY <2>1 DEF Told
<1>6. \A q, r \in H : h[q] = h[r] => q = r
  BY <1>3 DEF ExperimentsInv, OutcomesOK
<1>7. /\ IsFiniteSet(A) /\ Cardinality(A) = Cardinality(I)
      /\ IsFiniteSet(B) /\ Cardinality(B) = Cardinality(L)
      /\ IsFiniteSet(C) /\ Cardinality(C) = Cardinality(H)
  <2> f = [k \in I |-> f[k]] /\ g = [o \in L |-> g[o]] /\ h = [r \in H |-> h[r]]
    OBVIOUS
  <2> DOMAIN f = I /\ DOMAIN g = L /\ DOMAIN h = H
    OBVIOUS
  <2> HIDE DEF I, L, H, f, g, h
  <2> QED
    BY <1>2, <1>4, <1>5, <1>6, ImageSize
<1>8. A \cap B = {} /\ A \cap C = {} /\ B \cap C = {}
  <2>1. /\ \A k \in I : k \in DOMAIN topic /\ f[k] = topic[k].experiment
        /\ \A o \in L : o \in lost /\ g[o] = o.experiment
        /\ \A r \in H : r \in Publishing /\ h[r] = runner[r].experiment
    BY <1>1, <1>3
  <2> HIDE DEF I, L, H, f, g, h
  <2>2. A \cap B = {}
    BY <2>1 DEF ExperimentsInv, OutcomesOK
  <2>3. A \cap C = {}
    BY <2>1 DEF ExperimentsInv, OutcomesOK
  <2>4. B \cap C = {}
    BY <2>1 DEF ExperimentsInv, OutcomesOK
  <2> QED
    BY <2>2, <2>3, <2>4
<1>9. Decided(b, actions) = A \cup B \cup C
  <2>1. ASSUME NEW e \in Decided(b, actions) PROVE e \in A \cup B \cup C
    <3>1. /\ e \in DOMAIN rows /\ rows[e].status = "concluded" /\ rows[e].business = b
          /\ rows[e].decision \in actions
      BY DEF Decided
    <3>2. \/ \E i \in DOMAIN topic : topic[i].experiment = e
          \/ \E o \in lost : o.experiment = e
          \/ \E r \in Publishing : runner[r].experiment = e
      BY <3>1 DEF ExperimentsInv, NoneForgotten
    <3>3. ASSUME NEW i \in DOMAIN topic, topic[i].experiment = e PROVE e \in A
      <4>1. Recorded(rows, topic[i])
        BY DEF ExperimentsInv, OutcomesOK
      <4> QED
        BY <1>1, <3>1, <3>3, <4>1 DEF Recorded
    <3>4. ASSUME NEW o \in lost, o.experiment = e PROVE e \in B
      <4>1. Recorded(rows, o)
        BY DEF ExperimentsInv, OutcomesOK
      <4> QED
        BY <3>1, <3>4, <4>1 DEF Recorded, Lost
    <3>5. ASSUME NEW r \in Publishing, runner[r].experiment = e PROVE e \in C
      <4>1. Recorded(rows, Outcome(r))
        BY DEF ExperimentsInv, OutcomesOK
      <4>2. /\ runner[r].record.business = rows[e].business
            /\ runner[r].action = rows[e].decision
        BY <3>5, <4>1 DEF Recorded, Outcome
      <4>3. r \in H
        BY <3>1, <4>2 DEF Held, Publishing
      <4> QED
        BY <3>5, <4>3
    <3> QED
      BY <3>2, <3>3, <3>4, <3>5
  <2>2. ASSUME NEW o, Recorded(rows, o), o.business = b, o.action \in actions
        PROVE  o.experiment \in Decided(b, actions)
    BY <2>2 DEF Decided, Recorded
  <2>3. A \subseteq Decided(b, actions) /\ B \subseteq Decided(b, actions)
    BY <1>3, <2>2
  <2>4. C \subseteq Decided(b, actions)
    <3> SUFFICES ASSUME NEW r \in H PROVE runner[r].experiment \in Decided(b, actions)
      OBVIOUS
    <3> QED
      BY <1>3, <2>2
  <2> QED
    BY <2>1, <2>3, <2>4
<1>10. Seen(topic, b, actions, n) = Cardinality(I)
  BY DEF Seen
<1>11. Cardinality(L) \in Nat /\ Cardinality(H) \in Nat
  BY <1>2, FS_CardinalityType
<1>12. Cardinality(A \cup B \cup C) = Cardinality(A) + Cardinality(B) + Cardinality(C)
  <2> HIDE DEF A, B, C
  <2> QED
    BY <1>7, <1>8, ThreeParts
<1> HIDE DEF A, B, C, I, L, H, n
<1> QED
  BY <1>7, <1>9, <1>10, <1>11, <1>12 DEF L, H, n

\* Counting is the same in a sequence and in its positions, and a count of
\* three actions is the sum of the counts of each.
LEMMA CountIsSeen ==
  ASSUME NEW s \in Seq(Told), NEW b, NEW actions
  PROVE  Count(s, b, actions) = Seen(s, b, actions, Len(s)) /\ Count(s, b, actions) \in Nat
<1>1. DOMAIN s = 1..Len(s) /\ Len(s) \in Nat
  OBVIOUS
<1>2. Count(s, b, actions) = Seen(s, b, actions, Len(s))
  BY <1>1 DEF Count, Seen
<1> QED
  BY <1>1, <1>2, SeenNext DEF SeenOneMore

LEMMA CountEach ==
  ASSUME NEW s \in Seq(Told), NEW b
  PROVE  Count(s, b, Conclusive)
           = Tally(s, b, "scale") + Tally(s, b, "pivot") + Tally(s, b, "kill")
<1> DEFINE M(actions) == {k \in DOMAIN s : s[k].business = b /\ s[k].action \in actions}
<1>1. \A actions : IsFiniteSet(M(actions))
  <2>1. DOMAIN s = 1..Len(s) /\ Len(s) \in Nat
    OBVIOUS
  <2>2. IsFiniteSet(DOMAIN s)
    BY <2>1, FS_Interval
  <2>3. \A actions : M(actions) \in SUBSET DOMAIN s
    OBVIOUS
  <2> HIDE DEF M
  <2> QED
    BY <2>2, <2>3, FS_Subset
<1>2. M(Conclusive) = M({"scale"}) \cup M({"pivot"}) \cup M({"kill"})
  BY DEF Conclusive
<1>3. /\ M({"scale"}) \cap M({"pivot"}) = {} /\ M({"scale"}) \cap M({"kill"}) = {}
      /\ M({"pivot"}) \cap M({"kill"}) = {}
  OBVIOUS
<1>4. \A actions : Count(s, b, actions) = Cardinality(M(actions))
  BY DEF Count
<1> HIDE DEF M
<1> QED
  BY <1>1, <1>2, <1>3, <1>4, ThreeParts DEF Tally

\* What has been seen to an offset, and what follows it.
LEMMA SeenAndUnread ==
  ASSUME NEW s \in Seq(Told), NEW b, NEW actions, NEW h \in Nat, h <= Len(s)
  PROVE  /\ SubSeq(s, h + 1, Len(s)) \in Seq(Told)
         /\ Seen(s, b, actions, Len(s))
              = Seen(s, b, actions, h) + Count(SubSeq(s, h + 1, Len(s)), b, actions)
         /\ Seen(s, b, actions, h) \in Nat
<1> DEFINE n == Len(s)
           t == SubSeq(s, h + 1, n)
           match(x) == x.business = b /\ x.action \in actions
           U == {k \in DOMAIN t : match(t[k])}
           f == [k \in U |-> k + h]
           X == {k \in 1..h : match(s[k])}
           Y == {k \in (h + 1)..n : match(s[k])}
           Z == {k \in 1..n : match(s[k])}
<1>1. n \in Nat /\ t \in Seq(Told) /\ Len(t) = n - h /\ DOMAIN t = 1..(n - h)
      /\ \A k \in 1..(n - h) : t[k] = s[k + h]
  OBVIOUS
<1> HIDE DEF match, t, n
<1>2. IsFiniteSet(U) /\ IsFiniteSet(X) /\ IsFiniteSet(Y)
  <2>1. n - h \in Int /\ h + 1 \in Int
    BY <1>1
  <2>2. IsFiniteSet(1..(n - h)) /\ IsFiniteSet(1..h) /\ IsFiniteSet((h + 1)..n)
    BY <1>1, <2>1, FS_Interval
  <2>3. U \in SUBSET (1..(n - h)) /\ X \in SUBSET (1..h) /\ Y \in SUBSET ((h + 1)..n)
    BY <1>1
  <2> HIDE DEF U, X, Y
  <2> QED
    BY <2>2, <2>3, FS_Subset
<1>3. Y = {f[k] : k \in U}
  <2>1. ASSUME NEW k \in U PROVE f[k] \in Y
    <3>1. k \in 1..(n - h) /\ match(s[k + h]) /\ f[k] = k + h
      BY <1>1
    <3>2. k + h \in (h + 1)..n
      BY <1>1, <3>1
    <3> QED
      BY <3>1, <3>2
  <2>2. ASSUME NEW k \in Y PROVE k \in {f[j] : j \in U}
    <3> DEFINE j == k - h
    <3>1. j \in 1..(n - h) /\ j + h = k
      BY <1>1
    <3> HIDE DEF j
    <3>2. j \in U
      BY <1>1, <3>1
    <3> QED
      BY <3>1, <3>2
  <2> HIDE DEF U, Y, f
  <2> QED
    BY <2>1, <2>2
<1>4. Cardinality(Y) = Cardinality(U)
  <2>1. \A j, k \in U : j \in Int /\ k \in Int
    BY <1>1
  <2> HIDE DEF U, Y
  <2>0. DOMAIN f = U /\ f = [k \in U |-> f[k]] /\ \A k \in U : f[k] = k + h
    OBVIOUS
  <2> HIDE DEF f
  <2>2. \A j, k \in U : f[j] = f[k] => j = k
    BY <2>0, <2>1
  <2> QED
    BY <1>2, <1>3, <2>0, <2>2, ImageSize
<1>5. Z = X \cup Y /\ X \cap Y = {}
  <2>1. \A k : k \in 1..n <=> (k \in 1..h \/ k \in (h + 1)..n)
    BY <1>1 DEF n
  <2>2. \A k : ~ (k \in 1..h /\ k \in (h + 1)..n)
    OBVIOUS
  <2> QED
    BY <2>1, <2>2
<1>6. Cardinality(X \cup Y) = Cardinality(X) + Cardinality(Y)
  <2>1. /\ Cardinality(X) \in Nat /\ Cardinality(Y) \in Nat /\ Cardinality({}) = 0
    BY <1>2, FS_CardinalityType, FS_EmptySet
  <2> HIDE DEF X, Y
  <2>2. Cardinality(X \cup Y) = Cardinality(X) + Cardinality(Y) - Cardinality(X \cap Y)
    BY <1>2, FS_Union
  <2>3. Cardinality(X \cap Y) = 0
    BY <1>5, <2>1
  <2> QED
    BY <2>1, <2>2, <2>3
<1>7. /\ Seen(s, b, actions, n) = Cardinality(Z) /\ Seen(s, b, actions, h) = Cardinality(X)
      /\ Count(t, b, actions) = Cardinality(U)
  BY DEF Seen, Count, match
<1>8. Cardinality(X) \in Nat
  BY <1>2, FS_CardinalityType
<1> HIDE DEF U, X, Y, Z
<1> QED
  BY <1>1, <1>4, <1>5, <1>6, <1>7, <1>8 DEF t, n

\* For one business and some actions: the decided experiments are those the
\* consumer was given, less those it was given again, and those to come.
LEMMA Balance ==
  ASSUME ExperimentsInv, NEW b \in Businesses, NEW actions \in SUBSET Conclusive
  PROVE  LET unread == SubSeq(topic, reader.high + 1, Len(topic)) IN
         /\ Cardinality(Decided(b, actions))
              = (Count(read, b, actions) + Count(unread, b, actions)
                   - Count(repeats, b, actions))
                + (Cardinality(Lost(b, actions)) + Cardinality(Held(b, actions)))
         /\ Count(read, b, actions) \in Nat /\ Count(repeats, b, actions) \in Nat
         /\ Count(unread, b, actions) \in Nat /\ unread \in Seq(Told)
         /\ Cardinality(Lost(b, actions)) \in Nat /\ Cardinality(Held(b, actions)) \in Nat
<1> DEFINE unread == SubSeq(topic, reader.high + 1, Len(topic))
           high == reader.high
<1>1. /\ topic \in Seq(Told) /\ read \in Seq(Told) /\ repeats \in Seq(Told)
      /\ high \in Nat /\ high <= Len(topic)
  BY DEF ExperimentsInv, ReaderOK, OutcomesOK
<1>2. Seen(read, b, actions, Len(read))
        = Seen(repeats, b, actions, Len(repeats)) + Seen(topic, b, actions, high)
  BY DEF ExperimentsInv, ReaderOK
<1>3. /\ unread \in Seq(Told) /\ Seen(topic, b, actions, high) \in Nat
      /\ Seen(topic, b, actions, Len(topic))
           = Seen(topic, b, actions, high) + Count(unread, b, actions)
  BY <1>1, SeenAndUnread
<1> HIDE DEF unread, high
<1>4. /\ Count(read, b, actions) = Seen(read, b, actions, Len(read))
      /\ Count(repeats, b, actions) = Seen(repeats, b, actions, Len(repeats))
      /\ Count(read, b, actions) \in Nat /\ Count(repeats, b, actions) \in Nat
      /\ Count(unread, b, actions) \in Nat
  BY <1>1, <1>3, CountIsSeen
<1>5. /\ Cardinality(Decided(b, actions))
           = Seen(topic, b, actions, Len(topic))
               + Cardinality(Lost(b, actions)) + Cardinality(Held(b, actions))
      /\ Cardinality(Lost(b, actions)) \in Nat /\ Cardinality(Held(b, actions)) \in Nat
  BY DecidedAreTold
<1>6. Cardinality(Decided(b, actions))
        = (Count(read, b, actions) + Count(unread, b, actions) - Count(repeats, b, actions))
          + (Cardinality(Lost(b, actions)) + Cardinality(Held(b, actions)))
  BY <1>2, <1>3, <1>4, <1>5, SMTT(20)
<1> QED
  BY <1>3, <1>4, <1>5, <1>6 DEF unread

\* The table and the bus tell the same story of every business: its decided
\* experiments are the outcomes read once, unread, lost and about to be told,
\* for any number of runners, crashes between the UPDATE and its event, events
\* lost and outcomes read again (kpis.py and rollup.py).
THEOREM ProjectionsTieOut == Spec => []ProjectionsAgree
<1>1. ASSUME ExperimentsInv PROVE ProjectionsAgree
  <2> SUFFICES ASSUME NEW b \in Businesses
               PROVE  LET kpi == Kpi(rows, b)
                          unread == SubSeq(topic, reader.high + 1, Len(topic))
                          untold(actions) ==
                              Cardinality({o \in lost : o.business = b /\ o.action \in actions})
                                + Cardinality({r \in Runners : /\ runner[r].step = "publish"
                                                               /\ runner[r].record.business = b
                                                               /\ runner[r].action \in actions})
                          told(a) == Tally(read, b, a) + Tally(unread, b, a) - Tally(repeats, b, a)
                      IN  /\ kpi.scaled = told("scale") + untold({"scale"})
                          /\ kpi.concluded = told("scale") + told("pivot") + told("kill")
                                               + untold(Conclusive)
    BY DEF ProjectionsAgree
  <2> DEFINE unread == SubSeq(topic, reader.high + 1, Len(topic))
  <2>1. /\ Kpi(rows, b).scaled = Cardinality(Decided(b, {"scale"}))
        /\ Kpi(rows, b).concluded = Cardinality(Decided(b, Conclusive))
    BY <1>1, KpiCounts
  <2>2. {"scale"} \in SUBSET Conclusive /\ Conclusive \in SUBSET Conclusive
    BY DEF Conclusive
  <2>3. \A actions \in SUBSET Conclusive :
           /\ Cardinality(Decided(b, actions))
                = (Count(read, b, actions) + Count(unread, b, actions)
                     - Count(repeats, b, actions))
                  + (Cardinality(Lost(b, actions)) + Cardinality(Held(b, actions)))
           /\ Cardinality(Lost(b, actions)) \in Nat /\ Cardinality(Held(b, actions)) \in Nat
    BY <1>1, Balance
  <2>4. read \in Seq(Told) /\ repeats \in Seq(Told) /\ unread \in Seq(Told)
    BY <1>1, <2>2, Balance DEF ExperimentsInv, ReaderOK
  <2> HIDE DEF unread
  <2>5. \A s \in Seq(Told) :
           /\ Count(s, b, Conclusive)
                = Tally(s, b, "scale") + Tally(s, b, "pivot") + Tally(s, b, "kill")
           /\ Tally(s, b, "scale") = Count(s, b, {"scale"})
           /\ Tally(s, b, "scale") \in Nat /\ Tally(s, b, "pivot") \in Nat
           /\ Tally(s, b, "kill") \in Nat
    BY CountEach, CountIsSeen DEF Tally
  <2> DEFINE told(a) == Tally(read, b, a) + Tally(unread, b, a) - Tally(repeats, b, a)
             untold(actions) == Cardinality(Lost(b, actions)) + Cardinality(Held(b, actions))
  <2>6. Kpi(rows, b).scaled = told("scale") + untold({"scale"})
    BY <2>1, <2>2, <2>3, <2>4, <2>5
  <2>7. Kpi(rows, b).concluded = told("scale") + told("pivot") + told("kill") + untold(Conclusive)
    <3>1. untold(Conclusive) \in Nat
      BY <2>2, <2>3
    <3>2. Kpi(rows, b).concluded
            = (Count(read, b, Conclusive) + Count(unread, b, Conclusive)
                 - Count(repeats, b, Conclusive)) + untold(Conclusive)
      BY <2>1, <2>2, <2>3
    <3> HIDE DEF untold
    <3>3. /\ Count(read, b, Conclusive)
               = Tally(read, b, "scale") + Tally(read, b, "pivot") + Tally(read, b, "kill")
          /\ Count(unread, b, Conclusive)
               = Tally(unread, b, "scale") + Tally(unread, b, "pivot") + Tally(unread, b, "kill")
          /\ Count(repeats, b, Conclusive)
               = Tally(repeats, b, "scale") + Tally(repeats, b, "pivot") + Tally(repeats, b, "kill")
      BY <2>4, <2>5
    <3>4. \A a \in {"scale", "pivot", "kill"} :
             Tally(read, b, a) \in Nat /\ Tally(unread, b, a) \in Nat /\ Tally(repeats, b, a) \in Nat
      BY <2>4, <2>5
    <3> QED
      BY <3>1, <3>2, <3>3, <3>4
  <2> QED
    BY <2>6, <2>7 DEF unread, Lost, Held
<1> QED
  BY <1>1, ExperimentsHold, PTL

----------------------------------------------------------------------------
(* Capital.  The winners are funded from the best one down, so that the    *)
(* room is gone before one that earns is passed over.                      *)

Perf == [business : Businesses, capital : Int, scale : Nat, pivot : Nat, kill : Nat]

\* What rollup() adds to the order of the businesses.
Listed(outcomes, kept, k) ==
    IF outcomes[k].action \notin Conclusive \/ outcomes[k].business \in Range(kept)
    THEN kept ELSE Append(kept, outcomes[k].business)

\* The businesses of the first k outcomes, each once.
ListedTo(outcomes, k, acc) ==
    /\ acc \in Seq(Businesses)
    /\ \A i, j \in DOMAIN acc : acc[i] = acc[j] => i = j
    /\ Range(acc) = {outcomes[l].business : l \in 1..k}

LEMMA NextListed ==
  ASSUME NEW outcomes \in Seq(Told), NEW k \in 1..Len(outcomes), NEW acc,
         ListedTo(outcomes, k - 1, acc)
  PROVE  ListedTo(outcomes, k, Listed(outcomes, acc, k))
<1> DEFINE b == outcomes[k].business
           next == Listed(outcomes, acc, k)
           before == {outcomes[l].business : l \in 1..(k - 1)}
<1>1. outcomes[k].action \in Conclusive /\ b \in Businesses
  <2>1. outcomes[k] \in Told
    OBVIOUS
  <2> QED
    BY <2>1 DEF Told
<1>2. /\ acc \in Seq(Businesses) /\ Range(acc) = before
      /\ \A i, j \in DOMAIN acc : acc[i] = acc[j] => i = j
  BY DEF ListedTo
<1>3. 1..k = (1..(k - 1)) \cup {k}
  OBVIOUS
<1>4. {outcomes[l].business : l \in 1..k} = before \cup {b}
  BY <1>3
<1>5. CASE b \in Range(acc)
  <2>1. next = acc
    BY <1>5 DEF Listed
  <2> HIDE DEF next, b, before
  <2> QED
    BY <1>2, <1>4, <1>5, <2>1 DEF ListedTo, next
<1>6. CASE b \notin Range(acc)
  <2>1. next = Append(acc, b)
    BY <1>1, <1>6 DEF Listed
  <2> HIDE DEF next, b, before
  <2>2. next \in Seq(Businesses) /\ Len(acc) \in Nat
    BY <1>1, <1>2, <2>1
  <2>3. /\ DOMAIN next = DOMAIN acc \cup {Len(acc) + 1} /\ next[Len(acc) + 1] = b
        /\ \A i \in DOMAIN acc : next[i] = acc[i]
    BY <1>1, <1>2, <2>1
  <2>4. \A i \in DOMAIN acc : acc[i] # b
    BY <1>6 DEF Range
  <2>5. \A i, j \in DOMAIN next : next[i] = next[j] => i = j
    BY <1>2, <2>3, <2>4
  <2>6. Range(next) = Range(acc) \cup {b}
    BY <2>3 DEF Range
  <2> QED
    BY <1>2, <1>4, <2>2, <2>5, <2>6 DEF ListedTo, next
<1> QED
  BY <1>5, <1>6

\* The roll-up has one row for each business that was heard of, with all that
\* was heard of it: rollup() (portfolio rollup.py), whose result allocate()
\* takes for one performance per business.
THEOREM RollupIsComplete ==
  ASSUME NEW outcomes \in Seq(Told)
  PROVE  LET perfs == Rollup(outcomes, Capital)
             about(b) == {k \in DOMAIN outcomes : outcomes[k].business = b}
         IN  /\ perfs \in Seq(Perf)
             /\ \A i, j \in DOMAIN perfs : perfs[i].business = perfs[j].business => i = j
             /\ \A b : about(b) # {} <=> \E i \in DOMAIN perfs : perfs[i].business = b
             /\ \A i \in DOMAIN perfs :
                   /\ Trials(perfs[i]) = Cardinality(about(perfs[i].business))
                   /\ perfs[i].scale = Tally(outcomes, perfs[i].business, "scale")
                   /\ perfs[i].capital = Capital[perfs[i].business]
<1> DEFINE n == Len(outcomes)
           S == DOMAIN outcomes
           A == Seq(Businesses)
           lists(g) == g = [s \in SUBSET S |-> IF s = {} THEN <<>>
                                              ELSE Listed(outcomes, g[s \ {Max(s)}], Max(s))]
           f == [x \in A \X S |-> Listed(outcomes, x[1], x[2])]
           h == CHOOSE g : lists(g)
           order == h[S]
           perfs == Rollup(outcomes, Capital)
           about(b) == {k \in DOMAIN outcomes : outcomes[k].business = b}
<1>1. perfs
        = [i \in DOMAIN order |->
             [business |-> order[i], capital |-> Capital[order[i]],
              scale |-> Tally(outcomes, order[i], "scale"),
              pivot |-> Tally(outcomes, order[i], "pivot"),
              kill  |-> Tally(outcomes, order[i], "kill")]]
  BY DEF Rollup, FoldLeft, MapThenFoldSet, Listed
<1>2. n \in Nat /\ S = 1..n /\ S \in SUBSET (1..n) /\ <<>> \in A
  OBVIOUS
<1>3. \A acc \in A, k \in S : f[<<acc, k>>] = Listed(outcomes, acc, k) /\ f[<<acc, k>>] \in A
  <2>1. \A k \in S : outcomes[k] \in Told
    OBVIOUS
  <2>2. \A o \in Told : o.business \in Businesses
    BY DEF Told
  <2> QED
    BY <2>1, <2>2 DEF Listed
<1> HIDE DEF f, S, n, A, perfs
<1>4. PICK g : Folding(g, S, <<>>, f) /\ \A s \in SUBSET S : g[s] \in A
  BY <1>2, <1>3, FoldExists
<1>5. lists(g)
  <2> SUFFICES ASSUME NEW s \in SUBSET S
               PROVE  g[s] = IF s = {} THEN <<>> ELSE Listed(outcomes, g[s \ {Max(s)}], Max(s))
    BY <1>4 DEF Folding
  <2>1. s # {} => Max(s) \in S /\ s \ {Max(s)} \in SUBSET S
    BY <1>2, MaxIsIn
  <2> QED
    BY <1>3, <1>4, <2>1 DEF Folding
<1>6. lists(h)
  BY <1>5
<1> HIDE DEF h
<1> DEFINE B == {k \in 0..n : ~ ListedTo(outcomes, k, h[1..k])}
<1>7. B = {}
  <2> SUFFICES ASSUME B # {} PROVE FALSE
    OBVIOUS
  <2>1. PICK k \in B : \A m \in B : k <= m
    <3>1. B \in SUBSET (0..n)
      OBVIOUS
    <3> HIDE DEF B
    <3> QED
      BY <1>2, <3>1, Least
  <2>2. k \in 0..n /\ ~ ListedTo(outcomes, k, h[1..k])
    BY <2>1
  <2>3. k # 0
    <3>1. 1..0 = {} /\ h[{}] = <<>>
      BY <1>6
    <3>2. ListedTo(outcomes, 0, <<>>)
      BY <3>1 DEF ListedTo, Range
    <3> QED
      BY <2>2, <3>1, <3>2
  <2>4. k \in 1..n /\ k - 1 \in 0..n /\ ~ k <= k - 1
    BY <1>2, <2>2, <2>3
  <2>5. k - 1 \notin B
    <3> HIDE DEF B
    <3> QED
      BY <2>1, <2>4
  <2>6. ListedTo(outcomes, k - 1, h[1..(k - 1)])
    BY <2>4, <2>5
  <2>7. h[1..k] = Listed(outcomes, h[1..(k - 1)], k)
    <3>1. /\ 1..k \in SUBSET (1..n) /\ 1..k # {} /\ Max(1..k) = k
          /\ (1..k) \ {k} = 1..(k - 1)
      BY <1>2, <2>4, LastOfFirst
    <3> QED
      BY <1>2, <1>6, <3>1
  <2> QED
    BY <2>2, <2>4, <2>6, <2>7, NextListed DEF n
<1>8. ListedTo(outcomes, n, order)
  BY <1>2, <1>7
<1> HIDE DEF order
<1>9. /\ order \in Seq(Businesses) /\ \A i, j \in DOMAIN order : order[i] = order[j] => i = j
      /\ Range(order) = {outcomes[l].business : l \in DOMAIN outcomes}
  BY <1>2, <1>8 DEF ListedTo, S
<1>10. \A b, a : Tally(outcomes, b, a) \in Nat
  BY CountIsSeen DEF Tally
<1>11. \A i \in DOMAIN order : order[i] \in Businesses /\ Capital[order[i]] \in Int
  BY <1>9, ExperimentsAssumption
<1>12. perfs \in Seq(Perf)
  <2>1. DOMAIN order = 1..Len(order) /\ Len(order) \in Nat
    BY <1>9
  <2> QED
    BY <1>1, <1>10, <1>11, <2>1 DEF Perf
<1>13. DOMAIN perfs = DOMAIN order /\ \A i \in DOMAIN perfs : perfs[i].business = order[i]
  BY <1>1
<1>14. \A i, j \in DOMAIN perfs : perfs[i].business = perfs[j].business => i = j
  BY <1>9, <1>13
<1>15. ASSUME NEW b PROVE about(b) # {} <=> \E i \in DOMAIN perfs : perfs[i].business = b
  <2>1. b \in Range(order) <=> \E k \in DOMAIN outcomes : outcomes[k].business = b
    BY <1>9
  <2>2. b \in Range(order) <=> \E i \in DOMAIN order : order[i] = b
    BY DEF Range
  <2> QED
    BY <1>13, <2>1, <2>2
<1>16. ASSUME NEW i \in DOMAIN perfs
       PROVE  /\ Trials(perfs[i]) = Cardinality(about(perfs[i].business))
              /\ perfs[i].scale = Tally(outcomes, perfs[i].business, "scale")
              /\ perfs[i].capital = Capital[perfs[i].business]
  <2> DEFINE b == order[i]
  <2>1. /\ perfs[i].business = b /\ perfs[i].capital = Capital[b]
        /\ perfs[i].scale = Tally(outcomes, b, "scale")
        /\ perfs[i].pivot = Tally(outcomes, b, "pivot")
        /\ perfs[i].kill = Tally(outcomes, b, "kill")
    BY <1>1
  <2>2. Trials(perfs[i]) = Count(outcomes, b, Conclusive)
    BY <2>1, CountEach DEF Trials
  <2>3. Count(outcomes, b, Conclusive) = Cardinality(about(b))
    <3>1. \A k \in DOMAIN outcomes : outcomes[k] \in Told
      OBVIOUS
    <3>2. \A o \in Told : o.action \in Conclusive
      BY DEF Told
    <3>3. about(b) = {k \in DOMAIN outcomes : outcomes[k].business = b
                                               /\ outcomes[k].action \in Conclusive}
      BY <3>1, <3>2
    <3> QED
      BY <3>3 DEF Count
  <2> QED
    BY <2>1, <2>2, <2>3
<1> QED
  BY <1>12, <1>14, <1>15, <1>16 DEF perfs

LEMMA PerfsAre ==
  ASSUME NEW perfs \in Seq(Perf)
  PROVE  /\ IsFiniteSet(DOMAIN perfs) /\ DOMAIN perfs \subseteq Nat
         /\ IsFiniteSet(Winners(perfs)) /\ Cardinality(Winners(perfs)) \in Nat
         /\ Winners(perfs) \subseteq DOMAIN perfs
         /\ \A i \in DOMAIN perfs : Score(perfs[i]) \in Int /\ perfs[i].capital \in Int
<1>1. Len(perfs) \in Nat /\ DOMAIN perfs = 1..Len(perfs)
  OBVIOUS
<1>2. IsFiniteSet(DOMAIN perfs)
  BY <1>1, FS_Interval
<1>3. Winners(perfs) \subseteq DOMAIN perfs
  BY DEF Winners
<1>4. IsFiniteSet(Winners(perfs)) /\ Cardinality(Winners(perfs)) \in Nat
  BY <1>2, <1>3, FS_Subset, FS_CardinalityType
<1>5. \A p \in Perf : Score(p) \in Int /\ p.capital \in Int
  BY DEF Perf, Score
<1>6. \A i \in DOMAIN perfs : perfs[i] \in Perf
  OBVIOUS
<1>7. DOMAIN perfs \subseteq Nat
  BY <1>1
<1> QED
  BY <1>2, <1>3, <1>4, <1>5, <1>6, <1>7

\* The k-th of the ranking has k - 1 better winners.
LEMMA RankingIs ==
  ASSUME NEW perfs \in Seq(Perf)
  PROVE  LET W == Winners(perfs)
             n == Cardinality(W)
             ranking == Ranking(perfs)
         IN  /\ ranking \in [1..n -> W]
             /\ \A i \in W : \E k \in 1..n : ranking[k] = i
             /\ \A k, l \in 1..n : ranking[k] = ranking[l] => k = l
             /\ \A k, l \in 1..n : ranking[l] \in Better(perfs, ranking[k]) => l < k
<1> DEFINE W == Winners(perfs)
           n == Cardinality(W)
           ranking == Ranking(perfs)
           better == [i \in W |-> Better(perfs, i)]
<1>1. IsFiniteSet(W) /\ n \in Nat
  BY PerfsAre
<1>2. Order(W, better)
  <2>1. \A i \in W : Score(perfs[i]) \in Int /\ i \in Nat
    BY PerfsAre
  <2>2. better \in [W -> SUBSET W]
    BY DEF Better
  <2> DEFINE ahead(j, i) == \/ Score(perfs[j]) > Score(perfs[i])
                            \/ Score(perfs[j]) = Score(perfs[i]) /\ j < i
  <2>3. \A i, j \in W : j \in better[i] <=> ahead(j, i)
    BY DEF Better
  <2>4. \A i \in W : ~ ahead(i, i)
    BY <2>1
  <2>5. \A i, j, k \in W : ahead(k, j) /\ ahead(j, i) => ahead(k, i)
    BY <2>1
  <2>6. \A i, j \in W : i # j => ahead(i, j) \/ ahead(j, i)
    BY <2>1
  <2>7. \A i \in W : \A j \in better[i] : better[j] \subseteq better[i]
    <3> SUFFICES ASSUME NEW i \in W, NEW j \in better[i], NEW k \in better[j]
                 PROVE  k \in better[i]
      OBVIOUS
    <3> HIDE DEF W, better, ahead
    <3>1. j \in W
      BY <2>2
    <3>2. k \in W
      BY <2>2, <3>1
    <3> QED
      BY <2>3, <2>5, <3>1, <3>2
  <2> HIDE DEF W, better, ahead
  <2> QED
    BY <2>2, <2>3, <2>4, <2>6, <2>7 DEF Order
<1>3. Ranks(W, better) \in Bijection(W, 0..(n - 1))
  <2> HIDE DEF W, better
  <2> QED
    BY <1>1, <1>2, RanksAre
<1>4. \A i \in W : Ranks(W, better)[i] = Cardinality(Better(perfs, i))
  BY DEF Ranks
<1> HIDE DEF W, better
<1>5. \A i \in W : Cardinality(Better(perfs, i)) \in 0..(n - 1)
  BY <1>3, <1>4 DEF Bijection, Injection
<1>6. \A i, j \in W : Cardinality(Better(perfs, i)) = Cardinality(Better(perfs, j)) => i = j
  BY <1>3, <1>4 DEF Bijection, Injection, IsInjective
<1>7. \A m \in 0..(n - 1) : \E i \in W : Cardinality(Better(perfs, i)) = m
  BY <1>3, <1>4 DEF Bijection, Surjection
<1>8. ranking = [k \in 1..n |-> CHOOSE i \in W : Cardinality(Better(perfs, i)) = k - 1]
  BY DEF Ranking, W
<1> HIDE DEF ranking
<1>9. ASSUME NEW k \in 1..n
      PROVE  ranking[k] \in W /\ Cardinality(Better(perfs, ranking[k])) = k - 1
  <2>1. k - 1 \in 0..(n - 1)
    BY <1>1
  <2>2. \E i \in W : Cardinality(Better(perfs, i)) = k - 1
    BY <1>7, <2>1
  <2> QED
    BY <1>8, <2>2
<1>10. ranking \in [1..n -> W]
  BY <1>8, <1>9
<1>11. ASSUME NEW i \in W PROVE \E k \in 1..n : ranking[k] = i
  <2> DEFINE k == Cardinality(Better(perfs, i)) + 1
  <2>1. k \in 1..n /\ Cardinality(Better(perfs, i)) = k - 1
    BY <1>1, <1>5
  <2> HIDE DEF k
  <2>2. ranking[k] = i
    BY <1>6, <1>9, <2>1
  <2> QED
    BY <2>1, <2>2
<1>12. ASSUME NEW k \in 1..n, NEW l \in 1..n, ranking[k] = ranking[l] PROVE k = l
  <2>1. k - 1 = l - 1
    BY <1>9, <1>12
  <2> QED
    BY <2>1
<1>13. ASSUME NEW k \in 1..n, NEW l \in 1..n, ranking[l] \in Better(perfs, ranking[k])
       PROVE  l < k
  <2>1. better[ranking[k]] = Better(perfs, ranking[k]) /\ better[ranking[l]] = Better(perfs, ranking[l])
    BY <1>9 DEF better
  <2>2. Cardinality(Better(perfs, ranking[l])) < Cardinality(Better(perfs, ranking[k]))
    BY <1>1, <1>2, <1>9, <1>13, <2>1, AheadIsFewer
  <2>3. l - 1 < k - 1
    BY <1>9, <2>2
  <2> QED
    BY <2>3
<1> QED
  BY <1>10, <1>11, <1>12, <1>13 DEF W, ranking

\* What the first k winners leave: no room once one that earns was passed
\* over, and none was passed over before one that is funded.
Granted(perfs, losers, room, k, acc) ==
    LET ranking == Ranking(perfs)
        earns(i) == perfs[i].business \notin losers
    IN  /\ acc \in [room : Int, who : SUBSET Winners(perfs)]
        /\ \A i \in acc.who : earns(i) /\ \E l \in 1..k : ranking[l] = i
        /\ acc.room = room - Increment * Cardinality(acc.who)
        /\ acc.who # {} => acc.room >= 0
        /\ \A l \in 1..k : earns(ranking[l]) /\ ranking[l] \notin acc.who =>
              acc.room < Increment
        /\ \A l, m \in 1..k : l < m /\ ranking[m] \in acc.who /\ earns(ranking[l]) =>
              ranking[l] \in acc.who

Grant(perfs, losers, acc, i) ==
    IF perfs[i].business \notin losers /\ acc.room >= Increment
    THEN [room |-> acc.room - Increment, who |-> acc.who \cup {i}]
    ELSE acc

LEMMA NextGranted ==
  ASSUME NEW perfs \in Seq(Perf), NEW losers, NEW room \in Int,
         NEW k \in 1..Cardinality(Winners(perfs)), NEW acc,
         Granted(perfs, losers, room, k - 1, acc)
  PROVE  Granted(perfs, losers, room, k, Grant(perfs, losers, acc, Ranking(perfs)[k]))
<1> DEFINE W == Winners(perfs)
           n == Cardinality(W)
           ranking == Ranking(perfs)
           i == ranking[k]
           earns(j) == perfs[j].business \notin losers
           next == Grant(perfs, losers, acc, i)
<1>1. IsFiniteSet(W) /\ n \in Nat /\ Increment \in Int
  BY PerfsAre, ThresholdsAssumption
<1>2. ranking \in [1..n -> W] /\ \A l, m \in 1..n : ranking[l] = ranking[m] => l = m
  BY RankingIs
<1>3. k \in 1..n /\ k \in Nat /\ n \in Nat
  BY <1>1
<1>4. /\ acc.room \in Int /\ acc.who \in SUBSET W /\ acc = [room |-> acc.room, who |-> acc.who]
      /\ \A j \in acc.who : earns(j) /\ \E l \in 1..(k - 1) : ranking[l] = j
      /\ acc.room = room - Increment * Cardinality(acc.who)
      /\ acc.who # {} => acc.room >= 0
      /\ \A l \in 1..(k - 1) : earns(ranking[l]) /\ ranking[l] \notin acc.who =>
            acc.room < Increment
      /\ \A l, m \in 1..(k - 1) : l < m /\ ranking[m] \in acc.who /\ earns(ranking[l]) =>
            ranking[l] \in acc.who
  BY DEF Granted
<1> HIDE DEF ranking, W, n
<1>5. (1..(k - 1)) \cup {k} = 1..k /\ k \notin 1..(k - 1) /\ 1..k \subseteq 1..n
  BY <1>3
<1>6. i \notin acc.who
  <2> SUFFICES ASSUME i \in acc.who PROVE FALSE
    OBVIOUS
  <2>1. PICK l \in 1..(k - 1) : ranking[l] = i
    BY <1>4
  <2> QED
    BY <1>2, <1>5, <2>1
<1>7. i \in W
  BY <1>2, <1>3
<1>8. CASE earns(i) /\ acc.room >= Increment
  <2>1. next = [room |-> acc.room - Increment, who |-> acc.who \cup {i}]
    BY <1>8 DEF Grant
  <2>2. next.room = acc.room - Increment /\ next.who = acc.who \cup {i}
    BY <2>1
  <2>3. next \in [room : Int, who : SUBSET W]
    BY <1>1, <1>4, <1>7, <2>1
  <2>4. next.room = room - Increment * Cardinality(next.who)
    <3>1. IsFiniteSet(acc.who)
      BY <1>1, <1>4, FS_Subset
    <3>2. Cardinality(acc.who) \in Nat /\ Cardinality(next.who) = Cardinality(acc.who) + 1
      BY <1>6, <2>2, <3>1, FS_AddElement, FS_CardinalityType
    <3> DEFINE c == Cardinality(acc.who)
    <3>3. acc.room = room - Increment * c /\ next.room = acc.room - Increment
      BY <1>4, <2>2
    <3> HIDE DEF c, next
    <3>4. \A x \in Int, y \in Nat : x * (y + 1) = x * y + x /\ x * y \in Int
      OBVIOUS
    <3>5. c \in Nat
      BY <3>2 DEF c
    <3>6. Increment * (c + 1) = Increment * c + Increment /\ Increment * c \in Int
      BY <1>1, <3>4, <3>5
    <3>7. next.room = room - Increment * (c + 1)
      BY <1>1, <3>3, <3>6
    <3> QED
      BY <3>2, <3>7 DEF c
  <2>5. next.room >= 0
    BY <1>1, <1>4, <1>8, <2>2
  <2>6. \A l \in 1..k : earns(ranking[l]) => ranking[l] \in next.who
    <3> SUFFICES ASSUME NEW l \in 1..k, earns(ranking[l]), ranking[l] \notin next.who
                 PROVE  FALSE
      OBVIOUS
    <3>1. l \in 1..(k - 1) /\ ranking[l] \notin acc.who
      BY <1>5, <2>2
    <3> QED
      BY <1>1, <1>4, <1>8, <3>1
  <2>7. \A j \in next.who : earns(j) /\ \E l \in 1..k : ranking[l] = j
    <3> SUFFICES ASSUME NEW j \in next.who
                 PROVE  earns(j) /\ \E l \in 1..k : ranking[l] = j
      OBVIOUS
    <3> QED
      BY <1>4, <1>5, <1>8, <2>2
  <2> HIDE DEF next
  <2> QED
    BY <2>3, <2>4, <2>5, <2>6, <2>7 DEF Granted, ranking, W, next
<1>9. CASE ~ (earns(i) /\ acc.room >= Increment)
  <2>1. next = acc
    BY <1>9 DEF Grant
  <2>2. \A j \in acc.who : earns(j) /\ \E l \in 1..k : ranking[l] = j
    BY <1>4, <1>5
  <2>3. \A l \in 1..k : earns(ranking[l]) /\ ranking[l] \notin acc.who => acc.room < Increment
    <3> SUFFICES ASSUME NEW l \in 1..k, earns(ranking[l]), ranking[l] \notin acc.who
                 PROVE  acc.room < Increment
      OBVIOUS
    <3>1. CASE l \in 1..(k - 1)
      BY <1>4, <3>1
    <3>2. CASE l = k
      BY <1>1, <1>4, <1>9, <3>2
    <3> QED
      BY <1>5, <3>1, <3>2
  <2>4. \A l, m \in 1..k : l < m /\ ranking[m] \in acc.who /\ earns(ranking[l]) =>
           ranking[l] \in acc.who
    <3> SUFFICES ASSUME NEW l \in 1..k, NEW m \in 1..k, l < m, ranking[m] \in acc.who,
                        earns(ranking[l])
                 PROVE  ranking[l] \in acc.who
      OBVIOUS
    <3>1. m # k
      BY <1>6
    <3>2. l \in 1..(k - 1) /\ m \in 1..(k - 1)
      BY <1>3, <3>1
    <3> QED
      BY <1>4, <3>2
  <2>5. acc \in [room : Int, who : SUBSET W]
    BY <1>4
  <2> HIDE DEF next
  <2> QED
    BY <1>4, <2>1, <2>2, <2>3, <2>4, <2>5 DEF Granted, ranking, W, next
<1> QED
  BY <1>8, <1>9

\* What FundedFrom() gives out fits the room, and goes to the best first.
LEMMA FundedFits ==
  ASSUME NEW perfs \in Seq(Perf), NEW losers, NEW room \in Int
  PROVE  LET F == FundedFrom(perfs, losers, room)
         IN  /\ F \subseteq Winners(perfs)
             /\ \A i \in F : perfs[i].business \notin losers
             /\ F # {} => Increment * Cardinality(F) <= room
             /\ \A i \in F, j \in Winners(perfs) :
                   Score(perfs[j]) > Score(perfs[i]) /\ perfs[j].business \notin losers =>
                      j \in F
<1> DEFINE W == Winners(perfs)
           n == Cardinality(W)
           ranking == Ranking(perfs)
           S == DOMAIN ranking
           A == [room : Int, who : SUBSET W]
           base == [room |-> room, who |-> {}]
           grants(g) == g = [s \in SUBSET S |-> IF s = {} THEN base
                               ELSE Grant(perfs, losers, g[s \ {Max(s)}], ranking[Max(s)])]
           f == [x \in A \X S |-> Grant(perfs, losers, x[1], ranking[x[2]])]
           h == CHOOSE g : grants(g)
           F == FundedFrom(perfs, losers, room)
<1>0. F = h[S].who
  BY DEF FundedFrom, FoldLeft, MapThenFoldSet, Grant
<1>1. IsFiniteSet(W) /\ n \in Nat /\ Increment \in Int /\ W \subseteq DOMAIN perfs
  BY PerfsAre, ThresholdsAssumption
<1>2. /\ ranking \in [1..n -> W] /\ \A l, m \in 1..n : ranking[l] = ranking[m] => l = m
      /\ \A i \in W : \E k \in 1..n : ranking[k] = i
      /\ \A k, l \in 1..n : ranking[l] \in Better(perfs, ranking[k]) => l < k
  BY RankingIs
<1>3. S = 1..n /\ S \in SUBSET (1..n) /\ base \in A
  BY <1>2
<1>4. \A acc \in A, k \in S : /\ f[<<acc, k>>] = Grant(perfs, losers, acc, ranking[k])
                              /\ f[<<acc, k>>] \in A
  <2> SUFFICES ASSUME NEW acc \in A, NEW k \in S
               PROVE  Grant(perfs, losers, acc, ranking[k]) \in A
    OBVIOUS
  <2>1. ranking[k] \in W
    BY <1>2, <1>3
  <2> QED
    BY <1>1, <2>1 DEF Grant
<1> HIDE DEF f, F, W, n, ranking, S, base
<1>5. PICK g : Folding(g, S, base, f) /\ \A s \in SUBSET S : g[s] \in A
  <2> HIDE DEF A
  <2> QED
    BY <1>1, <1>3, <1>4, FoldExists
<1>6. grants(g)
  <2> SUFFICES ASSUME NEW s \in SUBSET S
               PROVE  g[s] = IF s = {} THEN base
                             ELSE Grant(perfs, losers, g[s \ {Max(s)}], ranking[Max(s)])
    BY <1>5 DEF Folding
  <2>1. s # {} => Max(s) \in S /\ s \ {Max(s)} \in SUBSET S
    BY <1>1, <1>3, MaxIsIn
  <2> HIDE DEF A
  <2> QED
    BY <1>4, <1>5, <2>1 DEF Folding
<1>7. grants(h)
  BY <1>6
<1> HIDE DEF h, A
<1>8. h[{}] = base
  BY <1>7
<1>9. ASSUME NEW k \in 1..n
      PROVE  h[1..k] = Grant(perfs, losers, h[1..(k - 1)], ranking[k])
  <2>1. /\ 1..k \in SUBSET (1..n) /\ 1..k # {} /\ Max(1..k) = k
        /\ (1..k) \ {k} = 1..(k - 1)
    BY <1>1, LastOfFirst
  <2> QED
    BY <1>3, <1>7, <2>1
<1> DEFINE B == {k \in 0..n : ~ Granted(perfs, losers, room, k, h[1..k])}
<1>10. B = {}
  <2> SUFFICES ASSUME B # {} PROVE FALSE
    OBVIOUS
  <2>1. PICK k \in B : \A m \in B : k <= m
    <3>1. B \in SUBSET (0..n)
      OBVIOUS
    <3> HIDE DEF B
    <3> QED
      BY <1>1, <3>1, Least
  <2>2. k \in 0..n /\ ~ Granted(perfs, losers, room, k, h[1..k])
    BY <2>1
  <2>3. k # 0
    <3>1. 1..0 = {} /\ Cardinality({}) = 0
      BY FS_EmptySet
    <3>2. Increment * 0 = 0
      BY <1>1
    <3>3. base.who = {} /\ base.room = room /\ base \in [room : Int, who : SUBSET W]
      BY DEF base
    <3>4. base.room = room - Increment * Cardinality(base.who)
      BY <3>1, <3>2, <3>3
    <3>5. Granted(perfs, losers, room, 0, base)
      BY <3>1, <3>3, <3>4 DEF Granted, W
    <3> QED
      BY <1>8, <2>2, <3>1, <3>5
  <2>4. k \in 1..n /\ k - 1 \in 0..n /\ ~ k <= k - 1
    BY <1>1, <2>2, <2>3
  <2>5. k - 1 \notin B
    <3> HIDE DEF B
    <3> QED
      BY <2>1, <2>4
  <2>6. Granted(perfs, losers, room, k - 1, h[1..(k - 1)])
    BY <2>4, <2>5
  <2>7. Granted(perfs, losers, room, k, Grant(perfs, losers, h[1..(k - 1)], ranking[k]))
    BY <2>4, <2>6, NextGranted DEF W, n, ranking
  <2> QED
    BY <1>9, <2>2, <2>4, <2>7
<1>11. Granted(perfs, losers, room, n, h[S])
  BY <1>1, <1>3, <1>10
<1> DEFINE last == h[S]
           earns(j) == perfs[j].business \notin losers
<1>12. /\ F = last.who /\ last.room \in Int /\ F \in SUBSET W
       /\ \A i \in F : earns(i) /\ \E l \in 1..n : ranking[l] = i
       /\ last.room = room - Increment * Cardinality(F)
       /\ F # {} => last.room >= 0
       /\ \A l, m \in 1..n : l < m /\ ranking[m] \in F /\ earns(ranking[l]) => ranking[l] \in F
  BY <1>0, <1>11 DEF Granted, W, ranking
<1> HIDE DEF last
<1>13. F # {} => Increment * Cardinality(F) <= room
  <2>1. IsFiniteSet(F)
    BY <1>1, <1>12, FS_Subset
  <2>2. Cardinality(F) \in Nat
    BY <2>1, FS_CardinalityType
  <2>3. Increment * Cardinality(F) \in Int
    BY <1>1, <2>2
  <2> QED
    BY <1>12, <2>3
<1>14. ASSUME NEW i \in F, NEW j \in W, Score(perfs[j]) > Score(perfs[i]), earns(j)
       PROVE  j \in F
  <2>1. i \in W /\ j \in Better(perfs, i)
    BY <1>12, <1>14 DEF Better, W
  <2>2. PICK m \in 1..n : ranking[m] = i
    BY <1>2, <2>1
  <2>3. PICK l \in 1..n : ranking[l] = j
    BY <1>2
  <2>4. l < m
    BY <1>2, <2>1, <2>2, <2>3
  <2> QED
    BY <1>12, <1>14, <2>2, <2>3, <2>4
<1> QED
  BY <1>12, <1>13, <1>14 DEF F, W

LEMMA HeadroomIs ==
  ASSUME NEW perfs \in Seq(Perf), NEW budget \in Int
  PROVE  LET K == {i \in DOMAIN perfs : ~ Sunset(perfs[i])}
             capital == [i \in DOMAIN perfs |-> perfs[i].capital]
         IN  /\ Headroom(perfs, budget) = budget - Total(capital, K)
             /\ Total(capital, K) \in Int /\ Headroom(perfs, budget) \in Int
<1> DEFINE K == {i \in DOMAIN perfs : ~ Sunset(perfs[i])}
           capital == [i \in DOMAIN perfs |-> perfs[i].capital]
<1>1. Headroom(perfs, budget) = budget - FoldFunctionOnSet(+, 0, capital, K)
  BY DEF Headroom, CapitalOf
<1>2. IsFiniteSet(K) /\ \A i \in K : capital[i] \in Int
  BY PerfsAre, FS_Subset
<1> HIDE DEF K, capital
<1>3. FoldFunctionOnSet(+, 0, capital, K) = Total(capital, K)
  BY <1>2, FoldIsTotal
<1>4. Total(capital, K) \in Int
  BY <1>2, TotalIsInt
<1>5. Headroom(perfs, budget) = budget - Total(capital, K)
  BY <1>1, <1>3
<1>6. Headroom(perfs, budget) \in Int
  BY <1>4, <1>5
<1> QED
  BY <1>4, <1>5, <1>6 DEF K, capital

\* The advice adds what is funded to the capital of the businesses kept, and
\* takes the capital of the sunsets away.
LEMMA CapitalAddsUp ==
  ASSUME NEW perfs \in Seq(Perf), NEW budget \in Int, NEW losers,
         Funded(perfs, budget, losers) # {}
  PROVE  CapitalOf(perfs, DOMAIN perfs)
           + FoldFunctionOnSet(+, 0,
                [i \in DOMAIN perfs |-> Allocate(perfs, budget, losers)[i].delta], DOMAIN perfs)
         <= budget
<1> DEFINE D == DOMAIN perfs
           F == Funded(perfs, budget, losers)
           K == {i \in D : ~ Sunset(perfs[i])}
           capital == [i \in D |-> perfs[i].capital]
           delta == [i \in D |-> Allocate(perfs, budget, losers)[i].delta]
           kept == [i \in D |-> IF i \in K THEN capital[i] ELSE 0]
           added == [i \in D |-> IF i \in F THEN Increment ELSE 0]
           increments == [i \in F |-> Increment]
           after == [i \in D |-> kept[i] + added[i]]
<1>1. IsFiniteSet(D) /\ Increment \in Int /\ \A i \in D : perfs[i].capital \in Int
  BY PerfsAre, ThresholdsAssumption
<1>2. IsFiniteSet(K) /\ K \subseteq D
  BY <1>1, FS_Subset
<1>3. /\ Headroom(perfs, budget) = budget - Total(capital, K)
      /\ Total(capital, K) \in Int /\ Headroom(perfs, budget) \in Int
  BY HeadroomIs
<1>4. F \subseteq Winners(perfs) /\ Increment * Cardinality(F) <= Headroom(perfs, budget)
  BY <1>3, FundedFits DEF Funded
<1>5. F \subseteq K /\ F \subseteq D
  BY <1>4 DEF Winners, Winner
<1>6. IsFiniteSet(F)
  BY <1>1, <1>5, FS_Subset
<1>7. \A i \in D : delta[i] = IF i \notin K THEN -capital[i] ELSE IF i \in F THEN Increment ELSE 0
  BY DEF Allocate
<1>8. /\ \A i \in D : /\ capital[i] \in Int /\ delta[i] \in Int
                       /\ kept[i] \in Int /\ added[i] \in Int
                       /\ after[i] = kept[i] + added[i]
                       /\ after[i] = capital[i] + delta[i]
      /\ \A i \in D : kept[i] = (IF i \in K THEN capital[i] ELSE 0)
      /\ \A i \in D : added[i] = (IF i \in F THEN increments[i] ELSE 0)
      /\ \A i \in F : increments[i] \in Int /\ increments[i] <= Increment
  <2> HIDE DEF D, K, F, delta
  <2>1. \A i \in D : capital[i] \in Int
    BY <1>1
  <2>2. \A i \in D : delta[i] \in Int /\ kept[i] \in Int /\ added[i] \in Int
    BY <1>1, <1>7, <2>1
  <2>3. \A i \in D : kept[i] + added[i] = capital[i] + delta[i]
    BY <1>1, <1>5, <1>7, <2>1, <2>2
  <2> QED
    BY <1>1, <2>1, <2>2, <2>3
<1> HIDE DEF D, F, K, capital, delta, kept, added, increments, after
<1>9. Total(after, D) = Total(capital, D) + Total(delta, D)
  BY <1>1, <1>8, TotalPlus
<1>10. Total(after, D) = Total(kept, D) + Total(added, D)
  BY <1>1, <1>8, TotalPlus
<1>11. Total(capital, K) = Total(kept, D)
  BY <1>1, <1>2, <1>8, TotalFilter
<1>12. Total(increments, F) = Total(added, D)
  BY <1>1, <1>5, <1>8, TotalFilter
<1>13. Total(increments, F) <= Increment * Cardinality(F)
  BY <1>1, <1>6, <1>8, TotalAtMost
<1>14. /\ Total(increments, F) \in Int /\ Total(capital, D) \in Int /\ Total(delta, D) \in Int
       /\ Increment * Cardinality(F) \in Int
  <2>1. Cardinality(F) \in Nat
    BY <1>6, FS_CardinalityType
  <2>2. Increment * Cardinality(F) \in Int
    BY <1>1, <2>1
  <2>3. Total(increments, F) \in Int
    BY <1>6, <1>8, TotalIsInt
  <2>4. Total(capital, D) \in Int
    BY <1>1, <1>8, TotalIsInt
  <2>5. Total(delta, D) \in Int
    BY <1>1, <1>8, TotalIsInt
  <2> QED
    BY <2>2, <2>3, <2>4, <2>5
<1>15. Total(capital, D) + Total(delta, D) <= budget
  BY <1>3, <1>4, <1>9, <1>10, <1>11, <1>12, <1>13, <1>14
<1>16. FoldFunctionOnSet(+, 0, capital, D) = Total(capital, D)
  BY <1>1, FoldIsTotal
<1>17. FoldFunctionOnSet(+, 0, delta, D) = Total(delta, D)
  BY <1>1, FoldIsTotal
<1> QED
  BY <1>15, <1>16, <1>17 DEF CapitalOf, D, capital, delta

\* Whatever was read, however often and in whatever order, the portfolio never
\* advises more capital than the budget, reclaims before it reinvests, and
\* passes over no better business that earns: allocate() on rollup(), for any
\* number of businesses, outcomes and thresholds (portfolio core.py, rollup.py).
THEOREM CapitalGoesByEvidence == Spec => []CapitalFollowsEvidence
<1>1. ASSUME ExperimentsInv PROVE CapitalFollowsEvidence
  <2> DEFINE perfs == Rollup(read, Capital)
  <2>1. perfs \in Seq(Perf)
    BY <1>1, RollupIsComplete DEF ExperimentsInv, ReaderOK
  <2> HIDE DEF perfs
  <2> SUFFICES ASSUME NEW budget \in Budgets, NEW losers \in SUBSET Businesses
               PROVE  LET advice == Allocate(perfs, budget, losers)
                          I(action) == {i \in DOMAIN perfs : advice[i].action = action}
                          deployed == CapitalOf(perfs, DOMAIN perfs)
                          delta(A) == FoldFunctionOnSet(+, 0,
                                         [i \in DOMAIN perfs |-> advice[i].delta], A)
                      IN  /\ I("invest_more") # {} =>
                                deployed + delta(DOMAIN perfs) <= budget
                          /\ \A i \in I("invest_more") :
                                /\ perfs[i].business \notin losers
                                /\ \A j \in I("hold") :
                                      Score(perfs[j]) > Score(perfs[i]) =>
                                         perfs[j].business \in losers
    BY DEF CapitalFollowsEvidence, perfs
  <2> DEFINE F == Funded(perfs, budget, losers)
             advice == Allocate(perfs, budget, losers)
             I(action) == {i \in DOMAIN perfs : advice[i].action = action}
  <2>2. budget \in Int /\ {SunsetFloor, InvestThreshold} \subseteq Int
    BY ExperimentsAssumption, ThresholdsAssumption
  <2>3. Headroom(perfs, budget) \in Int
    BY <2>1, <2>2, HeadroomIs
  <2>4. /\ F \subseteq Winners(perfs)
        /\ \A i \in F : perfs[i].business \notin losers
        /\ \A i \in F, j \in Winners(perfs) :
              Score(perfs[j]) > Score(perfs[i]) /\ perfs[j].business \notin losers => j \in F
    BY <2>1, <2>3, FundedFits DEF Funded
  <2>5. I("invest_more") \subseteq F
    BY DEF Allocate
  <2>6. I("hold") \subseteq {j \in DOMAIN perfs : ~ Sunset(perfs[j]) /\ j \notin F}
    BY DEF Allocate
  <2> HIDE DEF F, I, advice
  <2>7. I("invest_more") # {} =>
           CapitalOf(perfs, DOMAIN perfs)
             + FoldFunctionOnSet(+, 0, [i \in DOMAIN perfs |-> advice[i].delta], DOMAIN perfs)
           <= budget
    BY <2>1, <2>2, <2>5, CapitalAddsUp DEF F, advice
  <2>8. ASSUME NEW i \in I("invest_more"), NEW j \in I("hold"), Score(perfs[j]) > Score(perfs[i])
        PROVE  perfs[j].business \in losers
    <3>1. i \in DOMAIN perfs /\ Score(perfs[i]) >= InvestThreshold /\ i \in F
      BY <2>4, <2>5 DEF Winners, Winner
    <3>2. j \in DOMAIN perfs /\ ~ Sunset(perfs[j]) /\ j \notin F
      BY <2>6
    <3>3. Score(perfs[i]) \in Int /\ Score(perfs[j]) \in Int
      BY <2>1, <3>1, <3>2, PerfsAre
    <3>4. Score(perfs[j]) >= InvestThreshold
      BY <2>2, <2>8, <3>1, <3>3
    <3>5. j \in Winners(perfs)
      BY <3>2, <3>4 DEF Winners, Winner
    <3> QED
      BY <2>4, <2>8, <3>1, <3>2, <3>5
  <2> QED
    BY <2>4, <2>5, <2>7, <2>8 DEF I, advice
<1> QED
  BY <1>1, ExperimentsHold, PTL

\* A performance claims no trial and no win that the table does not have, but
\* for outcomes that were read again.
PerformanceHasRows ==
    LET perfs == Rollup(read, Capital) IN
    \A i \in DOMAIN perfs :
        LET b == perfs[i].business IN
        /\ Trials(perfs[i]) <= Kpi(rows, b).concluded + Count(repeats, b, Conclusive)
        /\ perfs[i].scale <= Kpi(rows, b).scaled + Count(repeats, b, {"scale"})

\* The two folds of the loop agree: what the portfolio decides on, rollup() of
\* the events, exceeds what the table says, experiment_kpis(), by nothing but
\* redeliveries (portfolio rollup.py, kpis.py).
THEOREM PerformanceIsBacked == Spec => []PerformanceHasRows
<1>1. ASSUME ExperimentsInv PROVE PerformanceHasRows
  <2> DEFINE perfs == Rollup(read, Capital)
             unread == SubSeq(topic, reader.high + 1, Len(topic))
             about(b) == {k \in DOMAIN read : read[k].business = b}
  <2>1. read \in Seq(Told) /\ repeats \in Seq(Told)
    BY <1>1 DEF ExperimentsInv, ReaderOK
  <2>2. /\ perfs \in Seq(Perf)
        /\ \A i \in DOMAIN perfs :
              /\ Trials(perfs[i]) = Cardinality(about(perfs[i].business))
              /\ perfs[i].scale = Tally(read, perfs[i].business, "scale")
    BY <2>1, RollupIsComplete
  <2> HIDE DEF perfs
  <2> SUFFICES ASSUME NEW i \in DOMAIN perfs
               PROVE  LET b == perfs[i].business IN
                      /\ Trials(perfs[i])
                           <= Kpi(rows, b).concluded + Count(repeats, b, Conclusive)
                      /\ perfs[i].scale <= Kpi(rows, b).scaled + Count(repeats, b, {"scale"})
    BY DEF PerformanceHasRows, perfs
  <2> DEFINE b == perfs[i].business
  <2>3. b \in Businesses
    <3>1. perfs[i] \in Perf
      BY <2>2
    <3> QED
      BY <3>1 DEF Perf
  <2>4. Trials(perfs[i]) = Count(read, b, Conclusive)
    <3>1. \A k \in DOMAIN read : read[k] \in Told
      BY <2>1
    <3>2. \A o \in Told : o.action \in Conclusive
      BY DEF Told
    <3>3. about(b) = {k \in DOMAIN read : read[k].business = b /\ read[k].action \in Conclusive}
      BY <3>1, <3>2
    <3> QED
      BY <2>2, <3>3 DEF Count
  <2>5. perfs[i].scale = Count(read, b, {"scale"})
    BY <2>2 DEF Tally
  <2> HIDE DEF b
  <2>6. /\ Kpi(rows, b).scaled = Cardinality(Decided(b, {"scale"}))
        /\ Kpi(rows, b).concluded = Cardinality(Decided(b, Conclusive))
    BY <1>1, <2>3, KpiCounts
  <2>7. ASSUME NEW actions \in SUBSET Conclusive
        PROVE  Count(read, b, actions)
                 <= Cardinality(Decided(b, actions)) + Count(repeats, b, actions)
    <3>1. /\ unread \in Seq(Told)
          /\ Cardinality(Decided(b, actions))
               = (Count(read, b, actions) + Count(unread, b, actions)
                    - Count(repeats, b, actions))
                 + (Cardinality(Lost(b, actions)) + Cardinality(Held(b, actions)))
          /\ Cardinality(Lost(b, actions)) \in Nat /\ Cardinality(Held(b, actions)) \in Nat
      BY <1>1, <2>3, Balance
    <3> HIDE DEF unread
    <3>2. \A s \in Seq(Told) : Count(s, b, actions) \in Nat
      BY CountIsSeen
    <3> QED
      BY <2>1, <3>1, <3>2
  <2>8. {"scale"} \in SUBSET Conclusive /\ Conclusive \in SUBSET Conclusive
    BY DEF Conclusive
  <2> QED
    BY <2>4, <2>5, <2>6, <2>7, <2>8 DEF b
<1> QED
  BY <1>1, ExperimentsHold, PTL
==============================================================================
