---------------------------- MODULE Platform_proofs ----------------------------
(***************************************************************************)
(* The platform's components, for any versions, operators, initiatives,    *)
(* suites, topics and requests; then the charter, the record of processing *)
(* and the playbooks, for any rules, inventories and winners.              *)
(***************************************************************************)
EXTENDS Releases, ProductLine, Serving, Warehouse, Console, Charter, Policies,
        FiniteSetTheorems, SequenceTheorems, WellFoundedInduction, TLAPS

----------------------------------------------------------------------------
(* Releases.                                                               *)

\* Nothing is condemned before releases are frozen, and from then on there are
\* two versions left to go back and forth between, none of them condemned.
ReleasesInv ==
    /\ condemned # {} => frozen
    /\ current \notin condemned /\ previous \notin condemned

\* No sequence of deployments and incidents brings back a version that an
\* incident rolled back from (reliability.py).
THEOREM NoBadVersionReturns == ReleasesSpec => []BadNeverReturns
<1>1. ReleasesInit => ReleasesInv
  BY DEF ReleasesInit, ReleasesInv
<1>2. ReleasesInv /\ [ReleasesNext]_releaseVars => ReleasesInv'
  <2> SUFFICES ASSUME ReleasesInv, [ReleasesNext]_releaseVars
               PROVE  ReleasesInv'
    OBVIOUS
  <2>1. ASSUME NEW v \in Versions, Deploy(v)
        PROVE  ReleasesInv'
    BY <2>1 DEF Deploy, ReleasesInv
  <2>2. CASE Sev1
    BY <2>2 DEF Sev1, ReleasesInv
  <2>3. ASSUME NEW errors \in 0..MaxErrors, LesserIncident(errors)
        PROVE  ReleasesInv'
    BY <2>3 DEF LesserIncident, ReleasesInv
  <2>4. CASE UNCHANGED releaseVars
    BY <2>4 DEF releaseVars, ReleasesInv
  <2> QED
    BY <2>1, <2>2, <2>3, <2>4 DEF ReleasesNext
<1>3. ReleasesInv => BadNeverReturns
  BY DEF ReleasesInv, BadNeverReturns
<1> QED
  BY <1>1, <1>2, <1>3, PTL DEF ReleasesSpec

----------------------------------------------------------------------------
(* Initiatives.                                                            *)

Stages == {Order[n] : n \in 1..9}
Ways == {"gate", "approved", "exempt", "signed"}
Reasons == {"none", "failed", "approved", "exempt", "signed"}
States == [stage : Stages, status : {"in_progress", "awaiting_human", "halted", "launched"},
           reason : Reasons, past : SUBSET (Stages \X Ways)]

LEMMA Positions ==
  /\ \A n \in 1..9 : Order[n] \in Stages /\ Position(Order[n]) = n
  /\ DOMAIN Order = 1..9
<1>1. DOMAIN Order = 1..9
  BY DEF Order
<1>2. \A n, m \in 1..9 : Order[n] = Order[m] => n = m
  <2>1. \A n \in 1..9 : \/ n = 1 \/ n = 2 \/ n = 3 \/ n = 4 \/ n = 5
                        \/ n = 6 \/ n = 7 \/ n = 8 \/ n = 9
    OBVIOUS
  <2> QED
    BY <2>1 DEF Order
<1>3. ASSUME NEW n \in 1..9
      PROVE  Position(Order[n]) = n
  BY <1>1, <1>2 DEF Position
<1> QED
  BY <1>1, <1>3 DEF Stages

\* The stage before launched is a stage, and whoever leaves it has left it.
LEMMA NextStage ==
  ASSUME NEW stage \in Stages, stage # "launched"
  PROVE  LET next == Order[Position(stage) + 1]
         IN  /\ next \in Stages
             /\ Before(next) = Before(stage) \cup {stage}
             /\ StatusFor(next) = "in_progress" => next \notin Human \cup {"launched"}
             /\ StatusFor(next) = "awaiting_human" => next \in Human
             /\ StatusFor(next) = "launched" => next = "launched"
             /\ StatusFor(next) \in {"in_progress", "awaiting_human", "launched"}
<1> DEFINE n == Position(stage)
           next == Order[n + 1]
<1>1. n \in 1..9 /\ Order[n] = stage
  BY Positions DEF Stages
<1>2. n # 9
  BY <1>1 DEF Order
<1>3. n + 1 \in 1..9
  BY <1>1, <1>2
<1>4. next \in Stages /\ Position(next) = n + 1
  BY <1>3, Positions
<1>5. Before(next) = Before(stage) \cup {stage}
  <2>1. Before(next) = {Order[k] : k \in 1..n}
    BY <1>1, <1>4 DEF Before
  <2>2. Before(stage) = {Order[k] : k \in 1..(n - 1)}
    BY DEF Before
  <2>3. 1..n = (1..(n - 1)) \cup {n}
    BY <1>1
  <2> HIDE DEF n
  <2> QED
    BY <1>1, <2>1, <2>2, <2>3
<1>6. /\ StatusFor(next) = "in_progress" => next \notin Human \cup {"launched"}
      /\ StatusFor(next) = "awaiting_human" => next \in Human
      /\ StatusFor(next) = "launched" => next = "launched"
      /\ StatusFor(next) \in {"in_progress", "awaiting_human", "launched"}
  <2>1. next = "launched" \/ next \in Human \/ (next # "launched" /\ next \notin Human)
    OBVIOUS
  <2>2. "launched" \notin Human
    BY DEF Human
  <2> QED
    BY <2>1, <2>2 DEF StatusFor
<1> QED
  BY <1>4, <1>5, <1>6

\* How a stage of initiative i may be left.
Leaves(P, i, stage, how) ==
    /\ how \in Ways
    /\ stage = "launch" => how = "approved"
    /\ stage = "dpia" => how = IF i \in P THEN "signed" ELSE "exempt"

Good(P, i, s) ==
    /\ s \in States
    /\ s.status = "in_progress" => s.stage \notin Human \cup {"launched"}
    /\ s.status = "awaiting_human" => s.stage \in Human
    /\ s.status = "halted" => s.stage \notin Human
    /\ s.status = "launched" => s.stage = "launched"
    /\ {p[1] : p \in s.past} = Before(s.stage)
    /\ \A p \in s.past : Leaves(P, i, p[1], p[2])

LEMMA StartIsGood == ASSUME NEW P, NEW i PROVE Good(P, i, Start)
<1>1. Order[1] = "intake"
  BY DEF Order
<1>2. "intake" \in Stages /\ Position("intake") = 1
  BY <1>1, Positions
<1>3. Before("intake") = {} /\ {p[1] : p \in Start.past} = {}
  BY <1>2 DEF Before, Start
<1>4. Start \in States
  BY <1>2 DEF Start, States, Reasons
<1>5. /\ Start.status = "in_progress" /\ Start.stage = "intake" /\ Start.past = {}
      /\ "intake" \notin Human \cup {"launched"}
  BY DEF Start, Human
<1> QED
  BY <1>3, <1>4, <1>5 DEF Good

LEMMA EnterIsGood ==
  ASSUME NEW P, NEW i, NEW s, Good(P, i, s), s.stage # "launched",
         NEW how, Leaves(P, i, s.stage, how), NEW reason \in Reasons
  PROVE  Good(P, i, Enter(s, how, reason))
<1> DEFINE next == Order[Position(s.stage) + 1]
           t == Enter(s, how, reason)
<1>1. s.stage \in Stages /\ s.past \in SUBSET (Stages \X Ways)
  BY DEF Good, States
<1>2. /\ next \in Stages
      /\ Before(next) = Before(s.stage) \cup {s.stage}
      /\ StatusFor(next) = "in_progress" => next \notin Human \cup {"launched"}
      /\ StatusFor(next) = "awaiting_human" => next \in Human
      /\ StatusFor(next) = "launched" => next = "launched"
      /\ StatusFor(next) \in {"in_progress", "awaiting_human", "launched"}
  BY <1>1, NextStage
<1>3. /\ t.stage = next /\ t.status = StatusFor(next) /\ t.reason = reason
      /\ t.past = s.past \cup {<<s.stage, how>>}
      /\ t = [stage |-> next, status |-> StatusFor(next), reason |-> reason, past |-> t.past]
  BY DEF Enter
<1>4. t.past \in SUBSET (Stages \X Ways)
  BY <1>1, <1>3 DEF Leaves
<1> HIDE DEF t, next
<1>5. t \in States
  BY <1>2, <1>3, <1>4 DEF States
<1>6. {p[1] : p \in t.past} = Before(t.stage)
  <2> DEFINE left == <<s.stage, how>>
  <2>1. t.past = s.past \cup {left} /\ left[1] = s.stage
    BY <1>3
  <2> HIDE DEF left
  <2>2. {p[1] : p \in t.past} = {p[1] : p \in s.past} \cup {s.stage}
    BY <2>1
  <2> QED
    BY <1>2, <1>3, <2>2 DEF Good
<1>7. \A p \in t.past : Leaves(P, i, p[1], p[2])
  <2> TAKE p \in t.past
  <2>1. CASE p \in s.past
    BY <2>1 DEF Good
  <2>2. CASE p = <<s.stage, how>>
    BY <2>2
  <2> QED
    BY <2>1, <2>2, <1>3
<1>8. /\ t.status = "in_progress" => t.stage \notin Human \cup {"launched"}
      /\ t.status = "awaiting_human" => t.stage \in Human
      /\ t.status = "launched" => t.stage = "launched"
      /\ t.status # "halted"
  BY <1>2, <1>3
<1>9. Good(P, i, t)
  BY <1>5, <1>6, <1>7, <1>8 DEF Good
<1> QED
  BY <1>9 DEF t

----------------------------------------------------------------------------
\* Why no order of saves skips a gate: a state is moved in memory only through
\* its gates, and everything that is read or written is such a state.
ProductInv ==
    /\ row \in [Initiatives -> States \cup {NoState}]
    /\ hand \in [Operators -> [id : Initiatives \cup {Nobody}, state : States \cup {NoState},
                               base : Int]]
    /\ \A i \in Initiatives : row[i] # NoState => Good(personal, i, row[i])
    /\ \A o \in Operators : hand[o] # Idle => hand[o].id \in Initiatives
                                             /\ Good(personal, hand[o].id, hand[o].state)
    /\ changes \in [Initiatives -> Int]

LEMMA NoStateIsNone == NoState \notin States /\ \A P, i : ~ Good(P, i, NoState)
<1>1. \A n \in 1..9 : Order[n] # "none"
  <2>1. \A n \in 1..9 : \/ n = 1 \/ n = 2 \/ n = 3 \/ n = 4 \/ n = 5
                        \/ n = 6 \/ n = 7 \/ n = 8 \/ n = 9
    OBVIOUS
  <2> QED
    BY <2>1 DEF Order
<1> QED
  BY <1>1 DEF NoState, States, Stages, Good

\* What an operator may hold after a step.
LEMMA HoldsGood ==
  ASSUME ProductInv, NEW o \in Operators, NEW i \in Initiatives,
         NEW s, Good(personal, i, s), NEW n \in Int, Holds(o, i, s, n)
  PROVE  /\ hand' \in [Operators -> [id : Initiatives \cup {Nobody},
                                     state : States \cup {NoState}, base : Int]]
         /\ \A q \in Operators : hand'[q] # Idle => hand'[q].id \in Initiatives
                                                  /\ Good(personal, hand'[q].id, hand'[q].state)
<1> DEFINE h == [id |-> i, state |-> s, base |-> n]
<1>1. hand' = [hand EXCEPT ![o] = h] /\ h.id = i /\ h.state = s /\ h.base = n
  BY DEF Holds
<1>2. h \in [id : Initiatives \cup {Nobody}, state : States \cup {NoState}, base : Int]
  BY DEF Good
<1> HIDE DEF h
<1> QED
  BY <1>1, <1>2 DEF ProductInv

\* What is written is as good as what was in hand.
LEMMA PersistGood ==
  ASSUME ProductInv, NEW o \in Operators, NEW i \in Initiatives,
         NEW s, Good(personal, i, s), Persist(o, i, s)
  PROVE  /\ row' \in [Initiatives -> States \cup {NoState}]
         /\ \A j \in Initiatives : row'[j] # NoState => Good(personal, j, row'[j])
         /\ changes' \in [Initiatives -> Int]
<1>1. CASE UNCHANGED <<row, changes, sending>>
  BY <1>1 DEF ProductInv
<1>2. CASE /\ row' = [row EXCEPT ![i] = s]
           /\ changes' = [changes EXCEPT ![i] = @ + 1]
  <2>1. s \in States
    BY DEF Good
  <2> QED
    BY <1>2, <2>1 DEF ProductInv
<1> QED
  BY <1>1, <1>2 DEF Persist

LEMMA BecomesGood ==
  ASSUME ProductInv, NEW o \in Operators, hand[o] # Idle,
         NEW s, Good(personal, hand[o].id, s), Becomes(o, s)
  PROVE  ProductInv'
<1> DEFINE h == [hand[o] EXCEPT !.state = s]
<1>1. /\ hand[o] \in [id : Initiatives \cup {Nobody}, state : States \cup {NoState}, base : Int]
      /\ hand[o].id \in Initiatives
  BY DEF ProductInv
<1>2. h = [id |-> hand[o].id, state |-> s, base |-> hand[o].base]
  BY <1>1
<1>3. s \in States
  BY DEF Good
<1>4. /\ h \in [id : Initiatives \cup {Nobody}, state : States \cup {NoState}, base : Int]
      /\ h.id = hand[o].id /\ h.state = s
  BY <1>1, <1>2, <1>3
<1>5. hand' = [hand EXCEPT ![o] = h] /\ UNCHANGED <<personal, row, changes, sending>>
  BY DEF Becomes
<1> HIDE DEF h
<1>6. hand' \in [Operators -> [id : Initiatives \cup {Nobody}, state : States \cup {NoState},
                               base : Int]]
  BY <1>4, <1>5 DEF ProductInv
<1>7. \A q \in Operators : hand'[q] # Idle => hand'[q].id \in Initiatives
                                            /\ Good(personal, hand'[q].id, hand'[q].state)
  BY <1>1, <1>4, <1>5 DEF ProductInv
<1> QED
  BY <1>5, <1>6, <1>7 DEF ProductInv

LEMMA ProductInitially == ProductInit => ProductInv
<1> SUFFICES ASSUME ProductInit PROVE ProductInv
  OBVIOUS
<1>1. Idle \in [id : Initiatives \cup {Nobody}, state : States \cup {NoState}, base : Int]
  BY DEF Idle
<1> QED
  BY <1>1 DEF ProductInit, ProductInv

LEMMA ProductPreserved == ProductInv /\ [ProductNext]_productVars => ProductInv'
<1> SUFFICES ASSUME ProductInv, [ProductNext]_productVars
             PROVE  ProductInv'
  OBVIOUS
<1>1. ASSUME NEW o \in Operators, NEW i \in Initiatives, Create(o, i)
      PROVE  ProductInv'
  <2> DEFINE n == IF row[i] = NoState THEN 1 ELSE 0
  <2>1. Good(personal, i, Start) /\ n \in Int
    BY StartIsGood
  <2>2. Holds(o, i, Start, n) /\ UNCHANGED personal
    BY <1>1 DEF Create
  <2> HIDE DEF n
  <2>3. /\ hand' \in [Operators -> [id : Initiatives \cup {Nobody},
                                     state : States \cup {NoState}, base : Int]]
        /\ \A q \in Operators : hand'[q] # Idle => hand'[q].id \in Initiatives
                                                 /\ Good(personal, hand'[q].id, hand'[q].state)
    BY <2>1, <2>2, HoldsGood
  <2>4. Persist(o, i, Start) \/ UNCHANGED <<row, changes, sending>>
    BY <1>1 DEF Create
  <2>5. /\ row' \in [Initiatives -> States \cup {NoState}]
        /\ \A j \in Initiatives : row'[j] # NoState => Good(personal, j, row'[j])
        /\ changes' \in [Initiatives -> Int]
    BY <2>1, <2>4, PersistGood DEF ProductInv
  <2> QED
    BY <2>2, <2>3, <2>5 DEF ProductInv
<1>2. ASSUME NEW o \in Operators, NEW i \in Initiatives, Get(o, i)
      PROVE  ProductInv'
  <2>1. /\ Holds(o, i, row[i], changes[i]) /\ Good(personal, i, row[i]) /\ changes[i] \in Int
        /\ UNCHANGED <<personal, row, changes, sending>>
    BY <1>2 DEF Get, ProductInv
  <2> QED
    BY <2>1, HoldsGood DEF ProductInv
<1>3. ASSUME NEW o \in Operators, Advance(o)
      PROVE  ProductInv'
  <2> DEFINE s == hand[o].state
             i == hand[o].id
  <2>1. hand[o] # Idle /\ i \in Initiatives /\ Good(personal, i, s)
    BY <1>3 DEF Advance, ProductInv
  <2>2. s.status = "in_progress" /\ s.stage \notin Human \cup {"launched"}
    BY <1>3, <2>1 DEF Advance, CanAdvance, Good
  <2>3. CASE Becomes(o, Enter(s, "gate", "none"))
    <3>1. Leaves(personal, i, s.stage, "gate") /\ "none" \in Reasons
      BY <2>2 DEF Leaves, Ways, Reasons, Human
    <3> QED
      BY <2>1, <2>2, <2>3, <3>1, EnterIsGood, BecomesGood
  <2>4. CASE Becomes(o, Halt(s))
    <3>1. /\ Halt(s) = [stage |-> s.stage, status |-> "halted", reason |-> "failed",
                        past |-> s.past]
          /\ s \in States
      BY <2>1 DEF Halt, Good, States
    <3>2. Good(personal, i, Halt(s))
      BY <2>1, <2>2, <3>1 DEF Good, States, Reasons
    <3> QED
      BY <2>1, <2>4, <3>2, BecomesGood
  <2> QED
    BY <1>3, <2>3, <2>4 DEF Advance
<1>4. ASSUME NEW o \in Operators, Approve(o)
      PROVE  ProductInv'
  <2> DEFINE s == hand[o].state
             i == hand[o].id
  <2>1. /\ hand[o] # Idle /\ i \in Initiatives /\ Good(personal, i, s)
        /\ Becomes(o, Enter(s, "approved", "approved"))
    BY <1>4 DEF Approve, ProductInv
  <2>2. s.stage # "dpia" /\ s.stage # "launched"
    BY <1>4, <2>1 DEF Approve, CanApprove, Good, Human
  <2>3. Leaves(personal, i, s.stage, "approved") /\ "approved" \in Reasons
    BY <2>2 DEF Leaves, Ways, Reasons
  <2> QED
    BY <2>1, <2>2, <2>3, EnterIsGood, BecomesGood
<1>5. ASSUME NEW o \in Operators, ClearDpia(o)
      PROVE  ProductInv'
  <2> DEFINE s == hand[o].state
             i == hand[o].id
  <2>1. hand[o] # Idle /\ i \in Initiatives /\ Good(personal, i, s) /\ s.stage = "dpia"
    BY <1>5 DEF ClearDpia, ProductInv
  <2>2. CASE i \notin personal /\ Becomes(o, Enter(s, "exempt", "exempt"))
    <3>1. Leaves(personal, i, s.stage, "exempt") /\ "exempt" \in Reasons
      BY <2>1, <2>2 DEF Leaves, Ways, Reasons
    <3> QED
      BY <2>1, <2>2, <3>1, EnterIsGood, BecomesGood
  <2>3. CASE i \in personal /\ Becomes(o, Enter(s, "signed", "signed"))
    <3>1. Leaves(personal, i, s.stage, "signed") /\ "signed" \in Reasons
      BY <2>1, <2>3 DEF Leaves, Ways, Reasons
    <3> QED
      BY <2>1, <2>3, <3>1, EnterIsGood, BecomesGood
  <2> QED
    BY <1>5, <2>2, <2>3 DEF ClearDpia
<1>6. ASSUME NEW o \in Operators, Save(o)
      PROVE  ProductInv'
  <2> DEFINE s == hand[o].state
             i == hand[o].id
             n == changes[i] + IF Changes(i, s) THEN 1 ELSE 0
  <2>1. /\ i \in Initiatives /\ Good(personal, i, s) /\ n \in Int
        /\ Persist(o, i, s) /\ Holds(o, i, s, n) /\ UNCHANGED personal
    BY <1>6 DEF Save, ProductInv
  <2> HIDE DEF n
  <2>2. /\ hand' \in [Operators -> [id : Initiatives \cup {Nobody},
                                     state : States \cup {NoState}, base : Int]]
        /\ \A q \in Operators : hand'[q] # Idle => hand'[q].id \in Initiatives
                                                 /\ Good(personal, hand'[q].id, hand'[q].state)
    BY <2>1, HoldsGood
  <2>3. /\ row' \in [Initiatives -> States \cup {NoState}]
        /\ \A j \in Initiatives : row'[j] # NoState => Good(personal, j, row'[j])
        /\ changes' \in [Initiatives -> Int]
    BY <2>1, PersistGood
  <2> QED
    BY <2>1, <2>2, <2>3 DEF ProductInv
<1>7. ASSUME NEW o \in Operators, Publish(o)
      PROVE  ProductInv'
  BY <1>7 DEF Publish, ProductInv
<1>8. CASE UNCHANGED productVars
  BY <1>8 DEF productVars, ProductInv
<1> QED
  BY <1>1, <1>2, <1>3, <1>4, <1>5, <1>6, <1>7, <1>8 DEF ProductNext

\* Every initiative passed every gate before its stage in its own way, however
\* many operators save whatever they have read (pipeline.py, compliance.py).
THEOREM NoGateSkipped == ProductSpec => []GatesWerePassed
<1>1. ProductInv => GatesWerePassed
  BY DEF ProductInv, GatesWerePassed, Good, Leaves
<1> QED
  BY <1>1, ProductInitially, ProductPreserved, PTL DEF ProductSpec

\* Whoever holds an initiative as it stands in its row after it settled holds
\* what the row says, and cannot move it on in memory.
Settled(s) == s.status \in {"halted", "launched"}
SettledInv ==
    /\ ProductInv
    /\ sending \in [Operators -> Initiatives \cup {Nobody}]
    /\ \A i \in Initiatives : /\ changes[i] >= 0
                              /\ changes[i] = 0 <=> row[i] = NoState
    /\ \A o \in Operators : LET i == hand[o].id IN
          hand[o] # Idle =>
             /\ hand[o].base <= changes[i]
             /\ hand[o].base = changes[i] /\ Settled(row[i]) =>
                   Said(hand[o].state) = Said(row[i])

\* A state that says it is settled is moved by nothing.
LEMMA SettledStays ==
  ASSUME ProductInv, NEW o \in Operators, hand[o] # Idle, Settled(hand[o].state)
  PROVE  ~ Advance(o) /\ ~ Approve(o) /\ ~ ClearDpia(o)
<1>1. Good(personal, hand[o].id, hand[o].state)
  BY DEF ProductInv
<1> QED
  BY <1>1 DEF Settled, Good, Human, Advance, CanAdvance, Approve, CanApprove, ClearDpia

LEMMA SettledInitially == ProductInit => SettledInv
<1> SUFFICES ASSUME ProductInit PROVE SettledInv
  OBVIOUS
<1> QED
  BY ProductInitially DEF ProductInit, SettledInv

\* A write moves the count on, so only its writer holds what the row says.
LEMMA WritesSettle ==
  ASSUME SettledInv, ProductInv', NEW o \in Operators, NEW i \in Initiatives,
         NEW s, NEW n \in Int, Good(personal, i, s), Holds(o, i, s, n),
         \/ UNCHANGED <<row, changes, sending>> /\ n <= changes[i]
            /\ (n = changes[i] /\ Settled(row[i]) => Said(s) = Said(row[i]))
         \/ /\ row' = [row EXCEPT ![i] = s]
            /\ changes' = [changes EXCEPT ![i] = @ + 1]
            /\ sending' = [sending EXCEPT ![o] = i]
            /\ n = changes[i] + 1
  PROVE  SettledInv'
<1> DEFINE h == [id |-> i, state |-> s, base |-> n]
<1>1. /\ hand' = [hand EXCEPT ![o] = h] /\ h.id = i /\ h.state = s /\ h.base = n
      /\ hand \in [Operators -> [id : Initiatives \cup {Nobody}, state : States \cup {NoState},
                                 base : Int]]
      /\ changes \in [Initiatives -> Int] /\ row \in [Initiatives -> States \cup {NoState}]
  BY DEF Holds, SettledInv, ProductInv
<1> HIDE DEF h
<1>2. s # NoState
  BY NoStateIsNone
<1>3. \A q \in Operators \ {o} : hand'[q] = hand[q] /\ (hand[q] # Idle => hand[q].id \in Initiatives)
                                 /\ hand[q].base \in Int
  BY <1>1 DEF SettledInv, ProductInv
<1>4. hand'[o] = h
  BY <1>1
<1>5. CASE UNCHANGED <<row, changes, sending>> /\ n <= changes[i]
           /\ (n = changes[i] /\ Settled(row[i]) => Said(s) = Said(row[i]))
  <2>1. ASSUME NEW q \in Operators, hand'[q] # Idle
        PROVE  /\ hand'[q].base <= changes'[hand'[q].id]
               /\ hand'[q].base = changes'[hand'[q].id] /\ Settled(row'[hand'[q].id]) =>
                     Said(hand'[q].state) = Said(row'[hand'[q].id])
    BY <1>1, <1>3, <1>4, <1>5, <2>1 DEF SettledInv
  <2> QED
    BY <1>5, <2>1 DEF SettledInv, Settled, Said
<1>6. CASE /\ row' = [row EXCEPT ![i] = s]
           /\ changes' = [changes EXCEPT ![i] = @ + 1]
           /\ sending' = [sending EXCEPT ![o] = i]
           /\ n = changes[i] + 1
  <2>1. ASSUME NEW j \in Initiatives
        PROVE  /\ changes'[j] >= 0
               /\ changes'[j] = 0 <=> row'[j] = NoState
    BY <1>1, <1>2, <1>6 DEF SettledInv
  <2>2. ASSUME NEW q \in Operators, hand'[q] # Idle
        PROVE  /\ hand'[q].base <= changes'[hand'[q].id]
               /\ hand'[q].base = changes'[hand'[q].id] /\ Settled(row'[hand'[q].id]) =>
                     Said(hand'[q].state) = Said(row'[hand'[q].id])
    <3>1. changes'[i] = changes[i] + 1 /\ row'[i] = s /\ changes[i] \in Int
          /\ \A j \in Initiatives \ {i} : changes'[j] = changes[j] /\ row'[j] = row[j]
      BY <1>1, <1>6
    <3>2. CASE q = o
      BY <3>1, <3>2, <1>1, <1>4, <1>6
    <3>3. CASE q # o
      <4>1. /\ hand'[q] = hand[q] /\ hand[q].base \in Int /\ hand[q].id \in Initiatives
            /\ hand[q].base <= changes[hand[q].id]
            /\ hand[q].base = changes[hand[q].id] /\ Settled(row[hand[q].id]) =>
                     Said(hand[q].state) = Said(row[hand[q].id])
        BY <2>2, <3>3, <1>3 DEF SettledInv
      <4> QED
        BY <3>1, <4>1
    <3> QED
      BY <3>2, <3>3
  <2>3. sending' \in [Operators -> Initiatives \cup {Nobody}]
    BY <1>6 DEF SettledInv
  <2> QED
    BY <2>1, <2>2, <2>3 DEF SettledInv, Settled, Said
<1> QED
  BY <1>5, <1>6

LEMMA SettledPreserved == SettledInv /\ [ProductNext]_productVars => SettledInv'
<1> SUFFICES ASSUME SettledInv, [ProductNext]_productVars
             PROVE  SettledInv'
  OBVIOUS
<1>0. ProductInv /\ ProductInv'
  BY ProductPreserved DEF SettledInv
<1>1. ASSUME NEW o \in Operators, NEW i \in Initiatives, Create(o, i)
      PROVE  SettledInv'
  <2>1. Good(personal, i, Start) /\ changes[i] \in Int
    BY <1>0, StartIsGood DEF ProductInv
  <2>2. CASE row[i] = NoState
    <3>1. Said(NoState) # Said(Start)
      BY DEF Said, NoState, Start
    <3>2. Persist(o, i, Start) /\ Holds(o, i, Start, 1) /\ changes[i] = 0
      BY <1>1, <2>2 DEF Create, SettledInv
    <3> QED
      BY <2>1, <2>2, <3>1, <3>2, <1>0, WritesSettle DEF Persist, Changes
  <2>3. CASE row[i] # NoState
    <3>1. UNCHANGED <<row, changes, sending>> /\ Holds(o, i, Start, 0)
      BY <1>1, <2>3 DEF Create
    <3>2. changes[i] # 0 /\ changes[i] >= 0
      BY <2>3 DEF SettledInv
    <3> QED
      BY <2>1, <3>1, <3>2, <1>0, WritesSettle
  <2> QED
    BY <2>2, <2>3
<1>2. ASSUME NEW o \in Operators, NEW i \in Initiatives, Get(o, i)
      PROVE  SettledInv'
  <2>1. /\ Holds(o, i, row[i], changes[i]) /\ Good(personal, i, row[i]) /\ changes[i] \in Int
        /\ UNCHANGED <<row, changes, sending>>
    BY <1>0, <1>2 DEF Get, ProductInv
  <2> QED
    BY <2>1, <1>0, WritesSettle
<1>3. ASSUME NEW o \in Operators, Advance(o) \/ Approve(o) \/ ClearDpia(o)
      PROVE  SettledInv'
  <2>1. PICK s : Becomes(o, s)
    BY <1>3 DEF Advance, Approve, ClearDpia
  <2>2. hand[o] # Idle /\ ~ Settled(hand[o].state)
    BY <1>0, <1>3, SettledStays DEF Advance, Approve, ClearDpia
  <2>3. /\ UNCHANGED <<row, changes, sending>>
        /\ \A q \in Operators \ {o} : hand'[q] = hand[q]
        /\ hand'[o].id = hand[o].id /\ hand'[o].base = hand[o].base
    BY <1>0, <2>1 DEF Becomes, ProductInv
  <2>4. Said(hand[o].state) = Said(row[hand[o].id]) => ~ Settled(row[hand[o].id])
    BY <2>2 DEF Said, Settled
  <2>5. ASSUME NEW q \in Operators, hand'[q] # Idle
        PROVE  /\ hand'[q].base <= changes'[hand'[q].id]
               /\ hand'[q].base = changes'[hand'[q].id] /\ Settled(row'[hand'[q].id]) =>
                     Said(hand'[q].state) = Said(row'[hand'[q].id])
    <3>1. CASE q = o
      BY <2>2, <2>3, <2>4, <3>1 DEF SettledInv
    <3>2. CASE q # o
      BY <2>3, <2>5, <3>2 DEF SettledInv
    <3> QED
      BY <3>1, <3>2
  <2> QED
    BY <1>0, <2>3, <2>5 DEF SettledInv, Settled, Said
<1>4. ASSUME NEW o \in Operators, Save(o)
      PROVE  SettledInv'
  <2> DEFINE s == hand[o].state
             i == hand[o].id
             n == changes[i] + IF Changes(i, s) THEN 1 ELSE 0
  <2>1. /\ i \in Initiatives /\ Good(personal, i, s) /\ changes[i] \in Int
        /\ Persist(o, i, s) /\ Holds(o, i, s, n)
    BY <1>0, <1>4 DEF Save, ProductInv
  <2>2. CASE Changes(i, s)
    <3>1. n = changes[i] + 1
      BY <2>2
    <3> HIDE DEF n, s, i
    <3> QED
      BY <2>1, <2>2, <3>1, <1>0, WritesSettle DEF Persist
  <2>3. CASE ~ Changes(i, s)
    <3>1. n = changes[i]
      BY <2>1, <2>3
    <3> HIDE DEF n, s, i
    <3> QED
      BY <2>1, <2>3, <3>1, <1>0, WritesSettle DEF Persist, Changes
  <2> QED
    BY <2>2, <2>3
<1>5. ASSUME NEW o \in Operators, Publish(o)
      PROVE  SettledInv'
  <2>1. sending' \in [Operators -> Initiatives \cup {Nobody}]
    BY <1>5 DEF Publish, SettledInv
  <2> QED
    BY <1>0, <1>5, <2>1 DEF Publish, SettledInv, Settled, Said
<1>6. CASE UNCHANGED productVars
  BY <1>0, <1>6 DEF productVars, SettledInv, Settled, Said
<1> QED
  BY <1>1, <1>2, <1>3, <1>4, <1>5, <1>6 DEF ProductNext

\* What is halted or launched stays so unless a save writes what was read
\* before, by any number of operators (save() in store.py).
THEOREM OnlyStaleSavesUnsettle == ProductSpec => SettledUnlessStale
<1> DEFINE Step == \A i \in Initiatives :
                      row[i].status \in {"halted", "launched"} /\ row'[i] # row[i] =>
                          \E o \in Operators :
                              sending'[o] # sending[o] /\ hand[o].id = i /\ hand[o].base # changes[i]
<1>1. SettledInv /\ [ProductNext]_productVars => [Step]_productVars
  <2> SUFFICES ASSUME SettledInv, ProductNext, NEW i \in Initiatives,
                      row[i].status \in {"halted", "launched"}, row'[i] # row[i]
               PROVE  \E o \in Operators : /\ sending'[o] # sending[o] /\ hand[o].id = i
                                           /\ hand[o].base # changes[i]
    OBVIOUS
  <2>1. Settled(row[i]) /\ row[i] # NoState
    BY DEF Settled, NoState
  <2>2. PICK o \in Operators : Save(o) \/ \E j \in Initiatives : Create(o, j)
    BY DEF ProductNext, Get, Advance, Approve, ClearDpia, Becomes, Publish
  <2>3. PICK j, s : /\ j \in Initiatives /\ Persist(o, j, s)
                    /\ row' = [row EXCEPT ![j] = s]
                    /\ sending' = [sending EXCEPT ![o] = j]
                    /\ Changes(j, s) /\ Free(o)
                    /\ \/ s = hand[o].state /\ j = hand[o].id /\ hand[o] # Idle
                       \/ row[j] = NoState
    BY <2>2 DEF Create, Save, Persist, SettledInv, ProductInv
  <2>4. j = i
    BY <2>3 DEF SettledInv, ProductInv
  <2>5. s = hand[o].state /\ i = hand[o].id /\ hand[o] # Idle
    BY <2>1, <2>3, <2>4
  <2>6. sending'[o] # sending[o]
    BY <2>3, ProductAssumption DEF Free, SettledInv
  <2>7. hand[o].base # changes[i]
    BY <2>1, <2>3, <2>4, <2>5 DEF Changes, SettledInv
  <2> QED
    BY <2>5, <2>6, <2>7
<1> QED
  BY <1>1, SettledInitially, SettledPreserved, PTL DEF ProductSpec, SettledUnlessStale

----------------------------------------------------------------------------
(* Which models serve.                                                     *)

\* What the gate lets through did well: every test of the documents is one of
\* the gate's, and the full bias bar means every bias case.
LEMMA GateIsEnough ==
  ASSUME NEW p \in Profiles, NEW passed \in SUBSET Cases(p), Gate(p, passed)
  PROVE  DidWell(p, passed)
<1> DEFINE t == Suites[p].thresholds
           B == CasesOf(p, "bias")
<1>1. \A c \in Cases(p) : Suites[p].cases[c].critical => c \in passed
  BY DEF Gate
<1>2. \A dim \in DOMAIN t : dim \in DOMAIN Thresholds(p) /\ Thresholds(p)[dim] = t[dim]
  BY DEF Thresholds
<1>3. \A dim \in DOMAIN t :
          AtLeast(Cardinality(CasesOf(p, dim) \cap passed),
                  Cardinality(CasesOf(p, dim)), t[dim])
  BY <1>2 DEF Gate
<1>4. ASSUME Suites[p].art22 PROVE B \subseteq passed
  <2>1. "bias" \in DOMAIN Thresholds(p) /\ Thresholds(p)["bias"] = <<1, 1>>
    BY <1>4, SuitesAssumption DEF Thresholds
  <2>2. AtLeast(Cardinality(B \cap passed), Cardinality(B), <<1, 1>>)
    BY <2>1 DEF Gate
  <2>3. IsFiniteSet(B) /\ IsFiniteSet(B \cap passed)
    BY SuitesAssumption, FS_Subset DEF CasesOf
  <2>4. Cardinality(B) \in Nat /\ Cardinality(B \cap passed) \in Nat
    BY <2>3, FS_CardinalityType
  <2>5. Cardinality(B \cap passed) >= Cardinality(B)
    BY <2>2, <2>4 DEF AtLeast
  <2>6. Cardinality(B \cap passed) <= Cardinality(B)
    BY <2>3, FS_Subset
  <2>7. Cardinality(B \cap passed) = Cardinality(B)
    BY <2>4, <2>5, <2>6
  <2>8. B \cap passed = B
    BY <2>3, <2>7, FS_Subset
  <2> QED
    BY <2>8
<1> QED
  BY <1>1, <1>3, <1>4 DEF DidWell

LEMMA ResultsAreCases ==
  ASSUME NEW m, NEW p PROVE Results(m, p) \subseteq SUBSET Cases(p)
BY DEF Results

\* Every row of the table was earned, and every promoted profile has a last row.
ServingInv ==
    /\ promotions \in Seq([profile : Profiles, model : Models])
    /\ \A k \in DOMAIN promotions :
          <<promotions[k].profile, promotions[k].model>> \in cleared
    /\ \A p \in Promoted : \E k \in DOMAIN promotions :
          /\ promotions[k].profile = p
          /\ \A l \in DOMAIN promotions : promotions[l].profile = p => l <= k
    /\ RegistryWasEvaluated

LEMMA PromotionsKeep ==
  ASSUME ServingInv, NEW m \in Models, NEW p \in Profiles, EvalPromote(m, p)
  PROVE  ServingInv'
<1> DEFINE n == Len(promotions)
           new == [profile |-> p, model |-> m]
<1>1. PICK passed \in Results(m, p) :
          /\ Gate(p, passed) /\ promotions' = Append(promotions, new)
          /\ cleared' = cleared \cup IF DidWell(p, passed) THEN {<<p, m>>} ELSE {}
  BY DEF EvalPromote
<1>2. cleared' = cleared \cup {<<p, m>>} /\ registry' = registry
  BY <1>1, GateIsEnough, ResultsAreCases DEF EvalPromote
<1>3. /\ n \in Nat /\ DOMAIN promotions = 1..n /\ DOMAIN promotions' = 1..(n + 1)
      /\ promotions'[n + 1] = new /\ new.profile = p /\ new.model = m
      /\ \A k \in 1..n : promotions'[k] = promotions[k]
      /\ promotions' \in Seq([profile : Profiles, model : Models])
  BY <1>1 DEF ServingInv
<1> HIDE DEF n, new
<1>4. \A k \in DOMAIN promotions' :
          <<promotions'[k].profile, promotions'[k].model>> \in cleared'
  BY <1>2, <1>3 DEF ServingInv
<1>5. ASSUME NEW q \in Promoted'
      PROVE  \E k \in DOMAIN promotions' :
                /\ promotions'[k].profile = q
                /\ \A l \in DOMAIN promotions' : promotions'[l].profile = q => l <= k
  <2>1. CASE q = p
    BY <1>3, <2>1
  <2>2. CASE q # p
    <3>1. q \in Promoted
      BY <1>3, <1>5, <2>2 DEF Promoted
    <3>2. PICK k \in 1..n : /\ promotions[k].profile = q
                            /\ \A l \in 1..n : promotions[l].profile = q => l <= k
      BY <1>3, <3>1 DEF ServingInv
    <3>3. k \in 1..(n + 1) /\ promotions'[k].profile = q
      BY <1>3, <3>2
    <3>4. \A l \in 1..(n + 1) : promotions'[l].profile = q => l <= k
      BY <1>3, <2>2, <3>2
    <3> QED
      BY <1>3, <3>3, <3>4
  <2> QED
    BY <2>1, <2>2
<1>6. RegistryWasEvaluated'
  BY <1>2 DEF ServingInv, RegistryWasEvaluated
<1> QED
  BY <1>3, <1>4, <1>5, <1>6 DEF ServingInv

LEMMA BootsKeep ==
  ASSUME ServingInv, NEW m \in Models, Boot(m)
  PROVE  ServingInv'
<1>1. PICK results \in [Profiles -> UNION {Results(m, p) : p \in Profiles}] :
          /\ \A p \in Profiles : results[p] \in Results(m, p)
          /\ registry' = [p \in Seeds(m, results) \cup Promoted |->
                              IF p \in Promoted THEN Latest(p) ELSE m]
          /\ cleared' = cleared \cup
                {<<p, m>> : p \in {q \in Seeds(m, results) : DidWell(q, results[q])}}
          /\ UNCHANGED promotions
  BY DEF Boot
<1>2. \A p \in Seeds(m, results) : <<p, m>> \in cleared'
  <2> TAKE p \in Seeds(m, results)
  <2>1. p \in Profiles /\ Gate(p, results[p]) /\ results[p] \in SUBSET Cases(p)
    BY <1>1, ResultsAreCases DEF Seeds
  <2> QED
    BY <1>1, <2>1, GateIsEnough
<1>3. \A p \in Promoted : <<p, Latest(p)>> \in cleared
  <2> TAKE p \in Promoted
  <2> DEFINE Last(k) == /\ promotions[k].profile = p
                        /\ \A l \in DOMAIN promotions : promotions[l].profile = p => l <= k
  <2>1. \E k \in DOMAIN promotions : Last(k)
    BY DEF ServingInv
  <2>2. PICK k \in DOMAIN promotions : Last(k) /\ Latest(p) = promotions[k].model
    BY <2>1 DEF Latest
  <2> QED
    BY <2>2 DEF ServingInv
<1>4. RegistryWasEvaluated'
  BY <1>1, <1>2, <1>3 DEF RegistryWasEvaluated
<1>5. cleared \subseteq cleared' /\ promotions' = promotions
  BY <1>1
<1> QED
  BY <1>4, <1>5 DEF ServingInv, Promoted

\* The registry names a model for a profile only if that very model did well
\* in an evaluation of that very profile, through any number of promotions and
\* restarts (promotion_store.py, model_gateway.py).
THEOREM OnlyEvaluatedModelsAreNamed == ServingSpec => []RegistryWasEvaluated
<1>1. ServingInit => ServingInv
  BY DEF ServingInit, ServingInv, Promoted, RegistryWasEvaluated
<1>2. ServingInv /\ [ServingNext]_servingVars => ServingInv'
  <2>1. ServingInv /\ UNCHANGED servingVars => ServingInv'
    BY DEF servingVars, ServingInv, Promoted, RegistryWasEvaluated
  <2> QED
    BY <2>1, PromotionsKeep, BootsKeep DEF ServingNext
<1>3. ServingInv => RegistryWasEvaluated
  BY DEF ServingInv
<1> QED
  BY <1>1, <1>2, <1>3, PTL DEF ServingSpec

----------------------------------------------------------------------------
(* The data service.                                                       *)

\* A finite set of integers has a greatest one: the numbers from x on are a
\* smallest set of their kind for some x.
LEMMA MaxExists ==
    ASSUME NEW S \in SUBSET Int, IsFiniteSet(S), S # {}
    PROVE  Max(S) \in S /\ \A y \in S : y <= Max(S)
<1> DEFINE From(x) == {y \in S : y >= x}
           F == {From(x) : x \in S}
<1>1. F \subseteq FiniteSubsetsOf(S) /\ F # {}
  <2>1. F \subseteq SUBSET S /\ F # {}
    OBVIOUS
  <2> HIDE DEF F
  <2> QED
    BY <2>1, FS_FiniteSubsetsOfFinite
<1>2. PICK s \in F : \A t \in F : <<t, s>> \notin StrictSubsetOrdering(S)
  <2> HIDE DEF F
  <2> QED
    BY <1>1, WFMin, FS_StrictSubsetOrderingWellFounded
<1>3. PICK m \in S : s = From(m)
  BY <1>2
<1>4. \A y \in S : y <= m
  <2> SUFFICES ASSUME NEW y \in S, y > m PROVE FALSE
    OBVIOUS
  <2> y \in Int /\ m \in Int
    OBVIOUS
  <2>1. From(y) \subseteq From(m)
    <3> SUFFICES ASSUME NEW z \in S, z >= y PROVE z >= m
      OBVIOUS
    <3> z \in Int
      OBVIOUS
    <3> QED
      OBVIOUS
  <2>3. m \in From(m) /\ m \notin From(y)
    OBVIOUS
  <2>2. From(y) \in F
    OBVIOUS
  <2> QED
    BY <2>1, <2>2, <2>3, <1>1, <1>2, <1>3 DEF StrictSubsetOrdering
<1> QED
  BY <1>4 DEF Max

Parts == [events : SUBSET Nat, at : Nat]

\* Silver has one row of every decision in the parts, with the time of one of
\* the parts that hold it.
LEMMA SilverRows ==
    ASSUME NEW E, IsFiniteSet(E), NEW parts \in Seq(Parts),
           \A k \in DOMAIN parts : parts[k].events \subseteq E
    PROVE  /\ \A r \in SilverOf(parts) : \E k \in DOMAIN parts :
                 r.event \in parts[k].events /\ r.at = parts[k].at
           /\ {r.event : r \in SilverOf(parts)} = UNION {p.events : p \in SetOf(parts)}
           /\ IsFiniteSet(SilverOf(parts))
           /\ Cardinality(SilverOf(parts)) = Cardinality({r.event : r \in SilverOf(parts)})
<1> DEFINE Events == UNION {parts[k].events : k \in DOMAIN parts}
           Holding(e) == {k \in DOMAIN parts : e \in parts[k].events}
           Row == [e \in Events |-> [event |-> e, at |-> parts[Max(Holding(e))].at]]
<1>1. \A k \in DOMAIN parts : parts[k].events \subseteq E
  OBVIOUS
<1>2. SilverOf(parts) = {Row[e] : e \in Events}
  BY DEF SilverOf
<1>3. ASSUME NEW e \in Events PROVE Max(Holding(e)) \in Holding(e)
  <2>1. Holding(e) \subseteq 1..Len(parts) /\ Holding(e) # {}
    OBVIOUS
  <2>2. IsFiniteSet(Holding(e)) /\ Holding(e) \in SUBSET Int
    <3>0. Len(parts) \in Int /\ 1 \in Int
      OBVIOUS
    <3>1. IsFiniteSet(1..Len(parts))
      BY <3>0, FS_Interval
    <3> HIDE DEF Holding
    <3> QED
      BY <2>1, <3>1, FS_Subset
  <2> HIDE DEF Holding
  <2> QED
    BY <2>1, <2>2, MaxExists
<1>4. IsFiniteSet(Events)
  <2>1. Events \in SUBSET E
    BY <1>1
  <2> QED
    BY <2>1, FS_Subset
<1>5. \A e \in Events : Row[e].event = e /\ Row[e].at = parts[Max(Holding(e))].at
  <2> TAKE e \in Events
  <2> HIDE DEF Holding, Events
  <2> QED
    OBVIOUS
<1>6. {r.event : r \in SilverOf(parts)} = Events
  <2> HIDE DEF Row, Events
  <2>1. ASSUME NEW e \in Events PROVE e \in {r.event : r \in SilverOf(parts)}
    <3>1. Row[e] \in SilverOf(parts) /\ Row[e].event = e
      BY <1>2, <1>5
    <3> QED
      BY <3>1
  <2>2. ASSUME NEW r \in SilverOf(parts) PROVE r.event \in Events
    BY <1>2, <1>5
  <2> QED
    BY <2>1, <2>2
<1>7. Events = UNION {p.events : p \in SetOf(parts)}
  BY DEF SetOf
<1>8. IsFiniteSet(SilverOf(parts)) /\ Cardinality(SilverOf(parts)) = Cardinality(Events)
  <2>1. Row \in Bijection(Events, SilverOf(parts))
    <3> HIDE DEF Row, Events
    <3>1. Row \in [Events -> SilverOf(parts)]
      BY <1>2 DEF Row
    <3>2. \A d, e \in Events : Row[d] = Row[e] => d = e
      BY <1>5
    <3>3. \A r \in SilverOf(parts) : \E e \in Events : Row[e] = r
      BY <1>2
    <3>4. DOMAIN Row = Events
      BY DEF Row
    <3> QED
      BY <3>1, <3>2, <3>3, <3>4 DEF Bijection, Injection, Surjection, IsInjective
  <2>2. ExistsBijection(Events, SilverOf(parts))
    BY <2>1 DEF ExistsBijection
  <2> QED
    BY <1>4, <2>2, FS_Bijection
<1>9. ASSUME NEW r \in SilverOf(parts)
      PROVE  \E k \in DOMAIN parts : r.event \in parts[k].events /\ r.at = parts[k].at
  <2>1. PICK e \in Events : r = Row[e]
    BY <1>2
  <2>2. Max(Holding(e)) \in DOMAIN parts /\ e \in parts[Max(Holding(e))].events
    BY <1>3
  <2> HIDE DEF Row, Holding, Events
  <2> QED
    BY <2>1, <2>2, <1>5
<1> HIDE DEF Events
<1> QED
  BY <1>6, <1>7, <1>8, <1>9

Messages == [kind : Kinds, decision : Nat]
Decisions(a, b) == {k \in a..b : topic[k].kind = "decision"}
Landed == UNION {p.events : p \in SetOf(bronze)}
Lost == Decisions(1, committed) \ (Landed \cup batch)

WarehouseTypes ==
    /\ topic \in Seq(Messages)
    /\ committed \in 0..Len(topic)
    /\ round \in {"open", "poll", "land", "silver", "gold"}
    /\ start \in Nat /\ position \in Nat
    /\ batch \subseteq Decisions(1, Len(topic))
    /\ bronze \in Seq(Parts)
    /\ covered \in 0..Len(bronze)
    /\ failures \in Nat /\ now \in Nat

\* What the open client took since it began, and no more than a batch of it.
RoundInv ==
    /\ Cardinality(batch) <= BatchSize
    /\ round = "poll" => /\ start <= committed /\ committed <= position
                         /\ position <= Len(topic) /\ position - start <= BatchSize
                         /\ batch = Decisions(start + 1, position)
    /\ round \notin {"poll", "land"} => batch = {}

BronzeInv ==
    /\ \A k \in DOMAIN bronze : /\ bronze[k].at <= now
                                /\ bronze[k].events \subseteq Decisions(1, Len(topic))
    /\ \A j, k \in DOMAIN bronze : j <= k => bronze[j].at <= bronze[k].at
    /\ silver = SilverOf(UpTo(covered))
    /\ Readable /\ failures = 0 => Reconciles

WarehouseInv ==
    /\ WarehouseTypes /\ RoundInv /\ BronzeInv
    /\ Cardinality(Lost) <= BatchSize * failures

\* A step loses the batch in hand and nothing else, if it is a failure.
LEMMA LossIsBounded ==
    ASSUME NEW before, NEW after, NEW inHand, NEW n \in Nat, NEW m \in Nat,
           IsFiniteSet(before), IsFiniteSet(inHand),
           Cardinality(before) <= BatchSize * n, Cardinality(inHand) <= BatchSize,
           \/ after \subseteq before /\ m >= n
           \/ after \subseteq before \cup inHand /\ m = n + 1
    PROVE  Cardinality(after) <= BatchSize * m
<1>1. Cardinality(before) \in Nat /\ Cardinality(inHand) \in Nat
  BY FS_CardinalityType
<1>2. BatchSize \in Nat
  BY WarehouseAssumption
<1>3. CASE after \subseteq before /\ m >= n
  <2>1. Cardinality(after) <= Cardinality(before) /\ Cardinality(after) \in Nat
    BY <1>3, FS_Subset, FS_CardinalityType
  <2>2. PICK d \in Nat : m = n + d
    BY <1>3
  <2>3. BatchSize * (n + d) = BatchSize * n + BatchSize * d
    BY <1>2
  <2>4. BatchSize * d \in Nat /\ BatchSize * n \in Nat
    BY <1>2
  <2> QED
    BY <1>1, <2>1, <2>2, <2>3, <2>4
<1>4. CASE after \subseteq before \cup inHand /\ m = n + 1
  <2>1. /\ IsFiniteSet(before \cup inHand)
        /\ Cardinality(before \cup inHand) <= Cardinality(before) + Cardinality(inHand)
    <3>1. Cardinality(before \cap inHand) \in Nat
      BY FS_Intersection, FS_CardinalityType
    <3>2. /\ IsFiniteSet(before \cup inHand)
          /\ Cardinality(before \cup inHand) =
                Cardinality(before) + Cardinality(inHand) - Cardinality(before \cap inHand)
      BY FS_Union
    <3> QED
      BY <1>1, <3>1, <3>2
  <2>2. Cardinality(after) <= Cardinality(before \cup inHand)
    BY <1>4, <2>1, FS_Subset
  <2>3. Cardinality(after) \in Nat /\ Cardinality(before \cup inHand) \in Nat
    BY <1>4, <2>1, FS_Subset, FS_CardinalityType
  <2>4. BatchSize * (n + 1) = BatchSize * n + BatchSize /\ BatchSize * n \in Nat
    BY <1>2
  <2> QED
    BY <1>1, <1>2, <1>4, <2>1, <2>2, <2>3, <2>4
<1> QED
  BY <1>3, <1>4

LEMMA LostIsFinite == ASSUME WarehouseTypes PROVE IsFiniteSet(Lost) /\ IsFiniteSet(batch)
<1>1. IsFiniteSet(1..Len(topic))
  BY FS_Interval DEF WarehouseTypes
<1>2. Lost \in SUBSET (1..Len(topic)) /\ batch \in SUBSET (1..Len(topic))
  BY DEF WarehouseTypes, Lost, Decisions
<1> QED
  BY <1>1, <1>2, FS_Subset

LEMMA EmptyBatch == Cardinality({}) <= BatchSize
BY FS_EmptySet, WarehouseAssumption

\* What a step adds to the topic changes nothing below.
LEMMA ProduceKeeps == ASSUME WarehouseInv, Produce PROVE WarehouseInv'
<1>0. topic \in Seq(Messages)
  BY DEF WarehouseInv, WarehouseTypes
<1>1. PICK m \in Messages : topic' = Append(topic, m)
  <2>1. PICK kind \in Kinds, d \in {Len(topic) + 1} \cup Announced :
           topic' = Append(topic, [kind |-> kind, decision |-> d])
    BY DEF Produce
  <2>2. Announced \subseteq Nat
    <3>1. \A k \in DOMAIN topic : topic[k] \in Messages
      BY <1>0
    <3> QED
      BY <3>1 DEF Announced, Messages
  <2>3. Len(topic) + 1 \in Nat
    BY <1>0
  <2>4. [kind |-> kind, decision |-> d] \in Messages
    BY <2>1, <2>2, <2>3 DEF Messages
  <2> QED
    BY <2>1, <2>4
<1>2. /\ topic' \in Seq(Messages) /\ Len(topic') = Len(topic) + 1 /\ Len(topic) \in Nat
      /\ \A k \in 1..Len(topic) : topic'[k] = topic[k]
  BY <1>0, <1>1
<1>3. UNCHANGED <<committed, round, start, position, batch, bronze, silver,
                  byAgent, byDay, covered, failures, now>>
  BY DEF Produce
<1>4. \A a \in Nat, b \in 0..Len(topic) : Decisions(a + 1, b)' = Decisions(a + 1, b)
  BY <1>2 DEF Decisions
<1>5. Decisions(1, Len(topic)) \subseteq Decisions(1, Len(topic))'
  BY <1>2 DEF Decisions
<1>6. WarehouseTypes'
  BY <1>2, <1>3, <1>5 DEF WarehouseInv, WarehouseTypes
<1>7. RoundInv'
  <2>1. round = "poll" => position \in 0..Len(topic) /\ start \in Nat
    BY DEF WarehouseInv, WarehouseTypes, RoundInv
  <2>2. round = "poll" => Decisions(start + 1, position)' = Decisions(start + 1, position)
    BY <1>2, <1>3, <2>1 DEF Decisions
  <2> QED
    BY <1>2, <1>3, <2>1, <2>2 DEF WarehouseInv, RoundInv
<1>8. BronzeInv'
  BY <1>3, <1>5 DEF WarehouseInv, BronzeInv, UpTo, Readable, Reconciles
<1>9. Lost' \subseteq Lost
  BY <1>2, <1>3 DEF WarehouseInv, WarehouseTypes, Lost, Landed, Decisions
<1> QED
  <2>1. IsFiniteSet(Lost) /\ IsFiniteSet(batch) /\ failures \in Nat /\ failures' = failures
    BY <1>3, LostIsFinite DEF WarehouseInv, WarehouseTypes
  <2> QED
    BY <2>1, <1>6, <1>7, <1>8, <1>9, LossIsBounded DEF WarehouseInv, RoundInv

\* The client's own steps, and the failures: nothing is landed or built.
LEMMA ClientKeeps ==
    ASSUME WarehouseInv, Open \/ Poll \/ AutoCommit \/ PollInvalid \/ Close \/ Fail
    PROVE  WarehouseInv'
<1>1. UNCHANGED <<topic, bronze, silver, byAgent, byDay, covered, now>>
  BY DEF Open, Poll, AutoCommit, PollInvalid, Close, Fail
<1>2. WarehouseTypes /\ RoundInv /\ BronzeInv
  BY DEF WarehouseInv
<1>3. WarehouseTypes'
  <2>0. Len(topic) \in Nat
    BY <1>2 DEF WarehouseTypes
  <2>1. CASE Open \/ AutoCommit \/ Close
    <3>1. round = "poll" => position \in 0..Len(topic)
      BY <2>0, <1>2 DEF WarehouseTypes, RoundInv
    <3>2. Decisions(1, Len(topic))' = Decisions(1, Len(topic))
      BY <1>1 DEF Decisions
    <3> QED
      BY <2>0, <2>1, <3>1, <3>2, <1>1, <1>2 DEF Open, AutoCommit, Close, Shut, WarehouseTypes
  <2>2. CASE Poll
    <3>1. position + 1 \in 1..Len(topic)
      BY <2>0, <2>2, <1>2 DEF Poll, MayPoll, WarehouseTypes
    <3>2. batch' \subseteq Decisions(1, Len(topic))
      BY <2>2, <3>1, <1>2 DEF Poll, WarehouseTypes, Decisions
    <3>3. Decisions(1, Len(topic))' = Decisions(1, Len(topic))
      BY <1>1 DEF Decisions
    <3> QED
      BY <2>0, <2>2, <3>1, <3>2, <3>3, <1>1, <1>2 DEF Poll, WarehouseTypes
  <2>3. CASE PollInvalid
    BY <2>0, <2>3, <1>1, <1>2 DEF PollInvalid, MayPoll, Shut, WarehouseTypes
  <2>4. CASE Fail
    BY <2>0, <2>4, <1>1, <1>2 DEF Fail, Shut, WarehouseTypes, RoundInv
  <2> QED
    BY <2>1, <2>2, <2>3, <2>4
<1>4. failures' \in Nat /\ failures' >= failures
  BY <1>2 DEF Open, Poll, AutoCommit, PollInvalid, Close, Fail, WarehouseTypes
<1>5. RoundInv'
  <2>1. CASE Open
    <3>1. Decisions(committed + 1, committed) = {} /\ batch = {}
      BY <2>1, <1>2 DEF Open, Decisions, WarehouseTypes, RoundInv
    <3>2. Decisions(start + 1, position)' = {}
      BY <2>1, <1>1, <1>2 DEF Open, Decisions, WarehouseTypes
    <3> QED
      BY <2>1, <3>1, <3>2, <1>2, <1>1, EmptyBatch, WarehouseAssumption DEF Open, WarehouseTypes, RoundInv
  <2>2. CASE Poll
    <3>1. /\ start <= committed /\ committed <= position' /\ position' <= Len(topic)
          /\ position' - start <= BatchSize /\ position' = position + 1 /\ position' \in Nat
          /\ start \in Nat /\ position \in Nat /\ Len(topic) \in Nat
      BY <2>2, <1>2, WarehouseAssumption DEF Poll, MayPoll, WarehouseTypes, RoundInv
    <3>2. batch' = Decisions(start + 1, position + 1)
      <4>1. start + 1 <= position + 1 /\ batch = Decisions(start + 1, position)
        BY <2>2, <3>1, <1>2 DEF Poll, MayPoll, RoundInv, WarehouseTypes
      <4> QED
        BY <2>2, <3>1, <4>1 DEF Poll, Decisions
    <3>3. Decisions(start + 1, position)' = Decisions(start + 1, position + 1)
      BY <2>2, <3>1, <1>1 DEF Poll, Decisions
    <3>4. Cardinality(batch') <= BatchSize
      <4>1. batch' \in SUBSET ((start + 1)..(position + 1))
        BY <3>2 DEF Decisions
      <4>2. /\ IsFiniteSet((start + 1)..(position + 1))
            /\ Cardinality((start + 1)..(position + 1)) <= BatchSize
        <5> DEFINE a == start + 1
                   c == position + 1
        <5>1. a \in Int /\ c \in Int /\ c - a + 1 <= BatchSize /\ 0 <= BatchSize
          BY <3>1, WarehouseAssumption
        <5> HIDE DEF a, c
        <5>2. IsFiniteSet(a..c) /\ Cardinality(a..c) = IF a > c THEN 0 ELSE c - a + 1
          BY <5>1, FS_Interval
        <5>3. Cardinality(a..c) <= BatchSize
          BY <5>1, <5>2
        <5> QED
          BY <5>2, <5>3 DEF a, c
      <4>3. /\ Cardinality(batch') <= Cardinality((start + 1)..(position + 1))
            /\ IsFiniteSet(batch')
        BY <4>1, <4>2, FS_Subset
      <4>4. /\ Cardinality(batch') \in Nat
            /\ Cardinality((start + 1)..(position + 1)) \in Nat
        BY <4>2, <4>3, FS_CardinalityType
      <4> QED
        BY <4>2, <4>3, <4>4, WarehouseAssumption
    <3> QED
      BY <2>2, <1>1, <3>1, <3>2, <3>3, <3>4 DEF Poll, MayPoll, RoundInv
  <2>3. CASE AutoCommit
    BY <2>3, <1>2, <1>1 DEF AutoCommit, WarehouseTypes, RoundInv, Decisions
  <2>4. CASE Close
    BY <2>4, <1>2, <1>1 DEF Close, Shut, WarehouseTypes, RoundInv
  <2>5. CASE PollInvalid \/ Fail
    BY <2>5, EmptyBatch DEF PollInvalid, Fail, RoundInv
  <2> QED
    BY <2>1, <2>2, <2>3, <2>4, <2>5
<1>6. BronzeInv'
  <2>1. /\ SilverOf(UpTo(covered))' = SilverOf(UpTo(covered))
        /\ Reconciles' <=> Reconciles
        /\ Decisions(1, Len(topic))' = Decisions(1, Len(topic))
    BY <1>1 DEF UpTo, Reconciles, Decisions
  <2>2. Readable' /\ failures' = 0 => Readable /\ failures = 0
    BY <1>2, <1>4 DEF Open, Poll, AutoCommit, PollInvalid, Close, Fail, Readable, WarehouseTypes
  <2> QED
    BY <1>1, <1>2, <2>1, <2>2 DEF BronzeInv
<1>7. \/ Lost' \subseteq Lost
      \/ Lost' \subseteq Lost \cup batch /\ failures' = failures + 1
  <2>1. CASE Open \/ Poll
    BY <2>1, <1>1 DEF Open, Poll, Lost, Landed, Decisions
  <2>2. CASE AutoCommit \/ Close
    BY <2>2, <1>1, <1>2 DEF AutoCommit, Close, Lost, Landed, Decisions, WarehouseTypes, RoundInv
  <2>3. CASE PollInvalid
    <3>1. /\ Len(topic) \in Nat /\ position \in Nat /\ start \in Nat /\ committed \in Nat
          /\ start <= committed /\ committed <= position /\ batch = Decisions(start + 1, position)
      BY <2>3, <1>2 DEF PollInvalid, MayPoll, WarehouseTypes, RoundInv
    <3>2. topic[position + 1].kind # "decision" /\ committed' \in {committed, position + 1}
          /\ failures' = failures + 1 /\ batch' = {}
      BY <2>3 DEF PollInvalid
    <3>3. Landed' = Landed
      BY <1>1 DEF Landed
    <3>4. Decisions(1, committed)' \subseteq Decisions(1, committed) \cup batch
      BY <3>1, <3>2, <1>1 DEF Decisions
    <3> QED
      BY <3>2, <3>3, <3>4 DEF Lost
  <2>4. CASE Fail
    BY <2>4, <1>1, <1>2 DEF Fail, Lost, Landed, Decisions, WarehouseTypes, RoundInv
  <2> QED
    BY <2>1, <2>2, <2>3, <2>4
<1> QED
  <2>1. IsFiniteSet(Lost) /\ IsFiniteSet(batch) /\ failures \in Nat
    BY <1>2, LostIsFinite DEF WarehouseTypes
  <2> QED
    BY <2>1, <1>2, <1>3, <1>4, <1>5, <1>6, <1>7, LossIsBounded DEF WarehouseInv, RoundInv

\* The batch in hand becomes the newest part.
LEMMA LandKeeps == ASSUME WarehouseInv, Land PROVE WarehouseInv'
<1> DEFINE part == [events |-> batch, at |-> now]
<1>1. /\ bronze' = Append(bronze, part) /\ round' = "silver" /\ batch' = {}
      /\ UNCHANGED <<topic, committed, start, position, silver, byAgent, byDay, covered,
                     failures, now>>
  BY DEF Land
<1>2. WarehouseTypes /\ RoundInv /\ BronzeInv
  BY DEF WarehouseInv
<1>3. /\ part \in Parts /\ batch \subseteq Decisions(1, Len(topic)) /\ now \in Nat
      /\ bronze \in Seq(Parts) /\ covered \in 0..Len(bronze)
  BY <1>2 DEF WarehouseTypes, Parts, Decisions
<1>4. part.events = batch /\ part.at = now
  OBVIOUS
<1> HIDE DEF part
<1>5. /\ bronze' \in Seq(Parts) /\ Len(bronze') = Len(bronze) + 1 /\ Len(bronze) \in Nat
      /\ DOMAIN bronze = 1..Len(bronze) /\ DOMAIN bronze' = 1..(Len(bronze) + 1)
      /\ \A k \in 1..Len(bronze) : bronze'[k] = bronze[k] /\ bronze[k] \in Parts
      /\ bronze'[Len(bronze) + 1] = part
  BY <1>1, <1>3
<1>6. Decisions(1, Len(topic))' = Decisions(1, Len(topic))
  BY <1>1 DEF Decisions
<1>7. WarehouseTypes'
  BY <1>1, <1>2, <1>3, <1>5, <1>6 DEF WarehouseTypes
<1>8. RoundInv'
  BY <1>1, EmptyBatch DEF RoundInv
<1>9. BronzeInv'
  <2>1. ASSUME NEW k \in DOMAIN bronze'
        PROVE  bronze'[k].at <= now /\ bronze'[k].events \subseteq Decisions(1, Len(topic))
    <3>1. CASE k \in 1..Len(bronze)
      BY <3>1, <1>2, <1>5 DEF BronzeInv
    <3>2. CASE k = Len(bronze) + 1
      BY <3>2, <1>3, <1>4, <1>5
    <3> QED
      BY <3>1, <3>2, <1>5
  <2>2. ASSUME NEW j \in DOMAIN bronze', NEW k \in DOMAIN bronze', j <= k
        PROVE  bronze'[j].at <= bronze'[k].at
    <3>1. CASE k \in 1..Len(bronze)
      <4>1. j \in 1..Len(bronze)
        BY <2>2, <3>1, <1>5
      <4> QED
        BY <2>2, <3>1, <4>1, <1>2, <1>5 DEF BronzeInv
    <3>2. CASE k = Len(bronze) + 1
      BY <3>2, <2>1, <1>4, <1>5
    <3> QED
      BY <3>1, <3>2, <1>5
  <2>3. SubSeq(bronze', 1, covered) = SubSeq(bronze, 1, covered)
    <3>1. /\ Len(SubSeq(bronze', 1, covered)) = covered
          /\ Len(SubSeq(bronze, 1, covered)) = covered
          /\ SubSeq(bronze', 1, covered) \in Seq(Parts)
          /\ SubSeq(bronze, 1, covered) \in Seq(Parts)
          /\ \A k \in 1..covered : /\ SubSeq(bronze', 1, covered)[k] = bronze'[k]
                                   /\ SubSeq(bronze, 1, covered)[k] = bronze[k]
      BY <1>3, <1>5
    <3>2. \A k \in 1..covered : bronze'[k] = bronze[k]
      BY <1>3, <1>5
    <3> QED
      BY <3>1, <3>2, SeqEqual
  <2>4. UpTo(covered)' = UpTo(covered)
    BY <2>3, <1>1 DEF UpTo
  <2>5. SilverOf(UpTo(covered))' = SilverOf(UpTo(covered))
    BY <2>4 DEF SilverOf
  <2> QED
    BY <1>1, <1>2, <1>6, <2>1, <2>2, <2>5 DEF BronzeInv, Readable
<1>10. Lost' \subseteq Lost
  <2>1. Landed \cup batch \subseteq Landed'
    <3>1. ASSUME NEW k \in DOMAIN bronze PROVE bronze[k].events \subseteq Landed'
      <4>1. bronze'[k] = bronze[k] /\ k \in DOMAIN bronze'
        BY <1>5
      <4> QED
        BY <4>1 DEF Landed, SetOf
    <3>2. batch \subseteq Landed'
      <4>1. bronze'[Len(bronze) + 1].events = batch /\ Len(bronze) + 1 \in DOMAIN bronze'
        BY <1>4, <1>5
      <4> QED
        BY <4>1 DEF Landed, SetOf
    <3> QED
      BY <3>1, <3>2 DEF Landed, SetOf
  <2>2. Decisions(1, committed)' = Decisions(1, committed)
    BY <1>1 DEF Decisions
  <2> QED
    BY <2>1, <2>2 DEF Lost
<1> QED
  <2>1. IsFiniteSet(Lost) /\ IsFiniteSet(batch) /\ failures \in Nat /\ failures' = failures
    BY <1>1, <1>2, LostIsFinite DEF WarehouseTypes
  <2> QED
    BY <2>1, <1>2, <1>7, <1>8, <1>9, <1>10, LossIsBounded DEF WarehouseInv, RoundInv

\* Builds write tables that are made of bronze, and time goes on.
LEMMA BuildsKeep ==
    ASSUME WarehouseInv, BuildSilver \/ BuildGold \/ Built \/ Tick
    PROVE  WarehouseInv'
<1>1. UNCHANGED <<topic, committed, start, position, batch, bronze, failures>>
  BY DEF BuildSilver, BuildGold, Built, Tick
<1>2. WarehouseTypes /\ RoundInv /\ BronzeInv
  BY DEF WarehouseInv
<1>3. /\ Decisions(1, Len(topic))' = Decisions(1, Len(topic))
      /\ Decisions(start + 1, position)' = Decisions(start + 1, position)
      /\ Lost' = Lost
  BY <1>1 DEF Decisions, Lost, Landed
<1>4. now' \in Nat /\ now' >= now /\ now \in Nat
  BY <1>2 DEF BuildSilver, BuildGold, Built, Tick, WarehouseTypes
<1>5. bronze \in Seq(Parts) /\ Len(bronze) \in Nat
  BY <1>2 DEF WarehouseTypes
<1>6. covered' \in 0..Len(bronze) /\ silver' = SilverOf(UpTo(covered'))
  <2>1. UpTo(Len(bronze)) = bronze
    BY <1>5 DEF UpTo
  <2> QED
    BY <2>1, <1>2, <1>5 DEF BuildSilver, BuildGold, Built, Tick, WarehouseTypes, BronzeInv
<1>7. WarehouseTypes'
  BY <1>1, <1>2, <1>3, <1>4, <1>6 DEF BuildSilver, BuildGold, Built, Tick, WarehouseTypes
<1>8. RoundInv'
  BY <1>1, <1>2, <1>3 DEF BuildSilver, BuildGold, Built, Tick, RoundInv
<1>9. BronzeInv'
  <2>1. SilverOf(UpTo(covered))' = SilverOf(UpTo(covered'))
    BY <1>1 DEF UpTo
  <2>2. \A k \in DOMAIN bronze : bronze[k].at <= now'
    <3>1. \A k \in DOMAIN bronze : bronze[k].at \in Nat
      <4>1. \A k \in DOMAIN bronze : bronze[k] \in Parts
        BY <1>5
      <4> QED
        BY <4>1 DEF Parts
    <3> QED
      BY <3>1, <1>2, <1>4 DEF BronzeInv
  <2>3. Readable' /\ failures' = 0 => Reconciles'
    BY <1>1, <1>2 DEF BuildSilver, BuildGold, Built, Tick, Readable, Reconciles, BronzeInv
  <2> QED
    BY <1>1, <1>2, <1>3, <1>6, <2>1, <2>2, <2>3 DEF BronzeInv
<1> QED
  BY <1>1, <1>3, <1>7, <1>8, <1>9 DEF WarehouseInv

LEMMA WarehouseInitially == WarehouseInit => WarehouseInv
<1> SUFFICES ASSUME WarehouseInit PROVE WarehouseInv
  OBVIOUS
<1>1. UpTo(0) = <<>> /\ SilverOf(<<>>) = {} /\ Landed = {}
  BY DEF WarehouseInit, UpTo, SilverOf, Landed, SetOf
<1>2. Decisions(1, 0) = {} /\ Lost = {} /\ Cardinality({}) = 0
  BY FS_EmptySet DEF WarehouseInit, Decisions, Lost
<1>3. WarehouseTypes /\ RoundInv
  BY <1>2, EmptyBatch DEF WarehouseInit, WarehouseTypes, RoundInv
<1>4. BronzeInv
  BY <1>1, <1>2 DEF WarehouseInit, BronzeInv, Reconciles
<1> QED
  BY <1>2, <1>3, <1>4, WarehouseAssumption DEF WarehouseInv, WarehouseInit

LEMMA WarehousePreserved == WarehouseInv /\ [WarehouseNext]_warehouseVars => WarehouseInv'
<1>1. WarehouseInv /\ UNCHANGED warehouseVars => WarehouseInv'
  BY DEF warehouseVars, WarehouseInv, WarehouseTypes, RoundInv, BronzeInv, Lost, Landed,
     Decisions, UpTo, Readable, Reconciles
<1> QED
  BY <1>1, ProduceKeeps, ClientKeeps, LandKeeps, BuildsKeep DEF WarehouseNext

LEMMA SilverNow ==
    ASSUME WarehouseInv
    PROVE  /\ \A r \in silver : \E k \in 1..covered :
                 r.event \in bronze[k].events /\ r.at = bronze[k].at
           /\ {r.event : r \in silver} = UNION {p.events : p \in SetOf(UpTo(covered))}
           /\ IsFiniteSet(silver)
           /\ Cardinality(silver) = Cardinality({r.event : r \in silver})
<1> DEFINE parts == UpTo(covered)
<1>1. /\ parts \in Seq(Parts) /\ DOMAIN parts = 1..covered
      /\ \A k \in 1..covered : parts[k] = bronze[k] /\ k \in DOMAIN bronze
  BY DEF WarehouseInv, WarehouseTypes, UpTo
<1>2. \A k \in DOMAIN parts : parts[k].events \subseteq Decisions(1, Len(topic))
  BY <1>1 DEF WarehouseInv, BronzeInv
<1>3. IsFiniteSet(Decisions(1, Len(topic)))
  <2>1. IsFiniteSet(1..Len(topic)) /\ Decisions(1, Len(topic)) \in SUBSET (1..Len(topic))
    BY FS_Interval DEF WarehouseInv, WarehouseTypes, Decisions
  <2> QED
    BY <2>1, FS_Subset
<1>4. silver = SilverOf(parts)
  BY DEF WarehouseInv, BronzeInv
<1> HIDE DEF parts
<1>5. /\ \A r \in SilverOf(parts) : \E k \in DOMAIN parts :
            r.event \in parts[k].events /\ r.at = parts[k].at
      /\ {r.event : r \in SilverOf(parts)} = UNION {p.events : p \in SetOf(parts)}
      /\ IsFiniteSet(SilverOf(parts))
      /\ Cardinality(SilverOf(parts)) = Cardinality({r.event : r \in SilverOf(parts)})
  BY <1>1, <1>2, <1>3, SilverRows
<1>6. \A r \in silver : \E k \in 1..covered : r.event \in bronze[k].events /\ r.at = bronze[k].at
  <2> TAKE r \in silver
  <2>1. PICK k \in DOMAIN parts : r.event \in parts[k].events /\ r.at = parts[k].at
    BY <1>4, <1>5
  <2> QED
    BY <2>1, <1>1
<1>7. UNION {p.events : p \in SetOf(parts)} = UNION {p.events : p \in SetOf(UpTo(covered))}
  BY DEF parts
<1> QED
  BY <1>4, <1>5, <1>6, <1>7

\* What is counted are offsets of decisions that were published.
LEMMA CountedArePublished ==
    ASSUME WarehouseInv, NEW e \in Counted
    PROVE  e \in 1..Len(topic) /\ topic[e].kind = "decision"
<1>1. PICK k \in 1..covered : e \in bronze[k].events
  BY SilverNow DEF Counted
<1>2. k \in DOMAIN bronze
  BY DEF WarehouseInv, WarehouseTypes
<1> QED
  BY <1>1, <1>2 DEF WarehouseInv, BronzeInv, Decisions

\* Of the events about one decision the latest alone is not announced again.
LEMMA LatestStands ==
    ASSUME WarehouseInv, NEW e \in Counted
    PROVE  \E f \in Counted \ AnnouncedAgain : topic[f].decision = topic[e].decision
<1> DEFINE Same == {f \in Counted : topic[f].decision = topic[e].decision}
<1>1. Same \in SUBSET Int /\ IsFiniteSet(Same) /\ Same # {}
  <2>1. Counted \subseteq 1..Len(topic) /\ Len(topic) \in Int
    BY CountedArePublished DEF WarehouseInv, WarehouseTypes
  <2>2. IsFiniteSet(1..Len(topic)) /\ 1..Len(topic) \subseteq Int
    BY <2>1, FS_Interval
  <2>3. Same \subseteq 1..Len(topic) /\ e \in Same
    BY <2>1
  <2> HIDE DEF Same
  <2>4. IsFiniteSet(Same)
    BY <2>2, <2>3, FS_Subset
  <2> QED
    BY <2>2, <2>3, <2>4
<1>2. Max(Same) \in Same /\ \A f \in Same : f <= Max(Same)
  <2> HIDE DEF Same
  <2> QED
    BY <1>1, MaxExists
<1>3. Max(Same) \notin AnnouncedAgain
  <2> SUFFICES ASSUME NEW f \in Counted, f > Max(Same),
                      topic[f].decision = topic[Max(Same)].decision
               PROVE  FALSE
    BY DEF AnnouncedAgain
  <2>1. f \in Same
    BY <1>2
  <2>2. f \in Int /\ Max(Same) \in Int
    BY <1>1, <1>2, <2>1
  <2> QED
    BY <1>2, <2>1, <2>2
<1> QED
  BY <1>2, <1>3

\* The decisions are as many as the rows not announced again.
LEMMA DecisionsAreLatest ==
    ASSUME WarehouseInv
    PROVE  Cardinality(Counted) = Cardinality(CountedDecisions) + Cardinality(AnnouncedAgain)
<1> DEFINE Last == Counted \ AnnouncedAgain
           Of == [e \in Last |-> topic[e].decision]
<1>1. IsFiniteSet(Counted) /\ AnnouncedAgain \subseteq Counted /\ Counted \subseteq Int
  <2>1. Counted \subseteq 1..Len(topic) /\ Len(topic) \in Int
    BY CountedArePublished DEF WarehouseInv, WarehouseTypes
  <2>2. IsFiniteSet(1..Len(topic)) /\ 1..Len(topic) \subseteq Int
    BY <2>1, FS_Interval
  <2>3. IsFiniteSet(Counted)
    BY <2>1, <2>2, FS_Subset
  <2> QED
    BY <2>1, <2>2, <2>3 DEF AnnouncedAgain
<1>2. Of \in Bijection(Last, CountedDecisions)
  <2>1. Of \in [Last -> CountedDecisions]
    BY DEF CountedDecisions
  <2>2. ASSUME NEW e \in Last, NEW f \in Last, Of[e] = Of[f] PROVE e = f
    <3>1. ~ (e > f) /\ ~ (f > e) /\ e \in Int /\ f \in Int
      BY <1>1, <2>2 DEF AnnouncedAgain
    <3> QED
      BY <3>1
  <2>3. ASSUME NEW d \in CountedDecisions PROVE \E e \in Last : Of[e] = d
    <3>1. PICK e \in Counted : d = topic[e].decision
      BY DEF CountedDecisions
    <3> QED
      BY <3>1, LatestStands
  <2>4. DOMAIN Of = Last
    OBVIOUS
  <2> HIDE DEF Last, Of
  <2> QED
    BY <2>1, <2>2, <2>3, <2>4 DEF Bijection, Injection, Surjection, IsInjective
<1>3. IsFiniteSet(Last) /\ IsFiniteSet(AnnouncedAgain)
  BY <1>1, FS_Subset
<1>4. Cardinality(CountedDecisions) = Cardinality(Last)
  <2>1. ExistsBijection(Last, CountedDecisions)
    BY <1>2 DEF ExistsBijection
  <2> HIDE DEF Last, Of
  <2> QED
    BY <1>3, <2>1, FS_Bijection
<1>5. Cardinality(Counted) = Cardinality(Last) + Cardinality(AnnouncedAgain)
  <2>1. Counted = Last \cup AnnouncedAgain /\ Last \cap AnnouncedAgain = {}
    BY <1>1
  <2> HIDE DEF Last, Of
  <2>2. /\ Cardinality(Counted) = Cardinality(Last) + Cardinality(AnnouncedAgain) - Cardinality({})
    BY <1>3, <2>1, FS_Union
  <2>3. Cardinality({}) = 0 /\ Cardinality(Last) \in Nat /\ Cardinality(AnnouncedAgain) \in Nat
    BY <1>3, FS_EmptySet, FS_CardinalityType
  <2> QED
    BY <2>2, <2>3
<1> QED
  BY <1>4, <1>5

\* Whatever is delivered again, however often a build is repeated and wherever
\* one fails, the metrics count every announcement that has landed once: they
\* exceed the decisions by those announced again, and by nothing else; and
\* while no round failed, the gold tables add up to silver (silver_decisions.sql,
\* quality.py).
THEOREM EveryAnnouncementCountsOnce == WarehouseSpec => []CountedPerAnnouncement
<1>1. WarehouseInv => CountedPerAnnouncement
  <2> SUFFICES ASSUME WarehouseInv PROVE CountedPerAnnouncement
    OBVIOUS
  <2>1. Cardinality(silver) = Cardinality(Counted)
    BY SilverNow DEF Counted
  <2>2. Counted = UNION {p.events : p \in SetOf(UpTo(covered))}
    BY SilverNow DEF Counted
  <2>3. Readable /\ failures = 0 => Reconciles
    BY DEF WarehouseInv, BronzeInv
  <2> QED
    BY <2>1, <2>2, <2>3, CountedArePublished, DecisionsAreLatest DEF CountedPerAnnouncement
<1> QED
  BY <1>1, WarehouseInitially, WarehousePreserved, PTL DEF WarehouseSpec

\* Whenever the client commits and wherever a round fails, each failure costs
\* at most the one batch in hand (consume_to_bronze(), bus.consume()).
THEOREM FailuresCostABatch == WarehouseSpec => []LossPerFailure
<1>1. WarehouseInv => LossPerFailure
  BY Zenon DEF WarehouseInv, LossPerFailure, Lost, Landed, Decisions
<1> QED
  BY <1>1, WarehouseInitially, WarehousePreserved, PTL DEF WarehouseSpec

\* /ready answers for what it cannot see: parts land in the order of time, so
\* a part that no build has covered is younger than the newest row of silver,
\* which is within the SLA (app.py, freshness.py).
THEOREM ReadyMeansRecent == WarehouseSpec => []ReadyMissesOnlyRecent
<1>1. WarehouseInv => ReadyMissesOnlyRecent
  <2> SUFFICES ASSUME WarehouseInv, silver # {}, now - LatestIngested <= Sla,
                      NEW k \in (covered + 1)..Len(bronze)
               PROVE  now - bronze[k].at <= Sla
    BY DEF ReadyMissesOnlyRecent, Ready
  <2> DEFINE Times == {r.at : r \in silver} \cup {0}
  <2>1. /\ covered \in Nat /\ Len(bronze) \in Nat /\ now \in Nat /\ DOMAIN bronze = 1..Len(bronze)
        /\ \A j \in 1..Len(bronze) : bronze[j].at \in Nat
    <3>1. bronze \in Seq(Parts) /\ covered \in 0..Len(bronze) /\ now \in Nat
      BY DEF WarehouseInv, WarehouseTypes
    <3>2. \A j \in 1..Len(bronze) : bronze[j] \in Parts
      BY <3>1
    <3> QED
      BY <3>1, <3>2 DEF Parts
  <2>2. k \in DOMAIN bronze /\ bronze[k].at \in Nat
    BY <2>1
  <2>3. ASSUME NEW t \in Times PROVE t \in Nat /\ t <= now /\ t <= bronze[k].at
    <3>1. CASE t = 0
      BY <3>1, <2>1, <2>2
    <3>2. ASSUME NEW r \in silver, t = r.at
          PROVE  t \in Nat /\ t <= now /\ t <= bronze[k].at
      <4>1. PICK j \in 1..covered : r.at = bronze[j].at
        BY SilverNow
      <4>2. j \in DOMAIN bronze /\ j <= k
        BY <2>1
      <4> QED
        BY <2>1, <2>2, <3>2, <4>1, <4>2 DEF WarehouseInv, BronzeInv
    <3> QED
      BY <3>1, <3>2
  <2>4. IsFiniteSet(Times) /\ Times \in SUBSET Int /\ Times # {}
    <3>1. Times \in SUBSET (0..now)
      BY <2>1, <2>3
    <3>2. IsFiniteSet(0..now)
      BY <2>1, FS_Interval
    <3>3. 0 \in Times
      OBVIOUS
    <3> HIDE DEF Times
    <3>4. IsFiniteSet(Times)
      BY <3>1, <3>2, FS_Subset
    <3> QED
      BY <3>1, <3>3, <3>4
  <2>5. LatestIngested = Max(Times)
    BY DEF LatestIngested, Max0
  <2> HIDE DEF Times
  <2>6. LatestIngested \in Times
    BY <2>4, <2>5, MaxExists
  <2> QED
    BY <2>1, <2>2, <2>3, <2>6, WarehouseAssumption
<1> QED
  BY <1>1, WarehouseInitially, WarehousePreserved, PTL DEF WarehouseSpec

----------------------------------------------------------------------------
(* The console.                                                            *)

PortResults == {"none", "created", "502", "acted", "400", "409", "draft", "active", "streaming"}
Pages == PortResults \cup {"401", "403", "500", "activated"}
Records ==
    [step : {"idle", "open", "answered", "dropped"},
     caller : Callers \cup {NoCaller}, cross : BOOLEAN,
     form : Forms \cup {NoForm} \cup {[f EXCEPT !.op = "direct"] : f \in Forms},
     page : Pages]

ConsoleTypes ==
    /\ request \in [Requests -> Records]
    /\ outcome \in [Requests -> PortResults]
    /\ step \in [Requests -> {"idle", "flag", "revoke", "audit", "publish", "done", "failed",
                              "refused"}]
    /\ DOMAIN order = Requests
    /\ shop \in [Shops -> [status : {"absent", "draft", "active"}, by : SUBSET Requests]]
    /\ run \in [Shops -> SUBSET Requests]

\* The handler let the request through to its port.
Accepted(r) ==
    LET f == Form(r) IN
    \/ f.op = "direct" /\ ~ request[r].cross
    \/ /\ f.op \in {"halt", "decide", "propose", "seed", "approve", "ideate"}
       /\ Verified(request[r].caller) /\ ~ request[r].cross
       /\ f.op # "ideate" => CanMutate(request[r].caller)
       /\ f.op \in {"halt", "propose"} => f.text /\ f.valid
       /\ f.op = "decide" => f.act \in {"approve", "reject"} /\ (f.act = "reject" => f.text)
       /\ f.op = "seed" => f.subject \in Shops \ {NoTarget}

Untouched(r) ==
    /\ outcome[r] = "none" /\ step[r] = "idle"
    /\ r \notin flagged \cup created \cup acted
    /\ \A b \in Shops : r \notin shop[b].by \cup run[b]

\* A request has had no effect and cannot have one, or was let through and has
\* the page its port's answer makes.
JourneyInv(r) ==
    \/ /\ \/ request[r].step = "idle" /\ request[r].page = "none"
          \/ request[r].step = "answered" /\ request[r].page \in {"400", "401", "403"}
       /\ Untouched(r)
    \/ /\ \/ request[r].step = "open" /\ request[r].page = "none"
          \/ request[r].step = "dropped" /\ request[r].page = "500"
          \/ /\ request[r].step = "answered" /\ Returned(r) # "none"
             /\ request[r].page = Returned(r)
       /\ Accepted(r)

\* The service has the order it was sent, and its steps leave their marks.
SwitchInv(r) ==
    /\ step[r] # "idle" =>
          Form(r).op \in {"halt", "direct"} /\ order[r] = Forwarded(r)
    /\ step[r] \in {"flag", "revoke", "audit", "publish", "done"} => order[r].authorized
    /\ step[r] \in {"revoke", "audit", "publish", "done"} => r \in flagged
    /\ step[r] \in {"audit", "publish", "done"} => KS!ToRevoke(order[r]) \subseteq revoked
    /\ step[r] \in {"publish", "done"} => r \in recorded
    /\ r \in flagged => order[r].authorized /\ step[r] \notin {"idle", "flag", "refused"}

\* What a port returned is what it did.
PortInv(r) ==
    LET b == Form(r).subject IN
    /\ outcome[r] \in {"created", "502"} => IsOp(r, "propose")
    /\ outcome[r] = "acted" => Form(r).op \in {"decide", "approve"} /\ r \in acted
    /\ outcome[r] \in {"400", "409", "draft", "active"} => IsOp(r, "seed")
    /\ outcome[r] = "streaming" => IsOp(r, "ideate")
    /\ outcome[r] = "created" => r \in created
    /\ r \in created => IsOp(r, "propose") /\ outcome[r] # "none"
    /\ r \in acted => Form(r).op \in {"decide", "approve"} /\ outcome[r] = "acted"
    /\ outcome[r] = "400" => Form(r).act = "underfunded"
    /\ outcome[r] = "409" => shop[b].by \notin {{}, {r}}
    /\ outcome[r] \in {"draft", "active"} => shop[b] = [status |-> outcome[r], by |-> {r}]

\* A row has one founder.
ShopInv(b) ==
    /\ \A r \in shop[b].by :
          /\ shop[b].by = {r}
          /\ IsOp(r, "seed") /\ Form(r).subject = b /\ Form(r).act # "underfunded"
          /\ shop[b].status = "draft" \/ outcome[r] # "none"
    /\ \A r \in run[b] : IsOp(r, "ideate")

ConsoleInv ==
    /\ ConsoleTypes
    /\ \A r \in Requests : JourneyInv(r) /\ SwitchInv(r) /\ PortInv(r)
    /\ \A b \in Shops : ShopInv(b)

\* What the form must say for the handler of op to go on.
WellFormed(op, f) ==
    /\ op \in {"halt", "propose"} => f.text /\ f.valid
    /\ op = "decide" => f.act \in {"approve", "reject"} /\ (f.act = "reject" => f.text)
    /\ op = "seed" => f.subject \in Shops \ {NoTarget}

LEMMA HandleKeeps ==
    ASSUME ConsoleInv, NEW r \in Requests,
           NEW op \in {"halt", "decide", "propose", "seed", "approve", "ideate"},
           NEW good, \A f \in good \cap Forms : f.op = op => WellFormed(op, f),
           Handle(r, op, good)
    PROVE  ConsoleInv'
<1>1. PICK caller \in Callers, cross \in BOOLEAN, f \in Forms :
         /\ f.op = op
         /\ request' = [request EXCEPT ![r] =
               [step |-> IF Refusal(op, caller, cross, f \in good) = "none" THEN "open"
                         ELSE "answered",
                caller |-> caller, cross |-> cross, form |-> f,
                page |-> Refusal(op, caller, cross, f \in good)]]
  BY DEF Handle
<1>2. /\ caller \in [role : {d.role : d \in Callers}, signed : BOOLEAN]
      /\ f \in [op : STRING, subject : {g.subject : g \in Forms}, act : STRING,
                text : BOOLEAN, valid : BOOLEAN]
  BY FormsAssumption
<1>3. Refusal(op, caller, cross, f \in good) \in {"none", "400", "401", "403"}
  BY <1>2 DEF Refusal, Verified, CanMutate
<1>4. Refusal(op, caller, cross, f \in good) = "none" =>
         /\ Verified(caller) /\ ~ cross /\ (op # "ideate" => CanMutate(caller))
         /\ WellFormed(op, f)
  BY <1>1, <1>2 DEF Refusal, Verified, CanMutate
<1>5. /\ Untouched(r) /\ request[r].step = "idle"
      /\ UNCHANGED <<outcome, order, step, flagged, revoked, recorded, created, acted, shop, run>>
  BY DEF Handle, switchVars, ConsoleInv, JourneyInv
<1>6. \A q \in Requests \ {r} : request'[q] = request[q]
  BY <1>1 DEF ConsoleInv, ConsoleTypes
<1>7. /\ request'[r].page = Refusal(op, caller, cross, f \in good)
      /\ request'[r].step = IF Refusal(op, caller, cross, f \in good) = "none" THEN "open"
                            ELSE "answered"
      /\ request'[r].caller = caller /\ request'[r].cross = cross /\ request'[r].form = f
  BY <1>1 DEF ConsoleInv, ConsoleTypes
<1>8. ConsoleTypes'
  <2>1. [step |-> IF Refusal(op, caller, cross, f \in good) = "none" THEN "open" ELSE "answered",
         caller |-> caller, cross |-> cross, form |-> f,
         page |-> Refusal(op, caller, cross, f \in good)] \in Records
    BY <1>3 DEF Records, Pages, PortResults
  <2>2. request' \in [Requests -> Records]
    BY <1>1, <2>1 DEF ConsoleInv, ConsoleTypes
  <2> QED
    BY <2>2, <1>5 DEF ConsoleInv, ConsoleTypes
<1>9. ASSUME NEW q \in Requests PROVE (JourneyInv(q) /\ SwitchInv(q) /\ PortInv(q))'
  <2>1. CASE q # r
    BY <2>1, <1>5, <1>6 DEF ConsoleInv, JourneyInv, SwitchInv, PortInv, Untouched, Returned,
       Form, IsOp, Accepted, Forwarded
  <2>2. CASE q = r
    <3>1. JourneyInv(q)'
      BY <2>2, <1>1, <1>3, <1>4, <1>5, <1>7 DEF JourneyInv, Untouched, Accepted, Form, WellFormed
    <3>2. SwitchInv(q)' /\ PortInv(q)'
      BY <2>2, <1>5 DEF Untouched, SwitchInv, PortInv
    <3> QED
      BY <3>1, <3>2
  <2> QED
    BY <2>1, <2>2
<1>10. ASSUME NEW b \in Shops PROVE ShopInv(b)'
  <2>1. shop'[b] = shop[b] /\ run'[b] = run[b] /\ r \notin shop[b].by \cup run[b]
        /\ shop[b].by \subseteq Requests /\ run[b] \subseteq Requests
    BY <1>5 DEF Untouched, ConsoleInv, ConsoleTypes
  <2> QED
    BY <2>1, <1>5, <1>6 DEF ConsoleInv, ShopInv, IsOp, Form
<1> QED
  BY <1>8, <1>9, <1>10 DEF ConsoleInv

\* An answer and a timeout change the page of an open request only.
LEMMA PagesKeep ==
    ASSUME ConsoleInv, NEW r \in Requests, Answer(r) \/ Drop(r)
    PROVE  ConsoleInv'
<1>1. PICK s \in {"answered", "dropped"}, page \in Pages :
         /\ request' = [request EXCEPT ![r].step = s, ![r].page = page]
         /\ s = "answered" => page = Returned(r) /\ Returned(r) # "none"
         /\ s = "dropped" => page = "500"
  <2>1. outcome[r] \in PortResults
    BY DEF ConsoleInv, ConsoleTypes
  <2>2. Returned(r) \in Pages
    BY <2>1 DEF Returned, Pages, PortResults
  <2>3. CASE Answer(r)
    BY <2>2, <2>3 DEF Answer, ToPage
  <2>4. CASE Drop(r)
    BY <2>4 DEF Drop, ToPage, Pages
  <2> QED
    BY <2>3, <2>4
<1>2. request[r].step = "open" /\ Accepted(r)
  BY DEF Answer, Drop, Awaited, ConsoleInv, JourneyInv
<1>3. UNCHANGED <<outcome, order, step, flagged, revoked, recorded, created, acted, shop, run>>
  BY DEF Answer, Drop, switchVars
<1>4. /\ \A q \in Requests \ {r} : request'[q] = request[q]
      /\ request'[r].step = s /\ request'[r].page = page
      /\ request'[r].caller = request[r].caller /\ request'[r].cross = request[r].cross
      /\ request'[r].form = request[r].form
  BY <1>1 DEF ConsoleInv, ConsoleTypes, Records
<1>5. ConsoleTypes'
  <2> request[r] \in Records
    BY DEF ConsoleInv, ConsoleTypes
  <2>1. [request[r] EXCEPT !.step = s, !.page = page] \in Records
    BY DEF Records
  <2>2. request' \in [Requests -> Records]
    BY <1>1, <2>1 DEF ConsoleInv, ConsoleTypes
  <2> QED
    BY <2>2, <1>3 DEF ConsoleInv, ConsoleTypes
<1>6. ASSUME NEW q \in Requests
      PROVE  (JourneyInv(q) /\ SwitchInv(q) /\ PortInv(q))'
  <2>1. CASE q # r
    BY <2>1, <1>3, <1>4 DEF ConsoleInv, JourneyInv, SwitchInv, PortInv, Untouched, Returned,
       Form, IsOp, Accepted, Forwarded
  <2>2. CASE q = r
    <3>1. Form(r)' = Form(r) /\ Returned(r)' = Returned(r) /\ Forwarded(r)' = Forwarded(r)
      BY <1>3, <1>4 DEF Form, Returned, IsOp, Forwarded
    <3>2. Accepted(r)'
      BY <1>2, <1>4, <3>1 DEF Accepted
    <3>3. JourneyInv(r)'
      BY <1>1, <1>4, <3>1, <3>2 DEF JourneyInv
    <3>4. SwitchInv(r)' /\ PortInv(r)'
      BY <1>3, <3>1 DEF ConsoleInv, SwitchInv, PortInv, IsOp
    <3> QED
      BY <2>2, <3>3, <3>4
  <2> QED
    BY <2>1, <2>2
<1>7. ASSUME NEW b \in Shops PROVE ShopInv(b)'
  <2>1. \A q \in shop[b].by \cup run[b] : q \in Requests /\ request'[q].form = request[q].form
    BY <1>4 DEF ConsoleInv, ConsoleTypes
  <2> QED
    BY <2>1, <1>3 DEF ConsoleInv, ShopInv, IsOp, Form
<1> QED
  BY <1>5, <1>6, <1>7 DEF ConsoleInv

\* A direct order goes to the service unchecked: the service asks for the role.
LEMMA DirectKeeps ==
    ASSUME ConsoleInv, NEW r \in Requests, PostToService(r)
    PROVE  ConsoleInv'
<1>1. PICK caller \in Callers, f \in Forms :
         request' = [request EXCEPT ![r] =
            [step |-> "open", caller |-> caller, cross |-> FALSE,
             form |-> [f EXCEPT !.op = "direct"], page |-> "none"]]
  BY DEF PostToService
<1>2. f \in [op : STRING, subject : {g.subject : g \in Forms}, act : STRING,
             text : BOOLEAN, valid : BOOLEAN]
  BY FormsAssumption
<1>3. /\ Untouched(r) /\ request[r].step = "idle"
      /\ UNCHANGED <<outcome, order, step, flagged, revoked, recorded, created, acted, shop, run>>
  BY DEF PostToService, switchVars, ConsoleInv, JourneyInv
<1>4. /\ \A q \in Requests \ {r} : request'[q] = request[q]
      /\ request'[r].step = "open" /\ request'[r].cross = FALSE /\ request'[r].page = "none"
      /\ request'[r].form.op = "direct"
  BY <1>1, <1>2 DEF ConsoleInv, ConsoleTypes
<1>5. ConsoleTypes'
  <2>1. [step |-> "open", caller |-> caller, cross |-> FALSE,
         form |-> [f EXCEPT !.op = "direct"], page |-> "none"] \in Records
    BY DEF Records, Pages, PortResults
  <2>2. request' \in [Requests -> Records]
    BY <1>1, <2>1 DEF ConsoleInv, ConsoleTypes
  <2> QED
    BY <2>2, <1>3 DEF ConsoleInv, ConsoleTypes
<1>6. ASSUME NEW q \in Requests PROVE (JourneyInv(q) /\ SwitchInv(q) /\ PortInv(q))'
  <2>1. CASE q # r
    BY <2>1, <1>3, <1>4 DEF ConsoleInv, JourneyInv, SwitchInv, PortInv, Untouched, Returned,
       Form, IsOp, Accepted, Forwarded
  <2>2. CASE q = r
    <3>1. JourneyInv(q)'
      BY <2>2, <1>4 DEF JourneyInv, Accepted, Form
    <3>2. SwitchInv(q)' /\ PortInv(q)'
      BY <2>2, <1>3 DEF Untouched, SwitchInv, PortInv
    <3> QED
      BY <3>1, <3>2
  <2> QED
    BY <2>1, <2>2
<1>7. ASSUME NEW b \in Shops PROVE ShopInv(b)'
  <2>1. shop'[b] = shop[b] /\ run'[b] = run[b] /\ r \notin shop[b].by \cup run[b]
        /\ shop[b].by \subseteq Requests /\ run[b] \subseteq Requests
    BY <1>3 DEF Untouched, ConsoleInv, ConsoleTypes
  <2> QED
    BY <2>1, <1>3, <1>4 DEF ConsoleInv, ShopInv, IsOp, Form
<1> QED
  BY <1>5, <1>6, <1>7 DEF ConsoleInv

\* The kill-switch service goes on with an order, awaited or not.
LEMMA ActivationsKeep ==
    ASSUME ConsoleInv, NEW r \in Requests, Activate(r)
    PROVE  ConsoleInv'
<1>1. /\ UNCHANGED <<request, outcome, created, acted, shop, run>>
      /\ Form(r).op \in {"halt", "direct"} /\ Sent(r)
  BY DEF Activate
<1>2. PICK s \in {"flag", "revoke", "audit", "publish", "done", "failed", "refused"} :
         step' = [step EXCEPT ![r] = s]
  BY DEF Activate, KS!Receive, KS!SetFlag, KS!Revoke, KS!Record, KS!Publish, KS!Die, KS!Goto
<1>3. /\ \A q \in Requests \ {r} : order'[q] = order[q] /\ step'[q] = step[q]
      /\ step'[r] = s /\ DOMAIN order' = Requests
  BY <1>2 DEF Activate, KS!Receive, KS!SetFlag, KS!Revoke, KS!Record, KS!Publish, KS!Die,
     ConsoleInv, ConsoleTypes
<1>4. /\ flagged \subseteq flagged' /\ flagged' \subseteq flagged \cup {r}
      /\ revoked \subseteq revoked'
      /\ recorded \subseteq recorded'
  BY DEF Activate, KS!Receive, KS!SetFlag, KS!Revoke, KS!Record, KS!Publish, KS!Die
<1>5. ConsoleTypes'
  BY <1>1, <1>2, <1>3 DEF ConsoleInv, ConsoleTypes
<1>6. Accepted(r) /\ request[r].step \in {"open", "dropped"}
  BY <1>1 DEF Sent, ConsoleInv, JourneyInv
<1>7. SwitchInv(r)'
  <2>0. Form(r)' = Form(r) /\ Forwarded(r)' = Forwarded(r)
    BY <1>1 DEF Form, Forwarded, IsOp
  <2>1. SwitchInv(r)
    BY DEF ConsoleInv
  <2>2. CASE KS!Receive(r) /\ order'[r] = Forwarded(r)
    <3>1. order'[r] = Forwarded(r) /\ step'[r] \in {"flag", "refused"}
          /\ (step'[r] = "flag" => order'[r].authorized)
      BY <2>2, <1>2, <1>3 DEF KS!Receive, KS!Goto, ConsoleInv, ConsoleTypes
    <3> QED
      BY <2>0, <2>1, <2>2, <3>1, <1>1 DEF SwitchInv, KS!Receive
  <2>3. CASE KS!SetFlag(r)
    BY <2>0, <2>1, <2>3, <1>1, <1>2, <1>3 DEF SwitchInv, KS!SetFlag, KS!Goto, ConsoleInv, ConsoleTypes
  <2>4. CASE KS!Revoke(r)
    BY <2>0, <2>1, <2>4, <1>1, <1>2, <1>3 DEF SwitchInv, KS!Revoke, KS!Goto, ConsoleInv, ConsoleTypes
  <2>5. CASE KS!Record(r)
    BY <2>0, <2>1, <2>5, <1>1, <1>2, <1>3 DEF SwitchInv, KS!Record, KS!Goto, ConsoleInv, ConsoleTypes
  <2>6. CASE KS!Publish(r)
    BY <2>0, <2>1, <2>6, <1>1, <1>2, <1>3 DEF SwitchInv, KS!Publish, KS!Goto, ConsoleInv, ConsoleTypes
  <2>7. CASE KS!Die(r)
    BY <2>0, <2>1, <2>7, <1>1, <1>2, <1>3 DEF SwitchInv, KS!Die, KS!Goto, KS!Running,
       ConsoleInv, ConsoleTypes
  <2> QED
    BY <2>2, <2>3, <2>4, <2>5, <2>6, <2>7 DEF Activate
<1>8. ASSUME NEW q \in Requests PROVE (JourneyInv(q) /\ SwitchInv(q) /\ PortInv(q))'
  <2>1. CASE q # r
    <3>1. q \in flagged' <=> q \in flagged
      BY <2>1, <1>4
    <3>2. Form(q)' = Form(q) /\ Forwarded(q)' = Forwarded(q) /\ Returned(q)' = Returned(q)
      BY <2>1, <1>1, <1>3 DEF Form, Forwarded, Returned, IsOp
    <3>3. JourneyInv(q)'
      BY <2>1, <1>1, <1>3, <3>1, <3>2 DEF ConsoleInv, JourneyInv, Accepted, Untouched
    <3>4. SwitchInv(q)'
      BY <2>1, <1>3, <1>4, <3>1, <3>2 DEF ConsoleInv, SwitchInv
    <3>5. PortInv(q)'
      BY <1>1, <3>2 DEF ConsoleInv, PortInv, IsOp
    <3> QED
      BY <3>3, <3>4, <3>5
  <2>2. CASE q = r
    <3>1. JourneyInv(r)'
      BY <1>1, <1>6 DEF ConsoleInv, JourneyInv, Accepted, Form
    <3>2. PortInv(r)'
      BY <1>1 DEF ConsoleInv, PortInv, IsOp, Form
    <3> QED
      BY <2>2, <3>1, <3>2, <1>7
  <2> QED
    BY <2>1, <2>2
<1>9. ASSUME NEW b \in Shops PROVE ShopInv(b)'
  BY <1>1 DEF ConsoleInv, ShopInv, IsOp, Form
<1> QED
  BY <1>5, <1>8, <1>9 DEF ConsoleInv

\* The other ports act for one accepted request.
LEMMA PortsKeep ==
    ASSUME ConsoleInv, NEW r \in Requests,
           \/ CreateExperiment(r) \/ RecordApproval(r) \/ Provision(r) \/ Ideate(r)
    PROVE  ConsoleInv'
<1> DEFINE b == Form(r).subject
<1>1. /\ UNCHANGED <<request, order, step, flagged, revoked, recorded>>
      /\ request[r].step \in {"open", "dropped"} /\ Accepted(r) /\ outcome[r] = "none"
  BY DEF CreateExperiment, RecordApproval, Provision, Ideate, Sent, Awaited, switchVars,
     ConsoleInv, JourneyInv
<1>2. /\ outcome' \in [Requests -> PortResults]
      /\ \A q \in Requests \ {r} : outcome'[q] = outcome[q]
  BY DEF CreateExperiment, RecordApproval, Provision, Ideate, Return, ConsoleInv, ConsoleTypes,
     PortResults
<1>3. /\ created' \subseteq created \cup {r} /\ created \subseteq created'
      /\ acted' \subseteq acted \cup {r} /\ acted \subseteq acted'
  BY DEF CreateExperiment, RecordApproval, Provision, Ideate
<1>4. /\ shop' \in [Shops -> [status : {"absent", "draft", "active"}, by : SUBSET Requests]]
      /\ run' \in [Shops -> SUBSET Requests]
      /\ \A c \in Shops : /\ shop'[c].by \subseteq shop[c].by \cup {r}
                          /\ run'[c] \subseteq run[c] \cup {r}
  <2>1. CASE CreateExperiment(r) \/ RecordApproval(r)
    BY <2>1 DEF CreateExperiment, RecordApproval, ConsoleInv, ConsoleTypes
  <2>2. CASE Provision(r)
    <3>1. run' = run
      BY <2>2 DEF Provision
    <3>2. \/ shop' = shop
          \/ shop' = [shop EXCEPT ![b] = [status |-> "draft", by |-> {r}]]
          \/ shop' = [shop EXCEPT ![b].status = "active"]
      BY <2>2 DEF Provision
    <3> HIDE DEF b
    <3>3. CASE shop' = shop
      BY <3>1, <3>3 DEF ConsoleInv, ConsoleTypes
    <3>4. CASE shop' = [shop EXCEPT ![b] = [status |-> "draft", by |-> {r}]]
      BY <3>1, <3>4 DEF ConsoleInv, ConsoleTypes
    <3>5. CASE shop' = [shop EXCEPT ![b].status = "active"]
      <4>1. shop \in [Shops -> [status : {"absent", "draft", "active"}, by : SUBSET Requests]]
        BY DEF ConsoleInv, ConsoleTypes
      <4>2. shop' \in [Shops -> [status : {"absent", "draft", "active"}, by : SUBSET Requests]]
        BY <3>5, <4>1
      <4>3. \A c \in Shops : shop'[c].by = shop[c].by
        BY <3>5, <4>1
      <4>4. run \in [Shops -> SUBSET Requests]
        BY DEF ConsoleInv, ConsoleTypes
      <4> QED
        BY <3>1, <4>2, <4>3, <4>4
    <3> QED
      BY <3>2, <3>3, <3>4, <3>5
  <2>3. CASE Ideate(r)
    BY <2>3 DEF Ideate, ConsoleInv, ConsoleTypes
  <2> QED
    BY <2>1, <2>2, <2>3
<1>5. ConsoleTypes'
  BY <1>1, <1>2, <1>4 DEF ConsoleInv, ConsoleTypes
<1>6. ASSUME NEW q \in Requests
      PROVE  /\ Form(q)' = Form(q) /\ Forwarded(q)' = Forwarded(q)
             /\ q # r => Returned(q)' = Returned(q)
  BY <1>1, <1>2 DEF Form, Forwarded, Returned, IsOp
<1>7. ASSUME NEW q \in Requests PROVE (JourneyInv(q) /\ SwitchInv(q))'
  <2>1. JourneyInv(q)'
    <3>1. CASE q = r
      BY <3>1, <1>1, <1>6 DEF ConsoleInv, JourneyInv, Accepted
    <3>2. CASE q # r
      BY <3>2, <1>1, <1>2, <1>3, <1>4, <1>6 DEF ConsoleInv, JourneyInv, Accepted, Untouched
    <3> QED
      BY <3>1, <3>2
  <2>2. SwitchInv(q)'
    BY <1>1, <1>6 DEF ConsoleInv, SwitchInv
  <2> QED
    BY <2>1, <2>2
<1>8. ASSUME NEW c \in Shops
      PROVE  /\ shop[c].by # {} => shop'[c].by = shop[c].by
             /\ shop[c].by \notin {{}, {r}} => shop'[c] = shop[c]
             /\ shop'[c] # shop[c] => /\ IsOp(r, "seed") /\ c = b /\ shop'[c].by = {r}
                                      /\ Form(r).act # "underfunded"
                                      /\ shop'[c].status = "draft" \/ outcome'[r] = "active"
  <2>1. CASE Provision(r)
    <3>1. shop'[c] # shop[c] => c = b
      BY <2>1 DEF Provision, ConsoleInv, ConsoleTypes
    <3>2. ShopInv(c)
      BY DEF ConsoleInv
    <3>3. CASE shop' = [shop EXCEPT ![b] = [status |-> "draft", by |-> {r}]]
               /\ Form(r).act # "underfunded" /\ shop[b].by = {}
      BY <2>1, <3>1, <3>3 DEF Provision, ConsoleInv, ConsoleTypes
    <3>4. CASE shop[b].by = {r} /\ Return(r, "active")
               /\ shop' = [shop EXCEPT ![b].status = "active"]
      BY <2>1, <3>1, <3>2, <3>4 DEF Provision, Return, ConsoleInv, ConsoleTypes, ShopInv
    <3> QED
      BY <2>1, <3>3, <3>4 DEF Provision
  <2> QED
    BY <2>1 DEF CreateExperiment, RecordApproval, Ideate
<1>9. ASSUME NEW q \in Requests PROVE PortInv(q)'
  <2>0. PortInv(q) /\ Form(q)' = Form(q)
    BY <1>6 DEF ConsoleInv
  <2>1. CASE q # r
    <3>1. /\ outcome'[q] = outcome[q]
          /\ q \in created' <=> q \in created
          /\ q \in acted' <=> q \in acted
      BY <2>1, <1>2, <1>3
    <3>2. outcome[q] \in {"409", "draft", "active"} => Form(q).subject \in Shops
      BY <2>0, <1>1 DEF ConsoleInv, JourneyInv, Untouched, Accepted, PortInv, IsOp
    <3> QED
      BY <2>0, <2>1, <3>1, <3>2, <1>8 DEF PortInv, IsOp
  <2>2. CASE q = r
    <3>0. r \notin created /\ r \notin acted
      BY <2>0, <2>2, <1>1 DEF PortInv
    <3>1. CASE CreateExperiment(r)
      <4>1. /\ Form(r).op = "propose" /\ outcome'[r] \in {"created", "502"}
            /\ outcome'[r] = "created" => r \in created'
            /\ r \notin acted'
        BY <3>0, <3>1 DEF CreateExperiment, Return, ConsoleInv, ConsoleTypes, IsOp
      <4> QED
        BY <2>0, <2>2, <4>1 DEF PortInv, IsOp
    <3>2. CASE RecordApproval(r)
      <4>1. /\ Form(r).op \in {"decide", "approve"} /\ outcome'[r] = "acted"
            /\ r \in acted' /\ r \notin created'
        BY <3>0, <3>2 DEF RecordApproval, Return, ConsoleInv, ConsoleTypes
      <4> QED
        BY <2>0, <2>2, <4>1 DEF PortInv, IsOp
    <3>3. CASE Ideate(r)
      <4>1. /\ Form(r).op = "ideate" /\ outcome'[r] = "streaming"
            /\ r \notin acted' /\ r \notin created'
        BY <3>0, <3>3 DEF Ideate, Return, ConsoleInv, ConsoleTypes, IsOp
      <4> QED
        BY <2>0, <2>2, <4>1 DEF PortInv, IsOp
    <3>4. CASE Provision(r)
      <4>1. /\ Form(r).op = "seed" /\ b \in Shops
            /\ r \notin acted' /\ r \notin created'
        BY <3>0, <3>4, <1>1 DEF Provision, Accepted, IsOp
      <4>2. /\ outcome'[r] \in {"none", "400", "409", "draft", "active"}
            /\ outcome'[r] = "400" => Form(r).act = "underfunded"
            /\ outcome'[r] = "409" => shop'[b].by \notin {{}, {r}}
        BY <3>4, <1>1 DEF Provision, Return, ConsoleInv, ConsoleTypes
      <4>3. outcome'[r] = "draft" => shop'[b] = [status |-> "draft", by |-> {r}]
        <5>1. outcome'[r] = "draft" => shop[b].by = {r} /\ shop' = shop
          BY <3>4, <1>1 DEF Provision, Return, ConsoleInv, ConsoleTypes
        <5>2. shop[b].by = {r} => shop[b].status = "draft"
          BY <1>1, <4>1 DEF ConsoleInv, ShopInv
        <5>3. shop[b] = [status |-> shop[b].status, by |-> shop[b].by]
          BY <4>1 DEF ConsoleInv, ConsoleTypes
        <5> QED
          BY <5>1, <5>2, <5>3
      <4>4. outcome'[r] = "active" => shop'[b] = [status |-> "active", by |-> {r}]
        <5>1. outcome'[r] = "active" =>
                 shop[b].by = {r} /\ shop' = [shop EXCEPT ![b].status = "active"]
          BY <3>4, <1>1 DEF Provision, Return, ConsoleInv, ConsoleTypes
        <5>2. shop[b] \in [status : {"absent", "draft", "active"}, by : SUBSET Requests]
          BY <4>1 DEF ConsoleInv, ConsoleTypes
        <5>3. [shop[b] EXCEPT !.status = "active"] = [status |-> "active", by |-> shop[b].by]
          BY <5>2
        <5> HIDE DEF b
        <5>4. outcome'[r] = "active" => shop'[b] = [shop[b] EXCEPT !.status = "active"]
          BY <4>1, <5>1 DEF ConsoleInv, ConsoleTypes
        <5> QED
          BY <5>1, <5>3, <5>4
      <4> QED
        BY <2>0, <2>2, <4>1, <4>2, <4>3, <4>4 DEF PortInv, IsOp
    <3> QED
      BY <2>2, <3>1, <3>2, <3>3, <3>4
  <2> QED
    BY <2>1, <2>2
<1>10. ASSUME NEW c \in Shops PROVE ShopInv(c)'
  <2>1. ASSUME NEW q \in shop'[c].by
        PROVE  /\ shop'[c].by = {q}
               /\ IsOp(q, "seed")' /\ Form(q)'.subject = c /\ Form(q)'.act # "underfunded"
               /\ shop'[c].status = "draft" \/ outcome'[q] # "none"
    <3>1. q \in Requests /\ Form(q)' = Form(q)
      BY <1>4, <1>6
    <3>2. CASE shop'[c] = shop[c]
      <4>1. outcome[q] # "none" => outcome'[q] # "none"
        BY <1>1, <1>2, <3>1
      <4> QED
        BY <3>1, <3>2, <4>1 DEF ConsoleInv, ShopInv, IsOp
    <3>3. CASE shop'[c] # shop[c]
      BY <3>1, <3>3, <1>8 DEF IsOp
    <3> QED
      BY <3>2, <3>3
  <2>2. ASSUME NEW q \in run'[c] PROVE IsOp(q, "ideate")'
    <3>1. q \in Requests /\ Form(q)' = Form(q)
      BY <1>4, <1>6
    <3>2. q \in run[c] \/ (q = r /\ Ideate(r))
      BY <1>4 DEF CreateExperiment, RecordApproval, Provision
    <3> QED
      BY <3>1, <3>2 DEF ConsoleInv, ShopInv, IsOp, Ideate
  <2> QED
    BY <2>1, <2>2 DEF ShopInv
<1> QED
  BY <1>5, <1>7, <1>9, <1>10 DEF ConsoleInv

LEMMA ConsoleInitially == ConsoleInit => ConsoleInv
<1> SUFFICES ASSUME ConsoleInit PROVE ConsoleInv
  OBVIOUS
<1>1. ConsoleTypes
  BY DEF ConsoleInit, ConsoleTypes, Records, Pages, PortResults, KS!Init
<1>2. ASSUME NEW r \in Requests PROVE JourneyInv(r) /\ SwitchInv(r) /\ PortInv(r)
  BY DEF ConsoleInit, JourneyInv, SwitchInv, PortInv, Untouched, KS!Init
<1>3. ASSUME NEW b \in Shops PROVE ShopInv(b)
  BY DEF ConsoleInit, ShopInv
<1> QED
  BY <1>1, <1>2, <1>3 DEF ConsoleInv

LEMMA ConsolePreserved == ConsoleInv /\ [ConsoleNext]_consoleVars => ConsoleInv'
<1> SUFFICES ASSUME ConsoleInv, [ConsoleNext]_consoleVars PROVE ConsoleInv'
  OBVIOUS
<1>1. ASSUME NEW r \in Requests,
             \/ KillswitchActivate(r) \/ DecisionsAct(r) \/ ExperimentsPropose(r)
             \/ BusinessesSeed(r) \/ ProductApprove(r) \/ GrowthIdeate(r)
      PROVE  ConsoleInv'
  <2>1. CASE KillswitchActivate(r)
    <3> DEFINE good == {f \in Forms : f.text /\ f.valid}
    <3>1. \A f \in good \cap Forms : f.op = "halt" => WellFormed("halt", f)
      BY DEF WellFormed
    <3> QED
      BY <2>1, <3>1, HandleKeeps DEF KillswitchActivate
  <2>2. CASE DecisionsAct(r)
    <3> DEFINE good == {f \in Forms : /\ f.subject \in Pending
                                      /\ f.act \in {"approve", "reject"}
                                      /\ f.act = "reject" => f.text}
    <3>1. \A f \in good \cap Forms : f.op = "decide" => WellFormed("decide", f)
      BY DEF WellFormed
    <3> QED
      BY <2>2, <3>1, HandleKeeps DEF DecisionsAct
  <2>3. CASE ExperimentsPropose(r)
    <3> DEFINE good == {f \in Forms : Proposable(f)}
    <3>1. \A f \in good \cap Forms : f.op = "propose" => WellFormed("propose", f)
      BY DEF WellFormed, Proposable
    <3> QED
      BY <2>3, <3>1, HandleKeeps DEF ExperimentsPropose
  <2>4. CASE BusinessesSeed(r)
    <3> DEFINE good == {f \in Forms : Seedable(f)}
    <3>1. \A f \in good \cap Forms : f.op = "seed" => WellFormed("seed", f)
      BY FormsAssumption DEF WellFormed, Seedable
    <3> QED
      BY <2>4, <3>1, HandleKeeps DEF BusinessesSeed
  <2>5. CASE ProductApprove(r)
    <3>1. \A f \in Forms \cap Forms : f.op = "approve" => WellFormed("approve", f)
      BY DEF WellFormed
    <3> QED
      BY <2>5, <3>1, HandleKeeps DEF ProductApprove
  <2>6. CASE GrowthIdeate(r)
    <3>1. \A f \in Forms \cap Forms : f.op = "ideate" => WellFormed("ideate", f)
      BY DEF WellFormed
    <3> QED
      BY <2>6, <3>1, HandleKeeps DEF GrowthIdeate
  <2> QED
    BY <1>1, <2>1, <2>2, <2>3, <2>4, <2>5, <2>6
<1>2. ASSUME NEW b \in Shops, EndRun(b)
      PROVE  ConsoleInv'
  <2>1. /\ UNCHANGED <<request, outcome, order, step, flagged, revoked, recorded, created, acted, shop>>
        /\ run' \in [Shops -> SUBSET Requests]
        /\ \A c \in Shops : run'[c] \subseteq run[c]
    BY <1>2 DEF EndRun, switchVars, ConsoleInv, ConsoleTypes
  <2>2. ConsoleTypes'
    BY <2>1 DEF ConsoleInv, ConsoleTypes
  <2>3. ASSUME NEW r \in Requests PROVE (JourneyInv(r) /\ SwitchInv(r) /\ PortInv(r))'
    BY <2>1 DEF ConsoleInv, JourneyInv, SwitchInv, PortInv, Untouched, Returned, Form, IsOp,
       Accepted, Forwarded
  <2>4. ASSUME NEW c \in Shops PROVE ShopInv(c)'
    BY <2>1 DEF ConsoleInv, ShopInv, Form, IsOp
  <2> QED
    BY <2>2, <2>3, <2>4 DEF ConsoleInv
<1>3. CASE UNCHANGED consoleVars
  BY <1>3 DEF consoleVars, switchVars, ConsoleInv, ConsoleTypes, JourneyInv, SwitchInv, PortInv,
     ShopInv, Untouched, Returned, Form, IsOp, Accepted, Forwarded
<1> QED
  BY <1>1, <1>2, <1>3, PagesKeep, DirectKeeps, ActivationsKeep, PortsKeep DEF ConsoleNext

\* Nothing is halted, created, approved or founded but on the word of somebody
\* entitled, and nothing ideates but for a signed person (auth.py, app.py,
\* killswitch_port.py).
THEOREM OnlyTheEntitledAct == ConsoleSpec => []OnlyEntitledAct
<1>1. ConsoleInv => OnlyEntitledAct
  <2> SUFFICES ASSUME ConsoleInv PROVE OnlyEntitledAct
    OBVIOUS
  <2>1. ASSUME NEW r \in Requests, Effect(r)
        PROVE  /\ MayAct(request[r].caller) /\ ~ request[r].cross /\ Deliberate(Form(r))
    <3>1. JourneyInv(r) /\ SwitchInv(r) /\ PortInv(r) /\ \A b \in Shops : ShopInv(b)
      BY DEF ConsoleInv
    <3>2. Accepted(r)
      BY <2>1, <3>1 DEF JourneyInv, Untouched, Effect
    <3>3. CASE r \in flagged
      <4>1. Form(r).op \in {"halt", "direct"} /\ Forwarded(r).authorized
        BY <3>1, <3>3 DEF SwitchInv
      <4>2. Form(r).op = "direct" => MayAct(request[r].caller)
        BY <4>1 DEF Forwarded, IsOp
      <4> QED
        BY <3>2, <4>1, <4>2 DEF Accepted, MayAct, Deliberate
    <3>4. CASE r \in created
      BY <3>1, <3>2, <3>4 DEF PortInv, IsOp, Accepted, MayAct, Deliberate
    <3>5. CASE r \in acted
      BY <3>1, <3>2, <3>5 DEF PortInv, IsOp, Accepted, MayAct, Deliberate
    <3>6. ASSUME NEW b \in Shops, r \in shop[b].by
          PROVE  /\ MayAct(request[r].caller) /\ ~ request[r].cross /\ Deliberate(Form(r))
      BY <3>1, <3>2, <3>6 DEF ShopInv, IsOp, Accepted, MayAct, Deliberate
    <3> QED
      BY <2>1, <3>3, <3>4, <3>5, <3>6 DEF Effect
  <2>2. ASSUME NEW b \in Shops, NEW r \in run[b]
        PROVE  Verified(request[r].caller)
    <3>1. r \in Requests /\ IsOp(r, "ideate")
      BY DEF ConsoleInv, ConsoleTypes, ShopInv
    <3> QED
      BY <3>1 DEF ConsoleInv, JourneyInv, Untouched, Accepted, IsOp
  <2> QED
    BY <2>1, <2>2 DEF OnlyEntitledAct
<1> QED
  BY <1>1, ConsoleInitially, ConsolePreserved, PTL DEF ConsoleSpec

\* A page never claims what is not so, nor a refusal what has happened: the
\* port's result is in its store before the page is made, and a service that
\* timed out cannot undo it (app.py, the ports).
THEOREM PagesAreTruthful == ConsoleSpec => []PagesTellTheTruth
<1>1. ConsoleInv => PagesTellTheTruth
  <2> SUFFICES ASSUME ConsoleInv, NEW r \in Requests
               PROVE  LET page == request[r].page
                          b == Form(r).subject
                      IN  /\ page = "activated" =>
                                /\ r \in flagged \cap recorded
                                /\ KS!ToRevoke(order[r]) \subseteq revoked
                          /\ page = "created" => r \in created
                          /\ page = "acted" => r \in acted
                          /\ page \in {"draft", "active"} => shop[b] = [status |-> page, by |-> {r}]
                          /\ page = "409" => shop[b].by \notin {{}, {r}}
                          /\ page \in {"400", "401", "403"} => ~ Effect(r)
    BY DEF PagesTellTheTruth
  <2>1. JourneyInv(r) /\ SwitchInv(r) /\ PortInv(r) /\ \A b \in Shops : ShopInv(b)
    BY DEF ConsoleInv
  <2>2. outcome[r] \in PortResults
    BY DEF ConsoleInv, ConsoleTypes
  <2>3. CASE Untouched(r) /\ request[r].page \in {"none", "400", "401", "403"}
    BY <2>3 DEF Untouched, Effect
  <2>4. CASE request[r].page \in {"none", "500"}
    BY <2>4
  <2>5. CASE request[r].page = Returned(r)
    <3>1. CASE Form(r).op \in {"halt", "direct"}
      <4>1. Returned(r) \in {"activated", "403", "502", "none"}
        BY <3>1 DEF Returned
      <4>2. Returned(r) = "activated" => step[r] = "done"
        BY <3>1 DEF Returned
      <4>3. Returned(r) = "403" => r \notin flagged
        BY <3>1, <2>1 DEF Returned, SwitchInv
      <4>4. r \notin created /\ r \notin acted /\ \A b \in Shops : r \notin shop[b].by
        BY <3>1, <2>1 DEF PortInv, ShopInv, IsOp
      <4> QED
        BY <2>1, <2>5, <4>1, <4>2, <4>3, <4>4 DEF SwitchInv, Effect
    <3>2. CASE Form(r).op \notin {"halt", "direct"}
      <4>1. Returned(r) = outcome[r]
        BY <3>2 DEF Returned
      <4>2. outcome[r] = "400" => ~ Effect(r)
        BY <2>1, <3>2 DEF PortInv, ShopInv, SwitchInv, Effect, IsOp
      <4> QED
        BY <2>1, <2>2, <2>5, <4>1, <4>2 DEF PortInv, PortResults
    <3> QED
      BY <3>1, <3>2
  <2> QED
    BY <2>1, <2>3, <2>4, <2>5 DEF JourneyInv
<1> QED
  BY <1>1, ConsoleInitially, ConsolePreserved, PTL DEF ConsoleSpec

----------------------------------------------------------------------------
(* What the charter promises, for all rules, dependencies and versions.    *)

\* extend() always makes a consistent extension: nothing of the charter before
\* is dropped, recoloured or renumbered downwards.
THEOREM ExtensionIsConsistent ==
  ASSUME NEW Stacks, NEW Rules, NEW Deps, NEW c \in Charters(Stacks, Rules, Deps),
         NEW rules \in SUBSET Rules, NEW deps \in SUBSET Deps
  PROVE  /\ Extended(c, rules, deps) \in Charters(Stacks, Rules, Deps)
         /\ Extended(c, rules, deps).stack = c.stack
         /\ IsConsistentExtension(c, Extended(c, rules, deps))
<1> DEFINE x == Extended(c, rules, deps)
<1>1. /\ x.business = c.business /\ x.tokens = c.tokens /\ x.version = c.version + 1
      /\ x.stack = c.stack
      /\ x.rules = c.rules \cup rules /\ x.deps = c.deps \cup deps
  BY DEF Charters, Extended
<1>2. c.version \in Nat /\ c.version + 1 > c.version /\ c.version + 1 \in Nat \ {0}
  BY DEF Charters
<1>3. IsConsistentExtension(c, x)
  BY <1>1, <1>2 DEF IsConsistentExtension
<1>4. x \in Charters(Stacks, Rules, Deps)
  <2>1. /\ c.business \in Slugs /\ c.tokens \in Slugs /\ c.stack \in Stacks
        /\ c.rules \cup rules \in SUBSET Rules /\ c.deps \cup deps \in SUBSET Deps
    BY DEF Charters
  <2> QED
    BY <2>1, <1>2 DEF Charters, Extended
<1> QED
  BY <1>1, <1>3, <1>4

\* Consistency survives any number of extensions: is_consistent_extension() is
\* transitive, so a check against the version before is a check against all.
THEOREM ConsistencyIsTransitive ==
  ASSUME NEW Stacks, NEW Rules, NEW Deps, NEW c \in Charters(Stacks, Rules, Deps),
         NEW d \in Charters(Stacks, Rules, Deps), NEW e \in Charters(Stacks, Rules, Deps),
         IsConsistentExtension(c, d), IsConsistentExtension(d, e)
  PROVE  IsConsistentExtension(c, e)
  BY DEF Charters, IsConsistentExtension

\* A product that conformed once can later be held only to rules added since:
\* never to its look, its dependencies or the version it was built against.
THEOREM OnlyNewRulesCanFail ==
  ASSUME NEW Stacks, NEW Rules, NEW Deps, NEW c \in Charters(Stacks, Rules, Deps),
         NEW d \in Charters(Stacks, Rules, Deps), IsConsistentExtension(c, d),
         NEW a \in [theme : Slugs, deps : SUBSET Deps, rules : SUBSET Rules, version : Nat],
         Conforms(a, c)
  PROVE  Conforms(a, d) <=> d.rules \subseteq a.rules
  BY DEF Charters, IsConsistentExtension, Conforms

\* promote_initiative() answers whatever business it is given: it refuses for
\* the tenant bind and for nothing else, it raises for a malformed business id
\* and for nothing else, and the conformance gate never stops its own scaffold
\* as long as the scaffold's dependencies are among the default ones.
THEOREM ScaffoldsConform ==
  ASSUME NEW Names, NEW i \in [business : Names \cup {NoBusiness}, slug : Names],
         NEW serves, ScaffoldDeps \subseteq DefaultDeps
  PROVE  LET b == BusinessOf(i)
             unbound == Kind(i) = "extension" /\ b \notin serves
             answer == PromoteInitiative(i, serves).answer
         IN  /\ answer = "refused" <=> unbound
             /\ answer = "failed" <=> ~ unbound /\ b \notin Slugs
             /\ answer = "promoted" => PromoteInitiative(i, serves).business = b
<1> DEFINE b == BusinessOf(i)
           unbound == Kind(i) = "extension" /\ b \notin serves
           p == PromoteInitiative(i, serves)
<1>1. LET c == [FirstCharter(b) EXCEPT !.tokens = DefaultBlueprint(b).tokens]
      IN  Conforms(Artifact(c), c)
  BY DEF FirstCharter, DefaultBlueprint, Artifact, Conforms
<1>2. CASE unbound
  BY <1>2 DEF PromoteInitiative, Refused
<1>3. CASE ~ unbound /\ b \notin Slugs
  BY <1>3 DEF PromoteInitiative, Failed
<1>4. CASE ~ unbound /\ b \in Slugs
  <2>1. p = [answer |-> "promoted", business |-> b]
    BY <1>1, <1>4 DEF PromoteInitiative
  <2> QED
    BY <1>4, <2>1
<1> QED
  BY <1>2, <1>3, <1>4

\* A product model never moves a product to another business, and its scaffold
\* always passes the conformance gate, also that of the business's first
\* charter; but a look of its own can belong to no version of that charter: the
\* gate compares the theme's name and not its colours (blueprint.py, charter.py).
THEOREM LooksAreNotGated ==
  ASSUME NEW b \in Slugs, ScaffoldDeps \subseteq DefaultDeps,
         NEW answer \in [abstains : BOOLEAN, malformed : BOOLEAN, tokens : Slugs]
  PROVE  LET product == Blueprint(b, answer)
             c == [FirstCharter(b) EXCEPT !.tokens = product.tokens]
         IN  /\ product.business = b
             /\ Conforms(Artifact(c), c) /\ Conforms(Artifact(c), FirstCharter(b))
             /\ product.tokens # b =>
                   \A new : new.tokens = product.tokens =>
                              ~ IsConsistentExtension(FirstCharter(b), new)
<1> DEFINE product == Blueprint(b, answer)
           c == [FirstCharter(b) EXCEPT !.tokens = product.tokens]
<1>1. product.business = b
  BY DEF Blueprint, DefaultBlueprint
<1>2. /\ c.business = b /\ c.version = 1 /\ c.rules = DefaultRules /\ c.deps = DefaultDeps
      /\ FirstCharter(b).tokens = b
  BY DEF FirstCharter
<1>3. Conforms(Artifact(c), c) /\ Conforms(Artifact(c), FirstCharter(b))
  BY <1>2 DEF Conforms, Artifact, FirstCharter
<1>4. ASSUME product.tokens # b, NEW new, new.tokens = product.tokens
      PROVE  ~ IsConsistentExtension(FirstCharter(b), new)
  BY <1>2, <1>4 DEF IsConsistentExtension
<1> QED
  BY <1>1, <1>3, <1>4

----------------------------------------------------------------------------
(* What check() buys the erasure plan, and a playbook its reader, for      *)
(* inventories and winners of any size.                                    *)

\* A record in which check() finds no fault never refuses an erasure without a
\* lawful basis and a retention policy to show for it (dsar.py, evidenced).
THEOREM RefusalsAreEvidenced ==
  ASSUME NEW inv, None(RecordFaults(inv))
  PROVE  Evidenced(inv)
<1>1. RecordFaults(inv).baseless = {} /\ RecordFaults(inv).unlimited = {}
  BY DEF None, RecordFaults
<1>2. /\ At(inv, LAMBDA r : r.class \in NeedsBasis /\ r.basis = Missing) = {}
      /\ At(inv, LAMBDA r : r.policy = Missing) = {}
  BY <1>1 DEF RecordFaults
<1>3. \A i \in DOMAIN inv.records :
          /\ ~ (inv.records[i].class \in NeedsBasis /\ inv.records[i].basis = Missing)
          /\ inv.records[i].policy # Missing
  BY <1>2 DEF At
<1> QED
  BY <1>3 DEF Evidenced, Retained, At, NeedsBasis

\* Such a record decides each element once: what is erased is not kept under
\* hold as well.  The rule against duplicates is what this takes (ropa.py).
THEOREM ErasedOrRetained ==
  ASSUME NEW inv, NEW Entries, inv.records \in Seq(Entries), None(RecordFaults(inv)),
         NEW i \in Erased(inv), NEW j \in Retained(inv)
  PROVE  inv.records[i].element # inv.records[j].element
<1> SUFFICES ASSUME inv.records[i].element = inv.records[j].element
             PROVE  FALSE
  OBVIOUS
<1>1. i \in DOMAIN inv.records /\ j \in DOMAIN inv.records /\ i # j
  BY DEF Erased, Retained, At
<1>2. DOMAIN inv.records = 1..Len(inv.records) /\ Len(inv.records) \in Nat
  OBVIOUS
<1>3. RecordFaults(inv).duplicate = {}
  BY DEF None, RecordFaults
<1>4. \A k \in DOMAIN inv.records : \A l \in 1..(k - 1) :
          inv.records[l].element # inv.records[k].element
  BY <1>3 DEF RecordFaults
<1>5. i \in 1..(j - 1) \/ j \in 1..(i - 1)
  BY <1>1, <1>2
<1> QED
  BY <1>1, <1>4, <1>5

\* In a compliant system a personal event stands on a basis of its own or on a
\* record that has one, and is then kept under a policy that exists.
THEOREM EventsStandOnRecords ==
  ASSUME NEW inv, NEW code, NEW events, Compliant(inv, code, events),
         NEW e \in events, e.class = "personal", ~ e.inline
  PROVE  /\ e.policy \in inv.policies
         /\ \E i \in DOMAIN inv.records :
               /\ inv.records[i].class = "personal" /\ inv.records[i].basis # Missing
               /\ inv.records[i].policy = e.policy
<1>1. e.policy \in Backed(inv)
  <2>1. EventFaults(inv, events).baseless = {}
    BY DEF Compliant, None, EventFaults
  <2> QED
    BY <2>1 DEF EventFaults, NeedsBasis
<1>2. PICK i \in DOMAIN inv.records :
          /\ inv.records[i].class \in NeedsBasis /\ inv.records[i].basis # Missing
          /\ inv.records[i].policy # Missing /\ inv.records[i].policy = e.policy
  BY <1>1 DEF Backed, At
<1>3. At(inv, LAMBDA r : r.policy \notin inv.policies \cup {Missing}) = {}
  BY DEF Compliant, None, RecordFaults
<1>4. inv.records[i].policy \in inv.policies
  BY <1>2, <1>3 DEF At
<1> QED
  BY <1>2, <1>4 DEF NeedsBasis

----------------------------------------------------------------------------
\* A winner who lists no module twice.
ListsOnce(modules) == \A j, k \in DOMAIN modules : modules[j] = modules[k] => j = k

\* Then the listings of a module are no more than its users.
LEMMA ListingsAreUsers ==
  ASSUME NEW n \in Nat, NEW winners, DOMAIN winners = 1..n, NEW m,
         \A i \in 1..n : ListsOnce(winners[i])
  PROVE  /\ IsFiniteSet(Users(winners, m)) /\ IsFiniteSet(Listings(winners, m))
         /\ Cardinality(Listings(winners, m)) <= Cardinality(Users(winners, m))
<1> DEFINE L == Listings(winners, m)
           U == Users(winners, m)
           f == [x \in L |-> x[1]]
<1>1. IsFiniteSet(U)
  BY FS_Interval, FS_Subset DEF Users
<1>2. \A x \in L : \E i \in 1..n : \E j \in DOMAIN winners[i] : x = <<i, j>> /\ winners[i][j] = m
  BY DEF Listings
<1>3. \A x \in L : f[x] \in U
  <2> TAKE x \in L
  <2>1. PICK i \in 1..n : \E j \in DOMAIN winners[i] : x = <<i, j>> /\ winners[i][j] = m
    BY <1>2
  <2> QED
    BY <2>1 DEF Users
<1>4. ASSUME NEW x \in L, NEW y \in L, x[1] = y[1]
      PROVE  x = y
  <2>1. PICK i \in 1..n : \E j \in DOMAIN winners[i] : x = <<i, j>> /\ winners[i][j] = m
    BY <1>2
  <2>2. PICK k \in 1..n : \E j \in DOMAIN winners[k] : y = <<k, j>> /\ winners[k][j] = m
    BY <1>2
  <2>3. i = k
    BY <2>1, <2>2, <1>4
  <2> QED
    BY <2>1, <2>2, <2>3 DEF ListsOnce
<1>5. f \in Injection(L, U)
  BY <1>3, <1>4 DEF Injection, IsInjective
<1> QED
  BY <1>1, <1>5, FS_Injection

\* Any two recommended modules have run together in some winner, so a business
\* started from a playbook never gets a pair that no winner has tried.
THEOREM RecommendedModulesMet ==
  ASSUME NEW M, NEW winners \in Seq(Seq(M)),
         \A i \in DOMAIN winners : ListsOnce(winners[i]),
         NEW m \in Recommended(winners, M), NEW k \in Recommended(winners, M)
  PROVE  Users(winners, m) \cap Users(winners, k) # {}
<1> DEFINE n == Len(winners)
<1>1. n \in Nat /\ DOMAIN winners = 1..n
  OBVIOUS
<1>2. IsFiniteSet(1..n) /\ Cardinality(1..n) = n
  BY <1>1, FS_Interval
<1>3. ASSUME NEW x \in Recommended(winners, M)
      PROVE  /\ Users(winners, x) \subseteq 1..n
             /\ Cardinality(Users(winners, x)) \in Nat
             /\ 2 * Cardinality(Users(winners, x)) > n
  <2>1. /\ IsFiniteSet(Users(winners, x)) /\ Cardinality(Users(winners, x)) \in Nat
        /\ Cardinality(Listings(winners, x)) \in Nat
        /\ Cardinality(Listings(winners, x)) <= Cardinality(Users(winners, x))
    BY <1>1, ListingsAreUsers, FS_CardinalityType
  <2>2. Cardinality(Listings(winners, x)) >= (n \div 2) + 1
    BY DEF Recommended, Majority
  <2>3. 2 * ((n \div 2) + 1) > n
    BY <1>1
  <2>4. Users(winners, x) \subseteq 1..n
    BY <1>1 DEF Users
  <2> HIDE DEF n
  <2> QED
    BY <1>1, <2>1, <2>2, <2>3, <2>4
<1>4. Cardinality(Users(winners, m)) + Cardinality(Users(winners, k)) > Cardinality(1..n)
  BY <1>1, <1>2, <1>3
<1> QED
  BY <1>2, <1>3, <1>4, FS_MajoritiesIntersect
================================================================================
