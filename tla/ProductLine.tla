----------------------------- MODULE ProductLine -----------------------------
(***************************************************************************)
(* Product engineering (ab_product): initiatives travel a gated pipeline   *)
(* (pipeline.py, compliance.py), are kept in table product_initiatives and *)
(* announced on the bus (store.py).                                        *)
(*                                                                         *)
(* Operators and agents work on a PipelineState in memory: they read it or *)
(* create it, apply any number of transitions, and save() what they have.  *)
(* save() writes whatever the row holds by then.                           *)
(***************************************************************************)
EXTENDS Integers, Sequences, FiniteSets

CONSTANTS
    Initiatives,
    Operators,       \* whoever drives initiatives through the pipeline
    Nobody,
    MaxChanges       \* bound: writes to a row

ASSUME ProductAssumption == Nobody \notin Initiatives /\ MaxChanges \in Nat

VARIABLES
    personal,        \* initiatives that mention personal data: requires_dpia()
    row,             \* row[i]: the stored PipelineState, or NoState
    changes,         \* history: changes[i], how often row[i] was written
    hand,            \* hand[o] = [id, state, base]: what operator o works on,
                     \* and how many changes its row had when o read it
    sending          \* sending[o]: the initiative o has still to announce
productVars == <<personal, row, changes, hand, sending>>

----------------------------------------------------------------------------
(* The pipeline.                                                           *)

Order == <<"intake", "spec", "design", "dpia", "blueprint", "scaffold", "qa",
           "launch", "launched">>
Human == {"dpia", "launch"}
Position(stage) == CHOOSE n \in DOMAIN Order : Order[n] = stage
Before(stage) == {Order[n] : n \in 1..(Position(stage) - 1)}

\* A PipelineState; past (history) tells how the stages before it were left.
NoState == [stage |-> "none", status |-> "none", reason |-> "none", past |-> {}]
Start == [stage |-> "intake", status |-> "in_progress", reason |-> "none", past |-> {}]
Said(s) == [stage |-> s.stage, status |-> s.status, reason |-> s.reason]

StatusFor(stage) ==
    CASE stage = "launched" -> "launched"
      [] stage \in Human -> "awaiting_human"
      [] OTHER -> "in_progress"

\* The state after leaving the stage of s through its gate.
Enter(s, how, reason) ==
    LET next == Order[Position(s.stage) + 1]
    IN  [stage |-> next, status |-> StatusFor(next), reason |-> reason,
         past |-> s.past \cup {<<s.stage, how>>}]

\* Mutant: a halted initiative is advanced as well.
CanAdvance_Halted(s) == s.status \in {"in_progress", "halted"} /\ s.stage \notin Human
CanAdvance(s) == s.status = "in_progress" /\ s.stage \notin Human
Halt(s) ==
    [stage |-> s.stage, status |-> "halted", reason |-> "failed", past |-> s.past]

\* Mutant: a plain approval opens any human gate.
CanApprove_AnyGate(s) == s.status = "awaiting_human"
\* approve_human(): not for the DPIA.
CanApprove(s) == s.status = "awaiting_human" /\ s.stage # "dpia"

----------------------------------------------------------------------------
(* The store.                                                              *)

\* The row is inserted or differs: IS DISTINCT FROM.
Changes(i, s) == Said(row[i]) # Said(s)

Idle == [id |-> Nobody, state |-> NoState, base |-> 0]
Free(o) == sending[o] = Nobody
Holds(o, i, s, n) == hand' = [hand EXCEPT ![o] = [id |-> i, state |-> s, base |-> n]]

\* Writes s and leaves the event to publish, if the row changes.
Persist(o, i, s) ==
    IF ~ Changes(i, s) THEN UNCHANGED <<row, changes, sending>>
    ELSE /\ changes[i] < MaxChanges
         /\ row' = [row EXCEPT ![i] = s]
         /\ changes' = [changes EXCEPT ![i] = @ + 1]
         /\ sending' = [sending EXCEPT ![o] = i]

\* create(): an initiative that exists is left alone, but the state at intake
\* is returned all the same.
Create(o, i) ==
    /\ Free(o)
    /\ IF row[i] = NoState THEN Persist(o, i, Start)
       ELSE UNCHANGED <<row, changes, sending>>
    /\ Holds(o, i, Start, IF row[i] = NoState THEN 1 ELSE 0)
    /\ UNCHANGED personal

\* get()
Get(o, i) ==
    /\ Free(o) /\ row[i] # NoState
    /\ Holds(o, i, row[i], changes[i])
    /\ UNCHANGED <<personal, row, changes, sending>>

\* save(): whatever happened to the row since the state was read.
Save(o) ==
    LET i == hand[o].id
        s == hand[o].state
    IN
    /\ Free(o) /\ hand[o] # Idle
    /\ Persist(o, i, s)
    /\ Holds(o, i, s, changes[i] + IF Changes(i, s) THEN 1 ELSE 0)
    /\ UNCHANGED personal

\* publish_event() after the commit; lost if the process dies first, or if the
\* producer gives up.
Publish(o) ==
    /\ ~ Free(o)
    /\ sending' = [sending EXCEPT ![o] = Nobody]
    /\ UNCHANGED <<personal, row, changes, hand>>

----------------------------------------------------------------------------
(* Transitions, in memory.                                                 *)

Becomes(o, s) ==
    /\ hand' = [hand EXCEPT ![o].state = s]
    /\ UNCHANGED <<personal, row, changes, sending>>

\* advance(): the gate passes or fails.
Advance(o) ==
    LET s == hand[o].state IN
    /\ Free(o) /\ hand[o] # Idle /\ CanAdvance(s)
    /\ Becomes(o, Enter(s, "gate", "none")) \/ Becomes(o, Halt(s))

Approve(o) ==
    LET s == hand[o].state IN
    /\ Free(o) /\ hand[o] # Idle /\ CanApprove(s)
    /\ Becomes(o, Enter(s, "approved", "approved"))

\* clear_dpia(): without an approver, personal data stays at the gate.
ClearDpia(o) ==
    LET s == hand[o].state IN
    /\ Free(o) /\ hand[o] # Idle /\ s.stage = "dpia"
    /\ \/ hand[o].id \notin personal /\ Becomes(o, Enter(s, "exempt", "exempt"))
       \/ hand[o].id \in personal /\ Becomes(o, Enter(s, "signed", "signed"))

----------------------------------------------------------------------------
ProductInit ==
    /\ personal \in SUBSET Initiatives
    /\ row = [i \in Initiatives |-> NoState]
    /\ changes = [i \in Initiatives |-> 0]
    /\ hand = [o \in Operators |-> Idle]
    /\ sending = [o \in Operators |-> Nobody]

ProductNext ==
    \E o \in Operators :
        \/ \E i \in Initiatives : Create(o, i) \/ Get(o, i)
        \/ Advance(o) \/ Approve(o) \/ ClearDpia(o) \/ Save(o) \/ Publish(o)

ProductSpec == ProductInit /\ [][ProductNext]_productVars

----------------------------------------------------------------------------
(* Properties.                                                             *)

\* Whatever operators save over each other, an initiative stands where it does
\* because every stage before was left through its own gate: the DPIA with a
\* signature if personal data is processed, the launch with a person's
\* approval (pipeline.py, compliance.py).
GatesWerePassed ==
    \A i \in Initiatives : row[i] # NoState =>
        /\ {p[1] : p \in row[i].past} = Before(row[i].stage)
        /\ \A p \in row[i].past :
              /\ p[1] = "launch" => p[2] = "approved"
              /\ p[1] = "dpia" => p[2] = IF i \in personal THEN "signed" ELSE "exempt"

\* A halted or launched initiative moves on only because somebody saves a
\* state that was read before it was halted or launched (save() in store.py,
\* advance() and approve_human() in pipeline.py).
SettledUnlessStale ==
    [][\A i \in Initiatives :
          row[i].status \in {"halted", "launched"} /\ row'[i] # row[i] =>
              \E o \in Operators :
                  sending'[o] # sending[o] /\ hand[o].id = i /\ hand[o].base # changes[i]]_productVars
==============================================================================
