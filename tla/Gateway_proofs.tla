---------------------------- MODULE Gateway_proofs ---------------------------
(***************************************************************************)
(* Proofs about Gateway for every set of calls, requests, grants,          *)
(* businesses, activations and orders.  The ledger's rules are not         *)
(* expanded, nor are the sums.                                             *)
(***************************************************************************)
EXTENDS Gateway, Sums

AfterInsert == {"publish", "audit", "emit", "ok"}
AfterDispatch == {"runway", "spend", "insert"} \cup AfterInsert
AfterAdmission == {"dispatch"} \cup AfterDispatch

\* The side effect of an allowed call: its own row, or the row of another call
\* under the same id, or a promotion, which has no row.
SharesRow(c) ==
    \E d \in rows :
        Tool(d) = Tool(c) /\ Tool(c) # Experiment /\ req[d].id = req[c].id
HasEffect(c) == c \in rows \/ SharesRow(c) \/ Tool(c) = Promote

\* What the handler has established when it reaches a step.
EstablishedFor(c) ==
    /\ Received(c) /\ pc[c] # "unauthenticated" => req[c].principal # NoOne
    /\ pc[c] \in AfterAdmission => Admitted(req[c])
    /\ pc[c] \in AfterDispatch => WellFormed(req[c]) /\ ~ Refuses(req[c])
    /\ pc[c] = "emit" => Tool(c) = Write
    /\ pc[c] = "publish" =>
          Tool(c) = Promote \/ (Tool(c) \in {Pay, Experiment} /\ c \in rows)
    /\ pc[c] \in {"audit", "emit", "ok"} => HasEffect(c)
Established == \A c \in Calls : EstablishedFor(c)

\* Where the handlers of the calls with a row, an event or a record are.
InOrder(c) ==
    /\ c \in rows => pc[c] \in AfterInsert \cup {"failed"}
    /\ c \in events => pc[c] \in {"audit", "emit", "ok", "failed"}
    /\ Logged(c, "allow") => pc[c] \in {"emit", "ok", "failed"} /\ HasEffect(c)
    /\ Logged(c, "deny") => pc[c] = "denied"
    /\ pc[c] \in {"emit", "ok"} => Logged(c, "allow")
    /\ pc[c] = "denied" => Logged(c, "deny")
EffectsInOrder == \A c \in Calls : InOrder(c)

\* An activation in force has been received, so its order no longer changes.
FlagsStand ==
    /\ DOMAIN order = Activations
    /\ DOMAIN step = Activations
    /\ \A o \in flagged : o \in Activations /\ step[o] # "idle"

\* A call that came in late is still late, and stops at one of the two checks.
LateStop(c) ==
    c \in late =>
        /\ Received(c)
        /\ Halted(req[c].principal)
        /\ pc[c] \in {"revocation", "killswitch", "deny", "denied", "failed"}
        /\ pc[c] = "killswitch" => Control!IsKilled(req[c].principal)
        /\ c \notin rows \cup events /\ ~ Logged(c, "allow")
LateStops == \A c \in Calls : LateStop(c)

\* A call for a killed business stops at the readiness gate.
LateForStop(c) ==
    c \in lateFor =>
        /\ Received(c)
        /\ Control!IsKilled(Business(c))
        /\ NeedsRunway(req[c]) =>
              pc[c] \notin {"insert"} \cup AfterInsert /\ c \notin rows \cup events
LateForStops == \A c \in Calls : LateForStop(c)

\* A table has one row per decision_id, notification_id or idempotency key.
AtMostOncePerKey ==
    \A c, d \in rows :
        Tool(c) = Tool(d) /\ Tool(c) # Experiment /\ req[c].id = req[d].id
            => c = d

IInv ==
    /\ TypeOK
    /\ Established
    /\ EffectsInOrder
    /\ AtMostOncePerKey
    /\ AnnouncedMeansDone
    /\ EffectsWereGoverned
    /\ FlagsStand
    /\ LateStops
    /\ LateForStops

\* The initial state satisfies the inductive invariant.
LEMMA InitIInv == Init => IInv
  BY DEF Init, IInv, TypeOK, Established, EstablishedFor, EffectsInOrder,
         InOrder, LateStop, LateForStop, AtMostOncePerKey,
         AnnouncedMeansDone, EffectsWereGoverned, FlagsStand, LateStops,
         LateForStops, Received, Logged, Steps, AfterAdmission, AfterDispatch,
         AfterInsert, Control!Init

\* No step of the kill switch lifts a halt.
LEMMA HaltsStay ==
  ASSUME FlagsStand, Control!Next \/ UNCHANGED haltVars
  PROVE  /\ FlagsStand'
         /\ \A p : Control!IsKilled(p) => Control!IsKilled(p)'
         /\ \A p : Control!IsRevoked(p) => Control!IsRevoked(p)'
<1> USE DEF FlagsStand, Control!IsKilled, Control!IsRevoked
<1>1. CASE UNCHANGED haltVars
  BY <1>1 DEF haltVars
<1>2. ASSUME NEW o \in Activations, Control!Receive(o)
      PROVE  /\ FlagsStand'
             /\ \A p : Control!IsKilled(p) => Control!IsKilled(p)'
             /\ revoked \subseteq revoked'
  BY <1>2 DEF Control!Receive, Control!Goto
<1>3. ASSUME NEW o \in Activations, Control!SetFlag(o)
      PROVE  /\ FlagsStand'
             /\ \A p : Control!IsKilled(p) => Control!IsKilled(p)'
             /\ revoked \subseteq revoked'
  BY <1>3 DEF Control!SetFlag, Control!Goto
<1>4. ASSUME NEW o \in Activations,
             Control!Revoke(o) \/ Control!Record(o) \/ Control!Publish(o)
                 \/ Control!Die(o)
      PROVE  /\ FlagsStand'
             /\ \A p : Control!IsKilled(p) => Control!IsKilled(p)'
             /\ revoked \subseteq revoked'
  BY <1>4 DEF Control!Revoke, Control!Record, Control!Publish, Control!Die,
              Control!Goto
<1>5. ASSUME NEW q \in Revocable, Control!RevokeAgent(q)
      PROVE  /\ FlagsStand'
             /\ \A p : Control!IsKilled(p) => Control!IsKilled(p)'
             /\ revoked \subseteq revoked'
  BY <1>5 DEF Control!RevokeAgent
<1> QED
  BY <1>1, <1>2, <1>3, <1>4, <1>5 DEF Control!Next

\* Every step keeps the types.
LEMMA NextTypeOK == TypeOK /\ [Next]_vars => TypeOK'
<1> SUFFICES ASSUME TypeOK, [Next]_vars PROVE TypeOK'
  OBVIOUS
<1> USE DEF TypeOK, Steps, Outcomes, Received, Goto, At, Moves
<1>1. CASE UNCHANGED callVars
  BY <1>1 DEF callVars
<1>2. ASSUME NEW c \in Calls, Receive(c) PROVE TypeOK'
  BY <1>2, NoRequestAssumption DEF Receive
<1>3. ASSUME NEW c \in Calls,
             CheckRevocation(c) \/ CheckKillSwitch(c) \/ Authorize(c)
                 \/ Dispatch(c) \/ GateSpend(c) \/ InsertNothing(c)
      PROVE  TypeOK'
  BY <1>3 DEF CheckRevocation, CheckKillSwitch, Authorize, Dispatch, FirstStep,
              GateSpend, InsertNothing
<1>4. ASSUME NEW c \in Calls, ReadRunway(c) PROVE TypeOK'
  BY <1>4 DEF ReadRunway
<1>5. ASSUME NEW c \in Calls, Insert(c) PROVE TypeOK'
  BY <1>5 DEF Insert
<1>6. ASSUME NEW c \in Calls, Publish(c) \/ EmitDecision(c) PROVE TypeOK'
  BY <1>6 DEF Publish, EmitDecision, Deliver
<1>7. ASSUME NEW c \in Calls, AuditAllow(c) \/ Deny(c) PROVE TypeOK'
  BY <1>7 DEF AuditAllow, Deny, Log
<1>8. ASSUME NEW c \in Calls, Fail(c) PROVE TypeOK'
  BY <1>8 DEF Fail, InHandler
<1> QED
  BY <1>1, <1>2, <1>3, <1>4, <1>5, <1>6, <1>7, <1>8 DEF Next, Handle, vars

\* A conflicting row is one that is shared.
LEMMA ConflictIsShared == \A c : Conflicting(c) # {} <=> SharesRow(c)
  BY DEF Conflicting, Table, SharesRow

\* A received call keeps its request, and rows stay.
LEMMA StepFrame ==
  ASSUME TypeOK, [Next]_vars
  PROVE  /\ \A c \in Calls : Received(c) => Received(c)' /\ req'[c] = req[c]
         /\ rows \subseteq rows'
<1> USE DEF TypeOK, Received, At
<1>1. CASE UNCHANGED callVars
  BY <1>1 DEF callVars
<1>2. ASSUME NEW c \in Calls, Receive(c)
      PROVE  /\ \A d \in Calls : Received(d) => Received(d)' /\ req'[d] = req[d]
             /\ rows \subseteq rows'
  BY <1>2 DEF Receive
<1>3. ASSUME NEW c \in Calls, Handle(c) \/ Fail(c)
      PROVE  req' = req /\ rows \subseteq rows'
  BY <1>3 DEF Handle, CheckRevocation, CheckKillSwitch, Authorize, Dispatch, ReadRunway, GateSpend, Insert, InsertNothing, Publish, AuditAllow, EmitDecision, Deny, Fail
<1> QED
  BY <1>1, <1>2, <1>3 DEF Next, vars

\* An effect once there stays.
LEMMA EffectStays ==
  ASSUME TypeOK, EffectsInOrder, [Next]_vars, NEW c \in Calls, Received(c),
         HasEffect(c)
  PROVE  HasEffect(c)'
<1>1. \A d \in rows : d \in Calls /\ Received(d)
  BY DEF TypeOK, EffectsInOrder, InOrder, AfterInsert, Received
<1> QED
  BY <1>1, StepFrame DEF HasEffect, SharesRow, Tool

\* What neither raises nor is refused has valid arguments.
LEMMA AdmittedArguments == \A r : ~ Raises(r) /\ ~ Refuses(r) => WellFormed(r)
  BY DEF Raises, Refuses

\* Every step keeps what the handlers have established.
LEMMA NextEstablished ==
  TypeOK /\ EffectsInOrder /\ Established /\ [Next]_vars => Established'
<1> SUFFICES ASSUME TypeOK, EffectsInOrder, Established, [Next]_vars,
                    NEW d \in Calls
             PROVE  EstablishedFor(d)'
  BY DEF Established
<1>d. DOMAIN pc = Calls /\ DOMAIN req = Calls
  BY DEF TypeOK
<1>e. Received(d) /\ HasEffect(d) => HasEffect(d)'
  BY EffectStays
<1>f. EstablishedFor(d)
  BY DEF Established
<1> USE <1>d, <1>e, <1>f DEF EstablishedFor, AfterAdmission, AfterDispatch, AfterInsert, At, Goto, Tool
<1>1. CASE UNCHANGED callVars
  BY <1>1 DEF callVars, Received, TypeOK
<1>2. ASSUME NEW c \in Calls, Receive(c) PROVE EstablishedFor(d)'
  BY <1>2 DEF Receive, Received, TypeOK
<1>3. ASSUME NEW c \in Calls, CheckRevocation(c) PROVE EstablishedFor(d)'
  BY <1>3 DEF CheckRevocation, Received, TypeOK
<1>4. ASSUME NEW c \in Calls, CheckKillSwitch(c) PROVE EstablishedFor(d)'
  BY <1>4 DEF CheckKillSwitch, Received, TypeOK
<1>5. ASSUME NEW c \in Calls, Authorize(c) PROVE EstablishedFor(d)'
  BY <1>5 DEF Authorize, Received, TypeOK
<1>6. ASSUME NEW c \in Calls, Dispatch(c) PROVE EstablishedFor(d)'
  BY <1>6, AdmittedArguments DEF Dispatch, FirstStep, Received, TypeOK
<1>7. ASSUME NEW c \in Calls, ReadRunway(c) PROVE EstablishedFor(d)'
  BY <1>7 DEF ReadRunway, Received, TypeOK
<1>8. ASSUME NEW c \in Calls, GateSpend(c) PROVE EstablishedFor(d)'
  BY <1>8 DEF GateSpend, Received, TypeOK
<1>9. ASSUME NEW c \in Calls, Insert(c) PROVE EstablishedFor(d)'
  BY <1>9 DEF Insert, HasEffect, Received, TypeOK
<1>10. ASSUME NEW c \in Calls, InsertNothing(c) PROVE EstablishedFor(d)'
  BY <1>10, ConflictIsShared DEF InsertNothing, HasEffect, Received, TypeOK
<1>11. ASSUME NEW c \in Calls, Publish(c) PROVE EstablishedFor(d)'
  BY <1>11 DEF Publish, Moves, HasEffect, Received, TypeOK
<1>12. ASSUME NEW c \in Calls, AuditAllow(c) PROVE EstablishedFor(d)'
  BY <1>12 DEF AuditAllow, Moves, Received, TypeOK
<1>13. ASSUME NEW c \in Calls, EmitDecision(c) PROVE EstablishedFor(d)'
  BY <1>13 DEF EmitDecision, Moves, Received, TypeOK
<1>14. ASSUME NEW c \in Calls, Deny(c) PROVE EstablishedFor(d)'
  BY <1>14 DEF Deny, Moves, Received, TypeOK
<1>15. ASSUME NEW c \in Calls, Fail(c) PROVE EstablishedFor(d)'
  BY <1>15 DEF Fail, InHandler, Steps, Outcomes, Received, TypeOK
<1> QED
  BY <1>1, <1>2, <1>3, <1>4, <1>5, <1>6, <1>7, <1>8, <1>9, <1>10, <1>11, <1>12, <1>13, <1>14, <1>15 DEF Next, Handle, vars

\* Every step keeps rows, events and records where their calls can have them.
LEMMA NextInOrder ==
  TypeOK /\ Established /\ EffectsInOrder /\ [Next]_vars => EffectsInOrder'
<1> SUFFICES ASSUME TypeOK, Established, EffectsInOrder, [Next]_vars,
                    NEW d \in Calls
             PROVE  InOrder(d)'
  BY DEF EffectsInOrder
<1>d. DOMAIN pc = Calls /\ (Received(d) <=> pc[d] # "idle")
  BY DEF TypeOK
<1>e. Received(d) /\ HasEffect(d) => HasEffect(d)'
  BY EffectStays
<1>f. InOrder(d) /\ EstablishedFor(d)
  BY DEF EffectsInOrder, Established
<1> USE <1>d, <1>e, <1>f DEF InOrder, AfterInsert, Logged, At, Goto
<1>1. CASE UNCHANGED callVars /\ (Control!Next \/ UNCHANGED haltVars)
  BY <1>1 DEF callVars
<1>2. ASSUME NEW c \in Calls, Receive(c), UNCHANGED haltVars PROVE InOrder(d)'
  BY <1>2 DEF Receive
<1>3. ASSUME NEW c \in Calls, CheckRevocation(c), UNCHANGED haltVars PROVE InOrder(d)'
  BY <1>3 DEF CheckRevocation
<1>4. ASSUME NEW c \in Calls, CheckKillSwitch(c), UNCHANGED haltVars PROVE InOrder(d)'
  BY <1>4 DEF CheckKillSwitch
<1>5. ASSUME NEW c \in Calls, Authorize(c), UNCHANGED haltVars PROVE InOrder(d)'
  BY <1>5 DEF Authorize
<1>6. ASSUME NEW c \in Calls, Dispatch(c), UNCHANGED haltVars PROVE InOrder(d)'
  BY <1>6 DEF Dispatch, FirstStep
<1>7. ASSUME NEW c \in Calls, ReadRunway(c), UNCHANGED haltVars PROVE InOrder(d)'
  BY <1>7 DEF ReadRunway
<1>8. ASSUME NEW c \in Calls, GateSpend(c), UNCHANGED haltVars PROVE InOrder(d)'
  BY <1>8 DEF GateSpend
<1>9. ASSUME NEW c \in Calls, Insert(c), UNCHANGED haltVars PROVE InOrder(d)'
  BY <1>9 DEF Insert, HasEffect
<1>10. ASSUME NEW c \in Calls, InsertNothing(c), UNCHANGED haltVars PROVE InOrder(d)'
  BY <1>10 DEF InsertNothing
<1>11. ASSUME NEW c \in Calls, Publish(c), UNCHANGED haltVars PROVE InOrder(d)'
  BY <1>11 DEF Publish, Moves, Deliver, EstablishedFor
<1>12. ASSUME NEW c \in Calls, AuditAllow(c), UNCHANGED haltVars PROVE InOrder(d)'
  BY <1>12 DEF AuditAllow, Moves, Log, EstablishedFor
<1>13. ASSUME NEW c \in Calls, EmitDecision(c), UNCHANGED haltVars PROVE InOrder(d)'
  BY <1>13 DEF EmitDecision, Moves, Deliver, EstablishedFor
<1>14. ASSUME NEW c \in Calls, Deny(c), UNCHANGED haltVars PROVE InOrder(d)'
  BY <1>14 DEF Deny, Moves, Log
<1>15. ASSUME NEW c \in Calls, Fail(c), UNCHANGED haltVars PROVE InOrder(d)'
  BY <1>15 DEF Fail, InHandler, Steps, Outcomes
<1> QED
  BY <1>1, <1>2, <1>3, <1>4, <1>5, <1>6, <1>7, <1>8, <1>9, <1>10, <1>11,
     <1>12, <1>13, <1>14, <1>15 DEF Next, Handle, vars

\* Every step keeps late calls away from the dispatch.
LEMMA NextLateStops ==
  TypeOK /\ EffectsInOrder /\ FlagsStand /\ LateStops /\ [Next]_vars => LateStops'
<1> SUFFICES ASSUME TypeOK, EffectsInOrder, FlagsStand, LateStops, [Next]_vars,
                    NEW d \in Calls
             PROVE  LateStop(d)'
  BY DEF LateStops
<1>d. DOMAIN pc = Calls /\ DOMAIN req = Calls /\ (Received(d) <=> pc[d] # "idle")
  BY DEF TypeOK
<1>e. Received(d) => Received(d)' /\ req'[d] = req[d]
  BY StepFrame DEF TypeOK
<1>f. LateStop(d) /\ (d \in rows \cup events \/ Logged(d, "allow") => Received(d))
  BY DEF LateStops, EffectsInOrder, InOrder, AfterInsert, TypeOK
<1> USE <1>d, <1>e, <1>f DEF LateStop, Halted, Logged, At, Goto
<1>1. CASE UNCHANGED callVars /\ (Control!Next \/ UNCHANGED haltVars)
  BY <1>1, HaltsStay DEF callVars
<1>2. ASSUME NEW c \in Calls, Receive(c), UNCHANGED haltVars PROVE LateStop(d)'
  <2>1. PICK r \in Requests :
            /\ req' = [req EXCEPT ![c] = r]
            /\ late' = IF r.principal # NoOne /\ Halted(r.principal)
                       THEN late \cup {c} ELSE late
            /\ r.principal # NoOne => Goto(c, "revocation")
    BY <1>2 DEF Receive
  <2>2. \A p : Halted(p)' <=> Halted(p)
    BY <1>2 DEF haltVars, Halted, Control!IsKilled, Control!IsRevoked
  <2>3. /\ UNCHANGED <<rows, events, audit>> /\ ~ Received(c)
        /\ d # c => pc'[d] = pc[d]
    BY <1>2 DEF Receive, TypeOK, At, Goto
  <2>4. CASE d = c
    BY <2>1, <2>2, <2>3, <2>4, NoRequestAssumption DEF Received
  <2>5. CASE d # c
    BY <1>2, <2>1, <2>2, <2>3, <2>5, HaltsStay DEF Received
  <2> QED
    BY <2>4, <2>5
<1>3. ASSUME NEW c \in Calls, CheckRevocation(c), UNCHANGED haltVars PROVE LateStop(d)'
  BY <1>3, HaltsStay DEF CheckRevocation
<1>4. ASSUME NEW c \in Calls, CheckKillSwitch(c), UNCHANGED haltVars PROVE LateStop(d)'
  BY <1>4, HaltsStay DEF CheckKillSwitch
<1>5. ASSUME NEW c \in Calls, Authorize(c), UNCHANGED haltVars PROVE LateStop(d)'
  BY <1>5, HaltsStay DEF Authorize
<1>6. ASSUME NEW c \in Calls, Dispatch(c), UNCHANGED haltVars PROVE LateStop(d)'
  BY <1>6, HaltsStay DEF Dispatch, FirstStep
<1>7. ASSUME NEW c \in Calls, ReadRunway(c), UNCHANGED haltVars PROVE LateStop(d)'
  BY <1>7, HaltsStay DEF ReadRunway
<1>8. ASSUME NEW c \in Calls, GateSpend(c), UNCHANGED haltVars PROVE LateStop(d)'
  BY <1>8, HaltsStay DEF GateSpend
<1>9. ASSUME NEW c \in Calls, Insert(c), UNCHANGED haltVars PROVE LateStop(d)'
  BY <1>9, HaltsStay DEF Insert, HasEffect
<1>10. ASSUME NEW c \in Calls, InsertNothing(c), UNCHANGED haltVars PROVE LateStop(d)'
  BY <1>10, HaltsStay DEF InsertNothing
<1>11. ASSUME NEW c \in Calls, Publish(c), UNCHANGED haltVars PROVE LateStop(d)'
  BY <1>11, HaltsStay DEF Publish, Moves, Deliver
<1>12. ASSUME NEW c \in Calls, AuditAllow(c), UNCHANGED haltVars PROVE LateStop(d)'
  BY <1>12, HaltsStay DEF AuditAllow, Moves, Log
<1>13. ASSUME NEW c \in Calls, EmitDecision(c), UNCHANGED haltVars PROVE LateStop(d)'
  BY <1>13, HaltsStay DEF EmitDecision, Moves, Deliver
<1>14. ASSUME NEW c \in Calls, Deny(c), UNCHANGED haltVars PROVE LateStop(d)'
  BY <1>14, HaltsStay DEF Deny, Moves, Log
<1>15. ASSUME NEW c \in Calls, Fail(c), UNCHANGED haltVars PROVE LateStop(d)'
  BY <1>15, HaltsStay DEF Fail, InHandler, Steps, Outcomes
<1> QED
  BY <1>1, <1>2, <1>3, <1>4, <1>5, <1>6, <1>7, <1>8, <1>9, <1>10, <1>11,
     <1>12, <1>13, <1>14, <1>15 DEF Next, Handle, vars

\* Every step keeps a call for a killed business before its INSERT.
LEMMA NextLateForStops ==
  TypeOK /\ EffectsInOrder /\ FlagsStand /\ LateForStops /\ [Next]_vars => LateForStops'
<1> SUFFICES ASSUME TypeOK, EffectsInOrder, FlagsStand, LateForStops, [Next]_vars,
                    NEW d \in Calls
             PROVE  LateForStop(d)'
  BY DEF LateForStops
<1>d. DOMAIN pc = Calls /\ DOMAIN req = Calls /\ (Received(d) <=> pc[d] # "idle")
  BY DEF TypeOK
<1>e. Received(d) => Received(d)' /\ req'[d] = req[d]
  BY StepFrame DEF TypeOK
<1>f. LateForStop(d) /\ (d \in rows \cup events => Received(d))
  BY DEF LateForStops, EffectsInOrder, InOrder, AfterInsert, TypeOK
<1> USE <1>d, <1>e, <1>f DEF LateForStop, Business, AfterInsert, At, Goto
<1>1. CASE UNCHANGED callVars /\ (Control!Next \/ UNCHANGED haltVars)
  BY <1>1, HaltsStay DEF callVars
<1>2. ASSUME NEW c \in Calls, Receive(c), UNCHANGED haltVars PROVE LateForStop(d)'
  <2>1. PICK r \in Requests :
            /\ req' = [req EXCEPT ![c] = r]
            /\ lateFor' = IF r.business # NoOne /\ Control!IsKilled(r.business)
                          THEN lateFor \cup {c} ELSE lateFor
            /\ Goto(c, "revocation") \/ Goto(c, "unauthenticated")
    BY <1>2 DEF Receive
  <2>2. \A p : Control!IsKilled(p)' <=> Control!IsKilled(p)
    BY <1>2 DEF haltVars, Control!IsKilled
  <2>3. /\ rows' = rows /\ events' = events /\ ~ Received(c)
        /\ d # c => pc'[d] = pc[d]
    BY <1>2 DEF Receive, TypeOK, At, Goto
  <2>4. CASE d = c
    BY <2>1, <2>2, <2>3, <2>4, NoRequestAssumption DEF Received
  <2>5. CASE d # c
    BY <1>2, <2>1, <2>2, <2>3, <2>5, HaltsStay DEF Received
  <2> QED
    BY <2>4, <2>5
<1>3. ASSUME NEW c \in Calls, CheckRevocation(c), UNCHANGED haltVars PROVE LateForStop(d)'
  BY <1>3, HaltsStay DEF CheckRevocation
<1>4. ASSUME NEW c \in Calls, CheckKillSwitch(c), UNCHANGED haltVars PROVE LateForStop(d)'
  BY <1>4, HaltsStay DEF CheckKillSwitch
<1>5. ASSUME NEW c \in Calls, Authorize(c), UNCHANGED haltVars PROVE LateForStop(d)'
  BY <1>5, HaltsStay DEF Authorize
<1>6. ASSUME NEW c \in Calls, Dispatch(c), UNCHANGED haltVars PROVE LateForStop(d)'
  BY <1>6, HaltsStay DEF Dispatch, FirstStep, NeedsRunway
<1>7. ASSUME NEW c \in Calls, ReadRunway(c), UNCHANGED haltVars PROVE LateForStop(d)'
  BY <1>7, HaltsStay DEF ReadRunway
<1>8. ASSUME NEW c \in Calls, GateSpend(c), UNCHANGED haltVars PROVE LateForStop(d)'
  BY <1>8, HaltsStay DEF GateSpend, MaySpend, Ready
<1>9. ASSUME NEW c \in Calls, Insert(c), UNCHANGED haltVars PROVE LateForStop(d)'
  BY <1>9, HaltsStay DEF Insert, HasEffect
<1>10. ASSUME NEW c \in Calls, InsertNothing(c), UNCHANGED haltVars PROVE LateForStop(d)'
  BY <1>10, HaltsStay DEF InsertNothing
<1>11. ASSUME NEW c \in Calls, Publish(c), UNCHANGED haltVars PROVE LateForStop(d)'
  BY <1>11, HaltsStay DEF Publish, Moves, Deliver
<1>12. ASSUME NEW c \in Calls, AuditAllow(c), UNCHANGED haltVars PROVE LateForStop(d)'
  BY <1>12, HaltsStay DEF AuditAllow, Moves, Log
<1>13. ASSUME NEW c \in Calls, EmitDecision(c), UNCHANGED haltVars PROVE LateForStop(d)'
  BY <1>13, HaltsStay DEF EmitDecision, Moves, Deliver
<1>14. ASSUME NEW c \in Calls, Deny(c), UNCHANGED haltVars PROVE LateForStop(d)'
  BY <1>14, HaltsStay DEF Deny, Moves, Log
<1>15. ASSUME NEW c \in Calls, Fail(c), UNCHANGED haltVars PROVE LateForStop(d)'
  BY <1>15, HaltsStay DEF Fail, InHandler, Steps, Outcomes
<1> QED
  BY <1>1, <1>2, <1>3, <1>4, <1>5, <1>6, <1>7, <1>8, <1>9, <1>10, <1>11,
     <1>12, <1>13, <1>14, <1>15 DEF Next, Handle, vars

\* Rows come from inserts, events from publications, and records stay.
LEMMA StepEffects ==
  ASSUME TypeOK, [Next]_vars
  PROVE  /\ audit \subseteq audit'
         /\ rows' = rows \/ \E c \in Calls : Insert(c)
         /\ events' = events \/ \E c \in Calls : Publish(c) \/ EmitDecision(c)
<1>1. CASE UNCHANGED callVars
  BY <1>1 DEF callVars
<1>2. ASSUME NEW c \in Calls, Insert(c) \/ Publish(c) \/ EmitDecision(c)
      PROVE  /\ audit \subseteq audit'
             /\ rows' = rows \/ Insert(c)
             /\ events' = events \/ Publish(c) \/ EmitDecision(c)
  BY <1>2 DEF Insert, Publish, EmitDecision
<1>3. ASSUME NEW c \in Calls,
             \/ Receive(c) \/ CheckRevocation(c) \/ CheckKillSwitch(c)
             \/ Authorize(c) \/ Dispatch(c) \/ ReadRunway(c) \/ GateSpend(c)
             \/ InsertNothing(c) \/ AuditAllow(c) \/ Deny(c) \/ Fail(c)
      PROVE  audit \subseteq audit' /\ rows' = rows /\ events' = events
  BY <1>3 DEF Receive, CheckRevocation, CheckKillSwitch, Authorize, Dispatch,
              ReadRunway, GateSpend, InsertNothing, AuditAllow, Log, Deny, Fail
<1> QED
  BY <1>1, <1>2, <1>3 DEF Next, Handle, vars

\* A new row is alone under its key.
LEMMA NextAtMostOnce ==
  TypeOK /\ EffectsInOrder /\ AtMostOncePerKey /\ [Next]_vars => AtMostOncePerKey'
<1> SUFFICES ASSUME TypeOK, EffectsInOrder, AtMostOncePerKey, [Next]_vars
             PROVE  AtMostOncePerKey'
  OBVIOUS
<1>1. \A c \in rows : c \in Calls /\ Received(c) /\ req'[c] = req[c]
  BY StepFrame DEF TypeOK, EffectsInOrder, InOrder, AfterInsert
<1>2. CASE rows' = rows
  BY <1>1, <1>2 DEF AtMostOncePerKey, Tool
<1>3. ASSUME NEW c \in Calls, Insert(c) PROVE AtMostOncePerKey'
  BY <1>1, <1>3 DEF Insert, Conflicting, Table, AtMostOncePerKey, Tool
<1> QED
  BY <1>2, <1>3, StepEffects

\* An event follows its row or its record.
LEMMA NextAnnounced ==
  TypeOK /\ EffectsInOrder /\ Established /\ AnnouncedMeansDone /\ [Next]_vars
      => AnnouncedMeansDone'
<1> SUFFICES ASSUME TypeOK, EffectsInOrder, Established, AnnouncedMeansDone,
                    [Next]_vars
             PROVE  AnnouncedMeansDone'
  OBVIOUS
<1>1. \A c \in events : c \in Calls /\ Received(c) /\ req'[c] = req[c]
  BY StepFrame DEF TypeOK, EffectsInOrder, InOrder
<1>2. rows \subseteq rows' /\ \A c : Logged(c, "allow") => Logged(c, "allow")'
  BY StepFrame, StepEffects DEF Logged
<1>3. CASE events' = events
  BY <1>1, <1>2, <1>3 DEF AnnouncedMeansDone, Tool
<1>4. ASSUME NEW c \in Calls, Publish(c) PROVE AnnouncedMeansDone'
  <2>1. events' \subseteq events \cup {c} /\ req' = req
    BY <1>4 DEF Publish, Deliver
  <2>2. Tool(c) = Promote \/ (Tool(c) \in {Pay, Experiment} /\ c \in rows)
    BY <1>4 DEF Publish, Moves, At, Established, EstablishedFor
  <2> QED
    BY <1>1, <1>2, <2>1, <2>2
    DEF AnnouncedMeansDone, Tool, Pay, Promote, Experiment, Write, Notify
<1>5. ASSUME NEW c \in Calls, EmitDecision(c) PROVE AnnouncedMeansDone'
  <2>1. events' \subseteq events \cup {c} /\ req' = req
    BY <1>5 DEF EmitDecision, Deliver
  <2>2. Tool(c) = Write /\ Logged(c, "allow")
    BY <1>5 DEF EmitDecision, Moves, At, Established, EstablishedFor,
                EffectsInOrder, InOrder
  <2> QED
    BY <1>1, <1>2, <2>1, <2>2
    DEF AnnouncedMeansDone, Tool, Pay, Promote, Experiment, Write, Notify
<1> QED
  BY <1>3, <1>4, <1>5, StepEffects

\* A new row or event is the effect of an admitted call.
LEMMA NextGoverned ==
  TypeOK /\ EffectsInOrder /\ Established /\ EffectsWereGoverned /\ [Next]_vars
      => EffectsWereGoverned'
<1> SUFFICES ASSUME TypeOK, EffectsInOrder, Established, EffectsWereGoverned,
                    [Next]_vars
             PROVE  EffectsWereGoverned'
  OBVIOUS
<1>1. \A c \in rows \cup events : c \in Calls /\ Received(c) /\ req'[c] = req[c]
  BY StepFrame DEF TypeOK, EffectsInOrder, InOrder, AfterInsert
<1> DEFINE Governed(c, r) ==
      /\ Admitted(r) /\ WellFormed(r)
      /\ r.tool = Write => ~ (r.level > Ceiling[r.principal])
<1>2. \A c \in rows \cup events : Governed(c, req'[c])
  BY <1>1 DEF EffectsWereGoverned, Tool
<1>3. \A c \in rows : req'[c].tool = Pay => Valid(Txn(req'[c]), Cap)
  BY <1>1 DEF EffectsWereGoverned, Tool
<1>4. ASSUME NEW c \in Calls, Insert(c) \/ Publish(c) \/ EmitDecision(c)
      PROVE  req' = req /\ Governed(c, req[c])
  <2>1. pc[c] \in AfterDispatch /\ req' = req
    BY <1>4 DEF Insert, Publish, EmitDecision, Moves, At, AfterDispatch, AfterInsert
  <2>2. Admitted(req[c]) /\ WellFormed(req[c]) /\ ~ Refuses(req[c])
    BY <2>1 DEF Established, EstablishedFor, AfterAdmission
  <2> QED
    BY <2>1, <2>2 DEF Refuses
<1>5. ASSUME NEW c \in Calls, Insert(c)
      PROVE  /\ rows' = rows \cup {c} /\ events' = events
             /\ req[c].tool = Pay => Valid(Txn(req[c]), Cap)
  BY <1>5 DEF Insert, BreaksLedgerRule, Tool
<1>6. \A c \in rows' \cup events' : Governed(c, req'[c])
  <2>1. ASSUME NEW c \in Calls, Publish(c) \/ EmitDecision(c)
        PROVE  rows' = rows /\ events' \subseteq events \cup {c}
    BY <2>1 DEF Publish, EmitDecision, Deliver
  <2> HIDE DEF Governed
  <2> QED
    BY <1>2, <1>4, <1>5, <2>1, StepEffects
<1>7. \A c \in rows' : req'[c].tool = Pay => Valid(Txn(req'[c]), Cap)
  BY <1>3, <1>4, <1>5, StepEffects
<1> QED
  BY <1>6, <1>7 DEF EffectsWereGoverned, Tool

\* Every step of every handler, and of the kill switch, keeps the inductive
\* invariant.
LEMMA NextIInv == IInv /\ [Next]_vars => IInv'
<1> SUFFICES ASSUME IInv, [Next]_vars PROVE IInv'
  OBVIOUS
<1>1. TypeOK' /\ Established' /\ EffectsInOrder'
  BY NextTypeOK, NextEstablished, NextInOrder DEF IInv
<1>2. AtMostOncePerKey' /\ AnnouncedMeansDone' /\ EffectsWereGoverned'
  BY NextAtMostOnce, NextAnnounced, NextGoverned DEF IInv
<1>3. FlagsStand'
  BY HaltsStay DEF IInv, Next, vars, haltVars
<1>4. LateStops' /\ LateForStops'
  BY NextLateStops, NextLateForStops DEF IInv
<1> QED
  BY <1>1, <1>2, <1>3, <1>4 DEF IInv
------------------------------------------------------------------------------
\* The inductive invariant holds in every reachable state.
THEOREM Invariance == Spec => []IInv
<1>1. Init => IInv
  BY InitIInv
<1>2. IInv /\ [Next]_vars => IInv'
  BY NextIInv
<1> QED
  BY <1>1, <1>2, PTL DEF Spec

\* Type correctness of the gateway's state.
THEOREM TypeCorrect == Spec => []TypeOK
  BY Invariance, PTL DEF IInv

\* The audit log tells the truth at every moment about every call.
THEOREM TruthfulAudit == Spec => []AuditTellsTheTruth
<1>1. IInv => AuditTellsTheTruth
  BY ConflictIsShared DEF IInv, TypeOK, Established, EstablishedFor,
     EffectsInOrder, InOrder, AfterInsert, HasEffect, AuditTellsTheTruth
<1> QED
  BY <1>1, Invariance, PTL

\* What is on the bus has happened and, for a decision, is logged.
THEOREM TruthfulEvents == Spec => []AnnouncedMeansDone
  BY Invariance, PTL DEF IInv

\* No call received after its principal was halted has any effect.
THEOREM HaltedArePowerless == Spec => []LateCallsPowerless
<1>1. IInv => LateCallsPowerless
  BY DEF IInv, TypeOK, LateStops, LateStop, LateCallsPowerless
<1> QED
  BY <1>1, Invariance, PTL

\* No call received after the business it names was killed spends or
\* experiments.
THEOREM KilledBusinessesAreBroke == Spec => []KilledBusinessSpendsNothing
<1>1. IInv => KilledBusinessSpendsNothing
  BY DEF IInv, TypeOK, LateForStops, LateForStop, KilledBusinessSpendsNothing
<1> QED
  BY <1>1, Invariance, PTL

\* Every side effect passed the whole of the gateway's governance.
THEOREM OnlyGovernedEffects == Spec => []EffectsWereGoverned
  BY Invariance, PTL DEF IInv
------------------------------------------------------------------------------
\* The gateway's payments implement module Ledger.

\* What module Ledger sees of the calls.
View == [c \in Calls |-> PaymentOf(c)]
Told == [c \in Calls |-> ToldAbout(c)]

\* Calls whose handler keeps its request and does not answer are not seen.
Unseen(d) == PaymentOf(d)' = PaymentOf(d) /\ ToldAbout(d)' = ToldAbout(d)

LEMMA UnseenCalls ==
  ASSUME \A d \in Calls : Unseen(d)
  PROVE  View' = View /\ Told' = Told
  BY DEF View, Told, Unseen

\* One call answered is one reply.
LEMMA OneAnswer ==
  ASSUME NEW c \in Calls, NEW said, View' = View,
         \A d \in Calls \ {c} : ToldAbout(d)' = ToldAbout(d),
         ToldAbout(c)' = said
  PROVE  Told' = [Told EXCEPT ![c] = said]
  BY DEF Told

\* A payment's request is a transaction of the ledger, and keeps being one.
LEMMA PaymentsStay ==
  ASSUME TypeOK, [Next]_vars, NEW c \in Calls, Received(c)
  PROVE  PaymentOf(c)' = PaymentOf(c) /\ (IsPayment(c)' <=> IsPayment(c))
  BY StepFrame DEF PaymentOf, IsPayment, Tool

LEMMA PaymentsAreMade ==
  ASSUME TypeOK, NEW c \in Calls
  PROVE  (PaymentOf(c) # NoRequest) <=> IsPayment(c)
  BY NoRequestAssumption DEF TypeOK, PaymentOf, IsPayment, Received

\* A journalled call is a payment.
LEMMA JournalOfPayments ==
  ASSUME IInv, NEW c \in Journal
  PROVE  c \in Calls /\ IsPayment(c)
  BY DEF IInv, TypeOK, Established, EstablishedFor, EffectsInOrder, InOrder,
         EffectsWereGoverned, AfterInsert, Journal, Table, IsPayment, Received

\* The initial states of the gateway are initial states of the promise.
LEMMA InitPromise == Init => Promise!Init
  BY DEF Init, Promise!Init, Journal, Table, PaymentOf, ToldAbout, IsPayment,
         Received

\* Every step of the gateway is a step of the promise or changes nothing in it.
LEMMA StepPromise == IInv /\ [Next]_vars => [Promise!Next]_(Promise!vars)
<1> SUFFICES ASSUME IInv, [Next]_vars PROVE [Promise!Next]_(Promise!vars)
  OBVIOUS
<1>t. TypeOK /\ IInv' /\ TypeOK'
  BY NextIInv DEF IInv
<1>a. ASSUME \A d \in Calls : Unseen(d), Journal' = Journal
      PROVE  UNCHANGED Promise!vars
  BY <1>a, UnseenCalls DEF View, Told, Promise!vars
<1>b. \A d \in Calls : Received(d) /\ pc'[d] = pc[d] /\ (d \in rows' <=> d \in rows)
          => Unseen(d)
  BY PaymentsStay, <1>t DEF Unseen, ToldAbout
<1>1. CASE UNCHANGED callVars
  <2>1. \A d \in Calls : Unseen(d)
    BY <1>1 DEF callVars, Unseen, PaymentOf, ToldAbout, IsPayment, Received, Tool
  <2> QED
    BY <1>1, <1>a, <2>1 DEF callVars, Journal, Table, Tool
<1>2. ASSUME NEW c \in Calls, Receive(c) PROVE [Promise!Next]_(Promise!vars)
  <2>1. Journal' = Journal
    BY <1>2, StepFrame, <1>t DEF Receive, Journal, Table, Tool, TypeOK, IInv,
       EffectsInOrder, InOrder, AfterInsert
  <2>2. \A d \in Calls \ {c} : Unseen(d)
    BY <1>2 DEF Receive, TypeOK, Unseen, PaymentOf, ToldAbout, IsPayment,
       Received, Tool, Goto, IInv
  <2>3. ~ IsPayment(c) /\ ToldAbout(c) = "none"
    BY <1>2, <1>t DEF Receive, TypeOK, IsPayment, ToldAbout, At
  <2>4. ToldAbout(c)' = "none"
    BY <1>2, <1>t DEF Receive, TypeOK, IsPayment, ToldAbout, Goto
  <2>5. CASE ~ IsPayment(c)'
    BY <1>a, <2>1, <2>2, <2>3, <2>4, <2>5 DEF Unseen, PaymentOf
  <2>6. CASE IsPayment(c)'
    <3>1. PICK r \in Requests : req'[c] = r
      BY <1>2, <1>t DEF Receive, TypeOK
    <3>2. View' = [View EXCEPT ![c] = Txn(r)] /\ View[c] = NoRequest
      BY <2>2, <2>3, <2>6, <3>1 DEF View, PaymentOf, Unseen
    <3>3. Told' = Told
      BY <2>2, <2>3, <2>4 DEF Told, Unseen
    <3>4. Promise!Submit(c)
      BY <2>1, <3>2, <3>3 DEF Promise!Submit, View, Told
    <3> QED
      BY <3>4 DEF Promise!Next
  <2> QED
    BY <2>5, <2>6
<1>3. ASSUME NEW c \in Calls,
             \/ CheckRevocation(c) \/ CheckKillSwitch(c) \/ Authorize(c)
             \/ Dispatch(c) \/ ReadRunway(c) \/ GateSpend(c)
             \/ InsertNothing(c) \/ Publish(c) \/ EmitDecision(c)
      PROVE  UNCHANGED Promise!vars
  <2>1. req' = req /\ rows' = rows /\ \A d \in Calls \ {c} : pc'[d] = pc[d]
    BY <1>3, <1>t DEF TypeOK, CheckRevocation, CheckKillSwitch, Authorize, Dispatch,
       ReadRunway, GateSpend, InsertNothing, Publish, EmitDecision, Moves, Goto
  <2>2. \/ pc[c] \notin Outcomes /\ pc'[c] \notin Outcomes
        \/ Tool(c) # Pay
    <3>d. DOMAIN pc = Calls
      BY <1>t DEF TypeOK
    <3>1. CASE Dispatch(c)
      BY <3>1, <3>d DEF Dispatch, Raises, FirstStep, Goto, At, Outcomes, Tool,
         Pay, Write, Notify
    <3>2. CASE EmitDecision(c)
      BY <3>2 DEF EmitDecision, Moves, At, IInv, Established, EstablishedFor,
         Pay, Write
    <3>3. CASE ~ Dispatch(c) /\ ~ EmitDecision(c)
      BY <1>3, <3>3, <3>d DEF CheckRevocation, CheckKillSwitch, Authorize,
         ReadRunway, GateSpend, InsertNothing, Publish, Moves, Goto, At, Outcomes
    <3> QED
      BY <3>1, <3>2, <3>3
  <2>3. \A d \in Calls : Unseen(d)
    BY <2>1, <2>2 DEF Unseen, PaymentOf, ToldAbout, IsPayment, Received, Tool,
       Outcomes
  <2> QED
    BY <1>a, <2>1, <2>3 DEF Journal, Table, Tool
<1>4. ASSUME NEW c \in Calls, Insert(c) PROVE [Promise!Next]_(Promise!vars)
  <2>1. req' = req /\ rows' = rows \cup {c} /\ At(c, "insert")
        /\ pc'[c] \in {"publish", "audit"}
        /\ \A d \in Calls \ {c} : pc'[d] = pc[d]
    BY <1>4, <1>t DEF TypeOK, Insert, Goto
  <2>2. \A d \in Calls : Unseen(d)
    BY <2>1 DEF Unseen, PaymentOf, ToldAbout, IsPayment, Received, Tool, At
  <2>3. CASE Tool(c) # Pay
    BY <1>a, <2>1, <2>2, <2>3 DEF Journal, Table, Tool
  <2>4. CASE Tool(c) = Pay
    <3>1. IsPayment(c) /\ ToldAbout(c) = "none"
      BY <2>1, <2>4, <1>t DEF At, TypeOK, IInv, Established, EstablishedFor,
         AfterDispatch, IsPayment, ToldAbout, Received
    <3>2. View[c] = Txn(req[c]) /\ View[c] # NoRequest /\ Told[c] = "none"
      BY <3>1, <1>t, PaymentsAreMade DEF View, Told, PaymentOf
    <3>3. Valid(Txn(req[c]), Cap) /\ Conflicting(c) = {}
      BY <1>4, <2>4 DEF Insert, BreaksLedgerRule
    <3>4. \A d \in Journal : View[d].key # View[c].key
      BY <2>4, <3>2, <3>3, JournalOfPayments
      DEF Conflicting, View, PaymentOf, Txn, Journal, Pay, Experiment
    <3>5. Journal' = Journal \cup {c}
      BY <2>1, <2>4 DEF Journal, Table, Tool
    <3>6. Promise!Post(c)
      BY <2>2, UnseenCalls, <3>2, <3>3, <3>4, <3>5
      DEF Promise!Post, Promise!Open, Promise!PostedUnder, Permitted, View, Told
    <3> QED
      BY <3>6 DEF Promise!Next
  <2> QED
    BY <2>3, <2>4
<1>5. ASSUME NEW c \in Calls, AuditAllow(c) \/ Deny(c) \/ Fail(c)
      PROVE  [Promise!Next]_(Promise!vars)
  <2>1. req' = req /\ rows' = rows /\ \A d \in Calls \ {c} : pc'[d] = pc[d]
    BY <1>5, <1>t DEF TypeOK, AuditAllow, Deny, Fail, Moves, Goto
  <2>2. Journal' = Journal /\ View' = View
    BY <2>1 DEF Journal, Table, Tool, View, PaymentOf, IsPayment, Received
  <2>3. \A d \in Calls \ {c} : Unseen(d)
    BY <2>1 DEF Unseen, PaymentOf, ToldAbout, IsPayment, Received, Tool
  <2>4. CASE ~ IsPayment(c)
    <3>1. Unseen(c)
      BY <2>1, <2>4 DEF Unseen, PaymentOf, ToldAbout, IsPayment, Received, Tool
    <3> QED
      BY <1>a, <2>2, <2>3, <3>1
  <2>5. CASE IsPayment(c)
    <3>1. pc[c] \notin Outcomes
      BY <1>5 DEF AuditAllow, Deny, Fail, Moves, At, Outcomes, InHandler
    <3>2. View[c] = Txn(req[c]) /\ View[c] # NoRequest /\ Told[c] = "none"
      BY <2>5, <3>1, <1>t, PaymentsAreMade DEF View, Told, PaymentOf, ToldAbout,
         Outcomes
    <3>3. IsPayment(c)'
      BY <2>1, <2>5 DEF IsPayment, Received, Tool
    <3>4. \A said : ToldAbout(c)' = said => Told' = [Told EXCEPT ![c] = said]
      BY <2>2, <2>3, OneAnswer DEF Unseen
    <3>5. CASE AuditAllow(c)
      <4>1. pc'[c] = "ok" /\ HasEffect(c)
        BY <3>5, <2>5, <1>t DEF AuditAllow, Moves, Goto, At, TypeOK, IsPayment, IInv,
           Established, EstablishedFor, Pay, Write
      <4>2. CASE c \in rows
        <5>1. c \in Journal /\ ToldAbout(c)' = "applied"
          BY <2>1, <2>5, <3>3, <4>1, <4>2 DEF IsPayment, Journal, Table, ToldAbout
        <5> QED
          BY <2>2, <3>2, <3>4, <5>1 DEF Promise!Next, Promise!SayApplied,
             Promise!Reply, Promise!Open, View, Told
      <4>3. CASE c \notin rows
        <5>1. c \notin Journal /\ ToldAbout(c)' = "replayed"
          BY <2>1, <3>3, <4>1, <4>3 DEF Journal, Table, ToldAbout
        <5>2. PICK d \in Journal : req[d].id = req[c].id
          BY <2>5, <4>1, <4>3 DEF HasEffect, SharesRow, IsPayment, Journal, Table,
             Pay, Promote
        <5>3. View[d].key = View[c].key
          BY <3>2, <5>2, JournalOfPayments DEF View, PaymentOf, Txn
        <5> QED
          BY <2>2, <3>2, <3>4, <5>1, <5>2, <5>3 DEF Promise!Next,
             Promise!SayReplayed, Promise!Reply, Promise!Open,
             Promise!PostedUnder, View, Told
      <4> QED
        BY <4>2, <4>3
    <3>6. CASE Deny(c)
      <4>1. c \notin Journal /\ ToldAbout(c)' = "refused"
        BY <3>3, <3>6, <1>t DEF Deny, Moves, Goto, At, TypeOK, ToldAbout, IInv,
           EffectsInOrder, InOrder, AfterInsert, Journal, Table
      <4> QED
        BY <2>2, <3>2, <3>4, <4>1 DEF Promise!Next, Promise!SayRefused,
           Promise!Reply, Promise!Open, View, Told
    <3>7. CASE Fail(c)
      <4>1. ToldAbout(c)' = "lost"
        BY <3>3, <3>7, <1>t DEF Fail, Goto, TypeOK, ToldAbout
      <4> QED
        BY <2>2, <3>2, <3>4, <4>1 DEF Promise!Next, Promise!Lose,
           Promise!Reply, Promise!Open, View, Told
    <3> QED
      BY <1>5, <3>5, <3>6, <3>7
  <2> QED
    BY <2>4, <2>5
<1> QED
  BY <1>1, <1>2, <1>3, <1>4, <1>5 DEF Next, Handle, vars

\* Seen through the gateway, with the kill switch and every other tool
\* interleaved, payments keep the promise of the ledger: posted whole and at
\* most once per key, and every caller told the truth.
THEOREM Implements == Spec => PaymentsImplementLedger
<1>1. Init => Promise!Init
  BY InitPromise
<1>2. IInv /\ [Next]_vars => [Promise!Next]_(Promise!vars)
  BY StepPromise
<1> QED
  BY <1>1, <1>2, Invariance, PTL DEF Spec, PaymentsImplementLedger, Promise!Spec
------------------------------------------------------------------------------
(* The kill switch, beside the calls. *)

\* What an activation has written when it reaches each statement.
WrittenBy(o) ==
    /\ o \in flagged => step[o] \notin {"idle", "refused", "flag"}
    /\ step[o] \notin {"idle", "refused"} => order[o].authorized
    /\ step[o] \in {"revoke", "audit", "publish"} => o \in flagged
    /\ step[o] \in {"audit", "publish"} => Control!ToRevoke(order[o]) \subseteq revoked
    /\ step[o] = "publish" => o \in recorded

ControlInv ==
    /\ Control!TypeOK
    /\ EvidenceFollowsControl
    /\ \A o \in Activations : WrittenBy(o)

\* Every statement of every activation keeps the types.
LEMMA ControlTypeOK ==
  ASSUME Control!TypeOK, Control!Next PROVE Control!TypeOK'
<1> USE DEF Control!TypeOK, Control!Running, Control!Goto
<1>1. ASSUME NEW o \in Activations, Control!Receive(o) PROVE Control!TypeOK'
  BY <1>1 DEF Control!Receive
<1>2. ASSUME NEW o \in Activations, Control!SetFlag(o) PROVE Control!TypeOK'
  BY <1>2 DEF Control!SetFlag
<1>3. ASSUME NEW o \in Activations, Control!Revoke(o) PROVE Control!TypeOK'
  BY <1>3 DEF Control!Revoke, Control!ToRevoke, Control!NoOrder
<1>4. ASSUME NEW o \in Activations, Control!Record(o) PROVE Control!TypeOK'
  BY <1>4 DEF Control!Record
<1>5. ASSUME NEW o \in Activations, Control!Publish(o) PROVE Control!TypeOK'
  BY <1>5 DEF Control!Publish
<1>6. ASSUME NEW o \in Activations, Control!Die(o) PROVE Control!TypeOK'
  BY <1>6 DEF Control!Die
<1>7. ASSUME NEW p \in Revocable, Control!RevokeAgent(p) PROVE Control!TypeOK'
  BY <1>7 DEF Control!RevokeAgent
<1> QED
  BY <1>1, <1>2, <1>3, <1>4, <1>5, <1>6, <1>7 DEF Control!Next

\* The initial state satisfies the kill switch's invariant.
LEMMA InitControl == Init => ControlInv
  BY DEF Init, Control!Init, ControlInv, Control!TypeOK, EvidenceFollowsControl,
         Control!EvidenceFollowsControl, WrittenBy

\* Calls leave the kill switch alone, and every statement of every activation
\* keeps its invariant.
LEMMA NextControl == ControlInv /\ [Next]_vars => ControlInv'
<1> SUFFICES ASSUME ControlInv, [Next]_vars PROVE ControlInv'
  OBVIOUS
<1>1. CASE UNCHANGED haltVars
  BY <1>1 DEF haltVars, ControlInv, Control!TypeOK, EvidenceFollowsControl,
              Control!EvidenceFollowsControl, WrittenBy, Control!ToRevoke
<1>2. CASE Control!Next
  <2>t. Control!TypeOK /\ Control!TypeOK'
    BY <1>2, ControlTypeOK DEF ControlInv
  <2>d. DOMAIN order = Activations /\ DOMAIN step = Activations
    BY <2>t DEF Control!TypeOK
  <2> USE <2>t, <2>d DEF ControlInv, EvidenceFollowsControl,
          Control!EvidenceFollowsControl, WrittenBy, Control!Goto
  <2>1. ASSUME NEW o \in Activations, Control!Receive(o) PROVE ControlInv'
    BY <2>1 DEF Control!Receive
  <2>2. ASSUME NEW o \in Activations, Control!SetFlag(o) PROVE ControlInv'
    BY <2>2 DEF Control!SetFlag
  <2>3. ASSUME NEW o \in Activations, Control!Revoke(o) PROVE ControlInv'
    BY <2>3 DEF Control!Revoke
  <2>4. ASSUME NEW o \in Activations, Control!Record(o) PROVE ControlInv'
    BY <2>4 DEF Control!Record
  <2>5. ASSUME NEW o \in Activations, Control!Publish(o) PROVE ControlInv'
    BY <2>5 DEF Control!Publish
  <2>6. ASSUME NEW o \in Activations, Control!Die(o) PROVE ControlInv'
    BY <2>6 DEF Control!Die, Control!Running
  <2>7. ASSUME NEW p \in Revocable, Control!RevokeAgent(p) PROVE ControlInv'
    BY <2>7 DEF Control!RevokeAgent
  <2> QED
    BY <1>2, <2>1, <2>2, <2>3, <2>4, <2>5, <2>6, <2>7 DEF Control!Next
<1> QED
  BY <1>1, <1>2 DEF Next, vars

\* Wherever an activation died, and whatever calls run beside it, an announced
\* one is recorded, and a recorded one is authorized and in force.
THEOREM EvidenceIsSound == Spec => []EvidenceFollowsControl
<1>1. ControlInv => EvidenceFollowsControl
  BY DEF ControlInv
<1> QED
  BY <1>1, InitControl, NextControl, PTL DEF Spec

\* A principal once halted stays halted.
THEOREM HaltsArePermanent == Spec => Control!HaltsForGood
<1>1. IInv /\ [Next]_vars
          => [\A p \in Targets \cup Revocable :
                 /\ Control!IsKilled(p) => Control!IsKilled(p)'
                 /\ Control!IsRevoked(p) => Control!IsRevoked(p)']_(Control!vars)
  <2> SUFFICES ASSUME IInv, [Next]_vars
               PROVE  \A p : /\ Control!IsKilled(p) => Control!IsKilled(p)'
                             /\ Control!IsRevoked(p) => Control!IsRevoked(p)'
    OBVIOUS
  <2> QED
    BY HaltsStay DEF IInv, Next, vars, callVars
<1> QED
  BY <1>1, Invariance, PTL DEF Spec, Control!HaltsForGood
------------------------------------------------------------------------------
(* The runway. *)

\* What a request moves on the cash of b, and what a set of calls does.
MovedBy(r, b) ==
    SumAt(Txn(r).postings, {i \in 1..2 : Txn(r).postings[i].account = Cash(b)})
PaidBy(R, J, b) == MapThenSumSet(LAMBDA c : MovedBy(R[c], b), J)

LEMMA CashIsPaid ==
  /\ \A b : CashOf(b) = Capital[b] + PaidBy(req, Journal, b)
  /\ \A b : CashOf(b)' = Capital[b] + PaidBy(req', Journal', b)
BY DEF CashOf, CashMoved, MovedBy, PaidBy, MapThenSumSet, MapThenFoldSet

\* A request credits the cash of b by its amount at most.
LEMMA OneMove ==
  ASSUME NEW r \in Requests, NEW b
  PROVE  /\ MovedBy(r, b) \in Int
         /\ r.amount > 0 => MovedBy(r, b) >= -r.amount
<1> DEFINE p == Txn(r).postings
           S == {i \in 1..2 : p[i].account = Cash(b)}
<1>1. /\ DOMAIN p = {1, 2} /\ p[1].amount = r.amount /\ p[2].amount = -r.amount
      /\ r.amount \in Int
  BY MoneyAssumption DEF Txn
<1>2. S \in SUBSET {1, 2}
  OBVIOUS
<1>3. MovedBy(r, b) = Amounts(p, S)
  BY DEF MovedBy, SumAt, Amounts
<1> HIDE DEF p, S
<1> QED
  BY <1>1, <1>2, <1>3, SumOfTwo

LEMMA PaidIsTotal ==
  ASSUME NEW R, NEW J, IsFiniteSet(J), NEW b
  PROVE  PaidBy(R, J, b) = Total([c \in J |-> MovedBy(R[c], b)], J)
<1> DEFINE e == [c \in J |-> MovedBy(R[c], b)]
           Sums(g) == g = [s \in SUBSET J |->
                             IF s = {} THEN 0
                             ELSE MovedBy(R[CHOOSE c \in s : TRUE], b)
                                    + g[s \ {CHOOSE c \in s : TRUE}]]
<1>1. PaidBy(R, J, b) = (CHOOSE g : Sums(g))[J]
  BY DEF PaidBy, MapThenSumSet, MapThenFoldSet
<1>2. ASSUME NEW s \in SUBSET J, s # {}
      PROVE  e[Pick(s)] = MovedBy(R[CHOOSE c \in s : TRUE], b)
  BY <1>2, PickIsIn DEF Pick
<1>3. \A g : Adds(g, e, J) <=> Sums(g)
  <2> HIDE DEF e
  <2> QED
    BY <1>2 DEF Adds, Pick
<1> HIDE DEF e, Sums
<1>4. \E g : Sums(g)
  BY <1>3, SumExists
<1>5. Adds(CHOOSE g : Sums(g), e, J)
  BY <1>3, <1>4
<1>6. Total(e, J) = (CHOOSE g : Sums(g))[J]
  BY <1>5, TotalOf
<1> QED
  BY <1>1, <1>6 DEF e

\* One more payment moves what it moves.
LEMMA OneMorePayment ==
  ASSUME NEW R, NEW J, IsFiniteSet(J), NEW b, NEW c, c \notin J,
         \A d \in J \cup {c} : MovedBy(R[d], b) \in Int
  PROVE  /\ PaidBy(R, J \cup {c}, b) = PaidBy(R, J, b) + MovedBy(R[c], b)
         /\ PaidBy(R, J, b) \in Int
<1> DEFINE K == J \cup {c}
           e == [d \in J |-> MovedBy(R[d], b)]
           f == [d \in K |-> MovedBy(R[d], b)]
<1>1. IsFiniteSet(K)
  BY FS_AddElement
<1>2. PaidBy(R, K, b) = Total(f, K) /\ PaidBy(R, J, b) = Total(e, J)
  BY <1>1, PaidIsTotal
<1>3. /\ \A d \in K : f[d] \in Int
      /\ \A d \in J : e[d] = f[d] /\ e[d] \in Int
      /\ f[c] = MovedBy(R[c], b)
  OBVIOUS
<1> HIDE DEF e, f
<1>4. Total(f, K) = Total(f, J) + f[c]
  BY <1>3, TotalAdd
<1>5. Total(e, J) = Total(f, J) /\ Total(e, J) \in Int
  BY <1>3, TotalSame, TotalIsInt
<1> QED
  BY <1>2, <1>3, <1>4, <1>5

\* A call that spends from a business has seen the money when it inserts.
RunwayInv ==
    /\ IsFiniteSet(rows)
    /\ \A c \in Calls :
          At(c, "insert") /\ NeedsRunway(req[c]) => req[c].amount <= seen[c]

LEMMA NextRunway == TypeOK /\ RunwayInv /\ [Next]_vars => RunwayInv'
<1> SUFFICES ASSUME TypeOK, RunwayInv, [Next]_vars PROVE RunwayInv'
  OBVIOUS
<1>1. IsFiniteSet(rows)'
  <2>1. rows' = rows \/ \E c \in Calls : rows' = rows \cup {c}
    BY StepEffects DEF Insert
  <2> QED
    BY <2>1, FS_AddElement DEF RunwayInv
<1> SUFFICES ASSUME NEW d \in Calls, At(d, "insert")', NeedsRunway(req[d])'
             PROVE  (req[d].amount <= seen[d])'
  BY <1>1 DEF RunwayInv
<1>d. DOMAIN pc = Calls /\ DOMAIN req = Calls /\ DOMAIN seen = Calls
  BY DEF TypeOK
<1>f. At(d, "insert") /\ NeedsRunway(req[d]) => req[d].amount <= seen[d]
  BY DEF RunwayInv
<1> USE <1>d, <1>f DEF At, Goto
<1>2. CASE UNCHANGED callVars
  BY <1>2 DEF callVars
<1>3. ASSUME NEW c \in Calls, Receive(c) PROVE req'[d].amount <= seen'[d]
  BY <1>3 DEF Receive
<1>4. ASSUME NEW c \in Calls, GateSpend(c) PROVE req'[d].amount <= seen'[d]
  BY <1>4 DEF GateSpend, MaySpend, CanSpend
<1>5. ASSUME NEW c \in Calls, Dispatch(c) PROVE req'[d].amount <= seen'[d]
  BY <1>5 DEF Dispatch, FirstStep
<1>6. ASSUME NEW c \in Calls, ReadRunway(c) PROVE req'[d].amount <= seen'[d]
  BY <1>6 DEF ReadRunway
<1>7. ASSUME NEW c \in Calls,
             \/ CheckRevocation(c) \/ CheckKillSwitch(c) \/ Authorize(c)
             \/ Insert(c) \/ InsertNothing(c) \/ Publish(c) \/ AuditAllow(c)
             \/ EmitDecision(c) \/ Deny(c) \/ Fail(c)
      PROVE  req'[d].amount <= seen'[d]
  BY <1>7 DEF CheckRevocation, CheckKillSwitch, Authorize, Insert, InsertNothing,
              Publish, AuditAllow, EmitDecision, Deny, Fail, Moves
<1> QED
  BY <1>2, <1>3, <1>4, <1>5, <1>6, <1>7 DEF Next, Handle, vars

\* can_spend() does protect the runway of a business: a payment that is posted
\* on the balance its handler has read leaves no debt.
THEOREM FreshReadsAreSafe == Spec => FreshReadNeverOverdraws
<1> DEFINE Step ==
      \A c \in rows' \ rows :
          Tool(c) = Pay /\ Scoped(c) /\ seen[c] = CashOf(Business(c))
              => CashOf(Business(c))' >= 0
<1>1. Init => RunwayInv
  BY FS_EmptySet DEF Init, RunwayInv, At
<1>2. IInv /\ RunwayInv /\ [Next]_vars => [Step]_vars
  <2> SUFFICES ASSUME IInv, RunwayInv, [Next]_vars, NEW c \in rows' \ rows,
                      Tool(c) = Pay, Scoped(c), seen[c] = CashOf(Business(c))
               PROVE  CashOf(Business(c))' >= 0
    OBVIOUS
  <2> DEFINE b == Business(c)
             r == req[c]
  <2>t. TypeOK
    BY DEF IInv
  <2>1. Insert(c) /\ c \in Calls
    BY <2>t, StepEffects DEF Insert
  <2>2. rows' = rows \cup {c} /\ req' = req /\ At(c, "insert")
    BY <2>1 DEF Insert
  <2>3. r \in Requests
    BY <2>1, <2>2, <2>t DEF TypeOK, At, Received
  <2>4. r.amount > 0 /\ r.amount <= seen[c] /\ NeedsRunway(r)
    BY <2>1, <2>2 DEF RunwayInv, NeedsRunway, Tool, Scoped, Business, IInv, Established,
       EstablishedFor, AfterDispatch, AfterInsert, At, WellFormed
  <2>5. Journal' = Journal \cup {c} /\ c \notin Journal
    BY <2>2 DEF Journal, Table, Tool
  <2>6. IsFiniteSet(Journal)
    BY FS_Subset DEF RunwayInv, Journal, Table
  <2>7. \A d \in Journal \cup {c} : MovedBy(req[d], b) \in Int
    <3>1. \A d \in Journal : req[d] \in Requests
      BY <2>t, JournalOfPayments DEF TypeOK, IsPayment, Received
    <3> QED
      BY <2>3, <3>1, OneMove
  <2>8. /\ PaidBy(req, Journal \cup {c}, b) = PaidBy(req, Journal, b) + MovedBy(r, b)
        /\ PaidBy(req, Journal, b) \in Int
    BY <2>5, <2>6, <2>7, OneMorePayment
  <2>9. MovedBy(r, b) >= -r.amount /\ MovedBy(r, b) \in Int /\ r.amount \in Int
    BY <2>3, <2>4, OneMove, MoneyAssumption
  <2>10. Capital[b] \in Int
    BY <2>3, MoneyAssumption DEF Scoped, Business
  <2>11. Business(c)' = b
    BY <2>2 DEF Business
  <2>12. seen[c] = Capital[b] + PaidBy(req, Journal, b)
    BY CashIsPaid
  <2>13. CashOf(Business(c))' = Capital[b] + PaidBy(req, Journal \cup {c}, b)
    BY <2>2, <2>5, <2>11, CashIsPaid
  <2> HIDE DEF b, r
  <2> QED
    BY <2>4, <2>8, <2>9, <2>10, <2>12, <2>13
<1>3. IInv => TypeOK
  BY DEF IInv
<1> QED
  BY <1>1, <1>2, <1>3, NextRunway, Invariance, PTL DEF Spec, FreshReadNeverOverdraws
==============================================================================
