------------------------------ MODULE AuditLog ------------------------------
(***************************************************************************)
(* The hash-chained audit log (src/ab_audit/store.py), statement by        *)
(* statement: every append is one PostgreSQL transaction that takes the    *)
(* advisory lock, reads the tail, inserts and commits, and its caller may  *)
(* die or lose its connection between any two statements.                  *)
(*                                                                         *)
(* A record stands for all the fields of a row that are hashed.  The keyed *)
(* hash is a free constructor: equal hashes come from equal arguments.     *)
(***************************************************************************)
EXTENDS Naturals, FiniteSets

CONSTANTS
    Writers,        \* the connections that append
    Records,        \* what is recorded
    Genesis,        \* what the first row links to
    NoOne, NoRecord, NoHash,
    MaxCalls        \* bound: how many appends are ever begun

ASSUME AuditAssumption ==
    /\ MaxCalls \in Nat
    /\ NoOne \notin Writers /\ NoRecord \notin Records

VARIABLES
    pc,             \* the next statement of each writer
    record,         \* what it appends
    tail,           \* prev_hash, as read
    staged,         \* its inserted, uncommitted rows
    answer,         \* the hash its last append returned
    rows,           \* the committed rows of audit_log
    nextSeq,        \* the sequence behind audit_log.seq, which never rolls back
    lock,           \* who holds the advisory lock
    calls           \* how many appends were begun
logVars == <<pc, record, tail, staged, answer, rows, nextSeq, lock, calls>>
------------------------------------------------------------------------------
Hash(prev, rec) == <<prev, rec>>

Before(r, R) == {q \in R : q.seq < r.seq}
IsLast(q, R) == q \in R /\ \A p \in R : p.seq <= q.seq

TailHash == IF rows = {} THEN Genesis ELSE (CHOOSE q \in rows : IsLast(q, rows)).hash

\* What verify_chain() recomputes row after row: the hash of the row, and its
\* link to the row before it in the order of seq.
Links(r, R) ==
    /\ r.hash = Hash(r.prev, r.record)
    /\ \/ Before(r, R) = {} /\ r.prev = Genesis
       \/ \E q \in Before(r, R) : IsLast(q, Before(r, R)) /\ r.prev = q.hash
Verifies(R) == \A r \in R : Links(r, R)

LogInit ==
    /\ pc = [w \in Writers |-> "idle"]
    /\ record = [w \in Writers |-> NoRecord]
    /\ tail = [w \in Writers |-> NoHash]
    /\ staged = [w \in Writers |-> {}]
    /\ answer = [w \in Writers |-> NoHash]
    /\ rows = {}
    /\ nextSeq = 1
    /\ lock = NoOne
    /\ calls = 0

Goto(w, s) == pc' = [pc EXCEPT ![w] = s]

Call(w, rec) ==
    /\ pc[w] = "idle"
    /\ calls < MaxCalls
    /\ calls' = calls + 1
    /\ record' = [record EXCEPT ![w] = rec]
    /\ answer' = [answer EXCEPT ![w] = NoHash]
    /\ Goto(w, "lock")
    /\ UNCHANGED <<tail, staged, rows, nextSeq, lock>>

\* Mutant: appends are not serialised.
Lock_NoWait(w) ==
    /\ pc[w] = "lock"
    /\ lock' = w
    /\ Goto(w, "read")
    /\ UNCHANGED <<record, tail, staged, answer, rows, nextSeq, calls>>

\* pg_advisory_xact_lock() waits for the transaction that holds the lock.
Lock(w) ==
    /\ pc[w] = "lock"
    /\ lock = NoOne
    /\ lock' = w
    /\ Goto(w, "read")
    /\ UNCHANGED <<record, tail, staged, answer, rows, nextSeq, calls>>

ReadTail(w) ==
    /\ pc[w] = "read"
    /\ tail' = [tail EXCEPT ![w] = TailHash]
    /\ Goto(w, "insert")
    /\ UNCHANGED <<record, staged, answer, rows, nextSeq, lock, calls>>

Row(w) == [seq |-> nextSeq, record |-> record[w], prev |-> tail[w],
           hash |-> Hash(tail[w], record[w])]

Insert(w) ==
    /\ pc[w] = "insert"
    /\ staged' = [staged EXCEPT ![w] = {Row(w)}]
    /\ nextSeq' = nextSeq + 1
    /\ Goto(w, "commit")
    /\ UNCHANGED <<record, tail, answer, rows, lock, calls>>

\* Mutant: a lock of the session, which a commit does not release.
Commit_KeepsLock(w) ==
    /\ pc[w] = "commit"
    /\ rows' = rows \cup staged[w]
    /\ staged' = [staged EXCEPT ![w] = {}]
    /\ Goto(w, "return")
    /\ UNCHANGED <<record, tail, answer, nextSeq, lock, calls>>

Commit(w) ==
    /\ pc[w] = "commit"
    /\ rows' = rows \cup staged[w]
    /\ staged' = [staged EXCEPT ![w] = {}]
    /\ lock' = NoOne
    /\ Goto(w, "return")
    /\ UNCHANGED <<record, tail, answer, nextSeq, calls>>

Return(w) ==
    /\ pc[w] = "return"
    /\ answer' = [answer EXCEPT ![w] = Hash(tail[w], record[w])]
    /\ Goto(w, "idle")
    /\ UNCHANGED <<record, tail, staged, rows, nextSeq, lock, calls>>

\* The caller's process or connection dies, or a statement raises: an open
\* transaction is rolled back and its lock released.
Die(w) ==
    /\ pc[w] # "idle"
    /\ staged' = [staged EXCEPT ![w] = {}]
    /\ lock' = IF lock = w THEN NoOne ELSE lock
    /\ Goto(w, "idle")
    /\ UNCHANGED <<record, tail, answer, rows, nextSeq, calls>>

Step(w) == Lock(w) \/ ReadTail(w) \/ Insert(w) \/ Commit(w) \/ Return(w)

LogNext ==
    \E w \in Writers : (\E rec \in Records : Call(w, rec)) \/ Step(w) \/ Die(w)

LogSpec == LogInit /\ [][LogNext]_logVars
------------------------------------------------------------------------------
Statement == {"idle", "lock", "read", "insert", "commit", "return"}

LogTypeOK ==
    /\ pc \in [Writers -> Statement]
    /\ record \in [Writers -> Records \cup {NoRecord}]
    /\ DOMAIN tail = Writers /\ DOMAIN answer = Writers
    /\ DOMAIN staged = Writers
    /\ \A w \in Writers : \A r \in staged[w] : r.seq \in Nat /\ r.record \in Records
    /\ \A r \in rows : r.seq \in Nat /\ r.record \in Records
    /\ nextSeq \in Nat
    /\ lock \in Writers \cup {NoOne}
    /\ calls \in 0..MaxCalls

\* "concurrent writers can't fork the chain": whatever the interleaving and
\* whoever dies, verify_chain() answers True on every state of the table.
ChainVerifies == Verifies(rows)

\* The log only grows, and only at its end: a reader that orders by seq never
\* sees a row appear before one it has already read, although the numbers are
\* drawn before the commits and the draws of the dead are never given back.
GrowsAtItsEnd ==
    [][/\ rows \subseteq rows'
       /\ \A r \in rows' \ rows, q \in rows : q.seq < r.seq]_rows

\* A hash that an append has returned is the hash of a committed row.
ReturnedHashStands ==
    \A w \in Writers : answer[w] # NoHash => \E r \in rows : r.hash = answer[w]
==============================================================================
