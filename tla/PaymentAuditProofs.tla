-------------------------- MODULE PaymentAuditProofs --------------------------
(***************************************************************************)
(* The audit stream, the chargebacks and the row tables on MemStore: what  *)
(* a handler writes in separate calls still agrees with the intent,        *)
(* whatever the other handlers do between the calls.                       *)
(***************************************************************************)
EXTENDS PaymentLedgerProofs, FiniteSetTheorems

Elems(q) == {q[k] : k \in DOMAIN q}

DisputeStatus == {"charged_back", "chargeback_won", "chargeback_lost"}

\* The operation x audits the state s of id.
Emits(x, id, s) == x.op = "emit" /\ x.id = id /\ x.to = s

\* Some handler is about to audit the state s of id.
Pending(id, s) == \E t \in Threads : \E x \in Elems(todo[t]) : Emits(x, id, s)

-----------------------------------------------------------------------------
(* The inductive invariant.                                                *)

UnissuedSilent == \A id \in Intents \ issued : audit[id] = {}

\* What is audited happened, and the status is audited or will be.
StoredAudited ==
  \A id \in stored :
    /\ audit[id] \subseteq intents[id].history
    /\ intents[id].status \in audit[id] \/ Pending(id, intents[id].status)

DraftsAudited ==
  \A t \in Threads : Doing(t, "create") =>
    LET h == Head(todo[t])
    IN /\ audit[h.id] \subseteq h.intent.history
       /\ \E x \in Elems(todo[t]) : Emits(x, h.id, h.intent.status)

\* What a handler is about to audit happened to a stored intent or to the one
\* that it stores first.
EmitsBacked ==
  \A t \in Threads : \A x \in Elems(todo[t]) : x.op = "emit" =>
    \/ x.id \in stored /\ x.to \in intents[x.id].history
    \/ /\ Doing(t, "create") /\ Head(todo[t]).id = x.id
       /\ x.to \in Head(todo[t]).intent.history

\* A dispute is opened after its case is recorded.
CasesBacked ==
  \A t \in Threads : \A x \in Elems(todo[t]) : x.op = "open_case" =>
    \/ chargebacks[x.id] # << >>
    \/ Doing(t, "add_case") /\ Head(todo[t]).id = x.id

AuditInv ==
  /\ LedgerInv
  /\ UnissuedSilent
  /\ StoredAudited
  /\ DraftsAudited
  /\ EmitsBacked
  /\ CasesBacked
  /\ DisputeRecorded

-----------------------------------------------------------------------------
(* Programs of threads.                                                    *)

LEMMA TailElems ==
  ASSUME NEW q \in Seq(Op), q # << >>
  PROVE  /\ Elems(q) = {Head(q)} \cup Elems(Tail(q))
         /\ Head(q) \in Elems(q)
<1>1. /\ Len(q) \in Nat /\ Len(q) >= 1 /\ DOMAIN q = 1 .. Len(q) /\ Head(q) = q[1]
      /\ DOMAIN Tail(q) = 1 .. Len(q) - 1
      /\ \A k \in 1 .. Len(q) - 1 : Tail(q)[k] = q[k + 1]
  OBVIOUS
<1>2. ASSUME NEW x \in Elems(q)
      PROVE  x \in {Head(q)} \cup Elems(Tail(q))
  <2>1. PICK k \in 1 .. Len(q) : x = q[k]
    BY <1>1 DEF Elems
  <2>2. CASE k = 1
    BY <1>1, <2>1, <2>2
  <2>3. CASE k # 1
    <3>1. k - 1 \in DOMAIN Tail(q) /\ x = Tail(q)[k - 1]
      BY <1>1, <2>1, <2>3
    <3>2. QED
      BY <3>1 DEF Elems
  <2>4. QED
    BY <2>2, <2>3
<1>3. Head(q) \in Elems(q)
  BY <1>1 DEF Elems
<1>4. ASSUME NEW x \in Elems(Tail(q))
      PROVE  x \in Elems(q)
  <2>1. PICK k \in 1 .. Len(q) - 1 : x = Tail(q)[k]
    BY <1>1 DEF Elems
  <2>2. k + 1 \in DOMAIN q /\ x = q[k + 1]
    BY <1>1, <2>1
  <2>3. QED
    BY <2>2 DEF Elems
<1>5. QED
  BY <1>2, <1>3, <1>4

LEMMA TupleElems ==
  /\ Elems(<< >>) = {}
  /\ \A x : Elems(<< x >>) = {x}
  /\ \A x, y : Elems(<< x, y >>) = {x, y}
  /\ \A x, y, z : Elems(<< x, y, z >>) = {x, y, z}
<1>1. Elems(<< >>) = {}
  BY DEF Elems
<1>2. ASSUME NEW x PROVE Elems(<< x >>) = {x}
  BY DEF Elems
<1>3. ASSUME NEW x, NEW y PROVE Elems(<< x, y >>) = {x, y}
  <2>1. DOMAIN << x, y >> = {1, 2} /\ << x, y >>[1] = x /\ << x, y >>[2] = y
    OBVIOUS
  <2>2. QED
    BY <2>1 DEF Elems
<1>4. ASSUME NEW x, NEW y, NEW z PROVE Elems(<< x, y, z >>) = {x, y, z}
  <2>1. /\ DOMAIN << x, y, z >> = {1, 2, 3} /\ << x, y, z >>[1] = x /\ << x, y, z >>[2] = y
        /\ << x, y, z >>[3] = z
    OBVIOUS
  <2>2. QED
    BY <2>1 DEF Elems
<1>5. QED
  BY <1>1, <1>2, <1>3, <1>4

LEMMA ConcatElems ==
  ASSUME NEW u \in Seq(Op), NEW v \in Seq(Op)
  PROVE  Elems(u \o v) \subseteq Elems(u) \cup Elems(v)
<1> SUFFICES ASSUME NEW x \in Elems(u \o v)
             PROVE  x \in Elems(u) \cup Elems(v)
  OBVIOUS
<1>1. PICK k \in DOMAIN (u \o v) : x = (u \o v)[k]
  BY DEF Elems
<1>2. CASE k <= Len(u)
  <2>1. k \in DOMAIN u /\ x = u[k]
    BY <1>1, <1>2
  <2>2. QED
    BY <2>1 DEF Elems
<1>3. CASE ~(k <= Len(u))
  <2>1. k - Len(u) \in DOMAIN v /\ x = v[k - Len(u)]
    BY <1>1, <1>3
  <2>2. QED
    BY <2>1 DEF Elems
<1>4. QED
  BY <1>2, <1>3

\* An operation of a thread is of a known kind.
LEMMA ElemsType ==
  ASSUME TypeOK, NEW t \in Threads, NEW x \in Elems(todo[t])
  PROVE  x \in Op
<1>1. todo[t] \in Seq(Op)
  BY DEF TypeOK
<1>2. QED
  BY <1>1 DEF Elems

\* A request starts on an idle thread; what follows is taken off it, one
\* operation after the other.
Runs(t, q) == Idle(t) \/ (~Idle(t) /\ q = Tail(todo[t]))

LEMMA PendingLeft ==
  ASSUME TypeOK, NEW t \in Threads, NEW q, Runs(t, q), todo' = [todo EXCEPT ![t] = q],
         NEW id, NEW s, Pending(id, s)
  PROVE  Pending(id, s)' \/ (~Idle(t) /\ Emits(Head(todo[t]), id, s))
<1>1. PICK u \in Threads : \E x \in Elems(todo[u]) : Emits(x, id, s)
  BY DEF Pending
<1>2. PICK x \in Elems(todo[u]) : Emits(x, id, s)
  BY <1>1
<1>3. todo \in [Threads -> Seq(Op)]
  BY DEF TypeOK
<1>4. CASE u # t
  BY <1>2, <1>3, <1>4 DEF Pending
<1>5. CASE u = t
  <2>1. ~Idle(t) /\ q = Tail(todo[t])
    BY <1>2, <1>5, TupleElems DEF Idle, Runs
  <2>2. x = Head(todo[t]) \/ x \in Elems(q)
    BY <1>2, <1>3, <1>5, <2>1, TailElems DEF Idle
  <2>3. x \in Elems(q) => Pending(id, s)'
    BY <1>2, <1>3 DEF Pending
  <2>4. QED
    BY <1>2, <2>1, <2>2, <2>3
<1>6. QED
  BY <1>4, <1>5

-----------------------------------------------------------------------------
(* What a step of thread t leaves to the other threads.                    *)

LEMMA EmitsFrame ==
  ASSUME AuditInv, NEW t \in Threads, NEW q, todo' = [todo EXCEPT ![t] = q],
         stored \subseteq stored',
         \A j \in stored : intents[j].history \subseteq intents'[j].history,
         \A x \in Elems(q) : x.op = "emit" =>
           \/ x.id \in stored' /\ x.to \in intents'[x.id].history
           \/ /\ q # << >> /\ Head(q).op = "create" /\ Head(q).id = x.id
              /\ x.to \in Head(q).intent.history
  PROVE  EmitsBacked'
<1>1. todo'[t] = q /\ \A u \in Threads \ {t} : todo'[u] = todo[u]
  BY DEF AuditInv, LedgerInv, SafetyInv, TypeOK
<1> SUFFICES ASSUME NEW u \in Threads, NEW x \in Elems(todo'[u]), x.op = "emit"
             PROVE  \/ x.id \in stored' /\ x.to \in intents'[x.id].history
                    \/ /\ Doing(u, "create")' /\ Head(todo'[u]).id = x.id
                       /\ x.to \in Head(todo'[u]).intent.history
  BY DEF EmitsBacked, Elems
<1>2. CASE u = t
  BY <1>1, <1>2 DEF Doing
<1>3. CASE u # t
  <2>1. \/ x.id \in stored /\ x.to \in intents[x.id].history
        \/ /\ Doing(u, "create") /\ Head(todo[u]).id = x.id
           /\ x.to \in Head(todo[u]).intent.history
    BY <1>1, <1>3 DEF AuditInv, EmitsBacked
  <2>2. QED
    BY <1>1, <1>3, <2>1 DEF Doing
<1>4. QED
  BY <1>2, <1>3

LEMMA CasesFrame ==
  ASSUME AuditInv, NEW t \in Threads, NEW q, todo' = [todo EXCEPT ![t] = q],
         \A j \in Intents : chargebacks[j] # << >> => chargebacks'[j] # << >>,
         \A x \in Elems(q) : x.op = "open_case" =>
           \/ chargebacks'[x.id] # << >>
           \/ q # << >> /\ Head(q).op = "add_case" /\ Head(q).id = x.id
  PROVE  CasesBacked'
<1>1. TypeOK /\ todo'[t] = q /\ \A u \in Threads \ {t} : todo'[u] = todo[u]
  BY DEF AuditInv, LedgerInv, SafetyInv, TypeOK
<1> SUFFICES ASSUME NEW u \in Threads, NEW x \in Elems(todo'[u]), x.op = "open_case"
             PROVE  \/ chargebacks'[x.id] # << >>
                    \/ Doing(u, "add_case")' /\ Head(todo'[u]).id = x.id
  BY DEF CasesBacked, Elems
<1>2. CASE u = t
  BY <1>1, <1>2 DEF Doing
<1>3. CASE u # t
  <2>1. x \in Elems(todo[u]) /\ x.id \in Intents
    BY <1>1, <1>3, ElemsType, OpFields
  <2>2. chargebacks[x.id] # << >> \/ (Doing(u, "add_case") /\ Head(todo[u]).id = x.id)
    BY <2>1 DEF AuditInv, CasesBacked
  <2>3. QED
    BY <1>1, <1>3, <2>1, <2>2 DEF Doing
<1>4. QED
  BY <1>2, <1>3

LEMMA DraftsFrame ==
  ASSUME AuditInv, LedgerInv', NEW t \in Threads, NEW q, NoCreate(q),
         todo' = [todo EXCEPT ![t] = q], \A j \in issued \ stored : audit'[j] = audit[j]
  PROVE  DraftsAudited'
<1>1. SafetyInv /\ TypeOK /\ TypeOK'
  BY DEF AuditInv, LedgerInv, SafetyInv
<1> SUFFICES ASSUME NEW u \in Threads, Doing(u, "create")'
             PROVE  /\ audit'[Head(todo'[u]).id] \subseteq Head(todo'[u]).intent.history
                    /\ \E x \in Elems(todo'[u]) :
                         Emits(x, Head(todo'[u]).id, Head(todo'[u]).intent.status)
  BY DEF DraftsAudited, Elems, Emits
<1>2. todo'[u] = todo[u] /\ Doing(u, "create")
  BY <1>1, DraftsLeft
<1>3. Head(todo[u]).id \in issued \ stored
  BY <1>1, <1>2, DraftFacts
<1>4. QED
  BY <1>2, <1>3 DEF AuditInv, DraftsAudited

\* A thread that takes an operation off its program, and changes at most the
\* audit stream and the chargebacks table.
LEMMA PopAudits ==
  ASSUME AuditInv, LedgerInv', NEW t \in Threads, ~Idle(t), Head(todo[t]).op # "create",
         todo' = [todo EXCEPT ![t] = Tail(todo[t])], UNCHANGED <<issued, stored, intents>>,
         \/ Head(todo[t]).op # "emit" /\ audit' = audit
         \/ /\ Head(todo[t]).op = "emit"
            /\ audit' = [audit EXCEPT ![Head(todo[t]).id] = @ \cup {Head(todo[t]).to}],
         \A j \in Intents : chargebacks[j] # << >> => chargebacks'[j] # << >>,
         Head(todo[t]).op = "add_case" => chargebacks'[Head(todo[t]).id] # << >>
  PROVE  AuditInv'
<1> DEFINE h == Head(todo[t])
           q == Tail(todo[t])
<1>1. /\ SafetyInv /\ TypeOK /\ todo[t] \in Seq(Op) /\ todo[t] # << >>
      /\ stored \subseteq Intents /\ stored \subseteq issued
      /\ audit \in [Intents -> SUBSET Status]
  BY DEF AuditInv, LedgerInv, SafetyInv, DraftsSound, TypeOK, Idle
<1>2. Elems(todo[t]) = {h} \cup Elems(q) /\ h \in Elems(todo[t]) /\ NoCreate(q)
  BY <1>1, TailElems, TailNoCreate
<1>3. h \in Op /\ (h.op = "emit" => h.id \in Intents) /\ (h.op = "add_case" => h.id \in Intents)
  BY <1>1, HeadTail, OpFields
<1> HIDE DEF h, q
<1>4. \A x \in Elems(todo[t]) : x.op = "emit" => x.id \in stored /\ x.to \in intents[x.id].history
  BY DEF AuditInv, EmitsBacked, Doing, h
<1>5. \A j \in Intents :
        /\ audit[j] \subseteq audit'[j]
        /\ j \notin stored => audit'[j] = audit[j]
        /\ j \in stored /\ audit[j] \subseteq intents[j].history =>
             audit'[j] \subseteq intents[j].history
        /\ \A s : Emits(h, j, s) => s \in audit'[j]
  <2>1. CASE h.op # "emit" /\ audit' = audit
    BY <2>1 DEF Emits
  <2>2. CASE h.op = "emit" /\ audit' = [audit EXCEPT ![h.id] = @ \cup {h.to}]
    <3>1. h.id \in stored /\ h.id \in Intents /\ h.to \in intents[h.id].history
      BY <1>2, <1>3, <1>4, <2>2
    <3>2. QED
      BY <1>1, <2>2, <3>1 DEF Emits
  <2>3. QED
    BY <2>1, <2>2 DEF h
<1>6. UnissuedSilent'
  BY <1>1, <1>5 DEF AuditInv, UnissuedSilent
<1>7. StoredAudited'
  <2> SUFFICES ASSUME NEW id \in stored
               PROVE  /\ audit'[id] \subseteq intents[id].history
                      /\ intents[id].status \in audit'[id] \/ Pending(id, intents[id].status)'
    BY DEF StoredAudited, Pending
  <2>1. /\ id \in Intents /\ audit[id] \subseteq intents[id].history
        /\ intents[id].status \in audit[id] \/ Pending(id, intents[id].status)
    BY <1>1 DEF AuditInv, StoredAudited
  <2>2. Runs(t, q)
    BY DEF Runs, q
  <2>3. Pending(id, intents[id].status) =>
          Pending(id, intents[id].status)' \/ Emits(h, id, intents[id].status)
    <3> DEFINE s == intents[id].status
    <3>1. s' = s
      OBVIOUS
    <3> SUFFICES ASSUME Pending(id, s) PROVE Pending(id, s)' \/ Emits(h, id, s)
      OBVIOUS
    <3>2. QED
      BY <1>1, <2>2, PendingLeft DEF h, q
  <2>4. QED
    BY <1>5, <2>1, <2>3
<1>8. DraftsAudited'
  <2>1. todo' = [todo EXCEPT ![t] = q]
    BY DEF q
  <2>2. \A j \in issued \ stored : audit'[j] = audit[j]
    BY <1>5 DEF AuditInv, LedgerInv, SafetyInv, TypeOK
  <2>3. QED
    BY <1>2, <2>1, <2>2, DraftsFrame
<1>9. EmitsBacked'
  <2>1. todo' = [todo EXCEPT ![t] = q]
    BY DEF q
  <2>2. \A x \in Elems(q) : x.op = "emit" => x.id \in stored' /\ x.to \in intents'[x.id].history
    BY <1>2, <1>4
  <2>3. QED
    BY <2>1, <2>2, EmitsFrame
<1>10. CasesBacked'
  <2>1. todo' = [todo EXCEPT ![t] = q]
    BY DEF q
  <2>2. ASSUME NEW x \in Elems(q), x.op = "open_case"
        PROVE  chargebacks'[x.id] # << >>
    <3>1. x.id \in Intents /\ x \in Elems(todo[t])
      BY <1>1, <1>2, <2>2, ElemsType, OpFields
    <3>2. chargebacks[x.id] # << >> \/ (h.op = "add_case" /\ h.id = x.id)
      BY <2>2, <3>1 DEF AuditInv, CasesBacked, Doing, h
    <3>3. QED
      BY <3>1, <3>2 DEF h
  <2>3. QED
    BY <2>1, <2>2, CasesFrame
<1>11. DisputeRecorded'
  BY <1>1 DEF AuditInv, DisputeRecorded
<1>12. QED
  BY <1>6, <1>7, <1>8, <1>9, <1>10, <1>11 DEF AuditInv

-----------------------------------------------------------------------------
(* The invariant is inductive on MemStore, shape by shape.                 *)

\* A call of UpdateIntent audits states it adds to the history or that are
\* there, and the status it leaves unless it leaves the status.
LEMMA EffectAudited ==
  ASSUME NEW i \in Intent, NEW g, NEW c \in Intent, NEW h, NEW ok, NEW to,
         i.status \in i.history,
         Requested(i, g, c, h, ok, to) \/ Disputed(i, g, c, h, ok, to)
  PROVE  /\ i.history \subseteq c.history /\ to \subseteq c.history
         /\ c.status \in to \/ c.status = i.status
<1>1. CASE Captures(i, g, c, h) /\ to = {c.status}
  BY <1>1 DEF Captures
<1>2. CASE Voids(i, g, c, h) /\ to = {"voided"}
  BY <1>2 DEF Voids, Advances
<1>3. CASE Refunds(i, g, c, h, ok) /\ to = IF ok THEN {"refunded"} ELSE {}
  BY <1>3 DEF Refunds
<1>4. CASE FailsChallenge(i, g, c, h) /\ to = {"failed"}
  BY <1>4 DEF FailsChallenge, Advances
<1>5. CASE PassesChallenge(i, g, c, h) /\ to = {"authorized"}
  BY <1>5 DEF PassesChallenge, Advances
<1>6. CASE Settles(i, c) /\ to = {"settled"}
  BY <1>6 DEF Settles
<1>7. CASE Disputes(i, c) /\ to = {c.status}
  BY <1>7 DEF Disputes, Advances
<1>8. CASE c = i /\ to = {}
  BY <1>8
<1>9. QED
  BY <1>1, <1>2, <1>3, <1>4, <1>5, <1>6, <1>7, <1>8 DEF Requested, Disputed

\* A request moves no intent to a dispute state.
LEMMA RequestUndisputed ==
  ASSUME NEW i, NEW g, NEW c, NEW h, NEW ok, NEW to, Requested(i, g, c, h, ok, to)
  PROVE  c.status \notin DisputeStatus
BY DEF Requested, Captures, Voids, Refunds, FailsChallenge, PassesChallenge, Settles, Advances,
       DisputeStatus

LEMMA UpdateAudits ==
  ASSUME StoreKind = "mem", AuditInv, LedgerInv', NEW t \in Threads, NEW id \in Intents,
         NEW c \in Intent, NEW h \in Ledger, NEW ok \in BOOLEAN, NEW to \in SUBSET Status,
         Updates(t, id, c, h, ok, to)
  PROVE  AuditInv'
<1> DEFINE i == intents[id]
<1>1. /\ id \in stored /\ UNCHANGED <<issued, stored, chargebacks>>
      /\ Requested(i, gateway[id], c, h, ok, to) \/ Disputed(i, gateway[id], c, h, ok, to)
  BY DEF Updates
<1>2. /\ SafetyInv /\ TypeOK /\ intents \in [Intents -> Intent] /\ i \in Intent
      /\ audit \in [Intents -> SUBSET Status] /\ todo \in [Threads -> Seq(Op)]
      /\ stored \subseteq Intents /\ stored \subseteq issued /\ issued \subseteq Intents
  BY DEF AuditInv, LedgerInv, SafetyInv, TypeOK, DraftsSound
<1>3. i.status \in i.history
  BY <1>1 DEF AuditInv, LedgerInv, StoredKept, Kept
<1>4. /\ i.history \subseteq c.history /\ to \subseteq c.history
      /\ c.status \in to \/ c.status = i.status
  <2> DEFINE g == gateway[id]
  <2>1. i \in Intent /\ i.status \in i.history
    BY <1>2, <1>3
  <2>2. Requested(i, g, c, h, ok, to) \/ Disputed(i, g, c, h, ok, to)
    BY <1>1
  <2> HIDE DEF i, g
  <2>3. QED
    BY <2>1, <2>2, EffectAudited
<1>5. \/ intents' = [intents EXCEPT ![id] = c] /\ audit' = [audit EXCEPT ![id] = @ \cup to]
      \/ intents' = intents /\ audit' = audit
  BY DEF Updates, Writes
<1>6. PICK q : /\ todo' = [todo EXCEPT ![t] = q]
               /\ \/ Idle(t) /\ \A k \in DOMAIN q : q[k].op = "add_row"
                  \/ ~Idle(t) /\ q = Tail(todo[t])
  BY DEF Updates, Leaves
<1>7. Runs(t, q)
  BY <1>6 DEF Runs
<1>8. ~Idle(t) => Head(todo[t]).op \in {"open_case", "close_case"}
  BY DEF Updates, Doing, Idle
<1>9. NoCreate(q)
  <2>1. ~Idle(t) => NoCreate(Tail(todo[t]))
    BY <1>2, TailNoCreate DEF Idle
  <2>2. QED
    BY <1>6, <2>1 DEF NoCreate
<1>10. \A x \in Elems(q) : x.op = "add_row" \/ (~Idle(t) /\ x \in Elems(todo[t]))
  <2>1. CASE Idle(t)
    BY <1>6, <2>1 DEF Elems
  <2>2. CASE ~Idle(t)
    BY <1>2, <1>6, <2>2, TailElems DEF Idle
  <2>3. QED
    BY <2>1, <2>2
<1>11. /\ \A j \in Intents \ {id} : intents'[j] = intents[j] /\ audit'[j] = audit[j]
       /\ \/ intents'[id] = c /\ audit'[id] = audit[id] \cup to
          \/ intents'[id] = i /\ audit'[id] = audit[id]
  BY <1>2, <1>5
<1>12. \A j \in stored : intents[j].history \subseteq intents'[j].history
  BY <1>2, <1>4, <1>11
<1>13. UnissuedSilent'
  BY <1>1, <1>2, <1>11 DEF AuditInv, UnissuedSilent
<1>14. StoredAudited'
  <2> SUFFICES ASSUME NEW j \in stored
               PROVE  /\ audit'[j] \subseteq intents'[j].history
                      /\ \/ intents'[j].status \in audit'[j]
                         \/ \E u \in Threads : \E x \in Elems(todo'[u]) :
                              Emits(x, j, intents'[j].status)
    BY <1>1 DEF StoredAudited, Pending, Elems, Emits
  <2>1. /\ j \in Intents /\ audit[j] \subseteq intents[j].history
        /\ intents[j].status \in audit[j] \/ Pending(j, intents[j].status)
    BY <1>2 DEF AuditInv, StoredAudited
  <2>2. ASSUME NEW s, Pending(j, s)
        PROVE  \E u \in Threads : \E x \in Elems(todo'[u]) : Emits(x, j, s)
    <3>1. ~(~Idle(t) /\ Emits(Head(todo[t]), j, s))
      BY <1>8 DEF Emits
    <3>2. Pending(j, s)'
      BY <1>2, <1>6, <1>7, <2>2, <3>1, PendingLeft
    <3>3. QED
      BY <3>2 DEF Pending
  <2>3. audit'[j] \subseteq intents'[j].history
    BY <1>4, <1>11, <2>1
  <2>4. \/ intents'[j].status \in audit'[j]
        \/ intents'[j].status = intents[j].status /\ audit[j] \subseteq audit'[j]
    BY <1>4, <1>11, <2>1
  <2>5. QED
    BY <2>1, <2>2, <2>3, <2>4
<1>15. DraftsAudited'
  <2>1. \A j \in issued \ stored : audit'[j] = audit[j]
    BY <1>1, <1>2, <1>11
  <2>2. QED
    BY <1>6, <1>9, <2>1, DraftsFrame
<1>16. EmitsBacked'
  <2>1. ASSUME NEW x \in Elems(q), x.op = "emit"
        PROVE  x.id \in stored' /\ x.to \in intents'[x.id].history
    <3>1. ~Idle(t) /\ x \in Elems(todo[t])
      BY <1>10, <2>1
    <3>2. x.id \in stored /\ x.to \in intents[x.id].history
      BY <1>8, <2>1, <3>1 DEF AuditInv, EmitsBacked, Doing
    <3>3. QED
      BY <1>1, <1>12, <3>2
  <2>2. stored \subseteq stored'
    BY <1>1
  <2>3. QED
    BY <1>6, <1>12, <2>1, <2>2, EmitsFrame
<1>17. CasesBacked'
  <2>1. ASSUME NEW x \in Elems(q), x.op = "open_case"
        PROVE  chargebacks'[x.id] # << >>
    <3>1. ~Idle(t) /\ x \in Elems(todo[t])
      BY <1>10, <2>1
    <3>2. QED
      BY <1>1, <1>8, <2>1, <3>1 DEF AuditInv, CasesBacked, Doing
  <2>2. \A j \in Intents : chargebacks[j] # << >> => chargebacks'[j] # << >>
    BY <1>1
  <2>3. QED
    BY <1>6, <2>1, <2>2, CasesFrame
<1>18. c.status \in DisputeStatus => chargebacks[id] # << >>
  <2> SUFFICES ASSUME c.status \in DisputeStatus
               PROVE  chargebacks[id] # << >>
    OBVIOUS
  <2>1. \/ Doing(t, "open_case") /\ Head(todo[t]).id = id
        \/ i.status = "charged_back"
    BY RequestUndisputed DEF Updates
  <2>2. CASE i.status = "charged_back"
    BY <1>1, <2>2 DEF AuditInv, DisputeRecorded
  <2>3. CASE Doing(t, "open_case") /\ Head(todo[t]).id = id
    <3>1. Head(todo[t]) \in Elems(todo[t])
      BY <1>2, <2>3, TailElems DEF Doing
    <3>2. QED
      BY <2>3, <3>1 DEF AuditInv, CasesBacked, Doing
  <2>4. QED
    BY <2>1, <2>2, <2>3
<1>19. DisputeRecorded'
  BY <1>1, <1>2, <1>11, <1>18 DEF AuditInv, DisputeRecorded, DisputeStatus
<1>20. QED
  BY <1>13, <1>14, <1>15, <1>16, <1>17, <1>19 DEF AuditInv

LEMMA StoreAudits ==
  ASSUME AuditInv, LedgerInv', NEW t \in Threads, StoreIntent(t)
  PROVE  AuditInv'
<1> DEFINE h == Head(todo[t])
           q == Tail(todo[t])
<1>1. /\ Doing(t, "create") /\ stored' = stored \cup {h.id}
      /\ intents' = [intents EXCEPT ![h.id] = h.intent]
      /\ todo' = [todo EXCEPT ![t] = q]
      /\ UNCHANGED <<issued, audit, chargebacks>>
  BY DEF StoreIntent, PopOp
<1>2. /\ SafetyInv /\ TypeOK /\ intents \in [Intents -> Intent] /\ todo \in [Threads -> Seq(Op)]
      /\ stored \subseteq Intents /\ todo[t] # << >> /\ h.op = "create"
  BY <1>1 DEF AuditInv, LedgerInv, SafetyInv, TypeOK, Doing
<1>3. h.id \in Intents /\ h.id \in issued /\ h.id \notin stored
  BY <1>1, <1>2, DraftFacts
<1>4. Fresh(h.intent)
  BY <1>1 DEF AuditInv, LedgerInv, DraftsKept
<1>5. Elems(todo[t]) = {h} \cup Elems(q) /\ NoCreate(q)
  BY <1>2, TailElems, TailNoCreate
<1>6. /\ audit[h.id] \subseteq h.intent.history
      /\ \E x \in Elems(todo[t]) : Emits(x, h.id, h.intent.status)
  BY <1>1 DEF AuditInv, DraftsAudited
<1>7. Runs(t, q)
  BY <1>2 DEF Runs, Idle
<1> HIDE DEF q
<1>8. ASSUME NEW j, NEW s, Pending(j, s)
      PROVE  \E u \in Threads : \E x \in Elems(todo'[u]) : Emits(x, j, s)
  <2>1. ~Emits(Head(todo[t]), j, s)
    BY <1>2 DEF Emits
  <2>2. Pending(j, s)'
    BY <1>1, <1>2, <1>7, <1>8, <2>1, PendingLeft
  <2>3. QED
    BY <2>2 DEF Pending
<1> HIDE DEF h
<1>9. intents'[h.id] = h.intent /\ \A j \in stored : intents'[j] = intents[j]
  BY <1>1, <1>2, <1>3
<1>10. Pending(h.id, h.intent.status)
  BY <1>6 DEF Pending
<1>11. UnissuedSilent'
  BY <1>1 DEF AuditInv, UnissuedSilent
<1>12. StoredAudited'
  <2> SUFFICES ASSUME NEW j \in stored'
               PROVE  /\ audit[j] \subseteq intents'[j].history
                      /\ \/ intents'[j].status \in audit[j]
                         \/ \E u \in Threads : \E x \in Elems(todo'[u]) :
                              Emits(x, j, intents'[j].status)
    BY <1>1 DEF StoredAudited, Pending, Elems, Emits
  <2>1. CASE j = h.id
    BY <1>6, <1>8, <1>9, <1>10, <2>1
  <2>2. CASE j \in stored
    <3>1. /\ audit[j] \subseteq intents[j].history
          /\ intents[j].status \in audit[j] \/ Pending(j, intents[j].status)
      BY <2>2 DEF AuditInv, StoredAudited
    <3>2. QED
      BY <1>8, <1>9, <2>2, <3>1
  <2>3. QED
    BY <1>1, <2>1, <2>2
<1>13. DraftsAudited'
  BY <1>1, <1>5, DraftsFrame
<1>14. EmitsBacked'
  <2>1. ASSUME NEW x \in Elems(q), x.op = "emit"
        PROVE  x.id \in stored' /\ x.to \in intents'[x.id].history
    <3>1. \/ x.id \in stored /\ x.to \in intents[x.id].history
          \/ h.id = x.id /\ x.to \in h.intent.history
      BY <1>5, <2>1 DEF AuditInv, EmitsBacked, h
    <3>2. QED
      BY <1>1, <1>9, <3>1
  <2>2. /\ stored \subseteq stored'
        /\ \A j \in stored : intents[j].history \subseteq intents'[j].history
    BY <1>1, <1>9
  <2>3. QED
    BY <1>1, <2>1, <2>2, EmitsFrame
<1>15. CasesBacked'
  <2>1. ASSUME NEW x \in Elems(q), x.op = "open_case"
        PROVE  chargebacks'[x.id] # << >>
    BY <1>1, <1>2, <1>5, <2>1 DEF AuditInv, CasesBacked, Doing, h
  <2>2. \A j \in Intents : chargebacks[j] # << >> => chargebacks'[j] # << >>
    BY <1>1
  <2>3. QED
    BY <1>1, <2>1, <2>2, CasesFrame
<1>16. DisputeRecorded'
  <2>1. h.intent.status \notin {"charged_back", "chargeback_won", "chargeback_lost"}
    BY <1>4 DEF Fresh
  <2>2. QED
    BY <1>1, <1>9, <2>1 DEF AuditInv, DisputeRecorded
<1>17. QED
  BY <1>11, <1>12, <1>13, <1>14, <1>15, <1>16 DEF AuditInv

LEMMA CreateAudits ==
  ASSUME AuditInv, LedgerInv', NEW t \in Threads, NEW id \in Intents, NEW i \in Intent,
         NEW g \in Ledger, NEW e \in SUBSET Status, Creates(t, id, i, g, e)
  PROVE  AuditInv'
<1> DEFINE create == [op |-> "create", id |-> id, intent |-> i]
           emit == [op |-> "emit", id |-> id, to |-> i.status]
<1>1. /\ Idle(t) /\ id \notin issued /\ issued' = issued \cup {id} /\ Fresh(i)
      /\ audit' = [audit EXCEPT ![id] = @ \cup e] /\ e \subseteq i.history
      /\ UNCHANGED <<stored, intents, chargebacks>>
  BY DEF Creates
<1>2. PICK q : StoresAndEmits(q, id, i) /\ todo' = [todo EXCEPT ![t] = q]
  BY DEF Creates
<1>3. q = << create, emit >> \/ \E x : x.op = "add_row" /\ q = << create, x, emit >>
  BY <1>2 DEF StoresAndEmits
<1>4. /\ create.op = "create" /\ create.id = id /\ create.intent = i
      /\ Emits(emit, id, i.status) /\ emit.op = "emit" /\ emit.id = id /\ emit.to = i.status
  BY DEF Emits
<1> HIDE DEF create, emit
<1>5. /\ q # << >> /\ Head(q) = create /\ emit \in Elems(q)
      /\ \A x \in Elems(q) : x = emit \/ x.op \in {"create", "add_row"}
  <2>1. CASE q = << create, emit >>
    BY <1>4, <2>1, TupleElems
  <2>2. ASSUME NEW x, x.op = "add_row", q = << create, x, emit >>
        PROVE  /\ q # << >> /\ Head(q) = create /\ emit \in Elems(q)
               /\ \A y \in Elems(q) : y = emit \/ y.op \in {"create", "add_row"}
    BY <1>4, <2>2, TupleElems
  <2>3. QED
    BY <1>3, <2>1, <2>2
<1>6. /\ SafetyInv /\ TypeOK /\ todo \in [Threads -> Seq(Op)]
      /\ audit \in [Intents -> SUBSET Status]
      /\ stored \subseteq Intents /\ stored \subseteq issued /\ issued \subseteq Intents
  BY DEF AuditInv, LedgerInv, SafetyInv, TypeOK, DraftsSound
<1>7. audit'[id] \subseteq i.history /\ \A j \in Intents \ {id} : audit'[j] = audit[j]
  <2>1. audit[id] = {}
    BY <1>1 DEF AuditInv, UnissuedSilent
  <2>2. QED
    BY <1>1, <1>6, <2>1
<1>8. UnissuedSilent'
  BY <1>1, <1>7 DEF AuditInv, UnissuedSilent
<1>9. StoredAudited'
  <2> SUFFICES ASSUME NEW j \in stored
               PROVE  /\ audit'[j] \subseteq intents[j].history
                      /\ \/ intents[j].status \in audit'[j]
                         \/ \E u \in Threads : \E x \in Elems(todo'[u]) :
                              Emits(x, j, intents[j].status)
    BY <1>1 DEF StoredAudited, Pending, Elems, Emits
  <2>1. /\ audit'[j] = audit[j] /\ audit[j] \subseteq intents[j].history
        /\ intents[j].status \in audit[j] \/ Pending(j, intents[j].status)
    BY <1>1, <1>6, <1>7 DEF AuditInv, StoredAudited
  <2>2. ASSUME NEW s, Pending(j, s)
        PROVE  \E u \in Threads : \E x \in Elems(todo'[u]) : Emits(x, j, s)
    <3>1. Pending(j, s)'
      BY <1>1, <1>2, <1>6, <2>2, PendingLeft DEF Runs
    <3>2. QED
      BY <3>1 DEF Pending
  <2>3. QED
    BY <2>1, <2>2
<1>10. DraftsAudited'
  <2>1. todo'[t] = q /\ \A u \in Threads \ {t} : todo'[u] = todo[u]
    BY <1>2, <1>6
  <2> SUFFICES ASSUME NEW u \in Threads, Doing(u, "create")'
               PROVE  /\ audit'[Head(todo'[u]).id] \subseteq Head(todo'[u]).intent.history
                      /\ \E x \in Elems(todo'[u]) :
                           Emits(x, Head(todo'[u]).id, Head(todo'[u]).intent.status)
    BY DEF DraftsAudited, Elems, Emits
  <2>2. CASE u = t
    BY <1>4, <1>5, <1>7, <2>1, <2>2
  <2>3. CASE u # t
    <3>1. todo'[u] = todo[u] /\ Doing(u, "create")
      BY <2>1, <2>3 DEF Doing
    <3>2. Head(todo[u]).id \in issued /\ Head(todo[u]).id \in Intents
      BY <1>6, <3>1, DraftFacts
    <3>3. audit'[Head(todo[u]).id] = audit[Head(todo[u]).id]
      BY <1>1, <1>7, <3>2
    <3>4. QED
      BY <3>1, <3>3 DEF AuditInv, DraftsAudited
  <2>4. QED
    BY <2>2, <2>3
<1>11. EmitsBacked'
  <2>1. ASSUME NEW x \in Elems(q), x.op = "emit"
        PROVE  /\ q # << >> /\ Head(q).op = "create" /\ Head(q).id = x.id
               /\ x.to \in Head(q).intent.history
    BY <1>1, <1>4, <1>5, <2>1 DEF Fresh
  <2>2. /\ stored \subseteq stored'
        /\ \A j \in stored : intents[j].history \subseteq intents'[j].history
    BY <1>1
  <2>3. QED
    BY <1>2, <2>1, <2>2, EmitsFrame
<1>12. CasesBacked'
  <2>1. \A x \in Elems(q) : x.op # "open_case"
    BY <1>4, <1>5
  <2>2. \A j \in Intents : chargebacks[j] # << >> => chargebacks'[j] # << >>
    BY <1>1
  <2>3. QED
    BY <1>2, <2>1, <2>2, CasesFrame
<1>13. DisputeRecorded'
  BY <1>1 DEF AuditInv, DisputeRecorded
<1>14. QED
  BY <1>8, <1>9, <1>10, <1>11, <1>12, <1>13 DEF AuditInv

\* A chargeback webhook audits nothing by itself, and opens a dispute only
\* after it has recorded the case.
LEMMA ChargebackElems ==
  ASSUME NEW id \in Intents, NEW c \in Cases, NEW s \in ChargebackStage, NEW a, NEW found
  PROVE  LET q == ChargebackSteps(id, c, s, a, found)
         IN \A x \in Elems(q) :
              /\ x.op # "emit" /\ x.op # "add_row"
              /\ x.op = "open_case" => q # << >> /\ Head(q).op = "add_case" /\ Head(q).id = x.id
<1> DEFINE row == [case |-> c, stage |-> s]
           outcome == IF a = 0 THEN "chargeback_won" ELSE "chargeback_lost"
           add == [op |-> "add_case", id |-> id, row |-> row]
           open == [op |-> "open_case", id |-> id]
           update == [op |-> "update_case", row |-> row]
           close == [op |-> "close_case", id |-> id, to |-> outcome]
           q == ChargebackSteps(id, c, s, a, found)
<1>1. /\ add.op = "add_case" /\ add.id = id /\ open.op = "open_case" /\ open.id = id
      /\ update.op = "update_case" /\ close.op = "close_case"
  OBVIOUS
<1>2. q \in {<< add >> \o << open >>, << add >> \o << >>, << update >> \o << close >>,
             << update >> \o << >>}
  BY DEF ChargebackSteps
<1> HIDE DEF add, open, update, close, q
<1>3. add \in Op /\ open \in Op /\ update \in Op /\ close \in Op
  BY OpTypes DEF CaseRow, add, open, update, close
<1>4. /\ << add >> \in Seq(Op) /\ << open >> \in Seq(Op) /\ << >> \in Seq(Op)
      /\ << update >> \in Seq(Op) /\ << close >> \in Seq(Op)
  BY <1>3
<1>5. /\ Elems(<< add >>) = {add} /\ Elems(<< open >>) = {open} /\ Elems(<< >>) = {}
      /\ Elems(<< update >>) = {update} /\ Elems(<< close >>) = {close}
  BY TupleElems
<1>6. CASE q = << add >> \o << open >>
  <2>1. q # << >> /\ Head(q) = add
    BY <1>3, <1>4, <1>6
  <2>2. Elems(q) \subseteq {add, open}
    BY <1>4, <1>5, <1>6, ConcatElems
  <2>3. QED
    BY <1>1, <2>1, <2>2 DEF q
<1>7. CASE q \in {<< add >> \o << >>, << update >> \o << close >>, << update >> \o << >>}
  <2>1. Elems(q) \subseteq {add, update, close}
    BY <1>4, <1>5, <1>7, ConcatElems
  <2>2. QED
    BY <1>1, <2>1 DEF q
<1>8. QED
  BY <1>2, <1>6, <1>7

LEMMA WebhookAudits ==
  ASSUME AuditInv, LedgerInv', NEW t \in Threads, NEW id \in Intents, NEW c \in Cases,
         NEW s \in ChargebackStage, NEW a, NEW o, ChargebackWebhook(t, id, c, s, a, o)
  PROVE  AuditInv'
<1> DEFINE q == ChargebackSteps(id, c, s, a, HasCase(id, c) /\ o # "sql_error")
<1>1. /\ Idle(t) /\ todo' = [todo EXCEPT ![t] = q]
      /\ UNCHANGED <<issued, stored, intents, audit, chargebacks>>
  BY DEF ChargebackWebhook
<1>2. NoCreate(q)
  BY ChargebackStepsNoCreate
<1>3. \A x \in Elems(q) :
        /\ x.op # "emit"
        /\ x.op = "open_case" => q # << >> /\ Head(q).op = "add_case" /\ Head(q).id = x.id
  BY ChargebackElems
<1>4. TypeOK
  BY DEF AuditInv, LedgerInv, SafetyInv
<1> HIDE DEF q
<1>5. ASSUME NEW j, NEW state, Pending(j, state)
      PROVE  \E u \in Threads : \E x \in Elems(todo'[u]) : Emits(x, j, state)
  <2>1. Pending(j, state)'
    BY <1>1, <1>4, <1>5, PendingLeft DEF Runs
  <2>2. QED
    BY <2>1 DEF Pending
<1>6. StoredAudited'
  <2> SUFFICES ASSUME NEW j \in stored
               PROVE  /\ audit[j] \subseteq intents[j].history
                      /\ \/ intents[j].status \in audit[j]
                         \/ \E u \in Threads : \E x \in Elems(todo'[u]) :
                              Emits(x, j, intents[j].status)
    BY <1>1 DEF StoredAudited, Pending, Elems, Emits
  <2>1. /\ audit[j] \subseteq intents[j].history
        /\ intents[j].status \in audit[j] \/ Pending(j, intents[j].status)
    BY DEF AuditInv, StoredAudited
  <2>2. QED
    BY <1>5, <2>1
<1>7. DraftsAudited'
  BY <1>1, <1>2, DraftsFrame
<1>8. EmitsBacked'
  BY <1>1, <1>3, EmitsFrame
<1>9. CasesBacked'
  BY <1>1, <1>3, CasesFrame
<1>10. UnissuedSilent' /\ DisputeRecorded'
  BY <1>1 DEF AuditInv, UnissuedSilent, DisputeRecorded
<1>11. QED
  BY <1>6, <1>7, <1>8, <1>9, <1>10 DEF AuditInv

LEMMA PassAudits ==
  ASSUME StoreKind = "mem", AuditInv, LedgerInv', NEW t \in Threads, Passes(t)
  PROVE  AuditInv'
<1> DEFINE h == Head(todo[t])
<1>1. TypeOK /\ chargebacks \in [Intents -> Seq(CaseRow)]
  BY DEF AuditInv, LedgerInv, SafetyInv, TypeOK
<1>2. CASE AddRow(t) \/ EmitTransition(t) \/ DisputeIgnored(t)
  <2>1. /\ ~Idle(t) /\ h.op \in {"add_row", "emit", "open_case", "close_case"}
        /\ todo' = [todo EXCEPT ![t] = Tail(todo[t])]
        /\ UNCHANGED <<issued, stored, intents, chargebacks>>
    BY <1>2 DEF AddRow, EmitTransition, DisputeIgnored, PopOp, Doing, Idle
  <2>2. \/ h.op # "emit" /\ audit' = audit
        \/ h.op = "emit" /\ audit' = [audit EXCEPT ![h.id] = @ \cup {h.to}]
    BY <1>2 DEF AddRow, EmitTransition, DisputeIgnored, Doing
  <2>3. QED
    BY <2>1, <2>2, PopAudits
<1>3. CASE AddChargeback(t)
  <2>1. /\ ~Idle(t) /\ h.op = "add_case" /\ todo' = [todo EXCEPT ![t] = Tail(todo[t])]
        /\ UNCHANGED <<issued, stored, intents, audit>>
        /\ chargebacks' = [chargebacks EXCEPT ![h.id] = Append(chargebacks[h.id], h.row)]
    BY <1>3 DEF AddChargeback, MemAddChargeback, PopOp, Doing, Idle
  <2>2. h.id \in Intents /\ h.row \in CaseRow
    BY <1>1, <2>1, HeadTail, OpFields DEF Idle
  <2> HIDE DEF h
  <2>3. Append(chargebacks[h.id], h.row) # << >>
    BY <1>1, <2>2
  <2>4. chargebacks'[h.id] # << >> /\ \A j \in Intents \ {h.id} : chargebacks'[j] = chargebacks[j]
    BY <1>1, <2>1, <2>2, <2>3
  <2>5. QED
    BY <2>1, <2>4, PopAudits DEF h
<1>4. CASE UpdateChargeback(t)
  <2>1. /\ ~Idle(t) /\ h.op = "update_case" /\ todo' = [todo EXCEPT ![t] = Tail(todo[t])]
        /\ UNCHANGED <<issued, stored, intents, audit>>
        /\ \/ UNCHANGED chargebacks
           \/ \E id \in Intents : \E k \in DOMAIN chargebacks[id] :
                chargebacks' = [chargebacks EXCEPT ![id][k] = h.row]
    BY <1>4 DEF UpdateChargeback, PopOp, Doing, Idle
  <2>2. ASSUME NEW id \in Intents, NEW k \in DOMAIN chargebacks[id],
               chargebacks' = [chargebacks EXCEPT ![id][k] = h.row]
        PROVE  \A j \in Intents : chargebacks[j] # << >> => chargebacks'[j] # << >>
    <3>1. DOMAIN chargebacks'[id] = DOMAIN chargebacks[id]
      BY <1>1, <2>2
    <3>2. chargebacks'[id] # << >>
      BY <3>1
    <3>3. \A j \in Intents \ {id} : chargebacks'[j] = chargebacks[j]
      BY <1>1, <2>2
    <3>4. QED
      BY <3>2, <3>3
  <2>3. QED
    BY <2>1, <2>2, PopAudits
<1>5. ASSUME InsertLost(t) \/ Crash(t)
      PROVE  FALSE
  BY <1>5, ServiceAssumption DEF InsertLost, Crash, Outcomes
<1>6. QED
  BY <1>2, <1>3, <1>4, <1>5, WebhookAudits DEF Passes

LEMMA AuditInit == Init => AuditInv
<1> SUFFICES ASSUME Init
             PROVE  AuditInv
  OBVIOUS
<1>1. LedgerInv
  BY LedgerInit
<1>2. UnissuedSilent /\ StoredAudited /\ DisputeRecorded
  BY DEF Init, UnissuedSilent, StoredAudited, DisputeRecorded
<1>3. \A t \in Threads : todo[t] = << >> /\ Elems(todo[t]) = {}
  BY TupleElems DEF Init
<1>4. DraftsAudited /\ EmitsBacked /\ CasesBacked
  BY <1>3 DEF DraftsAudited, EmitsBacked, CasesBacked, Doing
<1>5. QED
  BY <1>1, <1>2, <1>4 DEF AuditInv

LEMMA AuditStep ==
  ASSUME AmountsFit, StoreKind = "mem"
  PROVE  AuditInv /\ [Next]_vars => AuditInv'
<1> SUFFICES ASSUME AuditInv, [Next]_vars
             PROVE  AuditInv'
  OBVIOUS
<1>1. SafetyInv /\ LedgerInv'
  BY LedgerStep DEF AuditInv, LedgerInv
<1>2. ASSUME NEW t \in Threads, Request(t) \/ Continue(t) \/ InsertLost(t) \/ Crash(t)
      PROVE  AuditInv'
  <2>1. Shaped(t)
    BY <1>1, <1>2, StepShape
  <2>2. QED
    BY <1>1, <2>1, CreateAudits, StoreAudits, UpdateAudits, PassAudits
       DEF Shaped, Drafts
<1>3. UNCHANGED <<issued, stored, intents, audit, chargebacks, todo>> => AuditInv'
  BY <1>1 DEF AuditInv, UnissuedSilent, StoredAudited, DraftsAudited, EmitsBacked, CasesBacked,
              DisputeRecorded, Pending, Doing
<1>4. QED
  BY <1>2, <1>3 DEF Next, WindowElapses, vars

-----------------------------------------------------------------------------
(* What follows.                                                           *)

\* AuditInv holds in every reachable state of the service on MemStore, whatever
\* answers of the rail are lost.
THEOREM AuditInvariant ==
  ASSUME AmountsFit, StoreKind = "mem"
  PROVE  Spec => []AuditInv
<1>1. Init => AuditInv
  BY AuditInit
<1>2. AuditInv /\ [Next]_vars => AuditInv'
  BY AuditStep
<1>3. QED
  BY <1>1, <1>2, PTL DEF Spec

\* On MemStore the audit stream reports nothing that did not happen, although
\* CreateIntent emits its last event after other handlers may move the intent.
THEOREM AuditTellsTruth ==
  ASSUME AmountsFit, StoreKind = "mem"
  PROVE  Spec => []AuditSound
<1>1. AuditInv => AuditSound
  BY DEF AuditInv, StoredAudited, AuditSound
<1>2. QED
  BY <1>1, AuditInvariant, PTL

\* On MemStore the status of an intent is audited, at the latest when no
\* handler is left that still has to emit an event of it.
THEOREM AuditMissesNothing ==
  ASSUME AmountsFit, StoreKind = "mem"
  PROVE  Spec => []AuditComplete
<1>1. AuditInv => AuditComplete
  BY DEF AuditInv, StoredAudited, AuditComplete, Pending, Emits, Elems
<1>2. QED
  BY <1>1, AuditInvariant, PTL

\* On MemStore a disputed intent has a chargeback row, although the row and the
\* status are written by separate calls of the webhook's handler.
THEOREM DisputesAreRecorded ==
  ASSUME AmountsFit, StoreKind = "mem"
  PROVE  Spec => []DisputeRecorded
<1>1. AuditInv => DisputeRecorded
  BY DEF AuditInv
<1>2. QED
  BY <1>1, AuditInvariant, PTL

-----------------------------------------------------------------------------
(* Sums over finite sets.                                                  *)

\* A set of subsets of a finite set has a minimal member.  It stands in for
\* induction over finite sets.
LEMMA MinimalSubset ==
  ASSUME NEW T, IsFiniteSet(T), NEW A \in SUBSET (SUBSET T), A # {}
  PROVE  \E U \in A : \A V \in A : ~(V \subseteq U /\ V # U)
<1>1. IsWellFoundedOn(StrictSubsetOrdering(T), SUBSET T)
  BY FS_StrictSubsetOrderingWellFounded, FS_FiniteSubsetsOfFinite
<1>2. PICK U \in A : \A V \in A : ~(<<V, U>> \in StrictSubsetOrdering(T))
  BY <1>1, WFMin
<1>3. ASSUME NEW V \in A, V \subseteq U, V # U PROVE <<V, U>> \in StrictSubsetOrdering(T)
  BY <1>3 DEF StrictSubsetOrdering
<1>4. \A V \in A : ~(V \subseteq U /\ V # U)
  BY <1>2, <1>3
<1>5. QED
  BY <1>4

\* S[U] is the sum of f over U, for every subset U of T.
Tallies(S, T, f) ==
  /\ S \in [SUBSET T -> Int] /\ S[{}] = 0
  /\ \A U \in SUBSET T : \A c \in U : S[U] = S[U \ {c}] + f[c]

LEMMA TallyExtends ==
  ASSUME NEW U, NEW f, \A x \in U : f[x] \in Int, NEW c \in U, NEW S, Tallies(S, U \ {c}, f)
  PROVE  \E R : Tallies(R, U, f)
<1> DEFINE R == [V \in SUBSET U |-> IF c \in V THEN S[V \ {c}] + f[c] ELSE S[V]]
<1>1. /\ S \in [SUBSET (U \ {c}) -> Int] /\ S[{}] = 0
      /\ \A V \in SUBSET (U \ {c}) : \A d \in V : S[V] = S[V \ {d}] + f[d]
  BY DEF Tallies
<1>2. ASSUME NEW V \in SUBSET U
      PROVE  /\ V \ {c} \in SUBSET (U \ {c}) /\ (c \notin V => V \in SUBSET (U \ {c}))
             /\ R[V] = IF c \in V THEN S[V \ {c}] + f[c] ELSE S[V]
             /\ R[V] \in Int
  BY <1>1
<1>3. R \in [SUBSET U -> Int] /\ R[{}] = 0
  BY <1>1, <1>2
<1>4. ASSUME NEW V \in SUBSET U, NEW d \in V PROVE R[V] = R[V \ {d}] + f[d]
  <2>1. V \ {d} \in SUBSET U /\ f[d] \in Int /\ f[c] \in Int
    OBVIOUS
  <2>2. CASE d = c
    <3>1. R[V] = S[V \ {c}] + f[c] /\ R[V \ {c}] = S[V \ {c}]
      BY <1>2, <2>1, <2>2
    <3>2. QED
      BY <2>2, <3>1
  <2>3. CASE d # c /\ c \in V
    <3>1. R[V] = S[V \ {c}] + f[c] /\ R[V \ {d}] = S[(V \ {d}) \ {c}] + f[c]
      BY <1>2, <2>1, <2>3
    <3>2. V \ {c} \in SUBSET (U \ {c}) /\ d \in V \ {c}
      BY <2>3
    <3>5. S[(V \ {d}) \ {c}] = S[(V \ {c}) \ {d}]
      <4>1. (V \ {d}) \ {c} = (V \ {c}) \ {d}
        OBVIOUS
      <4>2. QED
        BY <4>1, Zenon
    <3> HIDE DEF R
    <3>3. S[V \ {c}] = S[(V \ {c}) \ {d}] + f[d] /\ S[(V \ {c}) \ {d}] \in Int
      BY <1>1, <3>2
    <3>4. QED
      BY <2>1, <3>1, <3>3, <3>5
  <2>4. CASE d # c /\ c \notin V
    <3>1. R[V] = S[V] /\ R[V \ {d}] = S[V \ {d}] /\ V \in SUBSET (U \ {c})
      BY <1>2, <2>1, <2>4
    <3>2. QED
      BY <1>1, <3>1
  <2>5. QED
    BY <2>2, <2>3, <2>4
<1>5. Tallies(R, U, f)
  BY <1>3, <1>4 DEF Tallies
<1>6. QED
  BY <1>5

LEMMA TallyExists ==
  ASSUME NEW T, IsFiniteSet(T), NEW f \in [T -> Int]
  PROVE  \E S : Tallies(S, T, f)
<1> DEFINE A == {U \in SUBSET T : ~\E S : Tallies(S, U, f)}
<1> SUFFICES ASSUME A # {} PROVE FALSE
  OBVIOUS
<1>1. PICK U \in A : \A V \in A : ~(V \subseteq U /\ V # U)
  <2>1. A \in SUBSET (SUBSET T)
    OBVIOUS
  <2> HIDE DEF A
  <2>2. QED
    BY <2>1, MinimalSubset
<1>2. U # {}
  <2>1. Tallies([V \in SUBSET {} |-> 0], {}, f)
    BY DEF Tallies
  <2>2. QED
    BY <2>1
<1>3. PICK c \in U : TRUE
  BY <1>2
<1>4. PICK S : Tallies(S, U \ {c}, f)
  <2>1. U \ {c} \in SUBSET T /\ U \ {c} \subseteq U /\ U \ {c} # U
    OBVIOUS
  <2>2. U \ {c} \notin A
    BY <1>1, <2>1
  <2>3. QED
    BY <2>1, <2>2
<1>5. \E R : Tallies(R, U, f)
  BY <1>4, TallyExtends
<1>6. QED
  BY <1>5

\* SumFunction adds up what a tally says.
LEMMA SumIsTally ==
  ASSUME NEW T, IsFiniteSet(T), NEW f \in [T -> Int], NEW S, Tallies(S, T, f)
  PROVE  SumFunction(f) = S[T]
<1> DEFINE Is(g) == g = [s \in SUBSET T |->
                           IF s = {} THEN 0
                           ELSE f[CHOOSE x \in s : TRUE] + g[s \ {CHOOSE x \in s : TRUE}]]
           iter == CHOOSE g : Is(g)
<1>1. SumFunction(f) = iter[T]
  BY DEF SumFunction, SumFunctionOnSet, FoldFunctionOnSet, MapThenFoldSet
<1>2. /\ S \in [SUBSET T -> Int] /\ S[{}] = 0
      /\ \A U \in SUBSET T : \A c \in U : S[U] = S[U \ {c}] + f[c]
  BY DEF Tallies
<1>3. Is(S)
  <2>1. ASSUME NEW s \in SUBSET T
        PROVE  S[s] = IF s = {} THEN 0
                      ELSE f[CHOOSE x \in s : TRUE] + S[s \ {CHOOSE x \in s : TRUE}]
    <3>1. CASE s = {}
      BY <1>2, <3>1
    <3>2. CASE s # {}
      <4> DEFINE x == CHOOSE x \in s : TRUE
      <4>1. x \in s
        BY <3>2
      <4> HIDE DEF x
      <4>2. S[s] = S[s \ {x}] + f[x] /\ S[s \ {x}] \in Int /\ f[x] \in Int
        BY <1>2, <4>1
      <4>3. QED
        BY <3>2, <4>2 DEF x
    <3>3. QED
      BY <3>1, <3>2
  <2>2. QED
    BY <1>2, <2>1
<1>4. Is(iter)
  BY <1>3
<1> HIDE DEF iter
<1>5. ASSUME NEW s \in SUBSET T, s # {}
      PROVE  \E x \in s : iter[s] = f[x] + iter[s \ {x}]
  <2> DEFINE x == CHOOSE x \in s : TRUE
  <2>1. x \in s
    BY <1>5
  <2>2. iter[s] = f[x] + iter[s \ {x}]
    BY <1>4, <1>5
  <2>3. QED
    BY <2>1, <2>2
<1>6. iter[{}] = 0
  BY <1>4
<1> HIDE DEF Is
<1> DEFINE A == {U \in SUBSET T : iter[U] # S[U]}
<1>7. A = {}
  <2> SUFFICES ASSUME A # {} PROVE FALSE
    OBVIOUS
  <2>1. PICK U \in A : \A V \in A : ~(V \subseteq U /\ V # U)
    <3>1. A \in SUBSET (SUBSET T)
      OBVIOUS
    <3> HIDE DEF A
    <3>2. QED
      BY <3>1, MinimalSubset
  <2>2. U # {}
    BY <1>2, <1>6
  <2>3. PICK x \in U : iter[U] = f[x] + iter[U \ {x}]
    BY <1>5, <2>2
  <2>4. U \ {x} \in SUBSET T /\ U \ {x} \subseteq U /\ U \ {x} # U
    OBVIOUS
  <2>5. iter[U \ {x}] = S[U \ {x}]
    BY <2>1, <2>4
  <2>6. S[U] = S[U \ {x}] + f[x] /\ S[U \ {x}] \in Int /\ f[x] \in Int
    BY <1>2, <2>4
  <2>7. QED
    BY <2>3, <2>5, <2>6
<1>8. QED
  BY <1>1, <1>7

\* Changing one value changes the sum by the difference.
LEMMA SumUpdate ==
  ASSUME NEW T, IsFiniteSet(T), NEW f \in [T -> Int], NEW c \in T, NEW n \in Int
  PROVE  /\ SumFunction(f) \in Int
         /\ SumFunction([f EXCEPT ![c] = n]) = SumFunction(f) - f[c] + n
<1> DEFINE g == [f EXCEPT ![c] = n]
<1>1. PICK S : Tallies(S, T, f)
  BY TallyExists
<1> DEFINE R == [U \in SUBSET T |-> IF c \in U THEN S[U] - f[c] + n ELSE S[U]]
<1>2. /\ S \in [SUBSET T -> Int] /\ S[{}] = 0
      /\ \A U \in SUBSET T : \A d \in U : S[U] = S[U \ {d}] + f[d]
  BY <1>1 DEF Tallies
<1>3. R \in [SUBSET T -> Int] /\ R[{}] = 0
  BY <1>2
<1>4. ASSUME NEW U \in SUBSET T, NEW d \in U PROVE R[U] = R[U \ {d}] + g[d]
  <2>1. /\ U \ {d} \in SUBSET T /\ f[d] \in Int /\ f[c] \in Int /\ S[U \ {d}] \in Int
        /\ S[U] = S[U \ {d}] + f[d]
    BY <1>2
  <2>2. CASE d = c
    <3>1. R[U] = S[U] - f[c] + n /\ R[U \ {d}] = S[U \ {d}] /\ g[d] = n
      BY <2>1, <2>2
    <3>2. QED
      BY <2>1, <2>2, <3>1
  <2>3. CASE d # c /\ c \in U
    <3>1. R[U] = S[U] - f[c] + n /\ R[U \ {d}] = S[U \ {d}] - f[c] + n /\ g[d] = f[d]
      BY <2>1, <2>3
    <3>2. QED
      BY <2>1, <3>1
  <2>4. CASE d # c /\ c \notin U
    <3>1. R[U] = S[U] /\ R[U \ {d}] = S[U \ {d}] /\ g[d] = f[d]
      BY <2>1, <2>4
    <3>2. QED
      BY <2>1, <3>1
  <2>5. QED
    BY <2>2, <2>3, <2>4
<1>5. Tallies(R, T, g)
  BY <1>3, <1>4 DEF Tallies
<1>6. SumFunction(f) = S[T] /\ SumFunction(g) = R[T]
  <2>1. g \in [T -> Int]
    OBVIOUS
  <2> HIDE DEF g, R
  <2>2. QED
    BY <1>1, <1>5, <2>1, SumIsTally
<1>7. QED
  BY <1>2, <1>6

LEMMA SumOfZeros ==
  ASSUME NEW T, IsFiniteSet(T), NEW f \in [T -> Int], \A x \in T : f[x] = 0
  PROVE  SumFunction(f) = 0
<1> DEFINE S == [U \in SUBSET T |-> 0]
<1>1. Tallies(S, T, f) /\ S[T] = 0
  BY DEF Tallies
<1> HIDE DEF S
<1>2. QED
  BY <1>1, SumIsTally

-----------------------------------------------------------------------------
(* The row tables.                                                         *)

Booked(i, x) == IF x = "captures" THEN i.captured
                ELSE IF x = "refunds" THEN i.refunded ELSE i.settled

\* What table x of r has for id once the programs p have inserted their rows.
Total(r, p, id, x) == r[id][x] + InFlight(p, id, x)

\* A program inserts at most one row.
OneRow(q) == \A j, k \in DOMAIN q : q[j].op = "add_row" /\ q[k].op = "add_row" => j = k

StoredRows ==
  \A id \in stored, x \in Table : Booked(intents[id], x) = Total(rows, todo, id, x)

DraftRows ==
  \A t \in Threads, x \in Table : Doing(t, "create") =>
    Booked(Head(todo[t]).intent, x) = Total(rows, todo, Head(todo[t]).id, x)

UnissuedRows == \A id \in Intents \ issued, x \in Table : Total(rows, todo, id, x) = 0

\* Only one settlement counts, so that its sum is its amount.
SettledOnce == \A id \in stored : intents[id].status # "settled" => intents[id].settled = 0

RowsInv ==
  /\ LedgerInv
  /\ \A t \in Threads : OneRow(todo[t])
  /\ StoredRows
  /\ DraftRows
  /\ UnissuedRows
  /\ SettledOnce

-----------------------------------------------------------------------------
(* What programs owe the tables.                                           *)

LEMMA OwedNone ==
  ASSUME NEW q, \A k \in DOMAIN q : q[k].op # "add_row"
  PROVE  OneRow(q) /\ \A id, x : Owed(q, id, x) = 0
BY DEF OneRow, Owed

LEMMA OwedOne ==
  ASSUME NEW q, OneRow(q), NEW k \in DOMAIN q, q[k].op = "add_row", NEW id, NEW x
  PROVE  Owed(q, id, x) = IF q[k].id = id /\ q[k].table = x THEN q[k].amount ELSE 0
<1> DEFINE due == {j \in DOMAIN q : q[j].op = "add_row" /\ q[j].id = id /\ q[j].table = x}
<1>1. Owed(q, id, x) = IF due = {} THEN 0 ELSE q[CHOOSE j \in due : TRUE].amount
  BY DEF Owed
<1>2. \A j \in due : j = k
  BY DEF OneRow
<1>3. CASE q[k].id = id /\ q[k].table = x
  <2>1. due = {k}
    BY <1>2, <1>3
  <2> HIDE DEF due
  <2>2. QED
    BY <1>1, <1>3, <2>1
<1>4. CASE ~(q[k].id = id /\ q[k].table = x)
  <2>1. due = {}
    BY <1>2, <1>4
  <2> HIDE DEF due
  <2>2. QED
    BY <1>1, <1>4, <2>1
<1>5. QED
  BY <1>3, <1>4

LEMMA OwedType ==
  ASSUME NEW q \in Seq(Op), OneRow(q)
  PROVE  \A id, x : Owed(q, id, x) \in Int
<1>1. CASE \A k \in DOMAIN q : q[k].op # "add_row"
  BY <1>1, OwedNone
<1>2. ASSUME NEW k \in DOMAIN q, q[k].op = "add_row"
      PROVE  \A id, x : Owed(q, id, x) \in Int
  <2>1. q[k] \in Op
    OBVIOUS
  <2>2. q[k].amount \in Int
    BY <1>2, <2>1, OpFields, MaxIntAssumption DEF Int64
  <2>3. QED
    BY <1>2, <2>2, OwedOne
<1>3. QED
  BY <1>1, <1>2

\* Taking an operation off a program pays what that operation owed.
LEMMA OwedTail ==
  ASSUME NEW q \in Seq(Op), q # << >>, OneRow(q)
  PROVE  /\ OneRow(Tail(q))
         /\ \A id, x : Owed(q, id, x) =
              Owed(Tail(q), id, x)
              + IF Head(q).op = "add_row" /\ Head(q).id = id /\ Head(q).table = x
                THEN Head(q).amount ELSE 0
<1>1. /\ Len(q) \in Nat /\ Len(q) >= 1 /\ DOMAIN q = 1 .. Len(q) /\ Head(q) = q[1]
      /\ Tail(q) \in Seq(Op) /\ DOMAIN Tail(q) = 1 .. Len(q) - 1
      /\ \A k \in 1 .. Len(q) - 1 : Tail(q)[k] = q[k + 1]
  OBVIOUS
<1>2. OneRow(Tail(q))
  <2> SUFFICES ASSUME NEW j \in 1 .. Len(q) - 1, NEW k \in 1 .. Len(q) - 1,
                      q[j + 1].op = "add_row", q[k + 1].op = "add_row"
               PROVE  j = k
    BY <1>1 DEF OneRow
  <2>1. j + 1 \in DOMAIN q /\ k + 1 \in DOMAIN q
    BY <1>1
  <2>2. j + 1 = k + 1
    BY <2>1 DEF OneRow
  <2>3. QED
    BY <2>2
<1>3. CASE Head(q).op = "add_row"
  <2>1. 1 \in DOMAIN q /\ q[1].op = "add_row" /\ q[1] \in Op
    BY <1>1, <1>3
  <2>2. q[1].amount \in Int
    BY <2>1, OpFields, MaxIntAssumption DEF Int64
  <2>3. ASSUME NEW k \in DOMAIN Tail(q), Tail(q)[k].op = "add_row"
        PROVE  FALSE
    <3>1. k + 1 \in DOMAIN q /\ q[k + 1].op = "add_row" /\ k + 1 # 1
      BY <1>1, <2>3
    <3>2. QED
      BY <2>1, <3>1 DEF OneRow
  <2>4. \A id, x : Owed(Tail(q), id, x) = 0
    BY <2>3, OwedNone
  <2>5. \A id, x : Owed(q, id, x) = IF q[1].id = id /\ q[1].table = x THEN q[1].amount ELSE 0
    BY <2>1, OwedOne
  <2>6. QED
    BY <1>1, <1>2, <1>3, <2>2, <2>4, <2>5
<1>4. CASE Head(q).op # "add_row"
  <2>1. ASSUME NEW id, NEW x PROVE Owed(q, id, x) = Owed(Tail(q), id, x)
    <3>1. CASE \A k \in DOMAIN q : q[k].op # "add_row"
      <4>1. \A k \in DOMAIN Tail(q) : Tail(q)[k].op # "add_row"
        BY <1>1, <3>1
      <4>2. QED
        BY <3>1, <4>1, OwedNone
    <3>2. ASSUME NEW k \in DOMAIN q, q[k].op = "add_row"
          PROVE  Owed(q, id, x) = Owed(Tail(q), id, x)
      <4>1. k \in 1 .. Len(q) /\ k # 1
        BY <1>1, <1>4, <3>2
      <4>2. PICK m \in 1 .. Len(q) - 1 : m + 1 = k
        <5>1. k - 1 \in 1 .. Len(q) - 1 /\ (k - 1) + 1 = k
          BY <1>1, <4>1
        <5>2. QED
          BY <5>1
      <4>3. m \in DOMAIN Tail(q) /\ Tail(q)[m] = q[k]
        BY <1>1, <4>2
      <4>4. /\ Owed(q, id, x) = IF q[k].id = id /\ q[k].table = x THEN q[k].amount ELSE 0
            /\ Owed(Tail(q), id, x) = IF q[k].id = id /\ q[k].table = x THEN q[k].amount ELSE 0
        <5> DEFINE r == Tail(q)
        <5>1. m \in DOMAIN r /\ r[m] = q[k] /\ OneRow(r)
          BY <1>2, <4>3
        <5> HIDE DEF r
        <5>2. Owed(r, id, x) = IF q[k].id = id /\ q[k].table = x THEN q[k].amount ELSE 0
          BY <3>2, <5>1, OwedOne
        <5>3. QED
          BY <3>2, <5>2, OwedOne DEF r
      <4>5. QED
        BY <4>4
    <3>3. QED
      BY <3>1, <3>2
  <2>2. \A id, x : Owed(Tail(q), id, x) \in Int
    BY <1>1, <1>2, OwedType
  <2>3. QED
    BY <1>2, <1>4, <2>1, <2>2
<1>5. QED
  BY <1>3, <1>4

LEMMA OwedRow ==
  ASSUME NEW id, NEW x, NEW a
  PROVE  /\ OneRow(AddRowOp(id, x, a))
         /\ \A j, y : Owed(AddRowOp(id, x, a), j, y) = IF j = id /\ y = x THEN a ELSE 0
<1> DEFINE add == [op |-> "add_row", id |-> id, table |-> x, amount |-> a]
           q == << add >>
<1>1. AddRowOp(id, x, a) = q
  BY DEF AddRowOp
<1>2. add.op = "add_row" /\ add.id = id /\ add.table = x /\ add.amount = a
  OBVIOUS
<1> HIDE DEF add
<1>3. DOMAIN q = {1} /\ q[1] = add
  OBVIOUS
<1> HIDE DEF q
<1>4. OneRow(q)
  BY <1>3 DEF OneRow
<1>5. ASSUME NEW j, NEW y
      PROVE  Owed(q, j, y) = IF j = id /\ y = x THEN a ELSE 0
  BY <1>2, <1>3, <1>4, OwedOne
<1>6. QED
  BY <1>1, <1>4, <1>5

\* A draft's program owes what the draft books, and nothing for another id.
LEMMA OwedDraft ==
  ASSUME NEW id, NEW i, NEW q, StoresAndEmits(q, id, i), Fresh(i)
  PROVE  /\ OneRow(q)
         /\ \A j : \A y \in Table : Owed(q, j, y) = IF j = id THEN Booked(i, y) ELSE 0
<1> DEFINE create == [op |-> "create", id |-> id, intent |-> i]
           row == [op |-> "add_row", id |-> id, table |-> "captures", amount |-> i.captured]
           emit == [op |-> "emit", id |-> id, to |-> i.status]
<1>1. \/ q = << create, emit >> /\ i.captured = 0
      \/ q = << create, row, emit >>
  BY DEF StoresAndEmits
<1>2. /\ create.op = "create" /\ emit.op = "emit" /\ row.op = "add_row"
      /\ row.id = id /\ row.table = "captures" /\ row.amount = i.captured
  OBVIOUS
<1>3. i.refunded = 0 /\ i.settled = 0
  BY DEF Fresh
<1> HIDE DEF create, row, emit
<1>4. CASE q = << create, emit >> /\ i.captured = 0
  <2>1. DOMAIN q = {1, 2} /\ q[1] = create /\ q[2] = emit
    BY <1>4
  <2>2. \A k \in DOMAIN q : q[k].op # "add_row"
    BY <1>2, <2>1
  <2>3. QED
    BY <1>3, <1>4, <2>2, OwedNone DEF Booked
<1>5. CASE q = << create, row, emit >>
  <2>1. DOMAIN q = {1, 2, 3} /\ q[1] = create /\ q[2] = row /\ q[3] = emit
    BY <1>5
  <2>2. \A k \in DOMAIN q : q[k].op = "add_row" => k = 2
    BY <1>2, <2>1
  <2>3. OneRow(q) /\ 2 \in DOMAIN q /\ q[2].op = "add_row"
    BY <1>2, <2>1, <2>2 DEF OneRow
  <2>4. \A j, y : Owed(q, j, y) = IF id = j /\ "captures" = y THEN i.captured ELSE 0
    BY <1>2, <2>1, <2>3, OwedOne
  <2>5. QED
    BY <1>3, <2>3, <2>4 DEF Booked, Table
<1>6. QED
  BY <1>1, <1>4, <1>5

\* A step of thread t changes what is in flight by what its program owes.
LEMMA InFlightStep ==
  ASSUME IsFiniteSet(Threads), TypeOK, \A u \in Threads : OneRow(todo[u]),
         NEW t \in Threads, NEW q \in Seq(Op), OneRow(q), todo' = [todo EXCEPT ![t] = q],
         NEW id, NEW x
  PROVE  /\ InFlight(todo, id, x) \in Int /\ InFlight(todo', id, x) \in Int
         /\ Owed(todo[t], id, x) \in Int /\ Owed(q, id, x) \in Int
         /\ InFlight(todo', id, x) = InFlight(todo, id, x) - Owed(todo[t], id, x) + Owed(q, id, x)
<1> DEFINE f == [u \in Threads |-> Owed(todo[u], id, x)]
           n == Owed(q, id, x)
<1>1. todo \in [Threads -> Seq(Op)]
  BY DEF TypeOK
<1>2. \A u \in Threads : Owed(todo[u], id, x) \in Int
  BY <1>1, OwedType
<1>3. f \in [Threads -> Int] /\ f[t] = Owed(todo[t], id, x) /\ n \in Int
  BY <1>2, OwedType
<1>4. todo'[t] = q /\ \A u \in Threads \ {t} : todo'[u] = todo[u]
  BY <1>1
<1>5. [u \in Threads |-> Owed(todo'[u], id, x)] = [f EXCEPT ![t] = n]
  <2>1. \A u \in Threads : Owed(todo'[u], id, x) = IF u = t THEN n ELSE f[u]
    <3> SUFFICES ASSUME NEW u \in Threads
                 PROVE  Owed(todo'[u], id, x) = IF u = t THEN n ELSE f[u]
      OBVIOUS
    <3>1. CASE u = t
      BY <1>4, <3>1
    <3>2. CASE u # t
      BY <1>4, <3>2
    <3>3. QED
      BY <3>1, <3>2
  <2>2. DOMAIN f = Threads
    OBVIOUS
  <2> HIDE DEF f, n
  <2>3. [f EXCEPT ![t] = n] = [u \in Threads |-> IF u = t THEN n ELSE f[u]]
    BY <2>2
  <2>4. QED
    BY <2>1, <2>3
<1>6. InFlight(todo, id, x) = SumFunction(f) /\ InFlight(todo', id, x) = SumFunction([f EXCEPT ![t] = n])
  BY <1>5 DEF InFlight
<1>7. f[t] \in Int
  BY <1>3
<1> HIDE DEF f, n
<1>8. SumFunction(f) \in Int /\ SumFunction([f EXCEPT ![t] = n]) = SumFunction(f) - f[t] + n
  BY <1>3, SumUpdate
<1>9. QED
  BY <1>3, <1>6, <1>7, <1>8 DEF n

-----------------------------------------------------------------------------
(* The row tables stay with the books, step by step.                       *)

\* A step that stores no draft, and books for each stored intent what it adds
\* to the tables or owes them.
LEMMA RowsFrame ==
  ASSUME IsFiniteSet(Threads), RowsInv, LedgerInv', NEW t \in Threads, NEW q \in Seq(Op),
         OneRow(q), NoCreate(q), todo' = [todo EXCEPT ![t] = q], UNCHANGED <<issued, stored>>,
         \A j \in Intents, x \in Table :
           (rows'[j][x] - rows[j][x]) + (Owed(q, j, x) - Owed(todo[t], j, x)) =
             IF j \in stored THEN Booked(intents'[j], x) - Booked(intents[j], x) ELSE 0,
         \A j \in stored : intents'[j].status # "settled" => intents'[j].settled = 0
  PROVE  RowsInv'
<1>1. /\ SafetyInv /\ TypeOK /\ TypeOK' /\ todo \in [Threads -> Seq(Op)]
      /\ rows \in [Intents -> [Table -> Int]] /\ rows' \in [Intents -> [Table -> Int]]
      /\ intents \in [Intents -> Intent] /\ intents' \in [Intents -> Intent]
      /\ stored \subseteq Intents /\ stored \subseteq issued /\ issued \subseteq Intents
      /\ \A u \in Threads : OneRow(todo[u])
  BY DEF RowsInv, LedgerInv, SafetyInv, TypeOK, DraftsSound
<1>2. ASSUME NEW j \in Intents, NEW x \in Table
      PROVE  /\ Total(rows, todo, j, x) \in Int /\ Total(rows', todo', j, x) \in Int
             /\ j \in stored => Total(rows', todo', j, x) - Total(rows, todo, j, x) =
                                 Booked(intents'[j], x) - Booked(intents[j], x)
             /\ j \notin stored => Total(rows', todo', j, x) = Total(rows, todo, j, x)
             /\ Booked(intents'[j], x) \in Int /\ Booked(intents[j], x) \in Int
  <2>1. /\ InFlight(todo, j, x) \in Int /\ InFlight(todo', j, x) \in Int
        /\ Owed(todo[t], j, x) \in Int /\ Owed(q, j, x) \in Int
        /\ InFlight(todo', j, x) = InFlight(todo, j, x) - Owed(todo[t], j, x) + Owed(q, j, x)
    <3>1. TypeOK /\ \A u \in Threads : OneRow(todo[u])
      BY <1>1
    <3>2. QED
      BY ONLY IsFiniteSet(Threads), <3>1, t \in Threads, q \in Seq(Op), OneRow(q),
              todo' = [todo EXCEPT ![t] = q], InFlightStep
  <2>2. rows[j][x] \in Int /\ rows'[j][x] \in Int
    BY <1>1
  <2>3. /\ Total(rows, todo, j, x) = rows[j][x] + InFlight(todo, j, x)
        /\ Total(rows', todo', j, x) = rows'[j][x] + InFlight(todo', j, x)
    BY DEF Total
  <2>4. /\ j \in stored => (rows'[j][x] - rows[j][x]) + (Owed(q, j, x) - Owed(todo[t], j, x)) =
                            Booked(intents'[j], x) - Booked(intents[j], x)
        /\ j \notin stored => (rows'[j][x] - rows[j][x]) + (Owed(q, j, x) - Owed(todo[t], j, x)) = 0
    BY Zenon
  <2>5. Booked(intents'[j], x) \in Int /\ Booked(intents[j], x) \in Int
    BY <1>1, MaxIntAssumption DEF Booked, Intent, Int64
  <2>6. /\ Total(rows, todo, j, x) \in Int /\ Total(rows', todo', j, x) \in Int
        /\ Total(rows', todo', j, x) - Total(rows, todo, j, x) =
             (rows'[j][x] - rows[j][x]) + (Owed(q, j, x) - Owed(todo[t], j, x))
    <3> DEFINE r == rows[j][x]
               s == rows'[j][x]
               f == InFlight(todo, j, x)
               g == InFlight(todo', j, x)
               m == Owed(todo[t], j, x)
               n == Owed(q, j, x)
    <3>1. /\ r \in Int /\ s \in Int /\ f \in Int /\ g \in Int /\ m \in Int /\ n \in Int
          /\ g = f - m + n
          /\ Total(rows, todo, j, x) = r + f /\ Total(rows', todo', j, x) = s + g
      BY ONLY <2>1, <2>2, <2>3
    <3> HIDE DEF r, s, f, g, m, n
    <3>2. /\ Total(rows, todo, j, x) \in Int /\ Total(rows', todo', j, x) \in Int
          /\ Total(rows', todo', j, x) - Total(rows, todo, j, x) = (s - r) + (n - m)
      BY ONLY <3>1
    <3>3. QED
      BY ONLY <3>2 DEF r, s, m, n
  <2>7. QED
    BY ONLY <2>4, <2>5, <2>6
<1>3. \A u \in Threads : OneRow(todo'[u])
  BY <1>1
<1>4. ASSUME NEW j \in stored, NEW x \in Table
      PROVE  Booked(intents'[j], x) = Total(rows', todo', j, x)
  <2>1. Booked(intents[j], x) = Total(rows, todo, j, x)
    BY DEF RowsInv, StoredRows
  <2>2. j \in Intents
    BY <1>1
  <2>3. QED
    BY ONLY <1>2, <2>1, <2>2, j \in stored, x \in Table
<1>5. ASSUME NEW j \in Intents \ stored, NEW x \in Table
      PROVE  Total(rows', todo', j, x) = Total(rows, todo, j, x)
  BY ONLY <1>2, j \in Intents \ stored, x \in Table
<1>6. DraftRows'
  <2> SUFFICES ASSUME NEW u \in Threads, Doing(u, "create")', NEW x \in Table
               PROVE  Booked(Head(todo'[u]).intent, x) =
                        Total(rows', todo', Head(todo'[u]).id, x)
    BY DEF DraftRows
  <2>1. todo'[u] = todo[u] /\ Doing(u, "create")
    BY <1>1, DraftsLeft
  <2>2. PICK j \in Intents \ stored : j = Head(todo[u]).id
    BY <1>1, <2>1, DraftFacts
  <2>3. Booked(Head(todo[u]).intent, x) = Total(rows, todo, j, x)
    BY <2>1, <2>2 DEF RowsInv, DraftRows
  <2>4. QED
    BY <1>5, <2>1, <2>2, <2>3
<1>7. StoredRows'
  BY <1>4 DEF StoredRows
<1>8. UnissuedRows'
  <2> SUFFICES ASSUME NEW j \in Intents \ issued, NEW x \in Table PROVE Total(rows', todo', j, x) = 0
    BY DEF UnissuedRows
  <2>1. j \in Intents \ stored /\ Total(rows, todo, j, x) = 0
    BY <1>1 DEF RowsInv, UnissuedRows
  <2>2. QED
    BY <1>5, <2>1
<1>9. SettledOnce'
  BY DEF SettledOnce
<1>10. QED
  BY <1>3, <1>6, <1>7, <1>8, <1>9 DEF RowsInv

\* A call of UpdateIntent on MemStore that leaves the record c and the program
\* rest, which owes what c books more than the intent did.
LEMMA UpdateRows ==
  ASSUME IsFiniteSet(Threads), StoreKind = "mem", RowsInv, LedgerInv', NEW t \in Threads,
         NEW id \in stored, NEW c \in Intent, NEW ok, NEW to, NEW rest \in Seq(Op), NEW o,
         CallEnds(o), o = "ok" \/ Idle(t), UpdateIntentStep(t, id, c, ok, to, rest, o),
         UNCHANGED <<issued, stored, rows>>, OneRow(rest), NoCreate(rest),
         \A j \in Intents, x \in Table :
           Owed(rest, j, x) - Owed(todo[t], j, x) =
             IF j = id THEN Booked(c, x) - Booked(intents[id], x) ELSE 0,
         c.status # "settled" => c.settled = 0
  PROVE  RowsInv'
<1>1. /\ SafetyInv /\ TypeOK /\ todo[t] \in Seq(Op) /\ OneRow(todo[t])
      /\ intents \in [Intents -> Intent] /\ rows \in [Intents -> [Table -> Int]]
      /\ stored \subseteq Intents /\ id \in Intents
      /\ \A j \in stored : intents[j].status # "settled" => intents[j].settled = 0
  BY DEF RowsInv, LedgerInv, SafetyInv, TypeOK, SettledOnce
<1>2. /\ \A j, x : Owed(todo[t], j, x) \in Int /\ Owed(rest, j, x) \in Int
      /\ \A j \in Intents, x \in Table : rows[j][x] \in Int /\ Booked(intents[j], x) \in Int
      /\ \A x \in Table : Booked(c, x) \in Int
  <2>1. \A i \in Intent : i.captured \in Int /\ i.refunded \in Int /\ i.settled \in Int
    BY MaxIntAssumption DEF Intent, Int64
  <2>2. \A i \in Intent, x \in Table : Booked(i, x) \in Int
    BY ONLY <2>1 DEF Booked
  <2>3. \A j, x : Owed(todo[t], j, x) \in Int /\ Owed(rest, j, x) \in Int
    BY <1>1, OwedType
  <2>4. QED
    BY ONLY <1>1, <2>2, <2>3, c \in Intent
<1>3. CASE o = "ok"
  <2>1. intents' = [intents EXCEPT ![id] = c] /\ todo' = [todo EXCEPT ![t] = rest]
    BY <1>3 DEF UpdateIntentStep, UpdateIntent, MemUpdateIntent
  <2>2. intents'[id] = c /\ \A j \in Intents \ {id} : intents'[j] = intents[j]
    BY <1>1, <2>1
  <2>3. ASSUME NEW j \in Intents, NEW x \in Table
        PROVE  (rows'[j][x] - rows[j][x]) + (Owed(rest, j, x) - Owed(todo[t], j, x)) =
                 IF j \in stored THEN Booked(intents'[j], x) - Booked(intents[j], x) ELSE 0
    <3>1. Owed(rest, j, x) - Owed(todo[t], j, x) =
            IF j = id THEN Booked(c, x) - Booked(intents[id], x) ELSE 0
      OBVIOUS
    <3>2. rows'[j][x] - rows[j][x] = 0
      BY <1>2
    <3>3. CASE j = id
      <4>1. Booked(intents'[j], x) = Booked(c, x) /\ Booked(intents[j], x) = Booked(intents[id], x)
        BY <2>2, <3>3
      <4>2. QED
        BY <1>1, <1>2, <3>1, <3>2, <3>3, <4>1
    <3>4. CASE j # id
      <4>1. Booked(intents'[j], x) = Booked(intents[j], x)
        BY <2>2, <3>4
      <4>2. Booked(intents'[j], x) - Booked(intents[j], x) = 0
        BY <1>2, <4>1
      <4>3. QED
        BY <3>1, <3>2, <3>4, <4>2
    <3>5. QED
      BY <3>3, <3>4
  <2>4. \A j \in stored : intents'[j].status # "settled" => intents'[j].settled = 0
    BY <1>1, <2>2
  <2>5. QED
    BY <2>1, <2>3, <2>4, RowsFrame
<1>4. CASE o = "reply_lost" /\ Idle(t)
  <2>1. intents' = intents /\ todo' = [todo EXCEPT ![t] = << >>] /\ todo[t] = << >>
    BY <1>4 DEF UpdateIntentStep, Idle
  <2>2. OneRow(<< >>) /\ NoCreate(<< >>) /\ << >> \in Seq(Op)
    BY EmptyNoCreate DEF OneRow
  <2>3. ASSUME NEW j \in Intents, NEW x \in Table
        PROVE  (rows'[j][x] - rows[j][x]) + (Owed(<< >>, j, x) - Owed(todo[t], j, x)) =
                 IF j \in stored THEN Booked(intents'[j], x) - Booked(intents[j], x) ELSE 0
    <3>1. Owed(<< >>, j, x) = 0
      BY OwedNone
    <3>2. Booked(intents'[j], x) = Booked(intents[j], x) /\ rows'[j][x] = rows[j][x]
      BY <2>1
    <3>3. QED
      BY <1>2, <2>1, <3>1, <3>2
  <2>4. \A j \in stored : intents'[j].status # "settled" => intents'[j].settled = 0
    BY <1>1, <2>1
  <2>5. QED
    BY <2>1, <2>2, <2>3, <2>4, RowsFrame
<1>5. QED
  BY <1>3, <1>4 DEF CallEnds

\* What the calls of UpdateIntent add to the amounts of an intent.
LEMMA CaptureBooks ==
  ASSUME NEW i \in Intent, NEW g \in Ledger, NEW a \in CaptureAmounts(i), Sound(i, g),
         CaptureAllowed(i, a)
  PROVE  LET c == ApplyCapture(i, a)
         IN c.captured = i.captured + a /\ c.refunded = i.refunded /\ c.settled = i.settled
<1> DEFINE c == [i EXCEPT !.captured = Wrap(@ + a)]
<1>1. /\ i.amount \in Int /\ i.captured \in Int /\ i.captured \in Int64
      /\ 0 < i.amount /\ 2 * i.amount <= MaxInt /\ MaxInt \in Int
      /\ 0 <= i.captured /\ i.captured < i.amount
  BY MaxIntAssumption DEF Sound, CaptureAllowed, Intent, Int64
<1>2. Wrap(i.amount - i.captured) = i.amount - i.captured
  BY <1>1, WrapFits
<1>3. a \in Int /\ a \in Int64 /\ 0 < a /\ a <= i.amount
  BY <1>1, <1>2, RequestAmountTypes, MaxIntAssumption DEF CaptureAmounts, Int64
<1>4. Wrap(i.captured + a) = i.captured + a /\ Wrap(i.captured + a) \in Int64
  BY <1>1, <1>3, WrapFits, WrapType
<1>5. c \in Intent /\ c.captured = i.captured + a /\ c.refunded = i.refunded /\ c.settled = i.settled
  BY <1>4 DEF Intent
<1>6. ApplyCapture(i, a) \in {Transition(c, "captured"), AppendEvent(c, "captured")}
  BY DEF ApplyCapture
<1> HIDE DEF c
<1>7. \A f \in {Transition(c, "captured"), AppendEvent(c, "captured")} :
        f.captured = c.captured /\ f.refunded = c.refunded /\ f.settled = c.settled
  BY <1>5, TransitionType DEF AppendEvent, Intent, Status
<1>8. QED
  BY <1>5, <1>6, <1>7

LEMMA RefundBooks ==
  ASSUME RailFits, NEW i \in Intent, NEW g \in Ledger, NEW a \in RefundAmounts(i), Sound(i, g),
         g.refunded + a <= RailLimit
  PROVE  LET c == ApplyRefund(i, a)
         IN c.refunded = i.refunded + a /\ c.captured = i.captured /\ c.settled = i.settled
<1> DEFINE c == [i EXCEPT !.refunded = Wrap(@ + a)]
           d == Transition(c, "refunding")
<1>1. /\ i.refunded \in Int64 /\ i.refunded \in Int /\ g.refunded \in Int /\ RailLimit \in Int
      /\ i.refunded <= g.refunded /\ 0 <= i.captured /\ i.captured \in Int64 /\ RailLimit <= MaxInt
      /\ MaxInt \in Int /\ -MaxInt - 1 <= i.refunded
  BY MaxIntAssumption, ServiceAssumption DEF RailFits, Sound, Intent, Ledger, Int64
<1>2. a \in Int64 /\ a \in Int /\ 0 <= a
  BY <1>1, RequestAmountTypes, MaxIntAssumption DEF RefundAmounts, Int64
<1>3. -MaxInt - 1 <= i.refunded + a /\ i.refunded + a <= MaxInt
  BY <1>1, <1>2
<1>4. Wrap(i.refunded + a) = i.refunded + a /\ Wrap(i.refunded + a) \in Int64
  BY <1>1, <1>2, <1>3, WrapType DEF Wrap
<1>5. c \in Intent /\ c.refunded = i.refunded + a /\ c.captured = i.captured /\ c.settled = i.settled
  BY <1>4 DEF Intent
<1>6. ApplyRefund(i, a) = Transition(d, "refunded")
  BY DEF ApplyRefund
<1>7. "refunding" \in Status /\ "refunded" \in Status
  BY DEF Status
<1> HIDE DEF c
<1>8. /\ d \in Intent /\ d.refunded = c.refunded /\ d.captured = c.captured
      /\ d.settled = c.settled
  BY <1>5, <1>7, TransitionType
<1> HIDE DEF d
<1>9. QED
  BY <1>5, <1>6, <1>7, <1>8, TransitionType

LEMMA SettlementBooks ==
  ASSUME NEW i \in Intent, NEW a \in Int64, i.status = "captured", i.settled = 0
  PROVE  LET c == ApplySettlement(i, a)
         IN /\ c.settled = a /\ c.captured = i.captured /\ c.refunded = i.refunded
            /\ c.status = "settled"
<1> DEFINE c == [i EXCEPT !.settled = Wrap(@ + a)]
           s == Transition(c, "settled")
<1>1. Wrap(i.settled + a) = a
  BY MaxIntAssumption DEF Wrap, Int64
<1>2. /\ c \in Intent /\ c.settled = a /\ c.captured = i.captured /\ c.refunded = i.refunded
      /\ c.status = "captured"
  BY <1>1 DEF Intent
<1>3. ApplySettlement(i, a) \in {s, AppendEvent(s, "reconciliation_break")}
  BY DEF ApplySettlement
<1> HIDE DEF c
<1>4. TransitionAllowed(c, "settled") /\ "settled" \in Status
  BY <1>2 DEF TransitionAllowed, IsTerminal, CanTransition, Status
<1>5. /\ s \in Intent /\ s.settled = a /\ s.captured = i.captured /\ s.refunded = i.refunded
      /\ s.status = "settled"
  BY <1>2, <1>4, TransitionType
<1> HIDE DEF s
<1>6. \A f \in {s, AppendEvent(s, "reconciliation_break")} :
        /\ f.settled = s.settled /\ f.captured = s.captured /\ f.refunded = s.refunded
        /\ f.status = s.status
  BY <1>5 DEF AppendEvent, Intent
<1>7. QED
  BY <1>3, <1>5, <1>6

\* A request that books nothing, and leaves nothing on its thread.
LEMMA QuietRows ==
  ASSUME IsFiniteSet(Threads), StoreKind = "mem", RowsInv, LedgerInv', NEW t \in Threads,
         NEW id \in stored, NEW c \in Intent, NEW ok, NEW to, NEW o, CallEnds(o), Idle(t),
         UpdateIntentStep(t, id, c, ok, to, << >>, o), UNCHANGED <<issued, stored, rows>>,
         SameMoney(intents[id], c), intents[id].status # "settled"
  PROVE  RowsInv'
<1>1. OneRow(<< >>) /\ NoCreate(<< >>) /\ << >> \in Seq(Op) /\ \A j, x : Owed(<< >>, j, x) = 0
  BY EmptyNoCreate, OwedNone
<1>2. intents[id] \in Intent
  BY DEF RowsInv, LedgerInv, SafetyInv, TypeOK
<1>3. intents[id].settled = 0
  BY DEF RowsInv, SettledOnce
<1>4. ASSUME NEW x \in Table
      PROVE  Booked(c, x) - Booked(intents[id], x) = 0
  <2>1. Booked(c, x) = Booked(intents[id], x)
    BY DEF Booked, SameMoney
  <2>2. Booked(c, x) \in Int
    BY MaxIntAssumption DEF Booked, Intent, Int64
  <2>3. QED
    BY ONLY <2>1, <2>2
<1>5. ASSUME NEW j \in Intents, NEW x \in Table
      PROVE  Owed(<< >>, j, x) - Owed(todo[t], j, x) =
               IF j = id THEN Booked(c, x) - Booked(intents[id], x) ELSE 0
  <2>1. Owed(<< >>, j, x) = 0 /\ Owed(todo[t], j, x) = 0
    BY <1>1 DEF Idle
  <2>2. QED
    BY ONLY <1>4, <2>1, x \in Table
<1>6. c.settled = 0
  BY <1>3 DEF SameMoney
<1>7. QED
  BY <1>1, <1>5, <1>6, UpdateRows

\* A request that books a in table x and leaves its row to be inserted.
LEMMA BookingRows ==
  ASSUME IsFiniteSet(Threads), StoreKind = "mem", RowsInv, LedgerInv', NEW t \in Threads,
         NEW id \in stored, NEW c \in Intent, NEW ok, NEW to, NEW o, CallEnds(o), Idle(t),
         NEW x \in Table, NEW a \in Int64,
         UpdateIntentStep(t, id, c, ok, to, AddRowOp(id, x, a), o),
         UNCHANGED <<issued, stored, rows>>,
         Booked(c, x) = Booked(intents[id], x) + a,
         \A y \in Table \ {x} : Booked(c, y) = Booked(intents[id], y),
         c.status # "settled" => c.settled = 0
  PROVE  RowsInv'
<1> DEFINE rest == AddRowOp(id, x, a)
<1>1. id \in Intents /\ intents[id] \in Intent /\ a \in Int
  BY MaxIntAssumption DEF RowsInv, LedgerInv, SafetyInv, TypeOK, Int64
<1>2. /\ rest \in Seq(Op) /\ OneRow(rest) /\ NoCreate(rest)
      /\ \A j, y : Owed(rest, j, y) = IF j = id /\ y = x THEN a ELSE 0
  BY <1>1, AddRowOpType, OwedRow, AddRowNoCreate
<1>3. \A y \in Table : Booked(intents[id], y) \in Int
  BY <1>1, MaxIntAssumption DEF Booked, Intent, Int64
<1> HIDE DEF rest
<1>4. ASSUME NEW j \in Intents, NEW y \in Table
      PROVE  Owed(rest, j, y) - Owed(todo[t], j, y) =
               IF j = id THEN Booked(c, y) - Booked(intents[id], y) ELSE 0
  <2>1. Owed(todo[t], j, y) = 0
    BY OwedNone DEF Idle
  <2>2. Owed(rest, j, y) = IF j = id /\ y = x THEN a ELSE 0
    BY <1>2
  <2>3. Booked(c, y) - Booked(intents[id], y) = IF y = x THEN a ELSE 0
    <3>1. CASE y = x
      <4>1. Booked(c, y) = Booked(intents[id], y) + a
        BY <3>1
      <4>2. QED
        BY ONLY <1>1, <1>3, <3>1, <4>1, y \in Table
    <3>2. CASE y # x
      <4>1. Booked(c, y) = Booked(intents[id], y)
        BY <3>2
      <4>2. QED
        BY ONLY <1>3, <3>2, <4>1, y \in Table
    <3>3. QED
      BY <3>1, <3>2
  <2>4. QED
    BY ONLY <1>1, <2>1, <2>2, <2>3
<1>5. QED
  BY <1>2, <1>4, UpdateRows DEF rest

LEMMA RequestRows ==
  ASSUME IsFiniteSet(Threads), StoreKind = "mem", RailFits, RowsInv, LedgerInv',
         NEW t \in Threads, NEW id \in Intents
  PROVE  /\ \A o : \A a \in CaptureAmounts(intents[id]) : CallEnds(o) /\ Capture(t, id, a, o) => RowsInv'
         /\ \A o : \A a \in RefundAmounts(intents[id]) : CallEnds(o) /\ Refund(t, id, a, o) => RowsInv'
         /\ \A o : CallEnds(o) /\ Void(t, id, o) => RowsInv'
         /\ \A o : \A a \in WebhookAmounts : CallEnds(o) /\ Settlement(t, id, a, o) => RowsInv'
<1> DEFINE i == intents[id]
           g == gateway[id]
<1>1. /\ i \in Intent /\ g \in Ledger /\ (id \in stored => Sound(i, g))
      /\ id \in stored /\ i.status # "settled" => i.settled = 0
      /\ "captures" \in Table /\ "refunds" \in Table /\ "settlements" \in Table
  BY DEF RowsInv, LedgerInv, SafetyInv, TypeOK, SettledOnce, Table
<1>2. ASSUME NEW a \in CaptureAmounts(i), NEW o, CallEnds(o), Capture(t, id, a, o)
      PROVE  RowsInv'
  <2> DEFINE c == ApplyCapture(i, a)
             ok == TRUE
             to == {c.status}
  <2>1. /\ id \in stored /\ Idle(t) /\ CaptureAllowed(i, a)
        /\ UpdateIntentStep(t, id, c, ok, to, AddRowOp(id, "captures", a), o)
        /\ UNCHANGED <<issued, stored, rows>>
    BY <1>2 DEF Capture
  <2>2. a \in Int64
    BY <1>1, RequestAmountTypes
  <2>3. /\ c \in Intent
        /\ c.captured = i.captured + a /\ c.refunded = i.refunded /\ c.settled = i.settled
    BY <1>1, <2>1, <2>2, CaptureType, CaptureBooks
  <2>4. c.settled = 0
    BY <1>1, <2>1, <2>3 DEF CaptureAllowed
  <2> HIDE DEF c, ok, to
  <2>5. /\ Booked(c, "captures") = Booked(intents[id], "captures") + a
        /\ \A y \in Table \ {"captures"} : Booked(c, y) = Booked(intents[id], y)
    BY <2>3 DEF Booked, Table
  <2>6. QED
    BY <1>1, <1>2, <2>1, <2>2, <2>3, <2>4, <2>5, BookingRows
<1>3. ASSUME NEW a \in RefundAmounts(i), NEW o, CallEnds(o), Refund(t, id, a, o)
      PROVE  RowsInv'
  <2> DEFINE c == ApplyRefund(i, a)
             ok == TransitionAllowed(i, "refunding")
             to == IF ok THEN {"refunded"} ELSE {}
  <2>1. /\ id \in stored /\ Idle(t) /\ RefundAllowed(i, a) /\ g.refunded + a <= RailLimit
        /\ UpdateIntentStep(t, id, c, ok, to, AddRowOp(id, "refunds", a), o)
        /\ UNCHANGED <<issued, stored, rows>>
    BY <1>3 DEF Refund
  <2>2. a \in Int64
    BY <1>1, RequestAmountTypes
  <2>3. /\ c \in Intent
        /\ c.refunded = i.refunded + a /\ c.captured = i.captured /\ c.settled = i.settled
    BY <1>1, <2>1, <2>2, RefundType, RefundBooks
  <2>4. c.status # "settled" => c.settled = 0
    <3>1. i.status = "settled" => c.status = "settled"
      <4>1. Requested(i, g, c, RailRefund(g, a), ok, to)
        BY <1>1, <2>1, RefundEffect
      <4>2. QED
        BY <4>1 DEF Requested, Captures, Voids, Refunds, FailsChallenge, PassesChallenge, Settles
    <3>2. QED
      BY <1>1, <2>1, <2>3, <3>1
  <2> HIDE DEF c, ok, to
  <2>5. /\ Booked(c, "refunds") = Booked(intents[id], "refunds") + a
        /\ \A y \in Table \ {"refunds"} : Booked(c, y) = Booked(intents[id], y)
    BY <2>3 DEF Booked, Table
  <2>6. QED
    BY <1>1, <1>3, <2>1, <2>2, <2>3, <2>4, <2>5, BookingRows
<1>4. ASSUME NEW o, CallEnds(o), Void(t, id, o)
      PROVE  RowsInv'
  <2> DEFINE c == Transition(i, "voided")
  <2>1. /\ id \in stored /\ Idle(t) /\ i.status = "authorized"
        /\ UpdateIntentStep(t, id, c, TRUE, {"voided"}, << >>, o)
        /\ UNCHANGED <<issued, stored, rows>>
    BY <1>4 DEF Void
  <2>2. c \in Intent /\ SameMoney(i, c)
    BY <1>1, TransitionType DEF SameMoney, Status
  <2> HIDE DEF c
  <2>3. QED
    BY <1>4, <2>1, <2>2, QuietRows
<1>5. ASSUME NEW a \in WebhookAmounts, NEW o, CallEnds(o), Settlement(t, id, a, o)
      PROVE  RowsInv'
  <2> DEFINE c == ApplySettlement(i, a)
             ok == TRUE
             to == {"settled"}
  <2>1. /\ id \in stored /\ Idle(t) /\ i.status = "captured"
        /\ UpdateIntentStep(t, id, c, ok, to, AddRowOp(id, "settlements", a), o)
        /\ UNCHANGED <<issued, stored, rows>>
    BY <1>5 DEF Settlement
  <2>2. a \in Int64 /\ a \in Int /\ i.settled = 0
    BY <1>1, <2>1, ServiceAssumption, MaxIntAssumption DEF Int64
  <2>3. /\ c \in Intent /\ c.settled = a /\ c.captured = i.captured /\ c.refunded = i.refunded
        /\ c.status = "settled"
    BY <1>1, <2>1, <2>2, SettlementType, SettlementBooks
  <2> HIDE DEF c, ok, to
  <2>4. /\ Booked(c, "settlements") = Booked(intents[id], "settlements") + a
        /\ \A y \in Table \ {"settlements"} : Booked(c, y) = Booked(intents[id], y)
    BY <2>2, <2>3 DEF Booked, Table
  <2>5. QED
    BY <1>1, <1>5, <2>1, <2>2, <2>3, <2>4, BookingRows
<1>6. QED
  BY <1>2, <1>3, <1>4, <1>5

LEMMA ChallengeRows ==
  ASSUME IsFiniteSet(Threads), StoreKind = "mem", RowsInv, LedgerInv',
         NEW t \in Threads, NEW id \in Intents
  PROVE  /\ ChallengeExpired(t, id) \/ ChallengeRefused(t, id) => RowsInv'
         /\ ChallengeReplyLost(t, id) => RowsInv'
         /\ \A o : CallEnds(o) /\ ChallengeVerified(t, id, o) => RowsInv'
<1> DEFINE i == intents[id]
           failed == Transition(i, "failed")
           authorized == Transition(i, "authorized")
<1>1. /\ i \in Intent /\ todo \in [Threads -> Seq(Op)] /\ rows \in [Intents -> [Table -> Int]]
      /\ intents \in [Intents -> Intent] /\ stored \subseteq Intents
      /\ id \in stored /\ i.status # "settled" => i.settled = 0
  BY DEF RowsInv, LedgerInv, SafetyInv, TypeOK, SettledOnce
<1>2. /\ failed \in Intent /\ SameMoney(i, failed)
      /\ authorized \in Intent /\ SameMoney(i, authorized)
  BY <1>1, TransitionType DEF SameMoney, Status
<1>3. ASSUME ChallengeFails(t, id)
      PROVE  RowsInv'
  <2>1. /\ id \in stored /\ Idle(t) /\ i.status = "3ds_pending"
        /\ UpdateIntentStep(t, id, failed, FALSE, {"failed"}, << >>, "ok")
        /\ UNCHANGED <<issued, stored, rows>>
    BY <1>3 DEF ChallengeFails
  <2> HIDE DEF failed
  <2>2. QED
    BY <1>2, <2>1, OutcomeEnds, QuietRows
<1>4. ASSUME NEW o, CallEnds(o), ChallengeVerified(t, id, o)
      PROVE  RowsInv'
  <2>1. /\ id \in stored /\ Idle(t) /\ i.status = "3ds_pending"
        /\ UpdateIntentStep(t, id, authorized, TRUE, {"authorized"}, << >>, o)
        /\ UNCHANGED <<issued, stored, rows>>
    BY <1>4 DEF ChallengeVerified
  <2> HIDE DEF authorized
  <2>2. QED
    BY <1>2, <1>4, <2>1, QuietRows
<1>5. ASSUME ChallengeReplyLost(t, id)
      PROVE  RowsInv'
  <2>1. /\ id \in stored /\ Idle(t) /\ i.status = "3ds_pending"
        /\ intents' = [intents EXCEPT ![id] = failed]
        /\ UNCHANGED <<issued, stored, rows, todo>>
    BY <1>5 DEF ChallengeReplyLost, UpdateIntent, MemUpdateIntent
  <2>2. todo' = [todo EXCEPT ![t] = << >>] /\ todo[t] = << >>
    BY <1>1, <2>1 DEF Idle
  <2>3. OneRow(<< >>) /\ NoCreate(<< >>) /\ << >> \in Seq(Op)
    BY EmptyNoCreate DEF OneRow
  <2> HIDE DEF failed
  <2>4. intents'[id] = failed /\ \A j \in Intents \ {id} : intents'[j] = intents[j]
    BY <1>1, <2>1
  <2>5. ASSUME NEW j \in Intents, NEW x \in Table
        PROVE  (rows'[j][x] - rows[j][x]) + (Owed(<< >>, j, x) - Owed(todo[t], j, x)) =
                 IF j \in stored THEN Booked(intents'[j], x) - Booked(intents[j], x) ELSE 0
    <3>1. Owed(<< >>, j, x) = 0
      BY OwedNone
    <3>2. Booked(intents'[j], x) = Booked(intents[j], x)
      BY <1>2, <2>4 DEF Booked, SameMoney
    <3>3. Booked(intents[j], x) \in Int
      BY <1>1, MaxIntAssumption DEF Booked, Intent, Int64
    <3>4. rows'[j][x] = rows[j][x] /\ rows[j][x] \in Int
      BY <1>1, <2>1
    <3>5. QED
      BY ONLY <2>2, <3>1, <3>2, <3>3, <3>4
  <2>6. \A j \in stored : intents'[j].status # "settled" => intents'[j].settled = 0
    BY <1>1, <1>2, <2>1, <2>4 DEF RowsInv, SettledOnce, SameMoney
  <2>7. QED
    BY <2>1, <2>2, <2>3, <2>5, <2>6, RowsFrame
<1>6. QED
  BY <1>3, <1>4, <1>5 DEF ChallengeExpired, ChallengeRefused

\* An operation that moves no row takes its place and leaves the tables alone.
LEMMA PopRows ==
  ASSUME IsFiniteSet(Threads), RowsInv, LedgerInv', NEW t \in Threads, ~Idle(t),
         Head(todo[t]).op # "add_row", todo' = [todo EXCEPT ![t] = Tail(todo[t])],
         UNCHANGED <<issued, stored, intents, rows>>
  PROVE  RowsInv'
<1> DEFINE q == Tail(todo[t])
<1>1. /\ SafetyInv /\ todo[t] \in Seq(Op) /\ todo[t] # << >> /\ OneRow(todo[t])
      /\ intents \in [Intents -> Intent] /\ rows \in [Intents -> [Table -> Int]]
  BY DEF RowsInv, LedgerInv, SafetyInv, TypeOK, Idle
<1>2. q \in Seq(Op) /\ NoCreate(q)
  BY <1>1, TailNoCreate
<1>3. OneRow(q) /\ \A j, x : Owed(todo[t], j, x) = Owed(q, j, x) + 0
  BY <1>1, OwedTail
<1> HIDE DEF q
<1>4. ASSUME NEW j \in Intents, NEW x \in Table
      PROVE  (rows'[j][x] - rows[j][x]) + (Owed(q, j, x) - Owed(todo[t], j, x)) =
               IF j \in stored THEN Booked(intents'[j], x) - Booked(intents[j], x) ELSE 0
  <2>1. Owed(q, j, x) \in Int /\ Owed(todo[t], j, x) = Owed(q, j, x) + 0
    BY <1>2, <1>3, OwedType
  <2>2. rows'[j][x] = rows[j][x] /\ rows[j][x] \in Int
    BY <1>1
  <2>3. Booked(intents'[j], x) = Booked(intents[j], x) /\ Booked(intents[j], x) \in Int
    BY <1>1, MaxIntAssumption DEF Booked, Intent, Int64
  <2>4. QED
    BY ONLY <2>1, <2>2, <2>3
<1>5. \A j \in stored : intents'[j].status # "settled" => intents'[j].settled = 0
  BY DEF RowsInv, SettledOnce
<1>6. QED
  BY <1>2, <1>3, <1>4, <1>5, RowsFrame DEF q

\* Inserting a row adds to its table what the program owed.
LEMMA AddRowRows ==
  ASSUME IsFiniteSet(Threads), RowsInv, LedgerInv', NEW t \in Threads, AddRow(t)
  PROVE  RowsInv'
<1> DEFINE q == Tail(todo[t])
           h == Head(todo[t])
<1>1. /\ SafetyInv /\ TypeOK /\ todo[t] \in Seq(Op) /\ OneRow(todo[t])
      /\ intents \in [Intents -> Intent] /\ rows \in [Intents -> [Table -> Int]]
  BY DEF RowsInv, LedgerInv, SafetyInv, TypeOK
<1>2. /\ todo[t] # << >> /\ h.op = "add_row"
      /\ rows' = [rows EXCEPT ![h.id] = InsertRow(rows[h.id], h.table, h.amount)]
      /\ todo' = [todo EXCEPT ![t] = q]
      /\ UNCHANGED <<issued, stored, intents>>
  BY DEF AddRow, Doing, PopOp
<1>3. q \in Seq(Op) /\ NoCreate(q)
  BY <1>1, <1>2, TailNoCreate
<1>4. /\ OneRow(q)
      /\ \A j, x : Owed(todo[t], j, x) =
           Owed(q, j, x) + IF h.op = "add_row" /\ h.id = j /\ h.table = x THEN h.amount ELSE 0
  BY <1>1, <1>2, OwedTail
<1>5. h.id \in Intents /\ h.table \in Table /\ h.amount \in Int
  BY <1>1, <1>2, HeadTail, OpFields, MaxIntAssumption DEF Int64
<1> HIDE DEF q, h
<1>6. \A j \in Intents, x \in Table :
        rows'[j][x] = rows[j][x] + IF h.id = j /\ h.table = x THEN h.amount ELSE 0
  <2>1. /\ rows'[h.id] = [rows[h.id] EXCEPT ![h.table] = rows[h.id][h.table] + h.amount]
        /\ \A j \in Intents \ {h.id} : rows'[j] = rows[j]
    BY <1>1, <1>2, <1>5 DEF InsertRow
  <2>2. rows[h.id] \in [Table -> Int] /\ \A j \in Intents, x \in Table : rows[j][x] \in Int
    BY <1>1, <1>5
  <2>3. /\ rows'[h.id][h.table] = rows[h.id][h.table] + h.amount
        /\ \A x \in Table \ {h.table} : rows'[h.id][x] = rows[h.id][x]
    BY <1>5, <2>1, <2>2
  <2>4. QED
    BY <1>5, <2>1, <2>2, <2>3
<1>7. ASSUME NEW j \in Intents, NEW x \in Table
      PROVE  (rows'[j][x] - rows[j][x]) + (Owed(q, j, x) - Owed(todo[t], j, x)) =
               IF j \in stored THEN Booked(intents'[j], x) - Booked(intents[j], x) ELSE 0
  <2> DEFINE n == IF h.id = j /\ h.table = x THEN h.amount ELSE 0
  <2>1. Owed(q, j, x) \in Int /\ Owed(todo[t], j, x) = Owed(q, j, x) + n
    BY <1>2, <1>3, <1>4, OwedType
  <2>2. rows[j][x] \in Int /\ n \in Int
    BY <1>1, <1>5
  <2>3. rows'[j][x] = rows[j][x] + n
    BY <1>6
  <2>4. Booked(intents'[j], x) = Booked(intents[j], x) /\ Booked(intents[j], x) \in Int
    BY <1>1, <1>2, MaxIntAssumption DEF Booked, Intent, Int64
  <2> HIDE DEF n
  <2>5. QED
    BY ONLY <2>1, <2>2, <2>3, <2>4
<1>8. \A j \in stored : intents'[j].status # "settled" => intents'[j].settled = 0
  BY <1>2 DEF RowsInv, SettledOnce
<1>9. QED
  BY <1>2, <1>3, <1>4, <1>7, <1>8, RowsFrame

\* A dispute moves no amount.
LEMMA DisputeRows ==
  ASSUME IsFiniteSet(Threads), StoreKind = "mem", RowsInv, LedgerInv', NEW t \in Threads,
         NEW o \in Outcomes({"sql_error", "crash"}), OpenDispute(t, o) \/ CloseDispute(t, o)
  PROVE  RowsInv'
<1> DEFINE h == Head(todo[t])
           rest == Tail(todo[t])
<1>1. /\ SafetyInv /\ TypeOK /\ todo[t] \in Seq(Op) /\ OneRow(todo[t])
      /\ intents \in [Intents -> Intent]
  BY DEF RowsInv, LedgerInv, SafetyInv, TypeOK
<1>2. o = "ok" /\ CallEnds(o)
  BY OutcomeEnds DEF CallEnds
<1>3. /\ ~Idle(t) /\ h.op \in {"open_case", "close_case"} /\ todo[t] # << >>
      /\ UNCHANGED <<issued, stored, rows>>
  BY DEF OpenDispute, CloseDispute, DisputeStep, Doing, Idle
<1>4. h \in Op /\ h.id \in Intents
      /\ (h.op = "close_case" => h.to \in {"chargeback_won", "chargeback_lost"})
  BY <1>1, <1>3, HeadTail, OpFields
<1>5. rest \in Seq(Op) /\ NoCreate(rest)
  BY <1>1, <1>3, TailNoCreate
<1>6. OneRow(rest) /\ \A j, x : Owed(todo[t], j, x) = Owed(rest, j, x) + 0
  BY <1>1, <1>3, OwedTail
<1>7. ASSUME NEW from, NEW to \in Status, DisputeStep(t, h.id, from, to, o),
             h.id \in stored /\ intents[h.id].status \in from
      PROVE  RowsInv'
  <2> DEFINE i == intents[h.id]
             c == Transition(i, to)
             ok == TransitionAllowed(i, to)
             e == IF ok THEN {to} ELSE {}
  <2>1. UpdateIntentStep(t, h.id, c, ok, e, rest, o)
    BY <1>7 DEF DisputeStep
  <2>2. i \in Intent /\ (i.status # "settled" => i.settled = 0)
    BY <1>1, <1>4, <1>7 DEF RowsInv, SettledOnce
  <2>3. c \in Intent /\ SameMoney(i, c)
    BY <2>2, TransitionType DEF SameMoney
  <2>4. i.status = "settled" => c = i
    BY DEF Transition, TransitionAllowed, IsTerminal
  <2>5. c.status # "settled" => c.settled = 0
    BY <2>2, <2>3, <2>4 DEF SameMoney
  <2> HIDE DEF c, ok, e, rest, h
  <2>6. ASSUME NEW j \in Intents, NEW x \in Table
        PROVE  Owed(rest, j, x) - Owed(todo[t], j, x) =
                 IF j = h.id THEN Booked(c, x) - Booked(intents[h.id], x) ELSE 0
    <3>1. Owed(rest, j, x) \in Int /\ Owed(todo[t], j, x) = Owed(rest, j, x) + 0
      BY <1>5, <1>6, OwedType
    <3>2. Booked(c, x) = Booked(intents[h.id], x)
      BY <2>3 DEF Booked, SameMoney
    <3>3. Booked(c, x) \in Int
      BY <2>3, MaxIntAssumption DEF Booked, Intent, Int64
    <3>4. QED
      BY ONLY <3>1, <3>2, <3>3
  <2>7. QED
    BY <1>2, <1>3, <1>5, <1>6, <1>7, <2>1, <2>3, <2>5, <2>6, UpdateRows
<1>8. ASSUME NEW from, NEW to \in Status, DisputeStep(t, h.id, from, to, o),
             ~(h.id \in stored /\ intents[h.id].status \in from)
      PROVE  RowsInv'
  <2>1. todo' = [todo EXCEPT ![t] = Tail(todo[t])] /\ UNCHANGED <<issued, stored, intents, rows>>
    BY <1>8 DEF DisputeStep, PopOp
  <2>2. QED
    BY <1>3, <2>1, PopRows
<1>9. CASE OpenDispute(t, o)
  <2>1. DisputeStep(t, h.id, {"captured", "settled"}, "charged_back", o) /\ "charged_back" \in Status
    BY <1>9 DEF OpenDispute, Status
  <2>2. QED
    BY <1>7, <1>8, <2>1
<1>10. CASE CloseDispute(t, o)
  <2>1. DisputeStep(t, h.id, {"charged_back"}, h.to, o) /\ h.to \in Status
    BY <1>4, <1>10 DEF CloseDispute, Doing, Status
  <2>2. QED
    BY <1>7, <1>8, <2>1
<1>11. QED
  BY <1>9, <1>10

LEMMA WebhookRows ==
  ASSUME IsFiniteSet(Threads), RowsInv, LedgerInv', NEW t \in Threads, NEW id \in Intents,
         NEW c \in Cases, NEW s \in ChargebackStage, NEW a, NEW o,
         ChargebackWebhook(t, id, c, s, a, o)
  PROVE  RowsInv'
<1> DEFINE found == HasCase(id, c) /\ o # "sql_error"
           q == ChargebackSteps(id, c, s, a, found)
<1>1. /\ todo[t] = << >> /\ todo' = [todo EXCEPT ![t] = q]
      /\ UNCHANGED <<issued, stored, intents, rows>>
  BY DEF ChargebackWebhook, Idle
<1> HIDE DEF found
<1>2. q \in Seq(Op) /\ NoCreate(q)
  BY ChargebackStepsType, ChargebackStepsNoCreate
<1>3. \A x \in Elems(q) : x.op # "add_row"
  BY ChargebackElems
<1> HIDE DEF q
<1>4. /\ OneRow(q) /\ \A j, x : Owed(q, j, x) = 0
      /\ \A j, x : Owed(todo[t], j, x) = 0
  BY <1>1, <1>3, OwedNone DEF Elems
<1>5. intents \in [Intents -> Intent] /\ rows \in [Intents -> [Table -> Int]]
  BY DEF RowsInv, LedgerInv, SafetyInv, TypeOK
<1>6. ASSUME NEW j \in Intents, NEW x \in Table
      PROVE  (rows'[j][x] - rows[j][x]) + (Owed(q, j, x) - Owed(todo[t], j, x)) =
               IF j \in stored THEN Booked(intents'[j], x) - Booked(intents[j], x) ELSE 0
  <2>1. Owed(q, j, x) = 0 /\ Owed(todo[t], j, x) = 0
    BY <1>4
  <2>2. rows'[j][x] = rows[j][x] /\ rows[j][x] \in Int
    BY <1>1, <1>5
  <2>3. Booked(intents'[j], x) = Booked(intents[j], x) /\ Booked(intents[j], x) \in Int
    BY <1>1, <1>5, MaxIntAssumption DEF Booked, Intent, Int64
  <2>4. QED
    BY ONLY <2>1, <2>2, <2>3
<1>7. \A j \in stored : intents'[j].status # "settled" => intents'[j].settled = 0
  BY <1>1 DEF RowsInv, SettledOnce
<1>8. QED
  BY <1>1, <1>2, <1>4, <1>6, <1>7, RowsFrame

\* CreateIntent's draft takes an id no program and no table knows, and owes
\* the tables what it books.
LEMMA CreateRows ==
  ASSUME IsFiniteSet(Threads), RowsInv, LedgerInv', NEW t \in Threads, NEW id \in Intents,
         NEW i \in Intent, NEW g, NEW e, Creates(t, id, i, g, e)
  PROVE  RowsInv'
<1>1. /\ SafetyInv /\ TypeOK /\ \A u \in Threads : OneRow(todo[u])
      /\ todo \in [Threads -> Seq(Op)] /\ todo' \in [Threads -> Seq(Op)]
      /\ rows \in [Intents -> [Table -> Int]] /\ stored \subseteq issued /\ stored \subseteq Intents
  BY DEF RowsInv, LedgerInv, SafetyInv, TypeOK, DraftsSound
<1>2. PICK q : StoresAndEmits(q, id, i) /\ todo' = [todo EXCEPT ![t] = q]
  BY DEF Creates
<1>3. /\ id \notin issued /\ issued' = issued \cup {id} /\ Fresh(i) /\ todo[t] = << >>
      /\ UNCHANGED <<stored, intents, rows>>
  BY DEF Creates, Idle
<1>4. todo'[t] = q /\ q \in Seq(Op) /\ \A u \in Threads \ {t} : todo'[u] = todo[u]
  BY <1>1, <1>2
<1>5. OneRow(q) /\ \A j : \A y \in Table : Owed(q, j, y) = IF j = id THEN Booked(i, y) ELSE 0
  BY <1>2, <1>3, OwedDraft
<1>6. ASSUME NEW j \in Intents, NEW x \in Table
      PROVE  Total(rows', todo', j, x) =
               Total(rows, todo, j, x) + IF j = id THEN Booked(i, x) ELSE 0
  <2>1. /\ InFlight(todo, j, x) \in Int /\ InFlight(todo', j, x) \in Int
        /\ Owed(todo[t], j, x) \in Int /\ Owed(q, j, x) \in Int
        /\ InFlight(todo', j, x) = InFlight(todo, j, x) - Owed(todo[t], j, x) + Owed(q, j, x)
    <3>1. /\ TypeOK /\ \A u \in Threads : OneRow(todo[u])
          /\ q \in Seq(Op) /\ OneRow(q) /\ todo' = [todo EXCEPT ![t] = q]
      BY <1>1, <1>2, <1>4, <1>5
    <3>2. QED
      BY ONLY IsFiniteSet(Threads), <3>1, t \in Threads, InFlightStep
  <2>2. Owed(todo[t], j, x) = 0
    BY <1>3, OwedNone
  <2>3. Owed(q, j, x) = IF j = id THEN Booked(i, x) ELSE 0
    BY <1>5
  <2>4. rows'[j][x] = rows[j][x] /\ rows[j][x] \in Int
    BY <1>1, <1>3
  <2>5. Total(rows', todo', j, x) = Total(rows, todo, j, x) + Owed(q, j, x)
    <3>1. /\ Total(rows, todo, j, x) = rows[j][x] + InFlight(todo, j, x)
          /\ Total(rows', todo', j, x) = rows'[j][x] + InFlight(todo', j, x)
      BY DEF Total
    <3>2. QED
      BY ONLY <2>1, <2>2, <2>4, <3>1
  <2>6. QED
    BY ONLY <2>3, <2>5
<1>7. ASSUME NEW j \in Intents \ {id}, NEW x \in Table
      PROVE  Total(rows', todo', j, x) = Total(rows, todo, j, x)
  <2>1. Total(rows, todo, j, x) \in Int
    <3>1. InFlight(todo, j, x) \in Int
      <4>1. /\ TypeOK /\ \A u \in Threads : OneRow(todo[u])
            /\ q \in Seq(Op) /\ OneRow(q) /\ todo' = [todo EXCEPT ![t] = q]
        BY <1>1, <1>2, <1>4, <1>5
      <4>2. QED
        BY ONLY IsFiniteSet(Threads), <4>1, t \in Threads, InFlightStep
    <3>2. rows[j][x] \in Int
      BY <1>1
    <3>3. QED
      BY ONLY <3>1, <3>2 DEF Total
  <2>2. Total(rows', todo', j, x) = Total(rows, todo, j, x) + 0
    BY <1>6
  <2>3. QED
    BY ONLY <2>1, <2>2
<1>8. ASSUME NEW x \in Table
      PROVE  Booked(i, x) = Total(rows', todo', id, x)
  <2>1. Total(rows, todo, id, x) = 0
    BY <1>3 DEF RowsInv, UnissuedRows
  <2>2. Booked(i, x) \in Int
    BY MaxIntAssumption DEF Booked, Intent, Int64
  <2>3. Total(rows', todo', id, x) = Total(rows, todo, id, x) + Booked(i, x)
    BY <1>6
  <2>4. QED
    BY ONLY <2>1, <2>2, <2>3
<1>9. \A u \in Threads : OneRow(todo'[u])
  BY <1>1, <1>4, <1>5
<1>10. StoredRows'
  <2> SUFFICES ASSUME NEW j \in stored, NEW x \in Table
               PROVE  Booked(intents[j], x) = Total(rows', todo', j, x)
    BY <1>3 DEF StoredRows
  <2>1. j \in Intents \ {id} /\ Booked(intents[j], x) = Total(rows, todo, j, x)
    BY <1>1, <1>3 DEF RowsInv, StoredRows
  <2>2. QED
    BY <1>7, <2>1
<1>11. DraftRows'
  <2> SUFFICES ASSUME NEW u \in Threads, Doing(u, "create")', NEW x \in Table
               PROVE  Booked(Head(todo'[u]).intent, x) = Total(rows', todo', Head(todo'[u]).id, x)
    BY DEF DraftRows
  <2>1. CASE u = t
    <3> DEFINE create == [op |-> "create", id |-> id, intent |-> i]
    <3>1. Head(q) = create
      BY <1>2 DEF StoresAndEmits
    <3>2. create.id = id /\ create.intent = i
      OBVIOUS
    <3> HIDE DEF create
    <3>3. Head(todo'[u]).id = id /\ Head(todo'[u]).intent = i
      BY <1>4, <2>1, <3>1, <3>2
    <3>4. QED
      BY <1>8, <3>3
  <2>2. CASE u # t
    <3>1. todo'[u] = todo[u] /\ Doing(u, "create")
      BY <1>4, <2>2 DEF Doing
    <3>2. PICK j \in Intents \ {id} : j = Head(todo[u]).id
      BY <1>1, <1>3, <3>1, DraftFacts
    <3>3. Booked(Head(todo[u]).intent, x) = Total(rows, todo, j, x)
      BY <3>1, <3>2 DEF RowsInv, DraftRows
    <3>4. QED
      BY <1>7, <3>1, <3>2, <3>3
  <2>3. QED
    BY <2>1, <2>2
<1>12. UnissuedRows'
  <2> SUFFICES ASSUME NEW j \in Intents \ issued', NEW x \in Table PROVE Total(rows', todo', j, x) = 0
    BY DEF UnissuedRows
  <2>1. j \in Intents \ {id} /\ Total(rows, todo, j, x) = 0
    BY <1>3 DEF RowsInv, UnissuedRows
  <2>2. QED
    BY <1>7, <2>1
<1>13. SettledOnce'
  BY <1>3 DEF RowsInv, SettledOnce
<1>14. QED
  BY <1>9, <1>10, <1>11, <1>12, <1>13 DEF RowsInv

\* Storing a draft leaves its row to be inserted.
LEMMA StoreRows ==
  ASSUME IsFiniteSet(Threads), RowsInv, LedgerInv', NEW t \in Threads, StoreIntent(t)
  PROVE  RowsInv'
<1> DEFINE h == Head(todo[t])
           q == Tail(todo[t])
<1>1. /\ SafetyInv /\ TypeOK /\ TypeOK' /\ \A u \in Threads : OneRow(todo[u])
      /\ todo \in [Threads -> Seq(Op)] /\ rows \in [Intents -> [Table -> Int]]
      /\ intents \in [Intents -> Intent] /\ stored \subseteq Intents
  BY DEF RowsInv, LedgerInv, SafetyInv, TypeOK
<1>2. /\ Doing(t, "create") /\ h.op = "create" /\ todo[t] # << >>
      /\ stored' = stored \cup {h.id} /\ intents' = [intents EXCEPT ![h.id] = h.intent]
      /\ todo' = [todo EXCEPT ![t] = q] /\ UNCHANGED <<issued, rows>>
  BY DEF StoreIntent, PopOp, Doing
<1>3. h.id \in Intents /\ h.id \in issued \ stored
  BY <1>1, <1>2, DraftFacts
<1>4. Fresh(h.intent)
  BY <1>2 DEF RowsInv, LedgerInv, DraftsKept
<1>5. q \in Seq(Op) /\ NoCreate(q)
  BY <1>1, <1>2, TailNoCreate
<1>6. OneRow(q) /\ \A j, x : Owed(todo[t], j, x) = Owed(q, j, x) + 0
  BY <1>1, <1>2, OwedTail
<1>7. \A x \in Table : Booked(h.intent, x) = Total(rows, todo, h.id, x)
  BY <1>2 DEF RowsInv, DraftRows
<1>8. \A u \in Threads : Doing(u, "create")' => todo'[u] = todo[u] /\ Doing(u, "create")
  BY <1>1, <1>2, <1>5, DraftsLeft
<1> HIDE DEF h, q
<1>9. ASSUME NEW j \in Intents, NEW x \in Table
      PROVE  Total(rows', todo', j, x) = Total(rows, todo, j, x)
  <2>1. /\ InFlight(todo, j, x) \in Int /\ InFlight(todo', j, x) \in Int
        /\ Owed(todo[t], j, x) \in Int /\ Owed(q, j, x) \in Int
        /\ InFlight(todo', j, x) = InFlight(todo, j, x) - Owed(todo[t], j, x) + Owed(q, j, x)
    <3>1. /\ TypeOK /\ \A u \in Threads : OneRow(todo[u])
          /\ q \in Seq(Op) /\ OneRow(q) /\ todo' = [todo EXCEPT ![t] = q]
      BY <1>1, <1>2, <1>5, <1>6
    <3>2. QED
      BY ONLY IsFiniteSet(Threads), <3>1, t \in Threads, InFlightStep
  <2>2. Owed(todo[t], j, x) = Owed(q, j, x) + 0
    BY <1>6
  <2>3. rows'[j][x] = rows[j][x]
    BY <1>2
  <2>4. InFlight(todo', j, x) = InFlight(todo, j, x)
    BY ONLY <2>1, <2>2
  <2>5. QED
    BY ONLY <2>3, <2>4 DEF Total
<1>10. intents'[h.id] = h.intent /\ \A j \in stored : intents'[j] = intents[j]
  BY <1>1, <1>2, <1>3
<1>11. \A u \in Threads : OneRow(todo'[u])
  BY <1>1, <1>2, <1>6
<1>12. StoredRows'
  <2> SUFFICES ASSUME NEW j \in stored \cup {h.id}, NEW x \in Table
               PROVE  Booked(intents'[j], x) = Total(rows', todo', j, x)
    BY <1>2 DEF StoredRows
  <2>1. j \in Intents
    BY <1>1, <1>3
  <2>2. CASE j = h.id
    <3>1. Booked(intents'[j], x) = Booked(h.intent, x)
      BY <1>10, <2>2
    <3>2. Booked(h.intent, x) = Total(rows, todo, j, x)
      BY <1>7, <2>2
    <3>3. QED
      BY <1>9, <2>1, <3>1, <3>2
  <2>3. CASE j \in stored
    <3>1. Booked(intents'[j], x) = Booked(intents[j], x)
      BY <1>10, <2>3
    <3>2. Booked(intents[j], x) = Total(rows, todo, j, x)
      BY <2>3 DEF RowsInv, StoredRows
    <3>3. QED
      BY <1>9, <2>1, <3>1, <3>2
  <2>4. QED
    BY <2>2, <2>3
<1>13. DraftRows'
  <2> SUFFICES ASSUME NEW u \in Threads, Doing(u, "create")', NEW x \in Table
               PROVE  Booked(Head(todo'[u]).intent, x) = Total(rows', todo', Head(todo'[u]).id, x)
    BY DEF DraftRows
  <2>1. todo'[u] = todo[u] /\ Doing(u, "create")
    BY <1>8
  <2>2. PICK j \in Intents : j = Head(todo[u]).id
    BY <1>1, <2>1, DraftFacts
  <2>3. Booked(Head(todo[u]).intent, x) = Total(rows, todo, j, x)
    BY <2>1, <2>2 DEF RowsInv, DraftRows
  <2>4. QED
    BY <1>9, <2>1, <2>2, <2>3
<1>14. UnissuedRows'
  <2> SUFFICES ASSUME NEW j \in Intents \ issued, NEW x \in Table PROVE Total(rows', todo', j, x) = 0
    BY <1>2 DEF UnissuedRows
  <2>1. Total(rows, todo, j, x) = 0
    BY DEF RowsInv, UnissuedRows
  <2>2. QED
    BY <1>9, <2>1
<1>15. SettledOnce'
  BY <1>2, <1>4, <1>10 DEF RowsInv, SettledOnce, Fresh
<1>16. QED
  BY <1>11, <1>12, <1>13, <1>14, <1>15 DEF RowsInv

LEMMA RowsInit ==
  ASSUME IsFiniteSet(Threads)
  PROVE  Init => RowsInv
<1> SUFFICES ASSUME Init
             PROVE  RowsInv
  OBVIOUS
<1>1. LedgerInv
  BY LedgerInit
<1>2. /\ stored = {} /\ rows = [id \in Intents |-> [x \in Table |-> 0]]
      /\ todo = [t \in Threads |-> << >>]
  BY DEF Init
<1>3. \A t \in Threads : OneRow(todo[t]) /\ todo[t] = << >> /\ \A id, x : Owed(todo[t], id, x) = 0
  BY <1>2, OwedNone
<1>4. StoredRows /\ DraftRows /\ SettledOnce
  BY <1>2, <1>3 DEF StoredRows, DraftRows, SettledOnce, Doing
<1>5. UnissuedRows
  <2> SUFFICES ASSUME NEW id \in Intents, NEW x \in Table PROVE Total(rows, todo, id, x) = 0
    BY DEF UnissuedRows
  <2> DEFINE f == [t \in Threads |-> Owed(todo[t], id, x)]
  <2>1. \A t \in Threads : f[t] = 0
    BY <1>3
  <2>2. f \in [Threads -> Int]
    BY <1>3
  <2> HIDE DEF f
  <2>3. SumFunction(f) = 0
    BY <2>1, <2>2, SumOfZeros
  <2>4. InFlight(todo, id, x) = 0
    BY <2>3 DEF InFlight, f
  <2>5. rows[id][x] = 0
    BY <1>2
  <2>6. QED
    BY ONLY <2>4, <2>5 DEF Total
<1>6. QED
  BY <1>1, <1>3, <1>4, <1>5 DEF RowsInv

LEMMA RowsStep ==
  ASSUME AmountsFit, RailFits, StoreKind = "mem", IsFiniteSet(Threads)
  PROVE  RowsInv /\ [Next]_vars => RowsInv'
<1> SUFFICES ASSUME RowsInv, [Next]_vars
             PROVE  RowsInv'
  OBVIOUS
<1>1. SafetyInv /\ LedgerInv'
  BY LedgerStep DEF RowsInv, LedgerInv
<1>2. ASSUME NEW t \in Threads, Request(t)
      PROVE  RowsInv'
  <2>1. CASE CreateIntent(t)
    <3>1. PICK id \in Intents, i \in Intent, g \in Ledger, e \in SUBSET Status :
            Creates(t, id, i, g, e)
      BY <1>1, <2>1, CreateShape DEF Drafts
    <3>2. QED
      BY <1>1, <3>1, CreateRows
  <2>2. ASSUME NEW id \in Intents, NEW o \in Outcomes({"reply_lost", "sql_error", "crash"}),
               \/ \E a \in CaptureAmounts(intents[id]) : Capture(t, id, a, o)
               \/ \E a \in RefundAmounts(intents[id]) : Refund(t, id, a, o)
               \/ Void(t, id, o)
        PROVE  RowsInv'
    BY <1>1, <2>2, OutcomeEnds, RequestRows
  <2>3. ASSUME NEW id \in Intents, NEW o \in Outcomes({"sql_error", "crash"}),
               \/ \E a \in WebhookAmounts : Settlement(t, id, a, o)
               \/ ChallengeVerified(t, id, o)
        PROVE  RowsInv'
    <3>1. CallEnds(o)
      BY OutcomeEnds
    <3>2. QED
      BY <1>1, <2>3, <3>1, RequestRows, ChallengeRows
  <2>4. ASSUME NEW id \in Intents,
               ChallengeExpired(t, id) \/ ChallengeRefused(t, id) \/ ChallengeReplyLost(t, id)
        PROVE  RowsInv'
    BY <1>1, <2>4, ChallengeRows
  <2>5. ASSUME NEW id \in Intents, NEW c \in Cases, NEW s \in ChargebackStage,
               NEW a \in WebhookAmounts, NEW o \in Outcomes({"sql_error"}),
               ChargebackWebhook(t, id, c, s, a, o)
        PROVE  RowsInv'
    BY <1>1, <2>5, WebhookRows
  <2>6. QED
    BY <1>2, <2>1, <2>2, <2>3, <2>4, <2>5 DEF Request
<1>3. ASSUME NEW t \in Threads, Continue(t)
      PROVE  RowsInv'
  <2>1. CASE EmitTransition(t) \/ AddChargeback(t) \/ UpdateChargeback(t)
    <3>1. /\ ~Idle(t) /\ Head(todo[t]).op # "add_row"
          /\ todo' = [todo EXCEPT ![t] = Tail(todo[t])]
          /\ UNCHANGED <<issued, stored, intents, rows>>
      BY <2>1 DEF EmitTransition, AddChargeback, UpdateChargeback, PopOp, Doing, Idle
    <3>2. QED
      BY <1>1, <3>1, PopRows
  <2>2. QED
    BY <1>1, <1>3, <2>1, StoreRows, AddRowRows, DisputeRows DEF Continue
<1>4. ASSUME NEW t \in Threads, InsertLost(t) \/ Crash(t)
      PROVE  FALSE
  BY <1>4, ServiceAssumption DEF InsertLost, Crash, Outcomes
<1>5. UNCHANGED <<issued, stored, intents, rows, todo>> => RowsInv'
  BY <1>1 DEF RowsInv, StoredRows, DraftRows, UnissuedRows, SettledOnce, Doing
<1>6. QED
  BY <1>2, <1>3, <1>4, <1>5 DEF Next, WindowElapses, vars

\* RowsInv holds in every reachable state of the service on MemStore, for any
\* number of handlers and whatever answers of the rail are lost.
THEOREM RowsInvariant ==
  ASSUME AmountsFit, RailFits, StoreKind = "mem", IsFiniteSet(Threads)
  PROVE  Spec => []RowsInv
<1>1. Init => RowsInv
  BY RowsInit
<1>2. RowsInv /\ [Next]_vars => RowsInv'
  BY RowsStep
<1>3. QED
  BY <1>1, <1>2, PTL DEF Spec

\* On MemStore the captures, refunds and settlements tables and the amounts of
\* an intent differ by the rows still to be inserted and by nothing else,
\* although AddCapture, AddRefund and AddSettlement run outside UpdateIntent.
THEOREM RowsStayWithBooks ==
  ASSUME AmountsFit, RailFits, StoreKind = "mem", IsFiniteSet(Threads)
  PROVE  Spec => []RowsMatchBooks
<1>1. RowsInv => RowsMatchBooks
  <2> SUFFICES ASSUME RowsInv, NEW id \in stored
               PROVE  /\ intents[id].captured = rows[id]["captures"] + InFlight(todo, id, "captures")
                      /\ intents[id].refunded = rows[id]["refunds"] + InFlight(todo, id, "refunds")
                      /\ intents[id].settled =
                           rows[id]["settlements"] + InFlight(todo, id, "settlements")
    BY DEF RowsMatchBooks
  <2>1. \A x \in Table : Booked(intents[id], x) = rows[id][x] + InFlight(todo, id, x)
    BY DEF RowsInv, StoredRows, Total
  <2>2. "captures" \in Table /\ "refunds" \in Table /\ "settlements" \in Table
    BY DEF Table
  <2>3. /\ Booked(intents[id], "captures") = intents[id].captured
        /\ Booked(intents[id], "refunds") = intents[id].refunded
        /\ Booked(intents[id], "settlements") = intents[id].settled
    BY DEF Booked
  <2>4. QED
    BY ONLY <2>1, <2>2, <2>3
<1>2. QED
  BY <1>1, RowsInvariant, PTL
=============================================================================
