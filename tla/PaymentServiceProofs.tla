------------------------- MODULE PaymentServiceProofs -------------------------
(***************************************************************************)
(* What holds of PaymentService for every value of its constants.          *)
(***************************************************************************)
EXTENDS PaymentService, SequenceTheorems, TLAPS

-----------------------------------------------------------------------------
(* Typing of the operators.                                                *)

\* The sum and the difference of two machine integers wrap to one.
LEMMA WrapType ==
  ASSUME NEW m \in Int64, NEW n \in Int64
  PROVE  Wrap(m + n) \in Int64 /\ Wrap(m - n) \in Int64
BY MaxIntAssumption DEF Wrap, Int64

\* Transition turns a well-formed intent into one, and touches only its status
\* and its history.
LEMMA TransitionType ==
  ASSUME NEW i \in Intent, NEW next \in Status
  PROVE  /\ Transition(i, next) \in Intent
         /\ Transition(i, next).rail = i.rail
         /\ Transition(i, next).amount = i.amount
         /\ Transition(i, next).captured = i.captured
         /\ Transition(i, next).refunded = i.refunded
         /\ Transition(i, next).settled = i.settled
         /\ Transition(i, next).status =
              IF TransitionAllowed(i, next) THEN next ELSE i.status
<1>1. Status \subseteq EventType
  BY DEF EventType
<1>2. QED
  BY <1>1 DEF Transition, AppendEvent, Intent

LEMMA DraftType ==
  ASSUME NEW r \in Rail, NEW a \in 1 .. MaxInt, NEW n \in 0 .. MaxInt
  PROVE  /\ Draft(r, a) \in Intent
         /\ [Draft(r, a) EXCEPT !.captured = n] \in Intent
BY MaxIntAssumption DEF Draft, Intent, Int64, Status, EventType

LEMMA CaptureType ==
  ASSUME NEW i \in Intent, NEW a \in Int64
  PROVE  ApplyCapture(i, a) \in Intent
<1> DEFINE c == [i EXCEPT !.captured = Wrap(@ + a)]
<1>1. c \in Intent
  BY WrapType DEF Intent
<1>2. Transition(c, "captured") \in Intent
  BY <1>1, TransitionType DEF Status
<1>3. AppendEvent(c, "captured") \in Intent
  BY <1>1 DEF AppendEvent, Intent, EventType, Status
<1>4. QED
  BY <1>2, <1>3 DEF ApplyCapture

LEMMA RefundType ==
  ASSUME NEW i \in Intent, NEW a \in Int64
  PROVE  ApplyRefund(i, a) \in Intent
<1> DEFINE c == [i EXCEPT !.refunded = Wrap(@ + a)]
<1>1. c \in Intent
  BY WrapType DEF Intent
<1>2. Transition(c, "refunding") \in Intent
  BY <1>1, TransitionType DEF Status
<1>3. Transition(Transition(c, "refunding"), "refunded") \in Intent
  BY <1>2, TransitionType DEF Status
<1>4. QED
  BY <1>3 DEF ApplyRefund

LEMMA SettlementType ==
  ASSUME NEW i \in Intent, NEW a \in Int64
  PROVE  ApplySettlement(i, a) \in Intent
<1> DEFINE c == [i EXCEPT !.settled = Wrap(@ + a)]
           s == Transition(c, "settled")
<1>1. c \in Intent
  BY WrapType DEF Intent
<1>2. s \in Intent
  BY <1>1, TransitionType DEF Status
<1>3. AppendEvent(s, "reconciliation_break") \in Intent
  BY <1>2 DEF AppendEvent, Intent, EventType
<1>4. QED
  BY <1>2, <1>3 DEF ApplySettlement

\* What the rail does keeps its ledger well formed.
LEMMA LedgerType ==
  ASSUME NEW g \in Ledger, NEW a \in Int
  PROVE  /\ RailAuthorize(g) \in Ledger
         /\ RailCapture(g, a) \in Ledger
         /\ RailRefund(g, a) \in Ledger
         /\ RailSubmit(g, a) \in Ledger
         /\ RailVoid(g) \in Ledger
<1>1. \A h \in Ledger : RailCapture(h, a) \in Ledger
  BY DEF Ledger, RailCapture
<1>2. RailAuthorize(g) \in Ledger
  BY DEF Ledger, RailAuthorize
<1>3. \A n \in Int : RailRefund(g, n) \in Ledger
  <2> SUFFICES ASSUME NEW n \in Int PROVE RailRefund(g, n) \in Ledger
    OBVIOUS
  <2>1. CASE n = 0
    BY <2>1 DEF Ledger, RailRefund
  <2>2. CASE n # 0
    BY <2>2 DEF Ledger, RailRefund
  <2> QED
    BY <2>1, <2>2
<1>4. RailVoid(g) \in Ledger
  BY <1>3 DEF RailVoid
<1>5. QED
  BY <1>1, <1>2, <1>3, <1>4 DEF RailSubmit

-----------------------------------------------------------------------------
(* Typing of the thread programs.                                          *)

\* The fields of an operation, by its kind.
LEMMA OpFields ==
  ASSUME NEW h \in Op
  PROVE  /\ h.op = "create" => h.id \in Intents /\ h.intent \in Intent
         /\ h.op = "add_row" => h.id \in Intents /\ h.table \in Table /\ h.amount \in Int64
         /\ h.op = "emit" => h.id \in Intents /\ h.to \in Status
         /\ h.op = "add_case" => h.id \in Intents /\ h.row \in CaseRow
         /\ h.op = "open_case" => h.id \in Intents
         /\ h.op = "update_case" => h.row \in CaseRow
         /\ h.op = "close_case" => h.id \in Intents
                                 /\ h.to \in {"chargeback_won", "chargeback_lost"}
BY DEF Op

LEMMA OpTypes ==
  ASSUME NEW id \in Intents
  PROVE  /\ \A i \in Intent : [op |-> "create", id |-> id, intent |-> i] \in Op
         /\ \A x \in Table, a \in Int64 :
              [op |-> "add_row", id |-> id, table |-> x, amount |-> a] \in Op
         /\ \A s \in Status : [op |-> "emit", id |-> id, to |-> s] \in Op
         /\ \A r \in CaseRow : /\ [op |-> "add_case", id |-> id, row |-> r] \in Op
                               /\ [op |-> "update_case", row |-> r] \in Op
         /\ [op |-> "open_case", id |-> id] \in Op
         /\ \A s \in {"chargeback_won", "chargeback_lost"} :
              [op |-> "close_case", id |-> id, to |-> s] \in Op
BY DEF Op

LEMMA OpSeqs ==
  ASSUME NEW x \in Op, NEW y \in Op, NEW z \in Op
  PROVE  /\ << x >> \in Seq(Op)
         /\ << x, y >> \in Seq(Op)
         /\ << x, y, z >> \in Seq(Op)
OBVIOUS

LEMMA StoreAndEmitType ==
  ASSUME NEW id \in Intents, NEW i \in Intent
  PROVE  /\ StoreAndEmit(id, i) \in Seq(Op)
         /\ StoreAndEmit(id, i)[1] = [op |-> "create", id |-> id, intent |-> i]
         /\ StoreAndEmit(id, i)[2] = [op |-> "emit", id |-> id, to |-> i.status]
         /\ StoreAndEmit(id, i)[1] \in Op
         /\ StoreAndEmit(id, i)[2] \in Op
<1>1. i.status \in Status
  BY DEF Intent
<1> DEFINE create == [op |-> "create", id |-> id, intent |-> i]
           emit == [op |-> "emit", id |-> id, to |-> i.status]
<1>2. create \in Op /\ emit \in Op
  BY <1>1, OpTypes
<1>3. StoreAndEmit(id, i) = << create, emit >>
  BY DEF StoreAndEmit
<1> HIDE DEF create, emit
<1>4. << create, emit >> \in Seq(Op)
  BY <1>2, OpSeqs
<1>5. << create, emit >>[1] = create /\ << create, emit >>[2] = emit
  OBVIOUS
<1>6. QED
  BY <1>2, <1>3, <1>4, <1>5 DEF create, emit

LEMMA AddRowOpType ==
  ASSUME NEW id \in Intents, NEW x \in Table, NEW a \in Int64
  PROVE  AddRowOp(id, x, a) \in Seq(Op)
<1> DEFINE add == [op |-> "add_row", id |-> id, table |-> x, amount |-> a]
<1>1. add \in Op
  BY OpTypes
<1>2. AddRowOp(id, x, a) = << add >>
  BY DEF AddRowOp
<1> HIDE DEF add
<1>3. QED
  BY <1>1, <1>2, OpSeqs

LEMMA ChargebackStepsType ==
  ASSUME NEW id \in Intents, NEW c \in Cases, NEW s \in ChargebackStage, NEW a, NEW found
  PROVE  ChargebackSteps(id, c, s, a, found) \in Seq(Op)
<1> DEFINE row == [case |-> c, stage |-> s]
           outcome == IF a = 0 THEN "chargeback_won" ELSE "chargeback_lost"
           add == [op |-> "add_case", id |-> id, row |-> row]
           open == [op |-> "open_case", id |-> id]
           update == [op |-> "update_case", row |-> row]
           close == [op |-> "close_case", id |-> id, to |-> outcome]
<1>1. row \in CaseRow
  BY DEF CaseRow
<1>2. outcome \in {"chargeback_won", "chargeback_lost"}
  OBVIOUS
<1>3. add \in Op /\ open \in Op /\ update \in Op /\ close \in Op
  BY <1>1, <1>2, OpTypes
<1> HIDE DEF row, outcome, add, open, update, close
<1>4. /\ << add >> \in Seq(Op) /\ << open >> \in Seq(Op) /\ << >> \in Seq(Op)
      /\ << update >> \in Seq(Op) /\ << close >> \in Seq(Op)
  BY <1>3
<1>5. \A u, v \in Seq(Op) : u \o v \in Seq(Op)
  OBVIOUS
<1>6. /\ << add >> \o (IF s = "opened" THEN << open >> ELSE << >>) \in Seq(Op)
      /\ << update >> \o (IF s = "reversal" THEN << close >> ELSE << >>) \in Seq(Op)
  BY <1>4, <1>5
<1>7. QED
  BY <1>6 DEF ChargebackSteps, row, outcome, add, open, update, close

\* The first operation of a busy thread, and what remains after it.
LEMMA HeadTail ==
  ASSUME TypeOK, NEW t \in Threads, todo[t] # << >>
  PROVE  Head(todo[t]) \in Op /\ Tail(todo[t]) \in Seq(Op)
BY DEF TypeOK

LEMMA UpdateIntentStepType ==
  ASSUME TypeOK, NEW t \in Threads, NEW id \in Intents, NEW i \in Intent, NEW ok,
         NEW to \in SUBSET Status, NEW rest \in Seq(Op), NEW o,
         UpdateIntentStep(t, id, i, ok, to, rest, o)
  PROVE  /\ intents' \in [Intents -> Intent]
         /\ audit' \in [Intents -> SUBSET Status]
         /\ todo' \in [Threads -> Seq(Op)]
         /\ faults' \in Nat
<1>1. UpdateIntent(intents[id], i, ok) \in Intent
  BY DEF TypeOK, UpdateIntent, MemUpdateIntent, PgUpdateIntent
<1>2. intents' \in [Intents -> Intent]
  BY <1>1 DEF TypeOK, UpdateIntentStep
<1>3. audit' \in [Intents -> SUBSET Status]
  BY DEF TypeOK, UpdateIntentStep
<1>4. todo' \in [Threads -> Seq(Op)]
  BY DEF TypeOK, UpdateIntentStep
<1>5. faults' \in Nat
  BY DEF TypeOK, UpdateIntentStep, CountFault
<1>6. QED
  BY <1>2, <1>3, <1>4, <1>5

-----------------------------------------------------------------------------
(* Type correctness, action by action.                                     *)

\* The amounts a request may ask for are machine integers.
LEMMA RequestAmountTypes ==
  ASSUME NEW i \in Intent
  PROVE  CaptureAmounts(i) \subseteq Int64 /\ RefundAmounts(i) \subseteq Int64
BY ServiceAssumption DEF CaptureAmounts, RefundAmounts, Intent

LEMMA CreateIntentType ==
  ASSUME TypeOK, NEW t \in Threads, CreateIntent(t)
  PROVE  TypeOK'
<1>1. PICK id \in Intents, a \in IntentAmounts :
        \/ CreateThreeDS(t, id, a)
        \/ \E r \in Rails :
             \/ CreateFailed(t, id, r, a)
             \/ CreateAuthorized(t, id, r, a)
             \/ \E n \in SubmitAmounts \cup {a} :
                  \/ CreateReplyLost(t, id, r, a, n)
                  \/ CreateInstant(t, id, r, a, n)
  BY DEF CreateIntent
<1>2. /\ a \in 1 .. MaxInt
      /\ \A n \in SubmitAmounts \cup {a} : n \in 0 .. MaxInt /\ n \in Int64 /\ n \in Int
  BY ServiceAssumption, MaxIntAssumption DEF Int64
<1>3. \A r \in Rail, s \in Status : StoreAndEmit(id, Transition(Draft(r, a), s)) \in Seq(Op)
  BY <1>2, DraftType, TransitionType, StoreAndEmitType
<1>4. {"3ds_pending", "failed", "authorized", "captured"} \subseteq Status /\ Rails \subseteq Rail
      /\ "card" \in Rail
  BY ServiceAssumption DEF Status, Rail
<1>5. ASSUME NEW steps \in Seq(Op), BeginCreate(t, id, steps),
             gateway' \in [Intents -> Ledger], audit' \in [Intents -> SUBSET Status],
             faults' \in Nat
      PROVE  TypeOK'
  BY <1>5 DEF TypeOK, BeginCreate
<1>6. CASE CreateThreeDS(t, id, a)
  <2>1. StoreAndEmit(id, Transition(Draft("card", a), "3ds_pending")) \in Seq(Op)
    BY <1>3, <1>4
  <2>2. QED
    BY <1>5, <1>6, <2>1 DEF CreateThreeDS, TypeOK
<1>7. ASSUME NEW r \in Rails, CreateFailed(t, id, r, a)
      PROVE  TypeOK'
  <2>1. StoreAndEmit(id, Transition(Draft(r, a), "failed")) \in Seq(Op)
    BY <1>3, <1>4
  <2>2. QED
    BY <1>5, <1>7, <2>1 DEF CreateFailed, TypeOK
<1>8. ASSUME NEW r \in Rails, CreateAuthorized(t, id, r, a)
      PROVE  TypeOK'
  <2>1. StoreAndEmit(id, Transition(Draft(r, a), "authorized")) \in Seq(Op)
    BY <1>3, <1>4
  <2>2. gateway[id] \in Ledger /\ RailAuthorize(gateway[id]) \in Ledger
    BY LedgerType, 0 \in Int DEF TypeOK
  <2>3. gateway' \in [Intents -> Ledger]
    BY <1>8, <2>2 DEF CreateAuthorized, TypeOK
  <2>4. QED
    BY <1>5, <1>8, <2>1, <2>3 DEF CreateAuthorized, TypeOK
<1>9. ASSUME NEW r \in Rails, NEW n \in SubmitAmounts \cup {a}, CreateReplyLost(t, id, r, a, n)
      PROVE  TypeOK'
  <2>1. StoreAndEmit(id, Transition(Draft(r, a), "failed")) \in Seq(Op)
    BY <1>3, <1>4
  <2>2. /\ gateway[id] \in Ledger
        /\ RailAuthorize(gateway[id]) \in Ledger
        /\ RailSubmit(gateway[id], n) \in Ledger
    BY <1>2, LedgerType DEF TypeOK
  <2>3. gateway' \in [Intents -> Ledger]
    BY <1>9, <2>2 DEF CreateReplyLost, TypeOK
  <2>4. faults' \in Nat
    BY <1>9 DEF CreateReplyLost, CountFault, TypeOK
  <2>5. QED
    BY <1>5, <1>9, <2>1, <2>3, <2>4 DEF CreateReplyLost, TypeOK
<1>10. ASSUME NEW r \in Rails, NEW n \in SubmitAmounts \cup {a}, CreateInstant(t, id, r, a, n)
       PROVE  TypeOK'
  <2> DEFINE i == Transition(Transition([Draft(r, a) EXCEPT !.captured = n], "authorized"),
                             "captured")
             add == [op |-> "add_row", id |-> id, table |-> "captures", amount |-> n]
             steps == << StoreAndEmit(id, i)[1], add, StoreAndEmit(id, i)[2] >>
  <2>1. i \in Intent
    BY <1>2, <1>4, DraftType, TransitionType
  <2>2. add \in Op
    BY <1>2, OpTypes DEF Table
  <2>3. StoreAndEmit(id, i)[1] \in Op /\ StoreAndEmit(id, i)[2] \in Op
    <3> HIDE DEF i
    <3>1. QED
      BY <2>1, StoreAndEmitType
  <2>4. steps \in Seq(Op)
    <3> HIDE DEF i, add
    <3>1. QED
      BY <2>2, <2>3, OpSeqs
  <2>5. BeginCreate(t, id, steps)
    BY <1>10 DEF CreateInstant
  <2>6. gateway[id] \in Ledger /\ RailSubmit(gateway[id], n) \in Ledger
    BY <1>2, LedgerType DEF TypeOK
  <2>7. gateway' \in [Intents -> Ledger]
    BY <1>10, <2>6 DEF CreateInstant, TypeOK
  <2>8. audit' \in [Intents -> SUBSET Status] /\ faults' \in Nat
    BY <1>4, <1>10 DEF CreateInstant, TypeOK
  <2> HIDE DEF steps
  <2>9. QED
    BY <1>5, <2>4, <2>5, <2>7, <2>8
<1>11. QED
  BY <1>1, <1>6, <1>7, <1>8, <1>9, <1>10

LEMMA MoneyRequestType ==
  ASSUME TypeOK, NEW t \in Threads, NEW id \in Intents, NEW o
  PROVE  /\ \A a \in CaptureAmounts(intents[id]) : Capture(t, id, a, o) => TypeOK'
         /\ \A a \in RefundAmounts(intents[id]) : Refund(t, id, a, o) => TypeOK'
         /\ Void(t, id, o) => TypeOK'
<1>1. intents[id] \in Intent /\ gateway[id] \in Ledger
  BY DEF TypeOK
<1>2. "captures" \in Table /\ "refunds" \in Table /\ {"voided", "refunded"} \subseteq Status
      /\ {} \subseteq Status
  BY DEF Table, Status
<1>3. ASSUME NEW a \in CaptureAmounts(intents[id]), Capture(t, id, a, o)
      PROVE  TypeOK'
  <2>1. a \in Int64 /\ a \in Int
    BY <1>1, RequestAmountTypes, MaxIntAssumption DEF Int64
  <2> DEFINE c == ApplyCapture(intents[id], a)
             rest == AddRowOp(id, "captures", a)
  <2>2. c \in Intent
    BY <1>1, <2>1, CaptureType
  <2>3. {c.status} \subseteq Status
    BY <2>2 DEF Intent
  <2>4. rest \in Seq(Op)
    BY <1>2, <2>1, AddRowOpType
  <2>5. UpdateIntentStep(t, id, c, TRUE, {c.status}, rest, o)
    BY <1>3 DEF Capture
  <2> HIDE DEF c, rest
  <2>6. /\ intents' \in [Intents -> Intent] /\ audit' \in [Intents -> SUBSET Status]
        /\ todo' \in [Threads -> Seq(Op)] /\ faults' \in Nat
    BY <2>2, <2>3, <2>4, <2>5, UpdateIntentStepType
  <2>7. gateway' \in [Intents -> Ledger]
    <3>1. RailCapture(gateway[id], a) \in Ledger
      BY <1>1, <2>1, LedgerType
    <3>2. QED
      BY <1>3, <3>1 DEF Capture, TypeOK
  <2>8. UNCHANGED <<issued, stored, rows, chargebacks, lapsed>>
    BY <1>3 DEF Capture
  <2>9. QED
    BY <2>6, <2>7, <2>8 DEF TypeOK
<1>4. ASSUME NEW a \in RefundAmounts(intents[id]), Refund(t, id, a, o)
      PROVE  TypeOK'
  <2>1. a \in Int64 /\ a \in Int
    BY <1>1, RequestAmountTypes, MaxIntAssumption DEF Int64
  <2> DEFINE c == ApplyRefund(intents[id], a)
             ok == TransitionAllowed(intents[id], "refunding")
             to == IF ok THEN {"refunded"} ELSE {}
             rest == AddRowOp(id, "refunds", a)
  <2>2. c \in Intent
    BY <1>1, <2>1, RefundType
  <2>3. to \in SUBSET Status
    BY <1>2
  <2>4. rest \in Seq(Op)
    BY <1>2, <2>1, AddRowOpType
  <2>5. UpdateIntentStep(t, id, c, ok, to, rest, o)
    BY <1>4 DEF Refund
  <2> HIDE DEF c, ok, to, rest
  <2>6. /\ intents' \in [Intents -> Intent] /\ audit' \in [Intents -> SUBSET Status]
        /\ todo' \in [Threads -> Seq(Op)] /\ faults' \in Nat
    BY <2>2, <2>3, <2>4, <2>5, UpdateIntentStepType
  <2>7. gateway' \in [Intents -> Ledger]
    <3>1. RailRefund(gateway[id], a) \in Ledger
      BY <1>1, <2>1, LedgerType
    <3>2. QED
      BY <1>4, <3>1 DEF Refund, TypeOK
  <2>8. UNCHANGED <<issued, stored, rows, chargebacks, lapsed>>
    BY <1>4 DEF Refund
  <2>9. QED
    BY <2>6, <2>7, <2>8 DEF TypeOK
<1>5. ASSUME Void(t, id, o)
      PROVE  TypeOK'
  <2>1. Transition(intents[id], "voided") \in Intent
    BY <1>1, <1>2, TransitionType
  <2>2. << >> \in Seq(Op) /\ {"voided"} \in SUBSET Status
    BY <1>2
  <2>3. UpdateIntentStep(t, id, Transition(intents[id], "voided"), TRUE, {"voided"}, << >>, o)
    BY <1>5 DEF Void
  <2>4. /\ intents' \in [Intents -> Intent] /\ audit' \in [Intents -> SUBSET Status]
        /\ todo' \in [Threads -> Seq(Op)] /\ faults' \in Nat
    BY <2>1, <2>2, <2>3, UpdateIntentStepType
  <2>5. gateway' \in [Intents -> Ledger]
    <3>1. RailVoid(gateway[id]) \in Ledger
      BY <1>1, LedgerType, 0 \in Int
    <3>2. QED
      BY <1>5, <3>1 DEF Void, TypeOK
  <2>6. UNCHANGED <<issued, stored, rows, chargebacks, lapsed>>
    BY <1>5 DEF Void
  <2>7. QED
    BY <2>4, <2>5, <2>6 DEF TypeOK
<1>6. QED
  BY <1>3, <1>4, <1>5

LEMMA ChallengeType ==
  ASSUME TypeOK, NEW t \in Threads, NEW id \in Intents, NEW o
  PROVE  /\ ChallengeExpired(t, id) => TypeOK'
         /\ ChallengeRefused(t, id) => TypeOK'
         /\ ChallengeReplyLost(t, id) => TypeOK'
         /\ ChallengeVerified(t, id, o) => TypeOK'
<1>1. intents[id] \in Intent /\ gateway[id] \in Ledger
  BY DEF TypeOK
<1>2. /\ {"failed"} \in SUBSET Status /\ {"authorized"} \in SUBSET Status
      /\ "failed" \in Status /\ "authorized" \in Status
  BY DEF Status
<1>3. /\ Transition(intents[id], "failed") \in Intent
      /\ Transition(intents[id], "authorized") \in Intent
  BY <1>1, <1>2, TransitionType
<1>4. << >> \in Seq(Op)
  OBVIOUS
<1>5. RailAuthorize(gateway[id]) \in Ledger
  BY <1>1, LedgerType, 0 \in Int
<1>6. ASSUME ChallengeFails(t, id), UNCHANGED gateway, lapsed' \subseteq Intents
      PROVE  TypeOK'
  <2>1. UpdateIntentStep(t, id, Transition(intents[id], "failed"), FALSE, {"failed"}, << >>, "ok")
    BY <1>6 DEF ChallengeFails
  <2>2. /\ intents' \in [Intents -> Intent] /\ audit' \in [Intents -> SUBSET Status]
        /\ todo' \in [Threads -> Seq(Op)] /\ faults' \in Nat
    BY <1>2, <1>3, <1>4, <2>1, UpdateIntentStepType
  <2>3. UNCHANGED <<issued, stored, rows, chargebacks>>
    BY <1>6 DEF ChallengeFails
  <2>4. QED
    BY <1>6, <2>2, <2>3 DEF TypeOK
<1>7. ASSUME ChallengeReplyLost(t, id)
      PROVE  TypeOK'
  <2>1. UpdateIntent(intents[id], Transition(intents[id], "failed"), FALSE) \in Intent
    BY <1>1, <1>3 DEF UpdateIntent, MemUpdateIntent, PgUpdateIntent
  <2>2. intents' \in [Intents -> Intent]
    BY <1>7, <2>1 DEF ChallengeReplyLost, TypeOK
  <2>3. gateway' \in [Intents -> Ledger]
    BY <1>5, <1>7 DEF ChallengeReplyLost, TypeOK
  <2>4. audit' \in [Intents -> SUBSET Status]
    BY <1>2, <1>7 DEF ChallengeReplyLost, TypeOK
  <2>5. faults' \in Nat
    BY <1>7 DEF ChallengeReplyLost, CountFault, TypeOK
  <2>6. lapsed' \subseteq Intents /\ UNCHANGED <<issued, stored, rows, chargebacks, todo>>
    BY <1>7 DEF ChallengeReplyLost, BegunInWindow, TypeOK
  <2>7. QED
    BY <2>2, <2>3, <2>4, <2>5, <2>6 DEF TypeOK
<1>8. ASSUME ChallengeVerified(t, id, o)
      PROVE  TypeOK'
  <2>1. UpdateIntentStep(t, id, Transition(intents[id], "authorized"), TRUE, {"authorized"},
                         << >>, o)
    BY <1>8 DEF ChallengeVerified
  <2>2. /\ intents' \in [Intents -> Intent] /\ audit' \in [Intents -> SUBSET Status]
        /\ todo' \in [Threads -> Seq(Op)] /\ faults' \in Nat
    BY <1>2, <1>3, <1>4, <2>1, UpdateIntentStepType
  <2>3. gateway' \in [Intents -> Ledger]
    BY <1>5, <1>8 DEF ChallengeVerified, TypeOK
  <2>4. lapsed' \subseteq Intents /\ UNCHANGED <<issued, stored, rows, chargebacks>>
    BY <1>8 DEF ChallengeVerified, BegunInWindow, TypeOK
  <2>5. QED
    BY <2>2, <2>3, <2>4 DEF TypeOK
<1>9. QED
  BY <1>6, <1>7, <1>8 DEF ChallengeExpired, ChallengeRefused, BegunInWindow, TypeOK

LEMMA WebhookType ==
  ASSUME TypeOK, NEW t \in Threads, NEW id \in Intents, NEW o
  PROVE  /\ \A a \in WebhookAmounts : Settlement(t, id, a, o) => TypeOK'
         /\ \A c \in Cases, s \in ChargebackStage, a \in WebhookAmounts :
              ChargebackWebhook(t, id, c, s, a, o) => TypeOK'
<1>1. ASSUME NEW a \in WebhookAmounts, Settlement(t, id, a, o)
      PROVE  TypeOK'
  <2>1. a \in Int64 /\ intents[id] \in Intent /\ {"settled"} \in SUBSET Status
        /\ "settlements" \in Table
    BY ServiceAssumption DEF TypeOK, Status, Table
  <2>2. ApplySettlement(intents[id], a) \in Intent /\ AddRowOp(id, "settlements", a) \in Seq(Op)
    BY <2>1, SettlementType, AddRowOpType
  <2>3. UpdateIntentStep(t, id, ApplySettlement(intents[id], a), TRUE, {"settled"},
                         AddRowOp(id, "settlements", a), o)
    BY <1>1 DEF Settlement
  <2>4. /\ intents' \in [Intents -> Intent] /\ audit' \in [Intents -> SUBSET Status]
        /\ todo' \in [Threads -> Seq(Op)] /\ faults' \in Nat
    BY <2>1, <2>2, <2>3, UpdateIntentStepType
  <2>5. UNCHANGED <<issued, stored, rows, chargebacks, gateway, lapsed>>
    BY <1>1 DEF Settlement
  <2>6. QED
    BY <2>4, <2>5 DEF TypeOK
<1>2. ASSUME NEW c \in Cases, NEW s \in ChargebackStage, NEW a \in WebhookAmounts,
             ChargebackWebhook(t, id, c, s, a, o)
      PROVE  TypeOK'
  <2>1. ChargebackSteps(id, c, s, a, HasCase(id, c) /\ o # "sql_error") \in Seq(Op)
    BY ChargebackStepsType
  <2>2. todo' \in [Threads -> Seq(Op)]
    BY <1>2, <2>1 DEF ChargebackWebhook, TypeOK
  <2>3. faults' \in Nat
    BY <1>2 DEF ChargebackWebhook, CountFault, TypeOK
  <2>4. UNCHANGED <<issued, stored, intents, rows, chargebacks, audit, gateway, lapsed>>
    BY <1>2 DEF ChargebackWebhook
  <2>5. QED
    BY <2>2, <2>3, <2>4 DEF TypeOK
<1>3. QED
  BY <1>1, <1>2

LEMMA ContinueType ==
  ASSUME TypeOK, NEW t \in Threads, Continue(t)
  PROVE  TypeOK'
<1> DEFINE h == Head(todo[t])
<1>1. todo[t] # << >>
  BY DEF Continue, StoreIntent, AddRow, EmitTransition, AddChargeback, UpdateChargeback,
         OpenDispute, CloseDispute, Doing
<1>2. h \in Op /\ Tail(todo[t]) \in Seq(Op)
  BY <1>1, HeadTail
<1>3. PopOp(t) => todo' \in [Threads -> Seq(Op)]
  BY <1>2 DEF PopOp, TypeOK
<1> HIDE DEF h
<1>4. CASE StoreIntent(t)
  <2>1. h.id \in Intents /\ h.intent \in Intent
    BY <1>2, <1>4, OpFields DEF StoreIntent, Doing, h
  <2>2. QED
    BY <1>3, <1>4, <2>1 DEF StoreIntent, TypeOK, h
<1>5. CASE AddRow(t)
  <2>1. h.id \in Intents /\ h.table \in Table /\ h.amount \in Int
    BY <1>2, <1>5, OpFields, MaxIntAssumption DEF AddRow, Doing, h, Int64
  <2>2. rows' \in [Intents -> [Table -> Int]]
    <3> DEFINE r == InsertRow(rows[h.id], h.table, h.amount)
    <3>1. r \in [Table -> Int]
      BY <2>1 DEF TypeOK, InsertRow
    <3>2. rows' = [rows EXCEPT ![h.id] = r]
      BY <1>5 DEF AddRow, h
    <3> HIDE DEF r
    <3>3. QED
      BY <2>1, <3>1, <3>2 DEF TypeOK
  <2>3. QED
    BY <1>3, <1>5, <2>2 DEF AddRow, TypeOK
<1>6. CASE EmitTransition(t)
  <2>1. h.id \in Intents /\ h.to \in Status
    BY <1>2, <1>6, OpFields DEF EmitTransition, Doing, h
  <2>2. audit' \in [Intents -> SUBSET Status]
    BY <1>6, <2>1 DEF EmitTransition, TypeOK, h
  <2>3. QED
    BY <1>3, <1>6, <2>2 DEF EmitTransition, TypeOK
<1>7. CASE AddChargeback(t)
  <2>1. h.id \in Intents /\ h.row \in CaseRow
    BY <1>2, <1>7, OpFields DEF AddChargeback, Doing, h
  <2>2. MemAddChargeback(h.id, h.row) \in [Intents -> Seq(CaseRow)]
    BY <2>1 DEF MemAddChargeback, TypeOK
  <2>3. PgAddChargeback(h.id, h.row) \in [Intents -> Seq(CaseRow)]
    BY <2>2 DEF MemAddChargeback, PgAddChargeback, TypeOK
  <2>4. chargebacks' \in [Intents -> Seq(CaseRow)]
    BY <1>7, <2>2, <2>3 DEF AddChargeback, h
  <2>5. QED
    BY <1>3, <1>7, <2>4 DEF AddChargeback, TypeOK
<1>8. CASE UpdateChargeback(t)
  <2>1. h.row \in CaseRow
    BY <1>2, <1>8, OpFields DEF UpdateChargeback, Doing, h
  <2>2. \/ UNCHANGED chargebacks
        \/ \E id \in Intents : \E k \in DOMAIN chargebacks[id] :
             chargebacks' = [chargebacks EXCEPT ![id][k] = h.row]
    BY <1>8 DEF UpdateChargeback, h
  <2>3. \A id \in Intents : \A k \in DOMAIN chargebacks[id] :
          [chargebacks[id] EXCEPT ![k] = h.row] \in Seq(CaseRow)
    <3> SUFFICES ASSUME NEW id \in Intents, NEW k \in DOMAIN chargebacks[id]
                 PROVE  [chargebacks[id] EXCEPT ![k] = h.row] \in Seq(CaseRow)
      OBVIOUS
    <3>1. chargebacks[id] \in Seq(CaseRow) /\ k \in 1 .. Len(chargebacks[id])
      BY DEF TypeOK
    <3>2. QED
      BY <2>1, <3>1, ExceptSeq
  <2>4. chargebacks' \in [Intents -> Seq(CaseRow)]
    <3>1. ASSUME NEW id \in Intents, NEW k \in DOMAIN chargebacks[id],
                 chargebacks' = [chargebacks EXCEPT ![id][k] = h.row]
          PROVE  chargebacks' \in [Intents -> Seq(CaseRow)]
      <4> DEFINE q == [chargebacks[id] EXCEPT ![k] = h.row]
      <4>1. q \in Seq(CaseRow)
        BY <2>3
      <4>2. chargebacks' = [chargebacks EXCEPT ![id] = q]
        BY <3>1
      <4> HIDE DEF q
      <4>3. QED
        BY <4>1, <4>2 DEF TypeOK
    <3>2. QED
      BY <2>2, <3>1 DEF TypeOK
  <2>5. QED
    BY <1>3, <1>8, <2>4 DEF UpdateChargeback, TypeOK
<1>9. ASSUME NEW id \in Intents, NEW from, NEW to \in Status, NEW o,
             DisputeStep(t, id, from, to, o)
      PROVE  TypeOK'
  <2> DEFINE ok == TransitionAllowed(intents[id], to)
             emits == IF ok THEN {to} ELSE {}
  <2>1. Transition(intents[id], to) \in Intent /\ emits \in SUBSET Status
    BY TransitionType DEF TypeOK
  <2>2. \/ UpdateIntentStep(t, id, Transition(intents[id], to), ok, emits, Tail(todo[t]), o)
        \/ PopOp(t) /\ UNCHANGED <<intents, audit, faults>>
    BY <1>9 DEF DisputeStep
  <2> HIDE DEF ok, emits
  <2>3. /\ intents' \in [Intents -> Intent] /\ audit' \in [Intents -> SUBSET Status]
        /\ todo' \in [Threads -> Seq(Op)] /\ faults' \in Nat
    <3>1. CASE UpdateIntentStep(t, id, Transition(intents[id], to), ok, emits, Tail(todo[t]), o)
      BY <1>2, <2>1, <3>1, UpdateIntentStepType
    <3>2. CASE PopOp(t) /\ UNCHANGED <<intents, audit, faults>>
      BY <1>3, <3>2 DEF TypeOK
    <3>3. QED
      BY <2>2, <3>1, <3>2
  <2>4. UNCHANGED <<issued, stored, rows, chargebacks, gateway, lapsed>>
    BY <1>9 DEF DisputeStep
  <2>5. QED
    BY <2>3, <2>4 DEF TypeOK
<1>10. ASSUME NEW o, OpenDispute(t, o)
       PROVE  TypeOK'
  <2>1. h.id \in Intents /\ "charged_back" \in Status
    BY <1>2, <1>10, OpFields DEF OpenDispute, Doing, h, Status
  <2>2. QED
    BY <1>9, <1>10, <2>1 DEF OpenDispute, h
<1>11. ASSUME NEW o, CloseDispute(t, o)
       PROVE  TypeOK'
  <2>1. h.id \in Intents /\ h.to \in Status
    BY <1>2, <1>11, OpFields DEF CloseDispute, Doing, h, Status
  <2>2. QED
    BY <1>9, <1>11, <2>1 DEF CloseDispute, h
<1>12. QED
  BY <1>4, <1>5, <1>6, <1>7, <1>8, <1>10, <1>11 DEF Continue

LEMMA TypeStep ==
  TypeOK /\ [Next]_vars => TypeOK'
<1> SUFFICES ASSUME TypeOK, [Next]_vars
             PROVE  TypeOK'
  OBVIOUS
<1>1. ASSUME NEW t \in Threads, Request(t)
      PROVE  TypeOK'
  BY <1>1, CreateIntentType, MoneyRequestType, ChallengeType, WebhookType DEF Request
<1>2. ASSUME NEW t \in Threads, InsertLost(t) \/ Crash(t)
      PROVE  TypeOK'
  <2>1. todo[t] # << >>
    BY <1>2 DEF InsertLost, Crash, Idle, Doing
  <2>2. Tail(todo[t]) \in Seq(Op)
    BY <2>1, HeadTail
  <2>3. todo' \in [Threads -> Seq(Op)]
    <3>1. CASE InsertLost(t)
      BY <2>2, <3>1 DEF InsertLost, PopOp, TypeOK
    <3>2. CASE Crash(t)
      BY <3>2 DEF Crash, TypeOK
    <3>3. QED
      BY <1>2, <3>1, <3>2
  <2>4. faults' \in Nat
    BY <1>2 DEF InsertLost, Crash, CountFault, TypeOK
  <2>5. UNCHANGED <<issued, stored, intents, rows, chargebacks, audit, gateway, lapsed>>
    BY <1>2 DEF InsertLost, Crash
  <2>6. QED
    BY <2>3, <2>4, <2>5 DEF TypeOK
<1>3. ASSUME NEW id \in Intents, WindowElapses(id)
      PROVE  TypeOK'
  BY <1>3 DEF WindowElapses, TypeOK
<1>4. CASE UNCHANGED vars
  BY <1>4 DEF vars, TypeOK
<1>5. QED
  BY <1>1, <1>2, <1>3, <1>4, ContinueType DEF Next

LEMMA TypeInit ==
  Init => TypeOK
<1> SUFFICES ASSUME Init
             PROVE  TypeOK
  OBVIOUS
<1>1. NoIntent \in Intent
  BY MaxIntAssumption DEF NoIntent, Intent, Int64, Status, EventType, Rail
<1>2. EmptyLedger \in Ledger
  BY DEF EmptyLedger, Ledger
<1>3. QED
  BY <1>1, <1>2 DEF Init, TypeOK

\* Every state the service reaches is well typed: amounts stay machine
\* integers, statuses stay within the domain's, and what is left on a thread is
\* something a handler does.
THEOREM TypeCorrect == Spec => []TypeOK
<1>1. Init => TypeOK
  BY TypeInit
<1>2. TypeOK /\ [Next]_vars => TypeOK'
  BY TypeStep
<1>3. QED
  BY <1>1, <1>2, PTL DEF Spec
=============================================================================
