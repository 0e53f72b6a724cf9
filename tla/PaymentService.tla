---------------------------- MODULE PaymentService ----------------------------
(***************************************************************************)
(* The payment service: the HTTP handlers of internal/api acting on the    *)
(* store, on the rail (through gateway-fiat) and on the audit stream.      *)
(*                                                                         *)
(* A handler runs on a thread.  What it does inside Store.UpdateIntent is  *)
(* one action: the row lock (Postgres) or the mutex (MemStore) is held     *)
(* over the rail call, the audit emission and the write.  The lock does    *)
(* not stop the clock, which may run on within such a step.  What it does  *)
(* outside UpdateIntent is left on the thread as a sequence of operations, *)
(* `todo', that are executed one at a time and so interleave with the      *)
(* other threads.  A request that is rejected changes no state and has no  *)
(* action.                                                                 *)
(*                                                                         *)
(* An operator named Mutant... is a plausible bug in the definition after  *)
(* it.  The specification never uses one; TLC must find a property broken  *)
(* when it takes the place of that definition.                             *)
(***************************************************************************)
EXTENDS PaymentDomain, Sequences, Functions

CONSTANTS
  Intents,         \* payment ids uuid.NewString may draw
  Threads,         \* concurrent request handlers
  Rails,           \* rails that clients use
  IntentAmounts,   \* amounts of CreateIntent requests
  RequestAmounts,  \* amounts of Capture and Refund requests
  SubmitAmounts,   \* settle_amount values an instant rail answers with
  WebhookAmounts,  \* amounts in settlement and chargeback webhooks
  Cases,           \* chargeback case references
  StoreKind,       \* which implementation of store.Store is configured
  Faults,          \* the kinds of fault that may happen, and
  MaxFaults,       \*   how many of them in one behaviour
  RailLimit        \* the rail refuses to move more than this per payment

ASSUME ServiceAssumption ==
  /\ Rails \subseteq Rail
  /\ IntentAmounts \subseteq 1 .. MaxInt
  /\ RequestAmounts \subseteq Int64
  /\ SubmitAmounts \subseteq 0 .. MaxInt
  /\ WebhookAmounts \subseteq Int64
  /\ StoreKind \in {"mem", "postgres"}
  /\ Faults \subseteq {"reply_lost", "sql_error", "crash"}
  /\ StoreKind = "mem" => Faults \subseteq {"reply_lost"}
  /\ MaxFaults \in Nat
  /\ RailLimit \in Nat

VARIABLES
  issued,       \* ids in use
  stored,       \* ids that have a row in the intents table
  intents,      \* the intents table
  rows,         \* sums of the captures, refunds and settlements tables
  chargebacks,  \* the chargebacks table, per intent
  audit,        \* per intent, the to-states of its audit events
  gateway,      \* what the rail has done for each payment
  lapsed,       \* ids whose 3DS window is over
  todo,         \* per thread, what its handler still has to do
  faults        \* faults so far

vars == <<issued, stored, intents, rows, chargebacks, audit, gateway, lapsed,
          todo, faults>>

-----------------------------------------------------------------------------
(* Types.                                                                  *)

Table == {"captures", "refunds", "settlements"}

CaseRow == [case : Cases, stage : ChargebackStage]

\* What a handler does after, or instead of, UpdateIntent.
Op ==      [op : {"create"}, id : Intents, intent : Intent]
      \cup [op : {"add_row"}, id : Intents, table : Table, amount : Int64]
      \cup [op : {"emit"}, id : Intents, to : Status]
      \cup [op : {"add_case"}, id : Intents, row : CaseRow]
      \cup [op : {"open_case"}, id : Intents]
      \cup [op : {"update_case"}, row : CaseRow]
      \cup [op : {"close_case"}, id : Intents,
            to : {"chargeback_won", "chargeback_lost"}]

Ledger == [done : SUBSET {"authorize", "void"}, captured : Int, refunded : Int]

\* The record CreateIntent builds before it calls anything.
Draft(r, a) == [rail |-> r, amount |-> a, status |-> "intent", captured |-> 0,
                refunded |-> 0, settled |-> 0, history |-> {"created"}]

NoIntent == [rail |-> "card", amount |-> 0, status |-> "intent", captured |-> 0,
             refunded |-> 0, settled |-> 0, history |-> {}]

EmptyLedger == [done |-> {}, captured |-> 0, refunded |-> 0]

-----------------------------------------------------------------------------
(* The rail, as the adapter's calls drive it.                              *)

RailAuthorize(g) == [g EXCEPT !.done = @ \cup {"authorize"}]

RailCapture(g, a) == [g EXCEPT !.captured = @ + a]

\* The gateway takes a refund of 0 for a cancellation, which is also how Void
\* is sent.
RailRefund(g, a) == IF a = 0 THEN [g EXCEPT !.done = @ \cup {"void"}]
                    ELSE [g EXCEPT !.refunded = @ + a]

\* Submit authorizes and captures; the rail may settle on another amount, which
\* it is taken to name as a decimal integer.
RailSubmit(g, n) == RailCapture(RailAuthorize(g), n)

RailVoid(g) == RailRefund(g, 0)

-----------------------------------------------------------------------------
(* The stores.                                                             *)

\* The record the store holds after UpdateIntent, given the one before (old),
\* the one the callback left (i) and whether the callback returned nil (ok).
\* MemStore hands the callback its own record, so a change survives an error;
\* Postgres rolls back.
MutantMemRollsBack(old, i, ok) == IF ok THEN i ELSE old

MutantPgKeeps(old, i, ok) == i

MemUpdateIntent(old, i, ok) == i

PgUpdateIntent(old, i, ok) == IF ok THEN i ELSE old

UpdateIntent(old, i, ok) ==
  IF StoreKind = "mem" THEN MemUpdateIntent(old, i, ok) ELSE PgUpdateIntent(old, i, ok)

HasCase(id, c) == \E k \in DOMAIN chargebacks[id] : chargebacks[id][k].case = c

MemAddChargeback(id, row) == [chargebacks EXCEPT ![id] = Append(@, row)]

\* ON CONFLICT (case_ref) DO NOTHING, whichever intent has the case.
PgAddChargeback(id, row) ==
  IF \E j \in Intents : HasCase(j, row.case)
  THEN chargebacks
  ELSE [chargebacks EXCEPT ![id] = Append(@, row)]

-----------------------------------------------------------------------------
(* Threads and faults.                                                     *)

Idle(t) == todo[t] = << >>

Doing(t, op) == todo[t] # << >> /\ Head(todo[t]).op = op

PopOp(t) == todo' = [todo EXCEPT ![t] = Tail(@)]

\* "ok", or one of the given faults if the configuration lets it happen.
Outcomes(kinds) ==
  {"ok"} \cup (IF faults < MaxFaults THEN kinds \cap Faults ELSE {})

CountFault(o) == faults' = IF o = "ok" THEN faults ELSE faults + 1

\* A call of UpdateIntent whose callback leaves record i, returns nil iff ok
\* and has emitted the transitions `to'; `rest' is what the handler does next.
\*   reply_lost  the rail acted but the adapter reports an error
\*   sql_error   the write or the commit fails after the callback ran: the
\*               handler goes on to insert the row it has prepared
\*   crash       the process stops after the callback ran
UpdateIntentStep(t, id, i, ok, to, rest, o) ==
  /\ intents' = IF o = "ok"
                THEN [intents EXCEPT ![id] = UpdateIntent(@, i, ok)]
                ELSE intents
  /\ audit' = IF o = "reply_lost"
              THEN audit
              ELSE [audit EXCEPT ![id] = @ \cup to]
  /\ todo' = [todo EXCEPT ![t] = IF o \in {"ok", "sql_error"} THEN rest ELSE << >>]
  /\ CountFault(o)

-----------------------------------------------------------------------------
Init ==
  /\ issued = {}
  /\ stored = {}
  /\ intents = [id \in Intents |-> NoIntent]
  /\ rows = [id \in Intents |-> [x \in Table |-> 0]]
  /\ chargebacks = [id \in Intents |-> << >>]
  /\ audit = [id \in Intents |-> {}]
  /\ gateway = [id \in Intents |-> EmptyLedger]
  /\ lapsed = {}
  /\ todo = [t \in Threads |-> << >>]
  /\ faults = 0

-----------------------------------------------------------------------------
(* CreateIntent.  The rail is called before the intent is stored, and the  *)
(* intent is stored before its last audit event.                           *)

MutantEmitsFromState(id, i) == << [op |-> "create", id |-> id, intent |-> i],
                                  [op |-> "emit", id |-> id, to |-> "intent"] >>

StoreAndEmit(id, i) == << [op |-> "create", id |-> id, intent |-> i],
                          [op |-> "emit", id |-> id, to |-> i.status] >>

BeginCreate(t, id, steps) ==
  /\ Idle(t)
  /\ id \notin issued
  /\ issued' = issued \cup {id}
  /\ todo' = [todo EXCEPT ![t] = steps]
  /\ UNCHANGED <<stored, intents, rows, chargebacks, lapsed>>

\* three_ds_required (card only): neither the fraud gate nor the rail is asked.
CreateThreeDS(t, id, a) ==
  /\ "card" \in Rails
  /\ BeginCreate(t, id, StoreAndEmit(id, Transition(Draft("card", a), "3ds_pending")))
  /\ UNCHANGED <<audit, gateway, faults>>

\* The fraud service errs or blocks, or the rail refuses.
CreateFailed(t, id, r, a) ==
  /\ BeginCreate(t, id, StoreAndEmit(id, Transition(Draft(r, a), "failed")))
  /\ UNCHANGED <<audit, gateway, faults>>

\* The rail accepts, but the adapter reports an error (timeout, bad answer).
CreateReplyLost(t, id, r, a, n) ==
  /\ "reply_lost" \in Outcomes({"reply_lost"})
  /\ BeginCreate(t, id, StoreAndEmit(id, Transition(Draft(r, a), "failed")))
  /\ gateway' = [gateway EXCEPT ![id] = IF IsInstant(r) THEN RailSubmit(@, n)
                                        ELSE RailAuthorize(@)]
  /\ CountFault("reply_lost")
  /\ UNCHANGED audit

MutantInstantNoRow(t, id, r, a, n) ==
  LET authorized == Transition([Draft(r, a) EXCEPT !.captured = n], "authorized")
  IN /\ IsInstant(r)
     /\ BeginCreate(t, id, StoreAndEmit(id, Transition(authorized, "captured")))
     /\ gateway' = [gateway EXCEPT ![id] = RailSubmit(@, n)]
     /\ audit' = [audit EXCEPT ![id] = @ \cup {"authorized"}]
     /\ UNCHANGED faults

\* Instant rails: Submit, then both transitions, the first of them audited
\* before the intent is stored.
CreateInstant(t, id, r, a, n) ==
  LET authorized == Transition([Draft(r, a) EXCEPT !.captured = n], "authorized")
      steps == StoreAndEmit(id, Transition(authorized, "captured"))
  IN /\ IsInstant(r)
     /\ BeginCreate(t, id, << steps[1],
                              [op |-> "add_row", id |-> id, table |-> "captures",
                               amount |-> n],
                              steps[2] >>)
     /\ gateway' = [gateway EXCEPT ![id] = RailSubmit(@, n)]
     /\ audit' = [audit EXCEPT ![id] = @ \cup {"authorized"}]
     /\ UNCHANGED faults

CreateAuthorized(t, id, r, a) ==
  /\ ~IsInstant(r)
  /\ BeginCreate(t, id, StoreAndEmit(id, Transition(Draft(r, a), "authorized")))
  /\ gateway' = [gateway EXCEPT ![id] = RailAuthorize(@)]
  /\ UNCHANGED <<audit, faults>>

CreateIntent(t) ==
  \E id \in Intents, a \in IntentAmounts :
    \/ CreateThreeDS(t, id, a)
    \/ \E r \in Rails :
         \/ CreateFailed(t, id, r, a)
         \/ CreateAuthorized(t, id, r, a)
         \/ \E n \in SubmitAmounts \cup {a} :
              n <= RailLimit /\ (\/ CreateReplyLost(t, id, r, a, n)
                                 \/ CreateInstant(t, id, r, a, n))

-----------------------------------------------------------------------------
(* Capture, Void, Refund.                                                  *)

\* The amount asked for, or all of it when the request names none.
CaptureAmounts(i) ==
  {i.amount} \cup {a \in RequestAmounts : a > 0 /\ a <= Wrap(i.amount - i.captured)}

MutantCaptureNoSumCheck(i, a) == i.rail = "card" /\ i.status = "authorized"

MutantCaptureAnyStatus(i, a) == i.rail = "card" /\ Wrap(i.captured + a) <= i.amount

CaptureAllowed(i, a) ==
  /\ i.rail = "card"
  /\ i.status = "authorized"
  /\ Wrap(i.captured + a) <= i.amount

MutantCaptureReplaces(i, a) ==
  LET c == [i EXCEPT !.captured = a]
  IN IF c.captured >= c.amount THEN Transition(c, "captured") ELSE AppendEvent(c, "captured")

\* The capture that completes the amount moves the intent to captured; a
\* partial one leaves it authorized.
ApplyCapture(i, a) ==
  LET c == [i EXCEPT !.captured = Wrap(@ + a)]
  IN IF c.captured >= c.amount THEN Transition(c, "captured") ELSE AppendEvent(c, "captured")

AddRowOp(id, table, a) == << [op |-> "add_row", id |-> id, table |-> table, amount |-> a] >>

Capture(t, id, a, o) ==
  LET i == intents[id]
      c == ApplyCapture(i, a)
  IN /\ Idle(t)
     /\ id \in stored
     /\ CaptureAllowed(i, a)
     /\ gateway[id].captured + a <= RailLimit
     /\ gateway' = [gateway EXCEPT ![id] = RailCapture(@, a)]
     /\ UpdateIntentStep(t, id, c, TRUE, {c.status}, AddRowOp(id, "captures", a), o)
     /\ UNCHANGED <<issued, stored, rows, chargebacks, lapsed>>

Void(t, id, o) ==
  LET i == intents[id]
  IN /\ Idle(t)
     /\ id \in stored
     /\ i.status = "authorized"
     /\ gateway' = [gateway EXCEPT ![id] = RailVoid(@)]
     /\ UpdateIntentStep(t, id, Transition(i, "voided"), TRUE, {"voided"}, << >>, o)
     /\ UNCHANGED <<issued, stored, rows, chargebacks, lapsed>>

RefundAmounts(i) == {i.captured} \cup {a \in RequestAmounts : a > 0}

MutantRefundNoSumCheck(i, a) == i.status \in {"captured", "settled"}

RefundAllowed(i, a) ==
  /\ i.status \in {"captured", "settled"}
  /\ Wrap(i.refunded + a) <= i.captured

MutantRefundsAll(i, a) ==
  Transition(Transition([i EXCEPT !.refunded = i.captured], "refunding"), "refunded")

\* Both transitions in one call; from settled, which is terminal, the first
\* one fails after the rail has refunded and the amount has been added.
ApplyRefund(i, a) ==
  Transition(Transition([i EXCEPT !.refunded = Wrap(@ + a)], "refunding"), "refunded")

Refund(t, id, a, o) ==
  LET i  == intents[id]
      ok == TransitionAllowed(i, "refunding")
  IN /\ Idle(t)
     /\ id \in stored
     /\ RefundAllowed(i, a)
     /\ gateway[id].refunded + a <= RailLimit
     /\ gateway' = [gateway EXCEPT ![id] = RailRefund(@, a)]
     /\ UpdateIntentStep(t, id, ApplyRefund(i, a), ok, IF ok THEN {"refunded"} ELSE {},
                         AddRowOp(id, "refunds", a), o)
     /\ UNCHANGED <<issued, stored, rows, chargebacks, lapsed>>

-----------------------------------------------------------------------------
(* The 3DS challenge.                                                      *)

MutantIgnoresWindow(id) == lapsed' \in {lapsed, lapsed \cup {id}}

\* is3DSExpired is asked once, before the MPI and the rail are called.  The
\* lock on the row does not stop the clock: the window may end during the
\* calls, and what they say still counts.
BegunInWindow(id) ==
  /\ id \notin lapsed
  /\ lapsed' \in {lapsed, lapsed \cup {id}}

\* A failed challenge audits the failure and returns an error: MemStore keeps
\* the failed status, Postgres rolls it back.
ChallengeFails(t, id) ==
  /\ Idle(t)
  /\ id \in stored
  /\ intents[id].status = "3ds_pending"
  /\ UpdateIntentStep(t, id, Transition(intents[id], "failed"), FALSE, {"failed"}, << >>, "ok")
  /\ UNCHANGED <<issued, stored, rows, chargebacks>>

ChallengeExpired(t, id) ==
  /\ id \in lapsed
  /\ ChallengeFails(t, id)
  /\ UNCHANGED <<gateway, lapsed>>

\* The MPI, Verify3DS or Authorize says no.
ChallengeRefused(t, id) ==
  /\ BegunInWindow(id)
  /\ ChallengeFails(t, id)
  /\ UNCHANGED gateway

\* Authorize's answer is lost: the rail has authorized, the handler fails.
ChallengeReplyLost(t, id) ==
  /\ "reply_lost" \in Outcomes({"reply_lost"})
  /\ BegunInWindow(id)
  /\ Idle(t)
  /\ id \in stored
  /\ intents[id].status = "3ds_pending"
  /\ gateway' = [gateway EXCEPT ![id] = RailAuthorize(@)]
  /\ intents' = [intents EXCEPT ![id] = UpdateIntent(@, Transition(@, "failed"), FALSE)]
  /\ audit' = [audit EXCEPT ![id] = @ \cup {"failed"}]
  /\ CountFault("reply_lost")
  /\ UNCHANGED <<issued, stored, rows, chargebacks, todo>>

ChallengeVerified(t, id, o) ==
  /\ BegunInWindow(id)
  /\ Idle(t)
  /\ id \in stored
  /\ intents[id].status = "3ds_pending"
  /\ gateway' = [gateway EXCEPT ![id] = RailAuthorize(@)]
  /\ UpdateIntentStep(t, id, Transition(intents[id], "authorized"), TRUE, {"authorized"},
                      << >>, o)
  /\ UNCHANGED <<issued, stored, rows, chargebacks>>

\* The 3ds_pending event is older than ReplayWindow, between two requests.
WindowElapses(id) ==
  /\ id \in stored \ lapsed
  /\ intents[id].status = "3ds_pending"
  /\ lapsed' = lapsed \cup {id}
  /\ UNCHANGED <<issued, stored, intents, rows, chargebacks, audit, gateway, todo, faults>>

-----------------------------------------------------------------------------
(* Webhooks, once authenticated and de-duplicated.                         *)

MutantBreakIsStatus(i, a) ==
  LET s == Transition([i EXCEPT !.settled = Wrap(@ + a)], "settled")
  IN IF s.settled # s.captured THEN [s EXCEPT !.status = "reconciliation_break"] ELSE s

MutantBreakAgainstAmount(i, a) ==
  LET s == Transition([i EXCEPT !.settled = Wrap(@ + a)], "settled")
  IN IF s.settled # s.amount THEN AppendEvent(s, "reconciliation_break") ELSE s

ApplySettlement(i, a) ==
  LET s == Transition([i EXCEPT !.settled = Wrap(@ + a)], "settled")
  IN IF s.settled # s.captured THEN AppendEvent(s, "reconciliation_break") ELSE s

\* In any status but captured the settlement is noted and dropped.
Settlement(t, id, a, o) ==
  LET i == intents[id]
  IN /\ Idle(t)
     /\ id \in stored
     /\ i.status = "captured"
     /\ UpdateIntentStep(t, id, ApplySettlement(i, a), TRUE, {"settled"},
                         AddRowOp(id, "settlements", a), o)
     /\ UNCHANGED <<issued, stored, rows, chargebacks, gateway, lapsed>>

MutantOpensBeforeInsert(id, c, s, a, found) ==
  LET row == [case |-> c, stage |-> s]
      outcome == IF a = 0 THEN "chargeback_won" ELSE "chargeback_lost"
  IN IF ~found
     THEN (IF s = "opened" THEN << [op |-> "open_case", id |-> id] >> ELSE << >>) \o
          << [op |-> "add_case", id |-> id, row |-> row] >>
     ELSE << [op |-> "update_case", row |-> row] >> \o
          (IF s = "reversal"
           THEN << [op |-> "close_case", id |-> id, to |-> outcome] >>
           ELSE << >>)

\* The handler looks the case up, then inserts or updates it, then moves the
\* intent: three calls of the store, none of them under a common lock.
ChargebackSteps(id, c, s, a, found) ==
  LET row == [case |-> c, stage |-> s]
      outcome == IF a = 0 THEN "chargeback_won" ELSE "chargeback_lost"
  IN IF ~found
     THEN << [op |-> "add_case", id |-> id, row |-> row] >> \o
          (IF s = "opened" THEN << [op |-> "open_case", id |-> id] >> ELSE << >>)
     ELSE << [op |-> "update_case", row |-> row] >> \o
          (IF s = "reversal"
           THEN << [op |-> "close_case", id |-> id, to |-> outcome] >>
           ELSE << >>)

\* The rail may name any payment it was given, stored or not.  A failing
\* query (o = "sql_error") looks like no rows.
ChargebackWebhook(t, id, c, s, a, o) ==
  /\ Idle(t)
  /\ id \in issued
  /\ todo' = [todo EXCEPT ![t] =
                ChargebackSteps(id, c, s, a, HasCase(id, c) /\ o # "sql_error")]
  /\ CountFault(o)
  /\ UNCHANGED <<issued, stored, intents, rows, chargebacks, audit, gateway, lapsed>>

-----------------------------------------------------------------------------
(* What handlers do outside UpdateIntent.                                  *)

StoreIntent(t) ==
  LET h == Head(todo[t])
  IN /\ Doing(t, "create")
     /\ stored' = stored \cup {h.id}
     /\ intents' = [intents EXCEPT ![h.id] = h.intent]
     /\ PopOp(t)
     /\ UNCHANGED <<issued, rows, chargebacks, audit, gateway, lapsed, faults>>

MutantRowReplaces(r, table, a) == [r EXCEPT ![table] = a]

InsertRow(r, table, a) == [r EXCEPT ![table] = @ + a]

\* AddCapture, AddRefund and AddSettlement.
AddRow(t) ==
  LET h == Head(todo[t])
  IN /\ Doing(t, "add_row")
     /\ rows' = [rows EXCEPT ![h.id] = InsertRow(@, h.table, h.amount)]
     /\ PopOp(t)
     /\ UNCHANGED <<issued, stored, intents, chargebacks, audit, gateway, lapsed, faults>>

EmitTransition(t) ==
  LET h == Head(todo[t])
  IN /\ Doing(t, "emit")
     /\ audit' = [audit EXCEPT ![h.id] = @ \cup {h.to}]
     /\ PopOp(t)
     /\ UNCHANGED <<issued, stored, intents, rows, chargebacks, gateway, lapsed, faults>>

AddChargeback(t) ==
  LET h == Head(todo[t])
  IN /\ Doing(t, "add_case")
     /\ chargebacks' = IF StoreKind = "mem" THEN MemAddChargeback(h.id, h.row)
                       ELSE PgAddChargeback(h.id, h.row)
     /\ PopOp(t)
     /\ UNCHANGED <<issued, stored, intents, rows, audit, gateway, lapsed, faults>>

\* The first matching row of any intent that has the case: MemStore ranges
\* over a map of intents, and in Postgres a case is unique.
UpdateChargeback(t) ==
  LET h == Head(todo[t])
      First(id, k) == /\ chargebacks[id][k].case = h.row.case
                      /\ \A m \in 1 .. (k - 1) : chargebacks[id][m].case # h.row.case
  IN /\ Doing(t, "update_case")
     /\ \/ /\ \A id \in Intents : ~HasCase(id, h.row.case)
           /\ UNCHANGED chargebacks
        \/ \E id \in Intents : \E k \in DOMAIN chargebacks[id] :
             /\ First(id, k)
             /\ chargebacks' = [chargebacks EXCEPT ![id][k] = h.row]
     /\ PopOp(t)
     /\ UNCHANGED <<issued, stored, intents, rows, audit, gateway, lapsed, faults>>

\* UpdateIntent moves the intent to `to' if its status is one of `from'; in
\* another status, or when the intent is unknown, the webhook is acknowledged
\* all the same.
DisputeStep(t, id, from, to, o) ==
  LET i     == intents[id]
      moves == id \in stored /\ i.status \in from
      ok    == TransitionAllowed(i, to)
  IN /\ IF moves
        THEN UpdateIntentStep(t, id, Transition(i, to), ok, IF ok THEN {to} ELSE {},
                              Tail(todo[t]), o)
        ELSE o = "ok" /\ PopOp(t) /\ UNCHANGED <<intents, audit, faults>>
     /\ UNCHANGED <<issued, stored, rows, chargebacks, gateway, lapsed>>

OpenDispute(t, o) ==
  /\ Doing(t, "open_case")
  /\ DisputeStep(t, Head(todo[t]).id, {"captured", "settled"}, "charged_back", o)

CloseDispute(t, o) ==
  /\ Doing(t, "close_case")
  /\ DisputeStep(t, Head(todo[t]).id, {"charged_back"}, Head(todo[t]).to, o)

\* Postgres inserts and case updates discard their errors.
InsertLost(t) ==
  /\ "sql_error" \in Outcomes({"sql_error"})
  /\ \E op \in {"create", "add_row", "add_case", "update_case"} : Doing(t, op)
  /\ PopOp(t)
  /\ CountFault("sql_error")
  /\ UNCHANGED <<issued, stored, intents, rows, chargebacks, audit, gateway, lapsed>>

Crash(t) ==
  /\ "crash" \in Outcomes({"crash"})
  /\ ~Idle(t)
  /\ todo' = [todo EXCEPT ![t] = << >>]
  /\ CountFault("crash")
  /\ UNCHANGED <<issued, stored, intents, rows, chargebacks, audit, gateway, lapsed>>

-----------------------------------------------------------------------------
Request(t) ==
  \/ CreateIntent(t)
  \/ \E id \in Intents :
       \/ \E a \in CaptureAmounts(intents[id]) :
            \E o \in Outcomes({"reply_lost", "sql_error", "crash"}) : Capture(t, id, a, o)
       \/ \E o \in Outcomes({"reply_lost", "sql_error", "crash"}) : Void(t, id, o)
       \/ \E a \in RefundAmounts(intents[id]) :
            \E o \in Outcomes({"reply_lost", "sql_error", "crash"}) : Refund(t, id, a, o)
       \/ ChallengeExpired(t, id)
       \/ ChallengeRefused(t, id)
       \/ ChallengeReplyLost(t, id)
       \/ \E o \in Outcomes({"sql_error", "crash"}) : ChallengeVerified(t, id, o)
       \/ \E a \in WebhookAmounts :
            \E o \in Outcomes({"sql_error", "crash"}) : Settlement(t, id, a, o)
       \/ \E c \in Cases, s \in ChargebackStage, a \in WebhookAmounts :
            \E o \in Outcomes({"sql_error"}) : ChargebackWebhook(t, id, c, s, a, o)

Continue(t) ==
  \/ StoreIntent(t)
  \/ AddRow(t)
  \/ EmitTransition(t)
  \/ AddChargeback(t)
  \/ UpdateChargeback(t)
  \/ \E o \in Outcomes({"sql_error", "crash"}) : OpenDispute(t, o)
  \/ \E o \in Outcomes({"sql_error", "crash"}) : CloseDispute(t, o)

Next ==
  \/ \E t \in Threads : Request(t) \/ Continue(t) \/ InsertLost(t) \/ Crash(t)
  \/ \E id \in Intents : WindowElapses(id)

Spec == Init /\ [][Next]_vars

\* A goroutine that has started a handler is scheduled until it returns;
\* whether a client or a rail ever sends another request is up to them.
FairSpec == Spec /\ \A t \in Threads : WF_vars(Continue(t))

-----------------------------------------------------------------------------
(* Properties.                                                             *)

TypeOK ==
  /\ issued \subseteq Intents
  /\ stored \subseteq Intents
  /\ intents \in [Intents -> Intent]
  /\ rows \in [Intents -> [Table -> Int]]
  /\ chargebacks \in [Intents -> Seq(CaseRow)]
  /\ audit \in [Intents -> SUBSET Status]
  /\ gateway \in [Intents -> Ledger]
  /\ lapsed \subseteq Intents
  /\ todo \in [Threads -> Seq(Op)]
  /\ faults \in Nat

\* The service never books money the rail has not moved: whatever reply is
\* lost, commit fails or process stops, the captured and refunded amounts of
\* an intent stay within what Capture, Submit and Refund had the rail do, and
\* an intent counts as authorized only if the rail authorized it.
BooksWithinRail ==
  \A id \in stored :
    /\ intents[id].captured <= gateway[id].captured
    /\ intents[id].refunded <= gateway[id].refunded
    /\ intents[id].status \notin {"intent", "3ds_pending", "failed"} =>
         "authorize" \in gateway[id].done

\* The books fall behind what Capture and Submit had the rail capture only if
\* something failed: however partial captures, voids and rejected requests of
\* several handlers mix, each capture is booked, once and in full.
CaptureDriftNeedsFault ==
  \A id \in stored : intents[id].captured # gateway[id].captured => faults > 0

\* Card captures sum up within the authorized amount: an authorized intent has
\* something left to capture, and one that has left authorized by Capture has
\* been captured in full.
CaptureWithinAuthorization ==
  \A id \in stored :
    LET i == intents[id]
    IN i.rail = "card" =>
         /\ 0 <= i.captured /\ i.captured <= i.amount
         /\ i.status = "authorized" => i.captured < i.amount
         /\ i.status \in {"captured", "settled", "refunded", "charged_back",
                          "chargeback_won", "chargeback_lost"} => i.captured = i.amount

\* The refunded amount Refund books never exceeds the captured amount.
RefundWithinCapture ==
  \A id \in stored : 0 <= intents[id].refunded /\ intents[id].refunded <= intents[id].captured

\* A settled intent whose settled and captured amounts differ carries the
\* reconciliation break of handleSettlementWebhook.
BreakSurfaced ==
  \A id \in stored :
    LET i == intents[id]
    IN "settled" \in i.history /\ i.settled # i.captured => "reconciliation_break" \in i.history

\* A payment that has not passed its challenge when the 3DS window is over never
\* will: no later request has the rail authorize, capture or refund it or takes
\* it out of 3ds_pending and failed, although on Postgres it stays 3ds_pending
\* and the challenge may be posted again and again.
LapsedMovesNoMoney ==
  [][\A id \in lapsed : intents[id].status \in {"3ds_pending", "failed"} =>
       /\ gateway'[id] = gateway[id]
       /\ intents'[id].status \in {"3ds_pending", "failed"}]_vars

\* The audit stream never reports a state the intent was not moved to: each
\* audited state is in the history of the stored intent.
AuditSound ==
  \A id \in stored : audit[id] \subseteq intents[id].history

\* Once the handler that created it is done, the status of an intent has been
\* audited.
AuditComplete ==
  \A id \in stored :
    (\A t \in Threads : \A k \in DOMAIN todo[t] :
       todo[t][k].op = "emit" => todo[t][k].id # id) => intents[id].status \in audit[id]

\* An intent is never in a dispute state without a chargeback row to explain
\* it, although the row and the status are written by separate calls.
DisputeRecorded ==
  \A id \in stored :
    intents[id].status \in {"charged_back", "chargeback_won", "chargeback_lost"} =>
      chargebacks[id] # << >>

\* After Void has had the rail cancel a payment, no later request has the rail
\* capture or refund it.
VoidIsFinalAtRail ==
  [][\A id \in Intents : "void" \in gateway[id].done =>
       /\ gateway'[id].captured = gateway[id].captured
       /\ gateway'[id].refunded = gateway[id].refunded]_vars

\* The amount of the row of `table' for id that the program q has yet to insert.
Owed(q, id, table) ==
  LET due == {k \in DOMAIN q : q[k].op = "add_row" /\ q[k].id = id /\ q[k].table = table}
  IN IF due = {} THEN 0 ELSE q[CHOOSE k \in due : TRUE].amount

\* What the programs of all threads have yet to insert.
InFlight(programs, id, table) == SumFunction([t \in Threads |-> Owed(programs[t], id, table)])

\* On MemStore the captures, refunds and settlements tables and the amounts of
\* the intent never drift apart: they differ by the rows that Capture, Refund,
\* CreateIntent and handleSettlementWebhook are still about to insert.
RowsMatchBooks ==
  \A id \in stored :
    /\ intents[id].captured = rows[id]["captures"] + InFlight(todo, id, "captures")
    /\ intents[id].refunded = rows[id]["refunds"] + InFlight(todo, id, "refunds")
    /\ intents[id].settled = rows[id]["settlements"] + InFlight(todo, id, "settlements")

\* What the rail has captured or refunded for a payment is in the end in the
\* captures and refunds tables: the handler inserts the row it has prepared.
MoneyRecorded ==
  \A id \in Intents :
    /\ gateway[id].captured > 0 ~> rows[id]["captures"] = gateway[id].captured
    /\ gateway[id].refunded > 0 ~> rows[id]["refunds"] = gateway[id].refunded

\* A client sees one payment move as PaymentLifecycle says.
Seen(id) ==
  IF id \in stored
  THEN [status |-> intents[id].status, amount |-> intents[id].amount,
        captured |-> intents[id].captured, refunded |-> intents[id].refunded]
  ELSE [status |-> "unknown", amount |-> 0, captured |-> 0, refunded |-> 0]

seen == [id \in Intents |-> Seen(id)]

Lifecycle == INSTANCE PaymentLifecycle WITH Payments <- Intents, payment <- seen

\* On Postgres, under every fault, the intents table implements the lifecycle of
\* a payment.
LifecycleSpec == Lifecycle!Spec
-----------------------------------------------------------------------------
(* The inductive invariant behind the safety properties.                   *)

\* No sum of two amounts the handlers add for one intent overflows.
AmountsFit == \A a \in IntentAmounts : 2 * a <= MaxInt

\* The rail refuses before its total for one payment overflows an amount.
RailFits == RailLimit <= MaxInt

\* What holds of an intent i and of the rail's ledger g for it.  Beyond the
\* properties above it says that nothing is captured before authorization and
\* that on Postgres only a refunded intent has anything refunded: this is why
\* the sum Refund checks cannot overflow there.
Sound(i, g) ==
  /\ 0 < i.amount /\ 2 * i.amount <= MaxInt
  /\ 0 <= i.captured /\ i.captured <= g.captured
  /\ i.refunded <= g.refunded
  /\ i.status \in {"intent", "3ds_pending", "failed"} => i.captured = 0
  /\ i.status \notin {"intent", "3ds_pending", "failed"} => "authorize" \in g.done
  /\ i.rail = "card" =>
       /\ i.captured <= i.amount
       /\ i.status = "authorized" => i.captured < i.amount
       /\ i.status \in {"captured", "settled", "refunding", "refunded", "charged_back",
                        "chargeback_won", "chargeback_lost"} => i.captured = i.amount
  /\ StoreKind = "postgres" =>
       /\ 0 <= i.refunded /\ i.refunded <= i.captured
       /\ i.status # "refunded" => i.refunded = 0

NoCreate(s) == \A k \in DOMAIN s : s[k].op # "create"

\* A handler stores at most one intent, first of all; until then no other
\* thread can touch its id.
DraftsSound ==
  /\ stored \subseteq issued
  /\ \A t \in Threads : todo[t] # << >> =>
       /\ NoCreate(Tail(todo[t]))
       /\ Head(todo[t]).op = "create" =>
            /\ Head(todo[t]).id \in issued \ stored
            /\ Sound(Head(todo[t]).intent, gateway[Head(todo[t]).id])
  /\ \A t, u \in Threads :
       Doing(t, "create") /\ Doing(u, "create") /\ Head(todo[t]).id = Head(todo[u]).id => t = u

RailAmounts == \A id \in Intents : 0 <= gateway[id].captured /\ 0 <= gateway[id].refunded

SafetyInv ==
  /\ TypeOK
  /\ RailAmounts
  /\ DraftsSound
  /\ \A id \in stored : Sound(intents[id], gateway[id])
=============================================================================
