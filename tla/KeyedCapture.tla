---------------------------- MODULE KeyedCapture ----------------------------
(***************************************************************************)
(* Capture behind its idempotency key: what replayOrContinueStore promises *)
(* of a handler, and what PaymentService says the handler does, together.  *)
(* Calls of one client's captures of one authorized card payment meet on   *)
(* Postgres and on either idempotency store.  While a call is at "run" its *)
(* handler has the rail capture, commits, and inserts the row; the status  *)
(* it returns is what is kept under the key and replayed.                  *)
(***************************************************************************)
EXTENDS Idempotency, Sequences

CONSTANTS
  Amount,         \* authorized on the payment
  RequestAmounts, \* amounts of the capture requests, besides all of it
  BookFaults      \* faults of the rail and of Postgres, counted with the others

ASSUME KeyedAssumption ==
  /\ Amount \in Nat \ {0}
  /\ RequestAmounts \subseteq Int
  /\ BookFaults \subseteq {"reply_lost", "sql_error"}

VARIABLES
  issued, stored, intents, rows, chargebacks, audit, gateway, lapsed, todo,
  reply,      \* per call, what its handler has come to
  promised,   \* sum of the captures that calls have been answered 200 for
  spent       \* per key, captures the rail made since the claim, for a TTL

books == <<issued, stored, intents, rows, chargebacks, audit, gateway, lapsed, todo>>

payment == "p"

P == INSTANCE PaymentService WITH
       Threads <- Callers, Intents <- {payment}, Rails <- {"card"},
       IntentAmounts <- {Amount}, SubmitAmounts <- {}, WebhookAmounts <- {}, Cases <- {},
       StoreKind <- "postgres", Faults <- BookFaults, RailLimit <- 2 * Amount,
       MaxInt <- 4 * Amount

keyedVars == <<vars, books, reply, promised, spent>>

Pending == -1   \* the handler has not come to a result
Refused == 0    \* it ends in an error status; any other reply is the amount of a 200

KeyedInit ==
  /\ Init
  /\ issued = {payment} /\ stored = {payment}
  /\ intents = [p \in {payment} |-> P!Transition(P!Draft("card", Amount), "authorized")]
  /\ rows = [p \in {payment} |-> [x \in P!Table |-> 0]]
  /\ chargebacks = [p \in {payment} |-> << >>]
  /\ audit = [p \in {payment} |-> {"authorized"}]
  /\ gateway = [p \in {payment} |-> P!RailAuthorize(P!EmptyLedger)]
  /\ lapsed = {}
  /\ todo = [c \in Callers |-> << >>]
  /\ reply = [c \in Callers |-> Pending]
  /\ promised = 0
  /\ spent = [k \in Keys |-> 0]

-----------------------------------------------------------------------------
(* The handler of a call that holds the claim.                             *)

Answers(c, n) == reply' = [reply EXCEPT ![c] = n]

Undecided(c) == At(c, "run") /\ reply[c] = Pending

Spends(c) == spent' = [spent EXCEPT ![call[c].key] = @ + 1]

MutantRetriesRail(c, a, o) ==
  /\ Undecided(c)
  /\ P!Capture(c, payment, a, o)
  /\ Answers(c, IF o = "ok" THEN a ELSE IF o = "reply_lost" THEN Pending ELSE Refused)
  /\ Spends(c)
  /\ UNCHANGED <<backend, claim, response, call, ran, answered, promised>>

MutantIgnoresError(c, a, o) ==
  /\ Undecided(c)
  /\ P!Capture(c, payment, a, o)
  /\ Answers(c, IF o = "reply_lost" THEN Refused ELSE a)
  /\ Spends(c)
  /\ UNCHANGED <<backend, claim, response, call, ran, answered, promised>>

\* The rail captures; a lost answer and a failed commit are both 502.
RunCapture(c, a, o) ==
  /\ Undecided(c)
  /\ P!Capture(c, payment, a, o)
  /\ Answers(c, IF o = "ok" THEN a ELSE Refused)
  /\ Spends(c)
  /\ UNCHANGED <<backend, claim, response, call, ran, answered, promised>>

\* The amount or the status does not allow it, or the rail declines.
RefuseCapture(c) ==
  /\ Undecided(c)
  /\ Answers(c, Refused)
  /\ UNCHANGED <<vars, books, promised, spent>>

InsertCapture(c) ==
  /\ P!AddRow(c) \/ P!InsertLost(c)
  /\ UNCHANGED <<backend, claim, response, call, ran, answered, reply, promised, spent>>

ReturnStatus(c) ==
  /\ reply[c] # Pending
  /\ P!Idle(c)
  /\ Handle(c)
  /\ UNCHANGED <<books, reply, promised, spent>>

-----------------------------------------------------------------------------
(* The steps of replayOrContinueStore around it.                           *)

\* The client is told the status.
TellsClient(c) ==
  /\ promised' = promised + reply[c]
  /\ Answers(c, Pending)
  /\ UNCHANGED <<books, spent>>

KeyedStoreResponse(c) == StoreResponse(c) /\ TellsClient(c)

KeyedAnswerUnstored(c) == AnswerUnstored(c) /\ TellsClient(c)

\* The call ends without a response under its key.
Abandons(c) ==
  /\ todo' = [todo EXCEPT ![c] = << >>]
  /\ Answers(c, Pending)
  /\ UNCHANGED <<issued, stored, rows, chargebacks, lapsed, promised>>

KeyedFault(c) ==
  /\ \/ StoreFails(c)
     \/ ResponseLost(c)
     \/ Undecided(c) /\ Panic(c)
     \/ Crash(c)
  /\ Abandons(c)
  /\ UNCHANGED <<intents, audit, gateway, spent>>

\* The process stops after the rail has captured and before the commit.
CrashInCapture(c, a) ==
  /\ Undecided(c)
  /\ Crash(c)
  /\ P!Capture(c, payment, a, "crash")
  /\ Answers(c, Pending)
  /\ Spends(c)
  /\ UNCHANGED promised

KeyedTick ==
  /\ Tick
  /\ spent' = [k \in Keys |-> IF ran'[k] = 0 THEN 0 ELSE spent[k]]
  /\ UNCHANGED <<books, reply, promised>>

KeyedProceed(c) ==
  \/ /\ LookupResponse(c) \/ Claim(c) \/ Conflict(c)
     /\ UNCHANGED <<books, reply, promised, spent>>
  \/ \E a \in P!CaptureAmounts(intents[payment]) :
       \E o \in P!Outcomes({"reply_lost", "sql_error"}) : RunCapture(c, a, o)
  \/ RefuseCapture(c)
  \/ InsertCapture(c)
  \/ ReturnStatus(c)
  \/ KeyedStoreResponse(c)

KeyedNext ==
  \/ \E c \in Callers :
       \/ \E k \in Keys : Begin(c, k) /\ UNCHANGED <<books, reply, promised, spent>>
       \/ KeyedProceed(c)
       \/ KeyedFault(c)
       \/ KeyedAnswerUnstored(c)
       \/ \E a \in P!CaptureAmounts(intents[payment]) : CrashInCapture(c, a)
  \/ KeyedTick

\* Time goes on, and so does a call that has begun.
KeyedSpec == KeyedInit /\ [][KeyedNext]_keyedVars
                       /\ WF_keyedVars(KeyedTick)
                       /\ \A c \in Callers : WF_keyedVars(KeyedProceed(c))

-----------------------------------------------------------------------------
(* Properties, besides those of Idempotency, which hold here too.          *)

\* However often a client repeats a capture with its key, and whatever is lost
\* in between, the rail captures at most once under it within a TTL.
RailMovesOncePerTTL == \A k \in Keys : spent[k] <= 1

\* The captures that clients have been answered 200 for, each of them once
\* however often the answer is replayed, are all of them in the books and at
\* the rail, although commits fail and answers of the rail get lost.
AnsweredIsBooked ==
  /\ promised <= intents[payment].captured
  /\ intents[payment].captured <= gateway[payment].captured
=============================================================================
